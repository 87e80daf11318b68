------------------------- MODULE CallPipelineProofs --------------------------
(***************************************************************************)
(* The safety of CallPipeline for every observer, every pair of channel    *)
(* capacities and bodies of any length; and, for the observer of           *)
(* UsageStream, that cutting a body into chunks changes nothing.           *)
(***************************************************************************)
EXTENDS MeteredCall, SequenceTheorems, WellFoundedInduction, TLAPS

(***************************************************************************)
(* What the observer of UsageStream gathers from a body in two pieces is   *)
(* what it gathers from the whole.                                         *)
(***************************************************************************)
\* Every set of naturals has a least element, so what holds of 0 and of the successor of
\* whatever it holds of holds of all of them.
LEMMA Least ==
  ASSUME NEW S, S \subseteq Nat, S # {}
  PROVE  \E s \in S : \A r \in S : s <= r
<1>1. PICK s \in S : \A r \in S : ~(<<r, s>> \in OpToRel(<, Nat))
  BY NatLessThanWellFounded, WFMin
<1>2. \A r \in S : ~(r < s)
  BY <1>1 DEF OpToRel
<1> QED
  BY <1>2

LEMMA Climb ==
  ASSUME NEW P, 0 \in P, \A n \in Nat : n \in P => n + 1 \in P
  PROVE  Nat \subseteq P
<1> SUFFICES ASSUME Nat \ P # {} PROVE FALSE
  OBVIOUS
<1>1. PICK n \in Nat \ P : \A r \in Nat \ P : n <= r
  BY Least
<1>2. n # 0 /\ n - 1 \in Nat
  BY <1>1
<1>3. n - 1 \in P
  BY <1>1, <1>2
<1>4. (n - 1) + 1 \in P
  BY <1>2, <1>3
<1> QED
  BY <1>1, <1>4

\* The last and the first of some positions; 0 stands for none.
LEMMA LastIs ==
  ASSUME NEW n \in Nat, NEW S, S \subseteq 1..n
  PROVE  /\ Max0(S) \in 0..n /\ \A y \in S : y <= Max0(S)
         /\ IF S = {} THEN Max0(S) = 0 ELSE Max0(S) \in S
<1>0. \A y \in S : y \in Nat /\ 1 <= y /\ y <= n /\ y \in 0..n
  OBVIOUS
<1>1. CASE S = {}
  BY <1>1 DEF Max0
<1>2. CASE S # {}
  <2> DEFINE Above == {u \in Nat : \A y \in S : y <= u}
  <2>1. n \in Above /\ Above \subseteq Nat
    OBVIOUS
  <2> HIDE DEF Above
  <2>2. PICK u \in Above : \A v \in Above : u <= v
    BY <2>1, Least
  <2>3. u \in Nat /\ \A y \in S : y <= u
    BY <2>2 DEF Above
  <2>4. u \in S
    <3> SUFFICES ASSUME u \notin S PROVE FALSE
      OBVIOUS
    <3>1. \A y \in S : y \in Nat /\ 1 <= y /\ y < u
      <4> SUFFICES ASSUME NEW y \in S PROVE y \in Nat /\ 1 <= y /\ y < u
        OBVIOUS
      <4>1. y # u
        OBVIOUS
      <4> QED
        BY <1>0, <2>3, <4>1
    <3>2. u - 1 \in Nat /\ \A y \in S : y <= u - 1
      <4>1. \A y \in S : y <= u - 1
        BY <2>3, <3>1
      <4>2. PICK y \in S : TRUE
        BY <1>2
      <4>3. y \in Nat /\ 1 <= y /\ y < u
        BY <3>1, <4>2
      <4> QED
        BY <2>3, <4>1, <4>3
    <3>3. u - 1 \in Above
      BY <3>2 DEF Above
    <3> QED
      BY <2>2, <2>3, <3>3
  <2>5. Max0(S) \in S /\ \A y \in S : y <= Max0(S)
    BY <1>2, <2>3, <2>4 DEF Max0
  <2> QED
    BY <1>0, <1>2, <2>5
<1> QED
  BY <1>1, <1>2

LEMMA FirstIs ==
  ASSUME NEW n \in Nat, NEW S, S \subseteq 1..n
  PROVE  /\ Min0(S) \in 0..n /\ \A y \in S : Min0(S) <= y
         /\ IF S = {} THEN Min0(S) = 0 ELSE Min0(S) \in S
<1>0. S \subseteq Nat /\ S \subseteq 0..n
  OBVIOUS
<1>1. CASE S = {}
  BY <1>1 DEF Min0
<1>2. CASE S # {}
  <2>1. PICK u \in S : \A y \in S : u <= y
    BY <1>0, <1>2, Least
  <2>2. Min0(S) \in S /\ \A y \in S : Min0(S) <= y
    BY <1>2, <2>1 DEF Min0
  <2> QED
    BY <1>0, <1>2, <2>2
<1> QED
  BY <1>1, <1>2

LEMMA PlacesOf ==
  ASSUME NEW bytes \in Seq(Unit), NEW units
  PROVE  /\ Len(bytes) \in Nat /\ DOMAIN bytes = 1..Len(bytes)
         /\ Positions(bytes, units) \subseteq 1..Len(bytes)
         /\ \A i : i \in Positions(bytes, units) <=> i \in 1..Len(bytes) /\ bytes[i] \in units
BY DEF Positions

\* The runs of OpenSince.
Opening(bytes, n, open) ==
  open = [i \in 0..n |->
            IF i = 0 THEN 0
            ELSE LET from == open[i - 1] IN IF Closes(bytes, from, i) THEN i ELSE from]

Next0(bytes, open, i) ==
  IF i = 0 THEN 0
  ELSE IF Closes(bytes, open[i - 1], i) THEN i ELSE open[i - 1]

LEMMA OpeningIs ==
  ASSUME NEW bytes, NEW n, NEW open
  PROVE  Opening(bytes, n, open) <=> open = [i \in 0..n |-> Next0(bytes, open, i)]
BY DEF Opening, Next0

LEMMA OpeningExists ==
  ASSUME NEW bytes, NEW n \in Nat
  PROVE  \E open : Opening(bytes, n, open)
<1> DEFINE P == {m \in Nat : \E open : open = [i \in 0..m |-> Next0(bytes, open, i)]}
<1>1. 0 \in P
  <2> DEFINE open == [i \in 0..0 |-> 0]
  <2>1. open = [i \in 0..0 |-> Next0(bytes, open, i)]
    BY DEF Next0
  <2> HIDE DEF open
  <2> QED
    BY <2>1
<1>2. ASSUME NEW m \in Nat, m \in P PROVE m + 1 \in P
  <2>1. PICK open : open = [i \in 0..m |-> Next0(bytes, open, i)]
    BY <1>2
  <2> DEFINE more == [i \in 0..m + 1 |-> IF i = m + 1 THEN Next0(bytes, open, m + 1) ELSE open[i]]
  <2>2. \A i \in 0..m : open[i] = Next0(bytes, open, i)
    BY <2>1
  <2>3. \A i \in 0..m + 1 : more[i] = Next0(bytes, more, i)
    <3> SUFFICES ASSUME NEW i \in 0..m + 1 PROVE more[i] = Next0(bytes, more, i)
      OBVIOUS
    <3>1. CASE i = 0
      <4>1. more[i] = open[0] /\ open[0] = Next0(bytes, open, 0)
        BY <2>2, <3>1
      <4> HIDE DEF more
      <4> QED
        BY <3>1, <4>1 DEF Next0
    <3>2. CASE i \in 1..m
      <4>1. more[i] = open[i] /\ more[i - 1] = open[i - 1] /\ i \in 0..m /\ i # 0
        BY <3>2
      <4> HIDE DEF more
      <4> QED
        BY <2>2, <4>1 DEF Next0
    <3>3. CASE i = m + 1
      <4>1. i # 0 /\ i - 1 = m /\ more[i] = Next0(bytes, open, m + 1) /\ more[m] = open[m]
        BY <3>3
      <4> HIDE DEF more
      <4> QED
        BY <3>3, <4>1 DEF Next0
    <3> QED
      BY <3>1, <3>2, <3>3
  <2>4. more = [i \in 0..m + 1 |-> more[i]]
    OBVIOUS
  <2> HIDE DEF more
  <2>5. more = [i \in 0..m + 1 |-> Next0(bytes, more, i)]
    BY <2>3, <2>4
  <2> QED
    BY <2>5
<1> HIDE DEF P
<1>3. Nat \subseteq P
  BY <1>1, <1>2, Climb
<1>4. \E open : open = [i \in 0..n |-> Next0(bytes, open, i)]
  BY <1>3 DEF P
<1> QED
  BY <1>4, OpeningIs

\* After one unit more: either the event ends there, or it goes on.
LEMMA OpenStep ==
  ASSUME NEW bytes \in Seq(Unit)
  PROVE  /\ OpenSince(bytes)[0] = 0
         /\ \A i \in 1..Len(bytes) :
              OpenSince(bytes)[i] = IF Closes(bytes, OpenSince(bytes)[i - 1], i) THEN i
                                    ELSE OpenSince(bytes)[i - 1]
<1> DEFINE open == OpenSince(bytes)
<1>1. Len(bytes) \in Nat
  BY PlacesOf
<1>2. open = CHOOSE o : Opening(bytes, Len(bytes), o)
  BY DEF OpenSince, Opening
<1>3. Opening(bytes, Len(bytes), open)
  BY <1>1, <1>2, OpeningExists
<1> HIDE DEF open
<1>4. \A i \in 0..Len(bytes) : open[i] = Next0(bytes, open, i)
  <2>1. open = [i \in 0..Len(bytes) |-> Next0(bytes, open, i)]
    BY <1>3, OpeningIs
  <2> QED
    BY <2>1
<1>5. open[0] = 0
  BY <1>1, <1>4 DEF Next0
<1>6. ASSUME NEW i \in 1..Len(bytes)
      PROVE  open[i] = IF Closes(bytes, open[i - 1], i) THEN i ELSE open[i - 1]
  BY <1>1, <1>4 DEF Next0
<1> QED
  BY <1>5, <1>6 DEF open

\* An event begins before where we are, where the one before it ended, and later for more
\* units.
LEMMA OpenIs ==
  ASSUME NEW bytes \in Seq(Unit), NEW i \in 0..Len(bytes)
  PROVE  /\ OpenSince(bytes)[i] \in Nat /\ OpenSince(bytes)[i] <= i
         /\ OpenSince(bytes)[OpenSince(bytes)[i]] = OpenSince(bytes)[i]
         /\ \A k \in 0..i : OpenSince(bytes)[k] <= OpenSince(bytes)[i]
<1> DEFINE o == OpenSince(bytes)
           Good(n) == /\ o[n] \in Nat /\ o[n] <= n /\ o[o[n]] = o[n]
                      /\ \A k \in 0..n : o[k] \in Nat /\ o[k] <= o[n]
           P == {n \in Nat : n <= Len(bytes) => Good(n)}
<1>0. Len(bytes) \in Nat
  BY PlacesOf
<1>1. /\ o[0] = 0
      /\ \A n \in 1..Len(bytes) : o[n] = n \/ o[n] = o[n - 1]
  BY OpenStep
<1> HIDE DEF o
<1>2. 0 \in P
  <2>1. Good(0)
    BY <1>1
  <2> QED
    BY <2>1
<1>3. ASSUME NEW n \in Nat, n \in P PROVE n + 1 \in P
  <2> SUFFICES ASSUME n + 1 <= Len(bytes) PROVE Good(n + 1)
    OBVIOUS
  <2>1. Good(n) /\ n + 1 \in 1..Len(bytes) /\ (n + 1) - 1 = n
    BY <1>0, <1>3
  <2>2. o[n + 1] = n + 1 \/ o[n + 1] = o[n]
    BY <1>1, <2>1
  <2>3. \A k \in 0..n + 1 : k \in 0..n \/ k = n + 1
    OBVIOUS
  <2>4. CASE o[n + 1] = n + 1
    <3>1. \A k \in 0..n : o[k] \in Nat /\ o[k] <= n + 1
      BY <2>1
    <3> QED
      BY <2>3, <2>4, <3>1
  <2>5. CASE o[n + 1] = o[n]
    BY <2>1, <2>3, <2>5
  <2> QED
    BY <2>2, <2>4, <2>5
<1> HIDE DEF P
<1>4. Nat \subseteq P
  BY <1>2, <1>3, Climb
<1>5. Good(i)
  BY <1>0, <1>4 DEF P
<1> QED
  BY <1>5 DEF o

LEMMA EndsAre ==
  ASSUME NEW bytes \in Seq(Unit)
  PROVE  /\ Ends(bytes) \subseteq 1..Len(bytes) /\ Len(bytes) \in Nat
         /\ \A e : e \in Ends(bytes) <=> e \in 1..Len(bytes) /\ OpenSince(bytes)[e] = e
BY PlacesOf DEF Ends

LEMMA LastEndIs ==
  ASSUME NEW bytes \in Seq(Unit)
  PROVE  /\ LastEnd(bytes) \in 0..Len(bytes) /\ LastEnd(bytes) \in Nat
         /\ \A e \in Ends(bytes) : e <= LastEnd(bytes)
         /\ LastEnd(bytes) = 0 \/ LastEnd(bytes) \in Ends(bytes)
         /\ OpenSince(bytes)[LastEnd(bytes)] = LastEnd(bytes)
<1> DEFINE o == OpenSince(bytes)
           n == Len(bytes)
           l == LastEnd(bytes)
<1>1. n \in Nat /\ n \in 0..n
  BY PlacesOf
<1>2. l \in Nat /\ l <= n /\ o[l] = l /\ \A k \in 0..n : o[k] <= l
  BY <1>1, OpenIs DEF LastEnd
<1>3. \A e : e \in Ends(bytes) <=> e \in 1..n /\ o[e] = e
  BY EndsAre
<1> HIDE DEF o, l
<1>4. \A e \in Ends(bytes) : e \in 0..n /\ e <= l
  BY <1>1, <1>2, <1>3
<1>5. l = 0 \/ l \in Ends(bytes)
  BY <1>1, <1>2, <1>3
<1> QED
  BY <1>1, <1>2, <1>4, <1>5 DEF o, l

(***************************************************************************)
(* A body cut in two.  p and y are its parts, b is what the splitter has   *)
(* before it at the second push, w the whole, m where p's events end.      *)
(***************************************************************************)
Cut(p, b, w, m) ==
  /\ p \in Seq(Unit) /\ b \in Seq(Unit) /\ w \in Seq(Unit)
  /\ m = LastEnd(p) /\ Len(w) = m + Len(b)
  /\ \A i \in 1..m : w[i] = p[i]
  /\ \A j \in 1..Len(b) : w[m + j] = b[j]

LEMMA CutAnywhere ==
  ASSUME NEW p \in Seq(Unit), NEW y \in Seq(Unit)
  PROVE  /\ Rest(p) \in Seq(Unit) /\ Rest(p) \o y \in Seq(Unit)
         /\ Cut(p, Rest(p) \o y, p \o y, LastEnd(p))
<1> DEFINE m == LastEnd(p)
           r == Rest(p)
           w == p \o y
           b == r \o y
<1>1. m \in Nat /\ m <= Len(p) /\ Len(p) \in Nat /\ Len(y) \in Nat
  BY LastEndIs, LenProperties
<1>2. r = SubSeq(p, m + 1, Len(p))
  BY DEF Rest
<1> HIDE DEF m, r
<1>3. /\ r \in Seq(Unit) /\ Len(r) = Len(p) - m
      /\ \A i \in 1..Len(p) - m : r[i] = p[m + i]
  BY <1>1, <1>2
<1>4. /\ w \in Seq(Unit) /\ Len(w) = Len(p) + Len(y)
      /\ \A i \in 1..Len(p) + Len(y) : w[i] = IF i <= Len(p) THEN p[i] ELSE y[i - Len(p)]
  BY ConcatProperties
<1>5. /\ b \in Seq(Unit) /\ Len(b) = Len(r) + Len(y)
      /\ \A i \in 1..Len(r) + Len(y) : b[i] = IF i <= Len(r) THEN r[i] ELSE y[i - Len(r)]
  BY <1>3, ConcatProperties
<1> HIDE DEF b, w
<1>6. \A i \in 1..m : w[i] = p[i]
  BY <1>1, <1>4
<1>7. ASSUME NEW j \in 1..Len(b) PROVE w[m + j] = b[j]
  <2>1. CASE j <= Len(r)
    BY <1>1, <1>3, <1>4, <1>5, <2>1
  <2>2. CASE j > Len(r)
    <3>1. m + j \in 1..Len(p) + Len(y) /\ ~(m + j <= Len(p))
      BY <1>1, <1>3, <1>5, <2>2
    <3>2. (m + j) - Len(p) = j - Len(r) /\ ~(j <= Len(r)) /\ j \in 1..Len(r) + Len(y)
      BY <1>1, <1>3, <1>5, <2>2
    <3> QED
      BY <1>4, <1>5, <3>1, <3>2
  <2> QED
    BY <1>1, <1>3, <1>5, <2>1, <2>2
<1>8. Len(w) = m + Len(b)
  BY <1>1, <1>3, <1>4, <1>5
<1> QED
  BY <1>3, <1>4, <1>5, <1>6, <1>7, <1>8 DEF Cut, m, r, b, w

LEMMA CutTypes ==
  ASSUME NEW p, NEW b, NEW w, NEW m, Cut(p, b, w, m)
  PROVE  /\ m \in Nat /\ m <= Len(p) /\ Len(p) \in Nat /\ Len(b) \in Nat /\ Len(w) \in Nat
         /\ LastEnd(b) \in Nat /\ LastEnd(b) <= Len(b) /\ LastEnd(w) \in Nat
         /\ \A e \in Ends(p) : e \in Nat /\ 1 <= e /\ e <= m
         /\ \A e \in Ends(b) : e \in Nat /\ 1 <= e /\ e <= LastEnd(b)
         /\ \A e \in Ends(w) : e \in Nat /\ 1 <= e /\ e <= Len(w)
<1>1. p \in Seq(Unit) /\ b \in Seq(Unit) /\ w \in Seq(Unit) /\ m = LastEnd(p)
  BY DEF Cut
<1>2. Len(p) \in Nat /\ Len(b) \in Nat /\ Len(w) \in Nat
  BY <1>1, PlacesOf
<1>3. /\ Ends(p) \subseteq 1..Len(p) /\ Ends(b) \subseteq 1..Len(b) /\ Ends(w) \subseteq 1..Len(w)
  BY <1>1, EndsAre
<1>4. /\ m \in 0..Len(p) /\ \A e \in Ends(p) : e <= m
      /\ LastEnd(b) \in 0..Len(b) /\ \A e \in Ends(b) : e <= LastEnd(b)
      /\ LastEnd(w) \in Nat
  BY <1>1, LastEndIs
<1> QED
  BY <1>2, <1>3, <1>4

\* Whether an event ends there is for its own units to say.
SameUnits(s, t, d, from, i) == \A k \in from + 1..i : t[d + k] = s[k]

LEMMA ClosesThere ==
  ASSUME NEW s, NEW t, NEW d \in Nat, NEW from \in Nat, NEW i \in Nat,
         SameUnits(s, t, d, from, i)
  PROVE  Closes(t, d + from, d + i) <=> Closes(s, from, i)
<1>1. /\ d + i >= (d + from) + 2 <=> i >= from + 2
      /\ d + i >= (d + from) + 4 <=> i >= from + 4
  OBVIOUS
<1> USE DEF SameUnits
<1>2. ASSUME i >= from + 2
      PROVE  t[(d + i) - 1] = s[i - 1] /\ t[d + i] = s[i]
  <2>1. i \in from + 1..i /\ i - 1 \in from + 1..i /\ (d + i) - 1 = d + (i - 1)
    BY <1>2
  <2> QED
    BY <2>1
<1>3. ASSUME i >= from + 4
      PROVE  /\ t[(d + i) - 3] = s[i - 3] /\ t[(d + i) - 2] = s[i - 2]
             /\ t[(d + i) - 1] = s[i - 1] /\ t[d + i] = s[i]
  <2>1. /\ i \in from + 1..i /\ i - 1 \in from + 1..i /\ (d + i) - 1 = d + (i - 1)
        /\ i - 2 \in from + 1..i /\ (d + i) - 2 = d + (i - 2)
        /\ i - 3 \in from + 1..i /\ (d + i) - 3 = d + (i - 3)
    BY <1>3
  <2> QED
    BY <2>1
<1> QED
  BY <1>1, <1>2, <1>3 DEF Closes

\* In p, and then in b, the whole is cut where they are.
LEMMA CutOpen ==
  ASSUME NEW p, NEW b, NEW w, NEW m, Cut(p, b, w, m)
  PROVE  /\ \A i \in 0..m : OpenSince(w)[i] = OpenSince(p)[i]
         /\ \A j \in 0..Len(b) : OpenSince(w)[m + j] = m + OpenSince(b)[j]
<1> DEFINE op == OpenSince(p)
           ob == OpenSince(b)
           ow == OpenSince(w)
<1>0. /\ p \in Seq(Unit) /\ b \in Seq(Unit) /\ w \in Seq(Unit) /\ m = LastEnd(p)
      /\ m \in Nat /\ m <= Len(p) /\ Len(p) \in Nat /\ Len(b) \in Nat /\ Len(w) \in Nat
      /\ Len(w) = m + Len(b)
  BY CutTypes DEF Cut
<1>1. /\ op[0] = 0 /\ op[m] = m
      /\ \A i \in 1..Len(p) : op[i] = IF Closes(p, op[i - 1], i) THEN i ELSE op[i - 1]
  BY <1>0, OpenStep, LastEndIs
<1>2. /\ ob[0] = 0
      /\ \A i \in 1..Len(b) : ob[i] = IF Closes(b, ob[i - 1], i) THEN i ELSE ob[i - 1]
  BY <1>0, OpenStep
<1>3. /\ ow[0] = 0
      /\ \A i \in 1..Len(w) : ow[i] = IF Closes(w, ow[i - 1], i) THEN i ELSE ow[i - 1]
  BY <1>0, OpenStep
<1>4. /\ \A i \in 0..Len(p) : op[i] \in Nat /\ op[i] <= i
      /\ \A i \in 0..Len(b) : ob[i] \in Nat /\ ob[i] <= i
  BY <1>0, OpenIs
<1> HIDE DEF op, ob, ow
<1>5. \A i \in 0..m : ow[i] = op[i]
  <2> DEFINE P == {i \in Nat : i <= m => ow[i] = op[i]}
  <2>1. 0 \in P
    BY <1>1, <1>3
  <2>2. ASSUME NEW i \in Nat, i \in P PROVE i + 1 \in P
    <3> SUFFICES ASSUME i + 1 <= m PROVE ow[i + 1] = op[i + 1]
      OBVIOUS
    <3>1. /\ i + 1 \in 1..Len(p) /\ i + 1 \in 1..Len(w) /\ (i + 1) - 1 = i
          /\ ow[i] = op[i] /\ op[i] \in Nat
      BY <1>0, <1>4, <2>2
    <3>2. ASSUME NEW k \in op[i] + 1..i + 1 PROVE w[0 + k] = p[k]
      <4>1. k \in 1..m /\ 0 + k = k
        BY <1>0, <3>1
      <4> QED
        BY <4>1 DEF Cut
    <3>3. Closes(w, 0 + op[i], 0 + (i + 1)) <=> Closes(p, op[i], i + 1)
      <4>1. SameUnits(p, w, 0, op[i], i + 1)
        BY <3>2 DEF SameUnits
      <4>2. 0 \in Nat /\ i + 1 \in Nat /\ op[i] \in Nat
        BY <3>1
      <4> QED
        BY <4>1, <4>2, ClosesThere
    <3>4. 0 + op[i] = op[i] /\ 0 + (i + 1) = i + 1
      BY <3>1
    <3> QED
      BY <1>1, <1>3, <3>1, <3>3, <3>4
  <2> HIDE DEF P
  <2>3. Nat \subseteq P
    BY <2>1, <2>2, Climb
  <2> QED
    BY <1>0, <2>3 DEF P
<1>6. \A j \in 0..Len(b) : ow[m + j] = m + ob[j]
  <2> DEFINE P == {j \in Nat : j <= Len(b) => ow[m + j] = m + ob[j]}
  <2>1. 0 \in P
    <3>1. ow[m] = m /\ m + 0 = m
      BY <1>0, <1>1, <1>5
    <3> QED
      BY <1>2, <3>1
  <2>2. ASSUME NEW j \in Nat, j \in P PROVE j + 1 \in P
    <3> SUFFICES ASSUME j + 1 <= Len(b) PROVE ow[m + (j + 1)] = m + ob[j + 1]
      OBVIOUS
    <3>1. /\ j + 1 \in 1..Len(b) /\ (j + 1) - 1 = j
          /\ m + (j + 1) \in 1..Len(w) /\ (m + (j + 1)) - 1 = m + j
          /\ ow[m + j] = m + ob[j] /\ ob[j] \in Nat
      <4>1. j \in 0..Len(b) /\ j <= Len(b)
        BY <1>0
      <4>2. ow[m + j] = m + ob[j]
        BY <2>2, <4>1
      <4>3. ob[j] \in Nat
        BY <1>4, <4>1
      <4>4. /\ j + 1 \in 1..Len(b) /\ (j + 1) - 1 = j
            /\ m + (j + 1) \in 1..Len(w) /\ (m + (j + 1)) - 1 = m + j
        BY <1>0
      <4> QED
        BY <4>2, <4>3, <4>4
    <3>2. ASSUME NEW k \in ob[j] + 1..j + 1 PROVE w[m + k] = b[k]
      <4>1. ob[j] \in Nat /\ j + 1 <= Len(b) /\ Len(b) \in Nat
        BY <1>0, <3>1
      <4>2. k \in 1..Len(b)
        BY <4>1
      <4> QED
        BY <4>2 DEF Cut
    <3>3. Closes(w, m + ob[j], m + (j + 1)) <=> Closes(b, ob[j], j + 1)
      <4>1. SameUnits(b, w, m, ob[j], j + 1)
        BY <3>2 DEF SameUnits
      <4>2. m \in Nat /\ j + 1 \in Nat /\ ob[j] \in Nat
        BY <1>0, <3>1
      <4> QED
        BY <4>1, <4>2, ClosesThere
    <3>4. ow[m + (j + 1)] = IF Closes(w, m + ob[j], m + (j + 1)) THEN m + (j + 1) ELSE m + ob[j]
      BY <1>3, <3>1
    <3>5. ob[j + 1] = IF Closes(b, ob[j], j + 1) THEN j + 1 ELSE ob[j]
      BY <1>2, <3>1
    <3> QED
      BY <3>3, <3>4, <3>5
  <2> HIDE DEF P
  <2>3. Nat \subseteq P
    BY <2>1, <2>2, Climb
  <2> QED
    BY <1>0, <2>3 DEF P
<1> QED
  BY <1>5, <1>6 DEF op, ob, ow

\* The ends of the whole are those of p and, shifted, those of b.
LEMMA CutEnds ==
  ASSUME NEW p, NEW b, NEW w, NEW m, Cut(p, b, w, m)
  PROVE  /\ \A e \in 1..m : e \in Ends(w) <=> e \in Ends(p)
         /\ \A j \in 1..Len(b) : m + j \in Ends(w) <=> j \in Ends(b)
         /\ \A e \in Ends(w) : e \in 1..m \/ e - m \in 1..Len(b)
         /\ LastEnd(w) = m + LastEnd(b)
<1>0. /\ p \in Seq(Unit) /\ b \in Seq(Unit) /\ w \in Seq(Unit)
      /\ m \in Nat /\ m <= Len(p) /\ Len(p) \in Nat /\ Len(b) \in Nat /\ Len(w) \in Nat
      /\ Len(w) = m + Len(b)
  BY CutTypes DEF Cut
<1>1. /\ \A e : e \in Ends(p) <=> e \in 1..Len(p) /\ OpenSince(p)[e] = e
      /\ \A e : e \in Ends(b) <=> e \in 1..Len(b) /\ OpenSince(b)[e] = e
      /\ \A e : e \in Ends(w) <=> e \in 1..Len(w) /\ OpenSince(w)[e] = e
  BY <1>0, EndsAre
<1>2. ASSUME NEW e \in 1..m PROVE e \in Ends(w) <=> e \in Ends(p)
  <2>1. e \in 1..Len(p) /\ e \in 1..Len(w) /\ e \in 0..m
    BY <1>0
  <2>2. OpenSince(w)[e] = OpenSince(p)[e]
    BY <2>1, CutOpen
  <2> QED
    BY <1>1, <2>1, <2>2
<1>3. ASSUME NEW j \in 1..Len(b) PROVE m + j \in Ends(w) <=> j \in Ends(b)
  <2>1. m + j \in 1..Len(w) /\ j \in 0..Len(b)
    BY <1>0
  <2>2. OpenSince(w)[m + j] = m + OpenSince(b)[j] /\ OpenSince(b)[j] \in Nat
    BY <1>0, <2>1, CutOpen, OpenIs
  <2>3. \A x \in Nat : m + x = m + j <=> x = j
    BY <1>0
  <2> QED
    BY <1>1, <2>1, <2>2, <2>3
<1>4. ASSUME NEW e \in Ends(w) PROVE e \in 1..m \/ e - m \in 1..Len(b)
  BY <1>0, <1>1
<1>5. LastEnd(w) = m + LastEnd(b)
  <2>1. Len(b) \in 0..Len(b)
    BY <1>0
  <2>2. OpenSince(w)[m + Len(b)] = m + OpenSince(b)[Len(b)]
    BY <2>1, CutOpen
  <2> QED
    BY <1>0, <2>2 DEF LastEnd
<1> QED
  BY <1>2, <1>3, <1>4, <1>5

Piece(s, i, k) == SubSeq(s, i, k)

\* Where an event begins.
Before(bytes, e) == OpenSince(bytes)[e - 1]

LEMMA EventIs ==
  ASSUME NEW bytes \in Seq(Unit), NEW e \in 1..Len(bytes)
  PROVE  /\ Event(bytes, e) = Piece(bytes, Before(bytes, e) + 1, e)
         /\ Before(bytes, e) \in Nat /\ Before(bytes, e) < e
<1>1. e - 1 \in 0..Len(bytes) /\ Len(bytes) \in Nat
  BY PlacesOf
<1>2. Before(bytes, e) \in Nat /\ Before(bytes, e) <= e - 1
  BY <1>1, OpenIs DEF Before
<1> QED
  BY <1>1, <1>2 DEF Event, Piece, Before

\* From i to k, s holds what t holds d further on.
Alike(s, t, i, k, d) ==
  /\ s \in Seq(Unit) /\ t \in Seq(Unit) /\ i \in Nat /\ k \in Nat /\ d \in Nat
  /\ 1 <= i /\ k <= Len(s) /\ d + k <= Len(t)
  /\ \A j \in i..k : t[d + j] = s[j]

\* Two pieces that hold the same units are the same.
LEMMA SamePiece ==
  ASSUME NEW s, NEW t, NEW i, NEW k, NEW d, Alike(s, t, i, k, d)
  PROVE  Piece(t, d + i, d + k) = Piece(s, i, k)
<1> USE DEF Alike, Piece
<1>1. Len(s) \in Nat /\ Len(t) \in Nat
  OBVIOUS
<1>2. \A j \in i..k : s[j] \in Unit
  BY <1>1
<1>3. \A j \in d + i..d + k : t[j] \in Unit
  BY <1>1
<1>4. /\ SubSeq(s, i, k) \in Seq(Unit)
      /\ Len(SubSeq(s, i, k)) = IF i <= k THEN k - i + 1 ELSE 0
      /\ \A j \in 1..k - i + 1 : SubSeq(s, i, k)[j] = s[i + j - 1]
  BY <1>2, SubSeqProperties
<1>5. /\ SubSeq(t, d + i, d + k) \in Seq(Unit)
      /\ Len(SubSeq(t, d + i, d + k)) = IF d + i <= d + k THEN (d + k) - (d + i) + 1 ELSE 0
      /\ \A j \in 1..(d + k) - (d + i) + 1 : SubSeq(t, d + i, d + k)[j] = t[d + i + j - 1]
  BY <1>3, SubSeqProperties
<1> DEFINE u == SubSeq(s, i, k)
           v == SubSeq(t, d + i, d + k)
<1> HIDE DEF u, v
<1>6. Len(v) = Len(u) /\ Len(u) \in Nat
  BY <1>4, <1>5 DEF u, v
<1>7. ASSUME NEW j \in 1..Len(u) PROVE v[j] = u[j]
  <2>1. i <= k /\ j \in 1..k - i + 1 /\ j \in 1..(d + k) - (d + i) + 1
    BY <1>4, <1>7 DEF u
  <2>2. u[j] = s[i + j - 1] /\ v[j] = t[d + i + j - 1]
    BY <1>4, <1>5, <2>1 DEF u, v
  <2>3. i + j - 1 \in i..k /\ d + (i + j - 1) = d + i + j - 1
    BY <2>1
  <2> QED
    BY <2>2, <2>3
<1>8. u \in Seq(Unit) /\ v \in Seq(Unit)
  BY <1>4, <1>5 DEF u, v
<1>9. v = u
  BY <1>6, <1>7, <1>8, SeqEqual
<1> QED
  BY <1>9 DEF u, v

\* The events of the whole are those of p and those of b.
LEMMA CutEventsFirst ==
  ASSUME NEW p, NEW b, NEW w, NEW m, Cut(p, b, w, m), NEW e \in 1..m
  PROVE  Event(w, e) = Event(p, e)
<1>1. /\ p \in Seq(Unit) /\ w \in Seq(Unit) /\ e \in 1..Len(p) /\ e \in 1..Len(w)
      /\ e \in Nat /\ Len(p) \in Nat /\ Len(w) \in Nat /\ e <= m /\ m \in Nat /\ e - 1 \in 0..m
  BY CutTypes DEF Cut
<1>2. /\ Event(p, e) = Piece(p, Before(p, e) + 1, e)
      /\ Before(p, e) \in Nat /\ Before(p, e) < e
      /\ Event(w, e) = Piece(w, Before(w, e) + 1, e)
  BY <1>1, EventIs
<1>3. Before(w, e) = Before(p, e)
  BY <1>1, CutOpen DEF Before
<1> DEFINE k == Before(p, e) + 1
<1>4. k \in Nat /\ 1 <= k /\ e <= Len(p) /\ 0 + e <= Len(w) /\ 0 + k = k /\ 0 + e = e
  BY <1>1, <1>2
<1> HIDE DEF k
<1>5. ASSUME NEW j \in k..e PROVE w[0 + j] = p[j]
  <2>1. j \in 1..m /\ 0 + j = j
    BY <1>1, <1>4
  <2> QED
    BY <2>1 DEF Cut
<1>6. Piece(w, 0 + k, 0 + e) = Piece(p, k, e)
  <2>1. Alike(p, w, k, e, 0)
    BY <1>1, <1>4, <1>5 DEF Alike
  <2> QED
    BY <2>1, SamePiece
<1> QED
  BY <1>2, <1>3, <1>4, <1>6 DEF k

LEMMA CutEventsLast ==
  ASSUME NEW p, NEW b, NEW w, NEW m, Cut(p, b, w, m), NEW e \in 1..Len(b)
  PROVE  Event(w, m + e) = Event(b, e)
<1>1. /\ b \in Seq(Unit) /\ w \in Seq(Unit) /\ m \in Nat /\ m + e \in 1..Len(w)
      /\ Len(b) \in Nat /\ Len(w) = m + Len(b) /\ e \in Nat
      /\ e - 1 \in 0..Len(b) /\ (m + e) - 1 = m + (e - 1)
  <2>1. /\ b \in Seq(Unit) /\ w \in Seq(Unit) /\ m \in Nat
        /\ Len(b) \in Nat /\ Len(w) = m + Len(b)
    BY CutTypes DEF Cut
  <2> QED
    BY <2>1
<1>2. /\ Event(b, e) = Piece(b, Before(b, e) + 1, e)
      /\ Before(b, e) \in Nat /\ Before(b, e) < e
      /\ Event(w, m + e) = Piece(w, Before(w, m + e) + 1, m + e)
  BY <1>1, EventIs
<1>3. Before(w, m + e) = m + Before(b, e)
  BY <1>1, CutOpen DEF Before
<1> DEFINE k == Before(b, e) + 1
<1>4. /\ k \in Nat /\ 1 <= k /\ e <= Len(b) /\ m + e <= Len(w)
      /\ m + Before(b, e) + 1 = m + k
  BY <1>1, <1>2
<1> HIDE DEF k
<1>5. ASSUME NEW j \in k..e PROVE w[m + j] = b[j]
  <2>1. j \in 1..Len(b)
    BY <1>1, <1>4
  <2> QED
    BY <2>1 DEF Cut
<1>6. Piece(w, m + k, m + e) = Piece(b, k, e)
  <2>1. Alike(b, w, k, e, m)
    BY <1>1, <1>4, <1>5 DEF Alike
  <2> QED
    BY <2>1, SamePiece
<1> QED
  BY <1>2, <1>3, <1>4, <1>6 DEF k

(***************************************************************************)
(* What the parts say and what the whole says.                             *)
(***************************************************************************)
\* The runs of Joined.
Joining(parts, n, upto) ==
  upto = [i \in 0..n |-> IF i = 0 THEN <<>> ELSE upto[i - 1] \o parts[i]]

LEMMA JoiningExists ==
  ASSUME NEW parts, NEW n \in Nat
  PROVE  \E upto : Joining(parts, n, upto)
<1> DEFINE P == {m \in Nat : \E upto : Joining(parts, m, upto)}
<1>1. 0 \in P
  <2> DEFINE upto == [i \in 0..0 |-> <<>>]
  <2>1. Joining(parts, 0, upto)
    BY DEF Joining
  <2> QED
    BY <2>1
<1>2. ASSUME NEW m \in Nat, m \in P PROVE m + 1 \in P
  <2>1. PICK upto : Joining(parts, m, upto)
    BY <1>2
  <2> DEFINE more == [i \in 0..m + 1 |-> IF i = m + 1 THEN upto[m] \o parts[m + 1] ELSE upto[i]]
  <2>2. \A i \in 0..m : upto[i] = IF i = 0 THEN <<>> ELSE upto[i - 1] \o parts[i]
    BY <2>1 DEF Joining
  <2>3. \A i \in 0..m + 1 : more[i] = IF i = 0 THEN <<>> ELSE more[i - 1] \o parts[i]
    <3> SUFFICES ASSUME NEW i \in 0..m + 1
                 PROVE  more[i] = IF i = 0 THEN <<>> ELSE more[i - 1] \o parts[i]
      OBVIOUS
    <3>1. CASE i = 0
      BY <2>2, <3>1
    <3>2. CASE i \in 1..m
      <4>1. more[i] = upto[i] /\ more[i - 1] = upto[i - 1] /\ i \in 0..m /\ i # 0
        BY <3>2
      <4> HIDE DEF more
      <4> QED
        BY <2>2, <4>1
    <3>3. CASE i = m + 1
      <4>1. i # 0 /\ i - 1 = m /\ more[i] = upto[m] \o parts[i] /\ more[m] = upto[m]
        BY <3>3
      <4> HIDE DEF more
      <4> QED
        BY <4>1
    <3> QED
      BY <3>1, <3>2, <3>3
  <2>4. more = [i \in 0..m + 1 |-> more[i]]
    OBVIOUS
  <2> HIDE DEF more
  <2>5. Joining(parts, m + 1, more)
    BY <2>3, <2>4 DEF Joining
  <2> QED
    BY <2>5
<1> HIDE DEF P
<1>3. Nat \subseteq P
  BY <1>1, <1>2, Climb
<1> QED
  BY <1>3 DEF P

LEMMA JoiningsAgree ==
  ASSUME NEW parts, NEW n \in Nat, NEW m \in 0..n,
         NEW it, Joining(parts, n, it), NEW jt, Joining(parts, m, jt)
  PROVE  it[m] = jt[m]
<1> DEFINE P == {i \in Nat : i <= m => it[i] = jt[i]}
<1>1. /\ \A i \in 0..n : it[i] = IF i = 0 THEN <<>> ELSE it[i - 1] \o parts[i]
      /\ \A i \in 0..m : jt[i] = IF i = 0 THEN <<>> ELSE jt[i - 1] \o parts[i]
  BY DEF Joining
<1>2. 0 \in P
  BY <1>1
<1>3. ASSUME NEW i \in Nat, i \in P PROVE i + 1 \in P
  <2> SUFFICES ASSUME i + 1 <= m PROVE it[i + 1] = jt[i + 1]
    OBVIOUS
  <2>1. i + 1 \in 0..n /\ i + 1 \in 0..m /\ i + 1 # 0 /\ (i + 1) - 1 = i /\ it[i] = jt[i]
    BY <1>3
  <2> QED
    BY <1>1, <2>1
<1> HIDE DEF P
<1>4. Nat \subseteq P
  BY <1>2, <1>3, Climb
<1> QED
  BY <1>4 DEF P

LEMMA JoinedStep ==
  ASSUME NEW parts
  PROVE  /\ Joined(parts, 0) = <<>>
         /\ \A n \in Nat : Joined(parts, n + 1) = Joined(parts, n) \o parts[n + 1]
<1> DEFINE it(n) == CHOOSE upto : Joining(parts, n, upto)
<1>1. \A n \in Nat : Joining(parts, n, it(n)) /\ Joined(parts, n) = it(n)[n]
  BY JoiningExists DEF Joined, Joining
<1> HIDE DEF it
<1>2. Joined(parts, 0) = <<>>
  <2>1. Joining(parts, 0, it(0)) /\ Joined(parts, 0) = it(0)[0]
    BY <1>1
  <2>2. \A i \in 0..0 : it(0)[i] = IF i = 0 THEN <<>> ELSE it(0)[i - 1] \o parts[i]
    BY <2>1 DEF Joining
  <2> QED
    BY <2>1, <2>2
<1>3. ASSUME NEW n \in Nat
      PROVE  Joined(parts, n + 1) = Joined(parts, n) \o parts[n + 1]
  <2> DEFINE more == it(n + 1)
  <2>1. n + 1 \in Nat /\ n \in 0..n + 1 /\ n + 1 \in 0..n + 1 /\ n + 1 # 0 /\ (n + 1) - 1 = n
    OBVIOUS
  <2>2. Joining(parts, n + 1, more) /\ Joined(parts, n + 1) = more[n + 1]
    BY <1>1, <2>1
  <2>3. more[n] = it(n)[n]
    BY <1>1, <2>1, <2>2, JoiningsAgree
  <2> HIDE DEF more
  <2>4. more[n + 1] = more[n] \o parts[n + 1]
    BY <2>1, <2>2 DEF Joining
  <2> QED
    BY <1>1, <2>2, <2>3, <2>4
<1> QED
  BY <1>2, <1>3

LEMMA JoinedType ==
  ASSUME NEW S, NEW parts, NEW n \in Nat, \A i \in 1..n : parts[i] \in Seq(S)
  PROVE  Joined(parts, n) \in Seq(S)
<1> DEFINE P == {i \in Nat : i <= n => Joined(parts, i) \in Seq(S)}
<1>1. 0 \in P
  BY JoinedStep, EmptySeq
<1>2. ASSUME NEW i \in Nat, i \in P PROVE i + 1 \in P
  <2> SUFFICES ASSUME i + 1 <= n PROVE Joined(parts, i + 1) \in Seq(S)
    OBVIOUS
  <2>1. Joined(parts, i) \in Seq(S) /\ parts[i + 1] \in Seq(S)
    BY <1>2
  <2>2. Joined(parts, i + 1) = Joined(parts, i) \o parts[i + 1]
    BY JoinedStep
  <2> QED
    BY <2>1, <2>2, ConcatProperties
<1> HIDE DEF P
<1>3. Nat \subseteq P
  BY <1>1, <1>2, Climb
<1> QED
  BY <1>3 DEF P

\* The first a parts of w are those of q, the next k those of r.
InTwo(S, w, q, r, a, k) ==
  /\ a \in Nat /\ k \in Nat
  /\ \A i \in 1..a : w[i] = q[i] /\ q[i] \in Seq(S)
  /\ \A j \in 1..k : w[a + j] = r[j] /\ r[j] \in Seq(S)

\* What is joined may be joined in two parts.
LEMMA JoinedInTwo ==
  ASSUME NEW S, NEW w, NEW q, NEW r, NEW a, NEW k, InTwo(S, w, q, r, a, k)
  PROVE  Joined(w, a + k) = Joined(q, a) \o Joined(r, k)
<1>0. /\ a \in Nat /\ k \in Nat
      /\ \A i \in 1..a : w[i] = q[i] /\ q[i] \in Seq(S)
      /\ \A j \in 1..k : w[a + j] = r[j] /\ r[j] \in Seq(S)
  BY DEF InTwo
<1>1. Joined(w, a) = Joined(q, a)
  <2> DEFINE P == {i \in Nat : i <= a => Joined(w, i) = Joined(q, i)}
  <2>1. 0 \in P
    BY JoinedStep
  <2>2. ASSUME NEW i \in Nat, i \in P PROVE i + 1 \in P
    <3> SUFFICES ASSUME i + 1 <= a PROVE Joined(w, i + 1) = Joined(q, i + 1)
      OBVIOUS
    <3>1. Joined(w, i) = Joined(q, i) /\ w[i + 1] = q[i + 1]
      BY <1>0, <2>2
    <3> QED
      BY <3>1, JoinedStep
  <2> HIDE DEF P
  <2>3. Nat \subseteq P
    BY <2>1, <2>2, Climb
  <2> QED
    BY <1>0, <2>3 DEF P
<1>2. Joined(q, a) \in Seq(S)
  BY <1>0, JoinedType
<1> DEFINE P == {j \in Nat : j <= k => Joined(w, a + j) = Joined(q, a) \o Joined(r, j)}
<1>3. 0 \in P
  <2>1. Joined(q, a) \o <<>> = Joined(q, a)
    BY <1>2, ConcatEmptySeq
  <2>2. a + 0 = a
    BY <1>0
  <2> QED
    BY <1>1, <2>1, <2>2, JoinedStep
<1>4. ASSUME NEW j \in Nat, j \in P PROVE j + 1 \in P
  <2> SUFFICES ASSUME j + 1 <= k PROVE Joined(w, a + (j + 1)) = Joined(q, a) \o Joined(r, j + 1)
    OBVIOUS
  <2>1. Joined(w, a + j) = Joined(q, a) \o Joined(r, j) /\ w[a + (j + 1)] = r[j + 1]
        /\ r[j + 1] \in Seq(S)
    BY <1>0, <1>4
  <2>2. Joined(r, j) \in Seq(S)
    <3>1. \A i \in 1..j : r[i] \in Seq(S)
      BY <1>0
    <3> QED
      BY <3>1, JoinedType
  <2>3. a + j \in Nat /\ a + (j + 1) = (a + j) + 1
    BY <1>0
  <2>4. Joined(w, a + (j + 1)) = Joined(w, a + j) \o w[a + (j + 1)]
    BY <2>3, JoinedStep
  <2>5. Joined(r, j + 1) = Joined(r, j) \o r[j + 1]
    BY JoinedStep
  <2>6. (Joined(q, a) \o Joined(r, j)) \o r[j + 1] = Joined(q, a) \o (Joined(r, j) \o r[j + 1])
    <3>1. \A x, y, z \in Seq(S) : (x \o y) \o z = x \o (y \o z)
      <4> TAKE x, y, z \in Seq(S)
      <4> QED
        BY ConcatAssociative
    <3> QED
      BY <1>2, <2>1, <2>2, <3>1, Zenon
  <2> QED
    BY <2>1, <2>4, <2>5, <2>6
<1> HIDE DEF P
<1>5. Nat \subseteq P
  BY <1>3, <1>4, Climb
<1> QED
  BY <1>0, <1>5 DEF P

LEMMA MergeIsUsage ==
  ASSUME NEW usage \in Usage, NEW units
  PROVE  Merge(usage, units) \in Usage
BY DEF Merge, Usage

LEMMA NoUsageIsUsage == NoUsage \in Usage
BY DEF NoUsage, Usage

\* Where two pieces together have some units.
LEMMA PlacesOfBoth ==
  ASSUME NEW s \in Seq(Unit), NEW t \in Seq(Unit), NEW units
  PROVE  /\ Len(s) \in Nat /\ Len(t) \in Nat
         /\ \A i \in 1..Len(s) : i \in Positions(s \o t, units) <=> i \in Positions(s, units)
         /\ \A j \in 1..Len(t) :
              Len(s) + j \in Positions(s \o t, units) <=> j \in Positions(t, units)
         /\ \A i \in Positions(s \o t, units) :
              i \in 1..Len(s) \/ (i - Len(s) \in 1..Len(t) /\ Len(s) + (i - Len(s)) = i)
<1> DEFINE w == s \o t
<1>1. /\ w \in Seq(Unit) /\ Len(w) = Len(s) + Len(t) /\ Len(s) \in Nat /\ Len(t) \in Nat
      /\ \A i \in 1..Len(s) + Len(t) : w[i] = IF i <= Len(s) THEN s[i] ELSE t[i - Len(s)]
  BY ConcatProperties, LenProperties
<1> HIDE DEF w
<1>2. /\ \A i : i \in Positions(w, units) <=> i \in 1..Len(w) /\ w[i] \in units
      /\ \A i : i \in Positions(s, units) <=> i \in 1..Len(s) /\ s[i] \in units
      /\ \A i : i \in Positions(t, units) <=> i \in 1..Len(t) /\ t[i] \in units
  BY <1>1, PlacesOf
<1>3. ASSUME NEW i \in 1..Len(s) PROVE i \in Positions(w, units) <=> i \in Positions(s, units)
  BY <1>1, <1>2
<1>4. ASSUME NEW j \in 1..Len(t)
      PROVE  Len(s) + j \in Positions(w, units) <=> j \in Positions(t, units)
  <2>1. Len(s) + j \in 1..Len(s) + Len(t) /\ ~(Len(s) + j <= Len(s)) /\ (Len(s) + j) - Len(s) = j
    BY <1>1
  <2>2. w[Len(s) + j] = t[j]
    BY <1>1, <2>1
  <2> QED
    BY <1>1, <1>2, <2>1, <2>2
<1>5. ASSUME NEW i \in Positions(w, units)
      PROVE  i \in 1..Len(s) \/ (i - Len(s) \in 1..Len(t) /\ Len(s) + (i - Len(s)) = i)
  <2>1. i \in 1..Len(s) + Len(t)
    BY <1>1, <1>2
  <2> QED
    BY <1>1, <2>1
<1> QED
  BY <1>1, <1>3, <1>4, <1>5 DEF w

LEMMA LastOfBoth ==
  ASSUME NEW s \in Seq(Unit), NEW t \in Seq(Unit), NEW units
  PROVE  /\ Positions(s \o t, units) = {} <=> Positions(s, units) = {} /\ Positions(t, units) = {}
         /\ Max0(Positions(s \o t, units)) =
              IF Positions(t, units) = {} THEN Max0(Positions(s, units))
              ELSE Len(s) + Max0(Positions(t, units))
<1> DEFINE w == s \o t
           A == Positions(s, units)
           B == Positions(t, units)
           C == Positions(w, units)
<1>1. /\ Len(s) \in Nat /\ Len(t) \in Nat
      /\ \A i \in 1..Len(s) : i \in C <=> i \in A
      /\ \A j \in 1..Len(t) : Len(s) + j \in C <=> j \in B
      /\ \A i \in C : i \in 1..Len(s) \/ (i - Len(s) \in 1..Len(t) /\ Len(s) + (i - Len(s)) = i)
  BY PlacesOfBoth
<1>2. w \in Seq(Unit)
  BY ConcatProperties
<1>3. A \subseteq 1..Len(s) /\ B \subseteq 1..Len(t) /\ C \subseteq 1..Len(w) /\ Len(w) \in Nat
  BY <1>2, PlacesOf
<1> HIDE DEF w, A, B, C
<1>4. C = {} <=> A = {} /\ B = {}
  <2>1. ASSUME NEW i \in C PROVE A # {} \/ B # {}
    BY <1>1
  <2>2. ASSUME NEW i \in A PROVE C # {}
    BY <1>1, <1>3
  <2>3. ASSUME NEW j \in B PROVE C # {}
    BY <1>1, <1>3
  <2> QED
    BY <2>1, <2>2, <2>3
<1>5. /\ Max0(A) \in 0..Len(s) /\ (\A y \in A : y <= Max0(A)) /\ (A = {} => Max0(A) = 0)
      /\ (A # {} => Max0(A) \in A)
  BY <1>1, <1>3, LastIs
<1>6. /\ Max0(B) \in 0..Len(t) /\ (\A y \in B : y <= Max0(B)) /\ (B = {} => Max0(B) = 0)
      /\ (B # {} => Max0(B) \in B)
  BY <1>1, <1>3, LastIs
<1>7. /\ Max0(C) \in 0..Len(w) /\ (\A y \in C : y <= Max0(C)) /\ (C = {} => Max0(C) = 0)
      /\ (C # {} => Max0(C) \in C)
  BY <1>3, LastIs
<1>8. CASE B # {}
  <2>1. Max0(B) \in 1..Len(t) /\ Len(s) + Max0(B) \in C
    BY <1>1, <1>3, <1>6, <1>8
  <2>2. Len(s) + Max0(B) <= Max0(C) /\ Max0(C) \in C
    BY <1>7, <2>1
  <2>3. Max0(C) - Len(s) \in 1..Len(t) /\ Len(s) + (Max0(C) - Len(s)) = Max0(C)
    <3>1. ~(Max0(C) \in 1..Len(s))
      BY <1>1, <2>1, <2>2
    <3> QED
      BY <1>1, <2>2, <3>1
  <2>4. Max0(C) - Len(s) \in B
    BY <1>1, <2>2, <2>3
  <2>5. Max0(C) - Len(s) <= Max0(B)
    BY <1>6, <2>4
  <2>6. Max0(C) = Len(s) + Max0(B)
    BY <1>1, <1>6, <1>7, <1>3, <2>2, <2>5
  <2> QED
    BY <1>4, <1>8, <2>6 DEF A, B, C, w
<1>9. CASE B = {} /\ A # {}
  <2>1. Max0(A) \in 1..Len(s) /\ Max0(A) \in C
    BY <1>1, <1>3, <1>5, <1>9
  <2>2. Max0(A) <= Max0(C) /\ Max0(C) \in C
    BY <1>7, <2>1
  <2>3. Max0(C) \in 1..Len(s)
    BY <1>1, <1>9, <2>2
  <2>4. Max0(C) \in A
    BY <1>1, <2>2, <2>3
  <2>5. Max0(C) <= Max0(A)
    BY <1>5, <2>4
  <2>6. Max0(C) = Max0(A)
    BY <1>1, <2>1, <2>2, <2>3, <2>5
  <2> QED
    BY <1>4, <1>9, <2>6 DEF A, B, C, w
<1>10. CASE B = {} /\ A = {}
  <2>1. Max0(C) = Max0(A)
    BY <1>4, <1>5, <1>7, <1>10
  <2> QED
    BY <1>4, <1>10, <2>1 DEF A, B, C, w
<1> QED
  BY <1>8, <1>9, <1>10

LEMMA HaveUnit ==
  ASSUME NEW s \in Seq(Unit), NEW units
  PROVE  /\ Positions(s, units) \subseteq 1..Len(s) /\ Max0(Positions(s, units)) \in Nat
         /\ Positions(s, units) # {} => Max0(Positions(s, units)) \in Positions(s, units)
         /\ Positions(s, units) # {} <=> Max0(Positions(s, units)) # 0
BY PlacesOf, LastIs

\* Merging two pieces in order is merging what they make up.
LEMMA MergeTwice ==
  ASSUME NEW usage \in Usage, NEW s \in Seq(Unit), NEW t \in Seq(Unit)
  PROVE  Merge(Merge(usage, s), t) = Merge(usage, s \o t)
<1> DEFINE w == s \o t
           O == {"out", "more"}
           I == {"in"}
<1>0. w \in Seq(Unit) /\ \A i \in 1..Len(s) + Len(t) : w[i] = IF i <= Len(s) THEN s[i] ELSE t[i - Len(s)]
  BY ConcatProperties
<1>1. Positions(w, I) = {} <=> Positions(s, I) = {} /\ Positions(t, I) = {}
  BY LastOfBoth
<1>2. /\ Positions(w, O) = {} <=> Positions(s, O) = {} /\ Positions(t, O) = {}
      /\ Max0(Positions(w, O)) = IF Positions(t, O) = {} THEN Max0(Positions(s, O))
                                 ELSE Len(s) + Max0(Positions(t, O))
  BY LastOfBoth
<1>3. /\ Positions(s, O) \subseteq 1..Len(s) /\ Max0(Positions(s, O)) \in Nat
      /\ Positions(s, O) # {} => Max0(Positions(s, O)) \in Positions(s, O)
      /\ Positions(s, O) # {} <=> Max0(Positions(s, O)) # 0
  BY HaveUnit
<1>4. /\ Positions(t, O) \subseteq 1..Len(t) /\ Max0(Positions(t, O)) \in Nat
      /\ Positions(t, O) # {} => Max0(Positions(t, O)) \in Positions(t, O)
      /\ Positions(t, O) # {} <=> Max0(Positions(t, O)) # 0
  BY HaveUnit
<1>5. Len(s) \in Nat /\ Len(t) \in Nat
  BY LenProperties
<1> HIDE DEF w
<1> DEFINE x == Max0(Positions(s, O))
           y == Max0(Positions(t, O))
           z == Max0(Positions(w, O))
<1>6. /\ Merge(usage, s).input = IF Positions(s, I) = {} THEN usage.input ELSE "some"
      /\ Merge(usage, s).output = IF x = 0 THEN usage.output
                                  ELSE IF s[x] = "out" THEN "first" ELSE "later"
  BY DEF Merge
<1>7. Merge(Merge(usage, s), t) =
        [input  |-> IF Positions(t, I) = {} THEN Merge(usage, s).input ELSE "some",
         output |-> IF y = 0 THEN Merge(usage, s).output
                    ELSE IF t[y] = "out" THEN "first" ELSE "later"]
  BY DEF Merge
<1>8. Merge(usage, w) =
        [input  |-> IF Positions(w, I) = {} THEN usage.input ELSE "some",
         output |-> IF z = 0 THEN usage.output
                    ELSE IF w[z] = "out" THEN "first" ELSE "later"]
  BY DEF Merge
<1>9. (IF Positions(t, I) = {} THEN Merge(usage, s).input ELSE "some")
        = IF Positions(w, I) = {} THEN usage.input ELSE "some"
  BY <1>1, <1>6
<1>10. (IF y = 0 THEN Merge(usage, s).output ELSE IF t[y] = "out" THEN "first" ELSE "later")
        = IF z = 0 THEN usage.output ELSE IF w[z] = "out" THEN "first" ELSE "later"
  <2>1. CASE Positions(t, O) # {}
    <3>1. y # 0 /\ y \in 1..Len(t) /\ z = Len(s) + y /\ z # 0
      BY <1>2, <1>4, <1>5, <2>1
    <3>2. Len(s) + y \in 1..Len(s) + Len(t) /\ ~(Len(s) + y <= Len(s)) /\ (Len(s) + y) - Len(s) = y
      BY <1>5, <3>1
    <3> HIDE DEF x, y, z
    <3>3. w[z] = t[y]
      BY <1>0, <3>1, <3>2
    <3> QED
      BY <3>1, <3>3
  <2>2. CASE Positions(t, O) = {} /\ Positions(s, O) # {}
    <3>1. y = 0 /\ x \in 1..Len(s) /\ z = x /\ x # 0
      BY <1>2, <1>3, <1>4, <1>5, <2>2
    <3>2. x \in 1..Len(s) + Len(t) /\ x <= Len(s)
      BY <1>5, <3>1
    <3> HIDE DEF x, y, z
    <3>3. w[z] = s[x]
      BY <1>0, <3>1, <3>2
    <3> QED
      BY <1>6, <3>1, <3>3
  <2>3. CASE Positions(t, O) = {} /\ Positions(s, O) = {}
    <3>1. y = 0 /\ x = 0 /\ z = 0
      BY <1>2, <1>3, <1>4, <2>3
    <3> QED
      BY <1>6, <3>1
  <2> QED
    BY <2>1, <2>2, <2>3
<1>11. Merge(Merge(usage, s), t) = Merge(usage, w)
  BY <1>7, <1>8, <1>9, <1>10
<1> QED
  BY <1>11 DEF w

\* Keeping the first n of what is kept and more keeps the first n of all.
LEMMA FirstOfFirst ==
  ASSUME NEW S, NEW s \in Seq(S), NEW t \in Seq(S), NEW n \in Nat
  PROVE  FirstN(FirstN(s, n) \o t, n) = FirstN(s \o t, n)
<1>0. \A q \in Seq(S) :
        /\ FirstN(q, n) \in Seq(S)
        /\ Len(FirstN(q, n)) = IF Len(q) < n THEN Len(q) ELSE n
        /\ \A i \in 1..Len(FirstN(q, n)) : FirstN(q, n)[i] = q[i]
  <2> TAKE q \in Seq(S)
  <2> DEFINE k == IF Len(q) < n THEN Len(q) ELSE n
  <2>1. k \in Nat /\ k <= Len(q) /\ Len(q) \in Nat
    BY LenProperties
  <2>2. FirstN(q, n) = SubSeq(q, 1, k)
    BY DEF FirstN
  <2> HIDE DEF k
  <2>3. /\ SubSeq(q, 1, k) \in Seq(S) /\ Len(SubSeq(q, 1, k)) = k
        /\ \A i \in 1..k : SubSeq(q, 1, k)[i] = q[i]
    BY <2>1
  <2> QED
    BY <2>2, <2>3 DEF k
<1> DEFINE f == FirstN(s, n)
           g == f \o t
           h == s \o t
           u == FirstN(g, n)
           v == FirstN(h, n)
<1>1. /\ f \in Seq(S) /\ Len(f) = (IF Len(s) < n THEN Len(s) ELSE n)
      /\ \A i \in 1..Len(f) : f[i] = s[i]
  BY <1>0
<1>2. Len(s) \in Nat /\ Len(t) \in Nat
  BY LenProperties
<1> HIDE DEF f
<1>3. /\ g \in Seq(S) /\ Len(g) = Len(f) + Len(t)
      /\ \A i \in 1..Len(f) + Len(t) : g[i] = IF i <= Len(f) THEN f[i] ELSE t[i - Len(f)]
  BY <1>1, ConcatProperties
<1>4. /\ h \in Seq(S) /\ Len(h) = Len(s) + Len(t)
      /\ \A i \in 1..Len(s) + Len(t) : h[i] = IF i <= Len(s) THEN s[i] ELSE t[i - Len(s)]
  BY ConcatProperties
<1> HIDE DEF g, h
<1>5. /\ u \in Seq(S) /\ Len(u) = (IF Len(g) < n THEN Len(g) ELSE n)
      /\ \A i \in 1..Len(u) : u[i] = g[i]
      /\ v \in Seq(S) /\ Len(v) = (IF Len(h) < n THEN Len(h) ELSE n)
      /\ \A i \in 1..Len(v) : v[i] = h[i]
  BY <1>0, <1>3, <1>4
<1> HIDE DEF u, v
<1>6. CASE Len(s) < n
  <2>1. f = s
    BY <1>1, <1>6, SeqEqual
  <2> QED
    BY <2>1 DEF f
<1>7. CASE ~(Len(s) < n)
  <2>1. Len(u) = n /\ Len(v) = n /\ Len(f) = n
    BY <1>1, <1>2, <1>3, <1>4, <1>5, <1>7
  <2>2. ASSUME NEW i \in 1..n PROVE u[i] = v[i]
    <3>1. i \in 1..Len(f) + Len(t) /\ i <= Len(f) /\ i \in 1..Len(s) + Len(t) /\ i <= Len(s)
          /\ i \in 1..Len(f) /\ i \in 1..Len(u) /\ i \in 1..Len(v)
      BY <1>2, <1>7, <2>1
    <3>2. u[i] = g[i] /\ v[i] = h[i] /\ g[i] = f[i] /\ h[i] = s[i] /\ f[i] = s[i]
      BY <1>1, <1>3, <1>4, <1>5, <3>1
    <3> QED
      BY <3>2
  <2>3. u = v
    BY <1>5, <2>1, <2>2, SeqEqual
  <2> QED
    BY <2>3 DEF u, v, g, h, f
<1> QED
  BY <1>6, <1>7

LEMMA TellingIs ==
  ASSUME NEW bytes \in Seq(Unit), NEW e
  PROVE  e \in Telling(bytes) <=> e \in Ends(bytes) /\ CarriesUsage(Event(bytes, e))
BY DEF Telling

\* What the whole tells is what p tells and then what b tells.
LEMMA CutTelling ==
  ASSUME NEW p, NEW b, NEW w, NEW m, Cut(p, b, w, m)
  PROVE  /\ \A e \in 1..m : e \in Telling(w) <=> e \in Telling(p)
         /\ \A j \in 1..Len(b) : m + j \in Telling(w) <=> j \in Telling(b)
         /\ \A e \in Telling(p) : e \in 1..m
         /\ \A e \in Telling(b) : e \in 1..Len(b)
         /\ \A e \in Telling(w) : e \in 1..m \/ (e - m \in 1..Len(b) /\ m + (e - m) = e)
<1>0. p \in Seq(Unit) /\ b \in Seq(Unit) /\ w \in Seq(Unit)
  BY DEF Cut
<1>1. /\ \A e : e \in Telling(p) <=> e \in Ends(p) /\ CarriesUsage(Event(p, e))
      /\ \A e : e \in Telling(b) <=> e \in Ends(b) /\ CarriesUsage(Event(b, e))
      /\ \A e : e \in Telling(w) <=> e \in Ends(w) /\ CarriesUsage(Event(w, e))
  BY <1>0, TellingIs
<1>2. \A e \in 1..m : e \in Telling(w) <=> e \in Telling(p)
  BY <1>1, CutEnds, CutEventsFirst
<1>3. \A j \in 1..Len(b) : m + j \in Telling(w) <=> j \in Telling(b)
  BY <1>1, CutEnds, CutEventsLast
<1>4. /\ \A e \in Telling(p) : e \in 1..m
      /\ \A e \in Telling(b) : e \in 1..Len(b)
  BY <1>1, CutTypes
<1>5. ASSUME NEW e \in Telling(w) PROVE e \in 1..m \/ (e - m \in 1..Len(b) /\ m + (e - m) = e)
  <2>1. e \in Ends(w) /\ e \in Nat /\ m \in Nat
    BY <1>1, CutTypes
  <2> QED
    BY <2>1, CutEnds
<1> QED
  BY <1>2, <1>3, <1>4, <1>5

LEMMA CutNamed ==
  ASSUME NEW p, NEW b, NEW w, NEW m, Cut(p, b, w, m)
  PROVE  Named(w) <=> Named(p) \/ Named(b)
<1> DEFINE Names(event) == Positions(event, {"name"}) # {}
<1> HIDE DEF Names
<1>1. /\ Named(w) <=> \E e \in Telling(w) : Names(Event(w, e))
      /\ Named(p) <=> \E e \in Telling(p) : Names(Event(p, e))
      /\ Named(b) <=> \E e \in Telling(b) : Names(Event(b, e))
  BY DEF Named, Names
<1>2. ASSUME NEW e \in Telling(w), Names(Event(w, e)) PROVE Named(p) \/ Named(b)
  <2>1. CASE e \in 1..m
    <3>1. e \in Telling(p) /\ Event(w, e) = Event(p, e)
      BY <2>1, CutTelling, CutEventsFirst
    <3> QED
      BY <1>1, <1>2, <3>1
  <2>2. CASE e - m \in 1..Len(b) /\ m + (e - m) = e
    <3>1. e - m \in Telling(b) /\ Event(w, m + (e - m)) = Event(b, e - m)
      BY <2>2, CutTelling, CutEventsLast
    <3> QED
      BY <1>1, <1>2, <2>2, <3>1
  <2> QED
    BY <2>1, <2>2, CutTelling
<1>3. ASSUME NEW e \in Telling(p), Names(Event(p, e)) PROVE Named(w)
  <2>1. e \in 1..m
    BY CutTelling
  <2>2. e \in Telling(w) /\ Event(w, e) = Event(p, e)
    BY <2>1, CutTelling, CutEventsFirst
  <2> QED
    BY <1>1, <1>3, <2>2
<1>4. ASSUME NEW e \in Telling(b), Names(Event(b, e)) PROVE Named(w)
  <2>1. e \in 1..Len(b)
    BY CutTelling
  <2>2. m + e \in Telling(w) /\ Event(w, m + e) = Event(b, e)
    BY <2>1, CutTelling, CutEventsLast
  <2> QED
    BY <1>1, <1>4, <2>2
<1> QED
  BY <1>1, <1>2, <1>3, <1>4

\* What the events of a body say, in order.
Sayings(bytes) == Joined(Told(bytes), LastEnd(bytes))

LEMMA ToldIs ==
  ASSUME NEW bytes \in Seq(Unit), NEW e \in 1..LastEnd(bytes)
  PROVE  /\ Told(bytes)[e] = IF e \in Telling(bytes) THEN <<Merge(NoUsage, Event(bytes, e))>> ELSE <<>>
         /\ Told(bytes)[e] \in Seq(Usage)
<1>1. Told(bytes)[e] = IF e \in Telling(bytes) THEN <<Merge(NoUsage, Event(bytes, e))>> ELSE <<>>
  BY DEF Told
<1>2. Merge(NoUsage, Event(bytes, e)) \in Usage
  BY MergeIsUsage, NoUsageIsUsage
<1>3. <<Merge(NoUsage, Event(bytes, e))>> \in Seq(Usage) /\ <<>> \in Seq(Usage)
  BY <1>2
<1> QED
  BY <1>1, <1>3

LEMMA CutSayings ==
  ASSUME NEW p, NEW b, NEW w, NEW m, Cut(p, b, w, m)
  PROVE  /\ Sayings(p) \in Seq(Usage) /\ Sayings(b) \in Seq(Usage)
         /\ Sayings(w) = Sayings(p) \o Sayings(b)
<1>0. /\ p \in Seq(Unit) /\ b \in Seq(Unit) /\ w \in Seq(Unit) /\ m = LastEnd(p)
      /\ m \in Nat /\ LastEnd(b) \in Nat /\ LastEnd(b) <= Len(b) /\ Len(b) \in Nat
      /\ LastEnd(w) = m + LastEnd(b)
  BY CutTypes, CutEnds DEF Cut
<1> DEFINE k == LastEnd(b)
<1>1. ASSUME NEW e \in 1..m
      PROVE  Told(w)[e] = Told(p)[e] /\ Told(p)[e] \in Seq(Usage)
  <2>1. e \in 1..LastEnd(p) /\ e \in 1..LastEnd(w)
    BY <1>0
  <2>2. (e \in Telling(w) <=> e \in Telling(p)) /\ Event(w, e) = Event(p, e)
    BY CutTelling, CutEventsFirst
  <2> QED
    BY <1>0, <2>1, <2>2, ToldIs
<1>2. ASSUME NEW j \in 1..k
      PROVE  Told(w)[m + j] = Told(b)[j] /\ Told(b)[j] \in Seq(Usage)
  <2>1. j \in 1..Len(b) /\ j \in 1..LastEnd(b) /\ m + j \in 1..LastEnd(w)
    BY <1>0
  <2>2. (m + j \in Telling(w) <=> j \in Telling(b)) /\ Event(w, m + j) = Event(b, j)
    BY <2>1, CutTelling, CutEventsLast
  <2> QED
    BY <1>0, <2>1, <2>2, ToldIs
<1>3. Sayings(p) \in Seq(Usage)
  BY <1>0, <1>1, JoinedType DEF Sayings
<1>4. Sayings(b) \in Seq(Usage)
  BY <1>0, <1>2, JoinedType DEF Sayings
<1>5. Joined(Told(w), m + k) = Joined(Told(p), m) \o Joined(Told(b), k)
  <2>1. \A e \in 1..m : Told(w)[e] = Told(p)[e] /\ Told(p)[e] \in Seq(Usage)
    BY <1>1
  <2>2. \A j \in 1..k : Told(w)[m + j] = Told(b)[j] /\ Told(b)[j] \in Seq(Usage)
    BY <1>2
  <2>3. m \in Nat /\ k \in Nat
    BY <1>0
  <2> DEFINE tw == Told(w)
             tp == Told(p)
             tb == Told(b)
  <2>4. InTwo(Usage, tw, tp, tb, m, k)
    BY <2>1, <2>2, <2>3 DEF InTwo
  <2> HIDE DEF k, tw, tp, tb
  <2>5. Joined(tw, m + k) = Joined(tp, m) \o Joined(tb, k)
    BY <2>4, JoinedInTwo
  <2> QED
    BY <2>5 DEF tw, tp, tb
<1> QED
  BY <1>0, <1>3, <1>4, <1>5 DEF Sayings

\* Reading a body's events in two pushes is reading them in one.
LEMMA CutEventsAbsorb ==
  ASSUME NEW p \in Seq(Unit), NEW y \in Seq(Unit)
  PROVE  AbsorbEvents(AbsorbEvents(EmptyCapture, p), Rest(p) \o y)
           = AbsorbEvents(EmptyCapture, p \o y)
<1> DEFINE b == Rest(p) \o y
           w == p \o y
           m == LastEnd(p)
           k == LastEnd(b)
<1>1. Cut(p, b, w, m)
  BY CutAnywhere
<1> HIDE DEF b, w, m
<1>2. /\ b \in Seq(Unit) /\ w \in Seq(Unit) /\ m = LastEnd(p) /\ LastEnd(w) = m + k
      /\ Len(w) = m + Len(b)
      /\ m \in Nat /\ m <= Len(p) /\ Len(p) \in Nat /\ k \in Nat /\ k <= Len(b) /\ Len(b) \in Nat
  BY <1>1, CutTypes, CutEnds DEF Cut
<1>3. Rest(w) = Rest(b)
  <2>1. k + 1 \in Nat /\ 1 <= k + 1 /\ m + Len(b) <= Len(w)
    BY <1>2
  <2>2. \A j \in k + 1..Len(b) : w[m + j] = b[j]
    BY <1>1, <1>2 DEF Cut
  <2>3. SubSeq(w, m + (k + 1), m + Len(b)) = SubSeq(b, k + 1, Len(b))
    <3>1. Alike(b, w, k + 1, Len(b), m)
      BY <1>2, <2>1, <2>2 DEF Alike
    <3>2. Piece(w, m + (k + 1), m + Len(b)) = Piece(b, k + 1, Len(b))
      BY <3>1, SamePiece
    <3> QED
      BY <3>2 DEF Piece
  <2>4. m + (k + 1) = m + k + 1
    BY <1>2
  <2> QED
    BY <1>2, <2>3, <2>4 DEF Rest
<1>4. Merge(Merge(NoUsage, SubSeq(p, 1, m)), SubSeq(b, 1, k)) = Merge(NoUsage, SubSeq(w, 1, m + k))
  <2> DEFINE s == SubSeq(p, 1, m)
             t == SubSeq(b, 1, k)
             u == SubSeq(w, 1, m + k)
             v == s \o t
  <2>1. /\ s \in Seq(Unit) /\ Len(s) = m /\ \A i \in 1..m : s[i] = p[i]
    BY <1>2
  <2>2. /\ t \in Seq(Unit) /\ Len(t) = k /\ \A i \in 1..k : t[i] = b[i]
    BY <1>2
  <2>3. /\ u \in Seq(Unit) /\ Len(u) = m + k /\ \A i \in 1..m + k : u[i] = w[i]
    BY <1>2
  <2> HIDE DEF s, t, u, k
  <2>4. /\ v \in Seq(Unit) /\ Len(v) = m + k
        /\ \A i \in 1..m + k : v[i] = IF i <= m THEN s[i] ELSE t[i - m]
    <3>1. /\ s \o t \in Seq(Unit) /\ Len(s \o t) = Len(s) + Len(t)
          /\ \A i \in 1..Len(s) + Len(t) : (s \o t)[i] = IF i <= Len(s) THEN s[i] ELSE t[i - Len(s)]
      BY <2>1, <2>2, ConcatProperties
    <3> QED
      BY <2>1, <2>2, <3>1
  <2> HIDE DEF v
  <2>5. ASSUME NEW i \in 1..m + k PROVE v[i] = u[i]
    <3>1. CASE i <= m
      <4>1. i \in 1..m
        BY <3>1
      <4>2. v[i] = s[i] /\ s[i] = p[i] /\ w[i] = p[i] /\ u[i] = w[i]
        BY <1>1, <2>1, <2>3, <2>4, <3>1, <4>1 DEF Cut
      <4> QED
        BY <4>2
    <3>2. CASE ~(i <= m)
      <4>1. i - m \in 1..k /\ i - m \in 1..Len(b) /\ m + (i - m) = i
        BY <1>2, <3>2
      <4>2. v[i] = t[i - m] /\ t[i - m] = b[i - m] /\ w[m + (i - m)] = b[i - m] /\ u[i] = w[i]
        BY <1>1, <2>2, <2>3, <2>4, <3>2, <4>1 DEF Cut
      <4> QED
        BY <4>1, <4>2
    <3> QED
      BY <3>1, <3>2
  <2>6. v = u
    BY <1>2, <2>3, <2>4, <2>5, SeqEqual
  <2>7. Merge(Merge(NoUsage, s), t) = Merge(NoUsage, v)
    BY <2>1, <2>2, NoUsageIsUsage, MergeTwice DEF v
  <2> QED
    BY <2>6, <2>7 DEF s, t, u
<1>5. /\ Sayings(p) \in Seq(Usage) /\ Sayings(b) \in Seq(Usage)
      /\ Sayings(w) = Sayings(p) \o Sayings(b)
  BY <1>1, CutSayings
<1>6. FirstN(FirstN(<<>> \o Sayings(p), MaxRaw) \o Sayings(b), MaxRaw) = FirstN(<<>> \o Sayings(w), MaxRaw)
  <2>1. <<>> \o Sayings(p) = Sayings(p) /\ <<>> \o Sayings(w) = Sayings(w)
    BY <1>5, ConcatProperties, ConcatEmptySeq
  <2>2. MaxRaw \in Nat
    BY BoundsAssumption
  <2> QED
    BY <1>5, <2>1, <2>2, FirstOfFirst
<1>7. Named(w) <=> Named(p) \/ Named(b)
  BY <1>1, CutNamed
<1> DEFINE One == AbsorbEvents(EmptyCapture, p)
           Two == AbsorbEvents(One, b)
           All == AbsorbEvents(EmptyCapture, w)
<1>a. \A q \in Seq(Unit) :
        AbsorbEvents(EmptyCapture, q)
          = [buf |-> Rest(q), usage |-> Merge(NoUsage, SubSeq(q, 1, LastEnd(q))),
             raw |-> FirstN(<<>> \o Sayings(q), MaxRaw),
             model |-> IF Named(q) THEN "served" ELSE "none", done |-> FALSE]
  <2> TAKE q \in Seq(Unit)
  <2> DEFINE E == EmptyCapture
  <2>1. E = [buf |-> <<>>, usage |-> NoUsage, raw |-> <<>>, model |-> "none", done |-> FALSE]
    BY DEF EmptyCapture
  <2> HIDE DEF E
  <2>2. AbsorbEvents(E, q) =
          [E EXCEPT !.buf = Rest(q), !.usage = Merge(E.usage, SubSeq(q, 1, LastEnd(q))),
                    !.raw = FirstN(E.raw \o Sayings(q), MaxRaw),
                    !.model = IF E.model = "none" /\ Named(q) THEN "served" ELSE E.model]
    BY <2>1 DEF AbsorbEvents, Sayings
  <2>3. E.usage = NoUsage /\ E.raw = <<>> /\ E.model = "none"
    BY <2>1
  <2>4. (IF E.model = "none" /\ Named(q) THEN "served" ELSE E.model)
          = IF Named(q) THEN "served" ELSE "none"
    BY <2>3
  <2>5. AbsorbEvents(E, q) =
          [buf |-> Rest(q), usage |-> Merge(NoUsage, SubSeq(q, 1, LastEnd(q))),
           raw |-> FirstN(<<>> \o Sayings(q), MaxRaw),
           model |-> IF Named(q) THEN "served" ELSE "none", done |-> FALSE]
    BY <2>1, <2>2, <2>3, <2>4
  <2> QED
    BY <2>5 DEF E
<1>8. One = [buf |-> Rest(p), usage |-> Merge(NoUsage, SubSeq(p, 1, m)),
             raw |-> FirstN(<<>> \o Sayings(p), MaxRaw),
             model |-> IF Named(p) THEN "served" ELSE "none", done |-> FALSE]
  BY <1>2, <1>a
<1>9. All = [buf |-> Rest(w), usage |-> Merge(NoUsage, SubSeq(w, 1, m + k)),
             raw |-> FirstN(<<>> \o Sayings(w), MaxRaw),
             model |-> IF Named(w) THEN "served" ELSE "none", done |-> FALSE]
  BY <1>2, <1>a
<1>10. Two = [One EXCEPT !.buf = Rest(b), !.usage = Merge(@, SubSeq(b, 1, k)),
                         !.raw = FirstN(@ \o Sayings(b), MaxRaw),
                         !.model = IF @ = "none" /\ Named(b) THEN "served" ELSE @]
  BY DEF AbsorbEvents, Sayings
<1> HIDE DEF One, Two, All
<1>11. Two = [buf |-> Rest(b), usage |-> Merge(One.usage, SubSeq(b, 1, k)),
              raw |-> FirstN(One.raw \o Sayings(b), MaxRaw),
              model |-> IF One.model = "none" /\ Named(b) THEN "served" ELSE One.model,
              done |-> FALSE]
  BY <1>8, <1>10
<1>12. (IF One.model = "none" /\ Named(b) THEN "served" ELSE One.model)
         = IF Named(w) THEN "served" ELSE "none"
  BY <1>7, <1>8
<1>13. One.usage = Merge(NoUsage, SubSeq(p, 1, m)) /\ One.raw = FirstN(<<>> \o Sayings(p), MaxRaw)
  BY <1>8
<1>14. Two = All
  BY <1>3, <1>4, <1>6, <1>9, <1>11, <1>12, <1>13
<1> QED
  BY <1>14 DEF One, Two, All, b, w

\* Before the first chunk nothing is read.
LEMMA NothingRead ==
  /\ AbsorbEvents(EmptyCapture, <<>>) = EmptyCapture
  /\ JsonAbsorb(EmptyCapture, <<>>) = EmptyCapture
<1>1. <<>> \in Seq(Unit) /\ \A units : Positions(<<>>, units) = {}
  BY DEF Positions
<1>2. LastEnd(<<>>) = 0 /\ Telling(<<>>) = {} /\ Max0({}) = 0 /\ Min0({}) = 0
  <2>1. LastEnd(<<>>) = 0
    BY <1>1, OpenStep DEF LastEnd
  <2>2. Ends(<<>>) = {}
    BY DEF Ends
  <2> QED
    BY <2>1, <2>2 DEF Telling, Max0, Min0
<1>3. Rest(<<>>) = <<>>
  <2>1. Rest(<<>>) = SubSeq(<<>>, 0 + 1, Len(<<>>)) /\ Len(<<>>) = 0
    BY <1>2 DEF Rest
  <2> QED
    BY <2>1, SubSeqEmpty
<1>4. SubSeq(<<>>, 1, 0) = <<>>
  BY SubSeqEmpty
<1>5. Merge(NoUsage, <<>>) = NoUsage
  BY <1>1, <1>2 DEF Merge, NoUsage
<1>6. ~Named(<<>>)
  BY <1>2 DEF Named
<1>7. FirstN(<<>> \o Joined(Told(<<>>), 0), MaxRaw) = <<>>
  <2>1. Joined(Told(<<>>), 0) = <<>> /\ <<>> \o <<>> = <<>> /\ Len(<<>>) = 0
    BY JoinedStep, ConcatEmptySeq
  <2>2. 0 < MaxRaw
    BY BoundsAssumption
  <2> QED
    BY <1>4, <2>1, <2>2 DEF FirstN
<1>8. AbsorbEvents(EmptyCapture, <<>>) = EmptyCapture
  <2> DEFINE E == EmptyCapture
  <2>1. E = [buf |-> <<>>, usage |-> NoUsage, raw |-> <<>>, model |-> "none", done |-> FALSE]
    BY DEF EmptyCapture
  <2> HIDE DEF E
  <2>2. AbsorbEvents(E, <<>>) =
          [E EXCEPT !.buf = <<>>, !.usage = Merge(@, <<>>),
                    !.raw = FirstN(@ \o Joined(Told(<<>>), 0), MaxRaw),
                    !.model = @]
    BY <1>2, <1>3, <1>4, <1>6 DEF AbsorbEvents
  <2>3. E.usage = NoUsage /\ E.raw = <<>>
    BY <2>1
  <2>4. AbsorbEvents(E, <<>>) = E
    BY <1>5, <1>7, <2>1, <2>2, <2>3
  <2> QED
    BY <2>4 DEF E
<1>9. JsonAbsorb(EmptyCapture, <<>>) = EmptyCapture
  <2>1. EmptyCapture.buf = <<>> /\ EmptyCapture.done = FALSE /\ <<>> \o <<>> = <<>>
    BY ConcatEmptySeq DEF EmptyCapture
  <2>2. JsonStart(<<>>) = 0 /\ JsonModel(EmptyCapture, <<>>) = EmptyCapture.model
    BY <1>1, <1>2 DEF JsonStart, JsonModel
  <2>3. JsonAbsorb(EmptyCapture, <<>>) = [EmptyCapture EXCEPT !.model = EmptyCapture.model]
    BY <2>1, <2>2 DEF JsonAbsorb
  <2> QED
    BY <2>3 DEF EmptyCapture
<1> QED
  BY <1>8, <1>9

(***************************************************************************)
(* A JSON body read in two pushes.                                         *)
(***************************************************************************)
LEMMA FirstPlace ==
  ASSUME NEW s \in Seq(Unit), NEW units
  PROVE  /\ Positions(s, units) \subseteq 1..Len(s) /\ Len(s) \in Nat
         /\ Min0(Positions(s, units)) \in 0..Len(s) /\ Min0(Positions(s, units)) \in Nat
         /\ \A i \in Positions(s, units) : Min0(Positions(s, units)) <= i
         /\ Positions(s, units) # {} => /\ Min0(Positions(s, units)) \in Positions(s, units)
                                        /\ Min0(Positions(s, units)) \in 1..Len(s)
         /\ Positions(s, units) = {} <=> Min0(Positions(s, units)) = 0
<1> DEFINE A == Positions(s, units)
<1>1. Len(s) \in Nat /\ A \subseteq 1..Len(s)
  BY PlacesOf
<1> HIDE DEF A
<1>2. /\ Min0(A) \in 0..Len(s) /\ (\A y \in A : Min0(A) <= y)
      /\ (A = {} => Min0(A) = 0) /\ (A # {} => Min0(A) \in A)
  BY <1>1, FirstIs
<1>3. Min0(A) \in Nat /\ (A # {} => Min0(A) \in 1..Len(s)) /\ (A = {} <=> Min0(A) = 0)
  BY <1>1, <1>2
<1> QED
  BY <1>1, <1>2, <1>3 DEF A

LEMMA FirstOfBoth ==
  ASSUME NEW s \in Seq(Unit), NEW t \in Seq(Unit), NEW units
  PROVE  Min0(Positions(s \o t, units)) =
           IF Positions(s, units) # {} THEN Min0(Positions(s, units))
           ELSE IF Positions(t, units) # {} THEN Len(s) + Min0(Positions(t, units))
           ELSE 0
<1> DEFINE w == s \o t
           A == Positions(s, units)
           B == Positions(t, units)
           C == Positions(w, units)
<1>1. /\ \A i \in 1..Len(s) : i \in C <=> i \in A
      /\ \A j \in 1..Len(t) : Len(s) + j \in C <=> j \in B
      /\ \A i \in C : i \in 1..Len(s) \/ (i - Len(s) \in 1..Len(t) /\ Len(s) + (i - Len(s)) = i)
  BY PlacesOfBoth
<1>2. w \in Seq(Unit)
  BY ConcatProperties
<1>3. /\ A \subseteq 1..Len(s) /\ Len(s) \in Nat /\ Min0(A) \in Nat
      /\ (\A i \in A : Min0(A) <= i) /\ (A # {} => Min0(A) \in A)
  BY FirstPlace
<1>4. /\ B \subseteq 1..Len(t) /\ Len(t) \in Nat /\ Min0(B) \in Nat
      /\ (\A i \in B : Min0(B) <= i) /\ (B # {} => Min0(B) \in B)
  BY FirstPlace
<1>5. /\ C \subseteq 1..Len(w) /\ Len(w) \in Nat /\ Min0(C) \in Nat
      /\ (\A i \in C : Min0(C) <= i) /\ (C # {} => Min0(C) \in C) /\ (C = {} => Min0(C) = 0)
  BY <1>2, FirstPlace
<1> HIDE DEF w, A, B, C
<1>6. CASE A # {}
  <2>1. Min0(A) \in 1..Len(s) /\ Min0(A) \in C
    BY <1>1, <1>3, <1>6
  <2>2. Min0(C) <= Min0(A) /\ Min0(C) \in C
    BY <1>5, <2>1
  <2>3. Min0(C) \in 1..Len(s)
    BY <1>3, <1>4, <1>5, <1>1, <2>1, <2>2
  <2>4. Min0(C) \in A
    BY <1>1, <2>2, <2>3
  <2>5. Min0(A) <= Min0(C)
    BY <1>3, <2>4
  <2>6. Min0(C) = Min0(A)
    BY <1>3, <1>5, <2>2, <2>5
  <2> QED
    BY <1>6, <2>6 DEF A, B, C, w
<1>7. CASE A = {} /\ B # {}
  <2>1. Min0(B) \in 1..Len(t) /\ Len(s) + Min0(B) \in C
    BY <1>1, <1>4, <1>7
  <2>2. Min0(C) <= Len(s) + Min0(B) /\ Min0(C) \in C
    BY <1>5, <2>1
  <2>3. Min0(C) - Len(s) \in 1..Len(t) /\ Len(s) + (Min0(C) - Len(s)) = Min0(C)
    BY <1>1, <1>7, <2>2
  <2>4. Min0(C) - Len(s) \in B
    BY <1>1, <2>2, <2>3
  <2>5. Min0(B) <= Min0(C) - Len(s)
    BY <1>4, <2>4
  <2>6. Min0(C) = Len(s) + Min0(B)
    BY <1>3, <1>4, <1>5, <2>2, <2>5
  <2> QED
    BY <1>7, <2>6 DEF A, B, C, w
<1>8. CASE A = {} /\ B = {}
  <2>1. C = {}
    <3> SUFFICES ASSUME NEW i \in C PROVE FALSE
      OBVIOUS
    <3> QED
      BY <1>1, <1>8
  <2> QED
    BY <1>5, <1>8, <2>1 DEF A, B, C, w
<1> QED
  BY <1>6, <1>7, <1>8

\* A capture by its fields.
Unfinished(b, u, r, n) == [buf |-> b, usage |-> u, raw |-> r, model |-> n, done |-> FALSE]
Finished(b, u, r, n)   == [buf |-> b, usage |-> u, raw |-> r, model |-> n, done |-> TRUE]

\* What a push does to a capture.
Naming(c, name)  == [c EXCEPT !.model = name]
GivingUp(c)      == [c EXCEPT !.buf = <<>>, !.done = TRUE]
Holding(c, b)    == [c EXCEPT !.buf = b]
Taking(c, usage) == [c EXCEPT !.buf = <<>>, !.usage = usage, !.raw = <<usage>>, !.done = TRUE]

LEMMA FieldsSet ==
  ASSUME NEW b, NEW u, NEW r, NEW n
  PROVE  /\ \A x : Naming(Unfinished(b, u, r, n), x) = Unfinished(b, u, r, x)
         /\ GivingUp(Unfinished(b, u, r, n)) = Finished(<<>>, u, r, n)
         /\ \A x : Holding(Unfinished(b, u, r, n), x) = Unfinished(x, u, r, n)
         /\ \A x : Taking(Unfinished(b, u, r, n), x) = Finished(<<>>, x, <<x>>, n)
<1> DEFINE c == Unfinished(b, u, r, n)
<1>1. ASSUME NEW x PROVE Naming(c, x) = Unfinished(b, u, r, x)
  <2> DEFINE e == Naming(c, x)
  <2>1. e.buf = b /\ e.usage = u /\ e.raw = r /\ e.model = x /\ e.done = FALSE
    BY DEF Unfinished, Naming
  <2>2. e = [f \in {"buf", "usage", "raw", "model", "done"} |-> e[f]]
    BY DEF Unfinished, Naming
  <2> HIDE DEF e
  <2>3. e = [buf |-> b, usage |-> u, raw |-> r, model |-> x, done |-> FALSE]
    BY <2>1, <2>2
  <2> QED
    BY <2>3 DEF e, Unfinished
<1>2. ASSUME NEW x PROVE Holding(c, x) = Unfinished(x, u, r, n)
  <2> DEFINE e == Holding(c, x)
  <2>1. e.buf = x /\ e.usage = u /\ e.raw = r /\ e.model = n /\ e.done = FALSE
    BY DEF Unfinished, Holding
  <2>2. e = [f \in {"buf", "usage", "raw", "model", "done"} |-> e[f]]
    BY DEF Unfinished, Holding
  <2> HIDE DEF e
  <2>3. e = [buf |-> x, usage |-> u, raw |-> r, model |-> n, done |-> FALSE]
    BY <2>1, <2>2
  <2> QED
    BY <2>3 DEF e, Unfinished
<1>3. GivingUp(c) = Finished(<<>>, u, r, n)
  <2> DEFINE e == GivingUp(c)
  <2>1. e.buf = <<>> /\ e.usage = u /\ e.raw = r /\ e.model = n /\ e.done = TRUE
    BY DEF Unfinished, Finished, GivingUp
  <2>2. e = [f \in {"buf", "usage", "raw", "model", "done"} |-> e[f]]
    BY DEF Unfinished, Finished, GivingUp
  <2> HIDE DEF e
  <2>3. e = [buf |-> <<>>, usage |-> u, raw |-> r, model |-> n, done |-> TRUE]
    BY <2>1, <2>2
  <2> QED
    BY <2>3 DEF e, Unfinished, Finished
<1>4. ASSUME NEW x PROVE Taking(c, x) = Finished(<<>>, x, <<x>>, n)
  <2> DEFINE e == Taking(c, x)
  <2>1. e.buf = <<>> /\ e.usage = x /\ e.raw = <<x>> /\ e.model = n /\ e.done = TRUE
    BY DEF Unfinished, Finished, Taking
  <2>2. e = [f \in {"buf", "usage", "raw", "model", "done"} |-> e[f]]
    BY DEF Unfinished, Finished, Taking
  <2> HIDE DEF e
  <2>3. e = [buf |-> <<>>, usage |-> x, raw |-> <<x>>, model |-> n, done |-> TRUE]
    BY <2>1, <2>2
  <2> QED
    BY <2>3 DEF e, Unfinished, Finished
<1> QED
  BY <1>1, <1>2, <1>3, <1>4

\* The capture before anything but the model has been read.
Scanning(name) == Unfinished(<<>>, NoUsage, <<>>, name)

LEMMA ScanningIs ==
  /\ EmptyCapture = Scanning("none")
  /\ \A name : Scanning(name).buf = <<>> /\ Scanning(name).done = FALSE /\ Scanning(name).model = name
  /\ \A name, other : Naming(Scanning(name), other) = Scanning(other)
<1>1. EmptyCapture = Scanning("none")
  BY DEF EmptyCapture, Scanning, Unfinished, Finished
<1>2. ASSUME NEW name, NEW other PROVE Naming(Scanning(name), other) = Scanning(other)
  BY FieldsSet DEF Scanning
<1>3. \A name : Scanning(name).buf = <<>> /\ Scanning(name).done = FALSE /\ Scanning(name).model = name
  BY DEF Scanning, Unfinished, Finished
<1> QED
  BY <1>1, <1>2, <1>3

LEMMA JsonScan ==
  ASSUME NEW name, NEW y \in Seq(Unit)
  PROVE  JsonAbsorb(Scanning(name), y) =
           IF JsonStart(y) = 0 THEN Scanning(JsonModel(Scanning(name), y))
           ELSE JsonCollect(Scanning(JsonModel(Scanning(name), y)), SubSeq(y, JsonStart(y), Len(y)))
<1> DEFINE c == Scanning(name)
<1>1. c.buf = <<>> /\ c.done = FALSE
  BY ScanningIs
<1>2. Naming(c, JsonModel(c, y)) = Scanning(JsonModel(c, y))
  BY ScanningIs
<1> HIDE DEF c
<1>3. c.buf \o y = y
  BY <1>1, ConcatEmptySeq
<1>4. JsonAbsorb(c, y) = IF JsonStart(y) = 0 THEN Scanning(JsonModel(c, y))
                         ELSE JsonCollect(Scanning(JsonModel(c, y)), SubSeq(y, JsonStart(y), Len(y)))
  BY <1>1, <1>2, <1>3 DEF JsonAbsorb, Naming
<1> QED
  BY <1>4 DEF c

\* A usage object collected in two pushes.
LEMMA CollectTwice ==
  ASSUME NEW name, NEW o \in Seq(Unit), NEW y \in Seq(Unit), o # <<>>, o[1] \in Count
  PROVE  JsonAbsorb(JsonCollect(Scanning(name), o), y) = JsonCollect(Scanning(name), o \o y)
<1> DEFINE w == o \o y
           n == Scanning(name)
           x == Min0(Positions(o, {"end"}))
           z == Min0(Positions(w, {"end"}))
           u == Merge(NoUsage, SubSeq(o, 1, x))
           v == Merge(NoUsage, SubSeq(w, 1, z))
           kx == IF x > 0 THEN x ELSE Len(o)
           kz == IF z > 0 THEN z ELSE Len(w)
           one == JsonCollect(n, o)
           all == JsonCollect(n, w)
<1>1. w \in Seq(Unit) /\ Len(w) = Len(o) + Len(y)
      /\ \A i \in 1..Len(o) + Len(y) : w[i] = IF i <= Len(o) THEN o[i] ELSE y[i - Len(o)]
  BY ConcatProperties
<1>2. x \in Nat /\ x <= Len(o) /\ Len(o) \in Nat /\ Len(y) \in Nat /\ z \in Nat /\ z <= Len(w)
      /\ Len(w) \in Nat /\ Len(o) >= 1 /\ MaxUsageObj \in Nat
  <2>1. Len(o) >= 1
    BY EmptySeq
  <2>2. x \in 0..Len(o) /\ z \in 0..Len(w) /\ Len(o) \in Nat /\ Len(y) \in Nat /\ Len(w) \in Nat
    BY <1>1, FirstPlace
  <2> QED
    BY <2>1, <2>2, BoundsAssumption
<1>3. /\ x > 0 => z = x
      /\ x = 0 => z = 0 \/ z > Len(o)
  <2>1. /\ Positions(o, {"end"}) = {} <=> x = 0
        /\ Positions(y, {"end"}) # {} => Min0(Positions(y, {"end"})) \in 1..Len(y)
    BY FirstPlace
  <2>2. z = IF Positions(o, {"end"}) # {} THEN x
            ELSE IF Positions(y, {"end"}) # {} THEN Len(o) + Min0(Positions(y, {"end"}))
            ELSE 0
    BY FirstOfBoth
  <2> QED
    BY <1>2, <2>1, <2>2
<1>4. n = Unfinished(<<>>, NoUsage, <<>>, name)
  BY DEF Scanning
<1>5. one = IF kx > MaxUsageObj THEN GivingUp(n)
            ELSE IF x = 0 THEN Holding(n, o)
            ELSE Taking(n, u)
  BY DEF JsonCollect, GivingUp, Holding, Taking
<1>6. \A k : JsonCollect(k, w) =
        IF kz > MaxUsageObj THEN GivingUp(k)
        ELSE IF z = 0 THEN Holding(k, w)
        ELSE Taking(k, v)
  BY DEF JsonCollect, GivingUp, Holding, Taking
<1>a. all = IF kz > MaxUsageObj THEN Finished(<<>>, NoUsage, <<>>, name)
            ELSE IF z = 0 THEN Unfinished(w, NoUsage, <<>>, name)
            ELSE Finished(<<>>, v, <<v>>, name)
  <2> HIDE DEF n, x, z, u, v, w, kx, kz
  <2>1. /\ GivingUp(n) = Finished(<<>>, NoUsage, <<>>, name)
        /\ Holding(n, w) = Unfinished(w, NoUsage, <<>>, name)
        /\ Taking(n, v)
             = Finished(<<>>, v, <<v>>, name)
    BY <1>4, FieldsSet
  <2> QED
    BY <1>6, <2>1
<1>b. one = IF kx > MaxUsageObj THEN Finished(<<>>, NoUsage, <<>>, name)
            ELSE IF x = 0 THEN Unfinished(o, NoUsage, <<>>, name)
            ELSE Finished(<<>>, u, <<u>>, name)
  <2> HIDE DEF n, x, z, u, v, w, one, kx, kz
  <2>1. /\ GivingUp(n) = Finished(<<>>, NoUsage, <<>>, name)
        /\ Holding(n, o) = Unfinished(o, NoUsage, <<>>, name)
        /\ Taking(n, u)
             = Finished(<<>>, u, <<u>>, name)
    BY <1>4, FieldsSet
  <2> QED
    BY <1>5, <2>1
<1>7. x > 0 => u = v
  <2> SUFFICES ASSUME x > 0 PROVE u = v
    OBVIOUS
  <2>1. z = x
    BY <1>3
  <2>2. \A j \in 1..x : w[0 + j] = o[j]
    BY <1>1, <1>2
  <2>3. Alike(o, w, 1, x, 0)
    BY <1>1, <1>2, <2>2 DEF Alike
  <2>4. Piece(w, 0 + 1, 0 + x) = Piece(o, 1, x)
    BY <2>3, SamePiece
  <2>5. SubSeq(w, 1, x) = SubSeq(o, 1, x)
    BY <1>2, <2>4 DEF Piece
  <2> QED
    BY <2>1, <2>5
<1> HIDE DEF x, z, u, v, one, all, w, n
<1>8. CASE kx > MaxUsageObj
  <2>1. kz > MaxUsageObj
    BY <1>1, <1>2, <1>3, <1>8
  <2>2. one = all /\ one.done = TRUE
    BY <1>a, <1>b, <1>8, <2>1 DEF Unfinished, Finished
  <2>3. JsonAbsorb(one, y) = one
    BY <2>2 DEF JsonAbsorb, Naming
  <2> QED
    BY <2>2, <2>3 DEF one, all, n, w
<1>9. CASE ~(kx > MaxUsageObj) /\ x > 0
  <2>1. ~(kz > MaxUsageObj) /\ z > 0 /\ u = v
    BY <1>3, <1>7, <1>9
  <2>2. x # 0 /\ z # 0
    BY <1>2, <1>9, <2>1
  <2>3. one = all /\ one.done = TRUE
    BY <1>a, <1>b, <1>9, <2>1, <2>2 DEF Unfinished, Finished
  <2>4. JsonAbsorb(one, y) = one
    BY <2>3 DEF JsonAbsorb, Naming
  <2> QED
    BY <2>3, <2>4 DEF one, all, n, w
<1>10. CASE ~(kx > MaxUsageObj) /\ x = 0
  <2>2. one = Unfinished(o, NoUsage, <<>>, name)
    BY <1>b, <1>10
  <2>3. one.buf \o y = w /\ one.done = FALSE /\ one.model = name
    BY <2>2 DEF w, Unfinished, Finished
  <2>4. JsonStart(w) = 1
    <3>1. w[1] = o[1] /\ 1 \in 1..Len(w)
      BY <1>1, <1>2
    <3>2. 1 \in Positions(w, Count)
      BY <1>1, <3>1, PlacesOf
    <3>3. Min0(Positions(w, Count)) \in 1..Len(w) /\ Min0(Positions(w, Count)) <= 1
      BY <1>1, <3>2, FirstPlace
    <3> QED
      BY <1>2, <3>3 DEF JsonStart
  <2>5. JsonModel(one, w) = name
    <3>1. \A i \in Positions(w, {"name"}) : i \in Nat /\ i >= 1
      BY <1>1, PlacesOf
    <3>2. ~\E i \in Positions(w, {"name"}) : JsonStart(w) = 0 \/ i < JsonStart(w)
      BY <2>4, <3>1
    <3> QED
      BY <2>3, <3>2 DEF JsonModel
  <2>6. SubSeq(w, 1, Len(w)) = w
    BY <1>1, SubSeqFull
  <2> DEFINE k == Naming(one, name)
  <2>7. JsonAbsorb(one, y) = JsonCollect(k, w)
    <3>1. Naming(one, JsonModel(one, w)) = k
      BY <2>5
    <3>2. one.done = FALSE /\ JsonStart(one.buf \o y) # 0
      BY <2>3, <2>4
    <3>3. JsonAbsorb(one, y) =
            JsonCollect(Naming(one, JsonModel(one, one.buf \o y)),
                        SubSeq(one.buf \o y, JsonStart(one.buf \o y), Len(one.buf \o y)))
      BY <3>2 DEF JsonAbsorb, Naming
    <3> QED
      BY <2>3, <2>4, <2>6, <3>1, <3>3
  <2>8. k = Unfinished(o, NoUsage, <<>>, name)
    BY <2>2, FieldsSet
  <2> HIDE DEF k, kz
  <2>9. /\ GivingUp(k) = Finished(<<>>, NoUsage, <<>>, name)
        /\ Holding(k, w) = Unfinished(w, NoUsage, <<>>, name)
        /\ Taking(k, v)
             = Finished(<<>>, v, <<v>>, name)
    BY <2>8, FieldsSet
  <2>10. JsonCollect(k, w) = all
    BY <1>6, <1>a, <2>9
  <2> QED
    BY <2>7, <2>10 DEF one, all, n, w
<1> QED
  BY <1>2, <1>8, <1>9, <1>10

\* Is the model named ahead of the usage object?
Ahead(bytes) ==
  \E i \in Positions(bytes, {"name"}) : JsonStart(bytes) = 0 \/ i < JsonStart(bytes)

LEMMA JsonModelIs ==
  ASSUME NEW name, NEW bytes
  PROVE  JsonModel(Scanning(name), bytes) = IF Ahead(bytes) THEN "served" ELSE name
BY ScanningIs DEF JsonModel, Ahead

LEMMA StartOfBoth ==
  ASSUME NEW p \in Seq(Unit), NEW y \in Seq(Unit)
  PROVE  /\ JsonStart(p) \in Nat /\ JsonStart(p) <= Len(p)
         /\ JsonStart(y) \in Nat /\ JsonStart(y) <= Len(y)
         /\ Len(p) \in Nat /\ Len(y) \in Nat /\ p \o y \in Seq(Unit) /\ Len(p \o y) = Len(p) + Len(y)
         /\ JsonStart(p) # 0 => /\ JsonStart(p \o y) = JsonStart(p)
                                /\ p[JsonStart(p)] \in Count
         /\ JsonStart(p) = 0 =>
              JsonStart(p \o y) = IF JsonStart(y) = 0 THEN 0 ELSE Len(p) + JsonStart(y)
<1>1. /\ JsonStart(p) \in 0..Len(p) /\ Len(p) \in Nat
      /\ Positions(p, Count) = {} <=> JsonStart(p) = 0
      /\ Positions(p, Count) # {} => JsonStart(p) \in Positions(p, Count)
  BY FirstPlace DEF JsonStart
<1>2. /\ JsonStart(y) \in 0..Len(y) /\ Len(y) \in Nat
      /\ Positions(y, Count) = {} <=> JsonStart(y) = 0
  BY FirstPlace DEF JsonStart
<1>3. JsonStart(p \o y) = IF Positions(p, Count) # {} THEN JsonStart(p)
                          ELSE IF Positions(y, Count) # {} THEN Len(p) + JsonStart(y) ELSE 0
  BY FirstOfBoth DEF JsonStart
<1>4. p \o y \in Seq(Unit) /\ Len(p \o y) = Len(p) + Len(y)
  BY ConcatProperties
<1>5. JsonStart(p) # 0 => p[JsonStart(p)] \in Count
  BY <1>1, PlacesOf
<1> QED
  BY <1>1, <1>2, <1>3, <1>4, <1>5

LEMMA AheadOfBoth ==
  ASSUME NEW p \in Seq(Unit), NEW y \in Seq(Unit)
  PROVE  Ahead(p \o y) <=> Ahead(p) \/ (JsonStart(p) = 0 /\ Ahead(y))
<1> DEFINE w == p \o y
           N == {"name"}
<1>1. /\ JsonStart(p) \in Nat /\ JsonStart(p) <= Len(p) /\ JsonStart(y) \in Nat
      /\ Len(p) \in Nat /\ Len(y) \in Nat
      /\ JsonStart(p) # 0 => JsonStart(w) = JsonStart(p)
      /\ JsonStart(p) = 0 => JsonStart(w) = IF JsonStart(y) = 0 THEN 0 ELSE Len(p) + JsonStart(y)
  BY StartOfBoth
<1>2. /\ \A i \in 1..Len(p) : i \in Positions(w, N) <=> i \in Positions(p, N)
      /\ \A j \in 1..Len(y) : Len(p) + j \in Positions(w, N) <=> j \in Positions(y, N)
      /\ \A i \in Positions(w, N) :
           i \in 1..Len(p) \/ (i - Len(p) \in 1..Len(y) /\ Len(p) + (i - Len(p)) = i)
  BY PlacesOfBoth
<1>3. Positions(p, N) \subseteq 1..Len(p) /\ Positions(y, N) \subseteq 1..Len(y)
  BY PlacesOf
<1> HIDE DEF w, N
<1>4. /\ Ahead(w) <=> \E i \in Positions(w, N) : JsonStart(w) = 0 \/ i < JsonStart(w)
      /\ Ahead(p) <=> \E i \in Positions(p, N) : JsonStart(p) = 0 \/ i < JsonStart(p)
      /\ Ahead(y) <=> \E i \in Positions(y, N) : JsonStart(y) = 0 \/ i < JsonStart(y)
  BY DEF Ahead, N
<1>5. ASSUME NEW i \in Positions(w, N), JsonStart(w) = 0 \/ i < JsonStart(w)
      PROVE  Ahead(p) \/ (JsonStart(p) = 0 /\ Ahead(y))
  <2>1. CASE i \in 1..Len(p)
    <3>1. i \in Positions(p, N)
      BY <1>2, <2>1
    <3>2. JsonStart(p) = 0 \/ i < JsonStart(p)
      BY <1>1, <1>5
    <3> QED
      BY <1>4, <3>1, <3>2
  <2>2. CASE i - Len(p) \in 1..Len(y) /\ Len(p) + (i - Len(p)) = i
    <3>1. i - Len(p) \in Positions(y, N)
      BY <1>2, <2>2
    <3>2. i \in Nat /\ i > Len(p)
      BY <1>1, <2>2
    <3>3. JsonStart(p) = 0
      BY <1>1, <1>5, <3>2
    <3>4. JsonStart(y) = 0 \/ i - Len(p) < JsonStart(y)
      BY <1>1, <1>5, <3>2, <3>3
    <3> QED
      BY <1>4, <3>1, <3>3, <3>4
  <2> QED
    BY <1>2, <2>1, <2>2
<1>6. ASSUME NEW i \in Positions(p, N), JsonStart(p) = 0 \/ i < JsonStart(p) PROVE Ahead(w)
  <2>1. i \in 1..Len(p) /\ i \in Positions(w, N)
    BY <1>2, <1>3
  <2>2. JsonStart(w) = 0 \/ i < JsonStart(w)
    BY <1>1, <1>6, <2>1
  <2> QED
    BY <1>4, <2>1, <2>2
<1>7. ASSUME NEW j \in Positions(y, N), JsonStart(p) = 0, JsonStart(y) = 0 \/ j < JsonStart(y)
      PROVE  Ahead(w)
  <2>1. j \in 1..Len(y) /\ Len(p) + j \in Positions(w, N)
    BY <1>2, <1>3
  <2>2. JsonStart(w) = 0 \/ Len(p) + j < JsonStart(w)
    BY <1>1, <1>7, <2>1
  <2> QED
    BY <1>4, <2>1, <2>2
<1>8. Ahead(w) <=> Ahead(p) \/ (JsonStart(p) = 0 /\ Ahead(y))
  BY <1>4, <1>5, <1>6, <1>7
<1> QED
  BY <1>8 DEF w

\* Reading a JSON body in two pushes is reading it in one.
LEMMA CutJsonAbsorb ==
  ASSUME NEW p \in Seq(Unit), NEW y \in Seq(Unit)
  PROVE  JsonAbsorb(JsonAbsorb(EmptyCapture, p), y) = JsonAbsorb(EmptyCapture, p \o y)
<1> DEFINE w == p \o y
           Name(bytes, name) == IF Ahead(bytes) THEN "served" ELSE name
           From(bytes) == SubSeq(bytes, JsonStart(bytes), Len(bytes))
<1>1. /\ JsonStart(p) \in Nat /\ JsonStart(p) <= Len(p)
      /\ JsonStart(y) \in Nat /\ JsonStart(y) <= Len(y)
      /\ Len(p) \in Nat /\ Len(y) \in Nat /\ w \in Seq(Unit) /\ Len(w) = Len(p) + Len(y)
      /\ JsonStart(p) # 0 => JsonStart(w) = JsonStart(p) /\ p[JsonStart(p)] \in Count
      /\ JsonStart(p) = 0 => JsonStart(w) = IF JsonStart(y) = 0 THEN 0 ELSE Len(p) + JsonStart(y)
  BY StartOfBoth
<1>2. \A i \in 1..Len(p) + Len(y) : w[i] = IF i <= Len(p) THEN p[i] ELSE y[i - Len(p)]
  BY ConcatProperties
<1>3. Ahead(w) <=> Ahead(p) \/ (JsonStart(p) = 0 /\ Ahead(y))
  BY AheadOfBoth
<1>4. \A name, bytes : bytes \in Seq(Unit) =>
        JsonAbsorb(Scanning(name), bytes) =
          IF JsonStart(bytes) = 0 THEN Scanning(Name(bytes, name))
          ELSE JsonCollect(Scanning(Name(bytes, name)), From(bytes))
  <2> SUFFICES ASSUME NEW name, NEW bytes \in Seq(Unit)
               PROVE  JsonAbsorb(Scanning(name), bytes) =
                        IF JsonStart(bytes) = 0 THEN Scanning(Name(bytes, name))
                        ELSE JsonCollect(Scanning(Name(bytes, name)), From(bytes))
    OBVIOUS
  <2>1. JsonModel(Scanning(name), bytes) = Name(bytes, name)
    BY JsonModelIs
  <2> QED
    BY <2>1, JsonScan
<1>5. EmptyCapture = Scanning("none")
  BY ScanningIs
<1>6. CASE JsonStart(p) = 0
  <2>1. JsonAbsorb(EmptyCapture, p) = Scanning(Name(p, "none"))
    BY <1>4, <1>5, <1>6
  <2>2. Name(y, Name(p, "none")) = Name(w, "none")
    BY <1>3, <1>6
  <2>3. JsonStart(y) # 0 => From(w) = From(y)
    <3> SUFFICES ASSUME JsonStart(y) # 0 PROVE From(w) = From(y)
      OBVIOUS
    <3>1. JsonStart(w) = Len(p) + JsonStart(y)
      BY <1>1, <1>6
    <3>2. \A j \in JsonStart(y)..Len(y) : w[Len(p) + j] = y[j]
      <4> SUFFICES ASSUME NEW j \in JsonStart(y)..Len(y) PROVE w[Len(p) + j] = y[j]
        OBVIOUS
      <4>1. Len(p) + j \in 1..Len(p) + Len(y) /\ ~(Len(p) + j <= Len(p)) /\ (Len(p) + j) - Len(p) = j
        BY <1>1
      <4> HIDE DEF w
      <4> QED
        BY <1>2, <4>1
    <3>3. Alike(y, w, JsonStart(y), Len(y), Len(p))
      BY <1>1, <3>2 DEF Alike
    <3> HIDE DEF w
    <3>4. Piece(w, Len(p) + JsonStart(y), Len(p) + Len(y)) = Piece(y, JsonStart(y), Len(y))
      BY <3>3, SamePiece
    <3> QED
      BY <1>1, <3>1, <3>4 DEF Piece
  <2>4. JsonStart(w) = 0 <=> JsonStart(y) = 0
    BY <1>1, <1>6
  <2> HIDE DEF w, Name, From
  <2>5. JsonAbsorb(Scanning(Name(p, "none")), y) =
          IF JsonStart(y) = 0 THEN Scanning(Name(w, "none"))
          ELSE JsonCollect(Scanning(Name(w, "none")), From(y))
    BY <1>4, <2>2
  <2>6. JsonAbsorb(EmptyCapture, w) =
          IF JsonStart(w) = 0 THEN Scanning(Name(w, "none"))
          ELSE JsonCollect(Scanning(Name(w, "none")), From(w))
    BY <1>1, <1>4, <1>5
  <2>7. JsonAbsorb(JsonAbsorb(EmptyCapture, p), y) = JsonAbsorb(EmptyCapture, w)
    BY <2>1, <2>3, <2>4, <2>5, <2>6
  <2> QED
    BY <2>7 DEF w
<1>7. CASE JsonStart(p) # 0
  <2>1. JsonAbsorb(EmptyCapture, p) = JsonCollect(Scanning(Name(p, "none")), From(p))
    BY <1>4, <1>5, <1>7
  <2>2. Name(p, "none") = Name(w, "none")
    BY <1>3, <1>7
  <2>3. JsonAbsorb(EmptyCapture, w) = JsonCollect(Scanning(Name(p, "none")), From(w))
    <3> HIDE DEF w, Name, From
    <3> QED
      BY <1>1, <1>4, <1>5, <1>7, <2>2
  <2> DEFINE o == From(p)
             d == JsonStart(p)
  <2>4. d \in Nat /\ d >= 1 /\ d <= Len(p) /\ p[d] \in Count
    BY <1>1, <1>7
  <2> HIDE DEF d
  <2>5. o = SubSeq(p, d, Len(p)) /\ From(w) = SubSeq(w, d, Len(p) + Len(y))
    BY <1>1, <1>7 DEF d
  <2> HIDE DEF o
  <2>6. /\ o \in Seq(Unit) /\ Len(o) = Len(p) - d + 1
        /\ \A i \in 1..Len(p) - d + 1 : o[i] = p[d + i - 1]
    BY <1>1, <2>4, <2>5
  <2>7. o # <<>> /\ o[1] \in Count
    <3>1. Len(o) >= 1 /\ o[1] = p[d + 1 - 1]
      BY <1>1, <2>4, <2>6
    <3>2. d + 1 - 1 = d
      BY <2>4
    <3>3. o # <<>>
      BY <3>1
    <3> QED
      BY <2>4, <3>1, <3>2, <3>3
  <2>8. From(w) = o \o y
    <3> DEFINE a == SubSeq(w, d, Len(p) + Len(y))
               b == o \o y
    <3> HIDE DEF w
    <3>1. /\ a \in Seq(Unit) /\ Len(a) = Len(p) + Len(y) - d + 1
          /\ \A i \in 1..Len(p) + Len(y) - d + 1 : a[i] = w[d + i - 1]
      BY <1>1, <2>4
    <3>2. /\ b \in Seq(Unit) /\ Len(b) = Len(o) + Len(y)
          /\ \A i \in 1..Len(o) + Len(y) : b[i] = IF i <= Len(o) THEN o[i] ELSE y[i - Len(o)]
      BY <2>6, ConcatProperties
    <3> HIDE DEF a, b
    <3>3. Len(a) = Len(b) /\ Len(a) \in Nat
      BY <1>1, <2>4, <2>6, <3>1, <3>2
    <3>4. ASSUME NEW i \in 1..Len(a) PROVE a[i] = b[i]
      <4>1. /\ i \in 1..Len(p) + Len(y) - d + 1 /\ i \in 1..Len(o) + Len(y)
            /\ d + i - 1 \in 1..Len(p) + Len(y)
        BY <1>1, <2>4, <2>6, <3>1, <3>3
      <4>2. a[i] = w[d + i - 1]
        BY <3>1, <4>1
      <4>3. CASE i <= Len(o)
        <5>1. i \in 1..Len(p) - d + 1 /\ d + i - 1 <= Len(p)
          BY <1>1, <2>4, <2>6, <4>3
        <5>2. b[i] = o[i] /\ o[i] = p[d + i - 1] /\ w[d + i - 1] = p[d + i - 1]
          BY <1>2, <2>6, <3>2, <4>1, <4>3, <5>1
        <5> QED
          BY <4>2, <5>2
      <4>4. CASE ~(i <= Len(o))
        <5>1. ~(d + i - 1 <= Len(p)) /\ (d + i - 1) - Len(p) = i - Len(o)
          BY <1>1, <2>4, <2>6, <4>4
        <5>2. b[i] = y[i - Len(o)] /\ w[d + i - 1] = y[(d + i - 1) - Len(p)]
          BY <1>2, <3>2, <4>1, <4>4, <5>1
        <5> QED
          BY <4>2, <5>1, <5>2
      <4> QED
        BY <4>3, <4>4
    <3>5. a = b
      BY <3>1, <3>2, <3>3, <3>4, SeqEqual
    <3> QED
      BY <2>5, <3>5 DEF a, b
  <2> DEFINE name == Name(p, "none")
  <2> HIDE DEF name, w, From, Name
  <2>9. JsonAbsorb(JsonCollect(Scanning(name), o), y) = JsonCollect(Scanning(name), o \o y)
    BY <2>6, <2>7, CollectTwice
  <2>10. JsonAbsorb(JsonAbsorb(EmptyCapture, p), y) = JsonAbsorb(EmptyCapture, w)
    BY <2>1, <2>3, <2>8, <2>9 DEF o, name
  <2> QED
    BY <2>10 DEF w
<1> QED
  BY <1>6, <1>7

\* What one push of the whole gathers.
Gathered(k, bytes) ==
  IF k = "sse" THEN AbsorbEvents(EmptyCapture, bytes)
  ELSE AbsorbChunk(k, EmptyCapture, bytes)

LEMMA GatheredMore ==
  ASSUME NEW k, NEW p \in Seq(Unit), NEW y \in Seq(Unit),
         ~EventOutgrows(k, Gathered(k, p), y)
  PROVE  AbsorbChunk(k, Gathered(k, p), y) = Gathered(k, p \o y)
<1>1. CASE k = "sse"
  <2> DEFINE c == AbsorbEvents(EmptyCapture, p)
  <2>1. c.buf = Rest(p)
    BY DEF AbsorbEvents, EmptyCapture
  <2>2. Gathered(k, p) = c /\ Gathered(k, p \o y) = AbsorbEvents(EmptyCapture, p \o y)
    BY <1>1 DEF Gathered
  <2> HIDE DEF c
  <2>3. ~SseOutgrows(c, y)
    BY <1>1, <2>2 DEF EventOutgrows
  <2>4. AbsorbChunk(k, c, y) = AbsorbEvents(c, c.buf \o y)
    BY <1>1, <2>3 DEF AbsorbChunk, SseAbsorb
  <2>5. AbsorbEvents(c, Rest(p) \o y) = AbsorbEvents(EmptyCapture, p \o y)
    BY CutEventsAbsorb DEF c
  <2> QED
    BY <2>1, <2>2, <2>4, <2>5
<1>2. CASE k = "json"
  BY <1>2, CutJsonAbsorb DEF Gathered, AbsorbChunk
<1>3. CASE k # "sse" /\ k # "json"
  BY <1>3 DEF Gathered, AbsorbChunk
<1> QED
  BY <1>1, <1>2, <1>3

-----------------------------------------------------------------------------
(***************************************************************************)
(* The inductive invariant.                                                *)
(***************************************************************************)
\* Until the head has arrived no task exists.
NoTaskYet ==
  handler # "answered" =>
    /\ kind = "none" /\ status = "none" /\ pulled = <<>> /\ ideal = <<NewCapture>>
    /\ forward = "none" /\ ending = "none" /\ bodyCh = <<>> /\ received = <<>>
    /\ obsCh = <<>> /\ dropped = FALSE /\ overflowed = FALSE
    /\ observer = "none" /\ capture = NewCapture /\ seen = 0
    /\ client \in {"open", "gone"}

\* The tasks' program counters agree with one another.
Phases ==
  /\ handler = "answered" =>
       kind \in Kind /\ status # "none" /\ forward # "none" /\ observer # "none"
  /\ observer = "done" => forward = "done" /\ obsCh = <<>>
  /\ forward \in {"report", "done"} => ending \in Endings
  /\ forward = "sendErr" => ending = "upstream_error"

\* A row exists only after what it reports, in a write job or in the ledger.
RowsAfterTheCall ==
  /\ handler \in {"received", "sending", "refused", "cancelled"} =>
       job = NoRow /\ ledger = <<>>
  /\ observer = "running" => job = NoRow /\ ledger = <<>>
  /\ job # NoRow => ledger = <<>>

\* The terminal message is the last one of the channel.
Pending == IF forward = "done" /\ observer = "running" THEN Len(obsCh) - 1 ELSE Len(obsCh)

Order ==
  /\ \A i \in 1..Len(obsCh) : obsCh[i].type = "chunk" <=> i <= Pending
  /\ \A i \in 1..Pending : obsCh[i].at \in 1..Len(pulled)
  /\ Pending < Len(obsCh) => obsCh[Len(obsCh)] = EndMsg(ending)
  /\ forward = "done" /\ observer = "running" => Len(obsCh) > 0

\* The ideal meter reads the body chunk by chunk.
IdealReads ==
  /\ ideal[1] = NewCapture
  /\ \A i \in 1..Len(pulled) : ideal[i + 1] = Absorb(kind, ideal[i], pulled[i])

\* As long as nothing was dropped the channel holds exactly the chunks not yet
\* absorbed, in order, and the observer is where the ideal meter was.
Lossless ==
  ~dropped =>
    /\ seen + Pending = Len(pulled)
    /\ \A i \in 1..Pending : obsCh[i].at = seen + i
    /\ capture = ideal[seen + 1]

\* `dropped' is never a false alarm, and sse_overflow is the splitter's doing.
LossIsReal ==
  /\ dropped => seen < Len(pulled)
  /\ overflowed => dropped /\ Outgrows(kind, ideal[seen + 1], pulled[seen + 1])
  /\ \A i \in 1..seen : ~Outgrows(kind, ideal[i], pulled[i])

\* What the invariant says of a row, in the job or in the ledger.
RowFits(row) ==
  /\ Honest(row, Ideal)
  /\ row.anomaly \in Degraded <=> dropped
  /\ row.anomaly = "sse_overflow" => overflowed

RowsFit ==
  /\ job # NoRow => RowFits(job)
  /\ \A i \in DOMAIN ledger : RowFits(ledger[i])

IInv ==
  /\ TypeOK /\ NoTaskYet /\ Phases /\ RowsAfterTheCall
  /\ Order /\ IdealReads /\ Lossless /\ LossIsReal /\ RowsFit

-----------------------------------------------------------------------------
USE CapsAssumption, RequestsAssumption, ChunkAssumption, CaptureAssumption

\* What taking the first message of a channel leaves.
LEMMA TakeFirst ==
  ASSUME NEW S, NEW q \in Seq(S), q # <<>>
  PROVE  /\ Len(q) \in Nat /\ Len(q) > 0
         /\ Head(q) = q[1] /\ q[1] \in S
         /\ Tail(q) \in Seq(S) /\ Len(Tail(q)) = Len(q) - 1
         /\ \A i \in 1..Len(q) - 1 : Tail(q)[i] = q[i + 1]
  OBVIOUS

\* What adding a message at the end leaves.
LEMMA AddLast ==
  ASSUME NEW S, NEW q \in Seq(S), NEW x \in S
  PROVE  /\ Append(q, x) \in Seq(S)
         /\ Len(q) \in Nat /\ Len(Append(q, x)) = Len(q) + 1
         /\ Append(q, x)[Len(q) + 1] = x
         /\ \A i \in 1..Len(q) : Append(q, x)[i] = q[i]
  OBVIOUS

LEMMA PendingType ==
  ASSUME TypeOK
  PROVE  Len(obsCh) \in Nat /\ Pending \in Int /\ Pending \in {Len(obsCh), Len(obsCh) - 1}
BY DEF TypeOK, Pending

LEMMA InitIInv == Init => IInv
<1> SUFFICES ASSUME Init PROVE IInv
  OBVIOUS
<1>1. TypeOK
  <2>1. pulled \in Seq(Chunk) /\ obsCh \in Seq(Message) /\ ledger \in Seq(Row)
    BY DEF Init
  <2>2. ideal \in Seq(Capture) /\ Len(ideal) = 1
    BY DEF Init
  <2>3. bodyCh \in Seq(Nat) /\ received \in Seq(Nat) /\ Len(bodyCh) <= BodyCap
        /\ Len(obsCh) <= ObsCap /\ Len(ledger) <= 1
    BY DEF Init
  <2>4. Len(pulled) = 0 /\ frames = 0 /\ seen = 0
    BY DEF Init
  <2>5. dropped \in BOOLEAN /\ overflowed \in BOOLEAN /\ lost \in BOOLEAN
    BY DEF Init
  <2> QED
    BY <2>1, <2>2, <2>3, <2>4, <2>5 DEF Init, TypeOK, Endings
<1>2. NoTaskYet /\ Phases /\ RowsAfterTheCall
  BY DEF Init, NoTaskYet, Phases, RowsAfterTheCall, NoRow
<1>3. Order /\ IdealReads /\ Lossless /\ LossIsReal /\ RowsFit
  BY DEF Init, Order, Pending, IdealReads, Lossless, LossIsReal, RowsFit
<1> QED
  BY <1>1, <1>2, <1>3 DEF IInv

LEMMA TypeStep == IInv /\ [Next]_vars => TypeOK'
<1> SUFFICES ASSUME IInv, [Next]_vars PROVE TypeOK'
  OBVIOUS
<1> USE DEF IInv, TypeOK, headVars, storeVars, upstreamVars, forwardVars, observerVars,
            taskVars, Kind, Endings, Degraded
<1>1. CASE Refuse
  BY <1>1 DEF Refuse
<1>2. CASE Dispatch
  BY <1>2 DEF Dispatch
<1>3. CASE SendFails
  BY <1>3 DEF SendFails, FailedRow, Row, UsageSaid, RawSaid, Request
<1>4. CASE HeadArrives
  BY <1>4 DEF HeadArrives
<1>5. ASSUME NEW b \in Chunk \cup {EmptyFrame}, Pull(b) PROVE TypeOK'
  <2>1. CASE Skips(b)
    BY <1>5, <2>1 DEF Pull
  <2>2. CASE ~Skips(b)
    <3>1. b \in Chunk /\ pulled' = Append(pulled, b) /\ frames' = frames + 1
          /\ frames < MaxFrames /\ forward' = "send" /\ Tee(Len(pulled) + 1)
          /\ ideal' = Append(ideal, Absorb(kind, Ideal, b))
      BY <1>5, <2>2 DEF Pull, Skips
    <3>2. Ideal \in Capture /\ kind \in Kind
      BY <1>5 DEF Ideal, Pull, NoTaskYet, Phases
    <3>3. Absorb(kind, Ideal, b) \in Capture
      BY <3>1, <3>2
    <3>4. ideal' \in Seq(Capture) /\ Len(ideal') = Len(ideal) + 1
      BY <3>1, <3>3
    <3>5. pulled' \in Seq(Chunk) /\ Len(pulled') = Len(pulled) + 1
      BY <3>1
    <3>6. ChunkMsg(Len(pulled) + 1) \in Message
      BY DEF ChunkMsg, Message
    <3>7. obsCh' \in Seq(Message) /\ Len(obsCh') <= ObsCap /\ dropped' \in BOOLEAN
      <4>1. CASE obsCh' = obsCh
        BY <3>1, <4>1 DEF Tee, TryObserve
      <4>2. CASE Len(obsCh) < ObsCap /\ obsCh' = Append(obsCh, ChunkMsg(Len(pulled) + 1))
        <5>1. obsCh' \in Seq(Message) /\ Len(obsCh') = Len(obsCh) + 1
          BY <3>6, <4>2
        <5>2. Len(obsCh') <= ObsCap
          BY <4>2, <5>1
        <5>3. dropped' \in BOOLEAN
          BY <3>1 DEF Tee, TryObserve
        <5> QED
          BY <5>1, <5>2, <5>3
      <4> QED
        BY <3>1, <4>1, <4>2 DEF Tee, TryObserve
    <3> QED
      BY <1>5, <3>1, <3>4, <3>5, <3>7 DEF Pull
  <2> QED
    BY <2>1, <2>2
<1>6. CASE Deliver
  BY <1>6 DEF Deliver
<1>7. CASE DeliverFails
  BY <1>7 DEF DeliverFails
<1>8. CASE UpstreamBreaks
  BY <1>8 DEF UpstreamBreaks
<1>9. CASE DeliverError
  <2>1. bodyCh' \in Seq(Nat) /\ Len(bodyCh') <= BodyCap
    <3>1. CASE bodyCh' = Append(bodyCh, 0) /\ Len(bodyCh) < BodyCap
      <4>1. bodyCh' \in Seq(Nat) /\ Len(bodyCh') = Len(bodyCh) + 1
        BY <3>1
      <4> QED
        BY <3>1, <4>1
    <3> QED
      BY <1>9, <3>1 DEF DeliverError, ErrorItem
  <2> QED
    BY <1>9, <2>1 DEF DeliverError
<1>10. CASE UpstreamEnds
  BY <1>10 DEF UpstreamEnds
<1>11. CASE Report
  BY <1>11 DEF Report, EndMsg, Message, Phases
<1>12. CASE ReadBody
  <2>1. bodyCh' \in Seq(Nat) /\ Len(bodyCh') = Len(bodyCh) - 1
    BY <1>12 DEF ReadBody
  <2>2. Head(bodyCh) \in Nat
    BY <1>12 DEF ReadBody
  <2>3. received' \in Seq(Nat) /\ client' \in {"open", "broken"}
    <3>1. Append(received, Head(bodyCh)) \in Seq(Nat)
      BY <2>2, AddLast
    <3> QED
      BY <1>12, <3>1 DEF ReadBody
  <2>4. Len(bodyCh') <= BodyCap
    BY <2>1
  <2> QED
    BY <1>12, <2>1, <2>3, <2>4 DEF ReadBody
<1>13. CASE SeeEnd
  BY <1>13 DEF SeeEnd
<1>14. CASE Disconnect
  BY <1>14 DEF Disconnect
<1>15. CASE Observe
  <2>1. obsCh' \in Seq(Message) /\ Len(obsCh') <= ObsCap
    BY <1>15 DEF Observe, Receive
  <2>a. /\ Len(obsCh) > 0 /\ Head(obsCh) = obsCh[1] /\ Len(obsCh) \in Nat
    BY <1>15, TakeFirst DEF Observe, Receive
  <2>b. obsCh[1].type = "chunk" /\ handler = "answered"
    BY <1>15, <2>a DEF Observe, Receive, NoTaskYet
  <2>c. 1 <= Pending /\ Pending \in Nat
    <3>1. Pending \in Int
      BY <2>a DEF Pending
    <3>2. 1 \in 1..Len(obsCh)
      BY <2>a
    <3>3. obsCh[1].type = "chunk" <=> 1 <= Pending
      BY <3>2 DEF Order
    <3>4. 1 <= Pending
      BY <2>b, <3>3
    <3> QED
      BY <3>1, <3>4
  <2>2. Head(obsCh).at \in 1..Len(pulled) /\ kind \in Kind
    <3>1. kind \in Kind
      BY <2>b DEF Phases
    <3>2. 1 \in 1..Pending
      BY <2>c
    <3>3. obsCh[1].at \in 1..Len(pulled)
      BY <3>2 DEF Order
    <3> QED
      BY <2>a, <3>1, <3>3
  <2>3. pulled[Head(obsCh).at] \in Chunk
    BY <2>2
  <2>4. capture' \in Capture /\ seen' \in 0..Len(pulled)
    <3>1. CASE UNCHANGED <<capture, seen>>
      BY <3>1
    <3>2. CASE /\ ~dropped /\ seen' = seen + 1
               /\ capture' = Absorb(kind, capture, pulled[Head(obsCh).at])
      <4>1. capture' \in Capture
        BY <2>2, <2>3, <3>2
      <4>2. seen + 1 = Head(obsCh).at
        <5>1. 1 \in 1..Pending
          BY <2>c
        <5>2. obsCh[1].at = seen + 1
          BY <5>1, <3>2 DEF Lossless
        <5> QED
          BY <2>a, <5>2
      <4> QED
        BY <2>2, <3>2, <4>1, <4>2
    <3> QED
      BY <1>15, <3>1, <3>2 DEF Observe, Skipping
  <2>5. dropped' \in BOOLEAN /\ overflowed' \in BOOLEAN
    BY <1>15 DEF Observe
  <2> QED
    BY <1>15, <2>1, <2>4, <2>5 DEF Observe
<1>16. CASE Conclude
  <2>1. obsCh' \in Seq(Message) /\ Len(obsCh') <= ObsCap
    BY <1>16 DEF Conclude, Receive
  <2>2. ASSUME NEW e \in Endings PROVE TerminalRow(e) \in Row
    <3>1. capture.usage \in UsageSaid /\ NewCapture.usage \in UsageSaid
          /\ capture.raw \in RawSaid /\ NewCapture.raw \in RawSaid
      BY DEF UsageSaid, RawSaid
    <3>2. capture.model \in {"none", "served"} /\ request.model \in {"none", "asked"}
      BY DEF Request
    <3>3. TerminalAnomaly \in {"none"} \cup Degraded
      BY DEF TerminalAnomaly
    <3> QED
      BY <2>2, <3>1, <3>2, <3>3 DEF TerminalRow, Row
  <2>3. job' \in Row \cup {NoRow}
    BY <1>16, <2>2 DEF Conclude
  <2> QED
    BY <1>16, <2>1, <2>3 DEF Conclude
<1>17. CASE WriteRow
  BY <1>17 DEF WriteRow, RowsAfterTheCall
<1>18. CASE WriteFails
  BY <1>18 DEF WriteFails
<1>19. CASE Stop \/ UNCHANGED vars
  BY <1>19 DEF Stop, vars, Message
<1> QED
  BY <1>1, <1>2, <1>3, <1>4, <1>5, <1>6, <1>7, <1>8, <1>9, <1>10, <1>11, <1>12, <1>13,
     <1>14, <1>15, <1>16, <1>17, <1>18, <1>19
     DEF Next, Handler, Forward, Upstream, Client, Observer, Writer

(***************************************************************************)
(* The control part of the invariant.                                      *)
(***************************************************************************)
Control == NoTaskYet /\ Phases /\ RowsAfterTheCall

LEMMA ControlStep == IInv /\ [Next]_vars => Control'
<1> SUFFICES ASSUME IInv, [Next]_vars PROVE Control'
  OBVIOUS
<1>0. TypeOK /\ NoTaskYet /\ Phases /\ RowsAfterTheCall
  BY DEF IInv
<1> USE <1>0 DEF Control, NoTaskYet, Phases, RowsAfterTheCall, headVars, storeVars,
            upstreamVars, forwardVars, observerVars, taskVars
<1>1. CASE Refuse
  BY <1>1 DEF Refuse
<1>2. CASE Dispatch
  BY <1>2 DEF Dispatch
<1>3. CASE SendFails
  BY <1>3 DEF SendFails
<1>4. CASE HeadArrives
  BY <1>4 DEF HeadArrives
<1>5. ASSUME NEW b \in Chunk \cup {EmptyFrame}, Pull(b) PROVE Control'
  <2>1. /\ UNCHANGED <<request, handler, kind, status, client, ending, bodyCh, received,
                       observer, capture, seen, overflowed, job, ledger, lost>>
        /\ forward = "read" /\ forward' \in {"read", "send"}
    BY <1>5 DEF Pull
  <2> QED
    BY <2>1
<1>6. CASE Deliver
  BY <1>6 DEF Deliver
<1>7. CASE DeliverFails
  BY <1>7 DEF DeliverFails, Endings
<1>8. CASE UpstreamBreaks
  BY <1>8 DEF UpstreamBreaks
<1>9. CASE DeliverError
  BY <1>9 DEF DeliverError, Endings
<1>10. CASE UpstreamEnds
  BY <1>10 DEF UpstreamEnds, Endings
<1>11. CASE Report
  BY <1>11 DEF Report
<1>12. CASE ReadBody
  BY <1>12 DEF ReadBody
<1>13. CASE SeeEnd
  BY <1>13 DEF SeeEnd
<1>14. CASE Disconnect
  BY <1>14 DEF Disconnect
<1>15. CASE Observe
  <2>1. observer = "running" /\ handler = "answered"
    BY <1>15 DEF Observe, Receive
  <2> QED
    BY <1>15, <2>1 DEF Observe
<1>16. CASE Conclude
  <2>1. observer = "running" /\ handler = "answered"
    BY <1>16 DEF Conclude, Receive
  <2>2. forward = "done" /\ obsCh' = <<>>
    <3>1. Len(obsCh) > 0 /\ Len(obsCh) \in Nat /\ Head(obsCh) = obsCh[1]
          /\ Len(Tail(obsCh)) = Len(obsCh) - 1 /\ Tail(obsCh) \in Seq(Message)
      BY <1>16, TakeFirst DEF Conclude, Receive, TypeOK
    <3>2. obsCh[1].type # "chunk"
      BY <1>16, <3>1 DEF Conclude, Receive, Endings
    <3>a. Pending \in Int
      BY PendingType
    <3>3. Pending < 1
      <4>1. 1 \in 1..Len(obsCh)
        BY <3>1
      <4>2. ~(1 <= Pending)
        BY <3>2, <4>1 DEF IInv, Order
      <4> QED
        BY <3>a, <4>2
    <3>4. forward = "done" /\ Len(obsCh) = 1
      BY <3>a, <3>1, <3>3 DEF Pending
    <3>5. Tail(obsCh) = <<>>
      <4>1. Len(Tail(obsCh)) = 0
        BY <3>1, <3>4
      <4> QED
        BY <3>1, <4>1, EmptySeq
    <3> QED
      BY <1>16, <3>4, <3>5 DEF Conclude, Receive
  <2> QED
    BY <1>16, <2>1, <2>2 DEF Conclude
<1>17. CASE WriteRow
  BY <1>17 DEF WriteRow
<1>18. CASE WriteFails
  BY <1>18 DEF WriteFails
<1>19. CASE Stop \/ UNCHANGED vars
  BY <1>19 DEF Stop, vars
<1> QED
  BY <1>1, <1>2, <1>3, <1>4, <1>5, <1>6, <1>7, <1>8, <1>9, <1>10, <1>11, <1>12, <1>13,
     <1>14, <1>15, <1>16, <1>17, <1>18, <1>19
     DEF Next, Handler, Forward, Upstream, Client, Observer, Writer

(***************************************************************************)
(* The channel part: it is disturbed by Pull, Report, Observe and Conclude *)
(* alone.                                                                  *)
(***************************************************************************)
Channel == Order /\ IdealReads /\ Lossless /\ LossIsReal

LEMMA ChannelFrame ==
  ASSUME IInv, UNCHANGED <<kind, pulled, ideal, obsCh, dropped, overflowed, observer,
                           capture, seen>>,
         forward = "done" <=> forward' = "done",
         forward = "done" => ending' = ending
  PROVE  Channel'
<1>1. Pending' = Pending
  BY DEF Pending
<1>2. Order'
  <2>1. Pending < Len(obsCh) => forward = "done"
    BY PendingType DEF Pending, IInv
  <2> QED
    BY <1>1, <2>1 DEF IInv, Order, EndMsg
<1>3. IdealReads' /\ LossIsReal'
  BY DEF IInv, IdealReads, LossIsReal
<1>4. Lossless'
  BY <1>1 DEF IInv, Lossless
<1> QED
  BY <1>2, <1>3, <1>4 DEF Channel

\* The observer is fed nothing before the head arrives.
LEMMA ChannelHead == IInv /\ HeadArrives => Channel'
<1> SUFFICES ASSUME IInv, HeadArrives PROVE Channel'
  OBVIOUS
<1>1. /\ pulled' = <<>> /\ ideal' = <<NewCapture>> /\ obsCh' = <<>> /\ seen' = 0
      /\ capture' = NewCapture /\ dropped' = FALSE /\ overflowed' = FALSE
      /\ forward' = "read" /\ observer' = "running"
  BY DEF IInv, NoTaskYet, HeadArrives, upstreamVars
<1>2. Pending' = 0 /\ Len(obsCh') = 0 /\ Len(pulled') = 0
  BY <1>1 DEF Pending
<1> QED
  BY <1>1, <1>2 DEF Channel, Order, IdealReads, Lossless, LossIsReal

\* One more chunk: the ideal meter reads it; the tee appends it or drops it.
LEMMA ChannelPull ==
  ASSUME IInv, NEW b \in Chunk \cup {EmptyFrame}, Pull(b)
  PROVE  Channel'
<1>0. TypeOK /\ Channel /\ forward = "read"
  BY DEF IInv, Channel, Pull
<1>1. CASE Skips(b) /\ UNCHANGED <<pulled, ideal, forward, obsCh, dropped>>
  BY <1>1, <1>0, ChannelFrame DEF Pull, headVars, observerVars
<1>2. CASE /\ ~Skips(b)
           /\ pulled' = Append(pulled, b)
           /\ ideal'  = Append(ideal, Absorb(kind, Ideal, b))
           /\ Tee(Len(pulled) + 1)
           /\ forward' = "send"
  <2>1. /\ pulled \in Seq(Chunk) /\ ideal \in Seq(Capture) /\ obsCh \in Seq(Message)
        /\ Len(ideal) = Len(pulled) + 1 /\ seen \in 0..Len(pulled)
    BY <1>0 DEF TypeOK
  <2>2. UNCHANGED <<kind, seen, capture, overflowed, observer>>
    BY DEF Pull, headVars, observerVars
  <2>3. b \in Chunk /\ kind \in Kind
    BY <1>0, <1>2 DEF Skips, IInv, NoTaskYet, Phases
  <2>4. Ideal \in Capture
    BY <2>1 DEF Ideal
  <2>5. Absorb(kind, Ideal, b) \in Capture
    BY <2>3, <2>4
  <2>6. /\ Len(pulled') = Len(pulled) + 1 /\ pulled'[Len(pulled) + 1] = b
        /\ \A i \in 1..Len(pulled) : pulled'[i] = pulled[i]
    BY <1>2, <2>1, <2>3, AddLast
  <2>7. /\ ideal'[Len(pulled) + 2] = Absorb(kind, Ideal, b)
        /\ \A i \in 1..Len(pulled) + 1 : ideal'[i] = ideal[i]
    BY <1>2, <2>1, <2>5, AddLast
  <2>8. IdealReads'
    <3>1. ideal'[1] = NewCapture
      BY <1>0, <2>1, <2>7 DEF Channel, IdealReads
    <3>2. \A i \in 1..Len(pulled') : ideal'[i + 1] = Absorb(kind', ideal'[i], pulled'[i])
      <4> SUFFICES ASSUME NEW i \in 1..Len(pulled')
                   PROVE  ideal'[i + 1] = Absorb(kind', ideal'[i], pulled'[i])
        OBVIOUS
      <4>1. CASE i \in 1..Len(pulled)
        <5>1. i + 1 \in 1..Len(pulled) + 1 /\ i \in 1..Len(pulled) + 1
          BY <2>1, <4>1
        <5>2. ideal[i + 1] = Absorb(kind, ideal[i], pulled[i])
          BY <1>0, <4>1 DEF Channel, IdealReads
        <5> QED
          BY <2>2, <2>6, <2>7, <4>1, <5>1, <5>2
      <4>2. CASE i = Len(pulled) + 1
        <5>1. i + 1 = Len(pulled) + 2 /\ i \in 1..Len(pulled) + 1
          BY <2>1, <4>2
        <5>2. ideal'[i] = Ideal /\ pulled'[i] = b
          BY <2>6, <2>7, <4>2, <5>1 DEF Ideal
        <5> QED
          BY <2>2, <2>7, <5>1, <5>2
      <4> QED
        BY <2>1, <2>6, <4>1, <4>2
    <3> QED
      BY <3>1, <3>2 DEF IdealReads
  <2>9. Pending = Len(obsCh) /\ Pending' = Len(obsCh') /\ Len(obsCh) \in Nat
    BY <1>0, <1>2, <2>1 DEF Pending
  <2>a. ASSUME UNCHANGED obsCh PROVE Order'
    <3>1. Pending' = Pending /\ Len(obsCh') = Len(obsCh)
      BY <2>9, <2>a
    <3>2. \A i \in 1..Pending' : obsCh'[i].at \in 1..Len(pulled')
      BY <1>0, <2>1, <2>6, <3>1, <2>a DEF Channel, Order
    <3>3. \A i \in 1..Len(obsCh') : obsCh'[i].type = "chunk" <=> i <= Pending'
      BY <1>0, <3>1, <2>a DEF Channel, Order
    <3> QED
      BY <1>2, <2>9, <3>2, <3>3 DEF Order
  <2>b. /\ \A i \in 1..Len(pulled) : ideal'[i] = ideal[i] /\ pulled'[i] = pulled[i]
        /\ ideal'[Len(pulled) + 1] = ideal[Len(pulled) + 1]
    BY <2>1, <2>6, <2>7
  <2>c. \A i \in 1..seen : ~Outgrows(kind, ideal'[i], pulled'[i])
    BY <1>0, <2>1, <2>b DEF Channel, LossIsReal
  <2>d. ASSUME dropped, dropped' PROVE Lossless' /\ LossIsReal'
    <3>1. seen + 1 \in 1..Len(pulled) /\ seen < Len(pulled')
      BY <1>0, <2>1, <2>6, <2>d DEF Channel, LossIsReal
    <3>2. overflowed => Outgrows(kind, ideal'[seen + 1], pulled'[seen + 1])
      BY <1>0, <2>b, <3>1 DEF Channel, LossIsReal
    <3> QED
      BY <2>2, <2>c, <2>d, <3>1, <3>2 DEF Lossless, LossIsReal
  <2>10. CASE dropped /\ UNCHANGED <<obsCh, dropped>>
    BY <2>8, <2>10, <2>a, <2>d DEF Channel
  <2>11. CASE ~dropped /\ obsCh' = Append(obsCh, ChunkMsg(Len(pulled) + 1)) /\ UNCHANGED dropped
    <3>1. ChunkMsg(Len(pulled) + 1) \in Message
      BY <2>1 DEF ChunkMsg, Message
    <3>2. /\ Len(obsCh') = Len(obsCh) + 1
          /\ obsCh'[Len(obsCh) + 1] = ChunkMsg(Len(pulled) + 1)
          /\ \A i \in 1..Len(obsCh) : obsCh'[i] = obsCh[i]
      BY <2>1, <2>11, <3>1, AddLast
    <3>3. Order'
      <4>1. \A i \in 1..Pending' : obsCh'[i].at \in 1..Len(pulled')
        <5>1. obsCh'[Len(obsCh) + 1].at \in 1..Len(pulled')
          BY <2>1, <2>6, <3>2 DEF ChunkMsg
        <5>2. \A i \in 1..Len(obsCh) : obsCh'[i].at \in 1..Len(pulled')
          BY <1>0, <2>1, <2>6, <2>9, <3>2 DEF Channel, Order
        <5> QED
          BY <2>9, <3>2, <5>1, <5>2
      <4>2. \A i \in 1..Len(obsCh') : obsCh'[i].type = "chunk" <=> i <= Pending'
        <5>1. obsCh'[Len(obsCh) + 1].type = "chunk"
          BY <3>2 DEF ChunkMsg
        <5>2. \A i \in 1..Len(obsCh) : obsCh'[i].type = "chunk"
          BY <1>0, <2>9, <3>2 DEF Channel, Order
        <5> QED
          BY <2>9, <3>2, <5>1, <5>2
      <4> QED
        BY <1>2, <2>9, <3>2, <4>1, <4>2 DEF Order
    <3>4. Lossless'
      <4>1. seen + Len(obsCh) = Len(pulled) /\ capture = ideal[seen + 1]
            /\ \A i \in 1..Len(obsCh) : obsCh[i].at = seen + i
        BY <1>0, <2>9, <2>11 DEF Channel, Lossless
      <4>2. seen + Pending' = Len(pulled')
        BY <2>1, <2>6, <2>9, <3>2, <4>1
      <4>3. capture = ideal'[seen + 1]
        BY <2>1, <2>7, <4>1
      <4>4. obsCh'[Len(obsCh) + 1].at = seen + (Len(obsCh) + 1)
        BY <2>1, <2>9, <3>2, <4>1 DEF ChunkMsg
      <4>5. \A i \in 1..Pending' : obsCh'[i].at = seen + i
        BY <2>9, <3>2, <4>1, <4>4
      <4> QED
        BY <2>2, <4>2, <4>3, <4>5 DEF Lossless
    <3>5. LossIsReal'
      BY <1>0, <2>2, <2>c, <2>11 DEF Channel, LossIsReal
    <3> QED
      BY <2>8, <3>3, <3>4, <3>5 DEF Channel
  <2>12. CASE ~dropped /\ dropped' = TRUE /\ UNCHANGED obsCh
    <3>1. Order' /\ Lossless'
      BY <2>12, <2>a DEF Lossless
    <3>2. ~overflowed /\ seen < Len(pulled')
      BY <1>0, <2>1, <2>6, <2>12 DEF Channel, LossIsReal
    <3>3. LossIsReal'
      BY <2>2, <2>c, <3>2 DEF LossIsReal
    <3> QED
      BY <2>8, <3>1, <3>3 DEF Channel
  <2> QED
    BY <1>2, <2>10, <2>11, <2>12 DEF Tee, TryObserve
<1> QED
  BY <1>1, <1>2 DEF Pull

\* The terminal message goes behind every chunk.
LEMMA ChannelReport == IInv /\ Report => Channel'
<1> SUFFICES ASSUME IInv, Report PROVE Channel'
  OBVIOUS
<1>0. TypeOK /\ Channel /\ forward = "report" /\ forward' = "done" /\ ending \in Endings
  BY DEF IInv, Channel, Report, Phases
<1>1. observer = "running" /\ observer' = "running"
  BY <1>0 DEF IInv, Phases, NoTaskYet, Report, observerVars, TypeOK
<1>2. UNCHANGED <<kind, pulled, ideal, dropped, overflowed, capture, seen, ending>>
  BY DEF Report, headVars, upstreamVars, observerVars
<1>3. EndMsg(ending) \in Message /\ EndMsg(ending).type # "chunk"
  BY <1>0 DEF EndMsg, Message, Endings
<1>4. /\ Len(obsCh) \in Nat /\ Len(obsCh') = Len(obsCh) + 1
      /\ obsCh'[Len(obsCh) + 1] = EndMsg(ending)
      /\ \A i \in 1..Len(obsCh) : obsCh'[i] = obsCh[i]
  BY <1>0, <1>3, AddLast DEF Report, TypeOK
<1>5. Pending = Len(obsCh) /\ Pending' = Len(obsCh)
  BY <1>0, <1>1, <1>4 DEF Pending
<1>6. Order'
  <2>1. EndMsg(ending)' = EndMsg(ending)
    BY <1>2 DEF EndMsg
  <2> QED
    BY <1>0, <1>2, <1>3, <1>4, <1>5, <2>1 DEF Channel, Order
<1>7. Lossless'
  BY <1>0, <1>2, <1>4, <1>5 DEF Channel, Lossless
<1>8. IdealReads' /\ LossIsReal'
  BY <1>0, <1>2 DEF Channel, IdealReads, LossIsReal
<1> QED
  BY <1>6, <1>7, <1>8 DEF Channel

\* What Observe and Conclude find: the first message, with the rest behind it.
LEMMA FirstMessage ==
  ASSUME IInv, Receive
  PROVE  /\ handler = "answered" /\ kind \in Kind /\ observer = "running"
         /\ Len(obsCh) \in Nat /\ Len(obsCh) > 0 /\ Head(obsCh) = obsCh[1]
         /\ Head(obsCh) \in Message
         /\ obsCh' \in Seq(Message) /\ Len(obsCh') = Len(obsCh) - 1
         /\ \A i \in 1..Len(obsCh) - 1 : obsCh'[i] = obsCh[i + 1]
         /\ Head(obsCh).type = "chunk" <=> 1 <= Pending
<1>1. TypeOK /\ observer = "running" /\ obsCh # <<>> /\ obsCh' = Tail(obsCh)
  BY DEF IInv, Receive
<1>2. handler = "answered" /\ kind \in Kind
  BY <1>1 DEF IInv, NoTaskYet, Phases
<1>3. /\ Len(obsCh) \in Nat /\ Len(obsCh) > 0 /\ Head(obsCh) = obsCh[1]
      /\ Head(obsCh) \in Message
      /\ obsCh' \in Seq(Message) /\ Len(obsCh') = Len(obsCh) - 1
      /\ \A i \in 1..Len(obsCh) - 1 : obsCh'[i] = obsCh[i + 1]
  BY <1>1, TakeFirst DEF TypeOK
<1>4. 1 \in 1..Len(obsCh)
  BY <1>3
<1>5. obsCh[1].type = "chunk" <=> 1 <= Pending
  BY <1>4 DEF IInv, Order
<1> QED
  BY <1>1, <1>2, <1>3, <1>5

\* The observer takes a chunk: skips it, absorbs it, or gives up on it.
LEMMA ChannelObserve == IInv /\ Observe => Channel'
<1> SUFFICES ASSUME IInv, Observe PROVE Channel'
  OBVIOUS
<1> DEFINE chunk == pulled[Head(obsCh).at]
<1>0. TypeOK /\ Channel /\ Receive
  BY DEF IInv, Channel, Observe
<1>1. /\ Len(obsCh) \in Nat /\ Len(obsCh) > 0 /\ Head(obsCh) = obsCh[1]
      /\ Len(obsCh') = Len(obsCh) - 1 /\ observer = "running"
      /\ \A i \in 1..Len(obsCh) - 1 : obsCh'[i] = obsCh[i + 1]
      /\ 1 <= Pending
  BY <1>0, FirstMessage DEF Observe
<1>2. UNCHANGED <<kind, pulled, ideal, observer, forward, ending>>
  BY DEF Observe, headVars, upstreamVars, forwardVars
<1>3. Pending' = Pending - 1 /\ Pending \in Int /\ Pending \in {Len(obsCh), Len(obsCh) - 1}
  BY <1>0, <1>1, <1>2, PendingType DEF Pending
<1>4. /\ seen \in 0..Len(pulled) /\ Len(pulled) \in Nat
      /\ dropped \in BOOLEAN /\ overflowed \in BOOLEAN
  BY <1>0 DEF TypeOK
<1>5. Order'
  <2>1. ASSUME NEW i \in 1..Len(obsCh') PROVE obsCh'[i].type = "chunk" <=> i <= Pending'
    <3>1. i \in 1..Len(obsCh) - 1 /\ i + 1 \in 1..Len(obsCh)
      BY <1>1
    <3>2. obsCh[i + 1].type = "chunk" <=> i + 1 <= Pending
      BY <1>0, <3>1 DEF Channel, Order
    <3>3. i + 1 <= Pending <=> i <= Pending'
      BY <1>3
    <3> QED
      BY <1>1, <3>1, <3>2, <3>3
  <2>2. ASSUME NEW i \in 1..Pending' PROVE obsCh'[i].at \in 1..Len(pulled')
    <3>1. i \in 1..Len(obsCh) - 1 /\ i + 1 \in 1..Pending
      BY <1>1, <1>3
    <3>2. obsCh'[i] = obsCh[i + 1] /\ obsCh[i + 1].at \in 1..Len(pulled)
      BY <1>0, <1>1, <3>1 DEF Channel, Order
    <3> QED
      BY <1>2, <3>2
  <2>3. ASSUME Pending' < Len(obsCh') PROVE obsCh'[Len(obsCh')] = EndMsg(ending')
    <3>1. Pending < Len(obsCh) /\ Len(obsCh) - 1 \in 1..Len(obsCh) - 1
      BY <1>1, <1>3, <2>3
    <3>2. obsCh[Len(obsCh)] = EndMsg(ending)
      BY <1>0, <3>1 DEF Channel, Order
    <3>3. obsCh'[Len(obsCh) - 1] = obsCh[(Len(obsCh) - 1) + 1]
      BY <1>1, <3>1
    <3>4. (Len(obsCh) - 1) + 1 = Len(obsCh)
      BY <1>1
    <3> QED
      BY <1>1, <1>2, <3>2, <3>3, <3>4
  <2>4. forward = "done" => Pending = Len(obsCh) - 1
    BY <1>1 DEF Pending
  <2>5. forward' = "done" /\ observer' = "running" => Len(obsCh') > 0
    BY <1>1, <1>2, <1>3, <2>4
  <2> QED
    BY <2>1, <2>2, <2>3, <2>5 DEF Order, EndMsg
<1>6. IdealReads'
  BY <1>0, <1>2 DEF Channel, IdealReads
<1>7. CASE dropped /\ UNCHANGED <<capture, seen, overflowed, dropped>>
  <2>1. Lossless' /\ LossIsReal'
    BY <1>0, <1>2, <1>7 DEF Channel, Lossless, LossIsReal
  <2> QED
    BY <1>5, <1>6, <2>1 DEF Channel
<1>8. ASSUME ~dropped
      PROVE  /\ Head(obsCh).at = seen + 1 /\ seen + Pending = Len(pulled)
             /\ capture = ideal[seen + 1] /\ seen + 1 \in 1..Len(pulled)
             /\ \A i \in 1..Pending : obsCh[i].at = seen + i
  <2>1. /\ seen + Pending = Len(pulled) /\ capture = ideal[seen + 1]
        /\ \A i \in 1..Pending : obsCh[i].at = seen + i
    BY <1>0, <1>8 DEF Channel, Lossless
  <2>2. 1 \in 1..Pending
    BY <1>1, <1>3
  <2>3. obsCh[1].at = seen + 1
    BY <2>1, <2>2
  <2> QED
    BY <1>1, <1>3, <1>4, <2>1, <2>3
<1>9. CASE /\ ~dropped /\ ~Outgrows(kind, capture, chunk)
           /\ capture' = Absorb(kind, capture, chunk) /\ seen' = seen + 1
           /\ UNCHANGED <<overflowed, dropped>>
  <2>1. chunk = pulled[seen + 1]
    BY <1>8, <1>9
  <2>2. capture' = ideal[seen + 2]
    <3>1. ideal[(seen + 1) + 1] = Absorb(kind, ideal[seen + 1], pulled[seen + 1])
      BY <1>0, <1>8, <1>9 DEF Channel, IdealReads
    <3> QED
      BY <1>4, <1>8, <1>9, <2>1, <3>1
  <2>3. seen' + Pending' = Len(pulled')
    BY <1>2, <1>3, <1>4, <1>8, <1>9
  <2>4. ASSUME NEW i \in 1..Pending' PROVE obsCh'[i].at = seen' + i
    <3>1. i \in 1..Len(obsCh) - 1 /\ i + 1 \in 1..Pending
      BY <1>1, <1>3
    <3>2. obsCh'[i] = obsCh[i + 1] /\ obsCh[i + 1].at = seen + (i + 1)
      BY <1>1, <1>8, <1>9, <3>1
    <3> QED
      BY <1>4, <1>9, <3>1, <3>2
  <2>5. Lossless'
    <3>1. seen' + 1 = seen + 2
      BY <1>4, <1>9
    <3> QED
      BY <1>2, <2>2, <2>3, <2>4, <3>1 DEF Lossless
  <2>6. ~overflowed
    BY <1>0, <1>9 DEF Channel, LossIsReal
  <2>7. \A i \in 1..seen' : ~Outgrows(kind, ideal[i], pulled[i])
    <3>1. ~Outgrows(kind, ideal[seen + 1], pulled[seen + 1])
      BY <1>8, <1>9, <2>1
    <3> QED
      BY <1>0, <1>4, <1>9, <3>1 DEF Channel, LossIsReal
  <2>8. LossIsReal'
    BY <1>2, <1>9, <2>6, <2>7 DEF LossIsReal
  <2> QED
    BY <1>5, <1>6, <2>5, <2>8 DEF Channel
<1>10. CASE /\ ~dropped /\ Outgrows(kind, capture, chunk)
            /\ overflowed' = TRUE /\ dropped' = TRUE
            /\ UNCHANGED <<capture, seen>>
  <2>1. Lossless'
    BY <1>10 DEF Lossless
  <2>2. seen < Len(pulled) /\ Outgrows(kind, ideal[seen + 1], pulled[seen + 1])
    BY <1>4, <1>8, <1>10
  <2>3. LossIsReal'
    BY <1>0, <1>2, <1>10, <2>2 DEF Channel, LossIsReal
  <2> QED
    BY <1>5, <1>6, <2>1, <2>3 DEF Channel
<1> QED
  BY <1>7, <1>9, <1>10 DEF Observe, Skipping

\* At the terminal message nothing is pending.
LEMMA NothingPending ==
  ASSUME IInv, Conclude
  PROVE  /\ Pending = 0 /\ Len(obsCh) = 1 /\ obsCh' = <<>>
         /\ forward = "done" /\ Head(obsCh) = EndMsg(ending)
<1>1. Receive /\ Head(obsCh).type # "chunk"
  BY DEF Conclude, Endings
<1>2. /\ Len(obsCh) \in Nat /\ Len(obsCh) > 0 /\ Head(obsCh) = obsCh[1]
      /\ obsCh' \in Seq(Message) /\ Len(obsCh') = Len(obsCh) - 1
      /\ ~(1 <= Pending)
  BY <1>1, FirstMessage
<1>3. Pending \in Int /\ Pending \in {Len(obsCh), Len(obsCh) - 1}
  BY PendingType DEF IInv
<1>4. Pending = 0 /\ Len(obsCh) = 1
  BY <1>2, <1>3
<1>5. forward = "done"
  BY <1>4 DEF Pending
<1>6. obsCh' = <<>>
  <2>1. Len(obsCh') = 0
    BY <1>2, <1>4
  <2> QED
    BY <1>2, <2>1, EmptySeq
<1>7. Head(obsCh) = EndMsg(ending)
  BY <1>2, <1>4 DEF IInv, Order
<1> QED
  BY <1>4, <1>5, <1>6, <1>7

LEMMA ChannelConclude == IInv /\ Conclude => Channel'
<1> SUFFICES ASSUME IInv, Conclude PROVE Channel'
  OBVIOUS
<1>0. TypeOK /\ Channel /\ Pending = 0 /\ forward = "done" /\ obsCh' = <<>>
  BY NothingPending DEF IInv, Channel
<1>1. UNCHANGED <<kind, pulled, ideal, forward, dropped, overflowed, capture, seen>>
      /\ observer' = "done"
  BY DEF Conclude, headVars, upstreamVars, forwardVars
<1>2. Pending' = 0 /\ Len(obsCh') = 0
  BY <1>0, <1>1 DEF Pending
<1>3. Order'
  BY <1>1, <1>2 DEF Order
<1>4. Lossless'
  BY <1>0, <1>1, <1>2 DEF Channel, Lossless
<1>5. IdealReads' /\ LossIsReal'
  BY <1>0, <1>1 DEF Channel, IdealReads, LossIsReal
<1> QED
  BY <1>3, <1>4, <1>5 DEF Channel

LEMMA ChannelStep == IInv /\ [Next]_vars => Channel'
<1> SUFFICES ASSUME IInv, [Next]_vars PROVE Channel'
  OBVIOUS
<1> USE ChannelFrame DEF headVars, storeVars, upstreamVars, forwardVars, observerVars, taskVars
<1>1. CASE Refuse \/ Dispatch \/ SendFails
  BY <1>1 DEF Refuse, Dispatch, SendFails, IInv, NoTaskYet
<1>2. CASE HeadArrives
  BY <1>2, ChannelHead
<1>3. ASSUME NEW b \in Chunk \cup {EmptyFrame}, Pull(b) PROVE Channel'
  BY <1>3, ChannelPull
<1>4. CASE Deliver \/ DeliverFails
  BY <1>4 DEF Deliver, DeliverFails
<1>5. CASE UpstreamBreaks \/ UpstreamEnds \/ DeliverError
  BY <1>5 DEF UpstreamBreaks, UpstreamEnds, DeliverError
<1>6. CASE Report
  BY <1>6, ChannelReport
<1>7. CASE ReadBody \/ SeeEnd
  BY <1>7 DEF ReadBody, SeeEnd
<1>8. CASE Disconnect
  BY <1>8 DEF Disconnect
<1>9. CASE Observe
  BY <1>9, ChannelObserve
<1>10. CASE Conclude
  BY <1>10, ChannelConclude
<1>11. CASE WriteRow \/ WriteFails
  BY <1>11 DEF WriteRow, WriteFails
<1>12. CASE Stop \/ UNCHANGED vars
  BY <1>12 DEF Stop, vars
<1> QED
  BY <1>1, <1>2, <1>3, <1>4, <1>5, <1>6, <1>7, <1>8, <1>9, <1>10, <1>11, <1>12
     DEF Next, Handler, Forward, Upstream, Client, Observer, Writer

(***************************************************************************)
(* The rows.                                                               *)
(***************************************************************************)
\* The row of a request that never reached the upstream.
LEMMA FailedRowFits == IInv /\ handler = "sending" => RowFits(FailedRow)
<1> SUFFICES ASSUME IInv, handler = "sending" PROVE RowFits(FailedRow)
  OBVIOUS
<1>1. pulled = <<>> /\ ideal = <<NewCapture>> /\ dropped = FALSE
  BY DEF IInv, NoTaskYet
<1>2. Ideal = NewCapture
  BY <1>1 DEF Ideal
<1> QED
  BY <1>1, <1>2 DEF RowFits, Honest, FailedRow, Degraded

\* The row built at the terminal message: without loss the observer has become
\* the ideal meter.
LEMMA TerminalRowFits ==
  ASSUME IInv, Conclude
  PROVE  RowFits(TerminalRow(ending))
<1> DEFINE row == TerminalRow(ending)
<1>1. /\ Pending = 0 /\ ending \in Endings
  BY NothingPending DEF IInv, Phases
<1>2. ~dropped => capture = Ideal
  <2>1. SUFFICES ASSUME ~dropped PROVE capture = Ideal
    OBVIOUS
  <2>2. seen + 0 = Len(pulled) /\ capture = ideal[seen + 1]
    BY <1>1, <2>1 DEF IInv, Lossless
  <2>3. seen = Len(pulled)
    BY <2>2 DEF IInv, TypeOK
  <2> QED
    BY <2>2, <2>3 DEF Ideal
<1>3. overflowed => dropped
  BY DEF IInv, LossIsReal
<1>4. CASE dropped
  <2>1. TerminalAnomaly \in Degraded /\ (TerminalAnomaly = "sse_overflow" => overflowed)
    BY <1>4 DEF TerminalAnomaly, Degraded
  <2>2. row.anomaly = TerminalAnomaly /\ row.usage = NewCapture.usage
        /\ row.raw = NewCapture.raw
    BY <2>1 DEF TerminalRow, Canary, Degraded
  <2> QED
    BY <1>4, <2>1, <2>2 DEF RowFits, Honest, Degraded
<1>5. CASE ~dropped
  <2>1. TerminalAnomaly = "none"
    BY <1>3, <1>5 DEF TerminalAnomaly
  <2>2. row.usage = Ideal.usage /\ row.raw = Ideal.raw /\ row.status = status
    BY <1>2, <1>5, <2>1 DEF TerminalRow
  <2>3. row.anomaly = IF Canary(ending, "none") THEN "no_usage" ELSE "none"
    BY <2>1 DEF TerminalRow
  <2>4. row.error = "none" <=> ending = "finish"
    BY <1>1 DEF TerminalRow, Endings
  <2>5. Canary(ending, "none") <=>
          row.error = "none" /\ row.status = "ok" /\ row.usage = NewCapture.usage
    BY <1>2, <1>5, <2>2, <2>4 DEF Canary
  <2> QED
    BY <1>5, <2>2, <2>3, <2>5 DEF RowFits, Honest, Degraded
<1> QED
  BY <1>4, <1>5

LEMMA RowsStep == IInv /\ [Next]_vars => RowsFit'
<1> SUFFICES ASSUME IInv, [Next]_vars PROVE RowsFit'
  OBVIOUS
<1> USE DEF headVars, storeVars, upstreamVars, forwardVars, observerVars, taskVars
<1>0. ASSUME UNCHANGED <<pulled, ideal, dropped, overflowed, job, ledger>>
      PROVE  RowsFit'
  BY <1>0 DEF IInv, RowsFit, RowFits, Ideal
<1>1. CASE Refuse \/ Dispatch
  BY <1>0, <1>1 DEF Refuse, Dispatch
<1>2. CASE SendFails
  <2>1. /\ UNCHANGED <<pulled, ideal, dropped, overflowed, request>> /\ ledger' = <<>>
        /\ job = NoRow /\ job' \in {FailedRow, NoRow}
    BY <1>2 DEF SendFails, IInv, RowsAfterTheCall
  <2>2. RowFits(FailedRow)
    BY <1>2, FailedRowFits DEF SendFails
  <2>3. RowFits(FailedRow)'
    BY <2>1, <2>2 DEF RowFits, Ideal, FailedRow
  <2>4. job' # NoRow => RowFits(job)'
    BY <2>1, <2>3 DEF RowFits, FailedRow, Ideal
  <2> QED
    BY <2>1, <2>4 DEF RowsFit
<1>3. CASE HeadArrives
  <2>1. job' = NoRow /\ ledger' = <<>>
    BY <1>3 DEF HeadArrives, IInv, RowsAfterTheCall
  <2> QED
    BY <2>1 DEF RowsFit
<1>4. ASSUME NEW b \in Chunk \cup {EmptyFrame}, Pull(b) PROVE RowsFit'
  <2>1. job' = job /\ ledger' = ledger /\ forward = "read"
    BY <1>4 DEF Pull
  <2>2. observer = "running"
    BY <2>1 DEF IInv, NoTaskYet, Phases, TypeOK
  <2> QED
    BY <2>1, <2>2 DEF IInv, RowsAfterTheCall, RowsFit
<1>5. CASE Deliver \/ DeliverFails \/ Report
  BY <1>0, <1>5 DEF Deliver, DeliverFails, Report
<1>6. CASE UpstreamBreaks \/ UpstreamEnds \/ DeliverError
  BY <1>0, <1>6 DEF UpstreamBreaks, UpstreamEnds, DeliverError
<1>7. CASE ReadBody \/ SeeEnd \/ Disconnect
  BY <1>0, <1>7 DEF ReadBody, SeeEnd, Disconnect
<1>8. CASE Observe
  <2>1. job' = job /\ ledger' = ledger /\ observer = "running"
    BY <1>8 DEF Observe, Receive
  <2> QED
    BY <2>1 DEF IInv, RowsAfterTheCall, RowsFit
<1>9. CASE Conclude
  <2>1. /\ ledger' = ledger /\ ledger = <<>> /\ job = NoRow
        /\ UNCHANGED <<pulled, ideal, dropped, overflowed>>
    BY <1>9 DEF Conclude, Receive, IInv, RowsAfterTheCall
  <2>2. Head(obsCh).type = ending
    BY <1>9, NothingPending DEF EndMsg
  <2>3. job' # NoRow => RowFits(job')
    BY <1>9, <2>1, <2>2, TerminalRowFits DEF Conclude
  <2>4. job' # NoRow => RowFits(job)'
    BY <2>1, <2>3 DEF RowFits, Ideal
  <2> QED
    BY <2>1, <2>4 DEF RowsFit
<1>10. CASE WriteRow
  <2>1. /\ ledger = <<>> /\ ledger' = <<job>> /\ job' = NoRow /\ RowFits(job)
        /\ UNCHANGED <<pulled, ideal, dropped, overflowed>>
    BY <1>10 DEF WriteRow, IInv, RowsAfterTheCall, RowsFit
  <2>2. ledger'[1] = job /\ DOMAIN ledger' = {1}
    BY <2>1
  <2>3. \A i \in DOMAIN ledger' : RowFits(ledger[i])'
    BY <2>1, <2>2 DEF RowFits, Ideal
  <2> QED
    BY <2>1, <2>3 DEF RowsFit
<1>11. CASE WriteFails
  BY <1>11 DEF WriteFails, IInv, RowsFit, RowFits, Ideal
<1>12. CASE Stop \/ UNCHANGED vars
  BY <1>0, <1>12 DEF Stop, vars
<1> QED
  BY <1>1, <1>2, <1>3, <1>4, <1>5, <1>6, <1>7, <1>8, <1>9, <1>10, <1>11, <1>12
     DEF Next, Handler, Forward, Upstream, Client, Observer, Writer

-----------------------------------------------------------------------------
(***************************************************************************)
(* The theorems.                                                           *)
(***************************************************************************)
LEMMA IInvStep == IInv /\ [Next]_vars => IInv'
BY TypeStep, ControlStep, ChannelStep, RowsStep DEF IInv, Control, Channel

\* The invariant is inductive.
THEOREM Invariance == Spec => []IInv
BY InitIInv, IInvStep, PTL DEF Spec

\* The handler, the tasks and the store only ever hold what their types allow: no
\* channel exceeds its capacity and a call has at most one row.
THEOREM TypeCorrect == Spec => []TypeOK
<1>1. IInv => TypeOK
  BY DEF IInv
<1> QED
  BY Invariance, <1>1, PTL

\* A row is flagged exactly when the observer missed bytes, and its anomaly is the
\* true cause (terminal_anomaly).
THEOREM AnomalyTheorem == Spec => []AnomalyIsTrue
<1>1. IInv => AnomalyIsTrue
  <2> SUFFICES ASSUME IInv PROVE AnomalyIsTrue
    OBVIOUS
  <2> SUFFICES ASSUME NEW row \in Rows
               PROVE  /\ row.anomaly \in Degraded <=> seen < Len(pulled)
                      /\ row.anomaly = "sse_overflow" =>
                           Outgrows(kind, ideal[seen + 1], pulled[seen + 1])
                      /\ row.anomaly = "observation_dropped" =>
                           \A i \in 1..seen : ~Outgrows(kind, ideal[i], pulled[i])
    BY DEF AnomalyIsTrue
  <2>1. PICK i \in DOMAIN ledger : row = ledger[i]
    BY DEF Rows
  <2>2. RowFits(row)
    BY <2>1 DEF IInv, RowsFit
  <2>3. row.anomaly \in Degraded <=> dropped
    BY <2>2 DEF RowFits
  <2>4. dropped <=> seen < Len(pulled)
    <3>1. ledger # <<>>
      BY <2>1
    <3>2. dropped => seen < Len(pulled)
      BY DEF IInv, LossIsReal
    <3>3. handler # "answered" => seen = 0 /\ pulled = <<>>
      BY DEF IInv, NoTaskYet
    <3>4. handler = "answered" => observer = "done"
      BY <3>1 DEF IInv, RowsAfterTheCall, Phases, TypeOK
    <3>5. ASSUME ~dropped, observer = "done" PROVE seen = Len(pulled)
      <4>1. obsCh = <<>> /\ Pending = Len(obsCh)
        BY <3>5 DEF IInv, Phases, Pending
      <4>2. seen + 0 = Len(pulled) /\ seen \in Nat
        BY <3>5, <4>1 DEF IInv, Lossless, TypeOK
      <4> QED
        BY <4>2
    <3> QED
      BY <3>2, <3>3, <3>4, <3>5 DEF IInv, TypeOK
  <2> QED
    BY <2>2, <2>3, <2>4 DEF RowFits, IInv, LossIsReal
<1> QED
  BY Invariance, <1>1, PTL

\* Every step of the pipeline is a step of the ledger's promise or leaves it alone:
\* Pull teaches the ideal meter while there is no row, WriteRow enters an honest one.
THEOREM LedgerTheorem == Spec => ImplementsLedger
<1>1. Init => Ledger!Init
  <2> SUFFICES ASSUME Init PROVE Ledger!Init
    OBVIOUS
  <2>1. Ideal = NewCapture /\ ledger = <<>>
    BY DEF Init, Ideal
  <2> QED
    BY <2>1 DEF Ledger!Init
<1>2. IInv /\ IInv' /\ [Next]_vars => [Ledger!Next]_(Ledger!vars)
  <2> SUFFICES ASSUME IInv, IInv', [Next]_vars
               PROVE  Ledger!Learn \/ Ledger!Enter \/ UNCHANGED <<Ideal, ledger>>
    BY DEF Ledger!Next, Ledger!vars
  <2> USE DEF headVars, storeVars, upstreamVars, forwardVars, observerVars, taskVars
  <2>0. ASSUME UNCHANGED <<pulled, ideal, ledger>> PROVE UNCHANGED <<Ideal, ledger>>
    BY <2>0 DEF Ideal
  <2>1. CASE Handler
    BY <2>0, <2>1 DEF Handler, Refuse, Dispatch, SendFails, HeadArrives
  <2>2. CASE Forward
    BY <2>0, <2>2 DEF Forward, Deliver, DeliverFails, DeliverError, Report
  <2>3. CASE Upstream
    <3>1. UNCHANGED ledger /\ forward = "read"
      BY <2>3 DEF Upstream, Pull, UpstreamBreaks, UpstreamEnds
    <3>2. ledger = <<>>
      BY <3>1 DEF IInv, NoTaskYet, Phases, RowsAfterTheCall, TypeOK
    <3>3. Ideal' \in Capture
      <4>1. ideal' \in Seq(Capture) /\ Len(ideal') = Len(pulled') + 1
        BY DEF IInv, TypeOK
      <4> QED
        BY <4>1 DEF Ideal
    <3> QED
      BY <3>1, <3>2, <3>3 DEF Ledger!Learn
  <2>4. CASE Client \/ Disconnect
    BY <2>0, <2>4 DEF Client, ReadBody, SeeEnd, Disconnect
  <2>5. CASE Observer
    BY <2>0, <2>5 DEF Observer, Observe, Conclude
  <2>6. CASE WriteRow
    <3>1. /\ ledger = <<>> /\ ledger' = <<job>> /\ Honest(job, Ideal)
          /\ UNCHANGED <<pulled, ideal>>
      BY <2>6 DEF WriteRow, IInv, RowsAfterTheCall, RowsFit, RowFits
    <3>2. Len(ledger') = 1 /\ ledger'[1] = job
      BY <3>1
    <3> QED
      BY <3>1, <3>2 DEF Ledger!Enter, Ideal
  <2>7. CASE WriteFails
    BY <2>0, <2>7 DEF WriteFails
  <2>8. CASE Stop \/ UNCHANGED vars
    BY <2>0, <2>8 DEF Stop, vars
  <2> QED
    BY <2>1, <2>2, <2>3, <2>4, <2>5, <2>6, <2>7, <2>8 DEF Next, Writer
<1> QED
  BY <1>1, <1>2, Invariance, PTL DEF Spec, ImplementsLedger, Ledger!Spec

(***************************************************************************)
(* The client's side: metering leaves the response alone, and a row's      *)
(* error is how its call ended.                                            *)
(***************************************************************************)
\* The Err item is on its way to the client, behind every chunk.
ErrorQueued == client = "open" /\ BodyClosed /\ ending = "upstream_error"

\* Chunks in the body channel, and in the forward task's hand.
Items == IF ErrorQueued THEN Len(bodyCh) - 1 ELSE Len(bodyCh)
Held  == IF forward = "send" THEN 1 ELSE 0

\* Read, queued and held chunks make up the body, in order.
Delivery ==
  /\ \A i \in DOMAIN received : received[i] = i
  /\ Len(received) + Held <= Len(pulled)
  /\ client = "open" /\ handler = "answered" =>
       /\ Len(received) + Items + Held = Len(pulled)
       /\ \A i \in 1..Items : bodyCh[i] = Len(received) + i
  /\ ErrorQueued => Len(bodyCh) > 0 /\ bodyCh[Len(bodyCh)] = ErrorItem

\* How the client's view of the end and the task's go together.
ClientEnds ==
  /\ client = "complete" =>
       BodyClosed /\ Len(received) = Len(pulled) /\ ending = "finish"
  /\ client = "broken" =>
       BodyClosed /\ Len(received) = Len(pulled) /\ ending = "upstream_error"
  /\ ending = "client_disconnect" =>
       BodyClosed /\ client = "gone" /\ Len(received) < Len(pulled)
  /\ forward \in {"none", "read", "send"} => ending = "none"
  /\ handler \in {"sending", "answered", "failed"} => request.alias = "known"

\* A row's error, in the job or in the ledger.
RowEnds(row) ==
  /\ request.inference
  /\ handler = "failed" => row.error = "send_failed"
  /\ handler = "answered" => row.error = IF ending = "finish" THEN "none" ELSE ending

RowsEnd ==
  /\ job # NoRow => RowEnds(job)
  /\ \A i \in DOMAIN ledger : RowEnds(ledger[i])

FInv == IInv /\ Delivery /\ ClientEnds /\ RowsEnd

-----------------------------------------------------------------------------
LEMMA InitFInv == Init => FInv
<1> SUFFICES ASSUME Init PROVE FInv
  OBVIOUS
<1>1. IInv
  BY InitIInv
<1>2. Delivery
  BY DEF Init, Delivery, Held, ErrorQueued, BodyClosed
<1>3. ClientEnds /\ RowsEnd
  BY DEF Init, ClientEnds, RowsEnd, BodyClosed
<1> QED
  BY <1>1, <1>2, <1>3 DEF FInv

\* The body's bookkeeping is undisturbed by steps that leave its variables alone.
LEMMA DeliveryFrame ==
  ASSUME FInv, UNCHANGED <<handler, client, pulled, forward, ending, bodyCh, received>>
  PROVE  Delivery'
BY DEF FInv, Delivery, Held, Items, ErrorQueued, BodyClosed

LEMMA DeliveryPull ==
  ASSUME FInv, NEW b \in Chunk \cup {EmptyFrame}, Pull(b)
  PROVE  Delivery'
<1>0. TypeOK /\ forward = "read" /\ UNCHANGED <<handler, client, ending, bodyCh, received>>
  BY DEF FInv, IInv, Pull, headVars
<1>1. CASE UNCHANGED <<pulled, forward>>
  BY <1>0, <1>1, DeliveryFrame
<1>2. CASE b \in Chunk /\ pulled' = Append(pulled, b) /\ forward' = "send"
  <2>1. Len(pulled') = Len(pulled) + 1 /\ Len(pulled) \in Nat /\ Len(received) \in Nat
        /\ Len(bodyCh) \in Nat
    BY <1>0, <1>2, AddLast DEF TypeOK
  <2>2. Held = 0 /\ Held' = 1 /\ ~ErrorQueued /\ ~ErrorQueued'
    BY <1>0, <1>2 DEF Held, ErrorQueued, BodyClosed
  <2>3. Items = Len(bodyCh) /\ Items' = Len(bodyCh)
    BY <1>0, <2>2 DEF Items
  <2>4. (\A i \in DOMAIN received' : received'[i] = i) /\ Len(received') + Held' <= Len(pulled')
    BY <1>0, <2>1, <2>2 DEF FInv, Delivery
  <2>5. client' = "open" /\ handler' = "answered" =>
          /\ Len(received') + Items' + Held' = Len(pulled')
          /\ \A i \in 1..Items' : bodyCh'[i] = Len(received') + i
    <3>1. SUFFICES ASSUME client = "open", handler = "answered"
                   PROVE  /\ Len(received) + Len(bodyCh) + 1 = Len(pulled')
                          /\ \A i \in 1..Len(bodyCh) : bodyCh[i] = Len(received) + i
      BY <1>0, <2>2, <2>3
    <3>2. /\ Len(received) + Items + Held = Len(pulled)
          /\ \A i \in 1..Items : bodyCh[i] = Len(received) + i
      BY <3>1 DEF FInv, Delivery
    <3> QED
      BY <3>2, <2>1, <2>2, <2>3
  <2> QED
    BY <2>2, <2>4, <2>5 DEF Delivery
<1> QED
  BY <1>0, <1>1, <1>2 DEF Pull, Skips

LEMMA DeliveryDeliver == FInv /\ Deliver => Delivery'
<1> SUFFICES ASSUME FInv, Deliver PROVE Delivery'
  OBVIOUS
<1>0. /\ TypeOK /\ forward = "send" /\ forward' = "read" /\ client = "open"
      /\ bodyCh' = Append(bodyCh, Len(pulled))
      /\ UNCHANGED <<handler, client, pulled, ending, received>>
  BY DEF FInv, IInv, Deliver, headVars, upstreamVars
<1>1. /\ Len(pulled) \in Nat /\ Len(received) \in Nat /\ Len(bodyCh) \in Nat
      /\ handler = "answered"
  BY <1>0 DEF TypeOK, FInv, IInv, NoTaskYet
<1>2. /\ Len(bodyCh') = Len(bodyCh) + 1 /\ bodyCh'[Len(bodyCh) + 1] = Len(pulled)
      /\ \A i \in 1..Len(bodyCh) : bodyCh'[i] = bodyCh[i]
  BY <1>0, <1>1, AddLast DEF TypeOK
<1>3. Held = 1 /\ Held' = 0 /\ ~ErrorQueued /\ ~ErrorQueued'
  BY <1>0 DEF Held, ErrorQueued, BodyClosed
<1>4. Items = Len(bodyCh) /\ Items' = Len(bodyCh) + 1
  BY <1>2, <1>3 DEF Items
<1>5. Len(received) + Len(bodyCh) + 1 = Len(pulled)
      /\ \A i \in 1..Len(bodyCh) : bodyCh[i] = Len(received) + i
  BY <1>0, <1>1, <1>3, <1>4 DEF FInv, Delivery
<1>6. \A i \in 1..Items' : bodyCh'[i] = Len(received') + i
  <2>1. bodyCh'[Len(bodyCh) + 1] = Len(received) + (Len(bodyCh) + 1)
    BY <1>1, <1>2, <1>5
  <2> QED
    BY <1>0, <1>1, <1>2, <1>4, <1>5, <2>1
<1>7. Len(received') + Items' + Held' = Len(pulled')
  BY <1>0, <1>1, <1>3, <1>4, <1>5
<1>8. Len(received') + Held' <= Len(pulled')
  BY <1>0, <1>1, <1>3, <1>5
<1> QED
  BY <1>0, <1>3, <1>6, <1>7, <1>8 DEF FInv, Delivery

LEMMA DeliveryError == FInv /\ DeliverError => Delivery'
<1> SUFFICES ASSUME FInv, DeliverError PROVE Delivery'
  OBVIOUS
<1>0. /\ TypeOK /\ forward = "sendErr" /\ forward' = "report" /\ ending = "upstream_error"
      /\ UNCHANGED <<handler, client, pulled, ending, received>>
  BY DEF FInv, IInv, Phases, DeliverError, headVars, upstreamVars
<1>1. Len(pulled) \in Nat /\ Len(received) \in Nat /\ Len(bodyCh) \in Nat
  BY <1>0 DEF TypeOK
<1>2. Held = 0 /\ Held' = 0 /\ ~ErrorQueued
  BY <1>0 DEF Held, ErrorQueued, BodyClosed
<1>3. Items = Len(bodyCh)
  BY <1>2 DEF Items
<1>4. CASE client = "open" /\ bodyCh' = Append(bodyCh, ErrorItem)
  <2>1. ErrorItem \in Nat /\ bodyCh \in Seq(Nat)
    BY <1>0 DEF ErrorItem, TypeOK
  <2>2. /\ Len(bodyCh') = Len(bodyCh) + 1 /\ bodyCh'[Len(bodyCh) + 1] = ErrorItem
        /\ \A i \in 1..Len(bodyCh) : bodyCh'[i] = bodyCh[i]
    BY <1>4, <2>1, AddLast
  <2>3. ErrorQueued'
    BY <1>0, <1>4 DEF ErrorQueued, BodyClosed
  <2>4. Items' = Len(bodyCh)
    BY <1>1, <2>2, <2>3 DEF Items
  <2> QED
    BY <1>0, <1>1, <1>2, <1>3, <1>4, <2>2, <2>3, <2>4 DEF FInv, Delivery, ErrorItem
<1>5. CASE client # "open" /\ UNCHANGED bodyCh
  BY <1>0, <1>1, <1>2, <1>5 DEF FInv, Delivery, ErrorQueued
<1> QED
  BY <1>4, <1>5 DEF DeliverError

\* The steps by which the body ends, or the terminal message leaves.
LEMMA DeliveryEnds ==
  ASSUME FInv, DeliverFails \/ UpstreamBreaks \/ UpstreamEnds \/ Report
  PROVE  Delivery'
<1>0. /\ TypeOK /\ UNCHANGED <<handler, client, pulled, bodyCh, received>>
      /\ Len(pulled) \in Nat /\ Len(received) \in Nat
  BY DEF FInv, IInv, TypeOK, DeliverFails, UpstreamBreaks, UpstreamEnds, Report, headVars,
         upstreamVars
<1>1. CASE DeliverFails
  <2>1. client # "open" /\ Held' = 0 /\ Held = 1 /\ ~ErrorQueued'
    BY <1>0, <1>1 DEF DeliverFails, Held, ErrorQueued
  <2> QED
    BY <1>0, <2>1 DEF FInv, Delivery
<1>2. CASE UpstreamBreaks \/ UpstreamEnds
  <2>1. Held' = 0 /\ Held = 0 /\ ~ErrorQueued' /\ ~ErrorQueued
    BY <1>0, <1>2 DEF UpstreamBreaks, UpstreamEnds, Held, ErrorQueued, BodyClosed
  <2>2. Items' = Items
    BY <1>0, <2>1 DEF Items
  <2> QED
    BY <1>0, <2>1, <2>2 DEF FInv, Delivery
<1>3. CASE Report
  <2>1. Held' = 0 /\ Held = 0 /\ (ErrorQueued' <=> ErrorQueued)
    BY <1>0, <1>3 DEF Report, Held, ErrorQueued, BodyClosed
  <2>2. Items' = Items
    BY <1>0, <2>1 DEF Items
  <2> QED
    BY <1>0, <2>1, <2>2 DEF FInv, Delivery
<1> QED
  BY <1>1, <1>2, <1>3

LEMMA DeliveryRead == FInv /\ ReadBody => Delivery'
<1> SUFFICES ASSUME FInv, ReadBody PROVE Delivery'
  OBVIOUS
<1>0. /\ TypeOK /\ client = "open" /\ handler = "answered" /\ bodyCh # <<>>
      /\ bodyCh' = Tail(bodyCh)
      /\ UNCHANGED <<handler, pulled, forward, ending>>
  BY DEF FInv, IInv, ReadBody, headVars, upstreamVars
<1>1. /\ Len(pulled) \in Nat /\ Len(received) \in Nat
      /\ Len(bodyCh) \in Nat /\ Len(bodyCh) > 0 /\ Head(bodyCh) = bodyCh[1]
      /\ Head(bodyCh) \in Nat /\ Len(bodyCh') = Len(bodyCh) - 1
      /\ \A i \in 1..Len(bodyCh) - 1 : bodyCh'[i] = bodyCh[i + 1]
  BY <1>0, TakeFirst DEF TypeOK
<1>2. /\ Len(received) + Items + Held = Len(pulled) /\ Held \in {0, 1} /\ Held' = Held
      /\ \A i \in 1..Items : bodyCh[i] = Len(received) + i
  BY <1>0 DEF FInv, Delivery, Held
<1>3. CASE Head(bodyCh) = ErrorItem
  <2>1. client' = "broken" /\ UNCHANGED received
    BY <1>0, <1>3 DEF ReadBody
  <2>2. ~ErrorQueued'
    BY <2>1 DEF ErrorQueued
  <2> QED
    BY <1>0, <1>2, <2>1, <2>2 DEF FInv, Delivery
<1>4. CASE Head(bodyCh) # ErrorItem
  <2>1. received' = Append(received, Head(bodyCh)) /\ client' = client
    BY <1>0, <1>4 DEF ReadBody
  <2>2. ErrorQueued' <=> ErrorQueued
    BY <1>0, <2>1 DEF ErrorQueued, BodyClosed
  <2>3. Items \in Nat /\ Items >= 1
    <3>1. CASE ErrorQueued
      <4>1. bodyCh[Len(bodyCh)] = ErrorItem
        BY <3>1 DEF FInv, Delivery
      <4>2. Len(bodyCh) # 1
        BY <1>1, <1>4, <4>1
      <4> QED
        BY <1>1, <3>1, <4>2 DEF Items
    <3>2. CASE ~ErrorQueued
      BY <1>1, <3>2 DEF Items
    <3> QED
      BY <3>1, <3>2
  <2>4. Items' = Items - 1
    BY <1>1, <2>2 DEF Items
  <2>5. Head(bodyCh) = Len(received) + 1
    <3>1. 1 \in 1..Items
      BY <2>3
    <3> QED
      BY <1>1, <1>2, <3>1
  <2>6. /\ Len(received') = Len(received) + 1 /\ received'[Len(received) + 1] = Head(bodyCh)
        /\ \A i \in 1..Len(received) : received'[i] = received[i]
        /\ received' \in Seq(Nat)
    BY <1>0, <1>1, <2>1, AddLast DEF TypeOK
  <2>7. \A i \in DOMAIN received' : received'[i] = i
    <3>1. DOMAIN received = 1..Len(received) /\ DOMAIN received' = 1..Len(received) + 1
      BY <1>0, <2>6 DEF TypeOK
    <3>2. \A i \in 1..Len(received) : received[i] = i
      BY <3>1 DEF FInv, Delivery
    <3> QED
      BY <1>1, <2>5, <2>6, <3>1, <3>2
  <2>8. Len(received') + Items' + Held' = Len(pulled') /\ Len(received') + Held' <= Len(pulled')
    <3>1. Len(received') = Len(received) + 1 /\ Len(pulled') = Len(pulled)
      BY <1>0, <2>6
    <3>2. Items' = Items - 1 /\ Held' = Held /\ Held \in Nat
      BY <1>2, <2>4
    <3>3. Len(received) + Items + Held = Len(pulled) /\ Len(received) \in Nat
      BY <1>1, <1>2
    <3> HIDE DEF Items, Held
    <3> QED
      BY <2>3, <3>1, <3>2, <3>3
  <2>9. ASSUME NEW i \in 1..Items' PROVE bodyCh'[i] = Len(received') + i
    <3>1. i + 1 \in 1..Items /\ i \in 1..Len(bodyCh) - 1
      BY <1>1, <2>3, <2>4 DEF Items
    <3>2. bodyCh'[i] = bodyCh[i + 1] /\ bodyCh[i + 1] = Len(received) + (i + 1)
      BY <1>1, <1>2, <3>1
    <3> QED
      BY <1>1, <2>6, <3>1, <3>2
  <2>10. ASSUME ErrorQueued' PROVE Len(bodyCh') > 0 /\ bodyCh'[Len(bodyCh')] = ErrorItem
    <3>1. Len(bodyCh) >= 2 /\ bodyCh[Len(bodyCh)] = ErrorItem
      BY <1>1, <2>2, <2>3, <2>10 DEF FInv, Delivery, Items
    <3>2. bodyCh'[Len(bodyCh) - 1] = bodyCh[(Len(bodyCh) - 1) + 1]
      BY <1>1, <3>1
    <3>3. (Len(bodyCh) - 1) + 1 = Len(bodyCh)
      BY <1>1
    <3> QED
      BY <1>1, <3>1, <3>2, <3>3
  <2> QED
    BY <2>7, <2>8, <2>9, <2>10 DEF Delivery, ErrorItem
<1> QED
  BY <1>3, <1>4

LEMMA DeliveryStep == FInv /\ [Next]_vars => Delivery'
<1> SUFFICES ASSUME FInv, [Next]_vars PROVE Delivery'
  OBVIOUS
<1> USE DeliveryFrame DEF headVars, storeVars, upstreamVars, forwardVars, observerVars, taskVars
<1>1. CASE Handler
  <2>1. handler # "answered" /\ UNCHANGED <<client, pulled, bodyCh, received, ending>>
        /\ forward' \in {forward, "read"}
    BY <1>1 DEF Handler, Refuse, Dispatch, SendFails, HeadArrives
  <2>2. pulled = <<>> /\ received = <<>> /\ bodyCh = <<>> /\ forward = "none"
    BY <2>1 DEF FInv, IInv, NoTaskYet
  <2>3. Held' = 0 /\ ~ErrorQueued'
    BY <2>1, <2>2 DEF Held, ErrorQueued, BodyClosed
  <2>4. Items' = 0
    BY <2>1, <2>2, <2>3 DEF Items
  <2> QED
    BY <2>1, <2>2, <2>3, <2>4 DEF Delivery
<1>2. CASE Deliver \/ DeliverError
  BY <1>2, DeliveryDeliver, DeliveryError
<1>3. CASE DeliverFails \/ UpstreamBreaks \/ UpstreamEnds \/ Report
  BY <1>3, DeliveryEnds
<1>4. ASSUME NEW b \in Chunk \cup {EmptyFrame}, Pull(b) PROVE Delivery'
  BY <1>4, DeliveryPull
<1>5. CASE ReadBody
  BY <1>5, DeliveryRead
<1>6. CASE SeeEnd \/ Disconnect
  <2>1. client' # "open" /\ UNCHANGED <<pulled, received, forward>>
    BY <1>6 DEF SeeEnd, Disconnect
  <2>2. ~ErrorQueued' /\ Held' = Held
    BY <2>1 DEF ErrorQueued, Held
  <2> QED
    BY <2>1, <2>2 DEF FInv, Delivery
<1>7. CASE Observer
  BY <1>7 DEF Observer, Observe, Conclude
<1>8. CASE Writer
  BY <1>8 DEF Writer, WriteRow, WriteFails
<1>9. CASE Stop \/ UNCHANGED vars
  BY <1>9 DEF Stop, vars
<1> QED
  BY <1>1, <1>2, <1>3, <1>4, <1>5, <1>6, <1>7, <1>8, <1>9 DEF Next, Forward, Upstream, Client

LEMMA ClientEndsStep == FInv /\ [Next]_vars => ClientEnds'
<1> SUFFICES ASSUME FInv, [Next]_vars PROVE ClientEnds'
  OBVIOUS
<1> USE DEF headVars, storeVars, upstreamVars, forwardVars, observerVars, taskVars
<1>0. TypeOK /\ NoTaskYet /\ Phases /\ ClientEnds
  BY DEF FInv, IInv
<1>1. CASE Handler
  BY <1>0, <1>1 DEF Handler, Refuse, Dispatch, SendFails, HeadArrives, NoTaskYet, ClientEnds,
                    BodyClosed
<1>2. CASE Deliver \/ DeliverError \/ Report
  BY <1>0, <1>2 DEF Deliver, DeliverError, Report, ClientEnds, BodyClosed, Phases
<1>3. CASE DeliverFails
  <2>1. client = "gone" /\ Len(received) < Len(pulled)
    <3>1. client = "gone"
      BY <1>0, <1>3 DEF DeliverFails, ClientEnds, BodyClosed, TypeOK
    <3>2. Len(received) + 1 <= Len(pulled)
      BY <1>3 DEF DeliverFails, FInv, Delivery, Held
    <3> QED
      BY <1>0, <3>1, <3>2 DEF TypeOK
  <2> QED
    BY <1>0, <1>3, <2>1 DEF DeliverFails, ClientEnds, BodyClosed
<1>4. CASE UpstreamBreaks \/ UpstreamEnds
  BY <1>0, <1>4 DEF UpstreamBreaks, UpstreamEnds, ClientEnds, BodyClosed
<1>5. ASSUME NEW b \in Chunk \cup {EmptyFrame}, Pull(b) PROVE ClientEnds'
  BY <1>0, <1>5 DEF Pull, ClientEnds, BodyClosed
<1>6. CASE ReadBody
  <2>0. client = "open" /\ handler = "answered" /\ bodyCh # <<>>
        /\ UNCHANGED <<forward, ending, pulled, handler, request>>
    BY <1>6 DEF ReadBody
  <2>1. CASE Head(bodyCh) # ErrorItem
    <3>1. client' = "open"
      BY <1>6, <2>0, <2>1 DEF ReadBody
    <3> QED
      BY <1>0, <2>0, <3>1 DEF ClientEnds, BodyClosed
  <2>2. CASE Head(bodyCh) = ErrorItem
    <3>1. client' = "broken" /\ UNCHANGED received
      BY <1>6, <2>2 DEF ReadBody
    <3>2. /\ Len(pulled) \in Nat /\ Len(received) \in Nat /\ Len(bodyCh) \in Nat
          /\ Len(bodyCh) > 0 /\ bodyCh[1] = 0
      BY <1>0, <2>0, <2>2, TakeFirst DEF TypeOK, ErrorItem
    <3>3. \A i \in 1..Items : bodyCh[i] = Len(received) + i
      BY <2>0 DEF FInv, Delivery
    <3>4. Items < 1
      <4>1. ~(1 \in 1..Items)
        BY <3>2, <3>3
      <4>2. Items \in Int
        BY <3>2 DEF Items
      <4> QED
        BY <4>1, <4>2
    <3>5. ErrorQueued /\ Items = 0
      <4>1. ErrorQueued
        BY <3>2, <3>4 DEF Items
      <4>2. Items = Len(bodyCh) - 1
        BY <4>1 DEF Items
      <4> QED
        BY <3>2, <3>4, <4>1, <4>2
    <3>6. Held = 0 /\ BodyClosed /\ ending = "upstream_error"
      BY <3>5 DEF Held, ErrorQueued, BodyClosed
    <3>7. Len(received) = Len(pulled)
      BY <2>0, <3>2, <3>5, <3>6 DEF FInv, Delivery
    <3> QED
      BY <1>0, <2>0, <3>1, <3>6, <3>7 DEF ClientEnds, BodyClosed
  <2> QED
    BY <2>1, <2>2
<1>7. CASE SeeEnd
  <2>1. /\ client = "open" /\ handler = "answered" /\ bodyCh = <<>> /\ BodyClosed
        /\ client' = "complete"
        /\ UNCHANGED <<forward, ending, pulled, received, handler, request>>
    BY <1>7 DEF SeeEnd
  <2>2. Held = 0 /\ ~ErrorQueued /\ Len(bodyCh) = 0
    BY <2>1 DEF Held, BodyClosed, FInv, Delivery
  <2>3. Items = 0
    BY <2>2 DEF Items
  <2>4. Len(received) = Len(pulled)
    BY <1>0, <2>1, <2>2, <2>3 DEF FInv, Delivery, TypeOK
  <2>5. ending = "finish"
    BY <1>0, <2>1, <2>2 DEF ErrorQueued, ClientEnds, BodyClosed, Phases, Endings
  <2> QED
    BY <1>0, <2>1, <2>4, <2>5 DEF ClientEnds, BodyClosed
<1>8. CASE Disconnect
  BY <1>0, <1>8 DEF Disconnect, ClientEnds, BodyClosed
<1>9. CASE Observer
  BY <1>0, <1>9 DEF Observer, Observe, Conclude, ClientEnds, BodyClosed
<1>10. CASE Writer
  BY <1>0, <1>10 DEF Writer, WriteRow, WriteFails, ClientEnds, BodyClosed
<1>11. CASE Stop \/ UNCHANGED vars
  BY <1>0, <1>11 DEF Stop, vars, ClientEnds, BodyClosed
<1> QED
  BY <1>1, <1>2, <1>3, <1>4, <1>5, <1>6, <1>7, <1>8, <1>9, <1>10, <1>11
     DEF Next, Forward, Upstream, Client

LEMMA RowsEndStep == FInv /\ [Next]_vars => RowsEnd'
<1> SUFFICES ASSUME FInv, [Next]_vars PROVE RowsEnd'
  OBVIOUS
<1> USE DEF headVars, storeVars, upstreamVars, forwardVars, observerVars, taskVars
<1>0. TypeOK /\ NoTaskYet /\ Phases /\ RowsAfterTheCall /\ RowsEnd
  BY DEF FInv, IInv
\* Rows stay while what they tell stays.
<1>1. ASSUME UNCHANGED <<request, handler, ending, job, ledger>> PROVE RowsEnd'
  BY <1>0, <1>1 DEF RowsEnd, RowEnds
\* There is no row before the end of the call.
<1>2. ASSUME job' = NoRow, ledger' = <<>> PROVE RowsEnd'
  BY <1>2 DEF RowsEnd
<1>3. CASE Refuse \/ Dispatch \/ HeadArrives
  BY <1>0, <1>2, <1>3 DEF Refuse, Dispatch, HeadArrives, RowsAfterTheCall
<1>4. CASE SendFails
  <2>1. job = NoRow /\ ledger' = <<>> /\ handler' = "failed" /\ request' = request
    BY <1>0, <1>4 DEF SendFails, RowsAfterTheCall
  <2>2. CASE request.inference
    BY <1>4, <2>1, <2>2 DEF SendFails, RowsEnd, RowEnds, FailedRow
  <2>3. CASE ~request.inference
    BY <1>2, <1>4, <2>1, <2>3 DEF SendFails
  <2> QED
    BY <2>2, <2>3
<1>5. CASE Forward \/ Upstream
  <2>1. forward # "done" /\ UNCHANGED <<job, ledger>>
    BY <1>5 DEF Forward, Upstream, Deliver, DeliverFails, DeliverError, Report, Pull,
                UpstreamBreaks, UpstreamEnds
  <2>2. forward # "none"
    BY <1>5 DEF Forward, Upstream, Deliver, DeliverFails, DeliverError, Report, Pull,
                UpstreamBreaks, UpstreamEnds
  <2>3. observer = "running"
    BY <1>0, <2>1, <2>2 DEF NoTaskYet, Phases, TypeOK
  <2> QED
    BY <1>0, <1>2, <2>1, <2>3 DEF RowsAfterTheCall
<1>6. CASE Client
  BY <1>1, <1>6 DEF Client, ReadBody, SeeEnd
<1>7. CASE Disconnect
  <2>1. CASE handler \in {"received", "sending"}
    BY <1>0, <1>2, <1>7, <2>1 DEF Disconnect, RowsAfterTheCall
  <2>2. CASE handler \notin {"received", "sending"}
    BY <1>1, <1>7, <2>2 DEF Disconnect
  <2> QED
    BY <2>1, <2>2
<1>8. CASE Observe
  BY <1>1, <1>8 DEF Observe
<1>9. CASE Conclude
  <2>1. /\ ledger = <<>> /\ job = NoRow /\ UNCHANGED <<request, handler, ending, ledger>>
        /\ handler = "answered"
    BY <1>0, <1>9 DEF Conclude, Receive, RowsAfterTheCall, NoTaskYet
  <2>2. Head(obsCh).type = ending
    BY <1>9, NothingPending DEF FInv, EndMsg
  <2>3. CASE request.inference
    BY <1>9, <2>1, <2>2, <2>3 DEF Conclude, Records, TerminalRow, RowsEnd, RowEnds
  <2>4. CASE ~request.inference
    BY <1>2, <1>9, <2>1, <2>4 DEF Conclude, Records
  <2> QED
    BY <2>3, <2>4
<1>10. CASE WriteRow
  <2>1. /\ RowEnds(job) /\ ledger' = <<job>> /\ job' = NoRow
        /\ UNCHANGED <<request, handler, ending>>
    BY <1>0, <1>10 DEF WriteRow, RowsEnd, RowsAfterTheCall
  <2>2. DOMAIN ledger' = {1} /\ ledger'[1] = job
    BY <2>1
  <2> QED
    BY <2>1, <2>2 DEF RowsEnd, RowEnds
<1>11. CASE WriteFails
  BY <1>0, <1>2, <1>11 DEF WriteFails, RowsAfterTheCall
<1>12. CASE Stop \/ UNCHANGED vars
  BY <1>1, <1>12 DEF Stop, vars
<1> QED
  BY <1>3, <1>4, <1>5, <1>6, <1>7, <1>8, <1>9, <1>10, <1>11, <1>12
     DEF Next, Handler, Observer, Writer

LEMMA ForwardingInvariance == Spec => []FInv
<1>1. Init => FInv
  BY InitFInv
<1>2. FInv /\ [Next]_vars => FInv'
  BY DeliveryStep, ClientEndsStep, RowsEndStep, IInvStep DEF FInv
<1> QED
  BY <1>1, <1>2, PTL DEF Spec

\* The client reads what the upstream sent, in order and whole, and is told the end
\* the upstream made: in every interleaving with the observer (handle_request's
\* forward task).
THEOREM ForwardingTheorem == Spec => []ForwardsFaithfully
<1>1. FInv => ForwardsFaithfully
  BY DEF FInv, Delivery, ClientEnds, ForwardsFaithfully
<1> QED
  BY ForwardingInvariance, <1>1, PTL

\* A row's error is how its call ended, and `client_disconnect' means that a chunk
\* was left unread (handle_request, the Err arms of send().await and of the body).
THEOREM EndingTheorem == Spec => []RowTellsEnding
<1>1. FInv => RowTellsEnding
  <2> SUFFICES ASSUME FInv, NEW row \in Rows
               PROVE  /\ request.inference /\ request.alias = "known"
                      /\ row.error = "none" => ending = "finish"
                      /\ row.error = "client_disconnect" =>
                           /\ client = "gone"
                           /\ \E i \in 1..Len(pulled) :
                                pulled[i] # EmptyFrame
                                /\ i \notin {received[j] : j \in DOMAIN received}
                      /\ row.error = "upstream_error" => client # "complete"
                      /\ row.error = "send_failed" => handler = "failed" /\ pulled = <<>>
    BY DEF RowTellsEnding
  <2>1. RowEnds(row) /\ ledger # <<>>
    <3>1. PICK i \in DOMAIN ledger : row = ledger[i]
      BY DEF Rows
    <3> QED
      BY <3>1 DEF FInv, RowsEnd
  <2>2. handler \in {"answered", "failed"}
    BY <2>1 DEF FInv, IInv, TypeOK, RowsAfterTheCall
  <2>3. handler = "failed" => pulled = <<>> /\ row.error = "send_failed"
    BY <2>1 DEF FInv, IInv, NoTaskYet, RowEnds
  <2>4. ASSUME handler = "answered" PROVE ending \in Endings /\ row.error # "send_failed"
    <3>1. observer = "done"
      BY <2>1, <2>4 DEF FInv, IInv, RowsAfterTheCall, Phases, TypeOK
    <3>2. ending \in Endings
      BY <3>1 DEF FInv, IInv, Phases
    <3> QED
      BY <2>1, <2>4, <3>2 DEF RowEnds, Endings
  <2>5. ASSUME row.error = "client_disconnect"
        PROVE  /\ client = "gone"
               /\ \E i \in 1..Len(pulled) :
                    pulled[i] # EmptyFrame /\ i \notin {received[j] : j \in DOMAIN received}
    <3>1. ending = "client_disconnect"
      BY <2>1, <2>2, <2>3, <2>5 DEF RowEnds
    <3>2. client = "gone" /\ Len(received) < Len(pulled)
      BY <3>1 DEF FInv, ClientEnds
    <3>3. /\ pulled \in Seq(Chunk) /\ received \in Seq(Nat)
          /\ Len(pulled) \in Nat /\ Len(received) \in Nat
      BY DEF FInv, IInv, TypeOK
    <3>4. Len(pulled) \in 1..Len(pulled) /\ pulled[Len(pulled)] # EmptyFrame
      BY <3>2, <3>3, ChunkAssumption
    <3>5. \A j \in DOMAIN received : received[j] = j /\ j <= Len(received)
      BY <3>3 DEF FInv, Delivery
    <3>6. Len(pulled) \notin {received[j] : j \in DOMAIN received}
      BY <3>2, <3>3, <3>5
    <3> QED
      BY <3>2, <3>4, <3>6
  <2>6. row.error = "upstream_error" => client # "complete"
    BY <2>1, <2>2, <2>3 DEF RowEnds, FInv, ClientEnds
  <2>7. row.error = "none" => ending = "finish"
    BY <2>1, <2>2, <2>3, <2>4 DEF RowEnds, Endings
  <2>8. row.error = "send_failed" => handler = "failed" /\ pulled = <<>>
    BY <2>2, <2>3, <2>4
  <2>9. request.inference /\ request.alias = "known"
    BY <2>1, <2>2 DEF RowEnds, FInv, ClientEnds
  <2> QED
    BY <2>5, <2>6, <2>7, <2>8, <2>9
<1> QED
  BY ForwardingInvariance, <1>1, PTL

(***************************************************************************)
(* The cuts are invisible.                                                 *)
(***************************************************************************)
LEMMA CutsStay ==
  ASSUME Metered, IInv
  PROVE  CutsAreInvisible
<1> SUFFICES ASSUME \A i \in 1..Len(pulled) : ~EventOutgrows(kind, ideal[i], pulled[i])
             PROVE  Ideal = Gathered(kind, Body)
  BY DEF CutsAreInvisible, Gathered
<1>1. /\ pulled \in Seq(Chunk) /\ Len(pulled) \in Nat
      /\ ideal \in Seq(Capture) /\ Len(ideal) = Len(pulled) + 1
      /\ ideal[1] = EmptyCapture
      /\ \A i \in 1..Len(pulled) : ideal[i + 1] = Absorb(kind, ideal[i], pulled[i])
  BY DEF IInv, TypeOK, IdealReads, Metered
<1>2. \A i \in 1..Len(pulled) : pulled[i] \in Chunk /\ pulled[i] \in Seq(Unit)
  BY <1>1 DEF Metered
<1>3. Len(pulled) # 0 => kind \in Kind
  <2>1. CASE handler = "answered"
    BY <2>1 DEF IInv, Phases
  <2>2. CASE handler # "answered"
    <3>1. pulled = <<>>
      BY <2>2 DEF IInv, NoTaskYet
    <3> QED
      BY <3>1
  <2> QED
    BY <2>1, <2>2
<1> DEFINE P == {i \in Nat : i <= Len(pulled) => ideal[i + 1] = Gathered(kind, Joined(pulled, i))}
<1>4. 0 \in P
  <2>1. Joined(pulled, 0) = <<>>
    BY JoinedStep
  <2>2. Gathered(kind, <<>>) = EmptyCapture
    BY NothingRead DEF Gathered, AbsorbChunk
  <2>3. ideal[0 + 1] = Gathered(kind, Joined(pulled, 0))
    BY <1>1, <2>1, <2>2
  <2> QED
    BY <2>3
<1>5. ASSUME NEW i \in Nat, i \in P PROVE i + 1 \in P
  <2> SUFFICES ASSUME i + 1 <= Len(pulled)
               PROVE  ideal[(i + 1) + 1] = Gathered(kind, Joined(pulled, i + 1))
    OBVIOUS
  <2> DEFINE p == Joined(pulled, i)
             y == pulled[i + 1]
             c == ideal[i + 1]
  <2>1. i + 1 \in 1..Len(pulled) /\ i + 1 \in 1..Len(ideal) /\ Len(pulled) # 0
    BY <1>1
  <2>2. c = Gathered(kind, p)
    BY <1>1, <1>5
  <2>3. c \in Capture /\ y \in Chunk /\ y \in Seq(Unit) /\ kind \in Kind
    BY <1>1, <1>2, <1>3, <2>1
  <2>4. p \in Seq(Unit)
    <3>1. \A j \in 1..i : pulled[j] \in Seq(Unit)
      BY <1>1, <1>2
    <3> QED
      BY <3>1, JoinedType
  <2>5. ideal[(i + 1) + 1] = Absorb(kind, c, y) /\ ~EventOutgrows(kind, c, y)
    BY <1>1, <2>1
  <2>6. Joined(pulled, i + 1) = p \o y
    BY JoinedStep
  <2> HIDE DEF p, y, c
  <2>7. Absorb(kind, c, y) = AbsorbChunk(kind, c, y)
    BY <2>3 DEF Metered
  <2>8. AbsorbChunk(kind, c, y) = Gathered(kind, p \o y)
    BY <2>2, <2>3, <2>4, <2>5, GatheredMore
  <2> QED
    BY <2>5, <2>6, <2>7, <2>8
<1> HIDE DEF P
<1>6. Nat \subseteq P
  BY <1>4, <1>5, Climb
<1>7. ideal[Len(pulled) + 1] = Gathered(kind, Joined(pulled, Len(pulled)))
  BY <1>1, <1>6 DEF P
<1> QED
  BY <1>7 DEF Ideal, Body

\* For an observer that is UsageStream's, what a whole body told the meter does not
\* depend on where it was cut into chunks.
THEOREM CutsTheorem == Metered => (Spec => []CutsAreInvisible)
<1> SUFFICES ASSUME Metered PROVE Spec => []CutsAreInvisible
  OBVIOUS
<1>1. IInv => CutsAreInvisible
  BY CutsStay
<1> QED
  BY <1>1, Invariance, PTL
=============================================================================
