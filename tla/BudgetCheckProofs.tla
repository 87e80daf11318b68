-------------------------- MODULE BudgetCheckProofs ---------------------------
(***************************************************************************)
(* A known cost stays, an exceeded budget stays exceeded and a typo hides  *)
(* no spend: theorems about BudgetCheck, for any models, prices and calls, *)
(* however many.                                                           *)
(***************************************************************************)
EXTENDS BudgetCheck, FiniteSetTheorems, WellFoundedInduction, TLAPS

History == INSTANCE PriceHistoryProofs

-----------------------------------------------------------------------------
(***************************************************************************)
(* Sums                                                                    *)
(***************************************************************************)
\* Every set of naturals has a least element, so what holds of 0 and of the successor of
\* whatever it holds of holds of all of them.
LEMMA Least ==
  ASSUME NEW S, S \subseteq Nat, S # {}
  PROVE  \E s \in S : \A r \in S : s <= r
<1>1. PICK s \in S : \A r \in S : ~(<<r, s>> \in OpToRel(<, Nat))
  BY NatLessThanWellFounded, WFMin
<1>2. \A r \in S : ~(r < s)
  BY <1>1 DEF OpToRel
<1> QED
  BY <1>2

LEMMA Climb ==
  ASSUME NEW P, 0 \in P, \A n \in Nat : n \in P => n + 1 \in P
  PROVE  Nat \subseteq P
<1> SUFFICES ASSUME Nat \ P # {} PROVE FALSE
  OBVIOUS
<1>1. PICK n \in Nat \ P : \A r \in Nat \ P : n <= r
  BY Least
<1>2. n # 0 /\ n - 1 \in Nat
  BY <1>1
<1>3. n - 1 \in P
  BY <1>1, <1>2
<1>4. (n - 1) + 1 \in P
  BY <1>2, <1>3
<1> QED
  BY <1>1, <1>4

\* How MapThenFoldSet walks through the subsets of S.
First(s) == CHOOSE x \in s : TRUE

Step(f, it, s) == IF s = {} THEN 0 ELSE f[First(s)] + it[s \ {First(s)}]

Walk(f, S, it) == it = [s \in SUBSET S |-> Step(f, it, s)]

LEMMA SumIsAWalk ==
  ASSUME NEW f, NEW S
  PROVE  SumFunctionOnSet(f, S) = (CHOOSE it : Walk(f, S, it))[S]
BY DEF SumFunctionOnSet, FoldFunctionOnSet, MapThenFoldSet, Walk, Step, First

LEMMA OneLess ==
  ASSUME NEW s, IsFiniteSet(s), NEW x \in s
  PROVE  /\ IsFiniteSet(s \ {x})
         /\ Cardinality(s \ {x}) \in Nat /\ Cardinality(s) \in Nat
         /\ Cardinality(s) = Cardinality(s \ {x}) + 1
<1>1. IsFiniteSet(s \ {x}) /\ Cardinality(s \ {x}) = Cardinality(s) - 1
  BY FS_RemoveElement
<1>2. Cardinality(s \ {x}) \in Nat /\ Cardinality(s) \in Nat
  BY <1>1, FS_CardinalityType
<1> QED
  BY <1>1, <1>2

LEMMA FirstIsIn ==
  ASSUME NEW s, s # {}
  PROVE  First(s) \in s
BY DEF First

\* There is a walk through the subsets of a finite set ...
LEMMA WalkExists ==
  ASSUME NEW S, IsFiniteSet(S), NEW f, \A x \in S : f[x] \in Int
  PROVE  \E it : Walk(f, S, it)
<1> DEFINE Upto(n, it) == \A s \in SUBSET S : Cardinality(s) <= n => it[s] = Step(f, it, s)
           P == {n \in Nat : \E it : it = [s \in SUBSET S |-> it[s]] /\ Upto(n, it)}
<1>0. \A s \in SUBSET S :
        IsFiniteSet(s) /\ Cardinality(s) \in Nat /\ Cardinality(s) <= Cardinality(S)
  BY FS_Subset, FS_CardinalityType
<1>1. 0 \in P
  <2> DEFINE it == [s \in SUBSET S |-> 0]
  <2>1. \A s \in SUBSET S : Cardinality(s) <= 0 => s = {}
    BY <1>0, FS_EmptySet
  <2>2. Upto(0, it)
    BY <2>1 DEF Step
  <2> QED
    BY <2>2
<1>2. ASSUME NEW n \in Nat, n \in P PROVE n + 1 \in P
  <2>1. PICK it : it = [s \in SUBSET S |-> it[s]] /\ Upto(n, it)
    BY <1>2
  <2> DEFINE next == [s \in SUBSET S |-> Step(f, it, s)]
  <2>2. ASSUME NEW s \in SUBSET S, Cardinality(s) <= n + 1
        PROVE  next[s] = Step(f, next, s)
    <3>1. CASE s = {}
      BY <3>1 DEF Step
    <3>2. CASE s # {}
      <4> DEFINE r == s \ {First(s)}
      <4>1. r \in SUBSET S /\ Cardinality(r) <= n
        BY <1>0, <2>2, <3>2, FirstIsIn, OneLess
      <4>2. next[r] = it[r]
        BY <2>1, <4>1
      <4> QED
        BY <3>2, <4>2 DEF Step
    <3> QED
      BY <3>1, <3>2
  <2> HIDE DEF next
  <2>3. next = [s \in SUBSET S |-> next[s]]
    BY DEF next
  <2>4. Upto(n + 1, next)
    BY <2>2
  <2> HIDE DEF Upto
  <2> QED
    BY <2>3, <2>4
<1> HIDE DEF P
<1>3. Cardinality(S) \in P
  BY <1>0, <1>1, <1>2, Climb
<1>4. PICK it : it = [s \in SUBSET S |-> it[s]] /\ Upto(Cardinality(S), it)
  BY <1>3 DEF P
<1>5. \A s \in SUBSET S : it[s] = Step(f, it, s)
  BY <1>0, <1>4
<1> QED
  BY <1>4, <1>5 DEF Walk

\* ... it is all sums, and two walks agree where they meet.
LEMMA WalksAgree ==
  ASSUME NEW S, IsFiniteSet(S), NEW T \in SUBSET S, NEW f, \A x \in S : f[x] \in Int,
         NEW it, Walk(f, S, it), NEW jt, Walk(f, T, jt)
  PROVE  \A s \in SUBSET T : it[s] = jt[s]
<1> DEFINE P == {n \in Nat : \A s \in SUBSET T : Cardinality(s) <= n => it[s] = jt[s]}
<1>0. \A s \in SUBSET T : IsFiniteSet(s) /\ Cardinality(s) \in Nat
  BY FS_Subset, FS_CardinalityType
<1>1. \A s \in SUBSET T : it[s] = Step(f, it, s) /\ jt[s] = Step(f, jt, s)
  BY DEF Walk
<1>2. 0 \in P
  <2>1. \A s \in SUBSET T : Cardinality(s) <= 0 => s = {}
    BY <1>0, FS_EmptySet
  <2> QED
    BY <1>1, <2>1 DEF Step
<1>3. ASSUME NEW n \in Nat, n \in P PROVE n + 1 \in P
  <2>1. ASSUME NEW s \in SUBSET T, Cardinality(s) <= n + 1 PROVE it[s] = jt[s]
    <3>1. CASE s = {}
      BY <1>1, <3>1 DEF Step
    <3>2. CASE s # {}
      <4> DEFINE r == s \ {First(s)}
      <4>1. r \in SUBSET T /\ Cardinality(r) <= n
        BY <1>0, <2>1, <3>2, FirstIsIn, OneLess
      <4>2. it[r] = jt[r]
        BY <1>3, <4>1
      <4> QED
        BY <1>1, <3>2, <4>2 DEF Step
    <3> QED
      BY <3>1, <3>2
  <2> QED
    BY <2>1
<1> HIDE DEF P
<1>4. Nat \subseteq P
  BY <1>2, <1>3, Climb
<1> QED
  BY <1>0, <1>4 DEF P

\* In whatever order a walk takes the elements.
LEMMA AnyOrder ==
  ASSUME NEW S, IsFiniteSet(S), NEW f, \A x \in S : f[x] \in Int, NEW it, Walk(f, S, it)
  PROVE  \A s \in SUBSET S : it[s] \in Int /\ \A x \in s : it[s] = f[x] + it[s \ {x}]
<1> DEFINE Good(s) == it[s] \in Int /\ \A x \in s : it[s] = f[x] + it[s \ {x}]
           P == {n \in Nat : \A s \in SUBSET S : Cardinality(s) <= n => Good(s)}
<1>0. \A s \in SUBSET S : IsFiniteSet(s) /\ Cardinality(s) \in Nat
  BY FS_Subset, FS_CardinalityType
<1>1. \A s \in SUBSET S : it[s] = Step(f, it, s)
  BY DEF Walk
<1>5. Good({})
  <2>1. it[{}] = 0
    BY <1>1 DEF Step
  <2> QED
    BY <2>1
<1> HIDE DEF Good
<1>2. 0 \in P
  <2>1. \A s \in SUBSET S : Cardinality(s) <= 0 => s = {}
    BY <1>0, FS_EmptySet
  <2> QED
    BY <1>5, <2>1
<1>3. ASSUME NEW n \in Nat, n \in P PROVE n + 1 \in P
  <2>1. ASSUME NEW s \in SUBSET S, Cardinality(s) <= n + 1 PROVE Good(s)
    <3>1. CASE s = {}
      BY <1>5, <3>1
    <3>2. CASE s # {}
      <4> DEFINE p == First(s)
      <4>1. p \in s /\ s \ {p} \in SUBSET S /\ it[s] = f[p] + it[s \ {p}] /\ f[p] \in Int
        BY <1>1, <3>2, FirstIsIn DEF Step
      <4>2. \A x \in s : s \ {x} \in SUBSET S /\ Cardinality(s \ {x}) <= n
        BY <1>0, <2>1, OneLess
      <4>3. \A x \in s : Good(s \ {x})
        BY <1>3, <4>2
      <4> HIDE DEF p
      <4>4. ASSUME NEW x \in s, x # p PROVE it[s] = f[x] + it[s \ {x}]
        <5> DEFINE r == (s \ {p}) \ {x}
        <5>1. it[s \ {p}] = f[x] + it[r]
          BY <4>1, <4>3, <4>4 DEF Good
        <5>2. r = (s \ {x}) \ {p} /\ p \in s \ {x}
          BY <4>1, <4>4
        <5>3. it[s \ {x}] = f[p] + it[r]
          BY <4>3, <5>2 DEF Good
        <5>4. x \in s \ {p} /\ r = (s \ {p}) \ {x} /\ r \in SUBSET S /\ Cardinality(r) <= n
          BY <1>0, <4>1, <4>2, <4>4, OneLess
        <5>5. it[r] \in Int /\ f[x] \in Int
          BY <1>3, <5>4 DEF Good
        <5> HIDE DEF r
        <5> QED
          BY <4>1, <5>1, <5>3, <5>5
      <4>5. it[s] = f[p] + it[s \ {p}] /\ it[s \ {p}] \in Int
        BY <4>1, <4>3 DEF Good
      <4>6. it[s] \in Int
        BY <4>1, <4>5
      <4> QED
        BY <4>4, <4>5, <4>6 DEF Good
    <3> QED
      BY <3>1, <3>2
  <2> QED
    BY <2>1
<1> HIDE DEF P
<1>4. Nat \subseteq P
  BY <1>2, <1>3, Climb
<1> QED
  <2>1. \A s \in SUBSET S : Good(s)
    BY <1>0, <1>4 DEF P
  <2> QED
    BY <2>1 DEF Good

\* What a sum comes to, one element at a time.
LEMMA SumStep ==
  ASSUME NEW S, IsFiniteSet(S), NEW f, \A x \in S : f[x] \in Int
  PROVE  /\ SumFunctionOnSet(f, S) \in Int
         /\ S = {} => SumFunctionOnSet(f, S) = 0
         /\ \A x \in S : SumFunctionOnSet(f, S) = f[x] + SumFunctionOnSet(f, S \ {x})
<1> DEFINE W(T) == CHOOSE it : Walk(f, T, it)
<1>1. \A T \in SUBSET S : Walk(f, T, W(T)) /\ SumFunctionOnSet(f, T) = W(T)[T]
  <2> SUFFICES ASSUME NEW T \in SUBSET S PROVE Walk(f, T, W(T)) /\ SumFunctionOnSet(f, T) = W(T)[T]
    OBVIOUS
  <2>1. \E it : Walk(f, T, it)
    BY WalkExists, FS_Subset
  <2> QED
    BY <2>1, SumIsAWalk
<1> HIDE DEF W
<1>2. W(S)[S] \in Int /\ \A x \in S : W(S)[S] = f[x] + W(S)[S \ {x}]
  BY <1>1, AnyOrder
<1>3. \A x \in S : W(S)[S \ {x}] = W(S \ {x})[S \ {x}]
  BY <1>1, WalksAgree
<1>4. S = {} => W(S)[S] = 0
  BY <1>1 DEF Walk, Step
<1> QED
  BY <1>1, <1>2, <1>3, <1>4

\* A sum over more, of numbers no less where there were some and none of them negative
\* where there were none, is no less.
LEMMA SumGrows ==
  ASSUME NEW S, IsFiniteSet(S), NEW f, \A x \in S : f[x] \in Int,
         NEW T \in SUBSET S, NEW g, \A x \in T : g[x] \in Int /\ g[x] <= f[x],
         \A x \in S \ T : f[x] >= 0
  PROVE  SumFunctionOnSet(g, T) <= SumFunctionOnSet(f, S)
<1> DEFINE Good(s) == SumFunctionOnSet(g, s \cap T) <= SumFunctionOnSet(f, s)
           P == {n \in Nat : \A s \in SUBSET S : Cardinality(s) <= n => Good(s)}
<1>0. \A s \in SUBSET S : IsFiniteSet(s) /\ Cardinality(s) \in Nat
  BY FS_Subset, FS_CardinalityType
<1>8. \A s \in SUBSET S : /\ IsFiniteSet(s \cap T)
                         /\ SumFunctionOnSet(f, s) \in Int
                         /\ SumFunctionOnSet(g, s \cap T) \in Int
  <2> SUFFICES ASSUME NEW s \in SUBSET S
               PROVE  /\ IsFiniteSet(s \cap T)
                      /\ SumFunctionOnSet(f, s) \in Int
                      /\ SumFunctionOnSet(g, s \cap T) \in Int
    OBVIOUS
  <2>1. IsFiniteSet(s) /\ IsFiniteSet(s \cap T)
    BY FS_Subset
  <2>2. \A x \in s \cap T : g[x] \in Int
    OBVIOUS
  <2> QED
    BY <2>1, <2>2, SumStep
<1>1. Good({})
  <2>1. SumFunctionOnSet(f, {}) = 0 /\ SumFunctionOnSet(g, {}) = 0
    BY SumStep, FS_EmptySet
  <2>2. {} \cap T = {}
    OBVIOUS
  <2> QED
    BY <2>1, <2>2
<1>2. ASSUME NEW s \in SUBSET S, NEW x \in s, Good(s \ {x}) PROVE Good(s)
  <2>1. SumFunctionOnSet(f, s) = f[x] + SumFunctionOnSet(f, s \ {x})
    BY <1>0, SumStep
  <2>2. /\ f[x] \in Int /\ (x \in T => g[x] \in Int /\ g[x] <= f[x])
        /\ SumFunctionOnSet(f, s \ {x}) \in Int
        /\ SumFunctionOnSet(g, (s \ {x}) \cap T) \in Int
    BY <1>8
  <2>3. CASE x \in T
    <3>1. (s \ {x}) \cap T = (s \cap T) \ {x} /\ x \in s \cap T /\ \A y \in s \cap T : g[y] \in Int
      BY <2>3
    <3>2. SumFunctionOnSet(g, s \cap T) = g[x] + SumFunctionOnSet(g, (s \ {x}) \cap T)
      <4> DEFINE r == s \cap T
      <4>1. IsFiniteSet(r) /\ x \in r /\ (\A y \in r : g[y] \in Int) /\ (s \ {x}) \cap T = r \ {x}
        BY <1>8, <3>1
      <4> HIDE DEF r
      <4>2. SumFunctionOnSet(g, r) = g[x] + SumFunctionOnSet(g, r \ {x})
        BY <4>1, SumStep
      <4> QED
        BY <4>1, <4>2 DEF r
    <3> QED
      BY <1>2, <2>1, <2>2, <2>3, <3>2
  <2>4. CASE x \notin T
    <3>1. (s \ {x}) \cap T = s \cap T
      BY <2>4
    <3>2. f[x] >= 0
      BY <2>4
    <3>3. SumFunctionOnSet(g, s \cap T) = SumFunctionOnSet(g, (s \ {x}) \cap T)
      BY <3>1
    <3>4. SumFunctionOnSet(g, s \cap T) <= SumFunctionOnSet(f, s \ {x})
      BY <1>2, <3>3
    <3> QED
      BY <2>1, <2>2, <3>2, <3>3, <3>4
  <2> QED
    BY <2>3, <2>4
<1> HIDE DEF Good
<1>3. 0 \in P
  <2>1. \A s \in SUBSET S : Cardinality(s) <= 0 => s = {}
    BY <1>0, FS_EmptySet
  <2> QED
    BY <1>1, <2>1
<1>4. ASSUME NEW n \in Nat, n \in P PROVE n + 1 \in P
  <2>1. ASSUME NEW s \in SUBSET S, Cardinality(s) <= n + 1 PROVE Good(s)
    <3>1. CASE s = {}
      BY <1>1, <3>1
    <3>2. ASSUME NEW x \in s PROVE Good(s)
      <4>1. s \ {x} \in SUBSET S /\ Cardinality(s \ {x}) <= n
        BY <1>0, <2>1, OneLess
      <4> QED
        BY <1>2, <1>4, <4>1
    <3> QED
      BY <3>1, <3>2
  <2> QED
    BY <2>1
<1> HIDE DEF P
<1>5. Nat \subseteq P
  BY <1>3, <1>4, Climb
<1>6. Good(S)
  BY <1>0, <1>5 DEF P
<1>7. S \cap T = T
  OBVIOUS
<1> QED
  BY <1>6, <1>7 DEF Good

-----------------------------------------------------------------------------
(***************************************************************************)
(* The prices underneath                                                   *)
(***************************************************************************)
\* The theorems about PriceHistory are about the prices of this module.
LEMMA SameOperators ==
  /\ History!Rates = Rates /\ History!Revision = Revision /\ History!ModelPrices = ModelPrices
  /\ History!Tables = Tables /\ History!Listings = Listings
  /\ \A f : History!IsFile(f) <=> IsFile(f)
  /\ \A e, t : History!RatesAt(e, t) = RatesAt(e, t)
  /\ \A f : Prices!Canonicalize(f) = History!Canonicalize(f)
<1> USE DEF History!Unstated, Unstated, Prices!Unstated
<1>1. History!Rates = Rates
  BY DEF History!Rates, Rates
<1>2. History!Revision = Revision
  BY <1>1 DEF History!Revision, Revision
<1>3. History!ModelPrices = ModelPrices
  BY <1>1, <1>2 DEF History!ModelPrices, ModelPrices
<1>4. History!Tables = Tables
  BY <1>3 DEF History!Tables, Tables
<1>5. History!Listings = Listings
  BY DEF History!Listings, Listings, History!Listing, Listing
<1>6. \A f : History!IsFile(f) <=> IsFile(f)
  BY <1>3 DEF History!IsFile, IsFile, History!Key, Key
<1>7. \A e, t : History!RatesAt(e, t) = RatesAt(e, t)
  BY DEF History!RatesAt, RatesAt, History!LatestOf, LatestOf, History!Resolve, Resolve,
         History!Latest, Latest, History!InForce, InForce
<1>8. \A f : Prices!Canonicalize(f) = History!Canonicalize(f)
  BY DEF Prices!Canonicalize, History!Canonicalize, Prices!EntryAt, History!EntryAt,
         Prices!Preferred, History!Preferred, Prices!SpellingsOf, History!SpellingsOf,
         Prices!HasRealRates, History!HasRealRates, Prices!Newest, History!Newest,
         Prices!LatestOf, History!LatestOf, Prices!Resolve, History!Resolve,
         Prices!Latest, History!Latest
<1> QED
  BY <1>1, <1>2, <1>3, <1>4, <1>5, <1>6, <1>7, <1>8

LEMMA HistoryAssumed ==
  /\ Claude \subseteq Models /\ 0 \in Spellings /\ Spellings \subseteq Nat
  /\ 0 \in Price /\ Price \subseteq Nat
  /\ Providers \subseteq Nat
  /\ "unstated" \notin TierLists /\ "none" \notin TierLists
  /\ Ahead \in Nat /\ MaxTime \in Nat /\ MaxChanges \in Nat
  /\ HandRates \subseteq History!Rates /\ \A f \in InitialFiles : History!IsFile(f)
  /\ \A u \in Upstreams :
       DOMAIN u \subseteq Providers /\ \A p \in DOMAIN u : u[p] \in History!Listings
BY SameOperators, PriceTableAssumption, PricesAssumption

LEMMA SameSteps ==
  /\ Prices!Init <=> History!Init
  /\ Prices!Next <=> History!Next
  /\ Prices!Saved <=> History!Saved
<1> USE DEF History!Unstated, Prices!Unstated
<1>1. Prices!Init <=> History!Init
  BY DEF Prices!Init, History!Init
<1>2. Prices!Saved <=> History!Saved
  BY DEF Prices!Saved, History!Saved
<1>3. Prices!Edit <=> History!Edit
  BY DEF Prices!Edit, History!Edit, Prices!Typo, History!Typo, Prices!Mend, History!Mend,
         Prices!Pin, History!Pin, Prices!Author, History!Author, Prices!Redate, History!Redate,
         Prices!Discount, History!Discount, Prices!DiscountRevision, History!DiscountRevision,
         Prices!Save, History!Save, Prices!Change, History!Change
<1>4. \A e : Prices!Newest(e) = History!Newest(e)
  BY DEF Prices!Newest, History!Newest, Prices!LatestOf, History!LatestOf,
         Prices!Resolve, History!Resolve, Prices!Latest, History!Latest
<1>5. \A e, n : Prices!Moved(e, n) <=> History!Moved(e, n)
  BY <1>4 DEF Prices!Moved, History!Moved, Prices!RatesDiffer, History!RatesDiffer
<1>6. \A T, F, now : Prices!Merge(T, F, now) = History!Merge(T, F, now)
  <2>1. \A e, n, now : Prices!MergeEntry(e, n, now) = History!MergeEntry(e, n, now)
    BY <1>5 DEF Prices!MergeEntry, History!MergeEntry, Prices!Stated, History!Stated
  <2> QED
    BY <2>1 DEF Prices!Merge, History!Merge
<1>7. \A T, F : Prices!WindowConflicts(T, F) = History!WindowConflicts(T, F)
  BY <1>4, <1>5 DEF Prices!WindowConflicts, History!WindowConflicts
<1>8. \A T : Prices!AsFile(T) = History!AsFile(T)
  BY DEF Prices!AsFile, History!AsFile
<1>9. Prices!Fetched = History!Fetched
  BY DEF Prices!Fetched, History!Fetched, Prices!ParseModelsDev, History!ParseModelsDev,
         Prices!FirstListing, History!FirstListing
<1>10. Prices!ReadTable = History!ReadTable
  BY SameOperators DEF Prices!ReadTable, History!ReadTable
<1>11. Prices!Pull <=> History!Pull
  BY <1>6, <1>7, <1>8, <1>9, <1>10 DEF Prices!Pull, History!Pull
<1>12. Prices!Next <=> History!Next
  BY <1>3, <1>11 DEF Prices!Next, History!Next, Prices!Tick, History!Tick,
                     Prices!Reprice, History!Reprice, Prices!Change, History!Change,
                     Prices!PullRefused, History!PullRefused
<1> QED
  BY <1>1, <1>2, <1>12

\* Calls leave the prices alone but for the time they take, so what holds of the prices
\* alone holds here.
LEMMA PricesLive == Spec => History!Spec
<1>1. Init => History!Init
  BY SameSteps DEF Init
<1>2. [Next]_vars => [History!Next]_(History!vars)
  <2>1. Prices!Tick => Prices!Next
    BY DEF Prices!Next
  <2> QED
    BY <2>1, SameSteps DEF Next, vars, History!vars, Open, Begin, End, priceVars
<1> QED
  BY <1>1, <1>2, PTL DEF Spec, History!Spec

-----------------------------------------------------------------------------
(***************************************************************************)
(* What a call costs                                                       *)
(***************************************************************************)
\* Of some dated revisions there is a last of the latest.
LEMMA LatestIsThere ==
  ASSUME NEW D, D \subseteq Nat \ {0}, D # {}, NEW n \in Nat, \A i \in D : i <= n,
         NEW dated, DOMAIN dated = D, \A i \in D : dated[i].from \in Nat
  PROVE  Latest(dated) \in D
<1>0. ASSUME NEW i \in D
      PROVE  i \in Nat /\ i >= 1 /\ dated[i].from \in Nat
  <2>1. i \in Nat \ {0}
    OBVIOUS
  <2>2. dated[i].from \in Nat
    OBVIOUS
  <2> QED
    BY <2>1, <2>2
<1> DEFINE Upto(k) == {i \in D : i <= k}
           Last(i, k) ==
             \A j \in Upto(k) :
               \/ dated[j].from < dated[i].from
               \/ dated[j].from = dated[i].from /\ j <= i
           P == {k \in Nat : Upto(k) = {} \/ \E i \in Upto(k) : Last(i, k)}
<1>1. 0 \in P
  <2>1. \A i \in D : ~(i <= 0)
    BY <1>0
  <2> QED
    BY <2>1
<1>a. \A k \in Nat : k \in P <=> Upto(k) = {} \/ \E i \in Upto(k) : Last(i, k)
  OBVIOUS
<1> HIDE DEF P
<1>2. ASSUME NEW k \in Nat, k \in P PROVE k + 1 \in P
  <2>1. \A i \in D : i <= k + 1 <=> i <= k \/ i = k + 1
    BY <1>0
  <2>2. CASE k + 1 \notin D
    <3>1. Upto(k + 1) = Upto(k)
      BY <2>1, <2>2
    <3>2. Upto(k) = {} \/ \E i \in Upto(k) : Last(i, k)
      BY <1>2, <1>a
    <3>3. Upto(k + 1) = {} \/ \E i \in Upto(k + 1) : Last(i, k + 1)
      BY <3>1, <3>2
    <3>4. k + 1 \in Nat
      OBVIOUS
    <3> HIDE DEF Upto, Last
    <3> QED
      BY <3>3, <3>4, <1>a
  <2>3. CASE k + 1 \in D
    <3>1. Upto(k + 1) = Upto(k) \cup {k + 1}
      BY <2>1, <2>3
    <3>2. CASE Upto(k) = {}
      <4>1. Last(k + 1, k + 1)
        BY <3>1, <3>2
      <4> QED
        BY <3>1, <4>1, <1>a
    <3>3. ASSUME NEW i \in Upto(k), Last(i, k) PROVE k + 1 \in P
      <4>0. dated[i].from \in Nat /\ dated[k + 1].from \in Nat
        BY <1>0, <2>3
      <4>1. CASE dated[i].from <= dated[k + 1].from
        <5>1. Last(k + 1, k + 1)
          BY <1>0, <2>3, <3>1, <3>3, <4>1
        <5> QED
          BY <3>1, <5>1, <1>a
      <4>2. CASE dated[k + 1].from < dated[i].from
        <5>1. Last(i, k + 1)
          BY <3>1, <3>3, <4>2
        <5> QED
          BY <3>1, <5>1, <1>a
      <4> QED
        BY <4>0, <4>1, <4>2
    <3> QED
      BY <1>2, <1>a, <3>2, <3>3
  <2> QED
    BY <2>2, <2>3
<1>3. n \in P
  BY <1>1, <1>2, Climb
<1>4. Upto(n) = D
  OBVIOUS
<1>5. \E i \in D : \A j \in D :
        \/ dated[j].from < dated[i].from
        \/ dated[j].from = dated[i].from /\ j <= i
  BY <1>3, <1>4 DEF P
<1> QED
  BY <1>5 DEF Latest

\* The rates in force are some prices, whenever they are asked for.
LEMMA RatesTyped ==
  ASSUME NEW e \in ModelPrices, NEW at \in Nat
  PROVE  RatesAt(e, at).plain \in Nat /\ RatesAt(e, at).cache \in Nat
<1> DEFINE D == {j \in DOMAIN e.revisions : e.revisions[j].from <= at}
<1>1. e.base \in Rates /\ e.revisions \in Seq(Revision)
  BY DEF ModelPrices
<1>2. \A r \in Rates : Resolve(e, r).plain \in Nat /\ Resolve(e, r).cache \in Nat
  BY PriceTableAssumption DEF Rates, Resolve, Unstated
<1>3. DOMAIN InForce(e, at) = D /\ \A i \in D : InForce(e, at)[i] = e.revisions[i]
  BY DEF InForce
<1>6. \A i \in D : e.revisions[i].from \in Nat /\ e.revisions[i].rates \in Rates
  <2>1. \A i \in DOMAIN e.revisions : e.revisions[i] \in Revision
    BY <1>1
  <2> QED
    BY <2>1 DEF Revision
<1>4. ASSUME D # {} PROVE Latest(InForce(e, at)) \in D
  <2>1. D \subseteq 1..Len(e.revisions) /\ Len(e.revisions) \in Nat
    BY <1>1
  <2>2. \A i \in D : InForce(e, at)[i].from \in Nat
    BY <1>3, <1>6
  <2>3. D \subseteq Nat \ {0} /\ \A i \in D : i <= Len(e.revisions)
    BY <2>1
  <2> HIDE DEF D
  <2> QED
    BY <1>3, <1>4, <2>1, <2>2, <2>3, LatestIsThere
<1>5. D # {} => InForce(e, at)[Latest(InForce(e, at))].rates \in Rates
  BY <1>3, <1>4, <1>6
<1> QED
  BY <1>1, <1>2, <1>3, <1>5 DEF RatesAt, LatestOf

LEMMA TimesIsNat ==
  ASSUME NEW a \in Nat, NEW b \in Nat
  PROVE  a * b \in Nat
OBVIOUS

\* The highest of the tiers that are exceeded is there: the context bounds them.
LEMMA TierTyped ==
  ASSUME NEW rates, rates.plain \in Nat, rates.cache \in Nat, NEW context \in Nat
  PROVE  TierRates(rates, context).plain \in Nat /\ TierRates(rates, context).cache \in Nat
<1> DEFINE exceeded == Exceeded(rates, context)
           room == {context - t.above : t \in exceeded}
<1>1. \A t \in exceeded : /\ t.above \in Nat /\ context > t.above
                          /\ t.plain \in Nat /\ t.cache \in Nat
  <2>1. \A l \in TierLists : \A t \in Tiers[l] : t.above \in Nat /\ t.plain \in Price /\ t.cache \in Price
    BY CallCostAssumption
  <2> QED
    BY <2>1, PriceTableAssumption DEF Exceeded
<1> HIDE DEF exceeded
<1>2. room \subseteq Nat
  BY <1>1
<1>3. ASSUME exceeded # {}
      PROVE  (CHOOSE t \in exceeded : \A u \in exceeded : u.above <= t.above) \in exceeded
  <2>1. PICK n \in room : \A k \in room : n <= k
    BY <1>2, <1>3, Least
  <2>2. PICK t \in exceeded : n = context - t.above
    BY <2>1
  <2>3. \A u \in exceeded : context - t.above <= context - u.above
    BY <2>1, <2>2
  <2>4. \A u \in exceeded : u.above <= t.above
    <3>1. t.above \in Nat /\ \A u \in exceeded : u.above \in Nat
      BY <1>1
    <3> QED
      BY <2>3, <3>1
  <2> QED
    BY <2>2, <2>4
<1>4. TierRates(rates, context) = rates \/ TierRates(rates, context) \in exceeded
  BY <1>3 DEF TierRates, exceeded
<1> QED
  BY <1>1, <1>4

\* A bill is some number, and none for a call that bore no tokens.
LEMMA BillTyped ==
  ASSUME NEW e \in ModelPrices, NEW u \in Usage, NEW at \in Nat
  PROVE  /\ Bill(e, RatesAt(e, at), u, at) \in Nat
         /\ u.input = 0 /\ u.output = 0 /\ u.read = 0 /\ u.write = 0
              => Bill(e, RatesAt(e, at), u, at) = 0
<1> DEFINE r == RatesAt(e, at)
           tier == TierRates(r, Context(e, u))
           f == IF r.window /\ at \in Discounted THEN 1 ELSE 2
           plain == tier.plain * f
           cache == tier.cache * f
<1>1. u.input \in Nat /\ u.output \in Nat /\ u.read \in Nat /\ u.write \in Nat
  BY DEF Usage
<1>2. Context(e, u) \in Nat /\ NonCachedInput(e, u) \in Nat /\ NonCachedInput(e, u) <= u.input
  BY <1>1 DEF Context, NonCachedInput
<1>3. r.plain \in Nat /\ r.cache \in Nat
  BY RatesTyped
<1>6. Bill(e, RatesAt(e, at), u, at)
        = (NonCachedInput(e, u) + u.output) * plain + (u.read + u.write) * cache
  BY DEF Bill, EffectiveRates
<1> HIDE DEF r
<1>4. tier.plain \in Nat /\ tier.cache \in Nat /\ f \in Nat
  BY <1>2, <1>3, TierTyped
<1> HIDE DEF tier, f
<1>5. plain \in Nat /\ cache \in Nat
  BY <1>4, TimesIsNat
<1> HIDE DEF plain, cache
<1>7. (NonCachedInput(e, u) + u.output) * plain \in Nat /\ (u.read + u.write) * cache \in Nat
  BY <1>1, <1>2, <1>5, TimesIsNat
<1>8. ASSUME u.input = 0, u.output = 0, u.read = 0, u.write = 0
      PROVE  Bill(e, RatesAt(e, at), u, at) = 0
  <2>1. NonCachedInput(e, u) + u.output = 0 /\ u.read + u.write = 0
    BY <1>2, <1>8
  <2> QED
    BY <1>5, <1>6, <2>1
<1> QED
  BY <1>6, <1>7, <1>8

\* A call costs something definite or nothing definite.
LEMMA CostTyped ==
  ASSUME NEW T \in Tables, NEW c \in Metered, NEW at \in Nat
  PROVE  /\ c.model \in Called /\ c.usage \in Usage /\ c.stored \in Nat \cup {Unknown}
         /\ CallCost(T, c, at) \in Nat \cup {Unknown}
<1>1. c.model \in Called /\ c.usage \in Usage /\ c.stored \in Nat \cup {Unknown}
  BY BudgetAssumption
<1>2. Unpriced(c.usage) \in Nat \cup {Unknown}
  BY DEF Unpriced
<1>3. ASSUME Lookup(T, c.model) # {}
      PROVE  (CHOOSE b \in Compute(T, c.model, c.usage, at) : TRUE) \in Nat
  <2>1. PICK e : e \in Lookup(T, c.model)
    BY <1>3
  <2>2. \A n \in DOMAIN T : T[n] \in ModelPrices
    BY DEF Tables
  <2>3. Lookup(T, c.model) \subseteq ModelPrices
    BY <2>2 DEF Lookup, Longest, Named
  <2>4. Compute(T, c.model, c.usage, at) \subseteq Nat
    BY <1>1, <2>3, BillTyped DEF Compute
  <2>5. Compute(T, c.model, c.usage, at) # {}
    BY <2>1 DEF Compute
  <2> QED
    BY <2>4, <2>5
<1> QED
  BY <1>1, <1>2, <1>3 DEF CallCost

\* With no price, or with the cost the provider gave, a known cost is no less by any table,
\* and the same unless the call bears cached tokens alone.
LEMMA KnownWithoutPrice ==
  ASSUME NEW c \in Metered, NEW at \in Nat,
         NEW S, c.stored # Unknown \/ Lookup(S, c.model) = {}, CallCost(S, c, at) # Unknown,
         NEW T \in Tables
  PROVE  /\ CallCost(T, c, at) \in Nat /\ CallCost(S, c, at) <= CallCost(T, c, at)
         /\ ~CachedAlone(c) => CallCost(T, c, at) = CallCost(S, c, at)
<1>1. c.usage \in Usage /\ c.stored \in Nat \cup {Unknown}
  BY CostTyped
<1>2. CASE c.stored # Unknown
  BY <1>1, <1>2 DEF CallCost
<1>3. CASE c.stored = Unknown /\ Lookup(S, c.model) = {}
  <2> DEFINE u == c.usage
  <2>1. u.input \in Nat /\ u.output \in Nat /\ u.read \in Nat /\ u.write \in Nat
    BY <1>1 DEF Usage
  <2>2. CallCost(S, c, at) = Unpriced(u)
    BY <1>3 DEF CallCost
  <2>3. u.input = 0 /\ u.output = 0 /\ Unpriced(u) = 0
    BY <2>1, <2>2 DEF Unpriced
  <2>4. ~CachedAlone(c) => u.read = 0 /\ u.write = 0
    BY <1>3, <2>1, <2>3 DEF CachedAlone
  <2>5. CASE Lookup(T, c.model) = {}
    BY <1>3, <2>2, <2>3, <2>5 DEF CallCost
  <2>6. CASE Lookup(T, c.model) # {}
    <3>1. \A n \in DOMAIN T : T[n] \in ModelPrices
      BY DEF Tables
    <3>2. Lookup(T, c.model) \subseteq ModelPrices
      BY <3>1 DEF Lookup, Longest, Named
    <3>3. \A b \in Compute(T, c.model, u, at) : b \in Nat /\ (~CachedAlone(c) => b = 0)
      BY <1>1, <2>3, <2>4, <3>2, BillTyped DEF Compute
    <3>4. Compute(T, c.model, u, at) # {}
      BY <2>6 DEF Compute
    <3> DEFINE b == CHOOSE b \in Compute(T, c.model, u, at) : TRUE
    <3>5. b \in Nat /\ (~CachedAlone(c) => b = 0)
      BY <3>3, <3>4
    <3>6. CallCost(T, c, at) = b
      BY <1>3, <2>6 DEF CallCost
    <3> HIDE DEF b
    <3> QED
      BY <2>2, <2>3, <3>5, <3>6
  <2> QED
    BY <2>5, <2>6
<1> QED
  BY <1>2, <1>3

\* No two entries have the longest of the names that a call's starts with.
LEMMA OneEntry ==
  ASSUME NEW T \in Tables, NEW m \in Called, NEW n \in Longest(T, m)
  PROVE  Lookup(T, m) = {T[n]} /\ T[n] \in ModelPrices
<1>1. PICK M \in SUBSET Models : T \in [M -> ModelPrices]
  BY DEF Tables
<1>2. \A k \in Longest(T, m) : k \in Models /\ k \in Prefixes[n] /\ n \in Prefixes[k]
  BY <1>1 DEF Longest, Named
<1>3. Longest(T, m) = {n}
  BY <1>2, CallCostAssumption
<1> QED
  BY <1>1, <1>3 DEF Lookup, Longest, Named

\* A call costs the same by a table where the entry that prices it is the same.
LEMMA KnownCostStays ==
  ASSUME NEW c \in Metered, NEW at \in Nat, NEW S \in Tables, NEW T \in Tables,
         NEW n \in Longest(S, c.model), n \in Longest(T, c.model),
         T[n].cache_in_input = S[n].cache_in_input, RatesAt(T[n], at) = RatesAt(S[n], at)
  PROVE  CallCost(T, c, at) = CallCost(S, c, at)
<1> DEFINE m == c.model
<1>1. m \in Called
  BY CostTyped
<1>2. Lookup(S, m) = {S[n]} /\ Lookup(T, m) = {T[n]}
  BY <1>1, OneEntry
<1>3. Bill(T[n], RatesAt(T[n], at), c.usage, at) = Bill(S[n], RatesAt(S[n], at), c.usage, at)
  BY DEF Bill, Context, NonCachedInput
<1>4. Compute(T, m, c.usage, at) = Compute(S, m, c.usage, at)
  BY <1>2, <1>3 DEF Compute
<1> QED
  BY <1>2, <1>4 DEF CallCost

-----------------------------------------------------------------------------
(***************************************************************************)
(* The answer                                                              *)
(***************************************************************************)
Missing(costs, W) == {i \in W : costs[i] = Unknown}

Spent(costs, W) == SumFunctionOnSet(costs, W \ Missing(costs, W))

\* More calls, or more costs known, never take a sum down.
LEMMA SpentGrows ==
  ASSUME NEW W, IsFiniteSet(W), NEW V \in SUBSET W, NEW f, NEW g,
         \A i \in W : g[i] \in Nat \cup {Unknown},
         \A i \in V : f[i] = Unknown \/ (f[i] \in Int /\ g[i] # Unknown /\ f[i] <= g[i])
  PROVE  Spent(f, V) \in Int /\ Spent(g, W) \in Int /\ Spent(f, V) <= Spent(g, W)
<1> DEFINE A == V \ Missing(f, V)
           B == W \ Missing(g, W)
<1>1. A \in SUBSET B
  BY DEF Missing
<1>2. IsFiniteSet(B) /\ \A i \in B : g[i] \in Int /\ g[i] >= 0
  BY FS_Subset DEF Missing, Unknown
<1>3. \A i \in A : f[i] \in Int /\ f[i] <= g[i]
  BY DEF Missing
<1>4. IsFiniteSet(A) /\ \A i \in A : f[i] \in Int
  BY <1>1, <1>2, <1>3, FS_Subset
<1> HIDE DEF A, B
<1>5. SumFunctionOnSet(f, A) <= SumFunctionOnSet(g, B)
  BY <1>1, <1>2, <1>3, SumGrows
<1>6. SumFunctionOnSet(f, A) \in Int /\ SumFunctionOnSet(g, B) \in Int
  BY <1>2, <1>4, SumStep
<1> QED
  BY <1>5, <1>6 DEF Spent, A, B

LEMMA AnswerIs ==
  ASSUME NEW costs, NEW bound, NEW budget
  PROVE  Answer(costs, bound, budget)
           = Classify(Spent(costs, Window(bound)), budget, Missing(costs, Window(bound)))
BY DEF Answer, Spent, Missing

LEMMA ElementOfSeq ==
  ASSUME NEW S, NEW s \in Seq(S), NEW i \in DOMAIN s
  PROVE  s[i] \in S
OBVIOUS

\* Calls began before now, and a row has the time its call began.
CallsInv ==
  /\ calls \in Seq(Call)
  /\ \A i \in DOMAIN calls : calls[i].began < clock /\ calls[i].ts \in {NotYet, calls[i].began}

BudgetInv == CallsInv /\ History!TypeOK

\* What is so of every call.
LEMMA CallIs ==
  ASSUME CallsInv, NEW i \in DOMAIN calls
  PROVE  /\ calls[i] \in Call /\ calls[i].metered \in Metered /\ calls[i].began \in Nat
         /\ calls[i].began < clock /\ calls[i].ts \in {NotYet, calls[i].began}
         /\ PricedAt(calls[i]) = calls[i].began
<1>1. calls[i] \in Call
  BY ElementOfSeq DEF CallsInv
<1> QED
  BY <1>1 DEF Call, CallsInv, PricedAt

\* A step adds calls and ends some; it changes nothing else of those there are.
LEMMA CallsStay ==
  ASSUME CallsInv, [Next]_vars, NEW i \in DOMAIN calls
  PROVE  /\ i \in DOMAIN calls' /\ calls'[i].metered = calls[i].metered
         /\ PricedAt(calls'[i]) = PricedAt(calls[i])
         /\ calls[i].ts # NotYet => calls'[i].ts = calls[i].ts
<1>0. calls \in Seq(Call) /\ calls[i] \in Call
  BY CallIs DEF CallsInv
<1>1. CASE calls' = calls
  BY <1>1
<1>2. ASSUME NEW c \in Metered, Begin(c) PROVE i \in DOMAIN calls' /\ calls'[i] = calls[i]
  <2> DEFINE call == [metered |-> c, began |-> clock, ts |-> NotYet]
  <2>1. calls' = Append(calls, call)
    BY <1>2 DEF Begin
  <2> HIDE DEF call
  <2> QED
    BY <1>0, <2>1
<1>3. ASSUME NEW j \in DOMAIN calls, End(j)
      PROVE  /\ i \in DOMAIN calls' /\ calls'[i].metered = calls[i].metered
             /\ PricedAt(calls'[i]) = PricedAt(calls[i])
             /\ calls[i].ts # NotYet => calls'[i].ts = calls[i].ts
  <2> DEFINE call == [calls[j] EXCEPT !.ts = calls[j].began]
  <2>1. calls' = [calls EXCEPT ![j] = call] /\ calls[j].ts = NotYet
    BY <1>3 DEF End
  <2>2. /\ call.ts = calls[j].began /\ call.metered = calls[j].metered
        /\ call.began = calls[j].began /\ calls[j].began \in Nat
    BY CallIs DEF Call
  <2>3. PricedAt(call) = PricedAt(calls[j])
    BY <2>1, <2>2 DEF PricedAt, NotYet
  <2> HIDE DEF call
  <2>4. CASE i = j
    BY <2>1, <2>2, <2>3, <2>4
  <2>5. CASE i # j
    BY <2>1, <2>5
  <2> QED
    BY <2>4, <2>5
<1> QED
  BY <1>1, <1>2, <1>3 DEF Next, Open, vars

LEMMA BudgetInvariance == Spec => []BudgetInv
<1>1. Init => CallsInv
  BY DEF Init, CallsInv
<1>2. BudgetInv /\ [Next]_vars => CallsInv'
  <2> SUFFICES ASSUME BudgetInv, [Next]_vars PROVE CallsInv'
    OBVIOUS
  <2>0. clock \in Nat /\ calls \in Seq(Call) /\ \A i \in DOMAIN calls :
          calls[i].began \in Nat /\ calls[i].began < clock
          /\ calls[i].ts \in {NotYet, calls[i].began}
    BY CallIs DEF BudgetInv, CallsInv, History!TypeOK
  <2>1. ASSUME NEW c \in Metered, Begin(c) PROVE CallsInv'
    <3> DEFINE call == [metered |-> c, began |-> clock, ts |-> NotYet]
    <3>1. call \in Call /\ call.began < clock' /\ call.ts = NotYet /\ clock' = clock + 1
      BY <2>0, <2>1 DEF Begin, Prices!Tick, Call
    <3>2. calls' = Append(calls, call)
      BY <2>1 DEF Begin
    <3> HIDE DEF call
    <3>3. calls' \in Seq(Call)
      BY <2>0, <3>1, <3>2
    <3>4. ASSUME NEW i \in DOMAIN calls'
          PROVE  calls'[i].began < clock' /\ calls'[i].ts \in {NotYet, calls'[i].began}
      <4>1. calls'[i] = call \/ (i \in DOMAIN calls /\ calls'[i] = calls[i])
        BY <2>0, <3>1, <3>2
      <4>2. CASE calls'[i] = call
        BY <3>1, <4>2
      <4>3. CASE i \in DOMAIN calls /\ calls'[i] = calls[i]
        <5>1. calls[i].began < clock + 1
          BY <2>0, <4>3
        <5> QED
          BY <2>0, <3>1, <4>3, <5>1
      <4> QED
        BY <4>1, <4>2, <4>3
    <3> QED
      BY <3>3, <3>4 DEF CallsInv
  <2>2. ASSUME NEW j \in DOMAIN calls, End(j) PROVE CallsInv'
    <3> DEFINE call == [calls[j] EXCEPT !.ts = calls[j].began]
    <3>1. calls' = [calls EXCEPT ![j] = call] /\ clock' = clock
      BY <2>2 DEF End, priceVars
    <3>2. call \in Call /\ call.ts = calls[j].began /\ call.began = calls[j].began
      BY CallIs DEF BudgetInv, Call
    <3> HIDE DEF call
    <3>3. calls' \in Seq(Call) /\ DOMAIN calls' = DOMAIN calls
      BY <2>0, <3>1, <3>2
    <3>4. ASSUME NEW i \in DOMAIN calls
          PROVE  calls'[i].began < clock' /\ calls'[i].ts \in {NotYet, calls'[i].began}
      <4>1. CASE i = j
        BY <2>0, <3>1, <3>2, <4>1
      <4>2. CASE i # j
        BY <2>0, <3>1, <4>2
      <4> QED
        BY <4>1, <4>2
    <3> QED
      BY <3>3, <3>4 DEF CallsInv
  <2>3. CASE calls' = calls
    <3>1. clock' = clock \/ clock' = clock + 1
      BY DEF Next, Open, Begin, End, vars, priceVars, Prices!Next, Prices!Tick, Prices!Reprice,
             Prices!Pull, Prices!PullRefused, Prices!Edit, Prices!Typo, Prices!Mend,
             Prices!Pin, Prices!Author, Prices!Redate, Prices!Discount,
             Prices!DiscountRevision, Prices!Save
    <3> QED
      BY <2>0, <2>3, <3>1 DEF CallsInv
  <2> QED
    BY <2>1, <2>2, <2>3 DEF Next, Open, vars
<1>3. Spec => []History!TypeOK
  BY HistoryAssumed, History!TypeCorrect, PricesLive
<1> QED
  BY <1>1, <1>2, <1>3, PTL DEF Spec, BudgetInv

LEMMA TablesTyped ==
  ASSUME History!TypeOK
  PROVE  /\ Prices!Table \in Tables /\ Loaded \in Tables
         /\ Prices!Table = History!Table
         /\ \A m \in Called : malformed => Lookup(Loaded, m) = {}
<1>1. History!IsFile(file)
  BY DEF History!TypeOK
<1>2. History!Canonicalize(file) \in Tables
  BY <1>1, HistoryAssumed, SameOperators, History!CanonicalizeTyped
<1>3. [m \in {} |-> {}] \in Tables
  BY DEF Tables
<1>4. \A m \in Called : Lookup([k \in {} |-> {}], m) = {}
  BY DEF Lookup, Longest, Named
<1> QED
  BY <1>2, <1>3, <1>4, SameOperators DEF Prices!Table, History!Table, Loaded

\* A call is one that may be, and costs something definite or nothing definite.
LEMMA CallsTyped ==
  ASSUME CallsInv, NEW i \in DOMAIN calls, NEW T \in Tables
  PROVE  /\ calls[i].metered \in Metered /\ PricedAt(calls[i]) \in Nat
         /\ PricedAt(calls[i]) < clock
         /\ Costs(T)[i] = CallCost(T, calls[i].metered, PricedAt(calls[i]))
         /\ Costs(T)[i] \in Nat \cup {Unknown}
<1>1. calls[i].metered \in Metered /\ PricedAt(calls[i]) \in Nat /\ PricedAt(calls[i]) < clock
  BY CallIs
<1> QED
  BY <1>1, CostTyped DEF Costs

LEMMA WindowFinite ==
  ASSUME CallsInv, NEW bound
  PROVE  Window(bound) \subseteq DOMAIN calls /\ IsFiniteSet(Window(bound))
<1>1. DOMAIN calls = 1..Len(calls) /\ Len(calls) \in Nat
  BY DEF CallsInv
<1>2. IsFiniteSet(DOMAIN calls)
  BY <1>1, FS_Interval
<1> QED
  BY <1>2, FS_Subset DEF Window

\* `Under' is vouched for: it needs no price that a table that does not parse would have
\* given (sum_spend, classify; call_cost).
THEOREM TypoTheorem == Spec => []TypoHidesNoSpend
<1>1. BudgetInv => TypoHidesNoSpend
  <2> SUFFICES ASSUME BudgetInv, NEW q \in (0..MaxTime) \X Budgets, Answers(Loaded)[q] = "under",
                      \A i \in Window(q[1]) : ~CachedAlone(calls[i].metered)
               PROVE  Answers(Prices!Table)[q] # "over"
    BY DEF TypoHidesNoSpend, Answers
  <2> DEFINE W == Window(q[1])
             f == Costs(Loaded)
             g == Costs(Prices!Table)
  <2>1. Classify(Spent(f, W), q[2], Missing(f, W)) = "under"
    BY AnswerIs DEF Answers
  <2>2. Answers(Prices!Table)[q] = Classify(Spent(g, W), q[2], Missing(g, W))
    BY AnswerIs DEF Answers
  <2>3. W \subseteq DOMAIN calls /\ IsFiniteSet(W)
    BY WindowFinite DEF BudgetInv
  <2>4. Prices!Table \in Tables /\ Loaded \in Tables
    BY TablesTyped DEF BudgetInv
  <2>5. \A i \in W : f[i] \in Nat /\ f[i] # Unknown /\ g[i] = f[i]
    <3> SUFFICES ASSUME NEW i \in W
                 PROVE  f[i] \in Nat /\ f[i] # Unknown /\ g[i] = f[i]
      OBVIOUS
    <3>1. f[i] # Unknown
      BY <2>1 DEF Classify, Missing
    <3>2. f[i] \in Nat
      BY <2>3, <2>4, <3>1, CallsTyped DEF BudgetInv
    <3>3. CASE ~malformed
      BY <3>1, <3>2, <3>3 DEF Loaded
    <3>4. CASE malformed
      <4> DEFINE c == calls[i].metered
                 at == PricedAt(calls[i])
      <4>1. /\ c \in Metered /\ at \in Nat
            /\ f[i] = CallCost(Loaded, c, at) /\ g[i] = CallCost(Prices!Table, c, at)
        BY <2>3, <2>4, CallsTyped DEF BudgetInv
      <4>2. Lookup(Loaded, c.model) = {}
        BY <2>4, <3>4, <4>1, CostTyped, TablesTyped DEF BudgetInv
      <4>3. ~CachedAlone(c)
        OBVIOUS
      <4> HIDE DEF c, at
      <4> QED
        BY <2>4, <3>1, <3>2, <4>1, <4>2, <4>3, KnownWithoutPrice
    <3> QED
      BY <3>3, <3>4
  <2>6. Missing(f, W) = {} /\ Missing(g, W) = {}
    BY <2>5 DEF Missing
  <2> HIDE DEF W, f, g
  <2>7. Spent(g, W) <= Spent(f, W) /\ Spent(g, W) \in Int /\ Spent(f, W) \in Int
    BY <2>3, <2>5, SpentGrows
  <2>8. q[2] \in Nat /\ ~(Spent(f, W) >= q[2])
    <3>1. q[2] \in Nat
      BY BudgetAssumption
    <3>2. ~(Spent(f, W) >= q[2])
      BY <2>1 DEF Classify
    <3> QED
      BY <3>1, <3>2
  <2> QED
    BY <2>2, <2>6, <2>7, <2>8 DEF Classify
<1> QED
  BY <1>1, BudgetInvariance, PTL

-----------------------------------------------------------------------------
(***************************************************************************)
(* Pulls                                                                   *)
(***************************************************************************)
\* The program saves in a pull.
LEMMA SavedIsAPull ==
  ASSUME BudgetInv, [Next]_vars, Prices!Saved
  PROVE  History!Pull /\ calls' = calls
<1>1. file' # file /\ History!Saved
  BY SameSteps DEF Prices!Saved
<1>2. Prices!Next /\ calls' = calls
  BY <1>1 DEF Next, Open, Begin, End, Prices!Tick, priceVars, vars
<1>3. History!TypeOK /\ [History!Next]_(History!vars)
  BY <1>2, SameSteps DEF BudgetInv
<1> QED
  BY <1>1, <1>2, <1>3, HistoryAssumed, History!OnlyPullSaves

\* A pull leaves a call's known cost, unless its entry is another one now; and takes it down
\* in no other case.
LEMMA PullKeepsCosts ==
  ASSUME BudgetInv, BudgetInv', History!Pull, calls' = calls,
         NEW i \in DOMAIN calls, Costs(Prices!Table)[i] # Unknown,
         ~Recast(calls[i].metered)
  PROVE  /\ Costs(Prices!Table)'[i] \in Nat
         /\ Costs(Prices!Table)[i] <= Costs(Prices!Table)'[i]
         /\ \/ Costs(Prices!Table)'[i] = Costs(Prices!Table)[i]
            \/ /\ CachedAlone(calls[i].metered)
               /\ Longest(Prices!Table, calls[i].metered.model) = {}
<1> DEFINE S == Prices!Table
           T == Prices!Table'
           c == calls[i].metered
           at == PricedAt(calls[i])
<1>1. S = History!Table /\ T = History!Table'
  BY SameOperators DEF Prices!Table, History!Table
<1>2. IsFile(file) /\ IsFile(file') /\ History!TypeOK /\ clock \in Nat
  BY SameOperators DEF BudgetInv, History!TypeOK
<1>3. S \in Tables /\ T \in Tables
  BY <1>2, HistoryAssumed, SameOperators, History!CanonicalizeTyped DEF Prices!Table
<1>4. /\ c \in Metered /\ at \in Nat /\ at < clock
      /\ Costs(S)[i] = CallCost(S, c, at) /\ Costs(S)[i] \in Nat \cup {Unknown}
  BY <1>3, CallsTyped DEF BudgetInv
<1>5. Costs(Prices!Table)'[i] = CallCost(T, c, at)
  BY DEF Costs
<1>6. ASSUME NEW m \in DOMAIN S PROVE RatesAt(T[m], at) = RatesAt(S[m], at)
  <2>1. /\ m \in DOMAIN T
        /\ S[m] \in ModelPrices /\ T[m] \in ModelPrices
        /\ T[m].base = S[m].base
        /\ \/ T[m].revisions = S[m].revisions
           \/ \E r \in Revision : r.from = clock /\ T[m].revisions = Append(S[m].revisions, r)
    BY <1>1, <1>2, HistoryAssumed, SameOperators, History!PullKeeps
  <2> QED
    BY <1>2, <1>4, <2>1, HistoryAssumed, SameOperators, History!PastRatesStay
<1>7. /\ ~Recast(c) /\ CallCost(S, c, at) # Unknown
      /\ c.stored # Unknown
           \/ \A n \in Longest(S, c.model) : /\ n \in Longest(T, c.model)
                                             /\ T[n].cache_in_input = S[n].cache_in_input
  BY <1>4 DEF Recast
<1> HIDE DEF S, T, c, at
<1>8. CASE c.stored # Unknown
  <2>1. ~CachedAlone(c)
    BY <1>8 DEF CachedAlone
  <2> QED
    BY <1>3, <1>4, <1>5, <1>7, <1>8, <2>1, KnownWithoutPrice DEF S, c
<1>9. CASE Longest(S, c.model) = {}
  <2>1. Lookup(S, c.model) = {}
    BY <1>9 DEF Lookup
  <2> QED
    BY <1>3, <1>4, <1>5, <1>7, <1>9, <2>1, KnownWithoutPrice DEF S, c
<1>10. ASSUME c.stored = Unknown, NEW n \in Longest(S, c.model) PROVE CallCost(T, c, at) = CallCost(S, c, at)
  <2>1. n \in DOMAIN S
    BY DEF Longest, Named
  <2>2. RatesAt(T[n], at) = RatesAt(S[n], at)
    BY <1>6, <2>1
  <2> QED
    BY <1>3, <1>4, <1>7, <1>10, <2>2, KnownCostStays
<1> QED
  BY <1>4, <1>5, <1>7, <1>8, <1>9, <1>10 DEF S, Unknown

\* With the file as it is, a call costs what it did.
LEMMA CostsStay ==
  ASSUME BudgetInv, [Next]_vars, file' = file, NEW i \in DOMAIN calls
  PROVE  Costs(Prices!Table)'[i] = Costs(Prices!Table)[i]
<1>1. Prices!Table' = Prices!Table
  BY DEF Prices!Table
<1>2. /\ i \in DOMAIN calls' /\ calls'[i].metered = calls[i].metered
      /\ PricedAt(calls'[i]) = PricedAt(calls[i])
  BY CallsStay DEF BudgetInv
<1>3. Costs(Prices!Table)'[i] = CallCost(Prices!Table', calls'[i].metered, PricedAt(calls'[i]))
  BY <1>2 DEF Costs, PricedAt
<1> QED
  BY <1>1, <1>2, <1>3 DEF Costs

\* A known cost stays through every pull (merge, lookup, call_cost), and through the end of
\* the call (insert_call).
THEOREM PastTheorem == Spec => PastCostsStay
<1> DEFINE Stay == [ Unattended =>
                       LET before == Costs(Prices!Table)
                           after  == Costs(Prices!Table)'
                       IN  \A i \in DOMAIN calls :
                             \/ before[i] = Unknown \/ after[i] = before[i]
                             \/ Recast(calls[i].metered)
                             \/ /\ CachedAlone(calls[i].metered)
                                /\ Longest(Prices!Table, calls[i].metered.model) = {} ]_vars
<1>1. BudgetInv /\ BudgetInv' /\ [Next]_vars => Stay
  <2> SUFFICES ASSUME BudgetInv, BudgetInv', [Next]_vars, Unattended, NEW i \in DOMAIN calls,
                      Costs(Prices!Table)[i] # Unknown, ~Recast(calls[i].metered)
               PROVE  \/ Costs(Prices!Table)'[i] = Costs(Prices!Table)[i]
                      \/ /\ CachedAlone(calls[i].metered)
                         /\ Longest(Prices!Table, calls[i].metered.model) = {}
    OBVIOUS
  <2>1. CASE file' = file
    BY <2>1, CostsStay
  <2>2. CASE Prices!Saved
    BY <2>2, SavedIsAPull, PullKeepsCosts
  <2> QED
    BY <2>1, <2>2 DEF Unattended
<1> QED
  BY <1>1, BudgetInvariance, PTL DEF Spec, PastCostsStay

-----------------------------------------------------------------------------
(***************************************************************************)
(* A budget that is exceeded                                               *)
(***************************************************************************)
\* What every answer is read from.
Readings ==
  /\ Loaded \in Tables
  /\ \A bound \in 0..MaxTime : Window(bound) \subseteq DOMAIN calls /\ IsFiniteSet(Window(bound))
  /\ \A i \in DOMAIN calls : Costs(Loaded)[i] \in Nat \cup {Unknown}

LEMMA ReadingsHold == BudgetInv => Readings
BY TablesTyped, WindowFinite, CallsTyped DEF BudgetInv, Readings

LEMMA OverIs ==
  ASSUME NEW q \in (0..MaxTime) \X Budgets
  PROVE  /\ Answers(Loaded)[q] = "over" <=> Spent(Costs(Loaded), Window(q[1])) >= q[2]
         /\ Answers(Loaded)'[q] = "over" <=> Spent(Costs(Loaded)', Window(q[1])') >= q[2]
<1>1. Answers(Loaded)[q] = "over" <=> Spent(Costs(Loaded), Window(q[1])) >= q[2]
  BY AnswerIs DEF Answers, Classify
<1>2. Answers(Loaded)'[q] = "over" <=> Spent(Costs(Loaded)', Window(q[1])') >= q[2]
  <2> DEFINE g == Costs(Loaded)'
             W == Window(q[1])'
  <2>1. Answers(Loaded)'[q] = Answer(Costs(Loaded), q[1], q[2])'
    BY DEF Answers
  <2>2. Answer(Costs(Loaded), q[1], q[2])' = "over"
          <=> SumFunctionOnSet(g, W \ {i \in W : g[i] = Unknown}) >= q[2]
    BY DEF Answer, Classify
  <2> QED
    BY <2>1, <2>2 DEF Spent, Missing
<1> QED
  BY <1>1, <1>2

\* No step takes a call out of a window.
LEMMA WindowGrows ==
  ASSUME BudgetInv, [Next]_vars, NEW bound
  PROVE  Window(bound) \subseteq Window(bound)'
<1> SUFFICES ASSUME NEW i \in Window(bound) PROVE i \in Window(bound)'
  OBVIOUS
<1>1. i \in DOMAIN calls /\ calls[i].ts # NotYet /\ AtOrAfter(calls[i].ts, bound)
  BY DEF Window
<1>2. i \in DOMAIN calls' /\ calls'[i].ts = calls[i].ts
  BY <1>1, CallsStay DEF BudgetInv
<1> QED
  BY <1>1, <1>2 DEF Window

\* It is enough that what is known of the calls in a window stays known and does not fall.
LEMMA OverStays ==
  ASSUME Readings, Readings', NEW q \in (0..MaxTime) \X Budgets,
         Window(q[1]) \subseteq Window(q[1])',
         \A i \in Window(q[1]) :
           \/ Costs(Loaded)[i] = Unknown
           \/ Costs(Loaded)'[i] # Unknown /\ Costs(Loaded)[i] <= Costs(Loaded)'[i],
         Answers(Loaded)[q] = "over"
  PROVE  Answers(Loaded)'[q] = "over"
<1> DEFINE V == Window(q[1])
           W == Window(q[1])'
           f == Costs(Loaded)
           g == Costs(Loaded)'
<1>1. IsFiniteSet(W) /\ V \in SUBSET W /\ \A i \in W : g[i] \in Nat \cup {Unknown}
  BY DEF Readings
<1>2. \A i \in V : f[i] = Unknown \/ (f[i] \in Int /\ g[i] # Unknown /\ f[i] <= g[i])
  BY DEF Readings
<1>3. Spent(f, V) >= q[2] /\ q[2] \in Nat
  BY OverIs, BudgetAssumption
<1>4. (Spent(g, W) >= q[2]) => Answers(Loaded)'[q] = "over"
  BY OverIs
<1> HIDE DEF V, W, f, g
<1>5. Spent(f, V) \in Int /\ Spent(g, W) \in Int /\ Spent(f, V) <= Spent(g, W)
  BY <1>1, <1>2, SpentGrows
<1> QED
  BY <1>3, <1>4, <1>5

\* A typo hides no known cost, and what it hides is missed.
LEMMA OverWithATypo ==
  ASSUME BudgetInv, Readings, Readings', malformed', calls' = calls,
         NEW q \in (0..MaxTime) \X Budgets, Answers(Loaded)[q] = "over",
         \A i \in Window(q[1]) : ~CachedAlone(calls[i].metered)
  PROVE  Answers(Loaded)'[q] \in {"over", "unknown"}
<1> DEFINE W == Window(q[1])
           f == Costs(Loaded)
           g == Costs(Loaded)'
<1>1. Window(q[1])' = W /\ W \subseteq DOMAIN calls
  BY DEF Window, Readings
<1>2. CASE \E i \in W : g[i] = Unknown
  <2>1. Answers(Loaded)'[q] = Answer(Costs(Loaded), q[1], q[2])'
    BY DEF Answers
  <2>2. {i \in Window(q[1])' : g[i] = Unknown} # {}
    BY <1>1, <1>2
  <2> QED
    BY <2>1, <2>2 DEF Answer, Classify
<1>3. CASE \A i \in W : g[i] # Unknown
  <2>1. ASSUME NEW i \in W PROVE g[i] = f[i] /\ g[i] \in Nat
    <3> DEFINE c == calls[i].metered
               at == PricedAt(calls[i])
    <3>1. c \in Metered /\ at \in Nat /\ f[i] = CallCost(Loaded, c, at)
      BY <1>1, CallsTyped DEF BudgetInv, Readings
    <3>2. Loaded' = [m \in {} |-> {}] /\ Lookup(Loaded', c.model) = {}
      BY DEF Loaded, Lookup, Longest, Named
    <3>3. g[i] = CallCost(Loaded', c, at)
      BY <1>1 DEF Costs
    <3>4. Loaded \in Tables /\ ~CachedAlone(c)
      BY DEF Readings
    <3> HIDE DEF c, at
    <3> QED
      BY <1>3, <3>1, <3>2, <3>3, <3>4, KnownWithoutPrice
  <2>2. ASSUME NEW i \in W PROVE f[i] <= g[i] /\ g[i] # Unknown
    BY <1>3, <2>1
  <2> QED
    BY <1>1, <2>2, OverStays
<1> QED
  BY <1>2, <1>3

\* Known spend at the ceiling decides, whatever is recorded, pulled or mistyped later
\* (classify, sum_spend, merge).
THEOREM OverTheorem == Spec => OverIsDecisive
<1> DEFINE Inv == BudgetInv /\ Readings
           Stays == [ Unattended =>
                        LET before == Answers(Loaded)
                            after  == Answers(Loaded)'
                        IN  \A q \in DOMAIN before :
                              before[q] = "over" =>
                                \/ after[q] = "over" \/ (malformed' /\ after[q] = "unknown")
                                \/ \E i \in Window(q[1]) :
                                     \/ Recast(calls[i].metered)
                                     \/ malformed' /\ CachedAlone(calls[i].metered) ]_vars
<1>1. Inv /\ Inv' /\ [Next]_vars => Stays
  <2> SUFFICES ASSUME Inv, Inv', [Next]_vars, Unattended,
                      NEW q \in (0..MaxTime) \X Budgets, Answers(Loaded)[q] = "over",
                      \A i \in Window(q[1]) :
                        /\ ~Recast(calls[i].metered)
                        /\ malformed' => ~CachedAlone(calls[i].metered)
               PROVE  \/ Answers(Loaded)'[q] = "over"
                      \/ malformed' /\ Answers(Loaded)'[q] = "unknown"
    BY DEF Answers
  <2>0. /\ Window(q[1]) \subseteq Window(q[1])' /\ Window(q[1]) \subseteq DOMAIN calls
        /\ \A i \in DOMAIN calls : Costs(Loaded)[i] \in Nat \cup {Unknown}
    BY WindowGrows DEF Readings
  <2>1. CASE file' = file /\ malformed' = malformed
    <3>1. Loaded' = Loaded
      BY <2>1 DEF Loaded, Prices!Table
    <3>2. ASSUME NEW i \in DOMAIN calls PROVE Costs(Loaded)'[i] = Costs(Loaded)[i]
      <4>1. /\ i \in DOMAIN calls' /\ calls'[i].metered = calls[i].metered
            /\ PricedAt(calls'[i]) = PricedAt(calls[i])
        BY CallsStay DEF BudgetInv
      <4>2. Costs(Loaded)'[i] = CallCost(Loaded', calls'[i].metered, PricedAt(calls'[i]))
        BY <4>1 DEF Costs, PricedAt
      <4> QED
        BY <3>1, <4>1, <4>2 DEF Costs
    <3>3. \A i \in Window(q[1]) :
            \/ Costs(Loaded)[i] = Unknown
            \/ Costs(Loaded)'[i] # Unknown /\ Costs(Loaded)[i] <= Costs(Loaded)'[i]
      BY <2>0, <3>2
    <3> QED
      BY <2>0, <3>3, OverStays
  <2>2. CASE file' = file /\ malformed' # malformed
    <3>1. calls' = calls
      BY <2>2 DEF Next, Open, Begin, End, Prices!Tick, vars, priceVars
    <3>2. CASE malformed'
      BY <3>1, <3>2, OverWithATypo
    <3>3. CASE ~malformed'
      <4>1. malformed
        BY <2>2, <3>3 DEF BudgetInv, History!TypeOK
      <4>2. ASSUME NEW i \in DOMAIN calls, Costs(Loaded)[i] # Unknown
            PROVE  Costs(Loaded)'[i] # Unknown /\ Costs(Loaded)[i] <= Costs(Loaded)'[i]
        <5> DEFINE c == calls[i].metered
                   at == PricedAt(calls[i])
        <5>1. Loaded \in Tables /\ Loaded' \in Tables
          BY DEF Readings
        <5>2. /\ c \in Metered /\ at \in Nat /\ c.model \in Called
              /\ Costs(Loaded)[i] = CallCost(Loaded, c, at)
          BY <5>1, CallsTyped, CostTyped DEF BudgetInv
        <5>3. Lookup(Loaded, c.model) = {}
          BY <4>1, <5>2, TablesTyped DEF BudgetInv
        <5>4. Costs(Loaded)'[i] = CallCost(Loaded', c, at)
          BY <3>1 DEF Costs
        <5> HIDE DEF c, at
        <5> QED
          BY <4>2, <5>1, <5>2, <5>3, <5>4, KnownWithoutPrice DEF Unknown
      <4> QED
        BY <2>0, <4>2, OverStays
    <3> QED
      BY <3>2, <3>3
  <2>3. CASE Prices!Saved
    <3>1. History!Pull /\ calls' = calls
      BY <2>3, SavedIsAPull
    <3>2. ~malformed /\ ~malformed'
      BY <3>1 DEF History!Pull
    <3>3. Loaded = Prices!Table /\ Loaded' = Prices!Table'
      BY <3>2 DEF Loaded
    <3>4. Costs(Loaded)' = Costs(Prices!Table)'
      BY <3>3 DEF Costs
    <3>5. \A i \in Window(q[1]) :
            \/ Costs(Loaded)[i] = Unknown
            \/ Costs(Loaded)'[i] # Unknown /\ Costs(Loaded)[i] <= Costs(Loaded)'[i]
      BY <2>0, <3>1, <3>3, <3>4, PullKeepsCosts DEF Unknown
    <3> QED
      BY <2>0, <3>5, OverStays
  <2> QED
    BY <2>1, <2>2, <2>3 DEF Unattended
<1>2. Spec => []Inv
  BY BudgetInvariance, ReadingsHold, PTL
<1> QED
  BY <1>1, <1>2, PTL DEF Spec, OverIsDecisive
=============================================================================
