-------------------------- MODULE PriceHistoryProofs --------------------------
(***************************************************************************)
(* A pull keeps the history: theorems about PriceHistory, for every set of *)
(* models, rates and listings and however long prices.json is kept.        *)
(***************************************************************************)
EXTENDS PriceHistory, WellFoundedInduction, TLAPS

-----------------------------------------------------------------------------
(***************************************************************************)
(* Lemmas about the table                                                  *)
(***************************************************************************)
\* Every set of naturals has a least element.
LEMMA Least ==
  ASSUME NEW S, S \subseteq Nat, S # {}
  PROVE  \E s \in S : \A r \in S : s <= r
<1>1. PICK s \in S : \A r \in S : ~(<<r, s>> \in OpToRel(<, Nat))
  BY NatLessThanWellFounded, WFMin
<1>2. \A r \in S : ~(r < s)
  BY <1>1 DEF OpToRel
<1> QED
  BY <1>2

\* The spelling that wins is one of those on file.
LEMMA PreferredIsThere ==
  ASSUME NEW f, NEW m, SpellingsOf(f, m) # {}
  PROVE  Preferred(f, m) \in SpellingsOf(f, m)
<1> DEFINE real == {s \in SpellingsOf(f, m) : HasRealRates(EntryAt(f, m, s))}
           best == IF real = {} THEN SpellingsOf(f, m) ELSE real
<1>1. best \subseteq SpellingsOf(f, m) /\ best # {}
  OBVIOUS
<1>2. best \subseteq Nat
  BY <1>1, PriceTableAssumption DEF SpellingsOf
<1> HIDE DEF best
<1>3. \E s \in best : \A r \in best : s <= r
  BY <1>1, <1>2, Least
<1>4. (CHOOSE s \in best : \A r \in best : s <= r) \in best
  BY <1>3
<1> QED
  BY <1>1, <1>4 DEF Preferred, best

\* Loading a file gives a table with an entry for each of its models.
LEMMA CanonicalizeTyped ==
  ASSUME NEW f, IsFile(f)
  PROVE  Canonicalize(f) \in Tables
<1>1. PICK K \in SUBSET Key : f \in [K -> ModelPrices]
  BY DEF IsFile
<1>2. {k.model : k \in DOMAIN f} \in SUBSET Models
  BY <1>1 DEF Key
<1>3. ASSUME NEW k \in DOMAIN f PROVE EntryAt(f, k.model, Preferred(f, k.model)) \in ModelPrices
  <2>1. k = [model |-> k.model, spelling |-> k.spelling] /\ k.spelling \in Spellings
    BY <1>1 DEF Key
  <2>2. k.spelling \in SpellingsOf(f, k.model)
    BY <2>1 DEF SpellingsOf
  <2>3. Preferred(f, k.model) \in SpellingsOf(f, k.model)
    BY <2>2, PreferredIsThere
  <2> QED
    BY <1>1, <2>3 DEF SpellingsOf, EntryAt
<1>4. Canonicalize(f) \in [{k.model : k \in DOMAIN f} -> ModelPrices]
  BY <1>3 DEF Canonicalize
<1> QED
  BY <1>2, <1>4 DEF Tables

\* A table is written as a well-formed file with lowercase keys.
LEMMA AsFileTyped ==
  ASSUME NEW T \in Tables
  PROVE  /\ IsFile(AsFile(T))
         /\ \A k \in DOMAIN AsFile(T) : k.spelling = 0
<1>1. PICK M \in SUBSET Models : T \in [M -> ModelPrices]
  BY DEF Tables
<1> DEFINE keys == {[model |-> m, spelling |-> 0] : m \in DOMAIN T}
<1>2. keys \in SUBSET Key
  BY <1>1, PriceTableAssumption DEF Key
<1>3. \A k \in keys : k.model \in M /\ k.spelling = 0
  BY <1>1
<1>4. AsFile(T) = [k \in keys |-> T[k.model]]
  BY DEF AsFile
<1>5. AsFile(T) \in [keys -> ModelPrices]
  BY <1>1, <1>3, <1>4
<1> QED
  BY <1>2, <1>3, <1>5 DEF IsFile

\* What is written is what is loaded again.
LEMMA WriteThenLoad ==
  ASSUME NEW T \in Tables
  PROVE  Canonicalize(AsFile(T)) = T
<1>1. PICK M \in SUBSET Models : T \in [M -> ModelPrices]
  BY DEF Tables
<1> DEFINE f == AsFile(T)
           Spelled(m) == [model |-> m, spelling |-> 0]
<1>2. DOMAIN f = {Spelled(m) : m \in M} /\ \A m \in M : f[Spelled(m)] = T[m]
  BY <1>1 DEF AsFile
<1>3. {k.model : k \in DOMAIN f} = M
  <2>1. \A k \in DOMAIN f : k.model \in M
    BY <1>2
  <2>2. \A m \in M : Spelled(m) \in DOMAIN f /\ Spelled(m).model = m
    BY <1>2
  <2> HIDE DEF f, Spelled
  <2> QED
    BY <2>1, <2>2
<1>4. ASSUME NEW m \in M PROVE EntryAt(f, m, Preferred(f, m)) = T[m]
  <2>1. SpellingsOf(f, m) = {0}
    <3>1. \A s \in Spellings : [model |-> m, spelling |-> s] \in DOMAIN f <=> s = 0
      BY <1>2
    <3> QED
      BY <3>1, PriceTableAssumption DEF SpellingsOf
  <2>2. Preferred(f, m) = 0
    BY <2>1, PreferredIsThere
  <2> QED
    BY <1>2, <2>2 DEF EntryAt
<1> HIDE DEF f
<1>5. Canonicalize(f) = [m \in M |-> T[m]]
  BY <1>3, <1>4 DEF Canonicalize
<1> QED
  BY <1>1, <1>5 DEF f

\* models.dev's listings make a table.
LEMMA ParsedTyped ==
  ASSUME NEW u \in Upstreams
  PROVE  ParseModelsDev(u) \in Tables
<1> DEFINE M == UNION {DOMAIN u[p] : p \in DOMAIN u}
<1>1. DOMAIN u \subseteq Nat /\ \A p \in DOMAIN u : u[p] \in Listings
  BY HistoryAssumption, PriceTableAssumption
<1>2. M \in SUBSET Models
  BY <1>1 DEF Listings
<1>3. ASSUME NEW m \in M PROVE u[FirstListing(u, m)][m] \in Listing
  <2> DEFINE S == {p \in DOMAIN u : m \in DOMAIN u[p]}
  <2>1. S \subseteq Nat /\ S # {}
    BY <1>1
  <2>2. PICK p \in S : \A q \in S : p <= q
    BY <2>1, Least
  <2>3. FirstListing(u, m) \in S
    BY <2>2 DEF FirstListing
  <2> QED
    BY <1>1, <2>3 DEF Listings
<1>4. ASSUME NEW m \in M PROVE ParseModelsDev(u)[m] \in ModelPrices
  <2> DEFINE l == u[FirstListing(u, m)][m]
             base == [plain |-> l.plain, cache |-> l.cache, tiers |-> l.tiers, window |-> FALSE]
             shape == FirstListing(u, m) # Anthropic /\ m \notin Claude
  <2>1. base \in Rates
    BY <1>3 DEF Listing, Rates
  <2>2. shape \in BOOLEAN
    OBVIOUS
  <2>3. ParseModelsDev(u)[m] =
          [base |-> base, cache_in_input |-> shape, pinned |-> FALSE, revisions |-> <<>>]
    BY DEF ParseModelsDev
  <2>4. <<>> \in Seq(Revision)
    OBVIOUS
  <2> HIDE DEF base, shape
  <2> QED
    BY <2>1, <2>2, <2>3, <2>4 DEF ModelPrices
<1>5. ParseModelsDev(u) = [m \in M |-> ParseModelsDev(u)[m]]
  BY DEF ParseModelsDev
<1> HIDE DEF M
<1>6. ParseModelsDev(u) \in [M -> ModelPrices]
  BY <1>4, <1>5
<1> QED
  BY <1>2, <1>6 DEF Tables

-----------------------------------------------------------------------------
(***************************************************************************)
(* Lemmas about merge                                                      *)
(***************************************************************************)
\* A merged entry is well formed and keeps what the stored one had; at most one
\* revision, dated now, is new.
LEMMA MergeEntryKeeps ==
  ASSUME NEW e \in ModelPrices, NEW n \in ModelPrices, NEW now \in Nat
  PROVE  LET e2 == MergeEntry(e, n, now) IN
         /\ e2 \in ModelPrices
         /\ e2.base = e.base /\ e2.pinned = e.pinned
         /\ \/ e2.revisions = e.revisions
            \/ \E r \in Revision : r.from = now /\ e2.revisions = Append(e.revisions, r)
<1> DEFINE r == [from |-> now, rates |-> Stated(e, n.base)]
           revs == IF Moved(e, n) THEN Append(e.revisions, r) ELSE e.revisions
<1>1. Stated(e, n.base) \in Rates
  BY DEF Stated, ModelPrices, Rates
<1>2. r \in Revision /\ r.from = now
  BY <1>1 DEF Revision
<1>3. e.revisions \in Seq(Revision)
  BY DEF ModelPrices
<1> HIDE DEF r
<1>4. revs \in Seq(Revision) /\ (revs = e.revisions \/ revs = Append(e.revisions, r))
  BY <1>2, <1>3
<1>5. n.cache_in_input \in BOOLEAN
  BY DEF ModelPrices
<1>6. MergeEntry(e, n, now) =
        IF e.pinned THEN e
        ELSE [e EXCEPT !.cache_in_input = n.cache_in_input, !.revisions = revs]
  BY DEF MergeEntry, r, ModelPrices
<1> HIDE DEF revs
<1>7. CASE e.pinned
  BY <1>6, <1>7
<1>8. CASE ~e.pinned
  <2> DEFINE e2 == [e EXCEPT !.cache_in_input = n.cache_in_input, !.revisions = revs]
  <2>1. e2 \in ModelPrices
    BY <1>4, <1>5 DEF ModelPrices
  <2>2. e2.base = e.base /\ e2.pinned = e.pinned /\ e2.revisions = revs
    BY DEF ModelPrices
  <2>3. MergeEntry(e, n, now) = e2
    BY <1>6, <1>8
  <2> HIDE DEF e2
  <2> QED
    BY <2>1, <2>2, <2>3, <1>2, <1>4
<1> QED
  BY <1>7, <1>8

\* Rates in force before now are not touched by a revision dated now.
LEMMA PastRatesStay ==
  ASSUME NEW e \in ModelPrices, NEW e2 \in ModelPrices, NEW now \in Nat, NEW t \in Nat,
         t < now, e2.base = e.base,
         \/ e2.revisions = e.revisions
         \/ \E r \in Revision : r.from = now /\ e2.revisions = Append(e.revisions, r)
  PROVE  RatesAt(e2, t) = RatesAt(e, t)
<1> DEFINE old == e.revisions
           new == e2.revisions
<1>1. old \in Seq(Revision) /\ new \in Seq(Revision)
  BY DEF ModelPrices
<1>2. InForce(e2, t) = InForce(e, t)
  <2>1. CASE new = old
    BY <2>1 DEF InForce
  <2>2. CASE \E r \in Revision : r.from = now /\ new = Append(old, r)
    <3>1. PICK r \in Revision : r.from = now /\ new = Append(old, r)
      BY <2>2
    <3>2. /\ DOMAIN old = 1..Len(old) /\ DOMAIN new = 1..(Len(old) + 1) /\ Len(old) \in Nat
          /\ \A i \in 1..Len(old) : new[i] = old[i]
          /\ new[Len(old) + 1].from = now
      BY <1>1, <3>1
    <3>3. {i \in DOMAIN new : new[i].from <= t} = {i \in DOMAIN old : old[i].from <= t}
      BY <3>2
    <3>4. \A i \in {j \in DOMAIN old : old[j].from <= t} : new[i] = old[i]
      BY <3>2
    <3> QED
      BY <3>3, <3>4 DEF InForce
  <2> QED
    BY <2>1, <2>2
<1>3. \A rates : Resolve(e2, rates) = Resolve(e, rates)
  BY DEF Resolve
<1> QED
  BY <1>2, <1>3 DEF RatesAt, LatestOf

\* What a pull makes of the whole table.
LEMMA MergeKeeps ==
  ASSUME NEW T \in Tables, NEW F \in Tables, NEW now \in Nat
  PROVE  /\ Merge(T, F, now) \in Tables
         /\ \A m \in DOMAIN T :
              /\ m \in DOMAIN Merge(T, F, now)
              /\ T[m] \in ModelPrices
              /\ Merge(T, F, now)[m] = T[m]
                 \/ \E n \in ModelPrices : Merge(T, F, now)[m] = MergeEntry(T[m], n, now)
<1>1. PICK M \in SUBSET Models : T \in [M -> ModelPrices]
  BY DEF Tables
<1>2. PICK N \in SUBSET Models : F \in [N -> ModelPrices]
  BY DEF Tables
<1> DEFINE G == Merge(T, F, now)
<1>3. DOMAIN G = M \cup N
  BY <1>1, <1>2 DEF Merge
<1>4. ASSUME NEW m \in M \cup N
      PROVE  /\ G[m] \in ModelPrices
             /\ m \in M => G[m] = T[m] \/ \E n \in ModelPrices : G[m] = MergeEntry(T[m], n, now)
  <2>1. CASE m \notin M
    BY <1>1, <1>2, <2>1 DEF Merge
  <2>2. CASE m \in M /\ m \notin N
    BY <1>1, <1>2, <2>2 DEF Merge
  <2>3. CASE m \in M /\ m \in N
    <3>1. T[m] \in ModelPrices /\ F[m] \in ModelPrices
      BY <1>1, <1>2, <2>3
    <3>2. G[m] = MergeEntry(T[m], F[m], now)
      BY <1>1, <1>2, <2>3 DEF Merge
    <3> QED
      BY <3>1, <3>2, MergeEntryKeeps
  <2> QED
    BY <2>1, <2>2, <2>3
<1>5. G = [m \in M \cup N |-> G[m]]
  BY <1>1, <1>2 DEF Merge
<1> HIDE DEF G
<1>6. G \in [M \cup N -> ModelPrices]
  BY <1>4, <1>5
<1>7. G \in Tables
  BY <1>6 DEF Tables
<1> QED
  BY <1>1, <1>3, <1>4, <1>7 DEF G

-----------------------------------------------------------------------------
(***************************************************************************)
(* The file stays well formed                                              *)
(***************************************************************************)
\* An edit that saves a well-formed entry.
LEMMA SaveKeepsType ==
  ASSUME TypeOK, NEW k \in DOMAIN file, NEW entry \in ModelPrices, Save(k, entry)
  PROVE  TypeOK'
<1>1. PICK K \in SUBSET Key : file \in [K -> ModelPrices]
  BY DEF TypeOK, IsFile
<1>2. file' \in [K -> ModelPrices]
  BY <1>1 DEF Save
<1>3. IsFile(file')
  BY <1>2 DEF IsFile
<1>4. changes' \in 0..MaxChanges
  BY HistoryAssumption DEF Save, TypeOK, Change
<1>5. UNCHANGED <<malformed, upstream, clock, conflicts>> /\ settled' = FALSE
  BY DEF Save
<1> QED
  BY <1>3, <1>4, <1>5 DEF TypeOK

\* The user's editor leaves well-formed entries.
LEMMA EditKeepsType ==
  ASSUME TypeOK, Edit
  PROVE  TypeOK'
<1>1. CASE Typo
  BY <1>1, HistoryAssumption DEF Typo, TypeOK, Change
<1>2. CASE Mend
  BY <1>2 DEF Mend, TypeOK
<1>3. ASSUME NEW k \in DOMAIN file PROVE file[k] \in ModelPrices
  BY <1>3 DEF TypeOK, IsFile
<1>4. ASSUME NEW k \in DOMAIN file, Pin(k) PROVE TypeOK'
  <2>1. [file[k] EXCEPT !.pinned = TRUE] \in ModelPrices
    BY <1>3, <1>4 DEF ModelPrices
  <2> QED
    BY <1>4, <2>1, SaveKeepsType DEF Pin
<1>5. ASSUME NEW k \in DOMAIN file, Discount(k) PROVE TypeOK'
  <2>1. file[k].base \in Rates
    BY <1>3, <1>5 DEF ModelPrices
  <2>2. [file[k].base EXCEPT !.window = TRUE] \in Rates
    BY <2>1 DEF Rates
  <2>3. [file[k] EXCEPT !.base.window = TRUE] \in ModelPrices
    BY <1>3, <1>5, <2>2 DEF ModelPrices
  <2> QED
    BY <1>5, <2>3, SaveKeepsType DEF Discount
<1>6. ASSUME NEW k \in DOMAIN file, NEW from \in 0..(clock + Ahead), NEW rates \in HandRates,
             Author(k, rates, from)
      PROVE  TypeOK'
  <2>1. [from |-> from, rates |-> rates] \in Revision
    BY HistoryAssumption DEF Revision, TypeOK
  <2>2. [file[k] EXCEPT !.revisions = Append(@, [from |-> from, rates |-> rates])] \in ModelPrices
    BY <1>3, <1>6, <2>1 DEF ModelPrices
  <2> QED
    BY <1>6, <2>2, SaveKeepsType DEF Author
<1>7. ASSUME NEW k \in DOMAIN file, NEW from \in 0..(clock + Ahead),
             NEW i \in DOMAIN file[k].revisions, Redate(k, i, from)
      PROVE  TypeOK'
  <2>1. file[k].revisions \in Seq(Revision) /\ from \in Nat
    BY <1>3, <1>7, HistoryAssumption DEF ModelPrices, TypeOK
  <2>2. [file[k].revisions[i] EXCEPT !.from = from] \in Revision
    <3>1. file[k].revisions[i] \in Revision
      BY <2>1, <1>7
    <3> QED
      BY <2>1, <3>1 DEF Revision
  <2>3. [file[k].revisions EXCEPT ![i].from = from] \in Seq(Revision)
    BY <2>1, <2>2
  <2>4. [file[k] EXCEPT !.revisions[i].from = from] \in ModelPrices
    BY <1>3, <1>7, <2>3 DEF ModelPrices
  <2> QED
    BY <1>7, <2>4, SaveKeepsType DEF Redate
<1>8. ASSUME NEW k \in DOMAIN file, NEW i \in DOMAIN file[k].revisions, DiscountRevision(k, i)
      PROVE  TypeOK'
  <2>1. file[k].revisions \in Seq(Revision)
    BY <1>3, <1>8 DEF ModelPrices
  <2>2. file[k].revisions[i] \in Revision
    BY <2>1
  <2>3. [file[k].revisions[i].rates EXCEPT !.window = TRUE] \in Rates
    BY <2>2 DEF Revision, Rates
  <2>4. [file[k].revisions[i] EXCEPT !.rates.window = TRUE] \in Revision
    BY <2>2, <2>3 DEF Revision
  <2>5. [file[k].revisions EXCEPT ![i].rates.window = TRUE] \in Seq(Revision)
    BY <2>1, <2>4
  <2>6. [file[k] EXCEPT !.revisions[i].rates.window = TRUE] \in ModelPrices
    BY <1>3, <1>8, <2>5 DEF ModelPrices
  <2> QED
    BY <1>8, <2>6, SaveKeepsType DEF DiscountRevision
<1> QED
  BY <1>1, <1>2, <1>4, <1>5, <1>6, <1>7, <1>8 DEF Edit

\* A pull leaves a well-formed file, spelled in lowercase.
LEMMA PullKeepsType ==
  ASSUME TypeOK, Pull
  PROVE  TypeOK'
<1>1. ReadTable \in Tables
  BY CanonicalizeTyped DEF ReadTable, TypeOK
<1>2. Fetched \in Tables
  BY ParsedTyped DEF Fetched, TypeOK
<1>3. Merge(ReadTable, Fetched, clock) \in Tables
  BY <1>1, <1>2, MergeKeeps DEF TypeOK
<1>4. IsFile(file') /\ \A k \in DOMAIN file' : k.spelling = 0
  BY <1>3, AsFileTyped DEF Pull
<1>5. conflicts' \subseteq Models
  BY <1>1 DEF Pull, WindowConflicts, Tables
<1> QED
  BY <1>4, <1>5 DEF Pull, TypeOK

\* Type correctness: prices.json is a well-formed table at every moment, and in
\* lowercase once it has been pulled (apply_pull).
THEOREM TypeCorrect == Spec => []TypeOK
<1>1. Init => TypeOK
  <2>1. Init => changes \in 0..MaxChanges /\ clock \in 0..MaxTime
    BY HistoryAssumption DEF Init
  <2>2. Init => IsFile(file)
    BY HistoryAssumption DEF Init
  <2> QED
    BY <2>1, <2>2 DEF Init, TypeOK
<1>2. TypeOK /\ [Next]_vars => TypeOK'
  <2> SUFFICES ASSUME TypeOK, [Next]_vars PROVE TypeOK'
    OBVIOUS
  <2>1. CASE Tick
    BY <2>1, HistoryAssumption DEF Tick, TypeOK
  <2>2. CASE Reprice
    <3>1. changes' \in 0..MaxChanges
      BY <2>2, HistoryAssumption DEF Reprice, Change, TypeOK
    <3>2. upstream' \in Upstreams /\ settled' = FALSE /\ UNCHANGED <<file, malformed, clock, conflicts>>
      BY <2>2 DEF Reprice
    <3> QED
      BY <3>1, <3>2 DEF TypeOK
  <2>3. CASE Pull
    BY <2>3, PullKeepsType
  <2>4. CASE PullRefused
    BY <2>4 DEF PullRefused, TypeOK
  <2>5. CASE Edit
    BY <2>5, EditKeepsType
  <2>6. CASE UNCHANGED vars
    BY <2>6 DEF vars, TypeOK
  <2> QED
    BY <2>1, <2>2, <2>3, <2>4, <2>5, <2>6 DEF Next
<1> QED
  BY <1>1, <1>2, PTL DEF Spec

-----------------------------------------------------------------------------
(***************************************************************************)
(* What the program writes keeps what was there                            *)
(***************************************************************************)
\* The only step of the program that changes the file is a pull.
LEMMA OnlyPullSaves ==
  ASSUME TypeOK, [Next]_vars, Saved
  PROVE  Pull
<1>1. changes' = changes /\ changes \in Nat /\ file' # file
  BY DEF TypeOK, Saved
<1>2. ~Change
  BY <1>1 DEF Change
<1>3. ~Typo /\ \A k, entry : ~Save(k, entry)
  BY <1>2 DEF Typo, Save
<1>4. ~Edit
  BY <1>1, <1>3 DEF Edit, Mend, Pin, Discount, Author, Redate, DiscountRevision
<1> QED
  BY <1>1, <1>2, <1>4 DEF Next, Tick, Reprice, PullRefused, vars

\* A pull and the table loaded before and after it.
LEMMA PullKeeps ==
  ASSUME TypeOK, Pull, NEW m \in DOMAIN Table
  PROVE  /\ m \in DOMAIN Table'
         /\ Table[m] \in ModelPrices /\ Table'[m] \in ModelPrices
         /\ Table'[m].base = Table[m].base /\ Table'[m].pinned = Table[m].pinned
         /\ \/ Table'[m].revisions = Table[m].revisions
            \/ \E r \in Revision :
                 r.from = clock /\ Table'[m].revisions = Append(Table[m].revisions, r)
<1>1. Table \in Tables /\ Fetched \in Tables /\ clock \in Nat
  BY CanonicalizeTyped, ParsedTyped DEF Table, Fetched, TypeOK
<1> DEFINE merged == Merge(Table, Fetched, clock)
<1>2. merged \in Tables /\ file' = AsFile(merged)
  BY <1>1, MergeKeeps DEF Pull, ReadTable, Table
<1>3. Table' = merged
  BY <1>2, WriteThenLoad DEF Table
<1>4. /\ m \in DOMAIN merged /\ Table[m] \in ModelPrices
      /\ merged[m] = Table[m] \/ \E n \in ModelPrices : merged[m] = MergeEntry(Table[m], n, clock)
  BY <1>1, MergeKeeps
<1> HIDE DEF merged
<1>5. CASE merged[m] = Table[m]
  BY <1>3, <1>4, <1>5
<1>6. ASSUME NEW n \in ModelPrices, merged[m] = MergeEntry(Table[m], n, clock)
      PROVE  /\ merged[m] \in ModelPrices
             /\ merged[m].base = Table[m].base /\ merged[m].pinned = Table[m].pinned
             /\ \/ merged[m].revisions = Table[m].revisions
                \/ \E r \in Revision :
                     r.from = clock /\ merged[m].revisions = Append(Table[m].revisions, r)
  <2>1. LET e2 == MergeEntry(Table[m], n, clock) IN
          /\ e2 \in ModelPrices
          /\ e2.base = Table[m].base /\ e2.pinned = Table[m].pinned
          /\ \/ e2.revisions = Table[m].revisions
             \/ \E r \in Revision : r.from = clock /\ e2.revisions = Append(Table[m].revisions, r)
    BY <1>1, <1>4, <1>6, MergeEntryKeeps
  <2> QED
    BY <1>6, <2>1
<1> QED
  BY <1>3, <1>4, <1>5, <1>6

\* No pull reprices the past, for every table, every listing and any number of pulls
\* and edits (merge, rates_at, canonicalize).
THEOREM HistoryTheorem == Spec => HistoryIsKept
<1>1. TypeOK /\ [Next]_vars =>
        [ Saved => \A m \in DOMAIN Table :
            /\ m \in DOMAIN Table'
            /\ \A t \in 0..clock - 1 : RatesAt(Table'[m], t) = RatesAt(Table[m], t) ]_vars
  <2> SUFFICES ASSUME TypeOK, [Next]_vars, Saved, NEW m \in DOMAIN Table
               PROVE  /\ m \in DOMAIN Table'
                      /\ \A t \in 0..clock - 1 : RatesAt(Table'[m], t) = RatesAt(Table[m], t)
    OBVIOUS
  <2>1. Pull
    BY OnlyPullSaves
  <2>2. ASSUME NEW t \in 0..clock - 1 PROVE RatesAt(Table'[m], t) = RatesAt(Table[m], t)
    <3>1. clock \in Nat /\ t \in Nat /\ t < clock
      BY DEF TypeOK
    <3> QED
      BY <2>1, <3>1, PullKeeps, PastRatesStay
  <2> QED
    BY <2>1, <2>2, PullKeeps
<1> QED
  BY <1>1, TypeCorrect, PTL DEF Spec, HistoryIsKept

\* A pull loses nothing that was written by hand: pins, base entries and their
\* windows, and every revision (merge, canonicalize, write_table).
THEOREM HandWorkTheorem == Spec => HandWorkIsKept
<1>1. TypeOK /\ [Next]_vars =>
        [ Saved => \A m \in DOMAIN Table :
            /\ m \in DOMAIN Table'
            /\ Table'[m].pinned = Table[m].pinned /\ Table'[m].base = Table[m].base
            /\ \A i \in DOMAIN Table[m].revisions :
                 /\ i \in DOMAIN Table'[m].revisions
                 /\ Table'[m].revisions[i] = Table[m].revisions[i] ]_vars
  <2> SUFFICES ASSUME TypeOK, [Next]_vars, Saved, NEW m \in DOMAIN Table
               PROVE  /\ m \in DOMAIN Table'
                      /\ Table'[m].pinned = Table[m].pinned /\ Table'[m].base = Table[m].base
                      /\ \A i \in DOMAIN Table[m].revisions :
                           /\ i \in DOMAIN Table'[m].revisions
                           /\ Table'[m].revisions[i] = Table[m].revisions[i]
    OBVIOUS
  <2>1. Pull
    BY OnlyPullSaves
  <2>2. Table[m].revisions \in Seq(Revision)
    BY <2>1, PullKeeps DEF ModelPrices
  <2>3. ASSUME NEW i \in DOMAIN Table[m].revisions
        PROVE  /\ i \in DOMAIN Table'[m].revisions
               /\ Table'[m].revisions[i] = Table[m].revisions[i]
    BY <2>1, <2>2, PullKeeps
  <2> QED
    BY <2>1, <2>3, PullKeeps
<1> QED
  BY <1>1, TypeCorrect, PTL DEF Spec, HandWorkIsKept

-----------------------------------------------------------------------------
(***************************************************************************)
(* A pull brings the table up to date.  Nobody dates a revision ahead: the *)
(* newest revision is then the one in force, which is what merge compares  *)
(* with upstream.                                                          *)
(***************************************************************************)
NothingAhead ==
  /\ Ahead = 0
  /\ \A f \in InitialFiles : \A k \in DOMAIN f : \A i \in DOMAIN f[k].revisions :
       f[k].revisions[i].from = 0

\* No revision lies in the future.
NoneAhead ==
  \A k \in DOMAIN file : \A i \in DOMAIN file[k].revisions : file[k].revisions[i].from <= clock

\* What the last pull left agrees with models.dev, in the newest rates and in the way
\* cached tokens are counted.
InSync ==
  settled => \A m \in DOMAIN Fetched :
    /\ m \in DOMAIN Table
    /\ ~Table[m].pinned => /\ ~RatesDiffer(Newest(Table[m]), Newest(Fetched[m]))
                           /\ Table[m].cache_in_input = Fetched[m].cache_in_input

SyncInv == TypeOK /\ NoneAhead /\ InSync

\* When no revision is ahead of an instant, the newest rates are in force at it.
LEMMA NewestInForce ==
  ASSUME NEW e \in ModelPrices, NEW t \in Nat,
         \A i \in DOMAIN e.revisions : e.revisions[i].from <= t
  PROVE  RatesAt(e, t) = Newest(e)
<1>1. e.revisions \in Seq(Revision)
  BY DEF ModelPrices
<1>2. {j \in DOMAIN e.revisions : e.revisions[j].from <= t} = DOMAIN e.revisions
  OBVIOUS
<1>3. e.revisions = [i \in DOMAIN e.revisions |-> e.revisions[i]]
  BY <1>1
<1>4. InForce(e, t) = e.revisions
  BY <1>2, <1>3 DEF InForce
<1> QED
  BY <1>4 DEF RatesAt, Newest

\* A revision dated no earlier than the others and appended to them is the newest.
LEMMA AppendedIsLatest ==
  ASSUME NEW revs \in Seq(Revision), NEW r \in Revision,
         \A i \in DOMAIN revs : revs[i].from <= r.from
  PROVE  Latest(Append(revs, r)) = Len(revs) + 1
<1> DEFINE new == Append(revs, r)
           last == Len(revs) + 1
           Last(i) == \A j \in DOMAIN new :
                        \/ new[j].from < new[i].from
                        \/ new[j].from = new[i].from /\ j <= i
<1>1. /\ DOMAIN new = 1..last /\ Len(revs) \in Nat
      /\ new[last] = r /\ \A i \in 1..Len(revs) : new[i] = revs[i]
  OBVIOUS
<1>2. \A i \in 1..last : new[i].from \in Nat /\ new[i].from <= r.from
  <2>1. \A i \in 1..Len(revs) : revs[i] \in Revision
    OBVIOUS
  <2>2. \A i \in 1..Len(revs) : revs[i].from \in Nat /\ revs[i].from <= r.from
    BY <2>1 DEF Revision
  <2>3. r.from \in Nat
    BY DEF Revision
  <2> QED
    BY <1>1, <2>2, <2>3
<1> HIDE DEF new
<1>3. last \in DOMAIN new /\ Last(last)
  BY <1>1, <1>2
<1>4. ASSUME NEW i \in DOMAIN new, Last(i) PROVE i = last
  BY <1>1, <1>2, <1>4
<1> HIDE DEF Last, last
<1>5. (CHOOSE i \in DOMAIN new : Last(i)) = last
  BY <1>3, <1>4
<1> QED
  BY <1>5 DEF Latest, Last, last, new

\* What is read of models.dev has no revisions, and states its tiers or says
\* nothing of them.
LEMMA ParsedHasNoHistory ==
  ASSUME NEW u \in Upstreams, NEW m \in DOMAIN ParseModelsDev(u)
  PROVE  /\ ParseModelsDev(u)[m].revisions = <<>>
         /\ ParseModelsDev(u)[m].base.tiers \in {"unstated"} \cup TierLists
<1> DEFINE M == UNION {DOMAIN u[p] : p \in DOMAIN u}
           S == {p \in DOMAIN u : m \in DOMAIN u[p]}
<1>1. DOMAIN u \subseteq Nat /\ \A p \in DOMAIN u : u[p] \in Listings
  BY HistoryAssumption, PriceTableAssumption
<1>2. m \in M
  BY DEF ParseModelsDev
<1>3. S \subseteq Nat /\ S # {}
  BY <1>1, <1>2
<1>4. PICK p \in S : \A q \in S : p <= q
  BY <1>3, Least
<1>5. FirstListing(u, m) \in S
  BY <1>4 DEF FirstListing
<1>6. u[FirstListing(u, m)][m].tiers \in {"unstated"} \cup TierLists
  <2>1. u[FirstListing(u, m)][m] \in Listing
    BY <1>1, <1>5 DEF Listings
  <2> QED
    BY <2>1 DEF Listing
<1> QED
  BY <1>2, <1>6 DEF ParseModelsDev

\* The newest rates of an entry without revisions are its base.
LEMMA NewestOfBase ==
  ASSUME NEW e, e.revisions = <<>>
  PROVE  Newest(e) = Resolve(e, e.base)
  BY DEF Newest, LatestOf

\* A merged entry has upstream's rates from now on, unless it is pinned.
LEMMA MergeBringsUpToDate ==
  ASSUME NEW e \in ModelPrices, NEW n \in ModelPrices, NEW now \in Nat, ~e.pinned,
         n.revisions = <<>>, n.base.tiers \in {"unstated"} \cup TierLists,
         \A i \in DOMAIN e.revisions : e.revisions[i].from <= now
  PROVE  /\ ~RatesDiffer(Newest(MergeEntry(e, n, now)), Newest(n))
         /\ MergeEntry(e, n, now).cache_in_input = n.cache_in_input
<1> DEFINE e2 == MergeEntry(e, n, now)
           r == [from |-> now, rates |-> Stated(e, n.base)]
<1>1. /\ e2.base = e.base /\ e2.cache_in_input = n.cache_in_input
      /\ e2.revisions = IF Moved(e, n) THEN Append(e.revisions, r) ELSE e.revisions
  BY DEF MergeEntry, ModelPrices
<1>2. \A rates : Resolve(e2, rates) = Resolve(e, rates)
  BY <1>1 DEF Resolve
<1>3. CASE ~Moved(e, n)
  <2>1. Newest(e2) = Newest(e)
    BY <1>1, <1>2, <1>3 DEF Newest, LatestOf
  <2> QED
    BY <1>1, <1>3, <2>1 DEF Moved
<1>4. CASE Moved(e, n)
  <2>1. Stated(e, n.base) \in Rates /\ e.base \in Rates /\ n.base \in Rates
    BY DEF Stated, ModelPrices, Rates
  <2>2. r \in Revision /\ r.from = now /\ r.rates = Stated(e, n.base)
    BY <2>1 DEF Revision
  <2>3. e.revisions \in Seq(Revision)
    BY DEF ModelPrices
  <2> HIDE DEF r
  <2>4. Latest(Append(e.revisions, r)) = Len(e.revisions) + 1
    BY <2>2, <2>3, AppendedIsLatest
  <2>5. /\ Append(e.revisions, r)[Len(e.revisions) + 1] = r
        /\ DOMAIN Append(e.revisions, r) # {}
    <3>1. /\ DOMAIN Append(e.revisions, r) = 1..Len(e.revisions) + 1 /\ Len(e.revisions) \in Nat
          /\ Append(e.revisions, r)[Len(e.revisions) + 1] = r
      BY <2>2, <2>3
    <3>2. Len(e.revisions) + 1 \in DOMAIN Append(e.revisions, r)
      BY <3>1
    <3> QED
      BY <3>1, <3>2
  <2>6. Newest(e2) = Resolve(e, Stated(e, n.base))
    BY <1>1, <1>2, <1>4, <2>2, <2>4, <2>5 DEF Newest, LatestOf
  <2>7. Newest(n) = Resolve(n, n.base)
    BY NewestOfBase
  <2>8. ~RatesDiffer(Resolve(e, Stated(e, n.base)), Resolve(n, n.base))
    BY <2>1 DEF RatesDiffer, Resolve, Stated, Rates
  <2> QED
    BY <1>1, <2>6, <2>7, <2>8
<1> QED
  BY <1>3, <1>4

\* The revisions after one is appended.
LEMMA AppendAdds ==
  ASSUME NEW revs \in Seq(Revision), NEW r \in Revision
  PROVE  \A i \in DOMAIN Append(revs, r) :
           Append(revs, r)[i] = r \/ (i \in DOMAIN revs /\ Append(revs, r)[i] = revs[i])
<1>1. /\ DOMAIN Append(revs, r) = 1..Len(revs) + 1 /\ DOMAIN revs = 1..Len(revs)
      /\ Len(revs) \in Nat /\ Append(revs, r)[Len(revs) + 1] = r
      /\ \A i \in 1..Len(revs) : Append(revs, r)[i] = revs[i]
  OBVIOUS
<1> QED
  BY <1>1

\* An entry of the table is one of the file's.
LEMMA TableFromFile ==
  ASSUME NEW f, IsFile(f), NEW m \in DOMAIN Canonicalize(f)
  PROVE  \E k \in DOMAIN f : k.model = m /\ Canonicalize(f)[m] = f[k]
<1>1. PICK K \in SUBSET Key : f \in [K -> ModelPrices]
  BY DEF IsFile
<1>2. PICK k \in DOMAIN f : k.model = m
  BY DEF Canonicalize
<1>3. k = [model |-> m, spelling |-> k.spelling] /\ k.spelling \in Spellings
  BY <1>1, <1>2 DEF Key
<1>4. k.spelling \in SpellingsOf(f, m)
  BY <1>3 DEF SpellingsOf
<1>5. Preferred(f, m) \in SpellingsOf(f, m)
  BY <1>4, PreferredIsThere
<1>6. Canonicalize(f)[m] = f[[model |-> m, spelling |-> Preferred(f, m)]]
  BY DEF Canonicalize, EntryAt
<1> QED
  BY <1>5, <1>6 DEF SpellingsOf

\* Written in lowercase, the file is the table.
LEMMA LoadThenWrite ==
  ASSUME IsFile(file), \A k \in DOMAIN file : k.spelling = 0
  PROVE  AsFile(Table) = file
<1>1. PICK K \in SUBSET Key : file \in [K -> ModelPrices]
  BY DEF IsFile
<1>2. \A k \in K : k = [model |-> k.model, spelling |-> 0]
  BY <1>1 DEF Key
<1>3. DOMAIN Table = {k.model : k \in K}
  BY <1>1 DEF Table, Canonicalize
<1>4. {[model |-> m, spelling |-> 0] : m \in DOMAIN Table} = K
  BY <1>2, <1>3
<1>5. ASSUME NEW k \in K PROVE Table[k.model] = file[k]
  <2>1. SpellingsOf(file, k.model) = {0}
    BY <1>1, <1>2, PriceTableAssumption DEF SpellingsOf
  <2>2. Preferred(file, k.model) = 0
    BY <2>1, PreferredIsThere
  <2> QED
    BY <1>1, <1>2, <1>3, <2>2 DEF Table, Canonicalize, EntryAt
<1>6. AsFile(Table) = [k \in K |-> Table[k.model]]
  BY <1>4 DEF AsFile
<1> QED
  BY <1>1, <1>5, <1>6

\* With nothing ahead, the newest rates of the table are in force now.
LEMMA TableIsInForce ==
  ASSUME SyncInv, NEW m \in DOMAIN Table
  PROVE  RatesAt(Table[m], clock) = Newest(Table[m])
<1>1. PICK k \in DOMAIN file : Table[m] = file[k]
  BY TableFromFile DEF SyncInv, TypeOK, Table
<1>2. file[k] \in ModelPrices /\ clock \in Nat
  BY DEF SyncInv, TypeOK, IsFile
<1> QED
  BY <1>1, <1>2, NewestInForce DEF SyncInv, NoneAhead

\* What a pull leaves of each model.
LEMMA PullSyncs ==
  ASSUME SyncInv, Pull
  PROVE  NoneAhead' /\ InSync'
<1> DEFINE merged == Merge(Table, Fetched, clock)
           Fine(e) == e \in ModelPrices /\ \A i \in DOMAIN e.revisions : e.revisions[i].from <= clock
<1>1. Table \in Tables /\ Fetched \in Tables /\ clock \in Nat
  BY CanonicalizeTyped, ParsedTyped DEF Table, Fetched, SyncInv, TypeOK
<1>2. merged \in Tables /\ file' = AsFile(merged) /\ clock' = clock /\ upstream' = upstream
  BY <1>1, MergeKeeps DEF Pull, ReadTable, Table
<1>3. Table' = merged /\ Fetched' = Fetched
  BY <1>2, WriteThenLoad DEF Table, Fetched
<1>4. ASSUME NEW m \in DOMAIN Table PROVE Fine(Table[m])
  <2>1. PICK k \in DOMAIN file : Table[m] = file[k]
    BY TableFromFile DEF SyncInv, TypeOK, Table
  <2>2. file[k] \in ModelPrices
    BY DEF SyncInv, TypeOK, IsFile
  <2> QED
    BY <2>1, <2>2 DEF SyncInv, NoneAhead
<1>5. ASSUME NEW m \in DOMAIN Fetched
      PROVE  /\ Fine(Fetched[m]) /\ Fetched[m].revisions = <<>>
             /\ Fetched[m].base.tiers \in {"unstated"} \cup TierLists
  <2>1. upstream \in Upstreams
    BY DEF SyncInv, TypeOK
  <2>2. Fetched[m].revisions = <<>> /\ Fetched[m].base.tiers \in {"unstated"} \cup TierLists
    BY <2>1, ParsedHasNoHistory DEF Fetched
  <2>3. Fetched[m] \in ModelPrices
    BY <1>1 DEF Tables
  <2> QED
    BY <2>2, <2>3
<1>6. /\ DOMAIN merged = DOMAIN Table \cup DOMAIN Fetched
      /\ \A m \in DOMAIN merged :
           merged[m] = IF m \notin DOMAIN Table THEN Fetched[m]
                       ELSE IF m \notin DOMAIN Fetched THEN Table[m]
                       ELSE MergeEntry(Table[m], Fetched[m], clock)
  BY DEF Merge
<1> HIDE DEF merged, Fine
<1>7. ASSUME NEW e, NEW n, Fine(e), Fine(n) PROVE Fine(MergeEntry(e, n, clock))
  <2> DEFINE e2 == MergeEntry(e, n, clock)
  <2>1. /\ e2 \in ModelPrices
        /\ \/ e2.revisions = e.revisions
           \/ \E r \in Revision : r.from = clock /\ e2.revisions = Append(e.revisions, r)
    BY <1>1, <1>7, MergeEntryKeeps DEF Fine
  <2>2. e.revisions \in Seq(Revision)
    BY <1>7 DEF Fine, ModelPrices
  <2> HIDE DEF e2
  <2>3. CASE e2.revisions = e.revisions
    <3>1. e2 \in ModelPrices
      BY <2>1
    <3> QED
      BY <1>7, <2>3, <3>1 DEF Fine, e2
  <2>4. ASSUME NEW r \in Revision, r.from = clock, e2.revisions = Append(e.revisions, r)
        PROVE  Fine(e2)
    <3>1. \A i \in DOMAIN e2.revisions :
            e2.revisions[i] = r \/ (i \in DOMAIN e.revisions /\ e2.revisions[i] = e.revisions[i])
      BY <2>2, <2>4, AppendAdds
    <3> QED
      BY <1>1, <1>7, <2>1, <2>4, <3>1 DEF Fine
  <2> QED
    BY <2>1, <2>3, <2>4 DEF e2
<1>8. \A m \in DOMAIN merged : Fine(merged[m])
  BY <1>4, <1>5, <1>6, <1>7
<1>9. NoneAhead'
  <2>1. \A k \in DOMAIN file' : k.model \in DOMAIN merged /\ file'[k] = merged[k.model]
    BY <1>2 DEF AsFile
  <2> QED
    BY <1>2, <1>8, <2>1 DEF NoneAhead, Fine
<1>10. ASSUME NEW m \in DOMAIN Fetched, ~merged[m].pinned
       PROVE  /\ ~RatesDiffer(Newest(merged[m]), Newest(Fetched[m]))
              /\ merged[m].cache_in_input = Fetched[m].cache_in_input
  <2>1. CASE m \notin DOMAIN Table
    BY <1>6, <2>1 DEF RatesDiffer
  <2>2. CASE m \in DOMAIN Table
    <3>1. merged[m] = MergeEntry(Table[m], Fetched[m], clock)
      BY <1>6, <2>2
    <3>2. Fine(Table[m]) /\ Fine(Fetched[m])
      BY <1>4, <1>5, <2>2
    <3>3. MergeEntry(Table[m], Fetched[m], clock).pinned = Table[m].pinned
      BY <1>1, <3>2, MergeEntryKeeps DEF Fine
    <3> QED
      BY <1>1, <1>5, <1>10, <3>1, <3>2, <3>3, MergeBringsUpToDate DEF Fine
  <2> QED
    BY <2>1, <2>2
<1>11. InSync'
  BY <1>3, <1>6, <1>10 DEF InSync
<1> QED
  BY <1>9, <1>11

\* An edit dates nothing ahead.
LEMMA EditLooksBack ==
  ASSUME SyncInv, Ahead = 0, Edit
  PROVE  NoneAhead' /\ InSync'
<1>1. CASE Typo \/ Mend
  BY <1>1 DEF Typo, Mend, SyncInv, NoneAhead, InSync, Table, Fetched
<1>2. ASSUME NEW k \in DOMAIN file, NEW entry, Save(k, entry),
             \A i \in DOMAIN entry.revisions : entry.revisions[i].from <= clock
      PROVE  NoneAhead' /\ InSync'
  <2>1. file' = [file EXCEPT ![k] = entry] /\ clock' = clock /\ settled' = FALSE
    BY <1>2 DEF Save
  <2> QED
    BY <1>2, <2>1 DEF NoneAhead, InSync, SyncInv
<1>3. clock \in Nat
  BY DEF SyncInv, TypeOK
<1>4. ASSUME NEW k \in DOMAIN file
      PROVE  /\ file[k] \in ModelPrices /\ file[k].revisions \in Seq(Revision)
             /\ \A i \in DOMAIN file[k].revisions : file[k].revisions[i].from <= clock
  BY <1>4 DEF SyncInv, TypeOK, IsFile, NoneAhead, ModelPrices
<1>5. ASSUME NEW k \in DOMAIN file, Pin(k) \/ Discount(k)
      PROVE  NoneAhead' /\ InSync'
  <2>1. /\ [file[k] EXCEPT !.pinned = TRUE].revisions = file[k].revisions
        /\ [file[k] EXCEPT !.base.window = TRUE].revisions = file[k].revisions
    BY <1>4 DEF ModelPrices
  <2> QED
    BY <1>2, <1>4, <1>5, <2>1 DEF Pin, Discount
<1>6. ASSUME NEW k \in DOMAIN file, NEW from \in 0..(clock + Ahead), NEW rates \in HandRates,
             Author(k, rates, from)
      PROVE  NoneAhead' /\ InSync'
  <2> DEFINE r == [from |-> from, rates |-> rates]
             e2 == [file[k] EXCEPT !.revisions = Append(@, r)]
  <2>1. e2.revisions = Append(file[k].revisions, r)
    BY <1>4 DEF ModelPrices
  <2>2. r.from <= clock /\ r \in Revision
    BY <1>3, HistoryAssumption DEF Revision
  <2> HIDE DEF r
  <2>3. \A i \in DOMAIN e2.revisions :
          \/ e2.revisions[i] = r
          \/ i \in DOMAIN file[k].revisions /\ e2.revisions[i] = file[k].revisions[i]
    BY <1>4, <2>1, <2>2, AppendAdds
  <2>4. Save(k, e2)
    BY <1>6 DEF Author, r
  <2> HIDE DEF e2
  <2> QED
    BY <1>2, <1>4, <2>2, <2>3, <2>4
<1>7. ASSUME NEW k \in DOMAIN file, NEW from \in 0..(clock + Ahead),
             NEW i \in DOMAIN file[k].revisions, Redate(k, i, from)
      PROVE  NoneAhead' /\ InSync'
  <2> DEFINE e2 == [file[k] EXCEPT !.revisions[i].from = from]
  <2>1. e2.revisions = [file[k].revisions EXCEPT ![i].from = from]
    BY <1>4 DEF ModelPrices
  <2>2. file[k].revisions[i] \in Revision
    BY <1>4
  <2>3. [file[k].revisions[i] EXCEPT !.from = from].from = from /\ from <= clock
    BY <1>3, <2>2 DEF Revision
  <2>4. \A j \in DOMAIN e2.revisions : j \in DOMAIN file[k].revisions /\ e2.revisions[j].from <= clock
    BY <1>4, <2>1, <2>3
  <2>5. Save(k, e2)
    BY <1>7 DEF Redate
  <2> HIDE DEF e2
  <2> QED
    BY <1>2, <2>4, <2>5
<1>8. ASSUME NEW k \in DOMAIN file, NEW i \in DOMAIN file[k].revisions, DiscountRevision(k, i)
      PROVE  NoneAhead' /\ InSync'
  <2> DEFINE e2 == [file[k] EXCEPT !.revisions[i].rates.window = TRUE]
  <2>1. e2.revisions = [file[k].revisions EXCEPT ![i].rates.window = TRUE]
    BY <1>4 DEF ModelPrices
  <2>2. file[k].revisions[i] \in Revision
    BY <1>4
  <2>3. [file[k].revisions[i] EXCEPT !.rates.window = TRUE].from = file[k].revisions[i].from
    BY <2>2 DEF Revision
  <2>4. \A j \in DOMAIN e2.revisions :
          j \in DOMAIN file[k].revisions /\ e2.revisions[j].from = file[k].revisions[j].from
    BY <1>4, <2>1, <2>3
  <2>5. Save(k, e2)
    BY <1>8 DEF DiscountRevision
  <2> HIDE DEF e2
  <2> QED
    BY <1>2, <1>4, <2>4, <2>5
<1> QED
  BY <1>1, <1>5, <1>6, <1>7, <1>8 DEF Edit

\* SyncInv is inductive.
LEMMA SyncInvariance ==
  ASSUME NothingAhead
  PROVE  Spec => []SyncInv
<1>1. Init => NoneAhead /\ InSync
  BY DEF Init, NoneAhead, InSync, NothingAhead
<1>2. SyncInv /\ TypeOK' /\ [Next]_vars => SyncInv'
  <2> SUFFICES ASSUME SyncInv, [Next]_vars PROVE NoneAhead' /\ InSync'
    BY DEF SyncInv
  <2>1. clock \in Nat /\ \A k \in DOMAIN file : \A i \in DOMAIN file[k].revisions :
          file[k].revisions[i].from \in Nat
    <3>1. \A k \in DOMAIN file : file[k].revisions \in Seq(Revision)
      BY DEF SyncInv, TypeOK, IsFile, ModelPrices
    <3>2. \A k \in DOMAIN file : \A i \in DOMAIN file[k].revisions : file[k].revisions[i] \in Revision
      BY <3>1
    <3> QED
      BY <3>2 DEF SyncInv, TypeOK, Revision
  <2>2. CASE Tick
    BY <2>1, <2>2 DEF Tick, SyncInv, NoneAhead, InSync, Table, Fetched
  <2>3. CASE Reprice
    BY <2>3 DEF Reprice, SyncInv, NoneAhead, InSync
  <2>4. CASE Pull
    BY <2>4, PullSyncs
  <2>5. CASE PullRefused \/ UNCHANGED vars
    BY <2>5 DEF PullRefused, vars, SyncInv, NoneAhead, InSync, Table, Fetched
  <2>6. CASE Edit
    BY <2>6, EditLooksBack DEF NothingAhead
  <2> QED
    BY <2>2, <2>3, <2>4, <2>5, <2>6 DEF Next
<1> QED
  BY <1>1, <1>2, TypeCorrect, PTL DEF Spec, SyncInv
\* After a pull the rates in force are models.dev's, for every unpinned model it lists
\* (merge, parse_models_dev).
THEOREM UpToDateTheorem ==
  ASSUME NothingAhead
  PROVE  Spec => []PullBringsUpToDate
<1>1. SyncInv => PullBringsUpToDate
  <2> SUFFICES ASSUME SyncInv, settled, NEW m \in DOMAIN Fetched, ~Table[m].pinned
               PROVE  m \in DOMAIN Table /\ ~RatesDiffer(RatesAt(Table[m], clock), Newest(Fetched[m]))
    BY DEF PullBringsUpToDate, SyncInv, InSync
  <2>1. m \in DOMAIN Table /\ ~RatesDiffer(Newest(Table[m]), Newest(Fetched[m]))
    BY DEF SyncInv, InSync
  <2>2. RatesAt(Table[m], clock) = Newest(Table[m])
    BY <2>1, TableIsInForce
  <2> QED
    BY <2>1, <2>2
<1> QED
  BY <1>1, SyncInvariance, PTL

\* A pull after a pull leaves the file as it is: it appends no revision and rewrites no
\* entry, however often it is repeated (merge, canonicalize, write_table).
THEOREM PullingAgainTheorem ==
  ASSUME NothingAhead
  PROVE  Spec => PullingAgainAddsNothing
<1>1. SyncInv /\ [Next]_vars => [settled => ~Saved]_vars
  <2> SUFFICES ASSUME SyncInv, [Next]_vars, settled, Saved PROVE FALSE
    OBVIOUS
  <2>1. Pull /\ TypeOK
    BY OnlyPullSaves DEF SyncInv
  <2>2. Table \in Tables /\ Fetched \in Tables
    BY <2>1, CanonicalizeTyped, ParsedTyped DEF Table, Fetched, TypeOK
  <2>3. DOMAIN Fetched \subseteq DOMAIN Table
    BY DEF SyncInv, InSync
  <2>4. ASSUME NEW m \in DOMAIN Fetched PROVE MergeEntry(Table[m], Fetched[m], clock) = Table[m]
    <3>1. Table[m] \in ModelPrices
      BY <2>2, <2>3 DEF Tables
    <3>2. CASE Table[m].pinned
      BY <3>2 DEF MergeEntry
    <3>3. CASE ~Table[m].pinned
      <4>1. /\ ~Moved(Table[m], Fetched[m])
            /\ Table[m].cache_in_input = Fetched[m].cache_in_input
        BY <3>3 DEF SyncInv, InSync, Moved
      <4>2. MergeEntry(Table[m], Fetched[m], clock) =
              [Table[m] EXCEPT !.cache_in_input = Table[m].cache_in_input,
                               !.revisions = Table[m].revisions]
        BY <3>1, <3>3, <4>1 DEF MergeEntry, ModelPrices
      <4> QED
        BY <3>1, <4>2 DEF ModelPrices
    <3> QED
      BY <3>2, <3>3
  <2>5. Merge(Table, Fetched, clock) = [m \in DOMAIN Table |-> Table[m]]
    BY <2>3, <2>4 DEF Merge
  <2>6. Table = [m \in DOMAIN Table |-> Table[m]]
    BY <2>2 DEF Tables
  <2>7. file' = AsFile(Table)
    BY <2>1, <2>5, <2>6 DEF Pull, ReadTable, Table
  <2>8. file' = file
    BY <2>1, <2>7, LoadThenWrite DEF TypeOK
  <2> QED
    BY <2>8 DEF Saved
<1> QED
  BY <1>1, SyncInvariance, PTL DEF Spec, PullingAgainAddsNothing

\* A discount in force that a pull ends is named in its warning (window_conflicts,
\* merge).
THEOREM LostDiscountTheorem ==
  ASSUME NothingAhead
  PROVE  Spec => LostDiscountIsNamed
<1>1. SyncInv /\ SyncInv' /\ [Next]_vars =>
        [ Saved => \A m \in DOMAIN Table :
            RatesAt(Table[m], clock).window /\ ~RatesAt(Table'[m], clock).window
              => m \in conflicts' ]_vars
  <2> SUFFICES ASSUME SyncInv, SyncInv', [Next]_vars, Saved, NEW m \in DOMAIN Table,
                      RatesAt(Table[m], clock).window, ~RatesAt(Table'[m], clock).window
               PROVE  m \in conflicts'
    OBVIOUS
  <2>1. Pull /\ TypeOK
    BY OnlyPullSaves DEF SyncInv
  <2>2. Table \in Tables /\ Fetched \in Tables /\ clock \in Nat
    BY <2>1, CanonicalizeTyped, ParsedTyped DEF Table, Fetched, TypeOK
  <2>3. conflicts' = WindowConflicts(Table, Fetched)
    BY <2>1 DEF Pull, ReadTable, Table
  <2>4. RatesAt(Table[m], clock) = Newest(Table[m])
    BY TableIsInForce
  <2>5. Table'[m] = IF m \in DOMAIN Fetched THEN MergeEntry(Table[m], Fetched[m], clock)
                    ELSE Table[m]
    <3>1. Table' = Merge(Table, Fetched, clock)
      BY <2>1, <2>2, MergeKeeps, WriteThenLoad DEF Pull, ReadTable, Table
    <3> QED
      BY <2>2, <3>1 DEF Merge, Tables
  <2>6. Table[m] \in ModelPrices
    BY <2>2 DEF Tables
  <2>7. m \in DOMAIN Fetched /\ Moved(Table[m], Fetched[m])
    <3> SUFFICES ASSUME m \notin DOMAIN Fetched \/ ~Moved(Table[m], Fetched[m]) PROVE FALSE
      OBVIOUS
    <3>1. CASE m \notin DOMAIN Fetched
      BY <2>5, <3>1
    <3>2. CASE m \in DOMAIN Fetched /\ ~Moved(Table[m], Fetched[m])
      <4>1. Table'[m].revisions = Table[m].revisions /\ Table'[m].base = Table[m].base
        BY <2>5, <2>6, <3>2 DEF MergeEntry, ModelPrices
      <4>2. \A rates : Resolve(Table'[m], rates) = Resolve(Table[m], rates)
        BY <4>1 DEF Resolve
      <4>3. RatesAt(Table'[m], clock) = RatesAt(Table[m], clock)
        BY <4>1, <4>2 DEF RatesAt, InForce, LatestOf
      <4> QED
        BY <4>3
    <3> QED
      BY <3>1, <3>2
  <2> QED
    BY <2>3, <2>4, <2>7 DEF WindowConflicts
<1> QED
  BY <1>1, SyncInvariance, PTL DEF Spec, LostDiscountIsNamed

=============================================================================
