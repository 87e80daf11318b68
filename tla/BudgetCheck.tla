----------------------------- MODULE BudgetCheck ------------------------------
(***************************************************************************)
(* `turnpike check' over time (check.rs, since.rs).                        *)
(*                                                                         *)
(* Calls begin and end, prices.json lives through PriceHistory's pulls and *)
(* edits, and at any moment somebody may ask whether the spend since some  *)
(* bound is at or over a budget.  Asking changes nothing: the answer is an *)
(* operator on the state.                                                  *)
(*                                                                         *)
(* The clock counts half seconds: a timestamp is stored as text, and the   *)
(* text of a whole second has no fraction.  No two events are at one       *)
(* instant (timestamps have nanoseconds), so a call that begins moves the  *)
(* clock.                                                                  *)
(***************************************************************************)
EXTENDS CallCost, Functions

CONSTANTS
  InitialFiles, Upstreams, HandRates, Ahead, MaxTime, MaxChanges, \* PriceHistory's
  Metered,  \* what a call may come to, and be recorded as
  Budgets,  \* the ceilings asked about
  MaxCalls  \* bound on the calls

ASSUME BudgetAssumption ==
  /\ \A c \in Metered :
       /\ DOMAIN c = {"model", "usage", "stored"}
       /\ c.model \in Called /\ c.usage \in Usage /\ c.stored \in Nat \cup {Unknown}
  /\ MaxCalls \in Nat /\ Budgets \subseteq Nat \ {0}

\* What PriceHistory assumes of its constants.
ASSUME PricesAssumption ==
  /\ Ahead \in Nat /\ MaxTime \in Nat /\ MaxChanges \in Nat
  /\ HandRates \subseteq Rates /\ \A f \in InitialFiles : IsFile(f)
  /\ \A u \in Upstreams : DOMAIN u \subseteq Providers /\ \A p \in DOMAIN u : u[p] \in Listings

VARIABLES
  file, malformed, upstream, clock, conflicts, settled, changes, \* PriceHistory's
  db,    \* calls.db exists
  calls  \* the calls in the order they began; ts: the timestamp of the row, if there is one

priceVars == <<file, malformed, upstream, clock, conflicts, settled, changes>>
vars == <<file, malformed, upstream, clock, conflicts, settled, changes, db, calls>>

Prices == INSTANCE PriceHistory

\* The call is under way.
NotYet == -1

Call == [metered : Metered, began : Nat, ts : Nat \cup {NotYet}]

Init == Prices!Init /\ db = FALSE /\ calls = <<>>

\* The proxy starts: Store::open creates calls.db.
Open ==
  /\ ~db /\ db' = TRUE
  /\ UNCHANGED <<priceVars, calls>>

\* A request arrives; what the call will come to is the provider's affair.
Begin(metered) ==
  /\ db /\ Len(calls) < MaxCalls
  /\ calls' = Append(calls, [metered |-> metered, began |-> clock, ts |-> NotYet])
  /\ Prices!Tick
  /\ UNCHANGED db

\* Slip: the row is dated when it is written.
EndDatedNow(i) ==
  /\ calls[i].ts = NotYet
  /\ calls' = [calls EXCEPT ![i].ts = clock]
  /\ UNCHANGED <<priceVars, db>>

\* The call ends: its row is inserted, dated when the call began.
End(i) ==
  /\ calls[i].ts = NotYet
  /\ calls' = [calls EXCEPT ![i].ts = calls[i].began]
  /\ UNCHANGED <<priceVars, db>>

Next ==
  \/ Open
  \/ \E c \in Metered : Begin(c)
  \/ \E i \in DOMAIN calls : End(i)
  \/ Prices!Next /\ UNCHANGED <<db, calls>>

Spec == Init /\ [][Next]_vars

-----------------------------------------------------------------------------
(***************************************************************************)
(* The answer                                                              *)
(***************************************************************************)
Second(t) == t \div 2
Whole(t)  == t % 2 = 0

\* ts >= bound, as text: in the same second `.' sorts before `Z'.
AtOrAfter(at, bound) ==
  \/ Second(at) > Second(bound)
  \/ Second(at) = Second(bound) /\ (Whole(at) \/ ~Whole(bound))

\* PriceTable::load: a file that does not parse prices nothing.
Loaded == IF malformed THEN [m \in {} |-> {}] ELSE Prices!Table

\* A call is priced by the timestamp of its row; one under way is due what it began at.
PricedAt(call) == IF call.ts = NotYet THEN call.began ELSE call.ts

Costs(table) == [i \in DOMAIN calls |-> CallCost(table, calls[i].metered, PricedAt(calls[i]))]

Window(bound) == {i \in DOMAIN calls : calls[i].ts # NotYet /\ AtOrAfter(calls[i].ts, bound)}

\* Slip: what is missing comes before what is known.
ClassifyUnknownFirst(spent, budget, unpriced) ==
  IF ~db \/ unpriced # {} THEN "unknown" ELSE IF spent >= budget THEN "over" ELSE "under"

\* Known spend at the ceiling decides; then missing data.
Classify(spent, budget, unpriced) ==
  IF spent >= budget THEN "over" ELSE IF ~db \/ unpriced # {} THEN "unknown" ELSE "under"

\* sum_spend, and the answer.
Answer(costs, bound, budget) ==
  LET unpriced == {i \in Window(bound) : costs[i] = Unknown}
  IN  Classify(SumFunctionOnSet(costs, Window(bound) \ unpriced), budget, unpriced)

\* The answers to every question one may ask.
Answers(table) ==
  LET costs == Costs(table)
  IN  [q \in (0..MaxTime) \X Budgets |-> Answer(costs, q[1], q[2])]

-----------------------------------------------------------------------------
(***************************************************************************)
(* Properties                                                              *)
(***************************************************************************)
\* A step that is no edit by hand.
Unattended == Prices!Saved \/ file' = file

\* The call bears tokens, but none that call_cost looks at where there is no price.
CachedAlone(c) ==
  /\ c.stored = Unknown /\ c.usage.input = 0 /\ c.usage.output = 0
  /\ c.usage.read > 0 \/ c.usage.write > 0

\* The entry that prices the call is another after the step: models.dev lists a longer name
\* that the call's starts with (lookup), or it counts the cached tokens the other way, which
\* merge corrects in place.
Recast(c) ==
  /\ c.stored = Unknown
  /\ \E n \in Longest(Prices!Table, c.model) :
       \/ n \notin Longest(Prices!Table', c.model)
       \/ Prices!Table'[n].cache_in_input # Prices!Table[n].cache_in_input

\* What a call costs is settled when it begins: no pull, while it is under way or later,
\* moves a known cost, and the row that ends it has the same (README: `old rows keep the
\* price you actually paid').  But for a call whose entry is another one now, or that had
\* none and bears cached tokens alone.
PastCostsStay ==
  [][ Unattended =>
        LET before == Costs(Prices!Table)
            after  == Costs(Prices!Table)'
        IN  \A i \in DOMAIN calls :
              \/ before[i] = Unknown \/ after[i] = before[i]
              \/ Recast(calls[i].metered)
              \/ /\ CachedAlone(calls[i].metered)
                 /\ Longest(Prices!Table, calls[i].metered.model) = {} ]_vars

\* A budget that is exceeded stays exceeded whatever is recorded, pulled or mistyped
\* afterwards: at worst a typo makes the answer unknown, never `under'
\* (check.rs: `missing data can't make an already-exceeded budget un-exceeded').  But for a
\* window with a call whose entry is another one now, or a typo over cached tokens alone.
OverIsDecisive ==
  [][ Unattended =>
        LET before == Answers(Loaded)
            after  == Answers(Loaded)'
        IN  \A q \in DOMAIN before :
              before[q] = "over" =>
                \/ after[q] = "over" \/ (malformed' /\ after[q] = "unknown")
                \/ \E i \in Window(q[1]) :
                     \/ Recast(calls[i].metered)
                     \/ malformed' /\ CachedAlone(calls[i].metered) ]_vars

\* `Under' is vouched for: it is no illusion of a prices.json that does not parse
\* (cost.rs: `a token-bearing call with no price' is `never a confident $0'), but for the
\* calls that bear cached tokens alone.
TypoHidesNoSpend ==
  LET given == Answers(Loaded)
      due   == Answers(Prices!Table)
  IN  \A q \in DOMAIN given :
        given[q] = "under" /\ (\A i \in Window(q[1]) : ~CachedAlone(calls[i].metered)) =>
          due[q] # "over"
=============================================================================
