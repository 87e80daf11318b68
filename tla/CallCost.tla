------------------------------- MODULE CallCost -------------------------------
(***************************************************************************)
(* What a recorded call costs (cost.rs; lookup, effective_rates and        *)
(* compute in pricing.rs).  The kernel stats, tail and check share.        *)
(***************************************************************************)
EXTENDS PriceTable, FiniteSets

CONSTANTS
  Called,    \* the model names calls are recorded under
  Prefixes,  \* Prefixes[m]: the names in Models that m starts with, m included
  Tiers,     \* Tiers[list]: its tiers, each with rates of its own
  Discounted \* the instants an off-peak window covers, at half the rate

ASSUME CallCostAssumption ==
  /\ Prefixes \in [Called -> SUBSET Models]
  /\ Models \subseteq Called /\ \A m \in Models : m \in Prefixes[m]
  /\ \A m \in Called : \A k, n \in Prefixes[m] : k \in Prefixes[n] \/ n \in Prefixes[k]
  /\ \A k, n \in Models : k \in Prefixes[n] /\ n \in Prefixes[k] => k = n
  /\ Tiers \in [TierLists -> SUBSET [above : Nat, plain : Price, cache : Price]]
  /\ Discounted \subseteq Nat

\* No price: None in the code.
Unknown == -1

Usage == [input : Nat, output : Nat, read : Nat, write : Nat]

Named(table, m) == Prefixes[m] \cap DOMAIN table

\* The name itself, else its longest prefix on file, if any.
Longest(table, m) == {n \in Named(table, m) : \A k \in Named(table, m) : k \in Prefixes[n]}

Lookup(table, m) == {table[n] : n \in Longest(table, m)}

\* The tiers whose threshold the context exceeds.
Exceeded(rates, context) ==
  {t \in IF rates.tiers \in TierLists THEN Tiers[rates.tiers] ELSE {} : context > t.above}

\* The highest of them has the rates, else the rates in force are their own.
TierRates(rates, context) ==
  LET exceeded == Exceeded(rates, context)
  IN  IF exceeded = {} THEN rates
      ELSE CHOOSE t \in exceeded : \A u \in exceeded : u.above <= t.above

\* In halves, so that a discount leaves a whole number.
EffectiveRates(rates, context, at) ==
  LET r == TierRates(rates, context)
      f == IF rates.window /\ at \in Discounted THEN 1 ELSE 2
  IN  [plain |-> r.plain * f, cache |-> r.cache * f]

Context(e, u) == IF e.cache_in_input THEN u.input ELSE u.input + u.read + u.write

NonCachedInput(e, u) ==
  IF ~e.cache_in_input THEN u.input
  ELSE IF u.read > u.input THEN 0 ELSE u.input - u.read

Bill(e, rates, u, at) ==
  LET r == EffectiveRates(rates, Context(e, u), at)
  IN  (NonCachedInput(e, u) + u.output) * r.plain + (u.read + u.write) * r.cache

\* Slip: priced at the newest rates.
ComputeAtNewest(table, m, u, at) == {Bill(e, Newest(e), u, at) : e \in Lookup(table, m)}

\* At the rates in force when the call was made; nothing if no entry prices it.
Compute(table, m, u, at) == {Bill(e, RatesAt(e, at), u, at) : e \in Lookup(table, m)}

\* Slip: what has no price costs nothing.
UnpricedIsFree(u) == 0

\* The call bears tokens, as call_cost sees it.
Unpriced(u) == IF u.input > 0 \/ u.output > 0 THEN Unknown ELSE 0

\* The cost the provider reported, else the computed one.
CallCost(table, call, at) ==
  IF call.stored # Unknown THEN call.stored
  ELSE IF Lookup(table, call.model) = {} THEN Unpriced(call.usage)
  ELSE CHOOSE c \in Compute(table, call.model, call.usage, at) : TRUE
=============================================================================
