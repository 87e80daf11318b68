---------------------------- MODULE MCBudgetCheck -----------------------------
(***************************************************************************)
(* BudgetCheck for TLC: a model, one whose name is longer, and a dated     *)
(* name that starts with both.                                             *)
(***************************************************************************)
EXTENDS BudgetCheck

CONSTANTS short, long, dated, unlisted

MCCalled == {short, long, dated, unlisted}

MCPrefixes ==
  [m \in MCCalled |-> CASE m = short -> {short} [] m = unlisted -> {} [] OTHER -> {short, long}]

\* A dearer rate above 1 token, a cheaper one above 3.
MCTiers ==
  [l \in {"steps"} |-> {[above |-> 1, plain |-> 2, cache |-> 1], [above |-> 3, plain |-> 1, cache |-> 0]}]

Listed(plain, cache, tiers) == [plain |-> plain, cache |-> cache, tiers |-> tiers]

Lists(models, listing) == [p \in {1} |-> [n \in models |-> listing]]

\* Both names; then the short one alone, dearer and without tiers.
MCUpstreams ==
  {Lists({short, long}, Listed(1, 1, "steps")), Lists({short}, Listed(2, 0, "unstated"))}

Entry(plain, tiers, window, inside) ==
  [base |-> [plain |-> plain, cache |-> 1, tiers |-> tiers, window |-> window],
   cache_in_input |-> inside, pinned |-> FALSE, revisions |-> <<>>]

Written(m) == [model |-> m, spelling |-> 0]

\* No file yet; both names, the longer one with a discount and with its cached tokens
\* counted beside the input, which a pull corrects.
MCInitialFiles ==
  {[k \in {} |-> 0],
   [k \in {Written(short), Written(long)} |->
      IF k.model = short THEN Entry(2, "unstated", FALSE, TRUE) ELSE Entry(2, "steps", TRUE, FALSE)]}

MCHandRates == {[plain |-> 0, cache |-> Unstated, tiers |-> "unstated", window |-> TRUE]}

Use(input, output, read, write) ==
  [input |-> input, output |-> output, read |-> read, write |-> write]

Meter(m, usage, stored) == [model |-> m, usage |-> usage, stored |-> stored]

\* A longer context with a cached part, cached tokens alone, a call whose provider reports
\* its cost, one without an entry.
MCMetered ==
  {Meter(dated, Use(2, 0, 1, 0), Unknown), Meter(long, Use(0, 0, 4, 0), Unknown),
   Meter(short, Use(1, 1, 0, 0), 8), Meter(unlisted, Use(1, 1, 0, 0), Unknown)}
=============================================================================
