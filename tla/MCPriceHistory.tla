--------------------------- MODULE MCPriceHistory ----------------------------
(***************************************************************************)
(* PriceHistory for TLC: a Claude model and another one, listed by         *)
(* Anthropic and by a reseller.                                            *)
(***************************************************************************)
EXTENDS PriceHistory

CONSTANTS claude, qwen

MCModels == {claude, qwen}

Listed(plain, cache, tiers) == [plain |-> plain, cache |-> cache, tiers |-> tiers]

None == [m \in {} |-> 0]

Only(m, listing) == [n \in {m} |-> listing]

\* A cache rate, then a dearer model, then its tiers; the reseller takes over a model
\* Anthropic no longer lists.
MCUpstreams ==
  {[p \in {1, 2} |-> IF p = 1 THEN Only(claude, Listed(1, 1, "tiered"))
                     ELSE Only(qwen, Listed(1, 0, "unstated"))],
   [p \in {1, 2} |-> IF p = 1 THEN Only(claude, Listed(1, 1, "unstated"))
                     ELSE Only(claude, Listed(2, 0, "unstated"))],
   [p \in {1, 2} |-> IF p = 1 THEN None ELSE Only(claude, Listed(2, 0, "tiered"))]}

Entry(plain, tiers, pinned) ==
  [base |-> [plain |-> plain, cache |-> plain, tiers |-> tiers, window |-> FALSE],
   cache_in_input |-> FALSE, pinned |-> pinned, revisions |-> <<>>]

Spelled(m, s) == [model |-> m, spelling |-> s]

\* No file yet; a table from an old pull that kept two spellings; a pinned entry under
\* a mixed-case key.
MCInitialFiles ==
  {[k \in {} |-> 0],
   [k \in {Spelled(claude, 0), Spelled(claude, 1)} |-> Entry(k.spelling, "tiered", FALSE)],
   [k \in {Spelled(qwen, 1)} |-> Entry(2, "unstated", TRUE)]}

\* A revision that leaves its tiers and cache rate out, and one that states the tiers
\* are gone.
MCHandRates ==
  {[plain |-> 2, cache |-> Unstated, tiers |-> "unstated", window |-> TRUE],
   [plain |-> 1, cache |-> 1, tiers |-> "none", window |-> FALSE]}
=============================================================================
