------------------------------- MODULE Reports --------------------------------
(***************************************************************************)
(* What `turnpike stats', `tail' and `check' make of the rows they read    *)
(* (stats.rs, tail.rs, sum_spend in check.rs).                             *)
(*                                                                         *)
(* Of a row are kept the columns the reports tell apart, and what the      *)
(* price table says of its model: entry, whether it has none or how its    *)
(* cached tokens are counted; price, what the entry makes of the counts.   *)
(***************************************************************************)
EXTENDS Attribution, Window, Sequences, FiniteSets

Unknown == -1

Groupings == {"provider", "model", "client", "day", "exe", "tool"}

\* The columns each report names without a has_column guard.
StatsNeeds(grouping) == {"id", "client"} \cup (IF grouping = "exe" THEN {"peer_exe"} ELSE {})
TailNeeds  == {"id", "client", "endpoint", "anomaly"}

\* NULL stands in for a column the database does not have yet.
Guarded(cols, row, c) == IF c \in cols THEN row[c] ELSE Nobody

Tool(cols, row) ==
  UnifiedTool(row.client, Guarded(cols, row, "client_source"), Guarded(cols, row, "peer_exe"))

\* Slip: the tool's key is taken as it comes.
BareKey(grouping, cols, row) ==
  CASE grouping = "provider" -> row.provider
    [] grouping = "model"    -> Or(row.model, "unknown")
    [] grouping = "client"   -> Or(row.client, "unknown")
    [] grouping = "day"      -> UtcDay(row.ts)
    [] grouping = "exe"      -> Or(row.peer_exe, "unknown")
    [] grouping = "tool"     -> Tool(cols, row)

\* The group of a row.
Key(grouping, cols, row) ==
  CASE grouping = "provider" -> row.provider
    [] grouping = "model"    -> Or(row.model, "unknown")
    [] grouping = "client"   -> Or(row.client, "unknown")
    [] grouping = "day"      -> UtcDay(row.ts)
    [] grouping = "exe"      -> Or(row.peer_exe, "unknown")
    [] grouping = "tool"     -> Or(Tool(cols, row), "unknown")

\* call_cost.
Cost(row) ==
  IF row.cost # Unknown THEN row.cost
  ELSE IF row.entry # "none" THEN row.price
  ELSE IF row.input > 0 \/ row.output > 0 THEN Unknown ELSE 0

\* tail's cost_of.
TailCost(row) ==
  IF row.cost # Unknown THEN row.cost
  ELSE IF row.entry # "none" THEN row.price ELSE Unknown

\* What the cache hits of a row are a part of; an unknown model counts as a subset.
CacheDenom(row) ==
  IF row.entry = "additive" THEN row.input + row.read + row.write ELSE row.input

-----------------------------------------------------------------------------
\* The rows of a window, by rowid.
In(rows, bound) == {i \in DOMAIN rows : AtOrAfter(rows[i].ts, bound)}

\* The sum of a column over the rowids it is given for, up to the nth; Unknown adds nothing.
Total(column, n) ==
  LET upto[i \in 0..n] ==
        IF i = 0 THEN 0
        ELSE upto[i - 1] + (IF i \in DOMAIN column /\ column[i] # Unknown THEN column[i] ELSE 0)
  IN  upto[n]

Costs(rows, S) == [i \in S |-> Cost(rows[i])]

Unpriced(rows, S) == Cardinality({i \in S : Cost(rows[i]) = Unknown})

\* Slip: the rank is rounded down.
FloorRank(n, p) == LET r == (n * p) \div 100 IN IF r = 0 THEN 1 ELSE r

\* The nearest rank of percentile p among n latencies.
Rank(n, p) == LET r == (n * p + 99) \div 100 IN IF r = 0 THEN 1 ELSE r

\* What sorting puts in the kth place.
Sorted(column, k) ==
  CHOOSE v \in {column[i] : i \in DOMAIN column} :
    /\ Cardinality({i \in DOMAIN column : column[i] < v}) < k
    /\ Cardinality({i \in DOMAIN column : column[i] <= v}) >= k

\* percentiles: the latency of that rank.
Percentile(column, p) == Sorted(column, Rank(Cardinality(DOMAIN column), p))

Agg(rows, S) ==
  [calls  |-> Cardinality(S),
   read   |-> Total([i \in S |-> rows[i].read], Len(rows)),
   denom  |-> Total([i \in S |-> CacheDenom(rows[i])], Len(rows)),
   errors |-> Cardinality({i \in S : rows[i].error}),
   cost   |-> Total(Costs(rows, S), Len(rows)),
   p50    |-> Percentile([i \in S |-> rows[i].latency], 50),
   p95    |-> Percentile([i \in S |-> rows[i].latency], 95)]

\* stats: the row mapper drops a row whose key is NULL; the others are grouped.
Stats(rows, cols, grouping, bound) ==
  LET key  == [i \in DOMAIN rows |-> Key(grouping, cols, rows[i])]
      read == {i \in In(rows, bound) : grouping = "day" \/ key[i] # Nobody}
  IN  [groups   |-> [k \in {key[i] : i \in read} |-> Agg(rows, {i \in read : key[i] = k})],
       unpriced |-> Unpriced(rows, read)]

\* sum_spend.
Spend(rows, bound) ==
  [spent    |-> Total(Costs(rows, In(rows, bound)), Len(rows)),
   unpriced |-> Unpriced(rows, In(rows, bound))]

\* tail: the last n rows of the window, by rowid, each with its tool and cost.
Tailed(rows, cols, bound, n) ==
  LET window == In(rows, bound)
  IN  [i \in {j \in window : Cardinality({k \in window : j < k}) < n} |->
         [id |-> rows[i].id, tool |-> Tool(cols, rows[i]), cost |-> TailCost(rows[i])]]
===============================================================================
