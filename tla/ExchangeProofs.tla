---------------------------- MODULE ExchangeProofs ----------------------------
(***************************************************************************)
(* What a provider bills is what the row says: theorems about Exchange,    *)
(* for every count a bill may state and streams of any length.             *)
(***************************************************************************)
EXTENDS Exchange, WellFoundedInduction, TLAPS

\* What an object of a stream makes of the usage gathered so far.
Effect(p, data, u) == IF ShouldParse(data) THEN MergeSse(p, data, u) ELSE u

\* The objects r of a stream make the usage t of the usage u.
LeadsTo(p, r, u, t) ==
  \E h \in [0..Len(r) -> Usage] :
    /\ h[0] = u /\ h[Len(r)] = t
    /\ \A i \in 1..Len(r) : h[i] = Effect(p, r[i], h[i - 1])

-----------------------------------------------------------------------------
(***************************************************************************)
(* Streams, one after the other                                            *)
(***************************************************************************)
\* Nothing more to come: what is gathered is what there is.
LEMMA LeadsNowhere ==
  ASSUME NEW p, NEW u, NEW t, LeadsTo(p, <<>>, u, t)
  PROVE  u = t
BY DEF LeadsTo

LEMMA LeadsEmpty ==
  ASSUME NEW p, NEW u \in Usage
  PROVE  LeadsTo(p, <<>>, u, u)
<1> DEFINE h == [i \in 0..0 |-> u]
<1>1. Len(<<>>) = 0
  OBVIOUS
<1>2. h \in [0..Len(<<>>) -> Usage] /\ h[0] = u /\ h[Len(<<>>)] = u
  BY <1>1
<1>3. \A i \in 1..Len(<<>>) : FALSE
  BY <1>1
<1> QED
  BY <1>2, <1>3 DEF LeadsTo

\* The first object is taken.
LEMMA LeadsOn ==
  ASSUME NEW p, NEW S, NEW r \in Seq(S), r # <<>>, NEW u, NEW t, LeadsTo(p, r, u, t)
  PROVE  /\ Effect(p, Head(r), u) \in Usage
         /\ LeadsTo(p, Tail(r), Effect(p, Head(r), u), t)
<1>1. PICK h \in [0..Len(r) -> Usage] :
        /\ h[0] = u /\ h[Len(r)] = t
        /\ \A i \in 1..Len(r) : h[i] = Effect(p, r[i], h[i - 1])
  BY DEF LeadsTo
<1>2. /\ Len(r) \in Nat /\ Len(r) >= 1 /\ Head(r) = r[1] /\ Len(Tail(r)) = Len(r) - 1
      /\ \A i \in 1..Len(Tail(r)) : Tail(r)[i] = r[i + 1]
  OBVIOUS
<1> DEFINE g == [i \in 0..Len(Tail(r)) |-> h[i + 1]]
<1>3. g \in [0..Len(Tail(r)) -> Usage] /\ g[0] = h[1] /\ g[Len(Tail(r))] = h[Len(r)]
  BY <1>1, <1>2
<1>4. h[1] = Effect(p, Head(r), u) /\ h[1] \in Usage
  BY <1>1, <1>2
<1>5. \A i \in 1..Len(Tail(r)) : g[i] = Effect(p, Tail(r)[i], g[i - 1])
  <2> SUFFICES ASSUME NEW i \in 1..Len(Tail(r)) PROVE g[i] = Effect(p, Tail(r)[i], g[i - 1])
    OBVIOUS
  <2>1. i + 1 \in 1..Len(r) /\ i \in 0..Len(Tail(r)) /\ i - 1 \in 0..Len(Tail(r)) /\ i - 1 + 1 = i
        /\ i + 1 - 1 = i
    BY <1>2
  <2>2. h[i + 1] = Effect(p, r[i + 1], h[i])
    BY <1>1, <2>1
  <2>3. g[i] = h[i + 1] /\ g[i - 1] = h[i]
    BY <2>1
  <2> QED
    BY <1>2, <2>2, <2>3
<1> HIDE DEF g
<1> QED
  BY <1>1, <1>3, <1>4, <1>5 DEF LeadsTo

\* Two streams, one after the other.
LEMMA LeadsThrough ==
  ASSUME NEW p, NEW S, NEW r \in Seq(S), NEW s \in Seq(S), NEW u, NEW v, NEW t,
         LeadsTo(p, r, u, v), LeadsTo(p, s, v, t)
  PROVE  LeadsTo(p, r \o s, u, t)
<1> DEFINE m == Len(r)
           n == Len(s)
<1>1. PICK g \in [0..m -> Usage] :
        /\ g[0] = u /\ g[m] = v
        /\ \A i \in 1..m : g[i] = Effect(p, r[i], g[i - 1])
  BY DEF LeadsTo
<1>2. PICK k \in [0..n -> Usage] :
        /\ k[0] = v /\ k[n] = t
        /\ \A i \in 1..n : k[i] = Effect(p, s[i], k[i - 1])
  BY DEF LeadsTo
<1>3. /\ m \in Nat /\ n \in Nat /\ Len(r \o s) = m + n
      /\ \A i \in 1..m : (r \o s)[i] = r[i]
      /\ \A i \in 1..n : (r \o s)[m + i] = s[i]
  OBVIOUS
<1> HIDE DEF m, n
<1> DEFINE h == [i \in 0..m + n |-> IF i <= m THEN g[i] ELSE k[i - m]]
<1>4. h \in [0..m + n -> Usage]
  <2> SUFFICES ASSUME NEW i \in 0..m + n PROVE (IF i <= m THEN g[i] ELSE k[i - m]) \in Usage
    OBVIOUS
  <2>1. CASE i <= m
    BY <2>1, <1>1, <1>3
  <2>2. CASE ~(i <= m)
    <3>1. i - m \in 0..n
      BY <2>2, <1>3
    <3> QED
      BY <2>2, <3>1, <1>2
  <2> QED
    BY <2>1, <2>2
<1>5. h[0] = u
  BY <1>1, <1>3
<1>6. h[m + n] = t
  <2>1. CASE n = 0
    BY <2>1, <1>1, <1>2, <1>3
  <2>2. CASE n # 0
    <3>1. ~(m + n <= m) /\ m + n - m = n /\ m + n \in 0..m + n
      BY <2>2, <1>3
    <3>2. h[m + n] = k[m + n - m]
      BY <3>1, <1>3
    <3> QED
      BY <3>1, <3>2, <1>2
  <2> QED
    BY <2>1, <2>2
<1>7. \A i \in 1..m + n : h[i] = Effect(p, (r \o s)[i], h[i - 1])
  <2> SUFFICES ASSUME NEW i \in 1..m + n PROVE h[i] = Effect(p, (r \o s)[i], h[i - 1])
    OBVIOUS
  <2>0. i \in 0..m + n /\ i - 1 \in 0..m + n
    BY <1>3
  <2>1. CASE i <= m
    <3>1. i \in 1..m /\ i - 1 <= m
      BY <2>1, <1>3
    <3>2. h[i] = g[i] /\ h[i - 1] = g[i - 1]
      BY <2>0, <2>1, <3>1
    <3> QED
      BY <3>1, <3>2, <1>1, <1>3
  <2>2. CASE ~(i <= m)
    <3> DEFINE j == i - m
    <3>1. j \in 1..n /\ m + j = i /\ i - 1 - m = j - 1
      BY <2>2, <1>3
    <3>2. h[i] = k[j]
      BY <2>0, <2>2
    <3>3. h[i - 1] = k[j - 1]
      <4>1. CASE j = 1
        <5>1. i - 1 = m /\ i - 1 <= m
          BY <4>1, <1>3
        <5>2. h[i - 1] = g[m]
          BY <2>0, <5>1
        <5>3. k[j - 1] = v
          BY <4>1, <1>2
        <5> QED
          BY <5>2, <5>3, <1>1
      <4>2. CASE j # 1
        <5>1. ~(i - 1 <= m)
          BY <4>2, <3>1, <1>3
        <5> QED
          BY <2>0, <3>1, <5>1
      <4> QED
        BY <4>1, <4>2
    <3>4. (r \o s)[i] = s[j]
      <4>1. (r \o s)[m + j] = s[j]
        BY <3>1, <1>3
      <4> QED
        BY <3>1, <4>1
    <3> HIDE DEF j, h
    <3> QED
      BY <3>1, <3>2, <3>3, <3>4, <1>2
  <2> QED
    BY <2>1, <2>2
<1> HIDE DEF h
<1> QED
  BY <1>3, <1>4, <1>5, <1>6, <1>7 DEF LeadsTo

\* One object.
LEMMA LeadsOnce ==
  ASSUME NEW p, NEW d, NEW u \in Usage, NEW t \in Usage, Effect(p, d, u) = t
  PROVE  LeadsTo(p, <<d>>, u, t)
<1> DEFINE h == [i \in 0..1 |-> IF i = 0 THEN u ELSE t]
<1>1. Len(<<d>>) = 1 /\ <<d>>[1] = d
  OBVIOUS
<1>2. h \in [0..1 -> Usage] /\ h[0] = u /\ h[1] = t
  OBVIOUS
<1> HIDE DEF h
<1>3. \A i \in 1..1 : h[i] = Effect(p, <<d>>[i], h[i - 1])
  BY <1>1, <1>2
<1> QED
  BY <1>1, <1>2, <1>3 DEF LeadsTo

\* The same object any number of times: it tells all it has the first time.
LEMMA LeadsRepeatedly ==
  ASSUME NEW p, NEW d, NEW n \in Nat, NEW u \in Usage, NEW v \in Usage,
         Effect(p, d, u) = v, Effect(p, d, v) = v
  PROVE  LeadsTo(p, Repeated(d, n), u, IF n = 0 THEN u ELSE v)
<1> DEFINE h == [i \in 0..n |-> IF i = 0 THEN u ELSE v]
           r == Repeated(d, n)
<1>1. Len(r) = n /\ \A i \in 1..n : r[i] = d
  BY DEF Repeated
<1>2. h \in [0..n -> Usage] /\ h[0] = u /\ h[n] = (IF n = 0 THEN u ELSE v)
  OBVIOUS
<1>3. \A i \in 1..n : h[i] = v /\ h[i - 1] \in {u, v}
  OBVIOUS
<1> HIDE DEF h, r
<1>4. \A i \in 1..n : h[i] = Effect(p, r[i], h[i - 1])
  BY <1>1, <1>3
<1>5. LeadsTo(p, r, u, IF n = 0 THEN u ELSE v)
  BY <1>1, <1>2, <1>4 DEF LeadsTo
<1> QED
  BY <1>5 DEF r

-----------------------------------------------------------------------------
(***************************************************************************)
(* What each provider's objects say                                        *)
(***************************************************************************)
Bill == [input : Nat, output : Nat, read : Nat, written : Nat, reasoning : Nat, cost : Nat]

\* A count on file is a number, or None.
LEMMA Counts == Nat \subseteq Int /\ None \in Int /\ None \notin Nat /\ NoUsage \in Usage
BY DEF None, NoUsage, Usage, Dollars

LEMMA Costs == NoCost \in Dollars /\ \A n \in Nat : <<n, -10>> \in Dollars /\ <<n, -10>> # NoCost
BY DEF Dollars, NoCost

LEMMA Only == \A x : (CHOOSE u \in {x} : TRUE) = x
OBVIOUS

LEMMA BillsAreTyped == \A b \in Bills : b \in Bill /\ b.reasoning <= b.output
BY BillsAssumption DEF Bill

LEMMA DueIsUsage ==
  ASSUME NEW p, NEW b \in Bill
  PROVE  Due(p, b) \in Usage /\ Due(p, b) # NoUsage
<1>1. Due(p, b).input = b.input /\ b.input # None /\ NoUsage.input = None
  BY DEF Due, Bill, NoUsage, None
<1>2. Due(p, b) \in Usage
  BY Counts, Costs DEF Due, Bill, Usage
<1> QED
  BY <1>1, <1>2

\* Usage::merge, field by field.
LEMMA MergeFields ==
  ASSUME NEW old \in Usage, NEW new
  PROVE  Merge(old, new) =
           [input     |-> IF new.input # None THEN new.input ELSE old.input,
            output    |-> IF new.output # None THEN new.output ELSE old.output,
            read      |-> IF new.read # None THEN new.read ELSE old.read,
            written   |-> IF new.written # None THEN new.written ELSE old.written,
            reasoning |-> IF new.reasoning # None THEN new.reasoning ELSE old.reasoning,
            cost      |-> IF new.cost # NoCost THEN new.cost ELSE old.cost]
BY DEF Merge, Usage, NoUsage

LEMMA MergeNothing ==
  ASSUME NEW u \in Usage
  PROVE  Merge(u, NoUsage) = u /\ Merge(NoUsage, u) = u /\ Merge(u, u) = u
<1>1. Merge(u, NoUsage) = u
  BY MergeFields DEF NoUsage, Usage
<1>2. Merge(NoUsage, u) = u
  <2>1. Merge(NoUsage, u) =
          [input |-> u.input, output |-> u.output, read |-> u.read, written |-> u.written,
           reasoning |-> u.reasoning, cost |-> u.cost]
    <3> DEFINE m(a, b) == IF b # None THEN b ELSE a
               c(a, b) == IF b # NoCost THEN b ELSE a
    <3>1. Merge(NoUsage, u) =
            [input |-> m(NoUsage.input, u.input), output |-> m(NoUsage.output, u.output),
             read |-> m(NoUsage.read, u.read), written |-> m(NoUsage.written, u.written),
             reasoning |-> m(NoUsage.reasoning, u.reasoning), cost |-> c(NoUsage.cost, u.cost)]
      BY MergeFields, Counts
    <3>2. /\ NoUsage.input = None /\ NoUsage.output = None /\ NoUsage.read = None
          /\ NoUsage.written = None /\ NoUsage.reasoning = None /\ NoUsage.cost = NoCost
      BY DEF NoUsage
    <3>3. \A x : m(None, x) = x /\ c(NoCost, x) = x
      OBVIOUS
    <3> HIDE DEF m, c
    <3> QED
      BY <3>1, <3>2, <3>3
  <2> QED
    BY <2>1 DEF Usage
<1>3. Merge(u, u) = u
  BY MergeFields DEF Usage
<1> QED
  BY <1>1, <1>2, <1>3

\* The usage of a chat completion: reasoning counted on top of the output is added to it.
LEMMA ChatSays ==
  ASSUME NEW p \in Provider, Shape(p) = "openai", ~ResponsesApi(p),
         NEW b \in Bill, b.reasoning <= b.output
  PROVE  ParseOpenai(ChatUsage(p, b)) = Due(p, b)
<1> DEFINE u == ChatUsage(p, b)
           written == IF p = "openrouter" THEN {"details_cache_write_tokens", "cost"}
                      ELSE IF p = "xai" THEN {"cost_in_usd_ticks"} ELSE {}
           hits == CASE p = "deepseek" -> "prompt_cache_hit_tokens"
                     [] p = "kimi"     -> "cached_tokens"
                     [] OTHER          -> "details_cached_tokens"
           fields == {"prompt_tokens", "completion_tokens", "total_tokens",
                      "details_reasoning_tokens", hits} \cup written
<1>0. b.input \in Nat /\ b.output \in Nat /\ b.read \in Nat /\ b.written \in Nat
      /\ b.reasoning \in Nat /\ b.cost \in Nat
  BY DEF Bill
<1>1. u = [f \in fields |->
         CASE f = "prompt_tokens"     -> b.input
           [] f = "completion_tokens" -> IF p = "xai" THEN b.output - b.reasoning ELSE b.output
           [] f = "total_tokens"      -> b.input + b.output
           [] f = "details_reasoning_tokens"   -> b.reasoning
           [] f = "details_cache_write_tokens" -> b.written
           [] f = "cost"              -> <<b.cost, -10>>
           [] f = "cost_in_usd_ticks" -> b.cost
           [] OTHER -> b.read]
  BY DEF ChatUsage
<1>2. /\ DOMAIN u = fields
      /\ u["prompt_tokens"] = b.input /\ u["total_tokens"] = b.input + b.output
      /\ u["completion_tokens"] = IF p = "xai" THEN b.output - b.reasoning ELSE b.output
      /\ u["details_reasoning_tokens"] = b.reasoning
  BY <1>1
<1>3. hits \in {"prompt_cache_hit_tokens", "cached_tokens", "details_cached_tokens"} /\ u[hits] = b.read
  BY <1>1
<1>4. /\ p = "openrouter" => u["details_cache_write_tokens"] = b.written /\ u["cost"] = <<b.cost, -10>>
      /\ p = "xai" => u["cost_in_usd_ticks"] = b.cost
  BY <1>1
<1>5. fields \cap {"input_tokens", "output_tokens"} = {}
  OBVIOUS
<1>6. /\ p # "openrouter" => "details_cache_write_tokens" \notin fields /\ "cost" \notin fields
      /\ p # "xai" => "cost_in_usd_ticks" \notin fields
  OBVIOUS
<1> HIDE DEF u
<1>7. Stated(u, "details_reasoning_tokens") = b.reasoning /\ Stated(u, "total_tokens") = b.input + b.output
  BY <1>2 DEF Stated
<1>8. Either(u, "input_tokens", "prompt_tokens") = b.input
  BY <1>2, <1>5 DEF Either, Stated
<1>9. Either(u, "output_tokens", "completion_tokens") = IF p = "xai" THEN b.output - b.reasoning ELSE b.output
  BY <1>2, <1>5 DEF Either, Stated
<1>10. Else(Stated(u, "details_cached_tokens"),
            Else(Stated(u, "prompt_cache_hit_tokens"), Stated(u, "cached_tokens"))) = b.read
  BY <1>0, <1>2, <1>3, Counts DEF Else, Stated
<1>11. Stated(u, "details_cache_write_tokens") = IF p = "openrouter" THEN b.written ELSE None
  BY <1>2, <1>4, <1>6 DEF Stated
<1>12. ReportedCost(u) = IF p \in {"openrouter", "xai"} THEN <<b.cost, -10>> ELSE NoCost
  BY <1>2, <1>4, <1>6 DEF ReportedCost, FromTicks
<1> HIDE DEF fields, hits, written
<1>13. CASE p = "xai"
  <2> DEFINE o == b.output - b.reasoning
  <2>1. /\ OnTop(b.input + b.output, b.input, o, b.reasoning) => o + b.reasoning = b.output
        /\ ~OnTop(b.input + b.output, b.input, o, b.reasoning) => o = b.output
    BY <1>0 DEF OnTop, None
  <2>2. (IF OnTop(b.input + b.output, b.input, o, b.reasoning) THEN o + b.reasoning ELSE o) = b.output
    BY <2>1
  <2>3. p # "anthropic" /\ p # "openrouter"
    BY <1>13
  <2>4. Due(p, b) = [input |-> b.input, output |-> b.output, read |-> b.read,
                     written |-> None, reasoning |-> b.reasoning, cost |-> <<b.cost, -10>>]
    BY <1>13, <2>3 DEF Due
  <2>5. Either(u, "output_tokens", "completion_tokens") = o
    BY <1>9, <1>13
  <2>6. /\ Stated(u, "details_cache_write_tokens") = None
        /\ ReportedCost(u) = <<b.cost, -10>>
    BY <1>11, <1>12, <1>13, <2>3
  <2> HIDE DEF o
  <2>7. ParseOpenai(u) = Due(p, b)
    BY <1>7, <1>8, <1>10, <2>2, <2>4, <2>5, <2>6 DEF ParseOpenai
  <2> QED
    BY <2>7 DEF u
<1>14. CASE p # "xai"
  <2>1. ~OnTop(b.input + b.output, b.input, b.output, b.reasoning)
    BY <1>0 DEF OnTop
  <2>2. p # "anthropic"
    BY DEF Shape
  <2>3. Due(p, b) = [input |-> b.input, output |-> b.output, read |-> b.read,
                     written |-> IF p = "openrouter" THEN b.written ELSE None,
                     reasoning |-> b.reasoning, cost |-> IF p = "openrouter" THEN <<b.cost, -10>> ELSE NoCost]
    BY <1>14, <2>2 DEF Due
  <2>4. /\ Either(u, "output_tokens", "completion_tokens") = b.output
        /\ ReportedCost(u) = IF p = "openrouter" THEN <<b.cost, -10>> ELSE NoCost
    BY <1>9, <1>12, <1>14
  <2>5. ParseOpenai(u) = Due(p, b)
    BY <1>7, <1>8, <1>10, <1>11, <2>1, <2>3, <2>4 DEF ParseOpenai
  <2> QED
    BY <2>5 DEF u
<1> QED
  BY <1>13, <1>14 DEF u

\* The usage of the Responses API.
LEMMA ResponsesSay ==
  ASSUME NEW p \in Provider, Shape(p) = "openai", ResponsesApi(p), NEW b \in Bill
  PROVE  ParseOpenai(ResponsesUsage(b)) = Due(p, b)
<1> DEFINE u == ResponsesUsage(b)
           fields == {"input_tokens", "output_tokens", "total_tokens",
                      "details_reasoning_tokens", "details_cached_tokens"}
<1>0. b.input \in Nat /\ b.output \in Nat /\ b.read \in Nat /\ b.reasoning \in Nat
  BY DEF Bill
<1>1. /\ DOMAIN u = fields
      /\ u["input_tokens"] = b.input /\ u["total_tokens"] = b.input + b.output
      /\ u["output_tokens"] = b.output /\ u["details_reasoning_tokens"] = b.reasoning
      /\ u["details_cached_tokens"] = b.read
  BY DEF ResponsesUsage
<1> HIDE DEF u
<1>2. /\ Stated(u, "details_reasoning_tokens") = b.reasoning
      /\ Stated(u, "total_tokens") = b.input + b.output
      /\ Either(u, "input_tokens", "prompt_tokens") = b.input
      /\ Either(u, "output_tokens", "completion_tokens") = b.output
      /\ Stated(u, "details_cached_tokens") = b.read
  BY <1>1 DEF Stated, Either
<1>3. Stated(u, "details_cache_write_tokens") = None /\ ReportedCost(u) = NoCost
  BY <1>1 DEF Stated, ReportedCost
<1>4. Else(b.read, Else(Stated(u, "prompt_cache_hit_tokens"), Stated(u, "cached_tokens"))) = b.read
  BY <1>0, Counts DEF Else
<1>5. ~OnTop(b.input + b.output, b.input, b.output, b.reasoning)
  BY <1>0 DEF OnTop
<1>6. p # "anthropic"
  BY DEF Shape
<1> HIDE DEF fields
<1>7. ParseOpenai(u) = Due(p, b)
  BY <1>2, <1>3, <1>4, <1>5, <1>6 DEF ParseOpenai, Due
<1> QED
  BY <1>7 DEF u

\* An Anthropic message states all; the start of a stream all but the final output, the
\* last delta that output alone.
AnthropicEarly(b) ==
  ParseAnthropic([AnthropicUsage(AnthropicStart \cup {"output_tokens"}, b) EXCEPT !.output_tokens = 1])

LEMMA AnthropicSays ==
  ASSUME ~ResponsesApi("anthropic"), NEW b \in Bill
  PROVE  /\ ParseAnthropic(AnthropicUsage(AnthropicStart \cup {"output_tokens"}, b)) = Due("anthropic", b)
         /\ AnthropicEarly(b) \in Usage
         /\ Merge(AnthropicEarly(b), ParseAnthropic(AnthropicUsage({"output_tokens"}, b)))
              = Due("anthropic", b)
<1> DEFINE u == AnthropicUsage(AnthropicStart \cup {"output_tokens"}, b)
           w == [u EXCEPT !.output_tokens = 1]
           d == AnthropicUsage({"output_tokens"}, b)
           fields == {"input_tokens", "output_tokens", "cache_read_input_tokens",
                      "cache_creation_input_tokens"}
<1>0. b.input \in Nat /\ b.output \in Nat /\ b.read \in Nat /\ b.written \in Nat
  BY DEF Bill
<1>1. /\ DOMAIN u = fields
      /\ u["input_tokens"] = b.input /\ u["output_tokens"] = b.output
      /\ u["cache_read_input_tokens"] = b.read /\ u["cache_creation_input_tokens"] = b.written
  BY DEF AnthropicUsage, AnthropicStart
<1>2. DOMAIN d = {"output_tokens"} /\ d["output_tokens"] = b.output
  BY DEF AnthropicUsage
<1> HIDE DEF u, d
<1>3. /\ DOMAIN w = fields
      /\ w["input_tokens"] = b.input /\ w["output_tokens"] = 1
      /\ w["cache_read_input_tokens"] = b.read /\ w["cache_creation_input_tokens"] = b.written
  BY <1>1
<1> HIDE DEF w
<1>4. ParseAnthropic(u) = [input |-> b.input, output |-> b.output, read |-> b.read,
                          written |-> b.written, reasoning |-> None, cost |-> NoCost]
  BY <1>1 DEF ParseAnthropic, Stated
<1>5. ParseAnthropic(w) = [input |-> b.input, output |-> 1, read |-> b.read,
                          written |-> b.written, reasoning |-> None, cost |-> NoCost]
  BY <1>3 DEF ParseAnthropic, Stated
<1>6. ParseAnthropic(d) = [input |-> None, output |-> b.output, read |-> None,
                          written |-> None, reasoning |-> None, cost |-> NoCost]
  BY <1>2 DEF ParseAnthropic, Stated
<1>7. Due("anthropic", b) = [input |-> b.input, output |-> b.output, read |-> b.read,
                            written |-> b.written, reasoning |-> None, cost |-> NoCost]
  BY DEF Due
<1>8. ParseAnthropic(w) \in Usage
  BY <1>0, <1>5, Counts, Costs DEF Usage
<1>9. Merge(ParseAnthropic(w), ParseAnthropic(d)) = Due("anthropic", b)
  <2> DEFINE e == ParseAnthropic(w)
             n == ParseAnthropic(d)
  <2>1. Merge(e, n) = [input     |-> IF n.input # None THEN n.input ELSE e.input,
                       output    |-> IF n.output # None THEN n.output ELSE e.output,
                       read      |-> IF n.read # None THEN n.read ELSE e.read,
                       written   |-> IF n.written # None THEN n.written ELSE e.written,
                       reasoning |-> IF n.reasoning # None THEN n.reasoning ELSE e.reasoning,
                       cost      |-> IF n.cost # NoCost THEN n.cost ELSE e.cost]
    BY <1>8, MergeFields
  <2>2. /\ n.input = None /\ n.output = b.output /\ n.read = None
        /\ n.written = None /\ n.reasoning = None /\ n.cost = NoCost
    BY <1>6
  <2>3. /\ e.input = b.input /\ e.read = b.read /\ e.written = b.written
        /\ e.reasoning = None /\ e.cost = NoCost
    BY <1>5
  <2>4. b.output # None
    BY <1>0, Counts
  <2> HIDE DEF e, n
  <2>5. Merge(e, n) = Due("anthropic", b)
    BY <1>7, <2>1, <2>2, <2>3, <2>4
  <2> QED
    BY <2>5 DEF e, n
<1>10. AnthropicEarly(b) = ParseAnthropic(w)
  BY DEF AnthropicEarly, w, u
<1> QED
  BY <1>4, <1>7, <1>8, <1>9, <1>10 DEF u, d

\* A Gemini response states all; an earlier one of a stream the thoughts alone.
GeminiEarly(b) == ParseGemini([GeminiUsage(b) EXCEPT !.candidatesTokenCount = 0])

LEMMA GeminiSays ==
  ASSUME NEW b \in Bill, b.reasoning <= b.output
  PROVE  /\ ParseGemini(GeminiUsage(b)) = Due("gemini", b)
         /\ GeminiEarly(b) \in Usage
         /\ Merge(GeminiEarly(b), Due("gemini", b)) = Due("gemini", b)
<1> DEFINE u == GeminiUsage(b)
           w == [u EXCEPT !.candidatesTokenCount = 0]
           fields == {"promptTokenCount", "candidatesTokenCount", "thoughtsTokenCount",
                      "cachedContentTokenCount"}
<1>0. b.input \in Nat /\ b.output \in Nat /\ b.read \in Nat /\ b.reasoning \in Nat
      /\ b.output - b.reasoning \in Nat /\ b.output - b.reasoning + b.reasoning = b.output
  BY DEF Bill
<1>1. /\ DOMAIN u = fields
      /\ u["promptTokenCount"] = b.input /\ u["candidatesTokenCount"] = b.output - b.reasoning
      /\ u["thoughtsTokenCount"] = b.reasoning /\ u["cachedContentTokenCount"] = b.read
  BY DEF GeminiUsage
<1> HIDE DEF u
<1>2. /\ DOMAIN w = fields
      /\ w["promptTokenCount"] = b.input /\ w["candidatesTokenCount"] = 0
      /\ w["thoughtsTokenCount"] = b.reasoning /\ w["cachedContentTokenCount"] = b.read
  BY <1>1
<1> HIDE DEF w
<1>3. ParseGemini(u) = [input |-> b.input, output |-> b.output, read |-> b.read,
                       written |-> None, reasoning |-> b.reasoning, cost |-> NoCost]
  BY <1>0, <1>1, Counts DEF ParseGemini, Stated
<1>4. ParseGemini(w) = [input |-> b.input, output |-> b.reasoning, read |-> b.read,
                       written |-> None, reasoning |-> b.reasoning, cost |-> NoCost]
  BY <1>0, <1>2, Counts DEF ParseGemini, Stated
<1>5. Due("gemini", b) = [input |-> b.input, output |-> b.output, read |-> b.read,
                         written |-> None, reasoning |-> b.reasoning, cost |-> NoCost]
  BY DEF Due
<1>6. ParseGemini(w) \in Usage
  BY <1>0, <1>4, Counts, Costs DEF Usage
<1>7. Merge(ParseGemini(w), Due("gemini", b)) = Due("gemini", b)
  <2> DEFINE e == ParseGemini(w)
             n == Due("gemini", b)
  <2>1. Merge(e, n) = [input     |-> IF n.input # None THEN n.input ELSE e.input,
                       output    |-> IF n.output # None THEN n.output ELSE e.output,
                       read      |-> IF n.read # None THEN n.read ELSE e.read,
                       written   |-> IF n.written # None THEN n.written ELSE e.written,
                       reasoning |-> IF n.reasoning # None THEN n.reasoning ELSE e.reasoning,
                       cost      |-> IF n.cost # NoCost THEN n.cost ELSE e.cost]
    BY <1>6, MergeFields
  <2>2. /\ n.input = b.input /\ n.output = b.output /\ n.read = b.read
        /\ n.written = None /\ n.reasoning = b.reasoning /\ n.cost = NoCost
    BY <1>5
  <2>3. e.written = None /\ e.cost = NoCost
    BY <1>4
  <2>4. b.input # None /\ b.output # None /\ b.read # None /\ b.reasoning # None
    BY <1>0, Counts
  <2> HIDE DEF e, n
  <2>5. Merge(e, n) = [input |-> b.input, output |-> b.output, read |-> b.read,
                       written |-> None, reasoning |-> b.reasoning, cost |-> NoCost]
    BY <2>1, <2>2, <2>3, <2>4
  <2> QED
    BY <1>5, <2>5 DEF e, n
<1>8. GeminiEarly(b) = ParseGemini(w)
  BY DEF GeminiEarly, w, u
<1> QED
  BY <1>3, <1>5, <1>6, <1>7, <1>8 DEF u

-----------------------------------------------------------------------------
(***************************************************************************)
(* What a whole response says                                              *)
(***************************************************************************)
LEMMA ObjectTells ==
  ASSUME NEW p, NEW type, NEW place, NEW uses, NEW names, NEW l
  PROVE  /\ l \notin place \/ uses = {} => Told(p, Object(type, place, uses, names), l) = NoUsage
         /\ \A x : l \in place /\ uses = {x} => Told(p, Object(type, place, uses, names), l) = Parse(p, x)
         /\ ShouldParse(Object(type, place, uses, names))
              <=> type \in {"message_start", "message_delta"} \/ place # {}
         /\ Object(type, place, uses, names).type = type
<1> DEFINE o == Object(type, place, uses, names)
<1>1. o.type = type /\ DOMAIN o.says = place /\ \A k \in place : o.says[k] = uses
  BY DEF Object
<1> HIDE DEF o
<1>2. l \notin place \/ uses = {} => Told(p, o, l) = NoUsage
  BY <1>1 DEF Told
<1>3. ASSUME NEW x, l \in place, uses = {x} PROVE Told(p, o, l) = Parse(p, x)
  <2>1. o.says[l] = {x} /\ l \in DOMAIN o.says
    BY <1>1, <1>3
  <2>2. Told(p, o, l) = Parse(p, CHOOSE u \in {x} : TRUE)
    BY <2>1 DEF Told
  <2> QED
    BY <2>2, Only
<1>4. ShouldParse(o) <=> type \in {"message_start", "message_delta"} \/ place # {}
  BY <1>1 DEF ShouldParse
<1> QED
  BY <1>1, <1>2, <1>3, <1>4 DEF o

LEMMA MergeIsUsage ==
  ASSUME NEW old \in Usage, NEW new \in Usage
  PROVE  Merge(old, new) \in Usage
<1> DEFINE m(a, b) == IF b # None THEN b ELSE a
           c(a, b) == IF b # NoCost THEN b ELSE a
<1>1. Merge(old, new) =
        [input |-> m(old.input, new.input), output |-> m(old.output, new.output),
         read |-> m(old.read, new.read), written |-> m(old.written, new.written),
         reasoning |-> m(old.reasoning, new.reasoning), cost |-> c(old.cost, new.cost)]
  BY MergeFields
<1>2. /\ \A a \in Int, b \in Int : m(a, b) \in Int
      /\ \A a \in Dollars, b \in Dollars : c(a, b) \in Dollars
  OBVIOUS
<1>3. /\ old.input \in Int /\ old.output \in Int /\ old.read \in Int
      /\ old.written \in Int /\ old.reasoning \in Int /\ old.cost \in Dollars
      /\ new.input \in Int /\ new.output \in Int /\ new.read \in Int
      /\ new.written \in Int /\ new.reasoning \in Int /\ new.cost \in Dollars
  BY DEF Usage
<1> HIDE DEF m, c
<1> QED
  BY <1>1, <1>2, <1>3 DEF Usage

\* An object that tells nothing changes nothing.
LEMMA Silent ==
  ASSUME NEW p, NEW type, NEW place, NEW names, NEW u \in Usage
  PROVE  Effect(p, Object(type, place, {}, names), u) = u
<1> DEFINE o == Object(type, place, {}, names)
<1>1. \A l : Told(p, o, l) = NoUsage
  BY ObjectTells
<1>2. Merge(u, NoUsage) = u
  BY MergeNothing
<1> HIDE DEF o
<1>3. MergeAnthropicSse(p, o, u) = u /\ MergeGeminiSse(p, o, u) = u /\ MergeOpenaiSse(p, o, u) = u
  BY <1>1, <1>2 DEF MergeAnthropicSse, MergeGeminiSse, MergeOpenaiSse
<1>4. Effect(p, o, u) = u
  BY <1>3 DEF Effect, MergeSse
<1> QED
  BY <1>4 DEF o

\* Where a provider of each shape reports.
Reports(p, type, l) ==
  \/ Shape(p) = "anthropic" /\ type = "message_start" /\ l = "message"
  \/ Shape(p) = "anthropic" /\ type = "message_delta" /\ l = "usage"
  \/ Shape(p) = "gemini" /\ l = "usageMetadata"
  \/ Shape(p) = "openai" /\ l \in {"usage", "response", "x_groq"}

\* An object is merged at the one place where it tells something.
LEMMA OneVoice ==
  ASSUME NEW p, NEW o, NEW l, NEW u \in Usage, Reports(p, o.type, l),
         Told(p, o, l) \in Usage, \A k : k # l => Told(p, o, k) = NoUsage
  PROVE  MergeSse(p, o, u) = Merge(u, Told(p, o, l))
<1> DEFINE v == Told(p, o, l)
           t == Merge(u, v)
<1>1. t \in Usage /\ Merge(u, NoUsage) = u
  BY MergeIsUsage, MergeNothing
<1>2. Merge(t, NoUsage) = t
  BY <1>1, MergeNothing
<1>3. CASE Shape(p) = "anthropic"
  <2>1. l = IF o.type = "message_start" THEN "message" ELSE "usage"
    BY <1>3 DEF Reports
  <2>2. MergeAnthropicSse(p, o, u) = t
    BY <2>1 DEF MergeAnthropicSse
  <2> QED
    BY <1>3, <2>2 DEF MergeSse
<1>4. CASE Shape(p) = "gemini"
  <2>1. l = "usageMetadata"
    BY <1>4 DEF Reports
  <2>2. MergeGeminiSse(p, o, u) = t
    BY <2>1 DEF MergeGeminiSse
  <2> QED
    BY <1>4, <2>2 DEF MergeSse
<1>5. CASE Shape(p) \notin {"anthropic", "gemini"}
  <2>1. l \in {"usage", "response", "x_groq"}
    BY <1>5 DEF Reports
  <2>2. ASSUME l = "usage" PROVE MergeOpenaiSse(p, o, u) = t
    <3>1. Told(p, o, "usage") = v /\ Told(p, o, "response") = NoUsage /\ Told(p, o, "x_groq") = NoUsage
      BY <2>2
    <3> HIDE DEF v
    <3> QED
      BY <3>1, <1>2 DEF MergeOpenaiSse
  <2>3. ASSUME l = "response" PROVE MergeOpenaiSse(p, o, u) = t
    <3>1. Told(p, o, "usage") = NoUsage /\ Told(p, o, "response") = v /\ Told(p, o, "x_groq") = NoUsage
      BY <2>3
    <3> HIDE DEF v
    <3> QED
      BY <3>1, <1>1, <1>2 DEF MergeOpenaiSse
  <2>4. ASSUME l = "x_groq" PROVE MergeOpenaiSse(p, o, u) = t
    <3>1. Told(p, o, "usage") = NoUsage /\ Told(p, o, "response") = NoUsage /\ Told(p, o, "x_groq") = v
      BY <2>4
    <3> HIDE DEF v
    <3> QED
      BY <3>1, <1>1 DEF MergeOpenaiSse
  <2>5. MergeOpenaiSse(p, o, u) = t
    BY <2>1, <2>2, <2>3, <2>4
  <2> QED
    BY <1>5, <2>5 DEF MergeSse
<1> QED
  BY <1>3, <1>4, <1>5

LEMMA Telling ==
  ASSUME NEW p, NEW type, NEW l, NEW x, NEW names, NEW u \in Usage,
         Reports(p, type, l), Parse(p, x) \in Usage
  PROVE  Effect(p, Object(type, {l}, {x}, names), u) = Merge(u, Parse(p, x))
<1> DEFINE o == Object(type, {l}, {x}, names)
<1>1. Told(p, o, l) = Parse(p, x) /\ ShouldParse(o) /\ o.type = type
  BY ObjectTells
<1>2. ASSUME NEW k, k # l PROVE Told(p, o, k) = NoUsage
  <2>1. k \notin {l}
    BY <1>2
  <2> QED
    BY <2>1, ObjectTells
<1> HIDE DEF o
<1>3. MergeSse(p, o, u) = Merge(u, Told(p, o, l))
  BY <1>1, <1>2, OneVoice
<1>4. Effect(p, o, u) = Merge(u, Parse(p, x))
  BY <1>1, <1>3 DEF Effect
<1> QED
  BY <1>4 DEF o

LEMMA RepeatedIsSeq ==
  ASSUME NEW S, NEW d \in S, NEW n \in Nat
  PROVE  Repeated(d, n) \in Seq(S)
BY DEF Repeated

\* How a chat stream nobody asked for its usage comes to say nothing.
Untold(p) == Shape(p) = "openai" /\ p # "groq" /\ ~ResponsesApi(p) /\ ~Asked

LEMMA ShapesOfProviders ==
  ASSUME NEW p \in Provider
  PROVE  /\ Shape(p) = "anthropic" => p = "anthropic" /\ ~ResponsesApi(p)
         /\ Shape(p) = "gemini" => p = "gemini" /\ ~ResponsesApi(p)
         /\ Shape(p) \notin {"anthropic", "gemini"} => Shape(p) = "openai"
         /\ p = "groq" => Shape(p) = "openai" /\ ~ResponsesApi(p)
BY DEF Shape, ResponsesApi

\* A body that is no stream says all of a bill.
LEMMA WholeTells ==
  ASSUME NEW p \in Provider, NEW b \in Bill, b.reasoning <= b.output
  PROVE  Told(p, Whole(p, b), JsonUsageKey(p)) = Due(p, b)
<1>1. CASE Shape(p) = "anthropic"
  <2> DEFINE x == AnthropicUsage(AnthropicStart \cup {"output_tokens"}, b)
  <2>1. p = "anthropic" /\ ~ResponsesApi(p) /\ JsonUsageKey(p) = "usage"
    BY <1>1, ShapesOfProviders DEF JsonUsageKey
  <2>2. Whole(p, b) = Object("chunk", {"usage"}, {x}, "model")
    BY <1>1 DEF Whole
  <2>3. Parse(p, x) = ParseAnthropic(x)
    BY <1>1 DEF Parse
  <2>4. ParseAnthropic(x) = Due(p, b)
    BY <2>1, AnthropicSays
  <2> QED
    BY <2>1, <2>2, <2>3, <2>4, ObjectTells
<1>2. CASE Shape(p) = "gemini"
  <2> DEFINE x == GeminiUsage(b)
  <2>1. p = "gemini" /\ JsonUsageKey(p) = "usageMetadata"
    BY <1>2, ShapesOfProviders DEF JsonUsageKey
  <2>2. Whole(p, b) = Object("chunk", {"usageMetadata"}, {x}, "modelVersion")
    BY <1>2 DEF Whole
  <2>3. Parse(p, x) = ParseGemini(x)
    BY <1>2 DEF Parse
  <2>4. ParseGemini(x) = Due(p, b)
    BY <2>1, GeminiSays
  <2> QED
    BY <2>1, <2>2, <2>3, <2>4, ObjectTells
<1>3. CASE Shape(p) \notin {"anthropic", "gemini"}
  <2> DEFINE x == IF ResponsesApi(p) THEN ResponsesUsage(b) ELSE ChatUsage(p, b)
  <2>1. Shape(p) = "openai" /\ JsonUsageKey(p) = "usage"
    BY <1>3, ShapesOfProviders DEF JsonUsageKey, Shape
  <2>2. Whole(p, b) = Object("chunk", {"usage"}, {x}, "model")
    BY <1>3 DEF Whole
  <2>3. Parse(p, x) = ParseOpenai(x)
    BY <1>3 DEF Parse
  <2>4. ParseOpenai(x) = Due(p, b)
    BY <2>1, ChatSays, ResponsesSay
  <2> QED
    BY <2>1, <2>2, <2>3, <2>4, ObjectTells
<1> QED
  BY <1>1, <1>2, <1>3

\* Objects that repeat themselves, then a last one that makes t of what there is either way.
LEMMA Closed ==
  ASSUME NEW p, NEW d, NEW e, NEW n \in Nat,
         NEW u \in Usage, NEW v \in Usage, NEW t \in Usage,
         Effect(p, d, u) = v, Effect(p, d, v) = v, Effect(p, e, u) = t, Effect(p, e, v) = t
  PROVE  /\ Repeated(d, n) \o <<e>> \in Seq({d, e})
         /\ LeadsTo(p, Repeated(d, n) \o <<e>>, u, t)
<1> DEFINE S == {d, e}
           w == IF n = 0 THEN u ELSE v
<1>1. d \in S /\ e \in S /\ w \in Usage /\ Effect(p, e, w) = t
  OBVIOUS
<1> HIDE DEF S
<1>2. LeadsTo(p, Repeated(d, n), u, w)
  BY LeadsRepeatedly
<1> HIDE DEF w
<1>3. LeadsTo(p, <<e>>, w, t)
  BY <1>1, LeadsOnce
<1>4. Repeated(d, n) \in Seq(S) /\ <<e>> \in Seq(S)
  BY <1>1, RepeatedIsSeq
<1>5. Repeated(d, n) \o <<e>> \in Seq(S)
  BY <1>4
<1>6. LeadsTo(p, Repeated(d, n) \o <<e>>, u, t)
  BY <1>2, <1>3, <1>4, LeadsThrough
<1> QED
  BY <1>5, <1>6 DEF S

\* A first object, the same ones in between that change nothing, and a last one.
LEMMA Framed ==
  ASSUME NEW p, NEW c, NEW d, NEW e, NEW n \in Nat,
         NEW u \in Usage, NEW v \in Usage, NEW t \in Usage,
         Effect(p, c, u) = v, Effect(p, d, v) = v, Effect(p, e, v) = t
  PROVE  /\ <<c>> \o Repeated(d, n) \o <<e>> \in Seq({c, d, e})
         /\ LeadsTo(p, <<c>> \o Repeated(d, n) \o <<e>>, u, t)
<1> DEFINE S == {c, d, e}
<1>1. c \in S /\ d \in S /\ e \in S
  OBVIOUS
<1> HIDE DEF S
<1>2. LeadsTo(p, <<c>>, u, v) /\ LeadsTo(p, <<e>>, v, t)
  BY LeadsOnce
<1>3. LeadsTo(p, Repeated(d, n), v, v)
  <2>1. LeadsTo(p, Repeated(d, n), v, IF n = 0 THEN v ELSE v)
    BY LeadsRepeatedly
  <2> QED
    BY <2>1
<1>4. <<c>> \in Seq(S) /\ Repeated(d, n) \in Seq(S) /\ <<e>> \in Seq(S)
  BY <1>1, RepeatedIsSeq
<1>5. <<c>> \o Repeated(d, n) \in Seq(S) /\ <<c>> \o Repeated(d, n) \o <<e>> \in Seq(S)
  BY <1>4
<1>6. LeadsTo(p, <<c>> \o Repeated(d, n), u, v)
  BY <1>2, <1>3, <1>4, LeadsThrough
<1>7. LeadsTo(p, <<c>> \o Repeated(d, n) \o <<e>>, u, t)
  BY <1>2, <1>4, <1>5, <1>6, LeadsThrough
<1> QED
  BY <1>5, <1>7 DEF S

\* So does a stream of any length, if it is asked to where it has to be asked.
LEMMA StreamTells ==
  ASSUME NEW p \in Provider, NEW b \in Bill, b.reasoning <= b.output, NEW n \in Nat
  PROVE  \E S : /\ Stream(p, b, n) \in Seq(S)
                /\ LeadsTo(p, Stream(p, b, n), NoUsage, IF Untold(p) THEN NoUsage ELSE Due(p, b))
<1> DEFINE due == Due(p, b)
<1>0. NoUsage \in Usage /\ due \in Usage /\ Merge(NoUsage, due) = due /\ Merge(due, due) = due
  BY Counts, DueIsUsage, MergeNothing
<1>1. CASE Shape(p) = "anthropic"
  <2> DEFINE early == [AnthropicUsage(AnthropicStart \cup {"output_tokens"}, b) EXCEPT !.output_tokens = 1]
             late == AnthropicUsage({"output_tokens"}, b)
             c == Object("message_start", {"message"}, {early}, "message_model")
             d == Delta("none")
             e == Object("message_delta", {"usage"}, {late}, "none")
             v == ParseAnthropic(early)
  <2>1. p = "anthropic" /\ ~ResponsesApi(p) /\ ~Untold(p)
    BY <1>1, ShapesOfProviders DEF Untold
  <2>2. Stream(p, b, n) = <<c>> \o Repeated(d, n) \o <<e>>
    BY <1>1 DEF Stream
  <2>3. Parse(p, early) = v /\ Parse(p, late) = ParseAnthropic(late)
    BY <1>1 DEF Parse
  <2>4. v \in Usage /\ Merge(v, ParseAnthropic(late)) = due
    BY <2>1, AnthropicSays DEF AnthropicEarly
  <2>5. ParseAnthropic(late) \in Usage
    BY Counts, Costs DEF ParseAnthropic, AnthropicUsage, Stated, Usage, Bill
  <2>6. Merge(NoUsage, v) = v
    BY <2>4, MergeNothing
  <2> HIDE DEF v
  <2>7. Effect(p, c, NoUsage) = v
    <3>1. Reports(p, "message_start", "message")
      BY <1>1 DEF Reports
    <3>2. Effect(p, c, NoUsage) = Merge(NoUsage, v)
      BY <3>1, <2>3, <2>4, <1>0, Telling DEF v
    <3> QED
      BY <3>2, <2>6
  <2>8. Effect(p, d, v) = v
    BY <2>4, Silent DEF Delta
  <2>9. Effect(p, e, v) = due
    <3>1. Reports(p, "message_delta", "usage")
      BY <1>1 DEF Reports
    <3>2. Effect(p, e, v) = Merge(v, ParseAnthropic(late))
      BY <3>1, <2>3, <2>4, <2>5, Telling
    <3> QED
      BY <3>2, <2>4
  <2> HIDE DEF c, d, e
  <2>10. /\ <<c>> \o Repeated(d, n) \o <<e>> \in Seq({c, d, e})
         /\ LeadsTo(p, <<c>> \o Repeated(d, n) \o <<e>>, NoUsage, due)
    BY <1>0, <2>4, <2>7, <2>8, <2>9, Framed
  <2> QED
    BY <2>1, <2>2, <2>10
<1>2. CASE Shape(p) = "gemini"
  <2> DEFINE x == GeminiUsage(b)
             early == [x EXCEPT !.candidatesTokenCount = 0]
             d == Object("chunk", {"usageMetadata"}, {early}, "modelVersion")
             e == Object("chunk", {"usageMetadata"}, {x}, "modelVersion")
             v == ParseGemini(early)
  <2>1. p = "gemini" /\ ~Untold(p)
    BY <1>2, ShapesOfProviders DEF Untold
  <2>2. Stream(p, b, n) = Repeated(d, n) \o <<e>>
    BY <1>2 DEF Stream
  <2>3. ParseGemini(x) = due /\ v \in Usage /\ Merge(v, due) = due
    BY <2>1, GeminiSays DEF GeminiEarly
  <2>4. Parse(p, x) = due /\ Parse(p, early) = v
    BY <1>2, <2>3 DEF Parse
  <2>5. Reports(p, "chunk", "usageMetadata")
    BY <1>2 DEF Reports
  <2>6. Merge(NoUsage, v) = v /\ Merge(v, v) = v
    BY <2>3, MergeNothing
  <2>7. Effect(p, d, NoUsage) = v /\ Effect(p, d, v) = v
    <3> HIDE DEF v, x
    <3> QED
      BY <1>0, <2>3, <2>4, <2>5, <2>6, Telling
  <2>8. Effect(p, e, NoUsage) = due /\ Effect(p, e, v) = due
    <3> HIDE DEF v, x
    <3> QED
      BY <1>0, <2>3, <2>4, <2>5, Telling
  <2> HIDE DEF d, e, v
  <2>9. Repeated(d, n) \o <<e>> \in Seq({d, e}) /\ LeadsTo(p, Repeated(d, n) \o <<e>>, NoUsage, due)
    BY <1>0, <2>3, <2>7, <2>8, Closed
  <2> QED
    BY <2>1, <2>2, <2>9
<1>3. CASE Shape(p) = "openai" /\ ResponsesApi(p)
  <2> DEFINE x == ResponsesUsage(b)
             c == Object("created", {"response"}, {}, "response_model")
             d == Delta("none")
             e == Object("completed", {"response"}, {x}, "response_model")
  <2>1. ~Untold(p)
    BY <1>3 DEF Untold
  <2>2. Stream(p, b, n) = <<c>> \o Repeated(d, n) \o <<e>>
    BY <1>3 DEF Stream
  <2>3. Parse(p, x) = due
    <3>1. Parse(p, x) = ParseOpenai(x)
      BY <1>3 DEF Parse
    <3> QED
      BY <1>3, <3>1, ResponsesSay
  <2>4. Reports(p, "completed", "response")
    BY <1>3 DEF Reports
  <2>5. Effect(p, c, NoUsage) = NoUsage /\ Effect(p, d, NoUsage) = NoUsage
    BY <1>0, Silent DEF Delta
  <2>6. Effect(p, e, NoUsage) = due
    BY <1>0, <2>3, <2>4, Telling
  <2> HIDE DEF c, d, e
  <2>7. /\ <<c>> \o Repeated(d, n) \o <<e>> \in Seq({c, d, e})
        /\ LeadsTo(p, <<c>> \o Repeated(d, n) \o <<e>>, NoUsage, due)
    BY <1>0, <2>5, <2>6, Framed
  <2> QED
    BY <2>1, <2>2, <2>7
<1>4. CASE Shape(p) = "openai" /\ ~ResponsesApi(p)
  <2> DEFINE x == ChatUsage(p, b)
  <2>1. Parse(p, x) = due
    <3>1. Parse(p, x) = ParseOpenai(x)
      BY <1>4 DEF Parse
    <3> QED
      BY <1>4, <3>1, ChatSays
  <2>2. Reports(p, "chunk", "usage") /\ Reports(p, "chunk", "x_groq")
    BY <1>4 DEF Reports
  <2>3. CASE p = "groq"
    <3> DEFINE d == Delta("model")
               e == Object("chunk", {"x_groq"}, {x}, "model")
    <3>1. Stream(p, b, n) = Repeated(d, n) \o <<e>>
      BY <1>4, <2>3 DEF Stream
    <3>2. Effect(p, d, NoUsage) = NoUsage
      BY <1>0, Silent DEF Delta
    <3>3. Effect(p, e, NoUsage) = due
      BY <1>0, <2>1, <2>2, Telling
    <3>4. ~Untold(p)
      BY <2>3 DEF Untold
    <3> HIDE DEF d, e
    <3>5. Repeated(d, n) \o <<e>> \in Seq({d, e}) /\ LeadsTo(p, Repeated(d, n) \o <<e>>, NoUsage, due)
      BY <1>0, <3>2, <3>3, Closed
    <3> QED
      BY <3>1, <3>4, <3>5
  <2>4. CASE p # "groq" /\ Asked
    <3> DEFINE d == Object("chunk", {"usage"}, {}, "model")
               e == Object("chunk", {"usage"}, {x}, "model")
    <3>1. Stream(p, b, n) = Repeated(d, n) \o <<e>>
      BY <1>4, <2>4 DEF Stream
    <3>2. Effect(p, d, NoUsage) = NoUsage
      BY <1>0, Silent
    <3>3. Effect(p, e, NoUsage) = due
      BY <1>0, <2>1, <2>2, Telling
    <3>4. ~Untold(p)
      BY <2>4 DEF Untold
    <3> HIDE DEF d, e
    <3>5. Repeated(d, n) \o <<e>> \in Seq({d, e}) /\ LeadsTo(p, Repeated(d, n) \o <<e>>, NoUsage, due)
      BY <1>0, <3>2, <3>3, Closed
    <3> QED
      BY <3>1, <3>4, <3>5
  <2>5. CASE p # "groq" /\ ~Asked
    <3> DEFINE d == Delta("model")
    <3>1. Stream(p, b, n) = Repeated(d, n)
      BY <1>4, <2>5 DEF Stream
    <3>2. Effect(p, d, NoUsage) = NoUsage
      BY <1>0, Silent DEF Delta
    <3>3. Untold(p)
      BY <1>4, <2>5 DEF Untold
    <3> HIDE DEF d
    <3>4. LeadsTo(p, Repeated(d, n), NoUsage, IF n = 0 THEN NoUsage ELSE NoUsage)
      BY <1>0, <3>2, LeadsRepeatedly
    <3>5. Repeated(d, n) \in Seq({d})
      BY RepeatedIsSeq
    <3> QED
      BY <3>1, <3>3, <3>4, <3>5
  <2> QED
    BY <2>3, <2>4, <2>5
<1> QED
  BY <1>1, <1>2, <1>3, <1>4, ShapesOfProviders

\* One kind of object and a last one; a first one, one kind of object and a last one.
Ended(d, n, e)    == Repeated(d, n) \o <<e>>
Begun(c, d, n, e) == <<c>> \o Repeated(d, n) \o <<e>>

\* The places of what is put together.
LEMMA RepeatedAt ==
  ASSUME NEW d, NEW n \in Nat
  PROVE  /\ Len(Repeated(d, n)) = n /\ DOMAIN Repeated(d, n) = 1..n
         /\ \A i \in 1..n : Repeated(d, n)[i] = d
<1>1. Repeated(d, n) \in Seq({d})
  BY RepeatedIsSeq
<1> QED
  BY <1>1 DEF Repeated

LEMMA EndedAt ==
  ASSUME NEW d, NEW e, NEW n \in Nat
  PROVE  /\ Len(Ended(d, n, e)) = n + 1 /\ Ended(d, n, e)[n + 1] = e
         /\ \A i \in 1..n : Ended(d, n, e)[i] = d
<1> DEFINE r == Repeated(d, n)
           S == {d, e}
<1>1. Len(r) = n /\ \A i \in 1..n : r[i] = d
  BY RepeatedAt
<1>2. d \in S /\ e \in S
  OBVIOUS
<1> HIDE DEF S
<1>3. r \in Seq(S) /\ <<e>> \in Seq(S)
  BY <1>2, RepeatedIsSeq
<1> HIDE DEF r
<1>4. /\ Len(r \o <<e>>) = n + 1 /\ (r \o <<e>>)[n + 1] = e
      /\ \A i \in 1..n : (r \o <<e>>)[i] = d
  BY <1>1, <1>3
<1> QED
  BY <1>4 DEF r, Ended

LEMMA EndedIsSeq ==
  ASSUME NEW S, NEW d \in S, NEW e \in S, NEW n \in Nat
  PROVE  Ended(d, n, e) \in Seq(S)
BY RepeatedIsSeq DEF Ended

LEMMA BegunIsSeq ==
  ASSUME NEW S, NEW c \in S, NEW d \in S, NEW e \in S, NEW n \in Nat
  PROVE  Begun(c, d, n, e) \in Seq(S)
<1>1. <<c>> \in Seq(S) /\ Repeated(d, n) \in Seq(S) /\ <<e>> \in Seq(S)
  BY RepeatedIsSeq
<1> QED
  BY <1>1 DEF Begun

LEMMA BegunAt ==
  ASSUME NEW c, NEW d, NEW e, NEW n \in Nat
  PROVE  /\ Len(Begun(c, d, n, e)) = n + 2
         /\ Begun(c, d, n, e)[1] = c /\ Begun(c, d, n, e)[n + 2] = e
         /\ \A i \in 2..(n + 1) : Begun(c, d, n, e)[i] = d
<1> DEFINE r == Repeated(d, n)
           S == {c, d, e}
           q == <<c>> \o r
<1>1. Len(r) = n /\ \A i \in 1..n : r[i] = d
  BY RepeatedAt
<1>2. c \in S /\ d \in S /\ e \in S
  OBVIOUS
<1> HIDE DEF S
<1>3. <<c>> \in Seq(S) /\ r \in Seq(S) /\ <<e>> \in Seq(S)
  BY <1>2, RepeatedIsSeq
<1> HIDE DEF r
<1>4. q \in Seq(S) /\ Len(q) = n + 1 /\ q[1] = c
  BY <1>1, <1>3
<1>5. ASSUME NEW i \in 2..(n + 1) PROVE q[i] = d
  <2>1. i - 1 \in 1..n /\ i > Len(<<c>>) /\ i <= Len(<<c>>) + Len(r) /\ Len(<<c>>) = 1
    BY <1>1
  <2>2. q[i] = r[i - 1]
    BY <1>3, <2>1
  <2> QED
    BY <1>1, <2>1, <2>2
<1> HIDE DEF q
<1>6. /\ Len(q \o <<e>>) = n + 2 /\ (q \o <<e>>)[n + 2] = e
      /\ \A i \in 1..(n + 1) : (q \o <<e>>)[i] = q[i]
  BY <1>3, <1>4
<1>7. (q \o <<e>>)[1] = c /\ \A i \in 2..(n + 1) : (q \o <<e>>)[i] = d
  BY <1>4, <1>5, <1>6
<1> QED
  BY <1>6, <1>7 DEF q, r, Begun

-----------------------------------------------------------------------------
(***************************************************************************)
(* What the objects of a stream are like                                   *)
(***************************************************************************)
\* It has one usage, null or not, and has it where its provider reports.
AsReported(p, o) ==
  ShouldParse(o) =>
    \E l \in Place : /\ DOMAIN o.says = {l} /\ Reports(p, o.type, l)
                     /\ o.says[l] = {} \/ \E x : o.says[l] = {x} /\ Parse(p, x) \in Usage

Names(o) == ModelFromResponse(o) # "none"

\* One that tells names the model too.
NamesIfTelling(o) == ShouldParse(o) => Names(o)

LEMMA OneReport ==
  ASSUME NEW p, NEW type, NEW l \in Place, NEW uses, NEW names, Reports(p, type, l),
         uses = {} \/ \E x : uses = {x} /\ Parse(p, x) \in Usage
  PROVE  AsReported(p, Object(type, {l}, uses, names))
<1> DEFINE o == Object(type, {l}, uses, names)
<1>1. o.type = type /\ DOMAIN o.says = {l} /\ o.says[l] = uses
  BY DEF Object
<1> HIDE DEF o
<1>2. AsReported(p, o)
  BY <1>1 DEF AsReported
<1> QED
  BY <1>2 DEF o

LEMMA DeltasAreMute ==
  ASSUME NEW names
  PROVE  ~ShouldParse(Delta(names))
BY DEF ShouldParse, Delta, Object

LEMMA ObjectNames ==
  ASSUME NEW type, NEW place, NEW uses, NEW names
  PROVE  Names(Object(type, place, uses, names)) <=> names \in {"model", "message_model", "modelVersion"}
BY DEF Names, ModelFromResponse, Object

\* A stream is a first object, mute ones and a last one; or one kind of object, then a last
\* one; or mute objects alone.
StreamParts(p, s, n, c, d, e) ==
  \/ /\ s = Begun(c, d, n, e)
     /\ AsReported(p, c) /\ ~ShouldParse(d) /\ AsReported(p, e)
     /\ (Names(c) /\ ShouldParse(c)) \/ ResponsesApi(p)
  \/ /\ s = Ended(d, n, e)
     /\ AsReported(p, d) /\ AsReported(p, e)
     /\ NamesIfTelling(d) /\ NamesIfTelling(e)
  \/ s = Repeated(d, n) /\ ~ShouldParse(d)

LEMMA StreamsHaveParts ==
  ASSUME NEW p \in Provider, NEW b \in Bill, b.reasoning <= b.output, NEW n \in Nat
  PROVE  \E c, d, e : StreamParts(p, Stream(p, b, n), n, c, d, e)
<1> DEFINE due == Due(p, b)
<1>0. due \in Usage
  BY DueIsUsage
<1> HIDE DEF due
<1>1. CASE Shape(p) = "anthropic"
  <2> DEFINE early == [AnthropicUsage(AnthropicStart \cup {"output_tokens"}, b) EXCEPT !.output_tokens = 1]
             late == AnthropicUsage({"output_tokens"}, b)
             c == Object("message_start", {"message"}, {early}, "message_model")
             d == Delta("none")
             e == Object("message_delta", {"usage"}, {late}, "none")
  <2>1. p = "anthropic" /\ ~ResponsesApi(p)
    BY <1>1, ShapesOfProviders
  <2>2. Stream(p, b, n) = Begun(c, d, n, e)
    BY <1>1 DEF Stream, Ended, Begun
  <2>3. Parse(p, early) = ParseAnthropic(early) /\ Parse(p, late) = ParseAnthropic(late)
    BY <1>1 DEF Parse
  <2>4. ParseAnthropic(early) \in Usage
    BY <2>1, AnthropicSays DEF AnthropicEarly
  <2>5. ParseAnthropic(late) \in Usage
    BY Counts, Costs DEF ParseAnthropic, AnthropicUsage, Stated, Usage, Bill
  <2>6. Reports(p, "message_start", "message") /\ Reports(p, "message_delta", "usage")
        /\ "message" \in Place /\ "usage" \in Place
    BY <1>1 DEF Reports, Place
  <2> HIDE DEF early, late
  <2>7. AsReported(p, c) /\ AsReported(p, e)
    BY <2>3, <2>4, <2>5, <2>6, OneReport
  <2>8. ~ShouldParse(d) /\ ShouldParse(c) /\ Names(c)
    BY DeltasAreMute, ObjectTells, ObjectNames
  <2> HIDE DEF c, d, e
  <2> QED
    BY <2>2, <2>7, <2>8 DEF StreamParts
<1>2. CASE Shape(p) = "gemini"
  <2> DEFINE x == GeminiUsage(b)
             early == [x EXCEPT !.candidatesTokenCount = 0]
             d == Object("chunk", {"usageMetadata"}, {early}, "modelVersion")
             e == Object("chunk", {"usageMetadata"}, {x}, "modelVersion")
  <2>1. p = "gemini"
    BY <1>2, ShapesOfProviders
  <2>2. Stream(p, b, n) = Ended(d, n, e)
    BY <1>2 DEF Stream, Ended, Begun
  <2>3. ParseGemini(x) = Due(p, b) /\ ParseGemini(early) \in Usage
    BY <2>1, GeminiSays DEF GeminiEarly
  <2>4. Parse(p, x) \in Usage /\ Parse(p, early) \in Usage
    BY <1>0, <1>2, <2>3 DEF Parse, due
  <2>5. Reports(p, "chunk", "usageMetadata") /\ "usageMetadata" \in Place
    BY <1>2 DEF Reports, Place
  <2> HIDE DEF early, x
  <2>6. AsReported(p, d) /\ AsReported(p, e)
    BY <2>4, <2>5, OneReport
  <2>7. Names(d) /\ Names(e)
    BY ObjectNames
  <2> HIDE DEF d, e
  <2> QED
    BY <2>2, <2>6, <2>7 DEF StreamParts, NamesIfTelling
<1>3. CASE Shape(p) = "openai" /\ ResponsesApi(p)
  <2> DEFINE x == ResponsesUsage(b)
             c == Object("created", {"response"}, {}, "response_model")
             d == Delta("none")
             e == Object("completed", {"response"}, {x}, "response_model")
  <2>1. Stream(p, b, n) = Begun(c, d, n, e)
    BY <1>3 DEF Stream, Ended, Begun
  <2>2. Parse(p, x) \in Usage
    <3>1. Parse(p, x) = ParseOpenai(x)
      BY <1>3 DEF Parse
    <3> QED
      BY <1>0, <1>3, <3>1, ResponsesSay DEF due
  <2>3. Reports(p, "created", "response") /\ Reports(p, "completed", "response") /\ "response" \in Place
    BY <1>3 DEF Reports, Place
  <2> HIDE DEF x
  <2>4. AsReported(p, c) /\ AsReported(p, e)
    BY <2>2, <2>3, OneReport
  <2>5. ~ShouldParse(d)
    BY DeltasAreMute
  <2> HIDE DEF c, d, e
  <2> QED
    BY <1>3, <2>1, <2>4, <2>5 DEF StreamParts
<1>4. CASE Shape(p) = "openai" /\ ~ResponsesApi(p)
  <2> DEFINE x == ChatUsage(p, b)
             d == Delta("model")
             silent == Object("chunk", {"usage"}, {}, "model")
             last == Object("chunk", {"usage"}, {x}, "model")
             groq == Object("chunk", {"x_groq"}, {x}, "model")
  <2>1. Parse(p, x) \in Usage
    <3>1. Parse(p, x) = ParseOpenai(x)
      BY <1>4 DEF Parse
    <3> QED
      BY <1>0, <1>4, <3>1, ChatSays DEF due
  <2>2. /\ Reports(p, "chunk", "usage") /\ Reports(p, "chunk", "x_groq")
        /\ "usage" \in Place /\ "x_groq" \in Place
    BY <1>4 DEF Reports, Place
  <2>3. \/ p = "groq" /\ Stream(p, b, n) = Ended(d, n, groq)
        \/ Stream(p, b, n) = Ended(silent, n, last)
        \/ Stream(p, b, n) = Repeated(d, n)
    BY <1>4 DEF Stream, Ended, Begun
  <2> HIDE DEF x
  <2>4. AsReported(p, silent) /\ AsReported(p, last) /\ AsReported(p, groq)
    BY <2>1, <2>2, OneReport
  <2>5. ~ShouldParse(d) /\ Names(silent) /\ Names(last) /\ Names(groq)
    BY DeltasAreMute, ObjectNames
  <2>6. AsReported(p, d)
    BY <2>5 DEF AsReported
  <2> HIDE DEF d, silent, last, groq
  <2> QED
    BY <2>3, <2>4, <2>5, <2>6 DEF StreamParts, NamesIfTelling
<1> QED
  BY <1>1, <1>2, <1>3, <1>4, ShapesOfProviders

-----------------------------------------------------------------------------
(***************************************************************************)
(* The call                                                                *)
(***************************************************************************)
\* What the usage of the row will be.
Target(b) == IF Withheld THEN NoUsage ELSE Due(provider, b)

\* The request has gone where it was addressed, with include_usage set where turnpike reads it.
SentInv ==
  stage \in {"sent", "answering", "over"} =>
    /\ provider \in Addressee(Addressed)
    /\ sent = IF NeedsBodyRead(provider) /\ InjectStreamOptions(provider)
              THEN WithIncludeUsage(request.body) ELSE request.body

\* The objects still to come make the target of what is gathered.
Gathering(b) ==
  \/ /\ Streams /\ usage \in Usage
     /\ \E S : reply \in Seq(S) /\ LeadsTo(provider, reply, usage, Target(b))
  \/ ~Streams /\ reply = <<Whole(provider, b)>>
  \/ ~Streams /\ reply = <<>> /\ usage = Target(b)

UsageInv ==
  /\ stage \in {"received", "refused", "sent"} => usage = NoUsage /\ row = {}
  /\ stage = "answering" => row = {} /\ \E b \in Bills : bill = {b} /\ Gathering(b)
  /\ stage = "over" => \E b \in Bills : /\ bill = {b}
                                       /\ \A r \in row : r.usage = Target(b)

RowInv ==
  \A r \in row :
    /\ r.anomaly <=> (r.usage = NoUsage)
    /\ r.client = ClientFromHeaders(request.header, request.agent).client
    /\ r.source = ClientFromHeaders(request.header, request.agent).source
    /\ r.exe \in {"executable", Nobody}

CallInv ==
  /\ request \in Requests
  /\ provider \in Provider
  /\ stage \in {"received", "refused", "sent", "answering", "over"}
  /\ SentInv
  /\ UsageInv
  /\ RowInv

LEMMA RequestsAreTyped ==
  ASSUME request \in Requests
  PROVE  /\ request.port \in Provider /\ request.host \in Host /\ request.authority \in Host
         /\ request.header \in {"absent", "blank", "declared"}
         /\ request.agent \in {"absent", "blank", "agent"}
         /\ request.body \in Body
<1>1. request \in Request
  BY RequestsAssumption
<1> QED
  BY <1>1 DEF Request

\* A stream has been asked for its usage, unless it is one that keeps it.
LEMMA AskedOrWithheld ==
  ASSUME request \in Requests, stage \in {"sent", "answering", "over"}, SentInv, Streams
  PROVE  Untold(provider) <=> Withheld
<1>1. request.body \in Body
  BY RequestsAreTyped
<1>2. CASE Inspectable /\ InjectStreamOptions(provider)
  <2>1. sent = WithIncludeUsage(request.body)
    BY <1>2 DEF SentInv, NeedsBodyRead
  <2>2. sent.json /\ sent.stream
    BY DEF Streams
  <2>3. request.body.json /\ request.body.stream
    BY <2>1, <2>2, <1>1 DEF WithIncludeUsage
  <2>4. sent.options.include = "yes"
    BY <2>1, <2>3, <1>1 DEF WithIncludeUsage, Body
  <2>5. Asked
    BY <2>2, <2>4 DEF Asked
  <2> QED
    BY <1>2, <2>5 DEF Untold, Withheld
<1>3. CASE ~Inspectable \/ ~InjectStreamOptions(provider)
  <2>1. sent = request.body
    BY <1>3 DEF SentInv, NeedsBodyRead
  <2>2. Asked <=> request.body.options.include = "yes"
    BY <2>1 DEF Asked, Streams
  <2> QED
    BY <1>3, <2>2 DEF Untold, Withheld, InjectStreamOptions
<1> QED
  BY <1>2, <1>3

\* Nothing but the request, the provider and the body sent decides what is due.
LEMMA TargetStays ==
  ASSUME NEW b, UNCHANGED <<request, provider, sent>>
  PROVE  /\ Target(b)' = Target(b) /\ (Streams' <=> Streams)
         /\ Whole(provider, b)' = Whole(provider, b)
BY DEF Target, Withheld, Due, ResponsesApi, Streams, Inspectable, Whole

LEMMA CallInit == Init => CallInv
<1> SUFFICES ASSUME Init PROVE CallInv
  OBVIOUS
<1>1. request \in Requests /\ stage = "received" /\ provider = request.port
      /\ usage = NoUsage /\ row = {}
  BY DEF Init
<1>2. provider \in Provider
  BY <1>1, RequestsAreTyped
<1> QED
  BY <1>1, <1>2 DEF CallInv, SentInv, UsageInv, RowInv

LEMMA CallStep == CallInv /\ [Next]_vars => CallInv'
<1> SUFFICES ASSUME CallInv, [Next]_vars PROVE CallInv'
  OBVIOUS
<1>0. /\ request \in Requests /\ provider \in Provider /\ SentInv /\ UsageInv /\ RowInv
      /\ stage \in {"received", "refused", "sent", "answering", "over"}
  BY DEF CallInv
<1>1. CASE Refuse
  <2>1. stage = "received" /\ stage' = "refused"
        /\ UNCHANGED <<request, provider, sent, bill, reply, model, usage, raw, row>>
    BY <1>1 DEF Refuse
  <2>2. usage = NoUsage /\ row = {}
    BY <1>0, <2>1 DEF UsageInv
  <2> QED
    BY <1>0, <2>1, <2>2 DEF CallInv, SentInv, UsageInv, RowInv
<1>2. CASE Forward
  <2>1. PICK p \in Addressee(Addressed) :
          /\ provider' = p
          /\ sent' = IF NeedsBodyRead(p) /\ InjectStreamOptions(p)
                     THEN WithIncludeUsage(request.body) ELSE request.body
    BY <1>2 DEF Forward
  <2>2. stage = "received" /\ stage' = "sent" /\ UNCHANGED <<request, bill, reply, usage, raw, row>>
    BY <1>2 DEF Forward
  <2>3. usage = NoUsage /\ row = {}
    BY <1>0, <2>2 DEF UsageInv
  <2>4. p \in Provider
    BY <1>0, RequestsAreTyped DEF Addressee
  <2>5. Addressee(Addressed)' = Addressee(Addressed)
    BY <2>2 DEF Addressee, Addressed
  <2>6. sent' = IF NeedsBodyRead(provider') /\ InjectStreamOptions(provider')
               THEN WithIncludeUsage(request'.body) ELSE request'.body
    BY <2>1, <2>2
  <2>7. NeedsBodyRead(provider)' = NeedsBodyRead(provider')
    BY <2>2 DEF NeedsBodyRead, Inspectable
  <2>8. SentInv'
    BY <2>1, <2>2, <2>5, <2>6, <2>7 DEF SentInv
  <2> QED
    BY <1>0, <2>1, <2>2, <2>3, <2>4, <2>8 DEF CallInv, UsageInv, RowInv
<1>3. CASE Answer
  <2>1. PICK b \in Bills, n \in 0..MaxDeltas :
          /\ bill' = {b}
          /\ reply' = IF Streams THEN Stream(provider, b, n) ELSE <<Whole(provider, b)>>
    BY <1>3 DEF Answer
  <2>2. stage = "sent" /\ stage' = "answering"
        /\ UNCHANGED <<request, provider, sent, model, usage, raw, row>>
    BY <1>3 DEF Answer
  <2>3. usage = NoUsage /\ row = {} /\ n \in Nat /\ b \in Bill /\ b.reasoning <= b.output
    BY <1>0, <2>2, BillsAreTyped, BoundsAssumption DEF UsageInv
  <2>4. Target(b)' = Target(b) /\ (Streams' <=> Streams) /\ Whole(provider, b)' = Whole(provider, b)
    BY <2>2, TargetStays
  <2>5. ASSUME Streams PROVE Gathering(b)'
    <3>1. Target(b) = IF Untold(provider) THEN NoUsage ELSE Due(provider, b)
      BY <1>0, <2>2, <2>5, AskedOrWithheld DEF Target
    <3>2. PICK S : /\ Stream(provider, b, n) \in Seq(S)
                   /\ LeadsTo(provider, Stream(provider, b, n), NoUsage, Target(b))
      BY <1>0, <2>3, <3>1, StreamTells
    <3>3. reply' = Stream(provider, b, n)
      BY <2>1, <2>5
    <3>4. reply' \in Seq(S) /\ LeadsTo(provider', reply', usage', Target(b)')
      BY <2>2, <2>3, <2>4, <3>2, <3>3
    <3>5. usage' \in Usage
      BY <2>2, <2>3, Counts
    <3> QED
      BY <2>4, <2>5, <3>4, <3>5 DEF Gathering
  <2>6. ASSUME ~Streams PROVE Gathering(b)'
    <3>1. reply' = <<Whole(provider, b)>>
      BY <2>1, <2>6
    <3> QED
      BY <2>4, <2>6, <3>1 DEF Gathering
  <2>7. Gathering(b)'
    BY <2>5, <2>6
  <2>8. SentInv'
    BY <1>0, <2>2 DEF SentInv, Addressee, Addressed, NeedsBodyRead, Inspectable
  <2>9. UsageInv'
    BY <2>1, <2>2, <2>3, <2>7 DEF UsageInv
  <2> QED
    BY <1>0, <2>2, <2>3, <2>8, <2>9 DEF CallInv, RowInv
<1>4. CASE Observe
  <2>1. stage = "answering" /\ Streams /\ reply # <<>> /\ reply' = Tail(reply)
        /\ UNCHANGED <<request, stage, provider, sent, bill, row>>
    BY <1>4 DEF Observe
  <2>2. usage' = Effect(provider, Head(reply), usage)
    BY <1>4 DEF Observe, Effect
  <2>3. PICK b \in Bills : bill = {b} /\ Gathering(b)
    BY <1>0, <2>1 DEF UsageInv
  <2>4. PICK S : reply \in Seq(S) /\ LeadsTo(provider, reply, usage, Target(b))
    BY <2>1, <2>3 DEF Gathering
  <2>5. usage' \in Usage /\ LeadsTo(provider, Tail(reply), usage', Target(b))
    BY <2>1, <2>2, <2>4, LeadsOn
  <2>6. Tail(reply) \in Seq(S)
    BY <2>1, <2>4
  <2>7. Target(b)' = Target(b) /\ (Streams' <=> Streams)
    BY <2>1, TargetStays
  <2>8. reply' \in Seq(S) /\ LeadsTo(provider', reply', usage', Target(b)')
    BY <2>1, <2>5, <2>6, <2>7
  <2>9. Gathering(b)'
    BY <2>1, <2>5, <2>7, <2>8 DEF Gathering
  <2>10. SentInv'
    BY <1>0, <2>1 DEF SentInv, Addressee, Addressed, NeedsBodyRead, Inspectable
  <2>11. row = {}
    BY <1>0, <2>1 DEF UsageInv
  <2>12. UsageInv'
    BY <2>1, <2>3, <2>9, <2>11 DEF UsageInv
  <2> QED
    BY <1>0, <2>1, <2>10, <2>11, <2>12 DEF CallInv, RowInv
<1>5. CASE Extract
  <2>1. stage = "answering" /\ ~Streams /\ reply # <<>> /\ reply' = <<>>
        /\ usage' = Told(provider, Head(reply), JsonUsageKey(provider))
        /\ UNCHANGED <<request, stage, provider, sent, bill, row>>
    BY <1>5 DEF Extract
  <2>2. PICK b \in Bills : bill = {b} /\ Gathering(b)
    BY <1>0, <2>1 DEF UsageInv
  <2>3. reply = <<Whole(provider, b)>>
    BY <2>1, <2>2 DEF Gathering
  <2>4. usage' = Due(provider, b)
    BY <1>0, <2>1, <2>3, WholeTells, BillsAreTyped
  <2>5. Target(b) = Due(provider, b)
    BY <2>1 DEF Target, Withheld
  <2>6. Target(b)' = Target(b) /\ (Streams' <=> Streams)
    BY <2>1, TargetStays
  <2>7. Gathering(b)'
    BY <2>1, <2>4, <2>5, <2>6 DEF Gathering
  <2>8. SentInv'
    BY <1>0, <2>1 DEF SentInv, Addressee, Addressed, NeedsBodyRead, Inspectable
  <2>9. row = {}
    BY <1>0, <2>1 DEF UsageInv
  <2>10. UsageInv'
    BY <2>1, <2>2, <2>7, <2>9 DEF UsageInv
  <2> QED
    BY <1>0, <2>1, <2>8, <2>9, <2>10 DEF CallInv, RowInv
<1>6. CASE Finish
  <2> DEFINE who == ClientFromHeaders(request.header, request.agent)
  <2>1. stage = "answering" /\ stage' = "over" /\ reply = <<>>
        /\ UNCHANGED <<request, provider, sent, bill, reply, model, usage, raw>>
    BY <1>6 DEF Finish
  <2>2. PICK exe \in {"executable", Nobody} :
          row' = IF Inference
                 THEN {[model |-> model, usage |-> usage, raw |-> raw,
                        anomaly |-> usage = NoUsage,
                        client |-> who.client, source |-> who.source, exe |-> exe]}
                 ELSE {}
    BY <1>6 DEF Finish
  <2>3. PICK b \in Bills : bill = {b} /\ Gathering(b)
    BY <1>0, <2>1 DEF UsageInv
  <2>4. usage = Target(b)
    <3>1. CASE Streams
      BY <2>1, <2>3, <3>1, LeadsNowhere DEF Gathering
    <3>2. CASE ~Streams
      <4>1. reply # <<Whole(provider, b)>>
        BY <2>1
      <4> QED
        BY <2>3, <3>2, <4>1 DEF Gathering
    <3> QED
      BY <3>1, <3>2
  <2>5. Target(b)' = Target(b)
    BY <2>1, TargetStays
  <2>6. ASSUME NEW r \in row'
        PROVE  /\ r.usage = usage /\ (r.anomaly <=> (usage = NoUsage))
               /\ r.client = who.client /\ r.source = who.source /\ r.exe \in {"executable", Nobody}
    <3> DEFINE it == [model |-> model, usage |-> usage, raw |-> raw, anomaly |-> usage = NoUsage,
                      client |-> who.client, source |-> who.source, exe |-> exe]
    <3> HIDE DEF who
    <3>1. row' = {it} \/ row' = {}
      BY <2>2
    <3>2. r = it
      BY <2>6, <3>1
    <3>3. /\ it.usage = usage /\ it.client = who.client /\ it.source = who.source /\ it.exe = exe
      OBVIOUS
    <3>4. it.anomaly <=> (usage = NoUsage)
      BY Zenon
    <3> QED
      BY <3>2, <3>3, <3>4
  <2>7. who' = who
    BY <2>1 DEF ClientFromHeaders
  <2> HIDE DEF who
  <2>8. RowInv'
    BY <2>6, <2>7 DEF RowInv, who
  <2>9. UsageInv'
    BY <2>1, <2>3, <2>4, <2>5, <2>6 DEF UsageInv
  <2>10. SentInv'
    BY <1>0, <2>1 DEF SentInv, Addressee, Addressed, NeedsBodyRead, Inspectable
  <2> QED
    BY <1>0, <2>1, <2>8, <2>9, <2>10 DEF CallInv
<1>7. CASE Settled \/ UNCHANGED vars
  <2>1. UNCHANGED vars
    BY <1>7 DEF Settled
  <2>2. UNCHANGED <<request, stage, provider, sent, bill, reply, usage, row>>
    BY <2>1 DEF vars
  <2>3. SentInv'
    BY <1>0, <2>2 DEF SentInv, Addressee, Addressed, NeedsBodyRead, Inspectable
  <2>4. ASSUME NEW b, Gathering(b) PROVE Gathering(b)'
    BY <2>2, <2>4, TargetStays DEF Gathering
  <2>5. \A b : Target(b)' = Target(b)
    BY <2>2, TargetStays
  <2>6. UsageInv'
    BY <1>0, <2>2, <2>4, <2>5 DEF UsageInv
  <2>7. RowInv'
    BY <1>0, <2>2 DEF RowInv
  <2> QED
    BY <1>0, <2>2, <2>3, <2>6, <2>7 DEF CallInv
<1> QED
  BY <1>1, <1>2, <1>3, <1>4, <1>5, <1>6, <1>7 DEF Next

LEMMA CallInvariant == Spec => []CallInv
<1> QED
  BY CallInit, CallStep, PTL DEF Spec

-----------------------------------------------------------------------------
(***************************************************************************)
(* The model                                                               *)
(***************************************************************************)
\* Who is to give the model if the response does not.
ModelIsKnown == provider = "gemini" \/ (ResponsesApi(provider) /\ Streams)

\* The model is there before the usage, or comes with it.
ModelAhead ==
  \/ model # "none"
  \/ reply # <<>> /\ ShouldParse(Head(reply)) /\ Names(Head(reply))
  \/ \A i \in DOMAIN reply : NamesIfTelling(reply[i])

ModelInv ==
  /\ stage = "sent" /\ ModelIsKnown => model # "none" \/ Unnamed
  /\ stage = "answering" =>
       \/ Unnamed
       \/ /\ usage # NoUsage => model # "none"
          /\ Streams => ModelAhead
          /\ ~Streams /\ reply # <<>> => model # "none" \/ Head(reply).names = "model"
  /\ \A r \in row : r.usage # NoUsage => r.model # "none" \/ Unnamed

LEMMA StreamNames ==
  ASSUME NEW p \in Provider, NEW b \in Bill, b.reasoning <= b.output, NEW n \in Nat,
         ~ResponsesApi(p)
  PROVE  LET s == Stream(p, b, n)
         IN  \/ s # <<>> /\ ShouldParse(Head(s)) /\ Names(Head(s))
             \/ \A i \in DOMAIN s : NamesIfTelling(s[i])
<1> DEFINE s == Stream(p, b, n)
<1>1. PICK c, d, e : StreamParts(p, s, n, c, d, e)
  BY StreamsHaveParts
<1> HIDE DEF s
<1>2. CASE s = Begun(c, d, n, e) /\ Names(c) /\ ShouldParse(c)
  <2> DEFINE S == {c, d, e}
  <2>0. c \in S /\ d \in S /\ e \in S
    OBVIOUS
  <2> HIDE DEF S
  <2>1. s \in Seq(S)
    BY <1>2, <2>0, BegunIsSeq
  <2>3. Len(s) = n + 2 /\ s[1] = c
    BY <1>2, BegunAt
  <2>2. s # <<>> /\ Head(s) = c
    BY <2>1, <2>3
  <2> QED
    BY <1>2, <2>2 DEF s
<1>3. CASE s = Ended(d, n, e) /\ NamesIfTelling(d) /\ NamesIfTelling(e)
  <2> DEFINE S == {d, e}
  <2>0. d \in S /\ e \in S
    OBVIOUS
  <2> HIDE DEF S
  <2>1. s \in Seq(S)
    BY <1>3, <2>0, EndedIsSeq
  <2>3. Len(s) = n + 1 /\ s[n + 1] = e /\ \A i \in 1..n : s[i] = d
    BY <1>3, EndedAt
  <2>2. \A i \in DOMAIN s : s[i] = d \/ s[i] = e
    BY <2>1, <2>3
  <2> QED
    BY <1>3, <2>2 DEF s
<1>4. CASE s = Repeated(d, n) /\ ~ShouldParse(d)
  <2>1. \A i \in DOMAIN s : s[i] = d
    BY <1>4, RepeatedAt
  <2> QED
    BY <1>4, <2>1 DEF s, NamesIfTelling
<1> QED
  BY <1>1, <1>2, <1>3, <1>4 DEF StreamParts

LEMMA WholeNames ==
  ASSUME NEW p \in Provider, p # "gemini", NEW b
  PROVE  Whole(p, b).names = "model"
<1>1. Shape(p) # "gemini"
  BY ShapesOfProviders
<1> QED
  BY <1>1 DEF Whole, Object

\* Where the request of a Responses stream is read, and names the model, it is had.
LEMMA ForwardKnows ==
  ASSUME CallInv, Forward, ModelIsKnown', ~Unnamed'
  PROVE  model' # "none"
<1>1. PICK p \in Addressee(Addressed) :
        /\ provider' = p
        /\ sent' = IF NeedsBodyRead(p) /\ InjectStreamOptions(p)
                   THEN WithIncludeUsage(request.body) ELSE request.body
        /\ model' = IF ModelInPath(p) THEN "asked"
                    ELSE IF NeedsBodyRead(p) THEN ModelFromBody(request.body) ELSE "none"
  BY DEF Forward
<1>2. request' = request
  BY DEF Forward
<1>3. CASE p = "gemini"
  BY <1>1, <1>3 DEF ModelInPath
<1>4. CASE p # "gemini"
  <2>1. ResponsesApi(p) /\ sent'.json /\ sent'.stream
    BY <1>1, <1>2, <1>4 DEF ModelIsKnown, Streams, ResponsesApi
  <2>2. request.api = "responses" /\ p \in {"openai", "xai"}
    BY <2>1 DEF ResponsesApi
  <2>3. request.length = "short" /\ request.body.model # "none"
    BY <1>1, <1>2, <2>1 DEF Unnamed, Streams, ResponsesApi, Inspectable
  <2>4. request.body \in Body
    BY RequestsAreTyped DEF CallInv
  <2>5. request.body.json
    <3>1. CASE sent' = request.body
      BY <2>1, <3>1
    <3>2. CASE sent' = WithIncludeUsage(request.body)
      BY <2>1, <2>4, <3>2 DEF WithIncludeUsage
    <3> QED
      BY <1>1, <3>1, <3>2
  <2>8. NeedsBodyRead(p) /\ ~ModelInPath(p)
    BY <1>4, <2>3 DEF NeedsBodyRead, Inspectable, ModelInPath
  <2> QED
    BY <1>1, <2>3, <2>5, <2>8 DEF ModelFromBody
<1> QED
  BY <1>3, <1>4

\* Once the request is gone, it is settled who names the model.
LEMMA UnnamedStays ==
  ASSUME UNCHANGED <<request, provider, sent>>
  PROVE  Unnamed' <=> Unnamed
BY TargetStays DEF Unnamed, ResponsesApi, Inspectable

LEMMA ModelStep ==
  ASSUME CallInv, ModelInv, [Next]_vars
  PROVE  ModelInv'
<1>0. /\ request \in Requests /\ provider \in Provider
      /\ stage \in {"received", "refused", "sent"} => usage = NoUsage /\ row = {}
      /\ stage = "answering" => row = {}
  BY DEF CallInv, UsageInv
<1>1. CASE Refuse
  BY <1>0, <1>1 DEF Refuse, ModelInv
<1>2. CASE Forward
  <2>1. stage' = "sent" /\ row' = {}
    BY <1>0, <1>2 DEF Forward
  <2>2. ModelIsKnown' => model' # "none" \/ Unnamed'
    BY <1>2, ForwardKnows
  <2> QED
    BY <2>1, <2>2 DEF ModelInv
<1>3. CASE Answer
  <2>1. PICK b \in Bills, n \in 0..MaxDeltas :
          reply' = IF Streams THEN Stream(provider, b, n) ELSE <<Whole(provider, b)>>
    BY <1>3 DEF Answer
  <2>2. stage = "sent" /\ stage' = "answering"
        /\ UNCHANGED <<request, provider, sent, model, usage, raw, row>>
    BY <1>3 DEF Answer
  <2>3. usage' = NoUsage /\ row' = {} /\ n \in Nat /\ b \in Bill /\ b.reasoning <= b.output
    BY <1>0, <2>2, BillsAreTyped, BoundsAssumption
  <2>4. Streams' <=> Streams
    BY <2>2, TargetStays
  <2>5. Unnamed' <=> Unnamed
    BY <2>2, UnnamedStays
  <2>6. ASSUME Streams, ~Unnamed PROVE ModelAhead'
    <3>1. CASE ResponsesApi(provider)
      <4>1. model # "none"
        BY <2>2, <2>6, <3>1 DEF ModelInv, ModelIsKnown
      <4> QED
        BY <2>2, <4>1 DEF ModelAhead
    <3>2. CASE ~ResponsesApi(provider)
      <4>1. reply' = Stream(provider, b, n)
        BY <2>1, <2>6
      <4>2. \/ reply' # <<>> /\ ShouldParse(Head(reply')) /\ Names(Head(reply'))
            \/ \A i \in DOMAIN reply' : NamesIfTelling(reply'[i])
        BY <1>0, <2>3, <3>2, <4>1, StreamNames
      <4> QED
        BY <4>2 DEF ModelAhead
    <3> QED
      BY <3>1, <3>2
  <2>7. ASSUME ~Streams PROVE model' # "none" \/ Head(reply').names = "model"
    <3>1. Head(reply') = Whole(provider, b)
      BY <2>1, <2>7
    <3>2. CASE provider = "gemini"
      BY <2>2, <3>2 DEF ModelInv, ModelIsKnown, Unnamed, ResponsesApi
    <3>3. CASE provider # "gemini"
      BY <1>0, <3>1, <3>3, WholeNames
    <3> QED
      BY <3>2, <3>3
  <2> QED
    BY <2>2, <2>3, <2>4, <2>5, <2>6, <2>7 DEF ModelInv
<1>4. CASE Observe /\ ~Unnamed
  <2>1. stage = "answering" /\ Streams /\ reply # <<>> /\ reply' = Tail(reply)
        /\ UNCHANGED <<request, stage, provider, sent, bill, row>>
    BY <1>4 DEF Observe
  <2>2. IF ShouldParse(Head(reply))
        THEN model' = Backfilled(Head(reply))
        ELSE UNCHANGED <<model, usage, raw>>
    BY <1>4 DEF Observe
  <2>3. PICK S : reply \in Seq(S)
    BY <1>0, <2>1 DEF CallInv, UsageInv, Gathering
  <2>4. /\ Head(reply) = reply[1] /\ 1 \in DOMAIN reply
        /\ \A i \in DOMAIN Tail(reply) : Tail(reply)[i] = reply[i + 1] /\ i + 1 \in DOMAIN reply
    BY <2>1, <2>3
  <2>5. usage' # NoUsage => model' # "none"
    <3>1. CASE ~ShouldParse(Head(reply))
      BY <1>4, <2>1, <2>2, <3>1 DEF ModelInv
    <3>2. CASE ShouldParse(Head(reply))
      <4>1. model # "none" \/ Names(Head(reply))
        BY <1>4, <2>1, <2>4, <3>2 DEF ModelInv, ModelAhead, NamesIfTelling
      <4> QED
        BY <2>2, <3>2, <4>1 DEF Backfilled, Names
    <3> QED
      BY <3>1, <3>2
  <2>6. ModelAhead'
    <3>1. CASE model # "none"
      <4>1. model' # "none"
        BY <2>2, <3>1 DEF Backfilled
      <4> QED
        BY <4>1 DEF ModelAhead
    <3>2. CASE ShouldParse(Head(reply)) /\ Names(Head(reply))
      <4>1. model' # "none"
        BY <2>2, <3>2 DEF Backfilled, Names
      <4> QED
        BY <4>1 DEF ModelAhead
    <3>3. CASE \A i \in DOMAIN reply : NamesIfTelling(reply[i])
      <4>1. \A i \in DOMAIN reply' : NamesIfTelling(reply'[i])
        BY <2>1, <2>4, <3>3
      <4> QED
        BY <4>1 DEF ModelAhead
    <3> QED
      BY <1>4, <2>1, <3>1, <3>2, <3>3 DEF ModelInv, ModelAhead
  <2>7. (Streams' <=> Streams) /\ row = {}
    BY <1>0, <2>1, TargetStays
  <2> QED
    BY <2>1, <2>5, <2>6, <2>7 DEF ModelInv
<1>5. CASE Observe /\ Unnamed
  <2>1. stage = "answering" /\ UNCHANGED <<request, stage, provider, sent, row>>
    BY <1>5 DEF Observe
  <2>2. Unnamed' /\ row = {}
    BY <1>0, <1>5, <2>1, UnnamedStays
  <2> QED
    BY <2>1, <2>2 DEF ModelInv
<1>6. CASE Extract
  <2>1. stage = "answering" /\ ~Streams /\ reply # <<>> /\ reply' = <<>>
        /\ model' = (IF model = "none" /\ Head(reply).names = "model" THEN "served" ELSE model)
        /\ UNCHANGED <<request, stage, provider, sent, bill, row>>
    BY <1>6 DEF Extract
  <2>2. model' # "none"
    BY <2>1 DEF ModelInv, Unnamed
  <2>3. (Streams' <=> Streams) /\ row = {}
    BY <1>0, <2>1, TargetStays
  <2> QED
    BY <2>1, <2>2, <2>3 DEF ModelInv
<1>7. CASE Finish
  <2>1. stage = "answering" /\ stage' = "over" /\ UNCHANGED <<request, provider, sent>>
    BY <1>7 DEF Finish
  <2>2. ASSUME NEW r \in row' PROVE r.usage = usage /\ r.model = model
    BY <1>7 DEF Finish
  <2>3. Unnamed' <=> Unnamed
    BY <2>1, UnnamedStays
  <2> QED
    BY <2>1, <2>2, <2>3 DEF ModelInv
<1>8. CASE Settled \/ UNCHANGED vars
  <2>1. UNCHANGED vars
    BY <1>8 DEF Settled
  <2> QED
    BY <2>1 DEF vars, ModelInv, ModelAhead, ModelIsKnown, Unnamed, Inspectable, Streams, ResponsesApi
<1> QED
  BY <1>1, <1>2, <1>3, <1>4, <1>5, <1>6, <1>7, <1>8 DEF Next

-----------------------------------------------------------------------------
(***************************************************************************)
(* The usage kept verbatim                                                 *)
(***************************************************************************)
LEMMA Least ==
  ASSUME NEW S, S \subseteq Nat, S # {}
  PROVE  \E s \in S : \A r \in S : s <= r
<1>1. PICK s \in S : \A r \in S : ~(<<r, s>> \in OpToRel(<, Nat))
  BY NatLessThanWellFounded, WFMin
<1>2. \A r \in S : ~(r < s)
  BY <1>1 DEF OpToRel
<1> QED
  BY <1>2

\* What one object that was kept says.
Said(p, o) == IF o = {} THEN NoUsage ELSE Parse(p, CHOOSE u \in o : TRUE)

\* The objects s, counted one after the other, come to t.
Recounts(p, s, t) ==
  /\ \E S : s \in Seq(S)
  /\ \E h \in [0..Len(s) -> Usage] :
       /\ h[0] = NoUsage /\ h[Len(s)] = t
       /\ \A i \in 1..Len(s) : h[i] = Merge(h[i - 1], Said(p, s[i]))

LEMMA RecountsNothing ==
  ASSUME NEW p
  PROVE  Recounts(p, <<>>, NoUsage)
<1> DEFINE h == [i \in 0..0 |-> NoUsage]
<1>1. Len(<<>>) = 0 /\ <<>> \in Seq({}) /\ h[0] = NoUsage
  OBVIOUS
<1>2. h \in [0..0 -> Usage]
  BY Counts
<1> HIDE DEF h
<1>3. \A i \in 1..0 : h[i] = Merge(h[i - 1], Said(p, <<>>[i]))
  OBVIOUS
<1> QED
  BY <1>1, <1>2, <1>3 DEF Recounts

\* One object more.
LEMMA RecountsOn ==
  ASSUME NEW p, NEW s, NEW t, Recounts(p, s, t), NEW x, Said(p, x) \in Usage
  PROVE  t \in Usage /\ Recounts(p, s \o <<x>>, Merge(t, Said(p, x)))
<1>1. PICK S : s \in Seq(S)
  BY DEF Recounts
<1> DEFINE n == Len(s)
           R == S \cup {x}
           v == Merge(t, Said(p, x))
           r == s \o <<x>>
<1>2. PICK h \in [0..n -> Usage] :
        /\ h[0] = NoUsage /\ h[n] = t
        /\ \A i \in 1..n : h[i] = Merge(h[i - 1], Said(p, s[i]))
  BY DEF Recounts
<1>3. n \in Nat /\ t \in Usage
  BY <1>1, <1>2
<1>4. v \in Usage
  BY <1>3, MergeIsUsage
<1>5. s \in Seq(R) /\ <<x>> \in Seq(R)
  <2>1. S \subseteq R /\ x \in R
    OBVIOUS
  <2> HIDE DEF R
  <2> QED
    BY <1>1, <2>1
<1> HIDE DEF R
<1>6. r \in Seq(R) /\ Len(r) = n + 1 /\ r[n + 1] = x /\ \A i \in 1..n : r[i] = s[i]
  BY <1>5
<1> DEFINE g == [i \in 0..(n + 1) |-> IF i <= n THEN h[i] ELSE v]
<1> HIDE DEF v, r, n
<1>7. g \in [0..(n + 1) -> Usage] /\ g[0] = NoUsage /\ g[n + 1] = v /\ \A i \in 0..n : g[i] = h[i]
  BY <1>2, <1>3, <1>4
<1> HIDE DEF g
<1>8. \A i \in 1..(n + 1) : g[i] = Merge(g[i - 1], Said(p, r[i]))
  <2> SUFFICES ASSUME NEW i \in 1..(n + 1) PROVE g[i] = Merge(g[i - 1], Said(p, r[i]))
    OBVIOUS
  <2>1. i - 1 \in 0..n /\ g[i - 1] = h[i - 1]
    BY <1>3, <1>7
  <2>2. CASE i \in 1..n
    <3>1. g[i] = h[i] /\ r[i] = s[i]
      BY <1>3, <1>6, <1>7, <2>2
    <3>2. h[i] = Merge(h[i - 1], Said(p, s[i]))
      BY <1>2, <2>2
    <3> QED
      BY <2>1, <3>1, <3>2
  <2>3. CASE i = n + 1
    <3>1. r[i] = x /\ g[i] = v /\ i - 1 = n
      BY <1>3, <1>6, <1>7, <2>3
    <3> QED
      BY <1>2, <2>1, <3>1 DEF v
  <2> QED
    BY <1>3, <2>2, <2>3
<1>9. Recounts(p, r, v)
  BY <1>6, <1>7, <1>8 DEF Recounts
<1> QED
  BY <1>3, <1>9 DEF r, v

\* That is what Recounted computes.
LEMMA RecountedIs ==
  ASSUME NEW p, NEW s, NEW t, Recounts(p, s, t)
  PROVE  Recounted(p, s) = t
<1> DEFINE n == Len(s)
           F(u) == [i \in 0..n |-> IF i = 0 THEN NoUsage ELSE Merge(u[i - 1], Said(p, s[i]))]
           f == CHOOSE u : u = F(u)
<1>0. n \in Nat
  BY DEF Recounts
<1>1. PICK h \in [0..n -> Usage] :
        /\ h[0] = NoUsage /\ h[n] = t
        /\ \A i \in 1..n : h[i] = Merge(h[i - 1], Said(p, s[i]))
  BY DEF Recounts
<1>2. Recounted(p, s) = f[n]
  BY DEF Recounted, Said
<1> HIDE DEF n
<1>3. h = F(h)
  BY <1>0, <1>1
<1>4. f = F(f)
  BY <1>3
<1> HIDE DEF f
<1>5. f[0] = NoUsage /\ \A i \in 1..n : f[i] = Merge(f[i - 1], Said(p, s[i]))
  BY <1>0, <1>4
<1> HIDE DEF F
<1>6. f[n] = h[n]
  <2> DEFINE differ == {i \in 0..n : f[i] # h[i]}
  <2> SUFFICES ASSUME differ # {} PROVE FALSE
    BY <1>0
  <2>0. differ \subseteq Nat
    BY <1>0
  <2>1. PICK i \in differ : \A j \in differ : i <= j
    <3> HIDE DEF differ
    <3> QED
      BY <2>0, Least
  <2>2. i # 0 /\ i \in 1..n
    BY <1>0, <1>1, <1>5, <2>1
  <2>3. i - 1 \in 0..n /\ i - 1 \notin differ
    BY <1>0, <2>1, <2>2
  <2>4. f[i - 1] = h[i - 1]
    BY <2>3
  <2>5. f[i] = h[i]
    BY <1>1, <1>5, <2>2, <2>4
  <2> QED
    BY <2>1, <2>5
<1> QED
  BY <1>1, <1>2, <1>6

\* An object with one usage, where its provider reports, is merged and kept as one.
LEMMA KeptAsMerged ==
  ASSUME NEW p, NEW o, ShouldParse(o), AsReported(p, o), NEW u \in Usage
  PROVE  \E x : RawUsage(o) = <<x>> /\ Said(p, x) \in Usage /\ MergeSse(p, o, u) = Merge(u, Said(p, x))
<1>1. PICK l \in Place : /\ DOMAIN o.says = {l} /\ Reports(p, o.type, l)
                         /\ o.says[l] = {} \/ \E x : o.says[l] = {x} /\ Parse(p, x) \in Usage
  BY DEF AsReported
<1> DEFINE x == o.says[l]
           v == Said(p, x)
           there == {i \in DOMAIN RawPlaces : RawPlaces[i] \in DOMAIN o.says}
<1>2. v \in Usage
  <2>1. CASE x = {}
    BY <2>1, Counts DEF Said
  <2>2. ASSUME NEW y, x = {y}, Parse(p, y) \in Usage PROVE v \in Usage
    <3>1. v = Parse(p, CHOOSE z \in {y} : TRUE)
      BY <2>2 DEF Said
    <3> QED
      BY <2>2, <3>1, Only
  <2> QED
    BY <1>1, <2>1, <2>2
<1>3. RawUsage(o) = <<x>>
  <2>1. DOMAIN RawPlaces = 1..5 /\ RawPlaces[1] = "usage" /\ RawPlaces[2] = "usageMetadata"
        /\ RawPlaces[3] = "message" /\ RawPlaces[4] = "response" /\ RawPlaces[5] = "x_groq"
    BY DEF RawPlaces
  <2>2. PICK k \in 1..5 : RawPlaces[k] = l
    BY <2>1 DEF Place
  <2>3. \A i \in 1..5 : RawPlaces[i] = l => i = k
    BY <2>1, <2>2
  <2>4. there = {k}
    BY <1>1, <2>1, <2>2, <2>3
  <2> HIDE DEF there
  <2>5. (CHOOSE i \in there : \A j \in there : i <= j) = k
    BY <2>2, <2>4
  <2>6. RawUsage(o) = IF there = {} THEN <<>>
                      ELSE <<o.says[RawPlaces[CHOOSE i \in there : \A j \in there : i <= j]]>>
    BY DEF RawUsage, there
  <2> QED
    BY <2>2, <2>4, <2>5, <2>6
<1>4. Told(p, o, l) = v /\ \A k : k # l => Told(p, o, k) = NoUsage
  BY <1>1 DEF Told, Said
<1>5. MergeSse(p, o, u) = Merge(u, v)
  BY <1>1, <1>2, <1>4, OneVoice
<1> QED
  BY <1>2, <1>3, <1>5

AuditInv ==
  /\ stage \in {"received", "refused", "sent"} => raw = <<>>
  /\ stage = "answering" =>
       /\ \E K : raw \in Seq(K)
       /\ Len(raw) < MaxRaw => Recounts(provider, raw, usage)
       /\ Streams => \A i \in DOMAIN reply : AsReported(provider, reply[i])
       /\ ~Streams /\ reply # <<>> => raw = <<>>
  /\ \A r \in row : Len(r.raw) < MaxRaw => Recounts(provider, r.raw, r.usage)

\* What any object of a stream reports is what is kept of it.
LEMMA StreamReports ==
  ASSUME NEW p \in Provider, NEW b \in Bill, b.reasoning <= b.output, NEW n \in Nat
  PROVE  \A i \in DOMAIN Stream(p, b, n) : AsReported(p, Stream(p, b, n)[i])
<1> DEFINE s == Stream(p, b, n)
<1>1. PICK c, d, e : StreamParts(p, s, n, c, d, e)
  BY StreamsHaveParts
<1> HIDE DEF s
<1> DEFINE S == {c, d, e}
<1>2. c \in S /\ d \in S /\ e \in S
  OBVIOUS
<1> HIDE DEF S
<1>3. CASE s = Begun(c, d, n, e) /\ AsReported(p, c) /\ ~ShouldParse(d) /\ AsReported(p, e)
  <2>1. s \in Seq(S)
    BY <1>2, <1>3, BegunIsSeq
  <2>2. Len(s) = n + 2 /\ s[1] = c /\ s[n + 2] = e /\ \A i \in 2..(n + 1) : s[i] = d
    BY <1>3, BegunAt
  <2>3. \A i \in DOMAIN s : s[i] = c \/ s[i] = d \/ s[i] = e
    <3> SUFFICES ASSUME NEW i \in DOMAIN s PROVE s[i] = c \/ s[i] = d \/ s[i] = e
      OBVIOUS
    <3>1. i \in 1..(n + 2)
      BY <2>1, <2>2
    <3>2. i = 1 \/ i = n + 2 \/ i \in 2..(n + 1)
      BY <3>1
    <3> QED
      BY <2>2, <3>2
  <2>4. AsReported(p, d)
    BY <1>3 DEF AsReported
  <2> QED
    BY <1>3, <2>3, <2>4 DEF s
<1>4. CASE s = Ended(d, n, e) /\ AsReported(p, d) /\ AsReported(p, e)
  <2>1. s \in Seq(S)
    BY <1>2, <1>4, EndedIsSeq
  <2>2. Len(s) = n + 1 /\ s[n + 1] = e /\ \A i \in 1..n : s[i] = d
    BY <1>4, EndedAt
  <2>3. \A i \in DOMAIN s : s[i] = d \/ s[i] = e
    <3> SUFFICES ASSUME NEW i \in DOMAIN s PROVE s[i] = d \/ s[i] = e
      OBVIOUS
    <3>1. i \in 1..(n + 1)
      BY <2>1, <2>2
    <3>2. i = n + 1 \/ i \in 1..n
      BY <3>1
    <3> QED
      BY <2>2, <3>2
  <2> QED
    BY <1>4, <2>3 DEF s
<1>5. CASE s = Repeated(d, n) /\ ~ShouldParse(d)
  <2>1. Len(s) = n /\ DOMAIN s = 1..n /\ \A i \in 1..n : s[i] = d
    BY <1>5, RepeatedAt
  <2>3. \A i \in DOMAIN s : AsReported(p, s[i])
    BY <1>5, <2>1 DEF AsReported
  <2> QED
    BY <2>3 DEF s
<1> QED
  BY <1>1, <1>3, <1>4, <1>5 DEF StreamParts

LEMMA WholeHas ==
  ASSUME NEW p \in Provider, NEW b
  PROVE  DOMAIN Whole(p, b).says = {JsonUsageKey(p)}
<1>1. Shape(p) = "gemini" <=> p = "gemini"
  BY DEF Shape
<1> QED
  BY <1>1 DEF Whole, Object, JsonUsageKey

LEMMA AuditStep ==
  ASSUME CallInv, AuditInv, [Next]_vars
  PROVE  AuditInv'
<1>0. /\ request \in Requests /\ provider \in Provider
      /\ stage \in {"received", "refused", "sent"} => usage = NoUsage /\ row = {}
      /\ stage = "answering" => row = {}
  BY DEF CallInv, UsageInv
<1>1. CASE Refuse
  BY <1>0, <1>1 DEF Refuse, AuditInv
<1>2. CASE Forward
  <2>1. stage = "received" /\ stage' = "sent" /\ row' = {} /\ raw' = raw
    BY <1>0, <1>2 DEF Forward
  <2> QED
    BY <2>1 DEF AuditInv
<1>3. CASE Answer
  <2>1. PICK b \in Bills, n \in 0..MaxDeltas :
          reply' = IF Streams THEN Stream(provider, b, n) ELSE <<Whole(provider, b)>>
    BY <1>3 DEF Answer
  <2>2. stage = "sent" /\ stage' = "answering"
        /\ UNCHANGED <<request, provider, sent, model, usage, raw, row>>
    BY <1>3 DEF Answer
  <2>3. usage' = NoUsage /\ row' = {} /\ raw' = <<>> /\ b \in Bill /\ b.reasoning <= b.output
    BY <1>0, <2>2, BillsAreTyped DEF AuditInv
  <2>4. Streams' <=> Streams
    BY <2>2, TargetStays
  <2>5. Recounts(provider', raw', usage')
    BY <2>3, RecountsNothing
  <2>6. ASSUME Streams PROVE \A i \in DOMAIN reply' : AsReported(provider', reply'[i])
    <3>1. reply' = Stream(provider, b, n)
      BY <2>1, <2>6
    <3> QED
      BY <1>0, <2>2, <2>3, <3>1, BoundsAssumption, StreamReports
  <2> QED
    BY <2>2, <2>3, <2>4, <2>5, <2>6 DEF AuditInv
<1>4. CASE Observe
  <2>1. stage = "answering" /\ Streams /\ reply # <<>> /\ reply' = Tail(reply)
        /\ UNCHANGED <<request, stage, provider, sent, bill, row>>
    BY <1>4 DEF Observe
  <2> DEFINE data == Head(reply)
  <2>2. IF ShouldParse(data)
        THEN /\ usage' = MergeSse(provider, data, usage)
             /\ raw' = IF Len(raw) < MaxRaw THEN raw \o RawUsage(data) ELSE raw
        ELSE UNCHANGED <<usage, raw>>
    BY <1>4 DEF Observe
  <2>3. PICK S : reply \in Seq(S)
    BY <1>0, <2>1 DEF CallInv, UsageInv, Gathering
  <2>4. PICK K : raw \in Seq(K)
    BY <2>1 DEF AuditInv
  <2>5. /\ data = reply[1] /\ 1 \in DOMAIN reply
        /\ \A i \in DOMAIN Tail(reply) : Tail(reply)[i] = reply[i + 1] /\ i + 1 \in DOMAIN reply
    BY <2>1, <2>3
  <2> HIDE DEF data
  <2>6. /\ AsReported(provider, data)
        /\ \A i \in DOMAIN reply' : AsReported(provider', reply'[i])
    BY <2>1, <2>5 DEF AuditInv
  <2>7. (\E L : raw' \in Seq(L)) /\ (Len(raw') < MaxRaw => Recounts(provider', raw', usage'))
    <3>1. CASE ~ShouldParse(data)
      BY <2>1, <2>2, <3>1 DEF AuditInv
    <3>2. CASE ShouldParse(data) /\ ~(Len(raw) < MaxRaw)
      BY <2>2, <2>4, <3>2
    <3>3. CASE ShouldParse(data) /\ Len(raw) < MaxRaw
      <4>1. usage \in Usage
        BY <1>0, <2>1 DEF CallInv, UsageInv, Gathering
      <4>2. PICK x : RawUsage(data) = <<x>> /\ Said(provider, x) \in Usage
                     /\ MergeSse(provider, data, usage) = Merge(usage, Said(provider, x))
        BY <2>6, <3>3, <4>1, KeptAsMerged
      <4>3. raw' = raw \o <<x>> /\ usage' = Merge(usage, Said(provider, x))
        BY <2>2, <3>3, <4>2
      <4>4. Recounts(provider, raw, usage)
        BY <2>1, <3>3 DEF AuditInv
      <4>5. Recounts(provider, raw \o <<x>>, Merge(usage, Said(provider, x)))
        BY <4>2, <4>4, RecountsOn
      <4>6. raw' \in Seq(K \cup {x})
        BY <2>4, <4>3
      <4> QED
        BY <2>1, <4>3, <4>5, <4>6
    <3> QED
      BY <3>1, <3>2, <3>3
  <2>8. (Streams' <=> Streams) /\ row = {}
    BY <1>0, <2>1, TargetStays
  <2> QED
    BY <2>1, <2>6, <2>7, <2>8 DEF AuditInv
<1>5. CASE Extract
  <2> DEFINE key == JsonUsageKey(provider)
             data == Head(reply)
             x == data.says[key]
  <2>1. stage = "answering" /\ ~Streams /\ reply # <<>> /\ reply' = <<>>
        /\ usage' = Told(provider, data, key)
        /\ raw' = (IF key \in DOMAIN data.says THEN raw \o <<x>> ELSE raw)
        /\ UNCHANGED <<request, stage, provider, sent, bill, row>>
    BY <1>5 DEF Extract
  <2>2. PICK b \in Bills : reply = <<Whole(provider, b)>>
    BY <1>0, <2>1 DEF CallInv, UsageInv, Gathering
  <2>3. data = Whole(provider, b) /\ key \in DOMAIN data.says /\ raw = <<>>
    BY <1>0, <2>1, <2>2, WholeHas DEF AuditInv
  <2>4. usage' = Due(provider, b) /\ usage' \in Usage
    BY <1>0, <2>1, <2>3, WholeTells, BillsAreTyped, DueIsUsage
  <2> HIDE DEF data, key
  <2>5. Said(provider, x) = usage'
    BY <2>1, <2>3 DEF Told, Said
  <2>6. Recounts(provider, <<>>, NoUsage)
    BY RecountsNothing
  <2>7. Recounts(provider, <<>> \o <<x>>, Merge(NoUsage, Said(provider, x)))
    BY <2>4, <2>5, <2>6, RecountsOn
  <2>8. Recounts(provider', raw', usage') /\ raw' \in Seq({x})
    BY <2>1, <2>3, <2>4, <2>5, <2>7, MergeNothing
  <2>9. (Streams' <=> Streams) /\ row = {}
    BY <1>0, <2>1, TargetStays
  <2> QED
    BY <2>1, <2>8, <2>9 DEF AuditInv
<1>6. CASE Finish
  <2>1. stage = "answering" /\ stage' = "over" /\ provider' = provider
    BY <1>6 DEF Finish
  <2>2. ASSUME NEW r \in row' PROVE r.usage = usage /\ r.raw = raw
    BY <1>6 DEF Finish
  <2> QED
    BY <2>1, <2>2 DEF AuditInv
<1>7. CASE Settled \/ UNCHANGED vars
  <2>1. UNCHANGED vars
    BY <1>7 DEF Settled
  <2> QED
    BY <2>1 DEF vars, AuditInv, Streams
<1> QED
  BY <1>1, <1>2, <1>3, <1>4, <1>5, <1>6, <1>7 DEF Next

-----------------------------------------------------------------------------
(***************************************************************************)
(* Theorems                                                                *)
(***************************************************************************)
\* Whatever a provider bills and however long its stream, the row has it; and the row of a
\* stream nobody could ask for its usage says no_usage.
THEOREM MeteringTheorem == Spec => []MetersTheBill
<1>1. CallInv => MetersTheBill
  <2> SUFFICES ASSUME CallInv, NEW r \in row, NEW b \in bill
               PROVE  /\ r.usage = IF Withheld THEN NoUsage ELSE Due(provider, b)
                      /\ r.anomaly <=> Withheld
    BY DEF MetersTheBill
  <2>1. stage = "over"
    BY DEF CallInv, UsageInv
  <2>2. PICK c \in Bills : bill = {c} /\ r.usage = Target(c)
    BY <2>1 DEF CallInv, UsageInv
  <2>3. r.usage = IF Withheld THEN NoUsage ELSE Due(provider, b)
    BY <2>2 DEF Target
  <2>4. Due(provider, b) # NoUsage
    BY <2>2, BillsAreTyped, DueIsUsage DEF CallInv
  <2>5. r.anomaly <=> (r.usage = NoUsage)
    BY DEF CallInv, RowInv
  <2> QED
    BY <2>3, <2>4, <2>5
<1> QED
  BY CallInvariant, <1>1, PTL

\* Nothing of a request is changed on its way but include_usage, and that only on a stream
\* of a provider that needs it.
THEOREM ForwardTheorem == Spec => []ForwardedAsSent
<1>1. CallInv => ForwardedAsSent
  <2> SUFFICES ASSUME CallInv, stage \in {"sent", "answering", "over"}
               PROVE  \/ sent = request.body
                      \/ /\ request.body.stream /\ provider \notin {"anthropic", "gemini", "groq"}
                         /\ [sent EXCEPT !.options = request.body.options] = request.body
                         /\ sent.options.include = "yes"
                         /\ sent.options.other = request.body.options.other
    BY DEF ForwardedAsSent
  <2>1. request.body \in Body
    BY RequestsAreTyped DEF CallInv
  <2> DEFINE body == request.body
             o == [object |-> TRUE, other |-> body.options.other, include |-> "yes"]
  <2>2. \/ sent = body
        \/ InjectStreamOptions(provider) /\ body.stream /\ sent = [body EXCEPT !.options = o]
    BY DEF CallInv, SentInv, WithIncludeUsage
  <2>3. CASE InjectStreamOptions(provider) /\ body.stream /\ sent = [body EXCEPT !.options = o]
    <3>1. provider \notin {"anthropic", "gemini", "groq"}
      BY <2>3 DEF InjectStreamOptions, Shape
    <3>2. sent.options = o
      BY <2>1, <2>3 DEF Body
    <3>3. [sent EXCEPT !.options = body.options] = body
      BY <2>1, <2>3 DEF Body
    <3> QED
      BY <2>3, <3>1, <3>2, <3>3
  <2> QED
    BY <2>2, <2>3
<1> QED
  BY CallInvariant, <1>1, PTL

\* A request that names a provider goes to that one or to none, on whatever port it came.
THEOREM AddressTheorem == Spec => []SentWhereAddressed
<1>1. CallInv => SentWhereAddressed
  <2> SUFFICES ASSUME CallInv, stage \in {"sent", "answering", "over"},
                      NEW name \in Provider \cup {"stranger"},
                      request.host = name \/ (request.host = "absent" /\ request.authority = name)
               PROVE  provider = name
    BY DEF SentWhereAddressed
  <2>1. name \notin {"absent", "unreadable"}
    BY DEF Provider
  <2>2. Addressed = name
    BY <2>1 DEF Addressed
  <2>3. provider \in Addressee(name)
    BY <2>2 DEF CallInv, SentInv
  <2>4. CASE name = "stranger"
    <3>1. "stranger" \notin Provider
      BY DEF Provider
    <3> QED
      BY <2>3, <2>4, <3>1 DEF Addressee
  <2>5. CASE name \in Provider
    BY <2>3, <2>5 DEF Addressee
  <2> QED
    BY <2>4, <2>5
<1> QED
  BY CallInvariant, <1>1, PTL

\* A caller's own word beats its process, a blank word hides its User-Agent.
THEOREM CallerTheorem == Spec => []ToolIsWhoTheySay
<1>1. CallInv => ToolIsWhoTheySay
  <2> SUFFICES ASSUME CallInv, NEW r \in row
               PROVE  /\ request.header = "declared" => UnifiedTool(r.client, r.source, r.exe) = "declared"
                      /\ request.header = "blank" => UnifiedTool(r.client, r.source, r.exe) = r.exe
                      /\ request.header = "absent" /\ r.exe # Nobody =>
                           UnifiedTool(r.client, r.source, r.exe) = r.exe
    BY DEF ToolIsWhoTheySay
  <2>1. /\ r.client = ClientFromHeaders(request.header, request.agent).client
        /\ r.source = ClientFromHeaders(request.header, request.agent).source
        /\ r.exe \in {"executable", Nobody}
    BY DEF CallInv, RowInv
  <2>2. request.agent \in {"absent", "blank", "agent"}
    BY RequestsAreTyped DEF CallInv
  <2>3. CASE request.header = "declared"
    <3>1. r.client = "declared" /\ r.source = "header"
      BY <2>1, <2>3 DEF ClientFromHeaders
    <3> QED
      BY <2>3, <3>1 DEF UnifiedTool
  <2>4. CASE request.header = "blank"
    <3>1. r.client = Nobody /\ r.source = Nobody
      BY <2>1, <2>4 DEF ClientFromHeaders
    <3> QED
      BY <2>4, <3>1 DEF UnifiedTool, Or, Nobody
  <2>5. CASE request.header = "absent"
    <3>1. \/ r.client = Nobody /\ r.source = Nobody
          \/ r.client = "agent" /\ r.source = "ua"
      BY <2>1, <2>2, <2>5 DEF ClientFromHeaders
    <3> QED
      BY <2>5, <3>1 DEF UnifiedTool, Or, Nobody
  <2>6. CASE request.header \notin {"declared", "blank", "absent"}
    BY <2>6
  <2> QED
    BY <2>3, <2>4, <2>5, <2>6
<1> QED
  BY CallInvariant, <1>1, PTL

\* A row with usage has its model, for every provider and streams of any length, unless
\* it is a Responses stream's whose request is not read, or does not name it.
THEOREM ModelTheorem == Spec => []ModelIsFound
<1>1. Init => ModelInv
  BY DEF Init, ModelInv
<1>2. CallInv /\ ModelInv /\ [Next]_vars => ModelInv'
  BY ModelStep
<1>3. ModelInv => ModelIsFound
  BY DEF ModelInv, ModelIsFound
<1> QED
  BY CallInvariant, <1>1, <1>2, <1>3, PTL DEF Spec

\* Wherever the column is not full, the objects kept verbatim give the counts of the row
\* again, for every provider and bill, however many usages the stream repeated.
THEOREM AuditTheorem == Spec => []AuditIsComplete
<1>1. Init => AuditInv
  BY DEF Init, AuditInv
<1>2. CallInv /\ AuditInv /\ [Next]_vars => AuditInv'
  BY AuditStep
<1>3. AuditInv => AuditIsComplete
  BY RecountedIs DEF AuditInv, AuditIsComplete
<1> QED
  BY CallInvariant, <1>1, <1>2, <1>3, PTL DEF Spec
=============================================================================
