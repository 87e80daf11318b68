------------------------------- MODULE Metering -------------------------------
(***************************************************************************)
(* The provider roster (providers.rs) and how usage is read out of what a  *)
(* provider sends (parsers/, record.rs).                                   *)
(*                                                                         *)
(* A usage object is a function from the fields it states to numbers, None *)
(* where the field is null.  An object of a response is [type, says,       *)
(* names]: says is a function from the places where it carries a usage     *)
(* object to a set, empty where the usage is null; names is where it names *)
(* the model.                                                              *)
(***************************************************************************)
EXTENDS Integers, Sequences

None == -1      \* None, and JSON's null

\* Dollars, as a decimal: <<d, e>> is d times ten to the e.
NoCost == <<>>

Dollars == (Int \X Int) \cup {NoCost}

Usage == [input : Int, output : Int, read : Int, written : Int, reasoning : Int,
          cost : Dollars]

NoUsage == [input |-> None, output |-> None, read |-> None, written |-> None,
            reasoning |-> None, cost |-> NoCost]

Place == {"usage", "usageMetadata", "message", "response", "x_groq"}

-----------------------------------------------------------------------------
(***************************************************************************)
(* PROVIDERS                                                               *)
(***************************************************************************)
Provider == {"anthropic", "openai", "deepseek", "openrouter", "gemini", "kimi", "minimax",
             "glm", "xai", "groq"}

Shape(p) == IF p \in {"anthropic", "gemini"} THEN p ELSE "openai"

ModelInPath(p) == p = "gemini"

InjectStreamOptions(p) == Shape(p) = "openai" /\ p # "groq"

JsonUsageKey(p) == IF p = "gemini" THEN "usageMetadata" ELSE "usage"

-----------------------------------------------------------------------------
(***************************************************************************)
(* One usage object, read                                                  *)
(***************************************************************************)
Stated(u, f)    == IF f \in DOMAIN u THEN u[f] ELSE None
Either(u, f, g) == Stated(u, IF f \in DOMAIN u THEN f ELSE g)
Else(a, b)      == IF a # None THEN a ELSE b

\* Slip: reasoning that is reported is always on top of the output.
AlwaysOnTop(total, input, output, reasoning) == reasoning > 0 /\ output # None

\* The reasoning tokens are not counted in the output: the total says so.
OnTop(total, input, output, reasoning) ==
  /\ None \notin {total, input, output} /\ reasoning > 0
  /\ input + output + reasoning = total

\* Slip: a tick is taken for a nano-dollar.
NanoDollars(ticks) == <<ticks, -9>>

\* ticks / 1e10.
FromTicks(ticks) == <<ticks, -10>>

\* What the provider says the call has cost: in dollars, else in xAI's ticks.
ReportedCost(u) ==
  IF "cost" \in DOMAIN u THEN u["cost"]
  ELSE IF "cost_in_usd_ticks" \in DOMAIN u THEN FromTicks(u["cost_in_usd_ticks"])
  ELSE NoCost

ParseOpenai(u) ==
  LET input     == Either(u, "input_tokens", "prompt_tokens")
      output    == Either(u, "output_tokens", "completion_tokens")
      reasoning == Stated(u, "details_reasoning_tokens")
  IN  [input  |-> input,
       output |-> IF OnTop(Stated(u, "total_tokens"), input, output, reasoning)
                  THEN output + reasoning ELSE output,
       read   |-> Else(Stated(u, "details_cached_tokens"),
                       Else(Stated(u, "prompt_cache_hit_tokens"), Stated(u, "cached_tokens"))),
       written   |-> Stated(u, "details_cache_write_tokens"),
       reasoning |-> reasoning,
       cost      |-> ReportedCost(u)]

ParseAnthropic(u) ==
  [input |-> Stated(u, "input_tokens"), output |-> Stated(u, "output_tokens"),
   read  |-> Stated(u, "cache_read_input_tokens"),
   written   |-> Stated(u, "cache_creation_input_tokens"),
   reasoning |-> None, cost |-> NoCost]

ParseGemini(u) ==
  LET candidates == Stated(u, "candidatesTokenCount")
      thoughts   == Stated(u, "thoughtsTokenCount")
  IN  [input  |-> Stated(u, "promptTokenCount"),
       output |-> IF None \notin {candidates, thoughts} THEN candidates + thoughts
                  ELSE Else(candidates, thoughts),
       read   |-> Stated(u, "cachedContentTokenCount"),
       written |-> None, reasoning |-> thoughts, cost |-> NoCost]

Parse(p, u) ==
  CASE Shape(p) = "anthropic" -> ParseAnthropic(u)
    [] Shape(p) = "gemini"    -> ParseGemini(u)
    [] OTHER                  -> ParseOpenai(u)

\* Usage::merge.
Merge(old, new) == [f \in DOMAIN old |-> IF new[f] # NoUsage[f] THEN new[f] ELSE old[f]]

-----------------------------------------------------------------------------
(***************************************************************************)
(* One object of a response                                                *)
(***************************************************************************)
\* What the object says at a place; nothing if it says null there.
Told(p, data, place) ==
  IF place \in DOMAIN data.says /\ data.says[place] # {}
  THEN Parse(p, CHOOSE u \in data.says[place] : TRUE) ELSE NoUsage

MergeAnthropicSse(p, data, usage) ==
  Merge(usage, Told(p, data, IF data.type = "message_start" THEN "message" ELSE "usage"))

MergeGeminiSse(p, data, usage) == Merge(usage, Told(p, data, "usageMetadata"))

MergeOpenaiSse(p, data, usage) ==
  Merge(Merge(Merge(usage, Told(p, data, "usage")), Told(p, data, "response")),
        Told(p, data, "x_groq"))

MergeSse(p, data, usage) ==
  CASE Shape(p) = "anthropic" -> MergeAnthropicSse(p, data, usage)
    [] Shape(p) = "gemini"    -> MergeGeminiSse(p, data, usage)
    [] OTHER                  -> MergeOpenaiSse(p, data, usage)

\* should_parse_sse_event.
ShouldParse(data) == data.type \in {"message_start", "message_delta"} \/ DOMAIN data.says # {}

\* Slip: the places of the chat stream only.
TopUsage(data) == IF "usage" \in DOMAIN data.says THEN <<data.says["usage"]>> ELSE <<>>

\* Where raw_usage_value looks, in this order.
RawPlaces == <<"usage", "usageMetadata", "message", "response", "x_groq">>

\* raw_usage_value: the first place that is there, null or not; as a sequence.
RawUsage(data) ==
  LET there == {i \in DOMAIN RawPlaces : RawPlaces[i] \in DOMAIN data.says}
      first == CHOOSE i \in there : \A j \in there : i <= j
  IN  IF there = {} THEN <<>> ELSE <<data.says[RawPlaces[first]]>>

\* Slip: the top of the object only.
TopModel(data) == IF data.names = "model" THEN "served" ELSE "none"

\* model_from_response_value.
ModelFromResponse(data) ==
  IF data.names \in {"model", "message_model", "modelVersion"} THEN "served" ELSE "none"
=============================================================================
