------------------------------- MODULE Exchange -------------------------------
(***************************************************************************)
(* One call, from the request's headers to the row's counts: where the     *)
(* request goes and what is added to it (handle_request), what a provider  *)
(* of each shape then sends, and what the observer makes of it.  What the  *)
(* tasks do to each other in the meantime is CallPipeline's subject; here  *)
(* a response is a sequence of whole objects, and nothing is dropped.      *)
(***************************************************************************)
EXTENDS Metering, Attribution

CONSTANTS
  Requests,    \* the requests a client may make
  Bills,       \* what a call may come to: its tokens, and its cost in 10^-10 dollars
  MaxDeltas,   \* bound on the objects of a stream ahead of the last one
  MaxRaw       \* MAX_RAW_USAGE_OBJS

\* A host is the label of a <label>.localhost, "plain", "absent" or "unreadable".
Host == Provider \cup {"stranger", "plain", "absent", "unreadable"}

\* stream_options: is there another option, what does it say of include_usage?
Options == [object : BOOLEAN, other : BOOLEAN, include : {"absent", "no", "yes"}]

\* The body of a request; json: is it a JSON object?
Body == [json : BOOLEAN, model : {"none", "asked"}, stream : BOOLEAN, options : Options]

Request ==
  [port : Provider, host : Host, authority : Host \ {"unreadable"},
   header : {"absent", "blank", "declared"}, agent : {"absent", "blank", "agent"},
   api : {"chat", "responses", "other"}, length : {"short", "long", "unknown"}, body : Body]

ASSUME RequestsAssumption == Requests \subseteq Request
ASSUME BillsAssumption ==
  /\ Bills \subseteq [input : Nat, output : Nat, read : Nat, written : Nat,
                      reasoning : Nat, cost : Nat]
  /\ \A b \in Bills : b.reasoning <= b.output
ASSUME BoundsAssumption == MaxDeltas \in Nat /\ MaxRaw \in Nat \ {0}

VARIABLES
  request,
  stage,      \* received, refused, sent, answering, over
  provider,   \* the provider it is for
  sent,       \* the body the provider receives
  bill,       \* what the call comes to
  reply,      \* the objects of the response still to come
  model,      \* base.model
  usage,
  raw,        \* raw_usage_objs
  row         \* the row handed to the write job; a set

vars == <<request, stage, provider, sent, bill, reply, model, usage, raw, row>>

-----------------------------------------------------------------------------
(***************************************************************************)
(* The request                                                             *)
(***************************************************************************)
\* The Host header if it can be read, else the authority.
Addressed ==
  IF request.host \notin {"absent", "unreadable"} THEN request.host ELSE request.authority

\* Slip: an alias nobody knows is the port's provider.
PortElse(host) == IF host \in Provider THEN {host} ELSE {request.port}

\* provider_from_host, and the port's provider where no alias is given.
Addressee(host) ==
  IF host \in Provider THEN {host} ELSE IF host = "stranger" THEN {} ELSE {request.port}

Refuse ==
  /\ stage = "received" /\ Addressee(Addressed) = {}
  /\ stage' = "refused"
  /\ UNCHANGED <<request, provider, sent, bill, reply, model, usage, raw, row>>

\* should_inspect_body.
Inspectable == request.length = "short"

NeedsBodyRead(p) == Inspectable /\ (~ModelInPath(p) \/ InjectStreamOptions(p))

\* Slip: the options are replaced.
OnlyIncludeUsage(body) ==
  IF body.json /\ body.stream
  THEN [body EXCEPT !.options = [object |-> TRUE, other |-> FALSE, include |-> "yes"]] ELSE body

\* maybe_inject_stream_options.
WithIncludeUsage(body) ==
  IF body.json /\ body.stream
  THEN [body EXCEPT !.options =
          [object |-> TRUE, other |-> body.options.other, include |-> "yes"]]
  ELSE body

ModelFromBody(body) == IF body.json THEN body.model ELSE "none"

Forward ==
  /\ stage = "received"
  /\ \E p \in Addressee(Addressed) :
       /\ provider' = p
       /\ sent' = IF NeedsBodyRead(p) /\ InjectStreamOptions(p)
                  THEN WithIncludeUsage(request.body) ELSE request.body
       /\ model' = IF ModelInPath(p) THEN "asked"
                   ELSE IF NeedsBodyRead(p) THEN ModelFromBody(request.body) ELSE "none"
  /\ stage' = "sent"
  /\ UNCHANGED <<request, bill, reply, usage, raw, row>>

-----------------------------------------------------------------------------
(***************************************************************************)
(* The providers (external): how each of them reports a bill.              *)
(***************************************************************************)
\* The usage object of a chat completion; xAI counts the reasoning on top.
ChatUsage(p, b) ==
  LET written == IF p = "openrouter" THEN {"details_cache_write_tokens", "cost"}
                 ELSE IF p = "xai" THEN {"cost_in_usd_ticks"} ELSE {}
      hits == CASE p = "deepseek" -> "prompt_cache_hit_tokens"
                [] p = "kimi"     -> "cached_tokens"
                [] OTHER          -> "details_cached_tokens"
  IN  [f \in {"prompt_tokens", "completion_tokens", "total_tokens",
              "details_reasoning_tokens", hits} \cup written |->
         CASE f = "prompt_tokens"     -> b.input
           [] f = "completion_tokens" -> IF p = "xai" THEN b.output - b.reasoning ELSE b.output
           [] f = "total_tokens"      -> b.input + b.output
           [] f = "details_reasoning_tokens"   -> b.reasoning
           [] f = "details_cache_write_tokens" -> b.written
           [] f = "cost"              -> <<b.cost, -10>>
           [] f = "cost_in_usd_ticks" -> b.cost
           [] OTHER -> b.read]

ResponsesUsage(b) ==
  [f \in {"input_tokens", "output_tokens", "total_tokens", "details_reasoning_tokens",
          "details_cached_tokens"} |->
     CASE f = "input_tokens" -> b.input
       [] f = "output_tokens" -> b.output
       [] f = "total_tokens" -> b.input + b.output
       [] f = "details_reasoning_tokens" -> b.reasoning
       [] OTHER -> b.read]

AnthropicUsage(fields, b) ==
  [f \in fields |->
     CASE f = "input_tokens" -> b.input
       [] f = "output_tokens" -> b.output
       [] f = "cache_read_input_tokens" -> b.read
       [] OTHER -> b.written]

AnthropicStart == {"input_tokens", "cache_read_input_tokens", "cache_creation_input_tokens"}

GeminiUsage(b) ==
  [f \in {"promptTokenCount", "candidatesTokenCount", "thoughtsTokenCount",
          "cachedContentTokenCount"} |->
     CASE f = "promptTokenCount" -> b.input
       [] f = "candidatesTokenCount" -> b.output - b.reasoning
       [] f = "thoughtsTokenCount" -> b.reasoning
       [] OTHER -> b.read]

Object(type, place, uses, names) ==
  [type |-> type, says |-> [l \in place |-> uses], names |-> names]

Delta(names) == Object("delta", {}, {}, names)

Repeated(object, n) == [i \in 1..n |-> object]

\* Is the usage of a chat stream sent at all?
Asked == sent.json /\ sent.stream /\ sent.options.include = "yes"

ResponsesApi(p) == request.api = "responses" /\ p \in {"openai", "xai"}

Stream(p, b, n) ==
  IF Shape(p) = "anthropic" THEN
    <<Object("message_start", {"message"},
             {[AnthropicUsage(AnthropicStart \cup {"output_tokens"}, b) EXCEPT !.output_tokens = 1]},
             "message_model")>>
    \o Repeated(Delta("none"), n)
    \o <<Object("message_delta", {"usage"}, {AnthropicUsage({"output_tokens"}, b)}, "none")>>
  ELSE IF Shape(p) = "gemini" THEN
    Repeated(Object("chunk", {"usageMetadata"}, {[GeminiUsage(b) EXCEPT !.candidatesTokenCount = 0]},
                    "modelVersion"), n)
    \o <<Object("chunk", {"usageMetadata"}, {GeminiUsage(b)}, "modelVersion")>>
  ELSE IF ResponsesApi(p) THEN
    <<Object("created", {"response"}, {}, "response_model")>>
    \o Repeated(Delta("none"), n)
    \o <<Object("completed", {"response"}, {ResponsesUsage(b)}, "response_model")>>
  ELSE IF p = "groq" THEN
    Repeated(Delta("model"), n) \o <<Object("chunk", {"x_groq"}, {ChatUsage(p, b)}, "model")>>
  ELSE IF Asked THEN
    Repeated(Object("chunk", {"usage"}, {}, "model"), n)
    \o <<Object("chunk", {"usage"}, {ChatUsage(p, b)}, "model")>>
  ELSE Repeated(Delta("model"), n)

Whole(p, b) ==
  IF Shape(p) = "anthropic" THEN
    Object("chunk", {"usage"}, {AnthropicUsage(AnthropicStart \cup {"output_tokens"}, b)}, "model")
  ELSE IF Shape(p) = "gemini" THEN
    Object("chunk", {"usageMetadata"}, {GeminiUsage(b)}, "modelVersion")
  ELSE Object("chunk", {"usage"},
              {IF ResponsesApi(p) THEN ResponsesUsage(b) ELSE ChatUsage(p, b)}, "model")

Streams == sent.json /\ sent.stream

Answer ==
  /\ stage = "sent"
  /\ \E b \in Bills, n \in 0..MaxDeltas :
       /\ bill' = {b}
       /\ reply' = IF Streams THEN Stream(provider, b, n) ELSE <<Whole(provider, b)>>
  /\ stage' = "answering"
  /\ UNCHANGED <<request, provider, sent, model, usage, raw, row>>

-----------------------------------------------------------------------------
(***************************************************************************)
(* The observer                                                            *)
(***************************************************************************)
Backfilled(data) == IF model = "none" THEN ModelFromResponse(data) ELSE model

\* One event of a stream.
Observe ==
  /\ stage = "answering" /\ Streams /\ reply # <<>>
  /\ LET data == Head(reply)
     IN  IF ShouldParse(data)
         THEN /\ model' = Backfilled(data)
              /\ usage' = MergeSse(provider, data, usage)
              /\ raw' = IF Len(raw) < MaxRaw THEN raw \o RawUsage(data) ELSE raw
         ELSE UNCHANGED <<model, usage, raw>>
  /\ reply' = Tail(reply)
  /\ UNCHANGED <<request, stage, provider, sent, bill, row>>

\* A body that is no stream: JsonUsageExtractor, then finalize_json_usage.
Extract ==
  /\ stage = "answering" /\ ~Streams /\ reply # <<>>
  /\ LET data == Head(reply)
         key  == JsonUsageKey(provider)
     IN  /\ model' = IF model = "none" /\ data.names = "model" THEN "served" ELSE model
         /\ usage' = Told(provider, data, key)
         /\ raw' = IF key \in DOMAIN data.says THEN raw \o <<data.says[key]>> ELSE raw
  /\ reply' = <<>>
  /\ UNCHANGED <<request, stage, provider, sent, bill, row>>

\* is_inference_endpoint.
Inference == request.api \in {"chat", "responses"}

\* The body has ended; the caller's process is found, or it has gone.
Finish ==
  /\ stage = "answering" /\ reply = <<>>
  /\ stage' = "over"
  /\ LET who == ClientFromHeaders(request.header, request.agent)
     IN  \E exe \in {"executable", Nobody} :
           row' = IF Inference
                  THEN {[model |-> model, usage |-> usage, raw |-> raw,
                         anomaly |-> usage = NoUsage,
                         client |-> who.client, source |-> who.source, exe |-> exe]}
                  ELSE {}
  /\ UNCHANGED <<request, provider, sent, bill, reply, model, usage, raw>>

Settled == stage \in {"refused", "over"} /\ UNCHANGED vars

NoBody == [json |-> FALSE, model |-> "none", stream |-> FALSE,
           options |-> [object |-> FALSE, other |-> FALSE, include |-> "absent"]]

Init ==
  /\ request \in Requests
  /\ stage = "received" /\ provider = request.port /\ sent = NoBody
  /\ bill = {} /\ reply = <<>>
  /\ model = "none" /\ usage = NoUsage /\ raw = <<>> /\ row = {}

Next == Refuse \/ Forward \/ Answer \/ Observe \/ Extract \/ Finish \/ Settled

Spec == Init /\ [][Next]_vars

-----------------------------------------------------------------------------
(***************************************************************************)
(* Properties                                                              *)
(***************************************************************************)
\* What a provider has to say of a bill: its API has no field for the rest.
Due(p, b) ==
  [input |-> b.input, output |-> b.output, read |-> b.read,
   written   |-> IF p \in {"anthropic", "openrouter"} /\ ~ResponsesApi(p) THEN b.written ELSE None,
   reasoning |-> IF p = "anthropic" THEN None ELSE b.reasoning,
   cost      |-> IF p \in {"openrouter", "xai"} /\ ~ResponsesApi(p) THEN <<b.cost, -10>>
                 ELSE NoCost]

\* A chat stream tells its usage if it is asked to; turnpike asks wherever it reads the
\* request, and else only the client can have.
Withheld ==
  /\ Shape(provider) = "openai" /\ provider # "groq" /\ ~ResponsesApi(provider)
  /\ Streams /\ ~Inspectable /\ request.body.options.include # "yes"

\* The row has what the call came to, whatever shape the provider reports it in, streamed
\* or not, split over events or repeated, reasoning in or on top of the output; and if the
\* provider was never asked, nothing, marked no_usage (README: `turnpike never guesses').
MetersTheBill ==
  \A r \in row, b \in bill :
    /\ r.usage = IF Withheld THEN NoUsage ELSE Due(provider, b)
    /\ r.anomaly <=> Withheld

\* The request goes upstream as it was sent, but for include_usage on a streaming call
\* (README: `with one exception').
ForwardedAsSent ==
  stage \in {"sent", "answering", "over"} =>
    \/ sent = request.body
    \/ /\ request.body.stream /\ provider \notin {"anthropic", "gemini", "groq"}
       /\ [sent EXCEPT !.options = request.body.options] = request.body
       /\ sent.options.include = "yes" /\ sent.options.other = request.body.options.other

\* No provider gets a request that names another one (provider_from_host: falling through
\* `would forward (and leak) one provider's credentials to a different upstream').
SentWhereAddressed ==
  stage \in {"sent", "answering", "over"} =>
    \A name \in Provider \cup {"stranger"} :
      request.host = name \/ (request.host = "absent" /\ request.authority = name) =>
        provider = name

\* A Responses stream whose model turnpike has not got from the request.
Unnamed ==
  Streams /\ ResponsesApi(provider) /\ (~Inspectable \/ request.body.model = "none")

\* A call with usage has a model to price it by (spawn_observer: streaming responses
\* `echo it on the chunk that also carries usage'), but for a Responses stream, which names
\* it inside `response', where turnpike does not look: its request has to be read, and to
\* name it.
ModelIsFound ==
  \A r \in row : r.usage # NoUsage => r.model # "none" \/ Unnamed

\* What a row's verbatim usage objects come to, read again in their order.
Recounted(p, objects) ==
  LET said(o) == IF o = {} THEN NoUsage ELSE Parse(p, CHOOSE u \in o : TRUE)
      upto[i \in 0..Len(objects)] ==
        IF i = 0 THEN NoUsage ELSE Merge(upto[i - 1], said(objects[i]))
  IN  upto[Len(objects)]

\* The counts can be had again from the usage kept verbatim (Record::raw_usage: `the
\* verbatim usage object').
AuditKeepsUsage == \A r \in row : Recounted(provider, r.raw) = r.usage

\* ... wherever the column is not full, however many objects the response had.
AuditIsComplete ==
  \A r \in row : Len(r.raw) < MaxRaw => Recounted(provider, r.raw) = r.usage

\* A caller that declares itself is shown under its own name, whatever process is seen;
\* one that declares itself with a blank is never shown under its User-Agent.
ToolIsWhoTheySay ==
  \A r \in row :
    LET tool == UnifiedTool(r.client, r.source, r.exe)
    IN  /\ request.header = "declared" => tool = "declared"
        /\ request.header = "blank" => tool = r.exe
        /\ request.header = "absent" /\ r.exe # Nobody => tool = r.exe
=============================================================================
