---------------------------- MODULE CallPipeline -----------------------------
(***************************************************************************)
(* One metered call through turnpike (proxy.rs).                           *)
(*                                                                         *)
(* The handler forwards the request and, once the upstream has answered,   *)
(* leaves two tasks behind: the forward task, which copies the body to the *)
(* client and tees each chunk to the observer, and the observer, which     *)
(* reads usage out of the chunks and hands one row to a write job on the   *)
(* blocking pool.  The tasks share two bounded channels and the flag       *)
(* `dropped'.  An action is what a task does from one await to the next:   *)
(* the runtime is current_thread, nothing else runs in between.            *)
(*                                                                         *)
(* A chunk in a channel is named by its place in the upstream's body:      *)
(* Bytes::clone shares the buffer.                                         *)
(***************************************************************************)
EXTENDS Integers, Sequences

CONSTANTS
  Requests,          \* the requests a client may make
  Chunk,             \* the non-empty chunks an upstream may send
  Capture,           \* what the observer can have gathered from a body
  NewCapture,        \* ... before the first chunk
  Absorb(_, _, _),   \* ... after one more chunk
  Outgrows(_, _, _), \* ... whether that chunk overflows the SSE splitter
  BodyCap,           \* BODY_CHANNEL_CAP
  ObsCap,            \* OBSERVER_CHANNEL_CAP
  MaxFrames          \* bound on the frames of one response body

Kind == {"sse", "json", "opaque"}

Request == [inference : BOOLEAN, alias : {"known", "unknown"},
            model : {"none", "asked"}]

EmptyFrame == <<>>

ASSUME RequestsAssumption == Requests \subseteq Request
ASSUME CapsAssumption ==
  BodyCap \in Nat \ {0} /\ ObsCap \in Nat \ {0} /\ MaxFrames \in Nat
ASSUME ChunkAssumption == EmptyFrame \notin Chunk
ASSUME CaptureAssumption ==
  /\ NewCapture \in Capture
  /\ \A c \in Capture, b \in Chunk, k \in Kind : Absorb(k, c, b) \in Capture
  /\ \A c \in Capture : c.model \in {"none", "served"}

VARIABLES
  request,    \* what the client asked
  handler,    \* where handle_request stands
  kind,       \* ObserverKind of the response
  status,     \* class of the response status
  client,     \* does the client still hold the response?
  frames,     \* body frames the upstream has sent
  pulled,     \* the non-empty ones, as the forward task took them
  forward,    \* where the forward task stands
  ending,     \* the terminal message it will report
  bodyCh,     \* body_tx -> body_rx
  received,   \* places of the chunks the client has read, in order
  obsCh,      \* obs_tx -> obs_rx
  dropped,    \* observer_dropped
  overflowed, \* sse_overflow
  observer,   \* where the observer stands
  capture,    \* usage, raw_usage_objs, splitter, extractor
  seen,       \* number of chunks absorbed in capture (history)
  ideal,      \* ideal[i+1]: capture of a meter fed the first i chunks (history)
  job,        \* the row a write job carries
  ledger,     \* the rows inserted in calls.db
  lost        \* an insert has failed

upstreamVars == <<frames, pulled, ideal>>
forwardVars  == <<forward, ending, bodyCh>>
observerVars == <<observer, capture, seen, overflowed>>
storeVars    == <<job, ledger, lost>>
headVars     == <<request, handler, kind, status>>
vars == <<request, handler, kind, status, client, frames, pulled, forward, ending,
          bodyCh, received, obsCh, dropped, overflowed, observer, capture, seen,
          ideal, job, ledger, lost>>

Endings == {"finish", "upstream_error", "client_disconnect"}
Degraded == {"sse_overflow", "observation_dropped"}

ChunkMsg(i)   == [type |-> "chunk", at |-> i]
EndMsg(e)     == [type |-> e, at |-> 0]
ErrorItem     == 0     \* the Err item of the body channel

UsageSaid == {c.usage : c \in Capture}
RawSaid   == {c.raw : c \in Capture}

Row == [status : {"none", "ok", "bad"}, model : {"none", "asked", "served"},
        usage : UsageSaid, raw : RawSaid,
        error : {"none", "send_failed", "upstream_error", "client_disconnect"},
        anomaly : {"none", "no_usage"} \cup Degraded]

NoRow == [none |-> TRUE]

Ideal == ideal[Len(pulled) + 1]

-----------------------------------------------------------------------------
Init ==
  /\ request \in Requests
  /\ handler = "received" /\ kind = "none" /\ status = "none"
  /\ client = "open"
  /\ frames = 0 /\ pulled = <<>> /\ ideal = <<NewCapture>>
  /\ forward = "none" /\ ending = "none" /\ bodyCh = <<>> /\ received = <<>>
  /\ obsCh = <<>> /\ dropped = FALSE /\ overflowed = FALSE
  /\ observer = "none" /\ capture = NewCapture /\ seen = 0
  /\ job = NoRow /\ ledger = <<>> /\ lost = FALSE

-----------------------------------------------------------------------------
(***************************************************************************)
(* The handler                                                             *)
(***************************************************************************)
taskVars == <<frames, pulled, ideal, forward, ending, bodyCh, received, obsCh,
              dropped, overflowed, observer, capture, seen>>

\* 421 for an unknown alias.  to_bytes fails (the request body breaks off): 400.
Refuse ==
  /\ handler = "received"
  /\ handler' = "refused"
  /\ UNCHANGED <<request, kind, status, client, taskVars, storeVars>>

\* The request goes upstream, which may be long in answering.
Dispatch ==
  /\ handler = "received" /\ request.alias = "known"
  /\ handler' = "sending"
  /\ UNCHANGED <<request, kind, status, client, taskVars, storeVars>>

FailedRow ==
  [status |-> "none", model |-> request.model, usage |-> NewCapture.usage,
   raw |-> NewCapture.raw, error |-> "send_failed", anomaly |-> "none"]

\* send().await is an Err: 502, and a row if the endpoint is inference.
SendFails ==
  /\ handler = "sending"
  /\ handler' = "failed"
  /\ job' = IF request.inference THEN FailedRow ELSE job
  /\ UNCHANGED <<request, kind, status, client, taskVars, ledger, lost>>

\* The head arrives; the observer and the forward task are spawned.  A JSON body
\* is read only under a 2xx status.
HeadArrives ==
  /\ handler = "sending"
  /\ \E k \in Kind, s \in {"ok", "bad"} :
       /\ k = "json" => s = "ok"
       /\ kind' = k /\ status' = s
  /\ handler' = "answered"
  /\ forward' = "read" /\ observer' = "running"
  /\ UNCHANGED <<request, client, upstreamVars, ending, bodyCh, received, obsCh,
                 dropped, overflowed, capture, seen, storeVars>>

-----------------------------------------------------------------------------
(***************************************************************************)
(* The forward task                                                        *)
(***************************************************************************)
\* Slip: an unbounded channel in place of try_send's bound.
ObserveUnbounded(i) == obsCh' = Append(obsCh, ChunkMsg(i)) /\ UNCHANGED dropped

\* A full channel loses the chunk and sets the flag for good.  The channel cannot be
\* closed here: the observer leaves only after the terminal message, the last one
\* this task sends.
TryObserve(i) ==
  \/ Len(obsCh) < ObsCap /\ obsCh' = Append(obsCh, ChunkMsg(i)) /\ UNCHANGED dropped
  \/ Len(obsCh) >= ObsCap /\ dropped' = TRUE /\ UNCHANGED obsCh

Tee(i) ==
  \/ dropped /\ UNCHANGED <<obsCh, dropped>>
  \/ ~dropped /\ TryObserve(i)

\* Slip: the empty END_STREAM frame is forwarded like any other.
SkipsNothing(chunk) == FALSE

Skips(chunk) == chunk = EmptyFrame

\* The next frame: an empty one is skipped, any other is teed and then offered to
\* the client.
Pull(chunk) ==
  /\ forward = "read" /\ frames < MaxFrames
  /\ frames' = frames + 1
  /\ \/ Skips(chunk) /\ UNCHANGED <<pulled, ideal, forward, obsCh, dropped>>
     \/ /\ ~Skips(chunk)
        /\ pulled' = Append(pulled, chunk)
        /\ ideal'  = Append(ideal, Absorb(kind, Ideal, chunk))
        /\ Tee(Len(pulled) + 1)
        /\ forward' = "send"
  /\ UNCHANGED <<headVars, client, ending, bodyCh, received, observerVars, storeVars>>

\* body_tx.send(Ok(chunk)).await: waits for room while body_rx lives ...
Deliver ==
  /\ forward = "send" /\ client = "open" /\ Len(bodyCh) < BodyCap
  /\ bodyCh' = Append(bodyCh, Len(pulled))
  /\ forward' = "read"
  /\ UNCHANGED <<headVars, client, upstreamVars, ending, received, obsCh, dropped,
                 observerVars, storeVars>>

\* ... and fails once it is gone: the client has disconnected.
DeliverFails ==
  /\ forward = "send" /\ client # "open"
  /\ forward' = "report" /\ ending' = "client_disconnect"
  /\ UNCHANGED <<headVars, client, upstreamVars, bodyCh, received, obsCh, dropped,
                 observerVars, storeVars>>

\* Slip: the body channel is closed without the Err item.
UpstreamBreaksQuietly ==
  /\ forward = "read"
  /\ forward' = "report" /\ ending' = "upstream_error"
  /\ UNCHANGED <<headVars, client, upstreamVars, bodyCh, received, obsCh, dropped,
                 observerVars, storeVars>>

\* The body breaks off: the client is to see an error, not a clean end.
UpstreamBreaks ==
  /\ forward = "read"
  /\ forward' = "sendErr" /\ ending' = "upstream_error"
  /\ UNCHANGED <<headVars, client, upstreamVars, bodyCh, received, obsCh, dropped,
                 observerVars, storeVars>>

DeliverError ==
  /\ forward = "sendErr"
  /\ \/ client = "open" /\ Len(bodyCh) < BodyCap /\ bodyCh' = Append(bodyCh, ErrorItem)
     \/ client # "open" /\ UNCHANGED bodyCh
  /\ forward' = "report"
  /\ UNCHANGED <<headVars, client, upstreamVars, ending, received, obsCh, dropped,
                 observerVars, storeVars>>

UpstreamEnds ==
  /\ forward = "read"
  /\ forward' = "report" /\ ending' = "finish"
  /\ UNCHANGED <<headVars, client, upstreamVars, bodyCh, received, obsCh, dropped,
                 observerVars, storeVars>>

\* obs_tx.send(terminal).await: the one message that waits for room.
Report ==
  /\ forward = "report" /\ Len(obsCh) < ObsCap
  /\ obsCh' = Append(obsCh, EndMsg(ending))
  /\ forward' = "done"
  /\ UNCHANGED <<headVars, client, upstreamVars, ending, bodyCh, received, dropped,
                 observerVars, storeVars>>

\* Slip: body_tx lives until the task returns.
BodyClosedAtReturn == forward = "done"

\* drop(body_tx) comes before the terminal message, so the client never waits for it.
BodyClosed == forward \in {"report", "done"}

-----------------------------------------------------------------------------
(***************************************************************************)
(* The client, through hyper                                               *)
(***************************************************************************)
ReadBody ==
  /\ handler = "answered" /\ client = "open" /\ bodyCh # <<>>
  /\ bodyCh' = Tail(bodyCh)
  /\ IF Head(bodyCh) = ErrorItem
       THEN client' = "broken" /\ UNCHANGED received
       ELSE received' = Append(received, Head(bodyCh)) /\ UNCHANGED client
  /\ UNCHANGED <<headVars, upstreamVars, forward, ending, obsCh, dropped,
                 observerVars, storeVars>>

\* body_tx is gone and the channel is drained: the response is complete.
SeeEnd ==
  /\ handler = "answered" /\ client = "open" /\ bodyCh = <<>> /\ BodyClosed
  /\ client' = "complete"
  /\ UNCHANGED <<headVars, upstreamVars, forwardVars, received, obsCh, dropped,
                 observerVars, storeVars>>

\* The client goes away.  Before the head has arrived hyper drops the handler's
\* future and with it the call; afterwards it drops body_rx.
Disconnect ==
  /\ client = "open"
  /\ client' = "gone"
  /\ handler' = IF handler \in {"received", "sending"} THEN "cancelled" ELSE handler
  /\ bodyCh' = <<>>
  /\ UNCHANGED <<request, kind, status, upstreamVars, forward, ending, received,
                 obsCh, dropped, observerVars, storeVars>>

-----------------------------------------------------------------------------
(***************************************************************************)
(* The observer                                                            *)
(***************************************************************************)
Receive ==
  /\ observer = "running" /\ obsCh # <<>>
  /\ obsCh' = Tail(obsCh)

\* Slip: the observer goes on with whatever still arrives.
NeverSkipping == FALSE

Skipping == dropped

\* A chunk: skipped once `dropped' is set, else absorbed; an SSE event that
\* outgrows the splitter sets both flags.
Observe ==
  /\ Receive
  /\ LET msg == Head(obsCh)
         chunk == pulled[msg.at]
     IN  /\ msg.type = "chunk"
         /\ \/ Skipping /\ UNCHANGED <<capture, seen, overflowed, dropped>>
            \/ /\ ~Skipping /\ ~Outgrows(kind, capture, chunk)
               /\ capture' = Absorb(kind, capture, chunk) /\ seen' = seen + 1
               /\ UNCHANGED <<overflowed, dropped>>
            \/ /\ ~Skipping /\ Outgrows(kind, capture, chunk)
               /\ overflowed' = TRUE /\ dropped' = TRUE
               /\ UNCHANGED <<capture, seen>>
  /\ UNCHANGED <<headVars, client, upstreamVars, forwardVars, received, observer, storeVars>>

\* Slip: only the splitter's flag is looked at.
OverflowAnomaly == IF overflowed THEN "sse_overflow" ELSE "none"

TerminalAnomaly ==
  IF overflowed THEN "sse_overflow"
  ELSE IF dropped THEN "observation_dropped"
  ELSE "none"

\* The canary fires at a clean end only.
Canary(end, anomaly) ==
  /\ anomaly = "none" /\ end = "finish" /\ status = "ok"
  /\ capture.usage = NewCapture.usage

\* A degraded row keeps neither counts nor raw objects.  The model asked for wins;
\* an SSE stream has told its own as it went, a JSON body tells it when finalized.
TerminalRow(end) ==
  LET anomaly  == TerminalAnomaly
      degraded == anomaly # "none"
  IN  [status  |-> status,
       model   |-> IF request.model # "none" THEN request.model
                   ELSE IF kind = "json" /\ degraded THEN "none" ELSE capture.model,
       usage   |-> IF degraded THEN NewCapture.usage ELSE capture.usage,
       raw     |-> IF degraded THEN NewCapture.raw ELSE capture.raw,
       error   |-> IF end = "finish" THEN "none" ELSE end,
       anomaly |-> IF Canary(end, anomaly) THEN "no_usage" ELSE anomaly]

\* Slip: only a call that finished is recorded.
RecordsFinished(end) == request.inference /\ end = "finish"

\* is_inference_endpoint decides what is logged, in every terminal arm.
Records(end) == request.inference

\* The terminal message: the row goes to a write job and the observer returns.
Conclude ==
  /\ Receive
  /\ Head(obsCh).type \in Endings
  /\ LET end == Head(obsCh).type
     IN  job' = IF Records(end) THEN TerminalRow(end) ELSE job
  /\ observer' = "done"
  /\ UNCHANGED <<headVars, client, upstreamVars, forwardVars, received, dropped,
                 capture, seen, overflowed, ledger, lost>>

-----------------------------------------------------------------------------
(***************************************************************************)
(* The write job: the insert succeeds, or fails with a warning             *)
(***************************************************************************)
WriteRow ==
  /\ job # NoRow
  /\ ledger' = Append(ledger, job) /\ job' = NoRow
  /\ UNCHANGED <<headVars, client, taskVars, lost>>

WriteFails ==
  /\ job # NoRow
  /\ job' = NoRow /\ lost' = TRUE
  /\ UNCHANGED <<headVars, client, taskVars, ledger>>

-----------------------------------------------------------------------------
Over ==
  /\ handler \in {"refused", "failed", "cancelled", "answered"}
  /\ handler = "answered" => forward = "done" /\ observer = "done" /\ client # "open"
  /\ job = NoRow

Stop == Over /\ UNCHANGED vars

Handler  == Refuse \/ Dispatch \/ SendFails \/ HeadArrives
Forward  == Deliver \/ DeliverFails \/ DeliverError \/ Report
Upstream == (\E b \in Chunk \cup {EmptyFrame} : Pull(b)) \/ UpstreamBreaks \/ UpstreamEnds
Client   == ReadBody \/ SeeEnd
Observer == Observe \/ Conclude
Writer   == WriteRow \/ WriteFails

Next == Handler \/ Forward \/ Upstream \/ Client \/ Disconnect \/ Observer \/ Writer \/ Stop

Spec == Init /\ [][Next]_vars

(***************************************************************************)
(* Fairness.  The runtime polls every task it has woken, a write job runs, *)
(* the upstream answers and ends its body, a client that stays reads on.   *)
(* Nobody has to disconnect.                                               *)
(***************************************************************************)
ClientIsServed ==
  WF_vars(Handler) /\ WF_vars(Forward) /\ WF_vars(Upstream) /\ WF_vars(Client)

FairSpec == Spec /\ ClientIsServed /\ WF_vars(Observer) /\ WF_vars(Writer)

\* The observer and the write job may stop for ever.
StalledSpec == Spec /\ ClientIsServed

-----------------------------------------------------------------------------
(***************************************************************************)
(* Properties                                                              *)
(***************************************************************************)
Message == [type : {"chunk"}, at : Nat \ {0}] \cup [type : Endings, at : {0}]

\* The type invariant: the channels of handle_request within their capacity, the
\* observer's counters within the body, at most one row in the store.
TypeOK ==
  /\ request \in Requests
  /\ handler \in {"received", "sending", "refused", "failed", "answered", "cancelled"}
  /\ kind \in Kind \cup {"none"} /\ status \in {"none", "ok", "bad"}
  /\ client \in {"open", "complete", "broken", "gone"}
  /\ frames \in 0..MaxFrames
  /\ pulled \in Seq(Chunk) /\ ideal \in Seq(Capture)
  /\ Len(pulled) <= frames /\ Len(ideal) = Len(pulled) + 1
  /\ forward \in {"none", "read", "send", "sendErr", "report", "done"}
  /\ ending \in Endings \cup {"none"}
  /\ bodyCh \in Seq(Nat) /\ Len(bodyCh) <= BodyCap
  /\ received \in Seq(Nat)
  /\ obsCh \in Seq(Message) /\ Len(obsCh) <= ObsCap
  /\ dropped \in BOOLEAN /\ overflowed \in BOOLEAN
  /\ observer \in {"none", "running", "done"}
  /\ capture \in Capture /\ seen \in 0..Len(pulled)
  /\ job \in Row \cup {NoRow}
  /\ ledger \in Seq(Row) /\ Len(ledger) <= 1
  /\ lost \in BOOLEAN

\* What a row may say of a call whose whole body says `truth' (terminal_anomaly's
\* comment: partial sums are untrustworthy; the canary's: a miss is flagged).
Honest(row, truth) ==
  /\ row.anomaly \in Degraded =>
       row.usage = NewCapture.usage /\ row.raw = NewCapture.raw
  /\ row.anomaly \notin Degraded => row.usage = truth.usage /\ row.raw = truth.raw
  /\ row.anomaly = "no_usage" <=>
       /\ row.anomaly \notin Degraded /\ row.usage = NewCapture.usage
       /\ row.error = "none" /\ row.status = "ok"

\* Abstract specification: one honest row per call, entered when the call is over
\* and final.
Ledger == INSTANCE CallLedger WITH
  Truth <- Capture, truth <- Ideal, ledger <- ledger

\* The pipeline implements the ledger's promise: whatever the tasks' order, a row
\* without a degraded anomaly has exactly the counts of the whole body, there is
\* one row at most, and nothing of the call happens after it.
ImplementsLedger == Ledger!Spec

Rows == {ledger[i] : i \in DOMAIN ledger}

\* A row is flagged exactly when the observer missed bytes, and for the reason it
\* gives: sse_overflow, when everything before was read and the next chunk outgrew
\* the splitter; observation_dropped, when the tee lost a chunk of a stream that
\* had not outgrown it (terminal_anomaly; Chunk arm of spawn_observer).
AnomalyIsTrue ==
  \A row \in Rows :
    /\ row.anomaly \in Degraded <=> seen < Len(pulled)
    /\ row.anomaly = "sse_overflow" =>
         Outgrows(kind, ideal[seen + 1], pulled[seen + 1])
    /\ row.anomaly = "observation_dropped" =>
         \A i \in 1..seen : ~Outgrows(kind, ideal[i], pulled[i])

\* A row's error is how the call ended: a client that has read the whole body is
\* never said to have disconnected, whenever it closes (handle_request's comment on
\* empty frames); a client that saw a clean end is never given an error row.
RowTellsEnding ==
  \A row \in Rows :
    /\ request.inference /\ request.alias = "known"
    /\ row.error = "none" => ending = "finish"
    /\ row.error = "client_disconnect" =>
         /\ client = "gone"
         /\ \E i \in 1..Len(pulled) :
              pulled[i] # EmptyFrame /\ i \notin {received[j] : j \in DOMAIN received}
    /\ row.error = "upstream_error" => client # "complete"
    /\ row.error = "send_failed" => handler = "failed" /\ pulled = <<>>

\* The client reads the upstream's chunks in order and none twice, sees a clean end
\* only after all of them and only if the upstream ended cleanly, and an error only
\* after all that came before it: metering never changes the response.
ForwardsFaithfully ==
  /\ \A i \in DOMAIN received : received[i] = i
  /\ client = "complete" => Len(received) = Len(pulled) /\ ending = "finish"
  /\ client = "broken" => Len(received) = Len(pulled) /\ ending = "upstream_error"

\* An inference call that got as far as an answer, or failed upstream, leaves its
\* row, unless the insert fails; for this, the observer and the write job must run.
EveryCallIsRecorded ==
  WF_vars(Observer) /\ WF_vars(Writer) =>
    ((handler \in {"answered", "failed"} /\ request.inference) ~> (ledger # <<>> \/ lost))

\* The README's `writes down every call', and `whether that failed request still
\* reached the provider and billed you anyway': a request sent upstream leaves a row.
EveryRequestSentIsRecorded ==
  (handler = "sending" /\ request.inference) ~> (ledger # <<>> \/ lost)

\* A client that stays gets its whole response even if the observer never runs
\* again: the tee does not block, and body_tx is dropped before the terminal message.
ClientNeverWaitsForObserver == (handler = "answered") ~> (client # "open")
=============================================================================
