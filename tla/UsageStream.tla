----------------------------- MODULE UsageStream -----------------------------
(***************************************************************************)
(* What turnpike's observer gathers from the bytes of a response body: the *)
(* SSE splitter (sse.rs), the JSON usage extractor (json_usage.rs) and the *)
(* merge of usage objects (record.rs, proxy.rs spawn_observer).            *)
(*                                                                         *)
(* A body is a sequence of units, each standing for a run of bytes:        *)
(*   "in"    an input-token count        "out"   an output-token count     *)
(*   "more"  a later, larger output-token count                            *)
(*   "name"  bytes that carry no count; they name the model served         *)
(*   "end"   the newline of an SSE stream; in a JSON body, the closing     *)
(*           brace of an object                                            *)
(*   "cr"    the carriage return before a newline, if there is one         *)
(* The body arrives in chunks cut anywhere, inside a delimiter too.        *)
(***************************************************************************)
EXTENDS Naturals, Sequences, FiniteSets

CONSTANTS
  MaxEvent,      \* MAX_SSE_EVENT_BYTES, in units
  MaxUsageObj,   \* MAX_USAGE_OBJECT_BYTES, in units
  MaxRaw         \* MAX_RAW_USAGE_OBJS

ASSUME BoundsAssumption ==
  MaxEvent \in Nat \ {0} /\ MaxUsageObj \in Nat \ {0} /\ MaxRaw \in Nat \ {0}

Count == {"in", "out", "more"}
Unit  == Count \cup {"name", "end", "cr"}

Max0(S) == IF S = {} THEN 0 ELSE CHOOSE x \in S : \A y \in S : y <= x
Min0(S) == IF S = {} THEN 0 ELSE CHOOSE x \in S : \A y \in S : x <= y

Positions(bytes, units) == {i \in DOMAIN bytes : bytes[i] \in units}

(***************************************************************************)
(* Usage::merge: a field the new object states replaces the old value, a   *)
(* field it leaves out keeps it.  Merging several objects in order is the  *)
(* same as taking the last value each field was given.                     *)
(***************************************************************************)
Usage   == [input : {"none", "some"}, output : {"none", "first", "later"}]
NoUsage == [input |-> "none", output |-> "none"]

Merge(usage, units) ==
  LET said == Max0(Positions(units, {"out", "more"}))
  IN  [input  |-> IF Positions(units, {"in"}) = {} THEN usage.input ELSE "some",
       output |-> IF said = 0 THEN usage.output
                  ELSE IF units[said] = "out" THEN "first" ELSE "later"]

(***************************************************************************)
(* The observer's accumulator.  buf is the splitter's or the extractor's   *)
(* unfinished object, raw the usage objects kept verbatim (each by what it *)
(* says), model the name found in the response, done the extractor's       *)
(* `extracted.is_some() || disabled'.                                      *)
(***************************************************************************)
Upto(S, n) == UNION {[1..k -> S] : k \in 0..n}

UsageCapture ==
  [buf   : Upto(Unit, IF MaxEvent > MaxUsageObj THEN MaxEvent ELSE MaxUsageObj),
   usage : Usage,
   raw   : Upto(Usage, MaxRaw),
   model : {"none", "served"},
   done  : BOOLEAN]

EmptyCapture == [buf |-> <<>>, usage |-> NoUsage, raw |-> <<>>, model |-> "none", done |-> FALSE]

(***************************************************************************)
(* SseSplitter::push.  Complete events are cut at their delimiters, what   *)
(* follows the last one stays in the buffer, with what there is of the     *)
(* next delimiter.                                                         *)
(***************************************************************************)
\* find_event: the event that began after unit `from' ends with unit i, in a blank line.
Closes(bytes, from, i) ==
  \/ /\ i >= from + 2
     /\ bytes[i - 1] = "end" /\ bytes[i] = "end"
  \/ /\ i >= from + 4
     /\ bytes[i - 3] = "cr" /\ bytes[i - 2] = "end" /\ bytes[i - 1] = "cr" /\ bytes[i] = "end"

\* After which unit the event began that is open after i of them.
OpenSince(bytes) ==
  LET open[i \in 0..Len(bytes)] ==
        IF i = 0 THEN 0
        ELSE LET from == open[i - 1] IN IF Closes(bytes, from, i) THEN i ELSE from
  IN  open

Ends(bytes) == LET open == OpenSince(bytes) IN {i \in DOMAIN bytes : open[i] = i}

LastEnd(bytes) == OpenSince(bytes)[Len(bytes)]

Rest(bytes) == SubSeq(bytes, LastEnd(bytes) + 1, Len(bytes))

\* The event that ends at e, with its delimiter, which says nothing.
Event(bytes, e) == SubSeq(bytes, OpenSince(bytes)[e - 1] + 1, e)

SseOutgrows(c, chunk) == Len(Rest(c.buf \o chunk)) > MaxEvent

\* should_parse_sse_event and raw_usage_value: only events that carry usage count.
CarriesUsage(event) == Positions(event, Count) # {}

Telling(bytes) == {e \in Ends(bytes) : CarriesUsage(Event(bytes, e))}

\* Sequences, one after the other.
Joined(parts, n) ==
  LET upto[i \in 0..n] == IF i = 0 THEN <<>> ELSE upto[i - 1] \o parts[i]
  IN  upto[n]

\* What the event closed at e says, if it says anything.
Told(bytes) ==
  [e \in 1..LastEnd(bytes) |->
    IF e \in Telling(bytes) THEN <<Merge(NoUsage, Event(bytes, e))>> ELSE <<>>]

FirstN(s, n) == SubSeq(s, 1, IF Len(s) < n THEN Len(s) ELSE n)

Named(bytes) == \E e \in Telling(bytes) : Positions(Event(bytes, e), {"name"}) # {}

\* The events of one push, handled in order as spawn_observer does.
AbsorbEvents(c, bytes) ==
  [c EXCEPT
     !.buf   = Rest(bytes),
     !.usage = Merge(@, SubSeq(bytes, 1, LastEnd(bytes))),
     !.raw   = FirstN(@ \o Joined(Told(bytes), LastEnd(bytes)), MaxRaw),
     !.model = IF @ = "none" /\ Named(bytes) THEN "served" ELSE @]

\* Slip: the delimiter is looked for in the new chunk alone.
SseAbsorbScansNew(c, chunk) ==
  IF Ends(chunk) # {} THEN AbsorbEvents(c, c.buf \o chunk)
  ELSE [c EXCEPT !.buf = IF Len(@ \o chunk) > MaxEvent THEN <<>> ELSE @ \o chunk]

SseAbsorb(c, chunk) ==
  IF SseOutgrows(c, chunk) THEN [c EXCEPT !.buf = <<>>]
  ELSE AbsorbEvents(c, c.buf \o chunk)

(***************************************************************************)
(* JsonUsageExtractor::push.  Scanning stops at the first usage object     *)
(* (the first count), which is collected up to its closing brace; a longer *)
(* one than the cap disables the extractor.  The model is read only while  *)
(* scanning, ahead of the usage object.                                    *)
(***************************************************************************)
JsonStart(bytes) == Min0(Positions(bytes, Count))

JsonModel(c, bytes) ==
  LET start == JsonStart(bytes)
  IN  IF \E i \in Positions(bytes, {"name"}) : start = 0 \/ i < start
        THEN "served" ELSE c.model

\* The object that starts the bytes is collected, or given up.
JsonCollect(c, bytes) ==
  LET close  == Min0(Positions(bytes, {"end"}))
      kept   == IF close > 0 THEN close ELSE Len(bytes)
      object == Merge(NoUsage, SubSeq(bytes, 1, close))
  IN  IF kept > MaxUsageObj THEN [c EXCEPT !.buf = <<>>, !.done = TRUE]
      ELSE IF close = 0 THEN [c EXCEPT !.buf = bytes]
      ELSE [c EXCEPT !.buf = <<>>, !.usage = object, !.raw = <<object>>, !.done = TRUE]

JsonAbsorb(c, chunk) ==
  LET bytes == c.buf \o chunk
      start == JsonStart(bytes)
      named == [c EXCEPT !.model = JsonModel(c, bytes)]
  IN  IF c.done THEN c
      ELSE IF start = 0 THEN named
      ELSE JsonCollect(named, SubSeq(bytes, start, Len(bytes)))

(***************************************************************************)
(* The observer's kinds: an SSE stream, a JSON body, and a body it does    *)
(* not read (ObserverKind::Json with enabled = false).                     *)
(***************************************************************************)
AbsorbChunk(kind, c, chunk) ==
  IF kind = "sse" THEN SseAbsorb(c, chunk)
  ELSE IF kind = "json" THEN JsonAbsorb(c, chunk)
  ELSE c

EventOutgrows(kind, c, chunk) == kind = "sse" /\ SseOutgrows(c, chunk)
=============================================================================
