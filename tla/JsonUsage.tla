----------------------------- MODULE JsonUsage ------------------------------
(***************************************************************************)
(* The JSON usage extractor (json_usage.rs) against the JSON it reads.     *)
(*                                                                         *)
(* The upstream writes one well-formed document, a unit at a time, and the *)
(* extractor is pushed each unit as it is written.  A unit is a            *)
(* punctuation byte, white space ("blank"), or a run of bytes: "usage" and *)
(* "model" the names the extractor looks for, "word" any other.  The       *)
(* extractor knows nothing of the grammar: a colon, a brace or a quote may *)
(* be syntax or the inside of a string.                                    *)
(***************************************************************************)
EXTENDS Integers, Sequences

CONSTANTS
  MaxKey,        \* MAX_KEY_BYTES, in units
  MaxModel,      \* MAX_MODEL_BYTES, in units
  MaxUsage,      \* MAX_USAGE_OBJECT_BYTES, in units
  UsageValues,   \* what a value of the usage key may be
  EscapeAtCap,   \* may a model's text have a backslash as its MaxModel-th unit?
  MaxUnits,      \* bound on the units of the document
  MaxNesting     \* bound on its nesting

Name == {"usage", "model"}
Unit == Name \cup {"lbrace", "rbrace", "lbracket", "rbracket", "quote", "back", "colon",
                  "comma", "blank", "word"}

ASSUME CapsAssumption ==
  MaxKey \in Nat \ {0, 1} /\ MaxModel \in Nat \ {0} /\ MaxUsage \in Nat \ {0}
ASSUME UsageValuesAssumption == UsageValues \subseteq {"object", "array", "string", "word"}
ASSUME EscapeAtCapAssumption == EscapeAtCap \in BOOLEAN
ASSUME BoundsAssumption == MaxUnits \in Nat /\ MaxNesting \in Nat

VARIABLES
  sent,      \* units written so far
  stack,     \* the objects and arrays still open, the innermost last
  place,     \* what the grammar allows next
  text,      \* the string being written: none, a key or a value
  escaped,   \* its last unit is an unfinished escape
  key,       \* what the root's last key reads
  started,   \* where the value of the root's last key starts
  truth,     \* the usage object and the model of the document (history)
  mode,      \* which feed_* the extractor is in
  depth,
  escape,    \* escape, model_escape, skip_model_escape, collect_escape
  capture_top_string,
  key_buf,
  last_top_string,
  from,      \* where collect_buf, or model_buf, starts
  collect_depth,
  collect_in_string,
  model,
  extracted

writerVars == <<sent, stack, place, text, escaped, key, started, truth>>
keyVars    == <<capture_top_string, key_buf, last_top_string>>
collectVars == <<collect_depth, collect_in_string>>
scanVars   == <<mode, depth, escape, keyVars, from, collectVars, model, extracted>>
vars == <<writerVars, scanVars>>

Span(i, j) == [first |-> i, last |-> j]
Spans   == [first : Nat, last : Nat]
Nothing == Span(0, 0)
Length(span) == span.last + 1 - span.first

-----------------------------------------------------------------------------
(***************************************************************************)
(* The writer: the units JSON allows next, and what they add to the        *)
(* document.  pos is the place of the unit written.                        *)
(***************************************************************************)
pos       == sent + 1
Nesting   == Len(stack)
Inside    == stack[Len(stack)]
Outermost == stack[1]
Second    == stack[2]
AtRoot    == Nesting = 1 /\ Outermost = "object"

ValueNext == place \in {"value", "element"}

AfterValue == IF Nesting = 0 THEN "over" ELSE "after"

\* A value of the usage key may be kept to some kinds.
Allowed(sort) == AtRoot /\ key = "usage" => sort \in UsageValues

Start == started' = IF Nesting = 1 THEN pos ELSE started

Open(b) ==
  /\ b \in {"lbrace", "lbracket"} /\ text = "none" /\ ValueNext /\ Nesting < MaxNesting
  /\ Allowed(IF b = "lbrace" THEN "object" ELSE "array")
  /\ stack' = Append(stack, IF b = "lbrace" THEN "object" ELSE "array")
  /\ place' = IF b = "lbrace" THEN "member" ELSE "element"
  /\ Start
  /\ UNCHANGED <<text, escaped, key, truth>>

\* The root's first usage object is the document's usage, if it is small enough:
\* otherwise the document is as good as without one.
ClosesUsage == Nesting = 2 /\ Outermost = "object" /\ key = "usage" /\ Inside = "object"

Told == IF Length(Span(started, pos)) <= MaxUsage THEN Span(started, pos) ELSE Nothing

Close(b) ==
  /\ text = "none" /\ Nesting > 0
  /\ \/ b = "rbrace" /\ Inside = "object" /\ place \in {"member", "after"}
     \/ b = "rbracket" /\ Inside = "array" /\ place \in {"element", "after"}
  /\ stack' = SubSeq(stack, 1, Len(stack) - 1)
  /\ place' = IF Nesting = 1 THEN "over" ELSE "after"
  /\ truth' = IF ClosesUsage /\ ~truth.closed
                THEN [usage |-> Told, closed |-> TRUE, model |-> truth.model] ELSE truth
  /\ UNCHANGED <<text, escaped, key, started>>

Colon(b) ==
  /\ b = "colon" /\ text = "none" /\ place = "colon"
  /\ place' = "value"
  /\ UNCHANGED <<stack, text, escaped, key, started, truth>>

Comma(b) ==
  /\ b = "comma" /\ text = "none" /\ place = "after"
  /\ place' = IF Inside = "object" THEN "key" ELSE "value"
  /\ UNCHANGED <<stack, text, escaped, key, started, truth>>

Space(b) ==
  /\ b = "blank" /\ text = "none"
  /\ UNCHANGED <<stack, place, text, escaped, key, started, truth>>

\* A number, true, false or null.
Literal(b) ==
  /\ b = "word" /\ text = "none" /\ ValueNext
  /\ Allowed("word")
  /\ place' = AfterValue
  /\ Start
  /\ UNCHANGED <<stack, text, escaped, key, truth>>

BeginString(b) ==
  /\ b = "quote" /\ text = "none"
  /\ \/ /\ place \in {"member", "key"}
        /\ text' = "key" /\ key' = IF AtRoot THEN "empty" ELSE key
        /\ UNCHANGED started
     \/ /\ ValueNext /\ Allowed("string")
        /\ text' = "value" /\ Start
        /\ UNCHANGED key
  /\ UNCHANGED <<stack, place, escaped, truth>>

\* What the root's key reads with b written after it.
Longer(b) == IF key = "empty" /\ b \in Name /\ ~escaped THEN b ELSE "other"

Character(b) ==
  /\ text # "none"
  /\ IF escaped THEN b \in {"quote", "back", "word"} ELSE b \notin {"quote", "back"}
  /\ key' = IF text = "key" /\ AtRoot THEN Longer(b) ELSE key
  /\ escaped' = FALSE
  /\ UNCHANGED <<stack, place, text, started, truth>>

Backslash(b) ==
  /\ b = "back" /\ text # "none" /\ ~escaped
  /\ EscapeAtCap \/ ~(text = "value" /\ AtRoot /\ pos = started + MaxModel - 1)
  /\ escaped' = TRUE
  /\ UNCHANGED <<stack, place, text, key, started, truth>>

\* The root's first model that is not empty, and not too long, ahead of the usage.
NamesModel ==
  /\ text = "value" /\ AtRoot /\ key = "model"
  /\ truth.model = Nothing /\ ~truth.closed
  /\ Length(Span(started, pos)) \in 3..MaxModel

EndString(b) ==
  /\ b = "quote" /\ text # "none" /\ ~escaped
  /\ text' = "none"
  /\ place' = IF text = "key" THEN "colon" ELSE AfterValue
  /\ truth' = IF NamesModel
              THEN [usage |-> truth.usage, closed |-> FALSE, model |-> Span(started, pos)] ELSE truth
  /\ UNCHANGED <<stack, escaped, key, started>>

Write(b) ==
  /\ sent < MaxUnits /\ sent' = pos
  /\ \/ Open(b) \/ Close(b) \/ Colon(b) \/ Comma(b) \/ Space(b) \/ Literal(b)
     \/ BeginString(b) \/ Character(b) \/ Backslash(b) \/ EndString(b)

-----------------------------------------------------------------------------
(***************************************************************************)
(* The extractor.  The flags collecting, collecting_model, skipping_model, *)
(* expecting_model_value, expecting_value and in_string exclude each       *)
(* other: mode is the one that holds.  collect_buf and model_buf hold the  *)
(* document from `from' on: only their length and their end matter.        *)
(***************************************************************************)
NoString == "none"     \* last_top_string = None

ScanQuote ==
  /\ mode' = "string" /\ escape' = FALSE
  /\ capture_top_string' = (depth = 1) /\ key_buf' = <<>>
  /\ UNCHANGED <<depth, last_top_string, from, collectVars, model, extracted>>

Opens(b)  == b \in {"lbrace", "lbracket"}
Closes(b) == b \in {"rbrace", "rbracket"}

Down(b, d) == IF Closes(b) /\ d > 0 THEN d - 1 ELSE d     \* saturating_sub

ScanNesting(b) ==
  /\ depth' = IF Opens(b) THEN depth + 1 ELSE Down(b, depth)
  /\ last_top_string' = NoString
  /\ UNCHANGED <<mode, escape, capture_top_string, key_buf, from, collectVars, model, extracted>>

TopColon(b) == b = "colon" /\ depth = 1

ScanColon ==
  /\ mode' = IF last_top_string = "usage" THEN "expect"
             ELSE IF last_top_string = "model" /\ model = Nothing THEN "expectModel"
             ELSE mode
  /\ last_top_string' = NoString
  /\ UNCHANGED <<depth, escape, capture_top_string, key_buf, from, collectVars, model, extracted>>

ScanComma ==
  /\ last_top_string' = NoString
  /\ UNCHANGED <<mode, depth, escape, capture_top_string, key_buf, from, collectVars, model, extracted>>

\* feed_scan, outside a string.
Scan(b) ==
  \/ b = "quote" /\ ScanQuote
  \/ (Opens(b) \/ Closes(b)) /\ ScanNesting(b)
  \/ TopColon(b) /\ ScanColon
  \/ b = "comma" /\ depth = 1 /\ ScanComma
  \/ /\ b # "quote" /\ ~Opens(b) /\ ~Closes(b) /\ ~TopColon(b) /\ ~(b = "comma" /\ depth = 1)
     /\ UNCHANGED scanVars

FeedScan(b) == mode = "scan" /\ Scan(b)

\* Slip: a key that outgrows the buffer starts it anew.
KeepsLast(b) == key_buf' = IF Len(key_buf) < MaxKey THEN Append(key_buf, b) ELSE <<b>>

Keep(b) ==
  key_buf' = IF capture_top_string /\ Len(key_buf) < MaxKey THEN Append(key_buf, b) ELSE key_buf

\* What a key buffer reads.
Reads(buf) ==
  IF buf = <<"usage">> THEN "usage" ELSE IF buf = <<"model">> THEN "model" ELSE "other"

FeedScanString(b) ==
  /\ mode = "string"
  /\ \/ /\ escape /\ escape' = FALSE /\ Keep(b)
        /\ UNCHANGED <<mode, capture_top_string, last_top_string>>
     \/ /\ ~escape /\ b = "back" /\ escape' = TRUE
        /\ UNCHANGED <<mode, keyVars>>
     \/ /\ ~escape /\ b = "quote"
        /\ mode' = "scan"
        /\ last_top_string' = IF capture_top_string THEN Reads(key_buf) ELSE last_top_string
        /\ capture_top_string' = FALSE /\ key_buf' = <<>>
        /\ UNCHANGED escape
     \/ /\ ~escape /\ b \notin {"back", "quote"} /\ Keep(b)
        /\ UNCHANGED <<mode, escape, capture_top_string, last_top_string>>
  /\ UNCHANGED <<depth, from, collectVars, model, extracted>>

\* push returns for good: `extracted.is_some() || disabled'.
Halt == mode' = "halted"

\* feed_collect, on the unit after the ones kept from `from'' on.
OutgrowsCap == pos >= from + MaxUsage

\* Slip: the closing brace of the object is not checked to be the outermost.
FirstClose(b) == Closes(b)

LastClose(b) == Closes(b) /\ Down(b, collect_depth) = 0

FeedCollect(b) ==
  /\ mode = "collect"
  /\ \/ OutgrowsCap /\ Halt /\ UNCHANGED <<escape, collectVars, extracted>>
     \/ /\ ~OutgrowsCap /\ collect_in_string
        /\ escape' = (~escape /\ b = "back")
        /\ collect_in_string' = (escape \/ b # "quote")
        /\ UNCHANGED <<mode, collect_depth, extracted>>
     \/ /\ ~OutgrowsCap /\ ~collect_in_string
        /\ collect_in_string' = (b = "quote")
        /\ collect_depth' = IF Opens(b) THEN collect_depth + 1 ELSE Down(b, collect_depth)
        /\ IF LastClose(b) THEN Halt /\ extracted' = Span(from, pos)
           ELSE UNCHANGED <<mode, extracted>>
        /\ UNCHANGED escape
  /\ UNCHANGED <<depth, keyVars, from, model>>

\* The opening brace is the first unit collected; any other value is let go, and
\* its first unit is not scanned.
FeedExpectedValue(b) ==
  /\ mode = "expect"
  /\ \/ b = "blank" /\ UNCHANGED scanVars
     \/ /\ b = "lbrace"
        /\ mode' = "collect" /\ from' = pos /\ escape' = FALSE
        /\ collect_depth' = 1 /\ collect_in_string' = FALSE
        /\ UNCHANGED <<depth, keyVars, model, extracted>>
     \/ /\ b \notin {"blank", "lbrace"} /\ mode' = "scan"
        /\ UNCHANGED <<depth, escape, keyVars, from, collectVars, model, extracted>>

\* A value that is not a string is scanned like any other.
FeedExpectedModelValue(b) ==
  /\ mode = "expectModel"
  /\ \/ b = "blank" /\ UNCHANGED scanVars
     \/ /\ b = "quote" /\ mode' = "model" /\ from' = pos /\ escape' = FALSE
        /\ UNCHANGED <<depth, keyVars, collectVars, model, extracted>>
     \/ /\ Opens(b)
        /\ mode' = "scan" /\ depth' = depth + 1 /\ last_top_string' = NoString
        /\ UNCHANGED <<escape, capture_top_string, key_buf, from, collectVars, model, extracted>>
     \/ /\ b = "word" /\ mode' = "scan"
        /\ UNCHANGED <<depth, escape, keyVars, from, collectVars, model, extracted>>

\* feed_skip_model_string, with skip_model_escape as it stands.
Skip(b, pending) ==
  /\ escape' = (~pending /\ b = "back")
  /\ mode' = IF ~pending /\ b = "quote" THEN "scan" ELSE "skipModel"

FeedSkipModelString(b) ==
  /\ mode = "skipModel" /\ Skip(b, escape)
  /\ UNCHANGED <<depth, keyVars, from, collectVars, model, extracted>>

ModelFull == pos >= from + MaxModel

\* A model that outgrows the buffer is skipped: the escape that may be pending is
\* forgotten.  The closing quote ends the model, which counts unless it is empty.
FeedModelString(b) ==
  /\ mode = "model"
  /\ \/ ModelFull /\ Skip(b, FALSE) /\ UNCHANGED model
     \/ ~ModelFull /\ escape /\ escape' = FALSE /\ UNCHANGED <<mode, model>>
     \/ ~ModelFull /\ ~escape /\ b = "back" /\ escape' = TRUE /\ UNCHANGED <<mode, model>>
     \/ /\ ~ModelFull /\ ~escape /\ b = "quote" /\ mode' = "scan"
        /\ model' = IF pos > from + 1 THEN Span(from, pos) ELSE Nothing
        /\ UNCHANGED escape
     \/ ~ModelFull /\ ~escape /\ b \notin {"back", "quote"} /\ UNCHANGED <<mode, escape, model>>
  /\ UNCHANGED <<depth, keyVars, from, collectVars, extracted>>

\* push, one unit.
Push(b) ==
  \/ FeedCollect(b) \/ FeedModelString(b) \/ FeedSkipModelString(b)
  \/ FeedExpectedModelValue(b) \/ FeedExpectedValue(b)
  \/ FeedScan(b) \/ FeedScanString(b)
  \/ mode = "halted" /\ UNCHANGED scanVars

-----------------------------------------------------------------------------
Init ==
  /\ sent = 0 /\ stack = <<>> /\ place = "value" /\ text = "none" /\ escaped = FALSE
  /\ key = "empty" /\ started = 0
  /\ truth = [usage |-> Nothing, closed |-> FALSE, model |-> Nothing]
  /\ mode = "scan" /\ depth = 0 /\ escape = FALSE
  /\ capture_top_string = FALSE /\ key_buf = <<>> /\ last_top_string = NoString
  /\ from = 0 /\ collect_depth = 0 /\ collect_in_string = FALSE
  /\ model = Nothing /\ extracted = Nothing

\* The body ends, or breaks off.
Stop == UNCHANGED vars

Next == (\E b \in Unit : Write(b) /\ Push(b)) \/ Stop

Spec == Init /\ [][Next]_vars

-----------------------------------------------------------------------------
(***************************************************************************)
(* Properties                                                              *)
(***************************************************************************)
TypeOK ==
  /\ sent \in Nat /\ started \in Nat /\ from \in Nat /\ depth \in Nat /\ collect_depth \in Nat
  /\ stack \in Seq({"object", "array"})
  /\ place \in {"value", "element", "member", "key", "colon", "after", "over"}
  /\ text \in {"none", "key", "value"}
  /\ key \in {"empty", "usage", "model", "other"}
  /\ last_top_string \in {"none", "usage", "model", "other"}
  /\ mode \in {"scan", "string", "expect", "expectModel", "model", "skipModel", "collect", "halted"}
  /\ key_buf \in Seq(Unit) /\ Len(key_buf) <= MaxKey
  /\ escaped \in BOOLEAN /\ escape \in BOOLEAN
  /\ capture_top_string \in BOOLEAN /\ collect_in_string \in BOOLEAN
  /\ truth \in [usage : Spans, closed : BOOLEAN, model : Spans]
  /\ model \in Spans /\ extracted \in Spans

(***************************************************************************)
(* How the extractor follows the document.                                 *)
(***************************************************************************)
Running == mode # "halted"
AtValue == AtRoot /\ place = "value" /\ text = "none"

\* The grammar's own part: where a string or a separator can stand.
WriterInv ==
  /\ place \in {"member", "key", "colon"} => Nesting > 0 /\ Inside = "object"
  /\ place = "element" => Nesting > 0 /\ Inside = "array"
  /\ place = "after" => Nesting > 0
  /\ text = "key" => place \in {"member", "key"}
  /\ text = "value" => ValueNext
  /\ escaped => text # "none"

\* The buffer of a root key reads as the key does so far.
Agrees(buf, reading) ==
  /\ reading = "empty" => Len(buf) = 0
  /\ reading \in Name => Len(buf) = 1 /\ buf[1] = reading
  /\ reading = "other" => Len(buf) > 1 \/ (Len(buf) = 1 /\ buf[1] \notin Name)

KeyInv == mode = "string" /\ text = "key" /\ AtRoot => Agrees(key_buf, key)

ScanInv ==
  /\ mode \in {"scan", "expect", "expectModel"} => text = "none"
  /\ mode = "string" => text # "none" /\ (escape <=> escaped) /\ (capture_top_string <=> Nesting = 1)
  /\ mode \notin {"collect", "halted"} => depth = Nesting
  /\ mode = "scan" /\ AtRoot /\ place = "colon" =>
       \A name \in Name : last_top_string = name <=> key = name
  /\ mode = "scan" => ~(AtValue /\ key = "usage") /\ ~(AtValue /\ key = "model" /\ model = Nothing)
  /\ mode = "string" /\ text = "value" /\ AtRoot =>
       key # "usage" /\ (key = "model" => model # Nothing)
  /\ mode = "expect" => AtValue /\ key = "usage"
  /\ mode = "expectModel" => AtValue /\ key = "model" /\ model = Nothing

ModelInv ==
  /\ mode \in {"model", "skipModel"} =>
       /\ text = "value" /\ AtRoot /\ key = "model" /\ model = Nothing
       /\ (escape <=> escaped) /\ from = started
  /\ mode = "model" => sent < from + MaxModel
  /\ mode = "model" /\ escape => sent # from + MaxModel - 1
  /\ mode = "skipModel" => sent + 1 > started + MaxModel

InUsage == Nesting > 1 /\ Outermost = "object" /\ key = "usage"

CollectInv ==
  /\ InUsage => Second = "object" /\ (mode = "collect" \/ ~Running)
  /\ mode = "collect" =>
       /\ InUsage /\ Second = "object" /\ Nesting = collect_depth + 1 /\ ~truth.closed
       /\ from = started /\ sent < from + MaxUsage
       /\ (collect_in_string <=> text # "none") /\ (escape <=> escaped)
  /\ ~Running => truth.closed \/ (InUsage /\ sent >= started + MaxUsage)
  /\ truth.closed => ~Running
  /\ ~truth.closed => truth.usage = Nothing

InStep == WriterInv /\ KeyInv /\ ScanInv /\ ModelInv /\ CollectInv

\* The extractor gives out the document's own usage object and nothing else: not one
\* of a nested object, not the inside of a string, nothing cut short; it gives it out
\* with the unit that completes it, and it misses none that fits MAX_USAGE_OBJECT_BYTES
\* (the promise of JsonUsageExtractor's comment).
ExtractsTheUsage == extracted = truth.usage

\* The model is the value of a root key as well, the first that is not empty and fits
\* MAX_MODEL_BYTES, whatever comes between (feed_expected_model_value,
\* feed_model_string, feed_skip_model_string).
NamesTheModel == model = truth.model
=============================================================================
