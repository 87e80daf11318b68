--------------------------- MODULE JsonUsageProofs ---------------------------
(***************************************************************************)
(* Proofs about JsonUsage, for documents of any length and nesting.        *)
(***************************************************************************)
EXTENDS JsonUsage, SequenceTheorems, TLAPS

LEMMA TypeInit == Init => TypeOK
<1>. SUFFICES ASSUME Init PROVE TypeOK
  OBVIOUS
<1>1. truth \in [usage : Spans, closed : BOOLEAN, model : Spans]
  BY DEF Init, Span, Spans, Nothing
<1>2. model \in Spans /\ extracted \in Spans
  BY DEF Init, Span, Spans, Nothing
<1>3. stack \in Seq({"object", "array"}) /\ key_buf \in Seq(Unit)
  BY DEF Init
<1>7. Len(key_buf) <= MaxKey
  BY CapsAssumption DEF Init
<1>4. /\ sent \in Nat /\ started \in Nat /\ from \in Nat /\ depth \in Nat /\ collect_depth \in Nat
  BY DEF Init
<1>5. escaped \in BOOLEAN /\ escape \in BOOLEAN /\ capture_top_string \in BOOLEAN /\ collect_in_string \in BOOLEAN
  BY DEF Init
<1>6. QED BY <1>1, <1>2, <1>3, <1>4, <1>5, <1>7, Zenon DEF Init, TypeOK, NoString

LEMMA TypeWriter ==
  ASSUME TypeOK, NEW b \in Unit, Write(b)
  PROVE  /\ sent' \in Nat
         /\ started' \in Nat
         /\ stack' \in Seq({"object", "array"})
         /\ place' \in {"value", "element", "member", "key", "colon", "after", "over"}
         /\ text' \in {"none", "key", "value"}
         /\ escaped' \in BOOLEAN
         /\ key' \in {"empty", "usage", "model", "other"}
         /\ truth' \in [usage : Spans, closed : BOOLEAN, model : Spans]
<1>1. sent' \in Nat
  BY DEF TypeOK, Write, pos
<1>2. started' \in Nat
  <2>1. started' = started \/ started' = pos
    BY DEF Write, Open, Close, Colon, Comma, Space, Literal, BeginString, Character,
       Backslash, EndString, Start
  <2>2. QED BY <2>1 DEF TypeOK, pos
<1>3. stack' \in Seq({"object", "array"})
  <2>1. stack \in Seq({"object", "array"})
    BY DEF TypeOK
  <2>2. CASE Open(b)
    <3>1. PICK sort \in {"object", "array"} : stack' = Append(stack, sort)
      BY <2>2 DEF Open
    <3>2. QED BY <2>1, <3>1
  <2>3. CASE Close(b)
    <3>1. Len(stack) > 0 /\ stack' = SubSeq(stack, 1, Len(stack) - 1)
      BY <2>3 DEF Close, Nesting
    <3>2. QED BY <2>1, <3>1
  <2>4. CASE ~Open(b) /\ ~Close(b)
    BY <2>1, <2>4 DEF Write, Colon, Comma, Space, Literal, BeginString, Character,
       Backslash, EndString
  <2>5. QED BY <2>2, <2>3, <2>4
<1>4. place' \in {"value", "element", "member", "key", "colon", "after", "over"}
  BY DEF TypeOK, Write, Open, Close, Colon, Comma, Space, Literal, BeginString, Character,
       Backslash, EndString, AfterValue
<1>5. text' \in {"none", "key", "value"}
  BY DEF TypeOK, Write, Open, Close, Colon, Comma, Space, Literal, BeginString, Character,
       Backslash, EndString
<1>6. escaped' \in BOOLEAN
  BY DEF TypeOK, Write, Open, Close, Colon, Comma, Space, Literal, BeginString, Character,
       Backslash, EndString
<1>7. key' \in {"empty", "usage", "model", "other"}
  BY DEF TypeOK, Write, Open, Close, Colon, Comma, Space, Literal, BeginString, Character,
       Backslash, EndString, Longer, Name
<1>8. truth' \in [usage : Spans, closed : BOOLEAN, model : Spans]
  <2>1. \/ truth' = truth
     \/ truth' = [usage |-> Span(started, pos), closed |-> TRUE, model |-> truth.model]
     \/ truth' = [usage |-> Nothing, closed |-> TRUE, model |-> truth.model]
     \/ truth' = [usage |-> truth.usage, closed |-> FALSE, model |-> Span(started, pos)]
    BY DEF Write, Open, Close, Colon, Comma, Space, Literal, BeginString, Character,
       Backslash, EndString, Told
  <2>2. Span(started, pos) \in Spans /\ Nothing \in Spans
    BY DEF TypeOK, pos, Span, Spans, Nothing
  <2>3. truth \in [usage : Spans, closed : BOOLEAN, model : Spans]
    BY DEF TypeOK
  <2>4. CASE truth' = truth
    BY <2>3, <2>4
  <2>5. CASE truth' = [usage |-> Span(started, pos), closed |-> TRUE, model |-> truth.model]
    BY <2>2, <2>3, <2>5
  <2>6. CASE truth' = [usage |-> Nothing, closed |-> TRUE, model |-> truth.model]
    BY <2>2, <2>3, <2>6
  <2>7. CASE truth' = [usage |-> truth.usage, closed |-> FALSE, model |-> Span(started, pos)]
    BY <2>2, <2>3, <2>7
  <2>8. QED BY <2>1, <2>4, <2>5, <2>6, <2>7
<1>9. QED BY <1>1, <1>2, <1>3, <1>4, <1>5, <1>6, <1>7, <1>8, Zenon

LEMMA TypeExtractor ==
  ASSUME TypeOK, NEW b \in Unit, Push(b)
  PROVE  /\ depth' \in Nat
         /\ from' \in Nat
         /\ collect_depth' \in Nat
         /\ mode' \in {"scan", "string", "expect", "expectModel", "model", "skipModel", "collect", "halted"}
         /\ escape' \in BOOLEAN
         /\ capture_top_string' \in BOOLEAN
         /\ collect_in_string' \in BOOLEAN
         /\ key_buf' \in Seq(Unit) /\ Len(key_buf)' <= MaxKey
         /\ last_top_string' \in {"none", "usage", "model", "other"}
         /\ model' \in Spans
         /\ extracted' \in Spans
<1>1. depth' \in Nat
  <2>1. depth' = depth \/ depth' = depth + 1 \/ depth' = Down(b, depth)
    BY DEF Push, FeedCollect, FeedModelString, FeedSkipModelString,
       FeedExpectedModelValue, FeedExpectedValue, FeedScan, FeedScanString, Scan, ScanQuote,
       ScanNesting, ScanColon, ScanComma, scanVars
  <2>2. QED BY <2>1 DEF TypeOK, Down
<1>2. from' \in Nat
  <2>1. from' = from \/ from' = pos
    BY DEF Push, FeedCollect, FeedModelString, FeedSkipModelString,
       FeedExpectedModelValue, FeedExpectedValue, FeedScan, FeedScanString, Scan, ScanQuote,
       ScanNesting, ScanColon, ScanComma, scanVars, keyVars, collectVars
  <2>2. QED BY <2>1 DEF TypeOK, pos
<1>3. collect_depth' \in Nat
  <2>1. \/ collect_depth' = collect_depth \/ collect_depth' = 0 \/ collect_depth' = 1
        \/ collect_depth' = collect_depth + 1 \/ collect_depth' = Down(b, collect_depth)
    BY DEF Push, FeedCollect, FeedModelString, FeedSkipModelString,
       FeedExpectedModelValue, FeedExpectedValue, FeedScan, FeedScanString, Scan, ScanQuote,
       ScanNesting, ScanColon, ScanComma, scanVars, collectVars
  <2>2. QED BY <2>1 DEF TypeOK, Down
<1>4. mode' \in {"scan", "string", "expect", "expectModel", "model", "skipModel", "collect", "halted"}
  BY DEF TypeOK, Push, FeedCollect, FeedModelString, FeedSkipModelString,
       FeedExpectedModelValue, FeedExpectedValue, FeedScan, FeedScanString, Scan, ScanQuote,
       ScanNesting, ScanColon, ScanComma, scanVars, keyVars, collectVars, Halt, Skip
<1>5. escape' \in BOOLEAN
  BY DEF TypeOK, Push, FeedCollect, FeedModelString, FeedSkipModelString,
       FeedExpectedModelValue, FeedExpectedValue, FeedScan, FeedScanString, Scan, ScanQuote,
       ScanNesting, ScanColon, ScanComma, scanVars, keyVars, collectVars, Skip
<1>6. capture_top_string' \in BOOLEAN
  BY DEF TypeOK, Push, FeedCollect, FeedModelString, FeedSkipModelString,
       FeedExpectedModelValue, FeedExpectedValue, FeedScan, FeedScanString, Scan, ScanQuote,
       ScanNesting, ScanColon, ScanComma, scanVars, keyVars, collectVars
<1>7. collect_in_string' \in BOOLEAN
  BY DEF TypeOK, Push, FeedCollect, FeedModelString, FeedSkipModelString,
       FeedExpectedModelValue, FeedExpectedValue, FeedScan, FeedScanString, Scan, ScanQuote,
       ScanNesting, ScanColon, ScanComma, scanVars, keyVars, collectVars
<1>8. key_buf' \in Seq(Unit) /\ Len(key_buf)' <= MaxKey
  <2>1. \/ key_buf' = key_buf \/ key_buf' = <<>>
        \/ Len(key_buf) < MaxKey /\ key_buf' = Append(key_buf, b)
    BY DEF Push, FeedCollect, FeedModelString, FeedSkipModelString,
       FeedExpectedModelValue, FeedExpectedValue, FeedScan, FeedScanString, Scan, ScanQuote,
       ScanNesting, ScanColon, ScanComma, scanVars, keyVars, collectVars, Keep
  <2>2. key_buf \in Seq(Unit) /\ Len(key_buf) <= MaxKey /\ MaxKey \in Nat
    BY CapsAssumption DEF TypeOK
  <2>3. CASE key_buf' = <<>>
    BY <2>2, <2>3
  <2>4. CASE Len(key_buf) < MaxKey /\ key_buf' = Append(key_buf, b)
    <3>1. Len(key_buf') = Len(key_buf) + 1 /\ key_buf' \in Seq(Unit)
      BY <2>2, <2>4
    <3>2. QED BY <2>2, <2>4, <3>1
  <2>5. QED BY <2>1, <2>2, <2>3, <2>4
<1>9. last_top_string' \in {"none", "usage", "model", "other"}
  BY DEF TypeOK, Push, FeedCollect, FeedModelString, FeedSkipModelString,
       FeedExpectedModelValue, FeedExpectedValue, FeedScan, FeedScanString, Scan, ScanQuote,
       ScanNesting, ScanColon, ScanComma, scanVars, keyVars, collectVars, Reads, NoString
<1>10. model' \in Spans
  <2>1. model' \in {model, Nothing, Span(from, pos)}
    BY DEF Push, FeedCollect, FeedModelString, FeedSkipModelString,
       FeedExpectedModelValue, FeedExpectedValue, FeedScan, FeedScanString, Scan, ScanQuote,
       ScanNesting, ScanColon, ScanComma, scanVars, keyVars, collectVars
  <2>2. QED BY <2>1 DEF TypeOK, pos, Span, Spans, Nothing
<1>11. extracted' \in Spans
  <2>1. extracted' \in {extracted, Span(from, pos)}
    BY DEF Push, FeedCollect, FeedModelString, FeedSkipModelString,
       FeedExpectedModelValue, FeedExpectedValue, FeedScan, FeedScanString, Scan, ScanQuote,
       ScanNesting, ScanColon, ScanComma, scanVars, keyVars, collectVars
  <2>2. QED BY <2>1 DEF TypeOK, pos, Span, Spans
<1>12. QED BY <1>1, <1>2, <1>3, <1>4, <1>5, <1>6, <1>7, <1>8, <1>9, <1>10, <1>11, Zenon

-----------------------------------------------------------------------------
(***************************************************************************)
(* The invariant: the extractor is in step, and has what the document has. *)
(***************************************************************************)
IInv == TypeOK /\ InStep /\ ExtractsTheUsage /\ NamesTheModel

\* The documents the extractor can follow: no usage value is a string or an array,
\* no escape is cut by MAX_MODEL_BYTES.
Plain == UsageValues \subseteq {"object", "word"} /\ EscapeAtCap = FALSE

USE DEF Running, AtValue, AtRoot, InUsage, ValueNext, pos

\* A sequence with one more element, and with its last one gone.
LEMMA PushedStack ==
  ASSUME NEW T, NEW s \in Seq(T), NEW e \in T, NEW r, r = Append(s, e)
  PROVE  /\ Len(r) = Len(s) + 1  /\ r[Len(r)] = e
         /\ \A i \in 1..Len(s) : r[i] = s[i]
BY AppendProperties

LEMMA PoppedStack ==
  ASSUME NEW T, NEW s \in Seq(T), Len(s) > 0, NEW r, r = SubSeq(s, 1, Len(s) - 1)
  PROVE  /\ Len(s) \in Nat /\ Len(s) > 0 /\ Len(r) = Len(s) - 1
         /\ \A i \in 1..Len(r) : r[i] = s[i]
<1>1. Len(s) \in Nat /\ Len(s) > 0
  OBVIOUS
<1>2. PICK n \in Nat : n = Len(s) - 1
  BY <1>1
<1>3. r = SubSeq(s, 1, n) /\ n <= Len(s)
  BY <1>1, <1>2
<1>4. Len(r) = n
  BY <1>3
<1>5. \A i \in 1..n : r[i] = s[i]
  BY <1>3
<1>6. QED BY <1>1, <1>2, <1>4, <1>5

\* The stack after each unit of the document.
StackKept == /\ Nesting' = Nesting /\ Inside' = Inside
             /\ Outermost' = Outermost /\ Second' = Second

StackInv == /\ Nesting \in Nat
            /\ Nesting = 1 => Inside = Outermost
            /\ Nesting = 2 => Inside = Second

LEMMA StackType == TypeOK => StackInv
BY DEF TypeOK, StackInv, Nesting, Inside, Outermost, Second

LEMMA SameStack == UNCHANGED stack => StackKept
BY DEF StackKept, Nesting, Inside, Outermost, Second

Sort(b) == IF b = "lbrace" THEN "object" ELSE "array"

LEMMA Deeper ==
  ASSUME TypeOK, NEW b \in Unit, Open(b)
  PROVE  /\ Nesting' = Nesting + 1 /\ Inside' = Sort(b)
         /\ Nesting = 0 => Outermost' = Sort(b)
         /\ Nesting = 1 => Second' = Sort(b)
         /\ Nesting > 0 => Outermost' = Outermost
         /\ Nesting > 1 => Second' = Second
<1>1. stack \in Seq({"object", "array"}) /\ Nesting \in Nat
  BY DEF TypeOK, Nesting
<1>2. stack' = Append(stack, Sort(b))
  BY DEF Open, Sort
<1>3. Sort(b) \in {"object", "array"}
  BY DEF Sort
<1>4. /\ Len(stack') = Len(stack) + 1 /\ stack'[Len(stack')] = Sort(b)
      /\ \A i \in 1..Len(stack) : stack'[i] = stack[i]
  BY <1>1, <1>2, <1>3, PushedStack
<1>5. QED BY <1>1, <1>4 DEF Nesting, Inside, Outermost, Second

LEMMA Shallower ==
  ASSUME TypeOK, NEW b \in Unit, Close(b)
  PROVE  /\ Nesting > 0 /\ Nesting' = Nesting - 1
         /\ Nesting > 1 => Outermost' = Outermost
         /\ Nesting > 2 => Second' = Second
<1>1. stack \in Seq({"object", "array"})
  BY DEF TypeOK
<1>2. Len(stack) > 0 /\ stack' = SubSeq(stack, 1, Len(stack) - 1)
  BY DEF Close, Nesting
<1>3. /\ Len(stack) \in Nat /\ Len(stack) > 0 /\ Len(stack') = Len(stack) - 1
      /\ \A i \in 1..Len(stack') : stack'[i] = stack[i]
  BY <1>1, <1>2, PoppedStack
<1>4. QED BY <1>3 DEF Nesting, Inside, Outermost, Second

LEMMA WriterStep ==
  ASSUME TypeOK, WriterInv, NEW b \in Unit, Write(b)
  PROVE  WriterInv'
<1>1. Nesting \in Nat /\ escaped \in BOOLEAN /\ escaped' \in BOOLEAN
  BY StackType, TypeWriter, Zenon DEF StackInv, TypeOK
<1>2. CASE Open(b)
  <2>1. Nesting' = Nesting + 1 /\ Inside' = Sort(b)
    BY <1>2, Deeper, Zenon
  <2>2. /\ text = "none" /\ text' = text /\ escaped' = escaped
        /\ place' = IF b = "lbrace" THEN "member" ELSE "element"
    BY <1>2 DEF Open
  <2>3. Nesting' > 0
    BY <1>1, <2>1
  <2>4. CASE b = "lbrace"
    BY <1>1, <2>1, <2>2, <2>3, <2>4 DEF WriterInv, Sort
  <2>5. CASE b # "lbrace"
    BY <1>1, <2>1, <2>2, <2>3, <2>5 DEF WriterInv, Sort
  <2>6. QED BY <2>4, <2>5
<1>3. CASE Close(b)
  <2>1. Nesting > 0 /\ Nesting' = Nesting - 1
    BY <1>3, Shallower, Zenon
  <2>2. /\ text = "none" /\ text' = text /\ escaped' = escaped
        /\ place' = IF Nesting = 1 THEN "over" ELSE "after"
    BY <1>3 DEF Close
  <2>3. QED BY <1>1, <2>1, <2>2 DEF WriterInv
<1>4. CASE UNCHANGED stack
  <2>1. Nesting' = Nesting /\ Inside' = Inside
    BY <1>4, SameStack, Zenon DEF StackKept
  <2>2. CASE Colon(b) \/ Comma(b) \/ Space(b)
    BY <1>1, <2>1, <2>2 DEF WriterInv, Colon, Comma, Space
  <2>3. CASE Literal(b) \/ BeginString(b)
    BY <1>1, <2>1, <2>3 DEF WriterInv, Literal, BeginString, AfterValue
  <2>4. CASE Character(b) \/ Backslash(b) \/ EndString(b)
    BY <1>1, <2>1, <2>4 DEF WriterInv, Character, Backslash, EndString, AfterValue
  <2>5. QED BY <1>2, <1>3, <2>2, <2>3, <2>4 DEF Write
<1>5. QED
  BY <1>2, <1>3, <1>4 DEF Write, Colon, Comma, Space, Literal, BeginString, Character,
     Backslash, EndString

-----------------------------------------------------------------------------
\* The types a step's arithmetic and flags rest on.
Typed ==
  /\ sent \in Nat /\ started \in Nat /\ from \in Nat /\ depth \in Nat /\ collect_depth \in Nat
  /\ Nesting \in Nat
  /\ escaped \in BOOLEAN /\ escape \in BOOLEAN /\ capture_top_string \in BOOLEAN
  /\ collect_in_string \in BOOLEAN /\ truth.closed \in BOOLEAN

LEMMA TypedState == TypeOK => Typed
BY StackType DEF TypeOK, Typed, StackInv

\* All of the invariant but its grammar part, which WriterStep keeps.
Rest == KeyInv /\ ScanInv /\ ModelInv /\ CollectInv /\ ExtractsTheUsage /\ NamesTheModel

LEMMA StepTypes ==
  ASSUME TypeOK, TypeOK', NEW b \in Unit, Write(b)
  PROVE  Typed /\ Typed' /\ StackInv /\ StackInv' /\ sent' = sent + 1
<1>1. Typed /\ StackInv
  BY TypedState, StackType, Zenon
<1>2. Typed' /\ StackInv'
  BY TypedState, StackType, PTL
<1>3. sent' = sent + 1
  BY DEF Write
<1>4. QED BY <1>1, <1>2, <1>3

\* What opening an object or an array does to the stack.
Opened(b) ==
  /\ Nesting' = Nesting + 1 /\ Inside' = Sort(b)
  /\ Nesting = 0 => Outermost' = Sort(b)
  /\ Nesting = 1 => Second' = Sort(b)
  /\ Nesting > 0 => Outermost' = Outermost
  /\ Nesting > 1 => Second' = Second

LEMMA OpenedStack == ASSUME TypeOK, NEW b \in Unit, Open(b) PROVE Opened(b) /\ truth' = truth
<1>1. Opened(b)
  BY Deeper, Zenon DEF Opened
<1>2. QED BY <1>1 DEF Open

\* The root's key and its buffer grow together, and read the same in the end.
LEMMA KeyGrows ==
  ASSUME NEW buf \in Seq(Unit), NEW b \in Unit, NEW reading \in {"empty", "usage", "model", "other"},
         Agrees(buf, reading), NEW longer, longer = buf \/ longer = Append(buf, b),
         longer = buf => Len(buf) > 1
  PROVE  Agrees(longer, IF reading = "empty" /\ b \in Name THEN b ELSE "other")
<1>1. CASE longer = buf
  BY <1>1 DEF Agrees, Name
<1>2. CASE longer = Append(buf, b)
  <2>1. /\ Len(longer) = Len(buf) + 1 /\ Len(buf) \in Nat /\ longer[Len(longer)] = b
        /\ \A i \in 1..Len(buf) : longer[i] = buf[i]
    BY <1>2, PushedStack
  <2>2. CASE reading = "empty"
    BY <2>1, <2>2 DEF Agrees, Name
  <2>3. CASE reading # "empty"
    <3>1. Len(buf) > 0
      BY <2>1, <2>3 DEF Agrees, Name
    <3>2. Len(longer) > 1
      BY <2>1, <3>1
    <3>3. Agrees(longer, "other")
      BY <3>2 DEF Agrees, Name
    <3>4. QED BY <2>3, <3>3
  <2>4. QED BY <2>2, <2>3
<1>3. QED BY <1>1, <1>2

LEMMA KeyRead ==
  ASSUME NEW buf \in Seq(Unit), NEW reading \in {"empty", "usage", "model", "other"},
         Agrees(buf, reading), NEW name \in Name
  PROVE  Reads(buf) = name <=> reading = name
<1>1. buf = <<"usage">> <=> Len(buf) = 1 /\ buf[1] = "usage"
  OBVIOUS
<1>2. buf = <<"model">> <=> Len(buf) = 1 /\ buf[1] = "model"
  OBVIOUS
<1>3. Reads(buf) = "usage" <=> Len(buf) = 1 /\ buf[1] = "usage"
  BY <1>1 DEF Reads
<1>4. Reads(buf) = "model" <=> Len(buf) = 1 /\ buf[1] = "model"
  <2>1. CASE buf = <<"usage">>
    <3>1. buf[1] # "model"
      BY <1>1, <2>1
    <3>2. Reads(buf) = "usage"
      BY <2>1 DEF Reads
    <3>3. QED BY <3>1, <3>2
  <2>2. CASE buf # <<"usage">>
    <3>1. Reads(buf) = "model" <=> buf = <<"model">>
      BY <2>2, Zenon DEF Reads
    <3>2. QED BY <3>1, <1>2
  <2>3. QED BY <2>1, <2>2
<1>5. CASE reading \in Name
  BY <1>3, <1>4, <1>5 DEF Agrees, Name
<1>6. CASE reading \notin Name
  <2>1. Len(buf) # 1 \/ (buf[1] # "usage" /\ buf[1] # "model")
    <3>1. reading \in {"empty", "other"}
      BY <1>6 DEF Name
    <3>2. ~(1 > 1) /\ 1 # 0
      OBVIOUS
    <3>3. CASE Len(buf) = 1
      <4>1. buf[1] \notin {"usage", "model"}
        BY <3>1, <3>2, <3>3, Zenon DEF Agrees, Name
      <4>2. QED BY <4>1
    <3>4. QED BY <3>3
  <2>2. QED BY <1>3, <1>4, <1>6, <2>1 DEF Name
<1>7. QED BY <1>5, <1>6

LEMMA ExpectStep ==
  ASSUME TypeOK, TypeOK', WriterInv, Rest, Plain, NEW b \in Unit, Write(b), FeedExpectedValue(b)
  PROVE  Rest'
<1>1. Typed /\ Typed' /\ StackInv /\ StackInv' /\ sent' = sent + 1
  BY StepTypes, Zenon
<1>2. CASE Space(b)
  <2>1. StackKept /\ truth' = truth
    BY <1>2, SameStack DEF Space
  <2>2. KeyInv'
    BY <1>1, <1>2, <2>1, CapsAssumption DEF Typed, StackInv, StackKept, FeedExpectedValue, WriterInv,
       Space, scanVars, keyVars, collectVars,
       Rest, KeyInv
  <2>3. ScanInv'
    BY <1>1, <1>2, <2>1, CapsAssumption DEF Typed, StackInv, StackKept, FeedExpectedValue, WriterInv,
       Space, scanVars, keyVars, collectVars,
       Rest, KeyInv, ScanInv
  <2>4. ModelInv'
    BY <1>1, <1>2, <2>1, CapsAssumption DEF Typed, StackInv, StackKept, FeedExpectedValue, WriterInv,
       Space, scanVars, keyVars, collectVars,
       Rest, ScanInv, ModelInv
  <2>5. CollectInv'
    BY <1>1, <1>2, <2>1, CapsAssumption DEF Typed, StackInv, StackKept, FeedExpectedValue, WriterInv,
       Space, scanVars, keyVars, collectVars,
       Rest, ScanInv, ModelInv, CollectInv
  <2>6. ExtractsTheUsage' /\ NamesTheModel'
    BY <1>1, <1>2, <2>1, CapsAssumption DEF Typed, StackInv, StackKept, FeedExpectedValue, WriterInv,
       Space, scanVars, keyVars, collectVars,
       Rest, ScanInv, ModelInv, CollectInv, ExtractsTheUsage, NamesTheModel
  <2>7. QED BY <2>2, <2>3, <2>4, <2>5, <2>6 DEF Rest
<1>3. CASE Literal(b)
  <2>1. StackKept /\ truth' = truth
    BY <1>3, SameStack DEF Literal
  <2>2. KeyInv'
    BY <1>1, <1>3, <2>1, CapsAssumption DEF Typed, StackInv, StackKept, FeedExpectedValue, WriterInv,
       Literal, AfterValue, Start, keyVars, collectVars,
       Rest, KeyInv
  <2>3. ScanInv'
    BY <1>1, <1>3, <2>1, CapsAssumption DEF Typed, StackInv, StackKept, FeedExpectedValue, WriterInv,
       Literal, AfterValue, Start, keyVars, collectVars,
       Rest, KeyInv, ScanInv
  <2>4. ModelInv'
    BY <1>1, <1>3, <2>1, CapsAssumption DEF Typed, StackInv, StackKept, FeedExpectedValue, WriterInv,
       Literal, AfterValue, Start, keyVars, collectVars,
       Rest, ScanInv, ModelInv
  <2>5. CollectInv'
    BY <1>1, <1>3, <2>1, CapsAssumption DEF Typed, StackInv, StackKept, FeedExpectedValue, WriterInv,
       Literal, AfterValue, Start, keyVars, collectVars,
       Rest, ScanInv, ModelInv, CollectInv
  <2>6. ExtractsTheUsage' /\ NamesTheModel'
    BY <1>1, <1>3, <2>1, CapsAssumption DEF Typed, StackInv, StackKept, FeedExpectedValue, WriterInv,
       Literal, AfterValue, Start, keyVars, collectVars,
       Rest, ScanInv, ModelInv, CollectInv, ExtractsTheUsage, NamesTheModel
  <2>7. QED BY <2>2, <2>3, <2>4, <2>5, <2>6 DEF Rest
<1>4. CASE Open(b)
  <2>1. Opened(b) /\ truth' = truth
    BY <1>4, OpenedStack
  <2>2. b = "lbrace" /\ mode = "expect" /\ AtRoot /\ key = "usage" /\ key' = key /\ started' = pos
        /\ text = "none" /\ text' = "none" /\ place' = "member"
    BY <1>4 DEF Open, Allowed, Plain, Rest, ScanInv, FeedExpectedValue, Start
  <2>3. QED
    <3>1. /\ mode' = "collect" /\ from' = pos /\ escape' = FALSE /\ collect_depth' = 1
          /\ collect_in_string' = FALSE /\ model' = model /\ extracted' = extracted
      BY <2>2 DEF FeedExpectedValue
    <3>2. /\ Nesting' = 2 /\ Outermost' = "object" /\ Second' = "object"
      BY <1>1, <2>1, <2>2 DEF Typed, StackInv, Opened, Sort
    <3>3. escaped' = FALSE
      BY <1>1, <1>4, <2>2 DEF Typed, WriterInv, Open
    <3>4. ~truth.closed /\ truth.usage = Nothing
      BY <2>2 DEF Rest, CollectInv
    <3>5. KeyInv' /\ ScanInv' /\ ModelInv'
      BY <2>2, <3>1, Zenon DEF KeyInv, ScanInv, ModelInv
    <3>6. CollectInv'
      BY <1>1, <2>1, <2>2, <3>1, <3>2, <3>3, <3>4, CapsAssumption DEF Typed, CollectInv
    <3>7. ExtractsTheUsage' /\ NamesTheModel'
      BY <2>1, <3>1 DEF Rest, ExtractsTheUsage, NamesTheModel
    <3>8. QED BY <3>5, <3>6, <3>7 DEF Rest
<1>5. Space(b) \/ Literal(b) \/ Open(b)
  BY DEF Write, Open, Close, Colon, Comma, Space, Literal, BeginString, Character, Backslash, EndString,
     Allowed, Plain, WriterInv, Rest, ScanInv, FeedExpectedValue
<1>6. QED BY <1>2, <1>3, <1>4, <1>5

LEMMA ExpectModelStep ==
  ASSUME TypeOK, TypeOK', WriterInv, Rest, Plain, NEW b \in Unit, Write(b), FeedExpectedModelValue(b)
  PROVE  Rest'
<1>1. Typed /\ Typed' /\ StackInv /\ StackInv' /\ sent' = sent + 1
  BY StepTypes, Zenon
<1>2. CASE Space(b)
  <2>1. StackKept /\ truth' = truth
    BY <1>2, SameStack DEF Space
  <2>2. KeyInv'
    BY <1>1, <1>2, <2>1, CapsAssumption DEF Typed, StackInv, StackKept, FeedExpectedModelValue, WriterInv,
       Space, Opens, scanVars, keyVars, collectVars,
       Rest, KeyInv
  <2>3. ScanInv'
    BY <1>1, <1>2, <2>1, CapsAssumption DEF Typed, StackInv, StackKept, FeedExpectedModelValue, WriterInv,
       Space, Opens, scanVars, keyVars, collectVars,
       Rest, KeyInv, ScanInv
  <2>4. ModelInv'
    BY <1>1, <1>2, <2>1, CapsAssumption DEF Typed, StackInv, StackKept, FeedExpectedModelValue, WriterInv,
       Space, Opens, scanVars, keyVars, collectVars,
       Rest, ScanInv, ModelInv
  <2>5. CollectInv'
    BY <1>1, <1>2, <2>1, CapsAssumption DEF Typed, StackInv, StackKept, FeedExpectedModelValue, WriterInv,
       Space, Opens, scanVars, keyVars, collectVars,
       Rest, ScanInv, ModelInv, CollectInv
  <2>6. ExtractsTheUsage' /\ NamesTheModel'
    BY <1>1, <1>2, <2>1, CapsAssumption DEF Typed, StackInv, StackKept, FeedExpectedModelValue, WriterInv,
       Space, Opens, scanVars, keyVars, collectVars,
       Rest, ScanInv, ModelInv, CollectInv, ExtractsTheUsage, NamesTheModel
  <2>7. QED BY <2>2, <2>3, <2>4, <2>5, <2>6 DEF Rest
<1>3. CASE Literal(b)
  <2>1. StackKept /\ truth' = truth
    BY <1>3, SameStack DEF Literal
  <2>2. KeyInv'
    BY <1>1, <1>3, <2>1, CapsAssumption DEF Typed, StackInv, StackKept, FeedExpectedModelValue, WriterInv,
       Literal, Opens, AfterValue, Start, keyVars, collectVars,
       Rest, KeyInv
  <2>3. ScanInv'
    BY <1>1, <1>3, <2>1, CapsAssumption DEF Typed, StackInv, StackKept, FeedExpectedModelValue, WriterInv,
       Literal, Opens, AfterValue, Start, keyVars, collectVars,
       Rest, KeyInv, ScanInv
  <2>4. ModelInv'
    BY <1>1, <1>3, <2>1, CapsAssumption DEF Typed, StackInv, StackKept, FeedExpectedModelValue, WriterInv,
       Literal, Opens, AfterValue, Start, keyVars, collectVars,
       Rest, ScanInv, ModelInv
  <2>5. CollectInv'
    BY <1>1, <1>3, <2>1, CapsAssumption DEF Typed, StackInv, StackKept, FeedExpectedModelValue, WriterInv,
       Literal, Opens, AfterValue, Start, keyVars, collectVars,
       Rest, ScanInv, ModelInv, CollectInv
  <2>6. ExtractsTheUsage' /\ NamesTheModel'
    BY <1>1, <1>3, <2>1, CapsAssumption DEF Typed, StackInv, StackKept, FeedExpectedModelValue, WriterInv,
       Literal, Opens, AfterValue, Start, keyVars, collectVars,
       Rest, ScanInv, ModelInv, CollectInv, ExtractsTheUsage, NamesTheModel
  <2>7. QED BY <2>2, <2>3, <2>4, <2>5, <2>6 DEF Rest
<1>4. CASE BeginString(b)
  <2>1. StackKept /\ truth' = truth
    BY <1>4, SameStack DEF BeginString
  <2>2. KeyInv'
    BY <1>1, <1>4, <2>1, CapsAssumption DEF Typed, StackInv, StackKept, FeedExpectedModelValue, WriterInv,
       BeginString, Opens, Start, keyVars, collectVars,
       Rest, KeyInv
  <2>3. ScanInv'
    BY <1>1, <1>4, <2>1, CapsAssumption DEF Typed, StackInv, StackKept, FeedExpectedModelValue, WriterInv,
       BeginString, Opens, Start, keyVars, collectVars,
       Rest, KeyInv, ScanInv
  <2>4. ModelInv'
    BY <1>1, <1>4, <2>1, CapsAssumption DEF Typed, StackInv, StackKept, FeedExpectedModelValue, WriterInv,
       BeginString, Opens, Start, keyVars, collectVars,
       Rest, ScanInv, ModelInv
  <2>5. CollectInv'
    BY <1>1, <1>4, <2>1, CapsAssumption DEF Typed, StackInv, StackKept, FeedExpectedModelValue, WriterInv,
       BeginString, Opens, Start, keyVars, collectVars,
       Rest, ScanInv, ModelInv, CollectInv
  <2>6. ExtractsTheUsage' /\ NamesTheModel'
    BY <1>1, <1>4, <2>1, CapsAssumption DEF Typed, StackInv, StackKept, FeedExpectedModelValue, WriterInv,
       BeginString, Opens, Start, keyVars, collectVars,
       Rest, ScanInv, ModelInv, CollectInv, ExtractsTheUsage, NamesTheModel
  <2>7. QED BY <2>2, <2>3, <2>4, <2>5, <2>6 DEF Rest
<1>5. CASE Open(b)
  <2>1. Opened(b) /\ truth' = truth
    BY <1>5, OpenedStack
  <2>2. KeyInv'
    BY <1>1, <1>5, <2>1, CapsAssumption DEF Typed, StackInv, Opened, Sort, FeedExpectedModelValue, WriterInv,
       Plain, Allowed, Open, Start, Opens, collectVars,
       Rest, KeyInv
  <2>3. ScanInv'
    BY <1>1, <1>5, <2>1, CapsAssumption DEF Typed, StackInv, Opened, Sort, FeedExpectedModelValue, WriterInv,
       Plain, Allowed, Open, Start, Opens, collectVars,
       Rest, KeyInv, ScanInv
  <2>4. ModelInv'
    BY <1>1, <1>5, <2>1, CapsAssumption DEF Typed, StackInv, Opened, Sort, FeedExpectedModelValue, WriterInv,
       Plain, Allowed, Open, Start, Opens, collectVars,
       Rest, ScanInv, ModelInv
  <2>5. CollectInv'
    BY <1>1, <1>5, <2>1, CapsAssumption DEF Typed, StackInv, Opened, Sort, FeedExpectedModelValue, WriterInv,
       Plain, Allowed, Open, Start, Opens, collectVars,
       Rest, ScanInv, ModelInv, CollectInv
  <2>6. ExtractsTheUsage' /\ NamesTheModel'
    BY <1>1, <1>5, <2>1, CapsAssumption DEF Typed, StackInv, Opened, Sort, FeedExpectedModelValue, WriterInv,
       Plain, Allowed, Open, Start, Opens, collectVars,
       Rest, ScanInv, ModelInv, CollectInv, ExtractsTheUsage, NamesTheModel
  <2>7. QED BY <2>2, <2>3, <2>4, <2>5, <2>6 DEF Rest
<1>6. Space(b) \/ Literal(b) \/ BeginString(b) \/ Open(b)
  BY DEF Write, Open, Close, Colon, Comma, Space, Literal, BeginString, Character, Backslash, EndString,
     Allowed, Plain, WriterInv, Rest, ScanInv, FeedExpectedModelValue
<1>7. QED BY <1>2, <1>3, <1>4, <1>5, <1>6

LEMMA SkipModelStep ==
  ASSUME TypeOK, TypeOK', WriterInv, Rest, Plain, NEW b \in Unit, Write(b), FeedSkipModelString(b)
  PROVE  Rest'
<1>1. Typed /\ Typed' /\ StackInv /\ StackInv' /\ sent' = sent + 1
  BY StepTypes, Zenon
<1>2. CASE Character(b)
  <2>1. StackKept /\ truth' = truth
    BY <1>2, SameStack DEF Character
  <2>2. KeyInv'
    BY <1>1, <1>2, <2>1, CapsAssumption DEF Typed, StackInv, StackKept, FeedSkipModelString, WriterInv,
       Character, Skip, keyVars, collectVars,
       Rest, KeyInv
  <2>3. ScanInv'
    <3>1. mode = "skipModel" /\ mode' = "skipModel" /\ depth' = depth
      BY <1>1, <1>2 DEF Typed, Character, Rest, ModelInv, FeedSkipModelString, Skip
    <3>2. depth = Nesting
      BY <3>1 DEF Rest, ScanInv
    <3>3. QED BY <2>1, <3>1, <3>2 DEF StackKept, ScanInv
  <2>4. ModelInv'
    BY <1>1, <1>2, <2>1, CapsAssumption DEF Typed, StackInv, StackKept, FeedSkipModelString, WriterInv,
       Character, Skip, keyVars, collectVars,
       Rest, ScanInv, ModelInv
  <2>5. CollectInv'
    BY <1>1, <1>2, <2>1, CapsAssumption DEF Typed, StackInv, StackKept, FeedSkipModelString, WriterInv,
       Character, Skip, keyVars, collectVars,
       Rest, ScanInv, ModelInv, CollectInv
  <2>6. ExtractsTheUsage' /\ NamesTheModel'
    BY <1>1, <1>2, <2>1, CapsAssumption DEF Typed, StackInv, StackKept, FeedSkipModelString, WriterInv,
       Character, Skip, keyVars, collectVars,
       Rest, ScanInv, ModelInv, CollectInv, ExtractsTheUsage, NamesTheModel
  <2>7. QED BY <2>2, <2>3, <2>4, <2>5, <2>6 DEF Rest
<1>3. CASE Backslash(b)
  <2>1. StackKept /\ truth' = truth
    BY <1>3, SameStack DEF Backslash
  <2>2. KeyInv'
    BY <1>1, <1>3, <2>1, CapsAssumption DEF Typed, StackInv, StackKept, FeedSkipModelString, WriterInv,
       Backslash, Skip, keyVars, collectVars,
       Rest, KeyInv
  <2>3. ScanInv'
    BY <1>1, <1>3, <2>1, CapsAssumption DEF Typed, StackInv, StackKept, FeedSkipModelString, WriterInv,
       Backslash, Skip, keyVars, collectVars,
       Rest, KeyInv, ScanInv
  <2>4. ModelInv'
    <3>1. /\ mode = "skipModel" /\ escape' = TRUE /\ escaped' = TRUE /\ mode' = "skipModel"
          /\ from' = from /\ model' = model
      BY <1>1, <1>3 DEF Typed, Backslash, Rest, ModelInv, FeedSkipModelString, Skip
    <3>2. text' = text /\ key' = key /\ started' = started
      BY <1>3 DEF Backslash
    <3>3. QED
      BY <1>1, <2>1, <3>1, <3>2, CapsAssumption DEF Typed, StackKept, Rest, ModelInv
  <2>5. CollectInv'
    BY <1>1, <1>3, <2>1, CapsAssumption DEF Typed, StackInv, StackKept, FeedSkipModelString, WriterInv,
       Backslash, Skip, keyVars, collectVars,
       Rest, ScanInv, ModelInv, CollectInv
  <2>6. ExtractsTheUsage' /\ NamesTheModel'
    BY <1>1, <1>3, <2>1, CapsAssumption DEF Typed, StackInv, StackKept, FeedSkipModelString, WriterInv,
       Backslash, Skip, keyVars, collectVars,
       Rest, ScanInv, ModelInv, CollectInv, ExtractsTheUsage, NamesTheModel
  <2>7. QED BY <2>2, <2>3, <2>4, <2>5, <2>6 DEF Rest
<1>4. CASE EndString(b)
  <2>1. StackKept
    BY <1>4, SameStack DEF EndString
  <2>2. KeyInv'
    BY <1>1, <1>4, <2>1, CapsAssumption DEF Typed, StackInv, StackKept, FeedSkipModelString, WriterInv,
       EndString, NamesModel, Length, Span, AfterValue, Skip, keyVars, collectVars,
       Rest, KeyInv
  <2>3. ScanInv'
    <3>1. /\ mode' = "scan" /\ depth' = depth /\ text' = "none" /\ place' = "after"
          /\ depth = Nesting
      BY <1>1, <1>4 DEF Typed, EndString, AfterValue, Rest, ScanInv, ModelInv, FeedSkipModelString, Skip
    <3>2. QED BY <2>1, <3>1 DEF StackKept, ScanInv
  <2>4. ModelInv'
    BY <1>1, <1>4, <2>1, CapsAssumption DEF Typed, StackInv, StackKept, FeedSkipModelString, WriterInv,
       EndString, NamesModel, Length, Span, AfterValue, Skip, keyVars, collectVars,
       Rest, ScanInv, ModelInv
  <2>5. CollectInv'
    BY <1>1, <1>4, <2>1, CapsAssumption DEF Typed, StackInv, StackKept, FeedSkipModelString, WriterInv,
       EndString, NamesModel, Length, Span, AfterValue, Skip, keyVars, collectVars,
       Rest, ScanInv, ModelInv, CollectInv
  <2>6. ExtractsTheUsage' /\ NamesTheModel'
    BY <1>1, <1>4, <2>1, CapsAssumption DEF Typed, StackInv, StackKept, FeedSkipModelString, WriterInv,
       EndString, NamesModel, Length, Span, AfterValue, Skip, keyVars, collectVars,
       Rest, ScanInv, ModelInv, CollectInv, ExtractsTheUsage, NamesTheModel
  <2>7. QED BY <2>2, <2>3, <2>4, <2>5, <2>6 DEF Rest
<1>5. Character(b) \/ Backslash(b) \/ EndString(b)
  BY DEF Write, Open, Close, Colon, Comma, Space, Literal, BeginString, Character, Backslash, EndString,
     Allowed, Plain, WriterInv, Rest, ModelInv, FeedSkipModelString
<1>6. QED BY <1>2, <1>3, <1>4, <1>5

LEMMA ModelStep ==
  ASSUME TypeOK, TypeOK', WriterInv, Rest, Plain, NEW b \in Unit, Write(b), FeedModelString(b)
  PROVE  Rest'
<1>1. Typed /\ Typed' /\ StackInv /\ StackInv' /\ sent' = sent + 1
  BY StepTypes, Zenon
<1>2. CASE Character(b)
  <2>1. StackKept /\ truth' = truth
    BY <1>2, SameStack DEF Character
  <2>2. KeyInv'
    BY <1>1, <1>2, <2>1, CapsAssumption DEF Typed, StackInv, StackKept, FeedModelString, WriterInv,
       Character, Skip, ModelFull, keyVars, collectVars,
       Rest, KeyInv
  <2>3. ScanInv'
    <3>1. /\ mode = "model" /\ depth = Nesting /\ (escape <=> escaped)
          /\ sent < from + MaxModel /\ (escape => sent # from + MaxModel - 1)
      BY DEF Rest, ScanInv, ModelInv, FeedModelString
    <3>2. ModelFull => ~escape
      BY <1>1, <3>1, CapsAssumption DEF Typed, ModelFull
    <3>3. b = "quote" => escape
      BY <1>1, <1>2, <3>1 DEF Typed, Character
    <3>4. mode' \in {"model", "skipModel"} /\ depth' = depth
      BY <1>1, <3>1, <3>2, <3>3 DEF Typed, FeedModelString, Skip
    <3>5. QED BY <2>1, <3>1, <3>4 DEF StackKept, ScanInv
  <2>4. ModelInv'
    BY <1>1, <1>2, <2>1, CapsAssumption DEF Typed, StackInv, StackKept, FeedModelString, WriterInv,
       Character, Skip, ModelFull, keyVars, collectVars,
       Rest, ScanInv, ModelInv
  <2>5. CollectInv'
    BY <1>1, <1>2, <2>1, CapsAssumption DEF Typed, StackInv, StackKept, FeedModelString, WriterInv,
       Character, Skip, ModelFull, keyVars, collectVars,
       Rest, ScanInv, ModelInv, CollectInv
  <2>6. ExtractsTheUsage' /\ NamesTheModel'
    BY <1>1, <1>2, <2>1, CapsAssumption DEF Typed, StackInv, StackKept, FeedModelString, WriterInv,
       Character, Skip, ModelFull, keyVars, collectVars,
       Rest, ScanInv, ModelInv, CollectInv, ExtractsTheUsage, NamesTheModel
  <2>7. QED BY <2>2, <2>3, <2>4, <2>5, <2>6 DEF Rest
<1>3. CASE Backslash(b)
  <2>1. StackKept /\ truth' = truth
    BY <1>3, SameStack DEF Backslash
  <2>2. KeyInv'
    BY <1>1, <1>3, <2>1, CapsAssumption DEF Typed, StackInv, StackKept, FeedModelString, WriterInv,
       Backslash, Skip, ModelFull, Plain, keyVars, collectVars,
       Rest, KeyInv
  <2>3. ScanInv'
    BY <1>1, <1>3, <2>1, CapsAssumption DEF Typed, StackInv, StackKept, FeedModelString, WriterInv,
       Backslash, Skip, ModelFull, Plain, keyVars, collectVars,
       Rest, KeyInv, ScanInv
  <2>4. ModelInv'
    BY <1>1, <1>3, <2>1, CapsAssumption DEF Typed, StackInv, StackKept, FeedModelString, WriterInv,
       Backslash, Skip, ModelFull, Plain, keyVars, collectVars,
       Rest, ScanInv, ModelInv
  <2>5. CollectInv'
    BY <1>1, <1>3, <2>1, CapsAssumption DEF Typed, StackInv, StackKept, FeedModelString, WriterInv,
       Backslash, Skip, ModelFull, Plain, keyVars, collectVars,
       Rest, ScanInv, ModelInv, CollectInv
  <2>6. ExtractsTheUsage' /\ NamesTheModel'
    BY <1>1, <1>3, <2>1, CapsAssumption DEF Typed, StackInv, StackKept, FeedModelString, WriterInv,
       Backslash, Skip, ModelFull, Plain, keyVars, collectVars,
       Rest, ScanInv, ModelInv, CollectInv, ExtractsTheUsage, NamesTheModel
  <2>7. QED BY <2>2, <2>3, <2>4, <2>5, <2>6 DEF Rest
<1>4. CASE EndString(b)
  <2>1. StackKept
    BY <1>4, SameStack DEF EndString
  <2>2. KeyInv'
    BY <1>1, <1>4, <2>1, CapsAssumption DEF Typed, StackInv, StackKept, FeedModelString, WriterInv,
       EndString, NamesModel, Length, Span, AfterValue, Skip, ModelFull, Nothing, keyVars, collectVars,
       Rest, KeyInv
  <2>3. ScanInv'
    <3>1. mode = "model" /\ ~escape /\ text = "value" /\ Nesting = 1 /\ depth = Nesting
      BY <1>4 DEF EndString, Rest, ScanInv, ModelInv, FeedModelString
    <3>2. text' = "none" /\ place' = "after" /\ b = "quote"
      BY <1>4, <3>1 DEF EndString, AfterValue
    <3>3. mode' = "scan" /\ depth' = depth
      BY <3>1, <3>2 DEF FeedModelString, Skip
    <3>4. QED BY <2>1, <3>1, <3>2, <3>3 DEF StackKept, ScanInv
  <2>4. ModelInv'
    BY <1>1, <1>4, <2>1, CapsAssumption DEF Typed, StackInv, StackKept, FeedModelString, WriterInv,
       EndString, NamesModel, Length, Span, AfterValue, Skip, ModelFull, Nothing, keyVars, collectVars,
       Rest, ScanInv, ModelInv
  <2>5. CollectInv'
    BY <1>1, <1>4, <2>1, CapsAssumption DEF Typed, StackInv, StackKept, FeedModelString, WriterInv,
       EndString, NamesModel, Length, Span, AfterValue, Skip, ModelFull, Nothing, keyVars, collectVars,
       Rest, ScanInv, ModelInv, CollectInv
  <2>6. ExtractsTheUsage' /\ NamesTheModel'
    BY <1>1, <1>4, <2>1, CapsAssumption DEF Typed, StackInv, StackKept, FeedModelString, WriterInv,
       EndString, NamesModel, Length, Span, AfterValue, Skip, ModelFull, Nothing, keyVars, collectVars,
       Rest, ScanInv, ModelInv, CollectInv, ExtractsTheUsage, NamesTheModel
  <2>7. QED BY <2>2, <2>3, <2>4, <2>5, <2>6 DEF Rest
<1>5. Character(b) \/ Backslash(b) \/ EndString(b)
  BY DEF Write, Open, Close, Colon, Comma, Space, Literal, BeginString, Character, Backslash, EndString,
     Allowed, Plain, WriterInv, Rest, ModelInv, FeedModelString
<1>6. QED BY <1>2, <1>3, <1>4, <1>5

LEMMA StringStep ==
  ASSUME TypeOK, TypeOK', WriterInv, Rest, Plain, NEW b \in Unit, Write(b), FeedScanString(b)
  PROVE  Rest'
<1>1. Typed /\ Typed' /\ StackInv /\ StackInv' /\ sent' = sent + 1
  BY StepTypes, Zenon
<1>2. CASE Character(b)
  <2>1. StackKept /\ truth' = truth
    BY <1>2, SameStack DEF Character
  <2>2. KeyInv'
    <3>1. /\ mode = "string" /\ text' = text /\ (escape <=> escaped)
          /\ key' = IF text = "key" /\ AtRoot THEN Longer(b) ELSE key
          /\ capture_top_string <=> Nesting = 1
      BY <1>2 DEF Character, Rest, ScanInv, FeedScanString
    <3>2. SUFFICES ASSUME text = "key", AtRoot PROVE Agrees(key_buf', key')
      BY <2>1, <3>1 DEF KeyInv, StackKept
    <3>3. /\ key_buf \in Seq(Unit) /\ key \in {"empty", "usage", "model", "other"}
          /\ Agrees(key_buf, key)
      BY <3>1, <3>2 DEF TypeOK, Rest, KeyInv
    <3>4. b = "quote" \/ b = "back" => escaped
      BY <1>2 DEF Character
    <3>5. Keep(b)
      BY <1>1, <3>1, <3>4 DEF Typed, FeedScanString
    <3>6. /\ key_buf' = key_buf \/ key_buf' = Append(key_buf, b)
          /\ key_buf' = key_buf => Len(key_buf) > 1
      <4>1. CASE Len(key_buf) < MaxKey
        <5>1. key_buf' = Append(key_buf, b)
          BY <3>1, <3>2, <3>5, <4>1 DEF Keep
        <5>2. Len(Append(key_buf, b)) # Len(key_buf)
          BY <3>3
        <5>3. QED BY <5>1, <5>2
      <4>2. CASE ~(Len(key_buf) < MaxKey)
        <5>1. key_buf' = key_buf
          BY <4>2 , <3>5 DEF Keep
        <5>2. Len(key_buf) > 1
          BY <3>3, <4>2, CapsAssumption
        <5>3. QED BY <5>1, <5>2
      <4>3. QED BY <4>1, <4>2
    <3>7. Agrees(key_buf', IF key = "empty" /\ b \in Name THEN b ELSE "other")
      BY <3>3, <3>6, KeyGrows
    <3>8. key' = IF key = "empty" /\ b \in Name THEN b ELSE "other"
      BY <1>1, <1>2, <3>1, <3>2 DEF Typed, Longer, Name, Character
    <3>9. QED BY <3>7, <3>8
  <2>3. ScanInv'
    BY <1>1, <1>2, <2>1, CapsAssumption DEF Typed, StackInv, StackKept, FeedScanString, WriterInv,
       Character, Longer, Name, Keep, keyVars, collectVars,
       Rest, KeyInv, ScanInv
  <2>4. ModelInv'
    BY <1>1, <1>2, <2>1, CapsAssumption DEF Typed, StackInv, StackKept, FeedScanString, WriterInv,
       Character, Longer, Name, Keep, keyVars, collectVars,
       Rest, ScanInv, ModelInv
  <2>5. CollectInv'
    BY <1>1, <1>2, <2>1, CapsAssumption DEF Typed, StackInv, StackKept, FeedScanString, WriterInv,
       Character, Longer, Name, Keep, keyVars, collectVars,
       Rest, ScanInv, ModelInv, CollectInv
  <2>6. ExtractsTheUsage' /\ NamesTheModel'
    BY <1>1, <1>2, <2>1, CapsAssumption DEF Typed, StackInv, StackKept, FeedScanString, WriterInv,
       Character, Longer, Name, Keep, keyVars, collectVars,
       Rest, ScanInv, ModelInv, CollectInv, ExtractsTheUsage, NamesTheModel
  <2>7. QED BY <2>2, <2>3, <2>4, <2>5, <2>6 DEF Rest
<1>3. CASE Backslash(b)
  <2>1. StackKept /\ truth' = truth
    BY <1>3, SameStack DEF Backslash
  <2>2. KeyInv'
    <3>1. mode = "string" /\ (escape <=> escaped)
      BY DEF Rest, ScanInv, FeedScanString
    <3>2. ~escaped /\ text' = text /\ key' = key /\ b = "back"
      BY <1>3 DEF Backslash
    <3>3. key_buf' = key_buf
      BY <1>1, <3>1, <3>2 DEF Typed, FeedScanString, keyVars
    <3>4. KeyInv
      BY DEF Rest
    <3>5. QED BY <2>1, <3>1, <3>2, <3>3, <3>4, Zenon DEF StackKept, KeyInv
  <2>3. ScanInv'
    BY <1>1, <1>3, <2>1, CapsAssumption DEF Typed, StackInv, StackKept, FeedScanString, WriterInv,
       Backslash, keyVars, collectVars,
       Rest, KeyInv, ScanInv
  <2>4. ModelInv'
    BY <1>1, <1>3, <2>1, CapsAssumption DEF Typed, StackInv, StackKept, FeedScanString, WriterInv,
       Backslash, keyVars, collectVars,
       Rest, ScanInv, ModelInv
  <2>5. CollectInv'
    BY <1>1, <1>3, <2>1, CapsAssumption DEF Typed, StackInv, StackKept, FeedScanString, WriterInv,
       Backslash, keyVars, collectVars,
       Rest, ScanInv, ModelInv, CollectInv
  <2>6. ExtractsTheUsage' /\ NamesTheModel'
    BY <1>1, <1>3, <2>1, CapsAssumption DEF Typed, StackInv, StackKept, FeedScanString, WriterInv,
       Backslash, keyVars, collectVars,
       Rest, ScanInv, ModelInv, CollectInv, ExtractsTheUsage, NamesTheModel
  <2>7. QED BY <2>2, <2>3, <2>4, <2>5, <2>6 DEF Rest
<1>4. CASE EndString(b)
  <2>1. StackKept
    BY <1>4, SameStack DEF EndString
  <2>2. KeyInv'
    BY <1>1, <1>4, <2>1, CapsAssumption DEF Typed, StackInv, StackKept, FeedScanString, WriterInv,
       EndString, NamesModel, Length, Span, AfterValue, Reads, Name, keyVars, collectVars,
       Rest, KeyInv
  <2>3. ScanInv'
    <3>1. /\ mode = "string" /\ (escape <=> escaped) /\ depth = Nesting
          /\ capture_top_string <=> Nesting = 1
      BY DEF Rest, ScanInv, FeedScanString
    <3>2. ~escaped /\ text' = "none" /\ key' = key /\ b = "quote"
          /\ place' = IF text = "key" THEN "colon" ELSE AfterValue
      BY <1>4 DEF EndString
    <3>3. /\ mode' = "scan" /\ depth' = depth /\ model' = model
          /\ last_top_string' = IF capture_top_string THEN Reads(key_buf) ELSE last_top_string
      BY <1>1, <3>1, <3>2 DEF Typed, FeedScanString
    <3>4. ASSUME AtRoot', place' = "colon"
          PROVE  \A name \in Name : last_top_string' = name <=> key' = name
      <4>1. text = "key" /\ AtRoot /\ capture_top_string
        BY <1>1, <2>1, <3>1, <3>2, <3>4 DEF Typed, StackKept, AfterValue
      <4>2. /\ key_buf \in Seq(Unit) /\ key \in {"empty", "usage", "model", "other"}
            /\ Agrees(key_buf, key)
        BY <3>1, <4>1 DEF TypeOK, Rest, KeyInv
      <4>3. last_top_string' = Reads(key_buf)
        BY <3>3, <4>1
      <4>4. QED BY <3>2, <4>2, <4>3, KeyRead
    <3>5. place' # "value"
      BY <3>2 DEF AfterValue
    <3>6. QED BY <1>1, <2>1, <3>1, <3>2, <3>3, <3>4, <3>5 DEF StackKept, ScanInv
  <2>4. ModelInv'
    BY <1>1, <1>4, <2>1, CapsAssumption DEF Typed, StackInv, StackKept, FeedScanString, WriterInv,
       EndString, NamesModel, Length, Span, AfterValue, Reads, Name, keyVars, collectVars,
       Rest, ScanInv, ModelInv
  <2>5. CollectInv'
    BY <1>1, <1>4, <2>1, CapsAssumption DEF Typed, StackInv, StackKept, FeedScanString, WriterInv,
       EndString, NamesModel, Length, Span, AfterValue, Reads, Name, keyVars, collectVars,
       Rest, ScanInv, ModelInv, CollectInv
  <2>6. ExtractsTheUsage' /\ NamesTheModel'
    BY <1>1, <1>4, <2>1, CapsAssumption DEF Typed, StackInv, StackKept, FeedScanString, WriterInv,
       EndString, NamesModel, Length, Span, AfterValue, Reads, Name, keyVars, collectVars,
       Rest, ScanInv, ModelInv, CollectInv, ExtractsTheUsage, NamesTheModel
  <2>7. QED BY <2>2, <2>3, <2>4, <2>5, <2>6 DEF Rest
<1>5. Character(b) \/ Backslash(b) \/ EndString(b)
  BY DEF Write, Open, Close, Colon, Comma, Space, Literal, BeginString, Character, Backslash, EndString,
     Allowed, Plain, WriterInv, Rest, ScanInv, FeedScanString
<1>6. QED BY <1>2, <1>3, <1>4, <1>5

LEMMA CollectStep ==
  ASSUME TypeOK, TypeOK', WriterInv, Rest, Plain, NEW b \in Unit, Write(b), FeedCollect(b)
  PROVE  Rest'
<1>1. Typed /\ Typed' /\ StackInv /\ StackInv' /\ sent' = sent + 1
  BY StepTypes, Zenon
<1>2. CASE Open(b)
  <2>1. Opened(b) /\ truth' = truth
    BY <1>2, OpenedStack
  <2>2. KeyInv'
    BY <1>1, <1>2, <2>1, CapsAssumption DEF Typed, StackInv, Opened, Sort, FeedCollect, WriterInv,
       Plain, Allowed, Open, Start, OutgrowsCap, Halt, LastClose, Opens, Closes, keyVars, collectVars,
       Rest, KeyInv
  <2>3. ScanInv'
    BY <1>1, <1>2, <2>1, CapsAssumption DEF Typed, StackInv, Opened, Sort, FeedCollect, WriterInv,
       Plain, Allowed, Open, Start, OutgrowsCap, Halt, LastClose, Opens, Closes, keyVars, collectVars,
       Rest, KeyInv, ScanInv
  <2>4. ModelInv'
    BY <1>1, <1>2, <2>1, CapsAssumption DEF Typed, StackInv, Opened, Sort, FeedCollect, WriterInv,
       Plain, Allowed, Open, Start, OutgrowsCap, Halt, LastClose, Opens, Closes, keyVars, collectVars,
       Rest, ScanInv, ModelInv
  <2>5. CollectInv'
    <3>1. /\ mode = "collect" /\ Nesting > 1 /\ Outermost = "object" /\ key = "usage"
          /\ Second = "object" /\ Nesting = collect_depth + 1 /\ ~truth.closed
          /\ from = started /\ sent < from + MaxUsage
          /\ (collect_in_string <=> text # "none") /\ (escape <=> escaped)
          /\ truth.usage = Nothing
      BY DEF Rest, CollectInv, FeedCollect
    <3>2. /\ text = "none" /\ text' = "none" /\ key' = key /\ started' = started
          /\ escaped' = escaped /\ b \in {"lbrace", "lbracket"}
      BY <1>1, <1>2, <3>1 DEF Typed, WriterInv, Open, Start
    <3>3. /\ Nesting' = Nesting + 1 /\ Outermost' = Outermost /\ Second' = Second
      BY <1>1, <2>1, <3>1 DEF Typed, Opened
    <3>4. from' = from
      BY <3>1 DEF FeedCollect
    <3>5. CASE OutgrowsCap
      <4>1. mode' = "halted"
        BY <3>1, <3>5 DEF FeedCollect, Halt
      <4>2. QED
        <5>1. sent' >= started' + MaxUsage
          BY <1>1, <3>1, <3>2, <3>5, CapsAssumption DEF Typed, OutgrowsCap
        <5>2. InUsage' /\ Second' = "object"
          BY <1>1, <3>1, <3>2, <3>3 DEF Typed
        <5>3. QED BY <2>1, <3>1, <4>1, <5>1, <5>2 DEF CollectInv
    <3>6. CASE ~OutgrowsCap
      <4>1. /\ mode' = "collect" /\ collect_depth' = collect_depth + 1
            /\ collect_in_string' = FALSE /\ escape' = escape
        BY <1>1, <1>2, <3>1, <3>2, <3>6 DEF Typed, FeedCollect, Opens, Closes, LastClose
      <4>2. QED
        <5>1. sent' < from' + MaxUsage
          BY <1>1, <3>1, <3>4, <3>6, CapsAssumption DEF Typed, OutgrowsCap
        <5>2. InUsage' /\ Second' = "object"
          BY <1>1, <3>1, <3>2, <3>3 DEF Typed
        <5>3. Nesting' = collect_depth' + 1
          BY <1>1, <3>1, <3>3, <4>1 DEF Typed
        <5>4. (collect_in_string' <=> text' # "none") /\ (escape' <=> escaped')
          BY <1>1, <3>1, <3>2, <4>1 DEF Typed
        <5>5. QED BY <2>1, <3>1, <3>2, <3>4, <4>1, <5>1, <5>2, <5>3, <5>4 DEF CollectInv
    <3>7. QED BY <3>5, <3>6
  <2>6. ExtractsTheUsage' /\ NamesTheModel'
    BY <1>1, <1>2, <2>1, CapsAssumption DEF Typed, StackInv, Opened, Sort, FeedCollect, WriterInv,
       Plain, Allowed, Open, Start, OutgrowsCap, Halt, LastClose, Opens, Closes, keyVars, collectVars,
       Rest, ScanInv, ModelInv, CollectInv, ExtractsTheUsage, NamesTheModel
  <2>7. QED BY <2>2, <2>3, <2>4, <2>5, <2>6 DEF Rest
<1>3. CASE Close(b)
  <2>1. /\ Nesting > 0 /\ Nesting' = Nesting - 1
        /\ Nesting > 1 => Outermost' = Outermost
        /\ Nesting > 2 => Second' = Second
    BY <1>3, Shallower, Zenon
  <2>2. KeyInv'
    BY <1>1, <1>3, <2>1, CapsAssumption DEF Typed, StackInv, FeedCollect, WriterInv,
       Close, ClosesUsage, Told, Length, Span, OutgrowsCap, Halt, LastClose, Opens, Closes, Down, keyVars, collectVars,
       Rest, KeyInv
  <2>3. ScanInv'
    BY <1>1, <1>3, <2>1, CapsAssumption DEF Typed, StackInv, FeedCollect, WriterInv,
       Close, ClosesUsage, Told, Length, Span, OutgrowsCap, Halt, LastClose, Opens, Closes, Down, keyVars, collectVars,
       Rest, KeyInv, ScanInv
  <2>4. ModelInv'
    BY <1>1, <1>3, <2>1, CapsAssumption DEF Typed, StackInv, FeedCollect, WriterInv,
       Close, ClosesUsage, Told, Length, Span, OutgrowsCap, Halt, LastClose, Opens, Closes, Down, keyVars, collectVars,
       Rest, ScanInv, ModelInv
  <2>5. CollectInv'
    BY <1>1, <1>3, <2>1, CapsAssumption DEF Typed, StackInv, FeedCollect, WriterInv,
       Close, ClosesUsage, Told, Length, Span, OutgrowsCap, Halt, LastClose, Opens, Closes, Down, keyVars, collectVars,
       Rest, ScanInv, ModelInv, CollectInv
  <2>6. ExtractsTheUsage' /\ NamesTheModel'
    BY <1>1, <1>3, <2>1, CapsAssumption DEF Typed, StackInv, FeedCollect, WriterInv,
       Close, ClosesUsage, Told, Length, Span, OutgrowsCap, Halt, LastClose, Opens, Closes, Down, keyVars, collectVars,
       Rest, ScanInv, ModelInv, CollectInv, ExtractsTheUsage, NamesTheModel
  <2>7. QED BY <2>2, <2>3, <2>4, <2>5, <2>6 DEF Rest
<1>4. CASE Colon(b) \/ Comma(b) \/ Space(b)
  <2>1. StackKept /\ truth' = truth
    BY <1>4, SameStack DEF Colon, Comma, Space
  <2>2. KeyInv'
    BY <1>1, <1>4, <2>1, CapsAssumption DEF Typed, StackInv, StackKept, FeedCollect, WriterInv,
       Colon, Comma, Space, OutgrowsCap, Halt, LastClose, Opens, Closes, Down, keyVars, collectVars,
       Rest, KeyInv
  <2>3. ScanInv'
    BY <1>1, <1>4, <2>1, CapsAssumption DEF Typed, StackInv, StackKept, FeedCollect, WriterInv,
       Colon, Comma, Space, OutgrowsCap, Halt, LastClose, Opens, Closes, Down, keyVars, collectVars,
       Rest, KeyInv, ScanInv
  <2>4. ModelInv'
    BY <1>1, <1>4, <2>1, CapsAssumption DEF Typed, StackInv, StackKept, FeedCollect, WriterInv,
       Colon, Comma, Space, OutgrowsCap, Halt, LastClose, Opens, Closes, Down, keyVars, collectVars,
       Rest, ScanInv, ModelInv
  <2>5. CollectInv'
    <3>1. /\ mode = "collect" /\ Nesting > 1 /\ Outermost = "object" /\ key = "usage"
          /\ Second = "object" /\ Nesting = collect_depth + 1 /\ ~truth.closed
          /\ from = started /\ sent < from + MaxUsage
          /\ (collect_in_string <=> text # "none") /\ (escape <=> escaped)
          /\ truth.usage = Nothing
      BY DEF Rest, CollectInv, FeedCollect
    <3>2. /\ text = "none" /\ text' = "none" /\ key' = key /\ started' = started
          /\ escaped' = escaped /\ b \in {"colon", "comma", "blank"}
      BY <1>1, <1>4, <3>1 DEF Typed, WriterInv, Colon, Comma, Space
    <3>3. /\ Nesting' = Nesting /\ Outermost' = Outermost /\ Second' = Second
      BY <1>1, <2>1, <3>1 DEF Typed, StackKept
    <3>4. from' = from
      BY <3>1 DEF FeedCollect
    <3>5. CASE OutgrowsCap
      <4>1. mode' = "halted"
        BY <3>1, <3>5 DEF FeedCollect, Halt
      <4>2. QED
        <5>1. sent' >= started' + MaxUsage
          BY <1>1, <3>1, <3>2, <3>5, CapsAssumption DEF Typed, OutgrowsCap
        <5>2. InUsage' /\ Second' = "object"
          BY <1>1, <3>1, <3>2, <3>3 DEF Typed
        <5>3. QED BY <2>1, <3>1, <4>1, <5>1, <5>2 DEF CollectInv
    <3>6. CASE ~OutgrowsCap
      <4>1. /\ mode' = "collect" /\ collect_depth' = collect_depth
            /\ collect_in_string' = FALSE /\ escape' = escape
        BY <1>1, <1>4, <3>1, <3>2, <3>6 DEF Typed, FeedCollect, Opens, Closes, LastClose, Down
      <4>2. QED
        <5>1. sent' < from' + MaxUsage
          BY <1>1, <3>1, <3>4, <3>6, CapsAssumption DEF Typed, OutgrowsCap
        <5>2. InUsage' /\ Second' = "object"
          BY <1>1, <3>1, <3>2, <3>3 DEF Typed
        <5>3. Nesting' = collect_depth' + 1
          BY <1>1, <3>1, <3>3, <4>1 DEF Typed
        <5>4. (collect_in_string' <=> text' # "none") /\ (escape' <=> escaped')
          BY <1>1, <3>1, <3>2, <4>1 DEF Typed
        <5>5. QED BY <2>1, <3>1, <3>2, <3>4, <4>1, <5>1, <5>2, <5>3, <5>4 DEF CollectInv
    <3>7. QED BY <3>5, <3>6
  <2>6. ExtractsTheUsage' /\ NamesTheModel'
    BY <1>1, <1>4, <2>1, CapsAssumption DEF Typed, StackInv, StackKept, FeedCollect, WriterInv,
       Colon, Comma, Space, OutgrowsCap, Halt, LastClose, Opens, Closes, Down, keyVars, collectVars,
       Rest, ScanInv, ModelInv, CollectInv, ExtractsTheUsage, NamesTheModel
  <2>7. QED BY <2>2, <2>3, <2>4, <2>5, <2>6 DEF Rest
<1>5. CASE Literal(b) \/ BeginString(b)
  <2>1. StackKept /\ truth' = truth
    BY <1>5, SameStack DEF Literal, BeginString
  <2>2. KeyInv'
    BY <1>1, <1>5, <2>1, CapsAssumption DEF Typed, StackInv, StackKept, FeedCollect, WriterInv,
       Literal, BeginString, Start, OutgrowsCap, Halt, LastClose, Opens, Closes, Down, keyVars, collectVars,
       Rest, KeyInv
  <2>3. ScanInv'
    BY <1>1, <1>5, <2>1, CapsAssumption DEF Typed, StackInv, StackKept, FeedCollect, WriterInv,
       Literal, BeginString, Start, OutgrowsCap, Halt, LastClose, Opens, Closes, Down, keyVars, collectVars,
       Rest, KeyInv, ScanInv
  <2>4. ModelInv'
    BY <1>1, <1>5, <2>1, CapsAssumption DEF Typed, StackInv, StackKept, FeedCollect, WriterInv,
       Literal, BeginString, Start, OutgrowsCap, Halt, LastClose, Opens, Closes, Down, keyVars, collectVars,
       Rest, ScanInv, ModelInv
  <2>5. CollectInv'
    <3>1. /\ mode = "collect" /\ Nesting > 1 /\ Outermost = "object" /\ key = "usage"
          /\ Second = "object" /\ Nesting = collect_depth + 1 /\ ~truth.closed
          /\ from = started /\ sent < from + MaxUsage
          /\ (collect_in_string <=> text # "none") /\ (escape <=> escaped)
          /\ truth.usage = Nothing
      BY DEF Rest, CollectInv, FeedCollect
    <3>2. /\ text = "none" /\ key' = key /\ started' = started /\ escaped' = escaped
          /\ b \in {"word", "quote"} /\ (text' # "none" <=> b = "quote")
      BY <1>1, <1>5, <3>1 DEF Typed, WriterInv, Literal, BeginString, Start
    <3>3. /\ Nesting' = Nesting /\ Outermost' = Outermost /\ Second' = Second
      BY <1>1, <2>1, <3>1 DEF Typed, StackKept
    <3>4. from' = from
      BY <3>1 DEF FeedCollect
    <3>5. CASE OutgrowsCap
      <4>1. mode' = "halted"
        BY <3>1, <3>5 DEF FeedCollect, Halt
      <4>2. QED
        <5>1. sent' >= started' + MaxUsage
          BY <1>1, <3>1, <3>2, <3>5, CapsAssumption DEF Typed, OutgrowsCap
        <5>2. InUsage' /\ Second' = "object"
          BY <1>1, <3>1, <3>2, <3>3 DEF Typed
        <5>3. QED BY <2>1, <3>1, <4>1, <5>1, <5>2 DEF CollectInv
    <3>6. CASE ~OutgrowsCap
      <4>1. /\ mode' = "collect" /\ collect_depth' = collect_depth
            /\ (collect_in_string' <=> b = "quote") /\ escape' = escape
        BY <1>1, <1>5, <3>1, <3>2, <3>6 DEF Typed, FeedCollect, Opens, Closes, LastClose, Down
      <4>2. QED
        <5>1. sent' < from' + MaxUsage
          BY <1>1, <3>1, <3>4, <3>6, CapsAssumption DEF Typed, OutgrowsCap
        <5>2. InUsage' /\ Second' = "object"
          BY <1>1, <3>1, <3>2, <3>3 DEF Typed
        <5>3. Nesting' = collect_depth' + 1
          BY <1>1, <3>1, <3>3, <4>1 DEF Typed
        <5>4. (collect_in_string' <=> text' # "none") /\ (escape' <=> escaped')
          BY <1>1, <3>1, <3>2, <4>1 DEF Typed
        <5>5. QED BY <2>1, <3>1, <3>2, <3>4, <4>1, <5>1, <5>2, <5>3, <5>4 DEF CollectInv
    <3>7. QED BY <3>5, <3>6
  <2>6. ExtractsTheUsage' /\ NamesTheModel'
    BY <1>1, <1>5, <2>1, CapsAssumption DEF Typed, StackInv, StackKept, FeedCollect, WriterInv,
       Literal, BeginString, Start, OutgrowsCap, Halt, LastClose, Opens, Closes, Down, keyVars, collectVars,
       Rest, ScanInv, ModelInv, CollectInv, ExtractsTheUsage, NamesTheModel
  <2>7. QED BY <2>2, <2>3, <2>4, <2>5, <2>6 DEF Rest
<1>6. CASE Character(b) \/ Backslash(b)
  <2>1. StackKept /\ truth' = truth
    BY <1>6, SameStack DEF Character, Backslash
  <2>2. KeyInv'
    BY <1>1, <1>6, <2>1, CapsAssumption DEF Typed, StackInv, StackKept, FeedCollect, WriterInv,
       Character, Backslash, OutgrowsCap, Halt, LastClose, keyVars, collectVars,
       Rest, KeyInv
  <2>3. ScanInv'
    BY <1>1, <1>6, <2>1, CapsAssumption DEF Typed, StackInv, StackKept, FeedCollect, WriterInv,
       Character, Backslash, OutgrowsCap, Halt, LastClose, keyVars, collectVars,
       Rest, KeyInv, ScanInv
  <2>4. ModelInv'
    BY <1>1, <1>6, <2>1, CapsAssumption DEF Typed, StackInv, StackKept, FeedCollect, WriterInv,
       Character, Backslash, OutgrowsCap, Halt, LastClose, keyVars, collectVars,
       Rest, ScanInv, ModelInv
  <2>5. CollectInv'
    <3>1. /\ mode = "collect" /\ Nesting > 1 /\ Outermost = "object" /\ key = "usage"
          /\ Second = "object" /\ Nesting = collect_depth + 1 /\ ~truth.closed
          /\ from = started /\ sent < from + MaxUsage
          /\ (collect_in_string <=> text # "none") /\ (escape <=> escaped)
          /\ truth.usage = Nothing
      BY DEF Rest, CollectInv, FeedCollect
    <3>2. /\ text # "none" /\ text' = text /\ key' = key /\ started' = started
          /\ (escaped' <=> ~escaped /\ b = "back") /\ (b = "quote" => escaped)
      BY <1>1, <1>6, <3>1 DEF Typed, WriterInv, Character, Backslash
    <3>3. /\ Nesting' = Nesting /\ Outermost' = Outermost /\ Second' = Second
      BY <1>1, <2>1, <3>1 DEF Typed, StackKept
    <3>4. from' = from
      BY <3>1 DEF FeedCollect
    <3>5. CASE OutgrowsCap
      <4>1. mode' = "halted"
        BY <3>1, <3>5 DEF FeedCollect, Halt
      <4>2. QED
        <5>1. sent' >= started' + MaxUsage
          BY <1>1, <3>1, <3>2, <3>5, CapsAssumption DEF Typed, OutgrowsCap
        <5>2. InUsage' /\ Second' = "object"
          BY <1>1, <3>1, <3>2, <3>3 DEF Typed
        <5>3. QED BY <2>1, <3>1, <4>1, <5>1, <5>2 DEF CollectInv
    <3>6. CASE ~OutgrowsCap
      <4>1. /\ mode' = "collect" /\ collect_depth' = collect_depth
            /\ collect_in_string' = TRUE /\ (escape' <=> ~escape /\ b = "back")
        BY <1>1, <1>6, <3>1, <3>2, <3>6 DEF Typed, FeedCollect, Opens
      <4>2. QED
        <5>1. sent' < from' + MaxUsage
          BY <1>1, <3>1, <3>4, <3>6, CapsAssumption DEF Typed, OutgrowsCap
        <5>2. InUsage' /\ Second' = "object"
          BY <1>1, <3>1, <3>2, <3>3 DEF Typed
        <5>3. Nesting' = collect_depth' + 1
          BY <1>1, <3>1, <3>3, <4>1 DEF Typed
        <5>4. (collect_in_string' <=> text' # "none") /\ (escape' <=> escaped')
          BY <1>1, <3>1, <3>2, <4>1 DEF Typed
        <5>5. QED BY <2>1, <3>1, <3>2, <3>4, <4>1, <5>1, <5>2, <5>3, <5>4 DEF CollectInv
    <3>7. QED BY <3>5, <3>6
  <2>6. ExtractsTheUsage' /\ NamesTheModel'
    BY <1>1, <1>6, <2>1, CapsAssumption DEF Typed, StackInv, StackKept, FeedCollect, WriterInv,
       Character, Backslash, OutgrowsCap, Halt, LastClose, keyVars, collectVars,
       Rest, ScanInv, ModelInv, CollectInv, ExtractsTheUsage, NamesTheModel
  <2>7. QED BY <2>2, <2>3, <2>4, <2>5, <2>6 DEF Rest
<1>7. CASE EndString(b)
  <2>1. StackKept
    BY <1>7, SameStack DEF EndString
  <2>2. KeyInv'
    BY <1>1, <1>7, <2>1, CapsAssumption DEF Typed, StackInv, StackKept, FeedCollect, WriterInv,
       EndString, NamesModel, Length, Span, AfterValue, OutgrowsCap, Halt, LastClose, Opens, Closes, keyVars, collectVars,
       Rest, KeyInv
  <2>3. ScanInv'
    BY <1>1, <1>7, <2>1, CapsAssumption DEF Typed, StackInv, StackKept, FeedCollect, WriterInv,
       EndString, NamesModel, Length, Span, AfterValue, OutgrowsCap, Halt, LastClose, Opens, Closes, keyVars, collectVars,
       Rest, KeyInv, ScanInv
  <2>4. ModelInv'
    BY <1>1, <1>7, <2>1, CapsAssumption DEF Typed, StackInv, StackKept, FeedCollect, WriterInv,
       EndString, NamesModel, Length, Span, AfterValue, OutgrowsCap, Halt, LastClose, Opens, Closes, keyVars, collectVars,
       Rest, ScanInv, ModelInv
  <2>5. CollectInv'
    BY <1>1, <1>7, <2>1, CapsAssumption DEF Typed, StackInv, StackKept, FeedCollect, WriterInv,
       EndString, NamesModel, Length, Span, AfterValue, OutgrowsCap, Halt, LastClose, Opens, Closes, keyVars, collectVars,
       Rest, ScanInv, ModelInv, CollectInv
  <2>6. ExtractsTheUsage' /\ NamesTheModel'
    BY <1>1, <1>7, <2>1, CapsAssumption DEF Typed, StackInv, StackKept, FeedCollect, WriterInv,
       EndString, NamesModel, Length, Span, AfterValue, OutgrowsCap, Halt, LastClose, Opens, Closes, keyVars, collectVars,
       Rest, ScanInv, ModelInv, CollectInv, ExtractsTheUsage, NamesTheModel
  <2>7. QED BY <2>2, <2>3, <2>4, <2>5, <2>6 DEF Rest
<1>8. Open(b) \/ Close(b) \/ Colon(b) \/ Comma(b) \/ Space(b) \/ Literal(b) \/ BeginString(b) \/ Character(b) \/ Backslash(b) \/ EndString(b)
  BY DEF Write, Open, Close, Colon, Comma, Space, Literal, BeginString, Character, Backslash, EndString,
     Allowed, Plain, WriterInv, Rest, ModelInv, FeedCollect
<1>9. QED BY <1>2, <1>3, <1>4, <1>5, <1>6, <1>7, <1>8

LEMMA ScanStep ==
  ASSUME TypeOK, TypeOK', WriterInv, Rest, Plain, NEW b \in Unit, Write(b), FeedScan(b)
  PROVE  Rest'
<1>1. Typed /\ Typed' /\ StackInv /\ StackInv' /\ sent' = sent + 1
  BY StepTypes, Zenon
<1>2. CASE Open(b)
  <2>1. Opened(b) /\ truth' = truth
    BY <1>2, OpenedStack
  <2>2. KeyInv'
    BY <1>1, <1>2, <2>1, CapsAssumption DEF Typed, StackInv, Opened, Sort, FeedScan, WriterInv,
       Plain, Allowed, Open, Start, Scan, ScanNesting, Opens, Closes, TopColon, scanVars,
       Rest, KeyInv
  <2>3. ScanInv'
    BY <1>1, <1>2, <2>1, CapsAssumption DEF Typed, StackInv, Opened, Sort, FeedScan, WriterInv,
       Plain, Allowed, Open, Start, Scan, ScanNesting, Opens, Closes, TopColon, scanVars,
       Rest, KeyInv, ScanInv
  <2>4. ModelInv'
    BY <1>1, <1>2, <2>1, CapsAssumption DEF Typed, StackInv, Opened, Sort, FeedScan, WriterInv,
       Plain, Allowed, Open, Start, Scan, ScanNesting, Opens, Closes, TopColon, scanVars,
       Rest, ScanInv, ModelInv
  <2>5. CollectInv'
    <3>1. mode = "scan" /\ ~truth.closed /\ truth.usage = Nothing /\ ~InUsage
      BY DEF Rest, CollectInv, FeedScan
    <3>2. mode' = "scan"
      BY <1>2, <3>1 DEF Open, FeedScan, Scan, ScanNesting, Opens, Closes, TopColon
    <3>3. key' = key
      BY <1>2 DEF Open
    <3>4. ~InUsage'
      <4>1. CASE Nesting = 0
        BY <1>1, <2>1, <4>1 DEF Typed, Opened
      <4>2. CASE Nesting = 1
        BY <1>1, <1>2, <2>1, <3>1, <3>3, <4>2 DEF Typed, StackInv, Opened, Open, WriterInv, Rest, ScanInv
      <4>3. CASE Nesting > 1
        BY <1>1, <2>1, <3>1, <3>3, <4>3 DEF Typed, Opened
      <4>4. QED BY <1>1, <4>1, <4>2, <4>3 DEF Typed
    <3>5. QED BY <2>1, <3>1, <3>2, <3>4 DEF CollectInv
  <2>6. ExtractsTheUsage' /\ NamesTheModel'
    BY <1>1, <1>2, <2>1, CapsAssumption DEF Typed, StackInv, Opened, Sort, FeedScan, WriterInv,
       Plain, Allowed, Open, Start, Scan, ScanNesting, Opens, Closes, TopColon, scanVars,
       Rest, ScanInv, ModelInv, CollectInv, ExtractsTheUsage, NamesTheModel
  <2>7. QED BY <2>2, <2>3, <2>4, <2>5, <2>6 DEF Rest
<1>3. CASE Close(b)
  <2>1. /\ Nesting > 0 /\ Nesting' = Nesting - 1
        /\ Nesting > 1 => Outermost' = Outermost
        /\ Nesting > 2 => Second' = Second
    BY <1>3, Shallower, Zenon
  <2>2. KeyInv'
    BY <1>1, <1>3, <2>1, CapsAssumption DEF Typed, StackInv, FeedScan, WriterInv,
       Close, ClosesUsage, Told, Length, Span, Scan, ScanNesting, Opens, Closes, Down, TopColon, scanVars,
       Rest, KeyInv
  <2>3. ScanInv'
    BY <1>1, <1>3, <2>1, CapsAssumption DEF Typed, StackInv, FeedScan, WriterInv,
       Close, ClosesUsage, Told, Length, Span, Scan, ScanNesting, Opens, Closes, Down, TopColon, scanVars,
       Rest, KeyInv, ScanInv
  <2>4. ModelInv'
    BY <1>1, <1>3, <2>1, CapsAssumption DEF Typed, StackInv, FeedScan, WriterInv,
       Close, ClosesUsage, Told, Length, Span, Scan, ScanNesting, Opens, Closes, Down, TopColon, scanVars,
       Rest, ScanInv, ModelInv
  <2>5. CollectInv'
    BY <1>1, <1>3, <2>1, CapsAssumption DEF Typed, StackInv, FeedScan, WriterInv,
       Close, ClosesUsage, Told, Length, Span, Scan, ScanNesting, Opens, Closes, Down, TopColon, scanVars,
       Rest, ScanInv, ModelInv, CollectInv
  <2>6. ExtractsTheUsage' /\ NamesTheModel'
    BY <1>1, <1>3, <2>1, CapsAssumption DEF Typed, StackInv, FeedScan, WriterInv,
       Close, ClosesUsage, Told, Length, Span, Scan, ScanNesting, Opens, Closes, Down, TopColon, scanVars,
       Rest, ScanInv, ModelInv, CollectInv, ExtractsTheUsage, NamesTheModel
  <2>7. QED BY <2>2, <2>3, <2>4, <2>5, <2>6 DEF Rest
<1>4. CASE Colon(b)
  <2>1. StackKept /\ truth' = truth
    BY <1>4, SameStack DEF Colon
  <2>2. KeyInv'
    BY <1>1, <1>4, <2>1, CapsAssumption DEF Typed, StackInv, StackKept, FeedScan, WriterInv,
       Colon, Scan, ScanColon, TopColon, Opens, Closes, scanVars, keyVars, collectVars,
       Rest, KeyInv
  <2>3. ScanInv'
    <3>1. mode = "scan" /\ depth = Nesting /\ text = "none" /\ place = "colon" /\ b = "colon"
      BY <1>4 DEF Colon, Rest, ScanInv, FeedScan
    <3>2. place' = "value" /\ text' = "none" /\ key' = key
      BY <1>4, <3>1 DEF Colon
    <3>3. Inside = "object"
      BY <3>1 DEF WriterInv
    <3>4. CASE Nesting = 1
      <4>1. AtRoot /\ AtRoot'
        BY <1>1, <2>1, <3>3, <3>4 DEF StackInv, StackKept
      <4>2. /\ (last_top_string = "usage" <=> key = "usage")
            /\ (last_top_string = "model" <=> key = "model")
        BY <3>1, <4>1 DEF Rest, ScanInv, Name
      <4>3. ScanColon
        BY <3>1, <3>4 DEF FeedScan, Scan, TopColon, Opens, Closes
      <4>4. /\ mode' = IF key = "usage" THEN "expect"
                       ELSE IF key = "model" /\ model = Nothing THEN "expectModel" ELSE "scan"
            /\ depth' = depth /\ model' = model
        BY <3>1, <4>2, <4>3 DEF ScanColon
      <4>5. QED BY <2>1, <3>1, <3>2, <4>1, <4>4 DEF StackKept, ScanInv
    <3>5. CASE Nesting # 1
      <4>1. mode' = "scan" /\ depth' = depth
        BY <3>1, <3>5 DEF FeedScan, Scan, TopColon, Opens, Closes, scanVars
      <4>2. ~AtRoot'
        BY <2>1, <3>5 DEF StackKept
      <4>3. QED BY <2>1, <3>1, <3>2, <4>1, <4>2 DEF StackKept, ScanInv
    <3>6. QED BY <3>4, <3>5
  <2>4. ModelInv'
    BY <1>1, <1>4, <2>1, CapsAssumption DEF Typed, StackInv, StackKept, FeedScan, WriterInv,
       Colon, Scan, ScanColon, TopColon, Opens, Closes, scanVars, keyVars, collectVars,
       Rest, ScanInv, ModelInv
  <2>5. CollectInv'
    BY <1>1, <1>4, <2>1, CapsAssumption DEF Typed, StackInv, StackKept, FeedScan, WriterInv,
       Colon, Scan, ScanColon, TopColon, Opens, Closes, scanVars, keyVars, collectVars,
       Rest, ScanInv, ModelInv, CollectInv
  <2>6. ExtractsTheUsage' /\ NamesTheModel'
    BY <1>1, <1>4, <2>1, CapsAssumption DEF Typed, StackInv, StackKept, FeedScan, WriterInv,
       Colon, Scan, ScanColon, TopColon, Opens, Closes, scanVars, keyVars, collectVars,
       Rest, ScanInv, ModelInv, CollectInv, ExtractsTheUsage, NamesTheModel
  <2>7. QED BY <2>2, <2>3, <2>4, <2>5, <2>6 DEF Rest
<1>5. CASE Comma(b) \/ Space(b) \/ Literal(b)
  <2>1. StackKept /\ truth' = truth
    BY <1>5, SameStack DEF Comma, Space, Literal
  <2>2. KeyInv'
    BY <1>1, <1>5, <2>1, CapsAssumption DEF Typed, StackInv, StackKept, FeedScan, WriterInv,
       Comma, Space, Literal, AfterValue, Start, Scan, ScanComma, TopColon, Opens, Closes, scanVars, keyVars, collectVars,
       Rest, KeyInv
  <2>3. ScanInv'
    BY <1>1, <1>5, <2>1, CapsAssumption DEF Typed, StackInv, StackKept, FeedScan, WriterInv,
       Comma, Space, Literal, AfterValue, Start, Scan, ScanComma, TopColon, Opens, Closes, scanVars, keyVars, collectVars,
       Rest, KeyInv, ScanInv
  <2>4. ModelInv'
    BY <1>1, <1>5, <2>1, CapsAssumption DEF Typed, StackInv, StackKept, FeedScan, WriterInv,
       Comma, Space, Literal, AfterValue, Start, Scan, ScanComma, TopColon, Opens, Closes, scanVars, keyVars, collectVars,
       Rest, ScanInv, ModelInv
  <2>5. CollectInv'
    BY <1>1, <1>5, <2>1, CapsAssumption DEF Typed, StackInv, StackKept, FeedScan, WriterInv,
       Comma, Space, Literal, AfterValue, Start, Scan, ScanComma, TopColon, Opens, Closes, scanVars, keyVars, collectVars,
       Rest, ScanInv, ModelInv, CollectInv
  <2>6. ExtractsTheUsage' /\ NamesTheModel'
    BY <1>1, <1>5, <2>1, CapsAssumption DEF Typed, StackInv, StackKept, FeedScan, WriterInv,
       Comma, Space, Literal, AfterValue, Start, Scan, ScanComma, TopColon, Opens, Closes, scanVars, keyVars, collectVars,
       Rest, ScanInv, ModelInv, CollectInv, ExtractsTheUsage, NamesTheModel
  <2>7. QED BY <2>2, <2>3, <2>4, <2>5, <2>6 DEF Rest
<1>6. CASE BeginString(b)
  <2>1. StackKept /\ truth' = truth
    BY <1>6, SameStack DEF BeginString
  <2>2. KeyInv'
    <3>1. key_buf' = <<>>
      BY <1>6 DEF BeginString, FeedScan, Scan, ScanQuote, Opens, Closes, TopColon
    <3>2. text' = "key" /\ AtRoot' => key' = "empty"
      BY <1>6, <2>1 DEF BeginString, StackKept
    <3>3. Agrees(<<>>, "empty")
      BY DEF Agrees, Name
    <3>4. QED BY <3>1, <3>2, <3>3 DEF KeyInv
  <2>3. ScanInv'
    BY <1>1, <1>6, <2>1, CapsAssumption DEF Typed, StackInv, StackKept, FeedScan, WriterInv,
       BeginString, Start, Scan, ScanQuote, TopColon, Opens, Closes, scanVars, keyVars, collectVars,
       Rest, KeyInv, ScanInv
  <2>4. ModelInv'
    BY <1>1, <1>6, <2>1, CapsAssumption DEF Typed, StackInv, StackKept, FeedScan, WriterInv,
       BeginString, Start, Scan, ScanQuote, TopColon, Opens, Closes, scanVars, keyVars, collectVars,
       Rest, ScanInv, ModelInv
  <2>5. CollectInv'
    BY <1>1, <1>6, <2>1, CapsAssumption DEF Typed, StackInv, StackKept, FeedScan, WriterInv,
       BeginString, Start, Scan, ScanQuote, TopColon, Opens, Closes, scanVars, keyVars, collectVars,
       Rest, ScanInv, ModelInv, CollectInv
  <2>6. ExtractsTheUsage' /\ NamesTheModel'
    BY <1>1, <1>6, <2>1, CapsAssumption DEF Typed, StackInv, StackKept, FeedScan, WriterInv,
       BeginString, Start, Scan, ScanQuote, TopColon, Opens, Closes, scanVars, keyVars, collectVars,
       Rest, ScanInv, ModelInv, CollectInv, ExtractsTheUsage, NamesTheModel
  <2>7. QED BY <2>2, <2>3, <2>4, <2>5, <2>6 DEF Rest
<1>7. Open(b) \/ Close(b) \/ Colon(b) \/ Comma(b) \/ Space(b) \/ Literal(b) \/ BeginString(b)
  BY DEF Write, Open, Close, Colon, Comma, Space, Literal, BeginString, Character, Backslash, EndString,
     Allowed, Plain, WriterInv, Rest, ScanInv, FeedScan
<1>8. QED BY <1>2, <1>3, <1>4, <1>5, <1>6, <1>7

LEMMA HaltedStep ==
  ASSUME TypeOK, TypeOK', WriterInv, Rest, Plain, NEW b \in Unit, Write(b),
         mode = "halted", UNCHANGED scanVars
  PROVE  Rest'
<1>1. Typed /\ Typed' /\ StackInv /\ StackInv' /\ sent' = sent + 1
  BY StepTypes, Zenon
<1>2. mode' = "halted" /\ extracted' = extracted /\ model' = model
  BY DEF scanVars
<1>3. truth.closed \/ (InUsage /\ sent >= started + MaxUsage)
  BY DEF Rest, CollectInv
<1>4. KeyInv' /\ ScanInv' /\ ModelInv'
  BY <1>2, Zenon DEF KeyInv, ScanInv, ModelInv
<1>5. CASE truth.closed
  <2>1. ~NamesModel
    BY <1>5 DEF NamesModel
  <2>2. truth' = truth
    BY <1>5, <2>1 DEF Write, Open, Close, Colon, Comma, Space, Literal, BeginString,
       Character, Backslash, EndString
  <2>3. InUsage' => Second' = "object"
    <3>1. InUsage => Second = "object"
      BY DEF Rest, CollectInv
    <3>2. CASE Open(b)
      <4>1. Opened(b)
        BY <3>2, OpenedStack
      <4>2. key' = key /\ ValueNext /\ text = "none"
        BY <3>2 DEF Open
      <4>3. CASE Nesting = 1 /\ Outermost = "object" /\ key = "usage"
        <5>1. b = "lbrace"
          BY <3>2, <4>3 DEF Open, Allowed, Plain
        <5>2. QED BY <4>1, <4>3, <5>1 DEF Opened, Sort
      <4>4. CASE Nesting > 1
        BY <1>1, <3>1, <4>1, <4>2, <4>4 DEF Typed, Opened
      <4>5. CASE Nesting = 1 /\ ~(Outermost = "object" /\ key = "usage")
        BY <4>1, <4>2, <4>5 DEF Opened
      <4>6. CASE Nesting = 0
        BY <1>1, <4>1, <4>6 DEF Typed, Opened
      <4>7. QED BY <1>1, <4>3, <4>4, <4>5, <4>6 DEF Typed
    <3>3. CASE Close(b)
      <4>1. /\ Nesting > 0 /\ Nesting' = Nesting - 1
            /\ Nesting > 1 => Outermost' = Outermost
            /\ Nesting > 2 => Second' = Second
        BY <3>3, Shallower, Zenon
      <4>2. key' = key
        BY <3>3 DEF Close
      <4>3. QED BY <1>1, <3>1, <4>1, <4>2 DEF Typed
    <3>4. CASE UNCHANGED stack
      <4>1. StackKept
        BY <3>4, SameStack
      <4>2. key' = key \/ AtRoot
        BY <3>4 DEF Write, Open, Close, Colon, Comma, Space, Literal, BeginString,
           Character, Backslash, EndString
      <4>3. QED BY <1>1, <3>1, <4>1, <4>2 DEF Typed, StackKept
    <3>5. QED
      BY <3>2, <3>3, <3>4 DEF Write, Colon, Comma, Space, Literal, BeginString,
         Character, Backslash, EndString
  <2>4. QED
    BY <1>2, <1>4, <1>5, <2>2, <2>3 DEF Rest, CollectInv, ExtractsTheUsage, NamesTheModel
<1>6. CASE ~truth.closed
  <2>1. InUsage /\ sent >= started + MaxUsage /\ Second = "object"
    BY <1>3, <1>6 DEF Rest, CollectInv
  <2>2. Length(Span(started, pos)) > MaxUsage
    BY <1>1, <2>1, CapsAssumption DEF Typed, Length, Span
  <2>3. ~(Length(Span(started, pos)) <= MaxUsage)
    BY <1>1, <2>2, CapsAssumption DEF Typed, Length, Span
  <2>4. truth.usage = Nothing /\ extracted = Nothing /\ model = truth.model
    BY <1>6 DEF Rest, CollectInv, ExtractsTheUsage, NamesTheModel
  <2>5. ~NamesModel
    BY <1>1, <2>1 DEF Typed, NamesModel
  <2>6. CASE Close(b) /\ ClosesUsage
    <3>1. truth' = [usage |-> Nothing, closed |-> TRUE, model |-> truth.model]
      BY <1>6, <2>3, <2>6 DEF Close, Told
    <3>2. truth'.closed /\ truth'.usage = Nothing /\ truth'.model = truth.model
      BY <3>1
    <3>3. ~InUsage'
      BY <1>1, <2>6, Shallower DEF Typed, ClosesUsage
    <3>4. QED
      BY <1>2, <1>4, <2>4, <3>2, <3>3 DEF Rest, CollectInv, ExtractsTheUsage, NamesTheModel
  <2>7. CASE ~(Close(b) /\ ClosesUsage)
    <3>1. truth' = truth
      BY <2>5, <2>7 DEF Write, Open, Close, Colon, Comma, Space, Literal, BeginString,
         Character, Backslash, EndString
    <3>2. started' = started /\ key' = key
      BY <1>1, <2>1 DEF Typed, Write, Open, Close, Colon, Comma, Space, Literal, BeginString,
         Character, Backslash, EndString, Start
    <3>3. sent' >= started' + MaxUsage
      BY <1>1, <2>1, <3>2, CapsAssumption DEF Typed
    <3>4. InUsage' /\ Second' = "object"
      <4>1. CASE Open(b)
        BY <1>1, <2>1, <3>2, <4>1, OpenedStack DEF Typed, Opened
      <4>2. CASE Close(b)
        <5>1. /\ Nesting' = Nesting - 1
              /\ Nesting > 1 => Outermost' = Outermost
              /\ Nesting > 2 => Second' = Second
          BY <4>2, Shallower, Zenon
        <5>2. Nesting # 2
          BY <1>1, <2>1, <2>7, <4>2 DEF ClosesUsage, StackInv
        <5>3. QED BY <1>1, <2>1, <3>2, <5>1, <5>2 DEF Typed
      <4>3. CASE UNCHANGED stack
        BY <2>1, <3>2, <4>3, SameStack DEF StackKept
      <4>4. QED
        BY <4>1, <4>2, <4>3 DEF Write, Colon, Comma, Space, Literal, BeginString,
           Character, Backslash, EndString
    <3>5. QED
      BY <1>2, <1>4, <2>4, <3>1, <3>3, <3>4 DEF Rest, CollectInv, ExtractsTheUsage, NamesTheModel
  <2>8. QED BY <2>6, <2>7
<1>7. QED BY <1>5, <1>6

-----------------------------------------------------------------------------
LEMMA InitInv == Init => IInv
<1>. SUFFICES ASSUME Init PROVE IInv
  OBVIOUS
<1>1. TypeOK
  BY TypeInit
<1>2. Nesting = 0
  BY DEF Init, Nesting
<1>3. WriterInv /\ KeyInv /\ ModelInv
  BY <1>2 DEF Init, WriterInv, KeyInv, ModelInv
<1>4. ScanInv
  BY <1>2 DEF Init, ScanInv
<1>5. CollectInv
  BY <1>2 DEF Init, CollectInv
<1>6. ExtractsTheUsage /\ NamesTheModel
  BY DEF Init, ExtractsTheUsage, NamesTheModel
<1>7. QED BY <1>1, <1>3, <1>4, <1>5, <1>6 DEF IInv, InStep

LEMMA TypeStep == TypeOK /\ [Next]_vars => TypeOK'
<1>. SUFFICES ASSUME TypeOK, [Next]_vars PROVE TypeOK'
  OBVIOUS
<1>1. CASE UNCHANGED vars
  BY <1>1 DEF vars, writerVars, scanVars, keyVars, collectVars, TypeOK
<1>2. ASSUME NEW b \in Unit, Write(b), Push(b) PROVE TypeOK'
  BY <1>2, TypeWriter, TypeExtractor, Zenon DEF TypeOK
<1>3. QED BY <1>1, <1>2 DEF Next, Stop

LEMMA InvStep == Plain /\ IInv /\ [Next]_vars => IInv'
<1>. SUFFICES ASSUME Plain, IInv, [Next]_vars PROVE IInv'
  OBVIOUS
<1>1. TypeOK /\ TypeOK' /\ WriterInv /\ Rest
  BY TypeStep DEF IInv, InStep, Rest
<1>2. CASE UNCHANGED vars
  <2>1. StackKept
    BY <1>2, SameStack DEF vars, writerVars
  <2>2. WriterInv'
    BY <1>1, <1>2, <2>1 DEF vars, writerVars, StackKept, WriterInv
  <2>3. KeyInv'
    BY <1>1, <1>2, <2>1 DEF vars, writerVars, scanVars, keyVars, StackKept, Rest, KeyInv
  <2>4. ScanInv' /\ ModelInv'
    BY <1>1, <1>2, <2>1 DEF vars, writerVars, scanVars, keyVars, StackKept, Rest, ScanInv, ModelInv
  <2>5. CollectInv'
    BY <1>1, <1>2, <2>1 DEF vars, writerVars, scanVars, keyVars, collectVars, StackKept, Rest, CollectInv
  <2>6. ExtractsTheUsage' /\ NamesTheModel'
    BY <1>1, <1>2 DEF vars, writerVars, scanVars, Rest, ExtractsTheUsage, NamesTheModel
  <2>7. QED BY <1>1, <2>2, <2>3, <2>4, <2>5, <2>6 DEF IInv, InStep
<1>3. ASSUME NEW b \in Unit, Write(b), Push(b) PROVE IInv'
  <2>1. WriterInv'
    BY <1>1, <1>3, WriterStep
  <2>2. Rest'
    BY <1>1, <1>3, ExpectStep, ExpectModelStep, SkipModelStep, ModelStep, StringStep,
       CollectStep, ScanStep, HaltedStep, Zenon DEF Push
  <2>3. QED BY <1>1, <2>1, <2>2 DEF IInv, InStep, Rest
<1>4. QED BY <1>2, <1>3 DEF Next, Stop

\* Every state of the extractor and its document is well typed.
THEOREM Typing == Spec => []TypeOK
<1>1. Init => TypeOK
  BY TypeInit
<1>2. TypeOK /\ [Next]_vars => TypeOK'
  BY TypeStep
<1>3. QED BY <1>1, <1>2, PTL DEF Spec

\* While no usage value is a string or an array and no escape is cut by
\* MAX_MODEL_BYTES, the extractor's flags, depth and buffers follow the grammar
\* of the document, whatever its length and nesting.
THEOREM StaysInStep == Plain => (Spec => []InStep)
<1>. SUFFICES ASSUME Plain PROVE Spec => []InStep
  OBVIOUS
<1>1. Init => IInv
  BY InitInv
<1>2. IInv /\ [Next]_vars => IInv'
  BY InvStep
<1>3. IInv => InStep
  BY DEF IInv
<1>4. QED BY <1>1, <1>2, <1>3, PTL DEF Spec

\* For those documents push gives out the root's usage object, whole, and no other
\* (JsonUsageExtractor).
THEOREM UsageIsTheDocuments == Plain => (Spec => []ExtractsTheUsage)
<1>. SUFFICES ASSUME Plain PROVE Spec => []ExtractsTheUsage
  OBVIOUS
<1>1. Init => IInv
  BY InitInv
<1>2. IInv /\ [Next]_vars => IInv'
  BY InvStep
<1>3. IInv => ExtractsTheUsage
  BY DEF IInv
<1>4. QED BY <1>1, <1>2, <1>3, PTL DEF Spec

\* And the model it keeps is the first of the root that is not empty and fits
\* (feed_model_string).
THEOREM ModelIsTheDocuments == Plain => (Spec => []NamesTheModel)
<1>. SUFFICES ASSUME Plain PROVE Spec => []NamesTheModel
  OBVIOUS
<1>1. Init => IInv
  BY InitInv
<1>2. IInv /\ [Next]_vars => IInv'
  BY InvStep
<1>3. IInv => NamesTheModel
  BY DEF IInv
<1>4. QED BY <1>1, <1>2, <1>3, PTL DEF Spec
=============================================================================
