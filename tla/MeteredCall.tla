----------------------------- MODULE MeteredCall ------------------------------
(***************************************************************************)
(* CallPipeline with the observer of UsageStream.                          *)
(***************************************************************************)
EXTENDS CallPipeline, UsageStream

\* Absorb, Outgrows and NewCapture are UsageStream's.
Metered ==
  /\ Chunk \subseteq Seq(Unit) /\ NewCapture = EmptyCapture
  /\ \A k \in Kind, c \in Capture, chunk \in Chunk :
       /\ Absorb(k, c, chunk) = AbsorbChunk(k, c, chunk)
       /\ Outgrows(k, c, chunk) = EventOutgrows(k, c, chunk)

\* The body as one chunk.
Body == Joined(pulled, Len(pulled))

\* What is gathered does not depend on where the body is cut into chunks, as long
\* as no event outgrows the splitter (SseSplitter's and JsonUsageExtractor's state
\* between pushes).
CutsAreInvisible ==
  (\A i \in 1..Len(pulled) : ~EventOutgrows(kind, ideal[i], pulled[i])) =>
    Ideal = IF kind = "sse" THEN AbsorbEvents(EmptyCapture, Body)
            ELSE AbsorbChunk(kind, EmptyCapture, Body)
=============================================================================
