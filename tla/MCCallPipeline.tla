---------------------------- MODULE MCCallPipeline ---------------------------
(***************************************************************************)
(* MeteredCall for TLC.                                                    *)
(***************************************************************************)
EXTENDS MeteredCall

\* One metered call without a model in the request, one that names its model on a
\* route that is not inference, one for an unknown alias.
MCRequests ==
  {[inference |-> TRUE, alias |-> "known", model |-> "none"],
   [inference |-> FALSE, alias |-> "known", model |-> "asked"],
   [inference |-> TRUE, alias |-> "unknown", model |-> "asked"]}

\* message_start cut inside its CRLF delimiter, the rest of that delimiter with an event cut
\* inside its LF one, the rest of that, bytes without counts that fill the splitter.
MCChunk ==
  {<<"name", "in", "cr">>, <<"end", "cr", "end", "out", "end">>, <<"end", "more">>, <<"name">>}

\* The runs' observer is the one CutsTheorem is about.
ASSUME MeterAssumption == Metered
=============================================================================
