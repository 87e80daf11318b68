----------------------------- MODULE MCExchange -------------------------------
(***************************************************************************)
(* Exchange for TLC: every provider's body, every address, every caller.   *)
(***************************************************************************)
EXTENDS Exchange

Plain == [object |-> FALSE, other |-> FALSE, include |-> "absent"]

Asks(p, h, a) == [port |-> p, host |-> h, authority |-> a, header |-> "absent", agent |-> "agent",
                  api |-> "chat", length |-> "short",
                  body |-> [json |-> TRUE, model |-> "asked", stream |-> TRUE, options |-> Plain]]

\* By any address, to one of two ports.
Addressing == {Asks(p, h, a) : p \in {"openai", "gemini"},
                 h \in {"anthropic", "stranger", "plain", "absent", "unreadable"},
                 a \in {"xai", "stranger", "plain", "absent"}}

\* By any caller.
Calling == {[Asks("kimi", "plain", "absent") EXCEPT !.header = h, !.agent = a] :
              h \in {"absent", "blank", "declared"}, a \in {"absent", "blank", "agent"}}

OptionsSent == {Plain} \cup [object : {TRUE}, other : BOOLEAN, include : {"absent", "no", "yes"}]

\* With any body, to any provider.
Asking == {[Asks(p, "plain", "absent") EXCEPT !.api = api, !.length = len,
              !.body = [json |-> TRUE, model |-> m, stream |-> s, options |-> o]] :
             p \in Provider, api \in {"chat", "responses"}, len \in {"short", "long", "unknown"},
             m \in {"none", "asked"}, s \in BOOLEAN, o \in OptionsSent}

Other == {[Asks("openai", "plain", "absent") EXCEPT !.api = "other"],
          [Asks("openai", "plain", "absent") EXCEPT !.body.json = FALSE, !.body.model = "none",
                                                    !.body.stream = FALSE]}

MCRequests == Addressing \cup Calling \cup Asking \cup Other

Chats == {r \in Asking : r.port = "openai" /\ r.api = "chat"}

Bill(i, o, r, w, t, c) ==
  [input |-> i, output |-> o, read |-> r, written |-> w, reasoning |-> t, cost |-> c]

\* All of the output reasoned, none of it, some of it.
MCBills == {Bill(4, 3, 2, 1, 3, 5), Bill(2, 1, 0, 0, 0, 0), Bill(3, 2, 1, 0, 1, 1)}
=============================================================================
