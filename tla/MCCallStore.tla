----------------------------- MODULE MCCallStore ------------------------------
(***************************************************************************)
(* CallStore for TLC.  A day is four half seconds, local time one second   *)
(* ahead; day 0 is a Monday, and a month begins on the Thursday before it, *)
(* another on the Friday after.                                            *)
(***************************************************************************)
EXTENDS CallStore

MCMonthStarts == {-4, 4}

MCNows == {-1, 0, 7, 13, 14, 20, 31, 36}

Recorded(who, ts, latency, use, money) ==
  [ts |-> ts, latency |-> latency, provider |-> who.provider, model |-> who.model,
   client |-> who.client, client_source |-> who.client_source, peer_exe |-> who.peer_exe,
   endpoint |-> "chat", anomaly |-> Nobody, raw_usage |-> Nobody,
   input |-> use.input, output |-> use.output, read |-> use.read, write |-> use.write,
   error |-> use.input = 0, cost |-> money.cost, entry |-> money.entry, price |-> money.price]

Who(provider, model, client, source, exe) ==
  [provider |-> provider, model |-> model, client |-> client, client_source |-> source,
   peer_exe |-> exe]

Use(i, o, r, w) == [input |-> i, output |-> o, read |-> r, write |-> w]

Money(cost, entry, price) == [cost |-> cost, entry |-> entry, price |-> price]

Claude == Recorded(Who("anthropic", "claude", "node", "ua", "agent"), -2, 30, Use(1, 1, 3, 1), Money(Unknown, "additive", 7))
Gpt    == Recorded(Who("openai", "gpt", "cli", "header", "agent"), 7, 10, Use(4, 2, 3, 0), Money(Unknown, "subset", 5))
Router == Recorded(Who("openrouter", "odd", "node", Nobody, "shell"), 14, 20, Use(3, 1, 0, 0), Money(2, "none", 0))
Local  == Recorded(Who("openai", Nobody, Nobody, Nobody, Nobody), 31, 20, Use(2, 1, 0, 0), Money(Unknown, "none", 0))
Error  == Recorded(Who("openai", Nobody, "node", "ua", Nobody), 16, 40, Use(0, 0, 0, 0), Money(Unknown, "none", 0))

MCCalls == {Claude, Error}

MCOldRows == {<<Row(Gpt, -1), Row(Router, -2), Row(Claude, -3), Row(Local, -4), Row(Error, -5)>>}
===============================================================================
