----------------------------- MODULE Attribution ------------------------------
(***************************************************************************)
(* Who made a call (attr.rs; client_from_headers in proxy.rs).  A name is  *)
(* whatever the reader would see: the caller's own word, its User-Agent,   *)
(* the path of its executable; Nobody where a column is NULL.              *)
(***************************************************************************)

Nobody == "nobody"

\* Slip: a blank header falls back on the User-Agent.
HeaderOrAgent(header, agent) ==
  IF header \notin {"absent", "blank"} THEN [client |-> header, source |-> "header"]
  ELSE IF agent \notin {"absent", "blank"} THEN [client |-> agent, source |-> "ua"]
  ELSE [client |-> Nobody, source |-> Nobody]

\* x-turnpike-client when there is one, else the User-Agent; neither if it is blank.
ClientFromHeaders(header, agent) ==
  LET said == IF header # "absent" THEN header ELSE agent
  IN  IF said \in {"absent", "blank"} THEN [client |-> Nobody, source |-> Nobody]
      ELSE [client |-> said, source |-> IF header # "absent" THEN "header" ELSE "ua"]

Or(a, b) == IF a # Nobody THEN a ELSE b

\* Declared beats observed, observed beats the User-Agent; a row without a source
\* keeps the historical order.
UnifiedTool(client, source, exe) ==
  IF source = "header" THEN client
  ELSE IF source = "ua" THEN Or(exe, client)
  ELSE Or(client, exe)
=============================================================================
