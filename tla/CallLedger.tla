----------------------------- MODULE CallLedger ------------------------------
(***************************************************************************)
(* What turnpike promises for one call (README: `it writes down every      *)
(* call'; proxy.rs, the comments on terminal_anomaly and the canary).      *)
(*                                                                         *)
(* truth is what a meter that misses nothing would say of the call so far: *)
(* it moves while the upstream is answering.  The ledger holds the call's  *)
(* row: at most one, entered when the call is over and honest about the    *)
(* truth at that moment.  From then on neither changes.                    *)
(***************************************************************************)
EXTENDS Sequences, Naturals

CONSTANTS
  Truth,          \* what a meter can say of a call
  Honest(_, _)    \* Honest(row, truth): the row may stand for that truth

VARIABLES truth, ledger

vars == <<truth, ledger>>

Init == truth \in Truth /\ ledger = <<>>

\* The upstream says more.
Learn == ledger = <<>> /\ truth' \in Truth /\ UNCHANGED ledger

\* The row is entered.
Enter ==
  /\ ledger = <<>>
  /\ Len(ledger') = 1
  /\ Honest(ledger'[1], truth)
  /\ UNCHANGED truth

Next == Learn \/ Enter

Spec == Init /\ [][Next]_vars
=============================================================================
