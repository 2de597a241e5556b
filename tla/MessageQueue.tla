----------------------------- MODULE MessageQueue -----------------------------
(***************************************************************************)
(* What TcpSocketManager.sendMessage() promises of the messages it is      *)
(* given, numbered in the order of the calls: their fates are decided one  *)
(* after the other, and each is either written to the server, once, or     *)
(* lost.                                                                   *)
(***************************************************************************)
EXTENDS Naturals, Sequences

VARIABLES
  submitted,  \* messages handed over: 1..submitted
  settled,    \* those whose fate is decided: 1..settled
  written,    \* messages written, in order
  lost        \* messages lost

vars == <<submitted, settled, written, lost>>

Init ==
  /\ submitted = 0
  /\ settled = 0
  /\ written = << >>
  /\ lost = {}

Submit ==
  /\ submitted' = submitted + 1
  /\ UNCHANGED <<settled, written, lost>>

Settle ==
  /\ settled < submitted
  /\ settled' = settled + 1
  /\ UNCHANGED submitted

Deliver ==
  /\ Settle
  /\ written' = Append(written, settled')
  /\ UNCHANGED lost

Lose ==
  /\ Settle
  /\ lost' = lost \cup {settled'}
  /\ UNCHANGED written

Next == Submit \/ Deliver \/ Lose

Spec == Init /\ [][Next]_vars
=============================================================================
