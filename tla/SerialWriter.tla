---------------------------- MODULE SerialWriter ----------------------------
(***************************************************************************)
(* What network/write_pump.hpp promises of a WritePump: payloads accepted  *)
(* from any thread go out one at a time and in the order they were         *)
(* accepted, each exactly once; when a write fails, the payloads that wait *)
(* are dropped and the writer is ready again.                              *)
(***************************************************************************)
EXTENDS Sequences

CONSTANT Payloads

VARIABLES
  waiting,  \* payloads accepted and not yet handed to the socket
  writing   \* <<>>, or <<p>> while p is being written

vars == <<waiting, writing>>

Init ==
  /\ waiting = <<>>
  /\ writing = <<>>

Accept(p) ==
  /\ waiting' = Append(waiting, p)
  /\ UNCHANGED writing

Begin ==
  /\ writing = <<>>
  /\ waiting # <<>>
  /\ writing' = <<Head(waiting)>>
  /\ waiting' = Tail(waiting)

Succeed ==
  /\ writing # <<>>
  /\ writing' = <<>>
  /\ UNCHANGED waiting

Fail ==
  /\ writing # <<>>
  /\ writing' = <<>>
  /\ waiting' = <<>>

Next ==
  \/ \E p \in Payloads : Accept(p)
  \/ Begin \/ Succeed \/ Fail

Spec == Init /\ [][Next]_vars
=============================================================================
