----------------------------- MODULE WritePump -----------------------------
(***************************************************************************)
(* network::WritePump: the queue between the threads that send (devices,   *)
(* the network thread) and the one asynchronous write a socket may have.   *)
(* enqueue and onComplete decide under the mutex and call transmit after   *)
(* releasing it; a thread between the two is in pc "transmit".  The owner  *)
(* of the pump reports the end of each transmitted payload exactly once,   *)
(* from any of the threads and possibly from inside transmit.              *)
(***************************************************************************)
EXTENDS Naturals, Sequences

CONSTANTS
  Threads,   \* the threads that call enqueue or onComplete
  Payloads,  \* the frames they send
  MaxQueue   \* bound: frames in the queue

VARIABLES
  queue,          \* WritePump::queue, the payload in flight at its head
  writeInFlight,  \* WritePump::writeInFlight
  pc,             \* pc[t]: "out" of the pump, or about to call "transmit"
  payload,        \* payload[t]: the local `next` of enqueue / onComplete
  handed          \* payloads given to transmit whose completion is still due

vars == <<queue, writeInFlight, pc, payload, handed>>

-----------------------------------------------------------------------------
\* Mutant: enqueue forgets to mark the write it starts.
EnqueueUnmarked(t, p) ==
  /\ pc[t] = "out"
  /\ Len(queue) < MaxQueue
  /\ queue' = Append(queue, p)
  /\ IF writeInFlight
     THEN UNCHANGED <<pc, payload>>
     ELSE /\ pc' = [pc EXCEPT ![t] = "transmit"]
          /\ payload' = [payload EXCEPT ![t] = Head(queue')]
  /\ UNCHANGED <<writeInFlight, handed>>

\* enqueue: push; when nothing is in flight, take the head to transmit it.
Enqueue(t, p) ==
  /\ pc[t] = "out"
  /\ Len(queue) < MaxQueue
  /\ queue' = Append(queue, p)
  /\ IF writeInFlight
     THEN UNCHANGED <<writeInFlight, pc, payload>>
     ELSE /\ writeInFlight' = TRUE
          /\ pc' = [pc EXCEPT ![t] = "transmit"]
          /\ payload' = [payload EXCEPT ![t] = Head(queue')]
  /\ UNCHANGED handed

\* transmit(next), outside the mutex.
Transmit(t) ==
  /\ pc[t] = "transmit"
  /\ handed' = Append(handed, payload[t])
  /\ pc' = [pc EXCEPT ![t] = "out"]
  /\ UNCHANGED <<queue, writeInFlight, payload>>

\* What onComplete leaves in the queue: without its head, or nothing.
Popped == IF queue = <<>> THEN <<>> ELSE Tail(queue)
AfterComplete(success) == IF success THEN Popped ELSE <<>>

\* onComplete: drop the head (every payload after a failure); take the next one
\* to transmit it, or go idle.
OnComplete(t, success) ==
  /\ pc[t] = "out"
  /\ handed # <<>>
  /\ handed' = Tail(handed)
  /\ queue' = AfterComplete(success)
  /\ IF queue' = <<>>
     THEN /\ writeInFlight' = FALSE
          /\ UNCHANGED <<pc, payload>>
     ELSE /\ pc' = [pc EXCEPT ![t] = "transmit"]
          /\ payload' = [payload EXCEPT ![t] = Head(queue')]
          /\ UNCHANGED writeInFlight

-----------------------------------------------------------------------------
Init ==
  /\ queue = <<>>
  /\ writeInFlight = FALSE
  /\ pc = [t \in Threads |-> "out"]
  /\ payload \in [Threads -> Payloads]
  /\ handed = <<>>

Next ==
  \E t \in Threads :
    \/ \E p \in Payloads : Enqueue(t, p)
    \/ Transmit(t)
    \/ \E success \in BOOLEAN : OnComplete(t, success)

Spec == Init /\ [][Next]_vars

-----------------------------------------------------------------------------
TypeOK ==
  /\ queue \in Seq(Payloads)
  /\ writeInFlight \in BOOLEAN
  /\ pc \in [Threads -> {"out", "transmit"}]
  /\ payload \in [Threads -> Payloads]
  /\ handed \in Seq(Payloads)

\* At most one payload is in flight: a thread about to transmit excludes another
\* one and a write that is not complete, whoever decided to send.
AtMostOneInFlight ==
  /\ Len(handed) <= 1
  /\ \A t \in Threads :
       pc[t] = "transmit" =>
         /\ handed = <<>>
         /\ \A u \in Threads : pc[u] = "transmit" => u = t

\* The pump is idle exactly when nothing is queued, so no payload waits for an
\* event that will not come.
IdleIffEmpty == writeInFlight <=> queue # <<>>

\* While a payload is in flight somebody is about to transmit it or to complete it.
InFlightHasOwner ==
  writeInFlight => (handed # <<>> \/ \E t \in Threads : pc[t] = "transmit")

\* What goes out is the head of the queue.
InFlightIsHead ==
  /\ handed # <<>> => queue # <<>> /\ handed[1] = Head(queue)
  /\ \A t \in Threads :
       pc[t] = "transmit" => queue # <<>> /\ payload[t] = Head(queue)

\* The pump is the serial writer its header describes: the payload in flight is
\* being written from the call of transmit to its completion.
Waiting == IF handed = <<>> THEN queue ELSE Tail(queue)
SW == INSTANCE SerialWriter WITH waiting <- Waiting, writing <- handed
ImplementsSerialWriter == SW!Spec
=============================================================================
