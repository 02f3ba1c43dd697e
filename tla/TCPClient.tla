------------------------------ MODULE TCPClient ------------------------------
(***************************************************************************)
(* network::NetworkTCPClient: one socket at a time, its pending read, the  *)
(* one write the WritePump allows, and the reconnection after the read     *)
(* fails.  Devices send shares at any time from their own threads; a new   *)
(* connection sends its subscribe (Stratum::onConnect).  A connection is   *)
(* set up by blocking calls in connect(), any of which may fail: the       *)
(* trust store, the resolution, the pool or a SOCKS5 proxy before it, the  *)
(* TLS handshake.                                                          *)
(*                                                                         *)
(* Handlers run on a strand, one after the other, even when a reconnection *)
(* has left two threads in io_context::run.  retryConnect sleeps and       *)
(* connects inside the read's handler, so the strand is busy meanwhile.    *)
(* The kernel ends a write on its own; its handler then waits for the      *)
(* strand, and may find another socket in place of the one it wrote to.    *)
(* Of a message only its kind and the session it belongs to is kept; TLS   *)
(* and SOCKS5 messages are the answers the code tells apart.               *)
(***************************************************************************)
EXTENDS Naturals, Sequences

CONSTANTS
  Devices,      \* the threads of the devices
  MaxRetry,     \* MAX_RETRY_COUNT
  MaxSessions,  \* bound: connections established in a behaviour
  MaxQueue      \* bound: frames in the pump's queue

ASSUME DevicesAssumption == Devices \cap {"main", "io"} = {}
ASSUME BoundsAssumption ==
  MaxRetry \in Nat /\ MaxSessions \in Nat \ {0} /\ MaxQueue \in Nat \ {0}

\* The threads that use the pump: main connects first, io runs every handler.
Threads == Devices \cup {"main", "io"}
Frames == [kind : {"subscribe", "authorize", "share"}, session : 1..MaxSessions]

VARIABLES
  \* the pump of the client
  queue, writeInFlight, pc, payload, handed,
  \* the connection
  session,   \* number of the current socket among those that connected
  link,      \* "none" yet, "up", "lost" (the peer is gone, the read will fail), "closed"
  read,      \* the async_read_until on the current socket: "none" or "armed"
  write,     \* the async_write of the frame handed to transmit
  strand,    \* the handler that owns the strand, or where main is in connect()
  stopped,   \* io_context::run has returned: no work was left
  countRetryConnect,
  \* history
  attempts,  \* connection attempts that failed since the link was lost
  fatal,     \* the last read failed with an error that is not retried
  mined,     \* the session whose job the devices mine: the last one subscribed
  \* the set-up of the connection
  config,    \* config.mining: with TLS or not, directly or through a proxy
  step,      \* where connect() is, "none" outside of it
  peer,      \* what the socket reached, and the certificate it showed
  residue,   \* bytes of the proxy's reply are left in front of the pool's
  answer     \* the answer to the subscribe of this session is "due" or "taken"

pumpVars == <<queue, writeInFlight, pc, payload, handed>>
setVars == <<config, step, peer, residue, answer>>
linkVars == <<session, link, read, countRetryConnect, attempts, fatal, setVars>>
vars == <<pumpVars, linkVars, write, strand, stopped, mined>>

Pump == INSTANCE WritePump WITH Payloads <- Frames

Subscribe == [kind |-> "subscribe", session |-> session]
Authorize == [kind |-> "authorize", session |-> session]
Share == [kind |-> "share", session |-> mined]

\* The subscribes still to come always fit into the bounded queue.
MayQueue == Len(queue) + 1 + MaxSessions - session < MaxQueue

NoWrite == [stage |-> "none", session |-> 0, ok |-> FALSE]

\* Where a write is: posted to the strand, started on a socket, or done with its
\* handler waiting for the strand.
WriteStages == {"none", "posted", "writing", "done"}

\* "boot", "bootSubscribe" and "bootRead": main in its connect(); "free": no
\* handler runs; "onSend": the pump's next frame is due; "retry": sleeping before
\* a connection attempt; "subscribe" and "reread": the end of a connect() that
\* succeeded.
StrandPcs == {"boot", "bootSubscribe", "bootRead", "free", "onSend",
              "retry", "subscribe", "reread", "quit"}

\* run() returns once no read, write or handler is pending.
StopsIf(r, w, s) == stopped' = (stopped \/ (r = "none" /\ w = "none" /\ s = "free"))

-----------------------------------------------------------------------------
(***************************************************************************)
(* connect(): called by main once, then by retryConnect on the strand.     *)
(***************************************************************************)

\* The certificate of a peer: whether its chain ends at a trusted root, and
\* whether it names the pool.
Certificates == [chain : BOOLEAN, host : BOOLEAN]
Trusted == [chain |-> TRUE, host |-> TRUE]
NoCertificate == [chain |-> FALSE, host |-> FALSE]

Nobody == [at |-> "none", cert |-> NoCertificate]

\* With TLS or not; directly, through a proxy, or through one without a host; the
\* platform decides who checks a certificate.
Configurations ==
  {c \in [tls : BOOLEAN, socks : {"no", "host", "nohost"}, windows : BOOLEAN] :
     c.windows => c.tls}

\* connect() is called from the strand, or by main the first time.
Connecting(s) == strand \in {"boot", "retry"} /\ step = s

\* A call of the set-up returned, and the next one is s.
Then(s) ==
  /\ step' = s
  /\ UNCHANGED <<pumpVars, session, link, read, countRetryConnect, attempts, fatal,
                 config, answer, write, strand, stopped, mined>>

\* doSecureConnection or verify_none; then the old socket is deleted.  A SOCKS5
\* configuration without a host connects nothing.
PrepareContext ==
  /\ Connecting("context")
  /\ Then(IF config.socks = "nohost" THEN "options" ELSE "resolve")
  /\ peer' = Nobody
  /\ residue' = FALSE

\* make_address or the resolver.
Resolve ==
  /\ Connecting("resolve")
  /\ Then("connect")
  /\ UNCHANGED <<peer, residue>>

\* The pool itself, or its proxy.
ConnectSocket ==
  /\ Connecting("connect")
  /\ IF config.socks = "no"
     THEN /\ Then("options")
          /\ peer' = [peer EXCEPT !.at = "pool"]
     ELSE /\ Then("greeting")
          /\ peer' = [peer EXCEPT !.at = "proxy"]
  /\ UNCHANGED residue

\* get_greeting_result: version 5, no authentication.
Greet ==
  /\ Connecting("greeting")
  /\ Then("request")
  /\ UNCHANGED <<peer, residue>>

\* get_result: the proxy relays from now on.  The reply is read up to the length
\* its address type gives, but a domain name as if it were empty: the name stays
\* in front of what the pool sends.
Relay(address) ==
  /\ Connecting("request")
  /\ Then("options")
  /\ peer' = [peer EXCEPT !.at = "pool"]
  /\ residue' = (address = "domain")

\* Mutant: a reconnection reuses the handshake of the first connection.
HandshakeOnce == IF config.tls /\ session = 0 THEN "handshake" ELSE "up"

\* What follows the options of the socket.
AfterOptions == IF config.tls THEN "handshake" ELSE "up"

\* set_option throws on a socket that is not open.
SetOptions ==
  /\ Connecting("options")
  /\ peer.at # "none"
  /\ Then(AfterOptions)
  /\ UNCHANGED <<peer, residue>>

VerifyChainWithWindows(cert) == cert.chain /\ cert.host

\* onVerifySSL, called for every level of the chain.  On Windows the trust store of
\* OpenSSL is empty, and the system checks chain and name once, at the leaf.
OnVerifySSL(level, cert) ==
  IF config.windows
  THEN level # "leaf" \/ VerifyChainWithWindows(cert)
  ELSE cert.chain /\ (level = "leaf" => cert.host)

Verified(cert) == \A level \in {"root", "intermediate", "leaf"} : OnVerifySSL(level, cert)

Handshake(cert) ==
  /\ Connecting("handshake")
  /\ ~residue
  /\ Verified(cert)
  /\ Then("up")
  /\ peer' = [peer EXCEPT !.cert = cert]
  /\ UNCHANGED residue

SetUp ==
  \/ PrepareContext \/ Resolve \/ ConnectSocket \/ Greet \/ SetOptions
  \/ \E address \in {"ip", "domain"} : Relay(address)
  \/ \E cert \in Certificates : Handshake(cert)

\* Every call of the set-up may fail or throw; connect() then returns false.
MayFail == step \notin {"none", "up"}

\* A first connection that fails is not retried.
BootFails ==
  /\ strand = "boot" /\ MayFail
  /\ strand' = "quit"
  /\ UNCHANGED <<pumpVars, linkVars, write, stopped, mined>>

\* Mutant: the retries of the last outage are still counted.
EstablishedKeepsRetries ==
  /\ step = "up"
  /\ session < MaxSessions
  /\ session' = session + 1
  /\ link' = "up"
  /\ step' = "none"
  /\ answer' = "due"
  /\ UNCHANGED <<read, countRetryConnect, attempts, fatal, mined, config, peer, residue>>

\* The socket is up: the retries are forgotten.
Established ==
  /\ step = "up"
  /\ session < MaxSessions
  /\ session' = session + 1
  /\ link' = "up"
  /\ step' = "none"
  /\ answer' = "due"
  /\ countRetryConnect' = 0
  /\ UNCHANGED <<read, attempts, fatal, mined, config, peer, residue>>

Boot ==
  /\ strand = "boot"
  /\ Established
  /\ strand' = "bootSubscribe"
  /\ UNCHANGED <<pumpVars, write, stopped>>

\* onConnect sends the subscribe; main is not on the strand, so transmit posts it.
BootSubscribe ==
  /\ strand = "bootSubscribe"
  /\ Pump!Enqueue("main", Subscribe)
  /\ strand' = "bootRead"
  /\ UNCHANGED <<linkVars, write, stopped, mined>>

BootTransmit ==
  /\ Pump!Transmit("main")
  /\ write' = [stage |-> "posted", session |-> 0, ok |-> FALSE]
  /\ UNCHANGED <<linkVars, strand, stopped, mined>>

\* asyncReceive, then the thread that runs the handlers is started.
BootRead ==
  /\ strand = "bootRead"
  /\ pc["main"] = "out"
  /\ read' = "armed"
  /\ strand' = "free"
  /\ UNCHANGED <<pumpVars, session, link, countRetryConnect, attempts, fatal,
                 setVars, write, stopped, mined>>

-----------------------------------------------------------------------------
(***************************************************************************)
(* Sending: send() and transmit().                                         *)
(***************************************************************************)

\* A device sends a share of the job it mines, whatever became of its session.
SendShare(d) ==
  /\ mined > 0
  /\ MayQueue
  /\ Pump!Enqueue(d, Share)
  /\ UNCHANGED <<linkVars, write, strand, stopped, mined>>

\* dispatch() from a device thread posts the write to the strand.
DeviceTransmit(d) ==
  /\ Pump!Transmit(d)
  /\ write' = [stage |-> "posted", session |-> 0, ok |-> FALSE]
  /\ UNCHANGED <<linkVars, strand, stopped, mined>>

\* Mutant: a write that finds the link gone returns without telling the pump.
StartWriteUnlessGone ==
  /\ strand = "free" /\ ~stopped
  /\ write.stage = "posted"
  /\ write' = IF link = "up"
              THEN [stage |-> "writing", session |-> session, ok |-> FALSE]
              ELSE NoWrite
  /\ StopsIf(read, write'.stage, strand)
  /\ UNCHANGED <<pumpVars, linkVars, strand, mined>>

\* The posted write starts on whatever socket is current by then.
StartWrite ==
  /\ strand = "free" /\ ~stopped
  /\ write.stage = "posted"
  /\ write' = [stage |-> "writing", session |-> session, ok |-> FALSE]
  /\ UNCHANGED <<pumpVars, linkVars, strand, stopped, mined>>

\* The kernel ends the write: it may take the frame of a link that was lost, and
\* fails on a socket that is lost or closed.
EndWrite(ok) ==
  /\ write.stage = "writing"
  /\ IF ok THEN link \in {"up", "lost"} ELSE link \in {"lost", "closed"}
  /\ write' = [write EXCEPT !.stage = "done", !.ok = ok]
  /\ mined' = IF ok /\ link = "up" /\ handed[1].kind = "subscribe" THEN session ELSE mined
  /\ UNCHANGED <<pumpVars, linkVars, strand, stopped>>

\* Mutant: onSend leaves a write that was aborted to the next connection.
OnSendIgnoresAborted ==
  /\ strand = "free" /\ ~stopped
  /\ write.stage = "done"
  /\ IF write.session # session
     THEN UNCHANGED <<pumpVars, strand>>
     ELSE /\ Pump!OnComplete("io", write.ok)
          /\ strand' = IF pc'["io"] = "transmit" THEN "onSend" ELSE "free"
  /\ write' = NoWrite
  /\ StopsIf(read, "none", strand')
  /\ UNCHANGED <<linkVars, mined>>

\* onSend: the pump is told; its next frame, if any, is transmitted in the same
\* handler.
OnSend ==
  /\ strand = "free" /\ ~stopped
  /\ write.stage = "done"
  /\ Pump!OnComplete("io", write.ok)
  /\ write' = NoWrite
  /\ strand' = IF pc'["io"] = "transmit" THEN "onSend" ELSE "free"
  /\ StopsIf(read, "none", strand')
  /\ UNCHANGED <<linkVars, mined>>

\* dispatch() on the strand starts the write at once.
HandlerTransmit ==
  /\ strand \in {"onSend", "reread"}
  /\ Pump!Transmit("io")
  /\ write' = [stage |-> "writing", session |-> session, ok |-> FALSE]
  /\ strand' = IF strand = "onSend" THEN "free" ELSE strand
  /\ UNCHANGED <<linkVars, stopped, mined>>

-----------------------------------------------------------------------------
(***************************************************************************)
(* Receiving: onReceiveAsync, retryConnect, disconnect.                    *)
(***************************************************************************)

\* The peer or the path goes away.
LoseLink ==
  /\ link = "up"
  /\ session < MaxSessions
  /\ link' = "lost"
  /\ UNCHANGED <<pumpVars, session, read, countRetryConnect, attempts, fatal,
                 setVars, write, strand, stopped, mined>>

\* A line was received: it is handled and the next read is armed.
Receive ==
  /\ strand = "free" /\ ~stopped
  /\ read = "armed"
  /\ link = "up"
  /\ UNCHANGED vars

\* Mutant: the write is left pending on the socket.
AbortedNothing == write

\* The first line of a session is the answer to its subscribe.
AnswerArrives ==
  /\ strand = "free" /\ ~stopped
  /\ read = "armed"
  /\ link = "up" /\ mined = session
  /\ answer = "due"
  /\ answer' = "taken"
  /\ UNCHANGED <<config, step, peer>>

\* It is answered with an authorize from the handler, which arms the read
\* afterwards.
ReceiveAnswer ==
  /\ AnswerArrives
  /\ ~residue
  /\ MayQueue
  /\ Pump!Enqueue("io", Authorize)
  /\ read' = "none"
  /\ strand' = "reread"
  /\ UNCHANGED <<session, link, countRetryConnect, attempts, fatal, residue,
                 write, stopped, mined>>

\* Behind the rest of the proxy's reply it is no JSON line and is logged away.
ReceiveGarbled ==
  /\ AnswerArrives
  /\ residue
  /\ residue' = FALSE
  /\ UNCHANGED <<pumpVars, session, link, read, countRetryConnect, attempts, fatal,
                 write, strand, stopped, mined>>

\* disconnect() closes the socket, which aborts the write it carries.
Aborted == IF write.stage = "writing"
           THEN [write EXCEPT !.stage = "done", !.ok = FALSE]
           ELSE write

\* retryConnect: another connect() after a while, or the end.
RetryOrGiveUp ==
  IF countRetryConnect' > MaxRetry
  THEN strand' = "free" /\ step' = "none"
  ELSE strand' = "retry" /\ step' = "context"

\* eof, connection_aborted, connection_reset, connection_refused: retryConnect.
ReadFails ==
  /\ strand = "free" /\ ~stopped
  /\ read = "armed" /\ link = "lost"
  /\ read' = "none"
  /\ countRetryConnect' = countRetryConnect + 1
  /\ link' = "closed"
  /\ write' = Aborted
  /\ attempts' = 0
  /\ RetryOrGiveUp
  /\ StopsIf("none", write'.stage, strand')
  /\ UNCHANGED <<pumpVars, session, fatal, mined, config, peer, residue, answer>>

\* Any other error disconnects for good: a line that is too long, or a TLS stream
\* that ends without its closing message.
ReadFailsForGood ==
  /\ strand = "free" /\ ~stopped
  /\ read = "armed" /\ link = "lost"
  /\ read' = "none"
  /\ link' = "closed"
  /\ fatal' = TRUE
  /\ write' = Aborted
  /\ StopsIf("none", write'.stage, strand)
  /\ UNCHANGED <<pumpVars, session, countRetryConnect, attempts, setVars, strand, mined>>

\* connect() fails: retryConnect calls itself until the retries are used up.
ConnectFails ==
  /\ strand = "retry" /\ MayFail
  /\ attempts' = attempts + 1
  /\ countRetryConnect' = countRetryConnect + 1
  /\ RetryOrGiveUp
  /\ StopsIf("none", write.stage, strand')
  /\ UNCHANGED <<pumpVars, session, link, read, fatal, write, mined, config, peer, residue, answer>>

Connect ==
  /\ strand = "retry"
  /\ Established
  /\ strand' = "subscribe"
  /\ UNCHANGED <<pumpVars, write, stopped>>

\* onConnect sends the subscribe of the new session ...
SendSubscribe ==
  /\ strand = "subscribe"
  /\ Pump!Enqueue("io", Subscribe)
  /\ strand' = "reread"
  /\ UNCHANGED <<linkVars, write, stopped, mined>>

\* Mutant: the read of the new socket is forgotten.
ArmReadForgotten ==
  /\ strand = "reread"
  /\ pc["io"] = "out"
  /\ strand' = "free"
  /\ StopsIf("none", write.stage, "free")
  /\ UNCHANGED <<pumpVars, linkVars, write, mined>>

\* ... and asyncReceive arms the read of the new socket.
ArmRead ==
  /\ strand = "reread"
  /\ pc["io"] = "out"
  /\ read' = "armed"
  /\ strand' = "free"
  /\ UNCHANGED <<pumpVars, session, link, countRetryConnect, attempts, fatal,
                 setVars, write, stopped, mined>>

-----------------------------------------------------------------------------
Init ==
  /\ queue = <<>>
  /\ writeInFlight = FALSE
  /\ pc = [t \in Threads |-> "out"]
  /\ payload = [t \in Threads |-> [kind |-> "share", session |-> 1]]
  /\ handed = <<>>
  /\ session = 0
  /\ link = "none"
  /\ read = "none"
  /\ write = NoWrite
  /\ strand = "boot"
  /\ stopped = FALSE
  /\ countRetryConnect = 0
  /\ attempts = 0
  /\ fatal = FALSE
  /\ mined = 0
  /\ config \in Configurations
  /\ step = "context"
  /\ peer = Nobody
  /\ residue = FALSE
  /\ answer = "taken"

Handler ==
  \/ StartWrite \/ OnSend \/ HandlerTransmit
  \/ (strand = "retry" /\ SetUp)
  \/ ReadFails \/ ReadFailsForGood
  \/ ConnectFails \/ Connect \/ SendSubscribe \/ ArmRead

Main ==
  \/ (strand = "boot" /\ SetUp)
  \/ Boot \/ BootSubscribe \/ BootTransmit \/ BootRead

\* Main quits, or every thread of the client is done.
Over ==
  /\ stopped \/ strand = "quit"
  /\ UNCHANGED vars

Next ==
  \/ BootFails \/ Main \/ Handler \/ LoseLink \/ Receive \/ ReceiveAnswer
  \/ ReceiveGarbled
  \/ \E ok \in BOOLEAN : EndWrite(ok)
  \/ \E d \in Devices : SendShare(d) \/ DeviceTransmit(d)
  \/ Over

\* Handlers that are due run, writes end, a thread between the pump's mutex and
\* transmit goes on; a link need not fail, nor a connection succeed.  The strand
\* serves its handlers in turn: none is passed over for ever.
Fairness ==
  /\ WF_vars(Main)
  /\ WF_vars(Handler)
  /\ SF_vars(StartWrite)
  /\ SF_vars(OnSend)
  /\ SF_vars(ReadFails \/ ReadFailsForGood)
  /\ WF_vars(\E ok \in BOOLEAN : EndWrite(ok))
  /\ \A d \in Devices : WF_vars(DeviceTransmit(d))

Spec == Init /\ [][Next]_vars
FairSpec == Spec /\ Fairness

-----------------------------------------------------------------------------
TypeOK ==
  /\ queue \in Seq(Frames)
  /\ writeInFlight \in BOOLEAN
  /\ pc \in [Threads -> {"out", "transmit"}]
  /\ payload \in [Threads -> Frames]
  /\ handed \in Seq(Frames)
  /\ session \in 0..MaxSessions
  /\ link \in {"none", "up", "lost", "closed"}
  /\ read \in {"none", "armed"}
  /\ write \in [stage : WriteStages, session : 0..MaxSessions, ok : BOOLEAN]
  /\ strand \in StrandPcs
  /\ stopped \in BOOLEAN
  /\ countRetryConnect \in 0..(MaxRetry + 1)
  /\ attempts \in 0..MaxRetry
  /\ fatal \in BOOLEAN
  /\ mined \in 0..MaxSessions
  /\ config \in Configurations
  /\ step \in {"none", "context", "resolve", "connect", "greeting", "request",
              "options", "handshake", "up"}
  /\ peer \in [at : {"none", "proxy", "pool"}, cert : Certificates]
  /\ residue \in BOOLEAN
  /\ answer \in {"due", "taken"}

\* Every frame handed to transmit owes the pump exactly one completion, across
\* reconnections, aborted writes and writes posted while the strand was busy.
OneCompletionOwed == handed = <<>> <=> write.stage = "none"

\* connect() deletes the old socket: no write may be pending on it by then, and
\* a write under way is on the current socket.
NoWriteOnDeletedSocket ==
  write.stage = "writing" =>
    /\ write.session = session
    /\ strand \notin {"retry", "subscribe"}

\* What is written goes where the configuration says: no frame, of whichever
\* thread and session, starts on a socket that is not set up, or that a
\* reconnection set up with less than the first connection had.
WritesReachThePool ==
  (write.stage = "writing" /\ link = "up") =>
    /\ step = "none"
    /\ peer.at = "pool"
    /\ config.tls => peer.cert = Trusted

\* With TLS the end of a write is an intermediate handler that still uses the
\* stream: none may wait for the strand when connect() deletes it.  An aborted
\* write does: this does not hold.
HandlerFindsItsStream ==
  (config.tls /\ strand = "retry" /\ step # "context") => write.stage # "done"

\* A connection that is not closed always has its read pending, so the loss of
\* the link is noticed.
LossIsNoticed ==
  (strand = "free" /\ link \in {"up", "lost"}) => read = "armed"

\* The client gives an outage up only after MAX_RETRY_COUNT attempts of its own,
\* whatever earlier outages took.
GivesUpLate ==
  (strand = "free" /\ link = "closed" /\ ~fatal) => attempts = MaxRetry

\* A lost link is replaced, or given up after the last attempt.
Reconnects == link = "lost" ~> (link = "up" \/ attempts = MaxRetry \/ fatal)

\* While handlers run the pump is not left waiting for a completion, so the
\* frames queued behind it move on.
CompletionArrives == handed # <<>> ~> (handed = <<>> \/ stopped)

\* The pump of the client is a serial writer across all its sessions: a frame is
\* handed to one socket at a time, in the order it was accepted.
ImplementsSerialWriter == Pump!ImplementsSerialWriter

\* write_pump.hpp: a failed write drops the queued payloads because the
\* connection they belong to goes down.  It drops the subscribe of the new
\* connection when the write was aborted by the reconnection: this does not hold.
DropsOnlyStale ==
  [][(OnSend /\ ~write.ok /\ link = "up")
       => \A i \in 2..Len(queue) : queue[i].session # session]_vars
=============================================================================
