--------------------------- MODULE NetworkProofs ---------------------------
(***************************************************************************)
(* The connection of a stratum (NetworkTCPClient) and the session it has   *)
(* over it (Stratum, which derives from it).                               *)
(*                                                                         *)
(* The client and its pump, for any number of devices and of retries: each *)
(* frame handed to a socket is completed once, whatever reconnects in the  *)
(* meantime; nothing is written to a deleted socket nor to a peer that was *)
(* not set up in full; an outage is not given up early; and the pump stays *)
(* a serial writer across all sessions.                                    *)
(*                                                                         *)
(* The session, for any devices, jobs, extranonces, targets and dialects:  *)
(* its types, and that the work it hands out is whole.                     *)
(***************************************************************************)
EXTENDS TCPClient, StratumSession, SequenceTheorems, TLAPS

-----------------------------------------------------------------------------
(***************************************************************************)
(* The pump, with any threads, and any bound on its queue, and the frames of *)
(* the client for payloads.                                                *)
(***************************************************************************)
\* The facts about sequences the pump relies on.
LEMMA AppendEmpty ==
  ASSUME NEW S, NEW e \in S
  PROVE  Append(<<>>, e) = <<e>>
  OBVIOUS

LEMMA TailOfOne ==
  ASSUME NEW S, NEW s \in Seq(S), Len(s) <= 1, s # <<>>
  PROVE  Tail(s) = <<>> /\ s = <<s[1]>>
  <1>1. Len(s) = 1
    <2>1. PICK n \in Nat : n = Len(s)
      OBVIOUS
    <2>2. n # 0 /\ n <= 1
      BY <2>1, EmptySeq
    <2>3. n = 1
      BY <2>2
    <2>4. QED
      BY <2>1, <2>3
  <1>2. Tail(s) \in Seq(S) /\ Len(Tail(s)) = 0
    BY <1>1, HeadTailProperties
  <1>3. Tail(s) = <<>>
    BY <1>2, EmptySeq
  <1>4. s = <<s[1]>>
    BY <1>1
  <1>5. QED
    BY <1>3, <1>4

LEMMA AppendHeadTail ==
  ASSUME NEW S, NEW s \in Seq(S), s # <<>>, NEW e \in S
  PROVE  /\ Head(Append(s, e)) = Head(s)
         /\ Tail(Append(s, e)) = Append(Tail(s), e)
  OBVIOUS

\* Inductive: the type invariant and the four parts that carry each other.
PumpInv ==
  /\ Pump!TypeOK
  /\ Pump!AtMostOneInFlight
  /\ Pump!IdleIffEmpty
  /\ Pump!InFlightHasOwner
  /\ Pump!InFlightIsHead

LEMMA InitPump == Pump!Init => PumpInv
  <1> SUFFICES ASSUME Pump!Init PROVE PumpInv
    OBVIOUS
  <1> USE DEF Pump!Init
  <1>1. Pump!TypeOK
    <2>1. queue \in Seq(Frames) /\ handed \in Seq(Frames)
      BY EmptySeq
    <2>2. pc \in [Threads -> {"out", "transmit"}]
      OBVIOUS
    <2>3. QED
      BY <2>1, <2>2 DEF Pump!TypeOK
  <1>2. Pump!AtMostOneInFlight
    BY DEF Pump!AtMostOneInFlight
  <1>3. Pump!IdleIffEmpty
    BY DEF Pump!IdleIffEmpty
  <1>4. Pump!InFlightHasOwner
    BY DEF Pump!InFlightHasOwner
  <1>5. Pump!InFlightIsHead
    BY DEF Pump!InFlightIsHead
  <1>6. QED
    BY <1>1, <1>2, <1>3, <1>4, <1>5 DEF PumpInv

\* The queue never leaves its type.
LEMMA AfterCompleteType ==
  ASSUME Pump!TypeOK, NEW success \in BOOLEAN
  PROVE  Pump!AfterComplete(success) \in Seq(Frames)
  BY EmptySeq, HeadTailProperties DEF Pump!TypeOK, Pump!AfterComplete, Pump!Popped

LEMMA EnqueuePump ==
  ASSUME PumpInv, NEW t \in Threads, NEW p \in Frames, Pump!Enqueue(t, p)
  PROVE  PumpInv'
  <1> USE DEF Pump!Enqueue
  <1>q. /\ queue \in Seq(Frames)
        /\ queue' \in Seq(Frames)
        /\ queue' # <<>>
        /\ handed' = handed
        /\ handed \in Seq(Frames)
        /\ Head(queue') \in Frames
        /\ pc \in [Threads -> {"out", "transmit"}]
    BY AppendProperties, HeadTailProperties DEF PumpInv, Pump!TypeOK
  <1>1. CASE writeInFlight
    <2>1. queue # <<>> /\ Head(queue') = Head(queue)
      BY <1>1, AppendHeadTail, <1>q DEF PumpInv, Pump!IdleIffEmpty
    <2>2. UNCHANGED <<writeInFlight, pc, payload, handed>>
      BY <1>1
    <2>3. QED
      BY <1>1, <1>q, <2>1, <2>2
      DEF PumpInv, Pump!TypeOK, Pump!AtMostOneInFlight, Pump!IdleIffEmpty,
          Pump!InFlightHasOwner, Pump!InFlightIsHead
  <1>2. CASE ~writeInFlight
    <2>1. queue = <<>>
      BY <1>2 DEF PumpInv, Pump!IdleIffEmpty
    <2>2. handed = <<>> /\ \A u \in Threads : pc[u] # "transmit"
      BY <2>1 DEF PumpInv, Pump!InFlightIsHead
    <2>3. /\ writeInFlight' = TRUE
          /\ pc' = [pc EXCEPT ![t] = "transmit"]
          /\ payload' = [payload EXCEPT ![t] = Head(queue')]
      BY <1>2
    <2>4. Pump!TypeOK'
      BY <1>q, <2>3 DEF PumpInv, Pump!TypeOK
    <2>5. Pump!AtMostOneInFlight'
      BY <1>q, <2>2, <2>3, EmptySeq DEF Pump!AtMostOneInFlight
    <2>6. Pump!IdleIffEmpty' /\ Pump!InFlightHasOwner'
      BY <1>q, <2>3 DEF Pump!IdleIffEmpty, Pump!InFlightHasOwner
    <2>7. Pump!InFlightIsHead'
      BY <1>q, <2>2, <2>3 DEF PumpInv, Pump!TypeOK, Pump!InFlightIsHead
    <2>8. QED
      BY <2>4, <2>5, <2>6, <2>7 DEF PumpInv
  <1>3. QED
    BY <1>1, <1>2

LEMMA TransmitPump ==
  ASSUME PumpInv, NEW t \in Threads, Pump!Transmit(t)
  PROVE  PumpInv'
  <1> USE DEF Pump!Transmit
  <1>1. /\ pc[t] = "transmit" /\ handed = <<>> /\ payload[t] \in Frames
        /\ queue # <<>> /\ payload[t] = Head(queue)
        /\ \A u \in Threads : pc[u] = "transmit" => u = t
    BY DEF PumpInv, Pump!TypeOK, Pump!AtMostOneInFlight, Pump!InFlightIsHead
  <1>2. handed' = <<payload[t]>> /\ UNCHANGED <<queue, writeInFlight, payload>>
    BY <1>1, AppendEmpty
  <1>3. \A u \in Threads : pc'[u] = "out"
    BY <1>1 DEF PumpInv, Pump!TypeOK
  <1>4. handed' \in Seq(Frames) /\ Len(handed') = 1 /\ handed'[1] = Head(queue)
    BY <1>1, <1>2
  <1>5. Pump!TypeOK'
    BY <1>2, <1>4 DEF PumpInv, Pump!TypeOK
  <1>6. Pump!AtMostOneInFlight' /\ Pump!InFlightIsHead'
    BY <1>1, <1>2, <1>3, <1>4 DEF Pump!AtMostOneInFlight, Pump!InFlightIsHead
  <1>7. Pump!IdleIffEmpty' /\ Pump!InFlightHasOwner'
    BY <1>2, <1>4, EmptySeq DEF PumpInv, Pump!IdleIffEmpty, Pump!InFlightHasOwner
  <1>8. QED
    BY <1>5, <1>6, <1>7 DEF PumpInv

LEMMA OnCompletePump ==
  ASSUME PumpInv, NEW t \in Threads, NEW success \in BOOLEAN, Pump!OnComplete(t, success)
  PROVE  PumpInv'
  <1> USE DEF Pump!OnComplete
  <1>1. /\ handed # <<>> /\ handed \in Seq(Frames) /\ Len(handed) <= 1
        /\ queue # <<>> /\ writeInFlight
        /\ \A u \in Threads : pc[u] # "transmit"
    BY DEF PumpInv, Pump!TypeOK, Pump!AtMostOneInFlight, Pump!InFlightIsHead, Pump!IdleIffEmpty
  <1>2. handed' = <<>>
    BY <1>1, TailOfOne
  <1>3. queue' \in Seq(Frames)
    BY AfterCompleteType DEF PumpInv
  <1>4. CASE queue' = <<>>
    <2>1. writeInFlight' = FALSE /\ UNCHANGED <<pc, payload>>
      BY <1>4
    <2>2. Pump!TypeOK'
      BY <1>2, <1>3, <2>1, EmptySeq DEF PumpInv, Pump!TypeOK
    <2>3. Pump!AtMostOneInFlight'
      BY <1>1, <1>2, <2>1, EmptySeq DEF Pump!AtMostOneInFlight
    <2>4. Pump!IdleIffEmpty' /\ Pump!InFlightHasOwner'
      BY <1>4, <2>1 DEF Pump!IdleIffEmpty, Pump!InFlightHasOwner
    <2>5. Pump!InFlightIsHead'
      BY <1>1, <1>2, <2>1 DEF Pump!InFlightIsHead
    <2>6. QED
      BY <2>2, <2>3, <2>4, <2>5 DEF PumpInv
  <1>5. CASE queue' # <<>>
    <2>1. /\ pc' = [pc EXCEPT ![t] = "transmit"]
          /\ payload' = [payload EXCEPT ![t] = Head(queue')]
          /\ UNCHANGED writeInFlight
      BY <1>5
    <2>2. Head(queue') \in Frames
      BY <1>3, <1>5, HeadTailProperties
    <2>3. Pump!TypeOK'
      BY <1>2, <1>3, <2>1, <2>2, EmptySeq DEF PumpInv, Pump!TypeOK
    <2>4. Pump!AtMostOneInFlight' /\ Pump!IdleIffEmpty' /\ Pump!InFlightHasOwner'
      BY <1>1, <1>2, <1>5, <2>1, EmptySeq
      DEF PumpInv, Pump!TypeOK, Pump!AtMostOneInFlight, Pump!IdleIffEmpty, Pump!InFlightHasOwner
    <2>5. Pump!InFlightIsHead'
      BY <1>1, <1>2, <1>5, <2>1 DEF PumpInv, Pump!TypeOK, Pump!InFlightIsHead
    <2>6. QED
      BY <2>3, <2>4, <2>5 DEF PumpInv
  <1>6. QED
    BY <1>4, <1>5

LEMMA NextPump == PumpInv /\ [Pump!Next]_(Pump!vars) => PumpInv'
  <1> SUFFICES ASSUME PumpInv, [Pump!Next]_(Pump!vars) PROVE PumpInv'
    OBVIOUS
  <1>1. ASSUME NEW t \in Threads, NEW p \in Frames, Pump!Enqueue(t, p) PROVE PumpInv'
    BY <1>1, EnqueuePump
  <1>2. ASSUME NEW t \in Threads, Pump!Transmit(t) PROVE PumpInv'
    BY <1>2, TransmitPump
  <1>3. ASSUME NEW t \in Threads, NEW success \in BOOLEAN, Pump!OnComplete(t, success)
        PROVE PumpInv'
    BY <1>3, OnCompletePump
  <1>4. CASE UNCHANGED Pump!vars
    BY <1>4 DEF Pump!vars, PumpInv, Pump!TypeOK, Pump!AtMostOneInFlight, Pump!IdleIffEmpty,
                Pump!InFlightHasOwner, Pump!InFlightIsHead
  <1>5. QED
    BY <1>1, <1>2, <1>3, <1>4 DEF Pump!Next

THEOREM PumpInvariance == Pump!Spec => []PumpInv
  BY InitPump, NextPump, PTL DEF Pump!Spec

\* At most one payload is in flight, whatever threads send and complete.
THEOREM OneInFlight == Pump!Spec => []Pump!AtMostOneInFlight
  <1>1. PumpInv => Pump!AtMostOneInFlight
    BY DEF PumpInv
  <1>2. QED
    BY <1>1, PumpInvariance, PTL

\* A queued payload always has somebody who will transmit or complete it: the
\* pump cannot go quiet with a full queue.
THEOREM NeverQuietWithWork ==
  Pump!Spec => [](queue # <<>> => (handed # <<>> \/ \E t \in Threads : pc[t] = "transmit"))
  <1>1. PumpInv => (queue # <<>> => (handed # <<>> \/ \E t \in Threads : pc[t] = "transmit"))
    BY DEF PumpInv, Pump!IdleIffEmpty, Pump!InFlightHasOwner
  <1>2. QED
    BY <1>1, PumpInvariance, PTL

LEMMA InitPumpRefines == Pump!Init => Pump!SW!Init
  BY DEF Pump!Init, Pump!SW!Init, Pump!Waiting

LEMMA PumpStepRefines == PumpInv /\ [Pump!Next]_(Pump!vars) => [Pump!SW!Next]_(Pump!SW!vars)
  <1> SUFFICES ASSUME PumpInv, [Pump!Next]_(Pump!vars) PROVE [Pump!SW!Next]_(Pump!SW!vars)
    OBVIOUS
  <1>t. queue \in Seq(Frames) /\ handed \in Seq(Frames)
    BY DEF PumpInv, Pump!TypeOK
  <1>1. ASSUME NEW t \in Threads, NEW p \in Frames, Pump!Enqueue(t, p)
        PROVE Pump!SW!Accept(p)
    <2>1. queue' = Append(queue, p) /\ handed' = handed
      BY <1>1 DEF Pump!Enqueue
    <2>2. handed # <<>> => queue # <<>>
      BY DEF PumpInv, Pump!InFlightIsHead
    <2>3. Pump!Waiting' = Append(Pump!Waiting, p)
      BY <1>t, <2>1, <2>2, AppendHeadTail DEF Pump!Waiting
    <2>4. QED
      BY <2>1, <2>3 DEF Pump!SW!Accept
  <1>2. ASSUME NEW t \in Threads, Pump!Transmit(t)
        PROVE Pump!SW!Begin
    <2>1. /\ handed = <<>> /\ queue # <<>> /\ payload[t] = Head(queue)
          /\ payload[t] \in Frames
      BY <1>2 DEF Pump!Transmit, PumpInv, Pump!TypeOK, Pump!AtMostOneInFlight,
                  Pump!InFlightIsHead
    <2>2. handed' = <<Head(queue)>> /\ queue' = queue
      BY <1>2, <2>1, AppendEmpty DEF Pump!Transmit
    <2>3. QED
      BY <2>1, <2>2 DEF Pump!SW!Begin, Pump!Waiting
  <1>3. ASSUME NEW t \in Threads, NEW success \in BOOLEAN, Pump!OnComplete(t, success)
        PROVE Pump!SW!Succeed \/ Pump!SW!Fail
    <2>1. handed # <<>> /\ handed' = <<>> /\ queue # <<>>
      BY <1>3, <1>t, TailOfOne DEF Pump!OnComplete, PumpInv, Pump!AtMostOneInFlight,
                                   Pump!InFlightIsHead
    <2>2. queue' = IF success THEN Tail(queue) ELSE <<>>
      BY <1>3, <2>1 DEF Pump!OnComplete, Pump!AfterComplete, Pump!Popped
    <2>3. QED
      BY <2>1, <2>2 DEF Pump!SW!Succeed, Pump!SW!Fail, Pump!Waiting
  <1>4. CASE UNCHANGED Pump!vars
    BY <1>4 DEF Pump!vars, Pump!SW!vars, Pump!Waiting
  <1>5. QED
    BY <1>1, <1>2, <1>3, <1>4 DEF Pump!Next, Pump!SW!Next

\* The pump implements the serial FIFO writer its header promises.
THEOREM PumpImplementsSerialWriter == Pump!Spec => Pump!ImplementsSerialWriter
  <1>1. QED
    BY InitPumpRefines, PumpStepRefines, PumpInvariance, PTL DEF Pump!Spec, Pump!SW!Spec,
      Pump!ImplementsSerialWriter

-----------------------------------------------------------------------------
(***************************************************************************)
(* The pump inside the client: a step of the client is a step of the pump  *)
(* or leaves it alone.                                                     *)
(***************************************************************************)

LEMMA EnqueueSteps ==
  ASSUME PumpInv, NEW t \in Threads, NEW p \in Frames, Pump!Enqueue(t, p)
  PROVE  [Pump!Next]_(Pump!vars) /\ handed' = handed
<1> QED
  BY DEF Pump!Next, Pump!Enqueue

LEMMA TransmitSteps ==
  ASSUME PumpInv, NEW t \in Threads, Pump!Transmit(t)
  PROVE  [Pump!Next]_(Pump!vars) /\ handed = <<>> /\ handed' # <<>>
<1>1. handed = <<>>
  BY DEF PumpInv, Pump!AtMostOneInFlight, Pump!Transmit
<1>2. handed' = <<payload[t]>>
  <2>1. payload[t] \in Frames
    BY DEF PumpInv, Pump!TypeOK
  <2> QED
    BY <1>1, <2>1, AppendEmpty DEF Pump!Transmit
<1> QED
  BY <1>1, <1>2 DEF Pump!Next

LEMMA CompleteSteps ==
  ASSUME PumpInv, NEW t \in Threads, NEW success \in BOOLEAN, Pump!OnComplete(t, success)
  PROVE  [Pump!Next]_(Pump!vars) /\ handed # <<>> /\ handed' = <<>>
<1>1. handed \in Seq(Frames) /\ Len(handed) <= 1 /\ handed # <<>> /\ handed' = Tail(handed)
  BY DEF PumpInv, Pump!TypeOK, Pump!AtMostOneInFlight, Pump!OnComplete
<1>2. handed' = <<>>
  BY <1>1, TailOfOne
<1> QED
  BY <1>1, <1>2 DEF Pump!Next

-----------------------------------------------------------------------------
(***************************************************************************)
(* The inductive invariant.                                                *)
(***************************************************************************)

\* The types of what is not the pump's.
ClientOK ==
  /\ session \in 0..MaxSessions
  /\ link \in {"none", "up", "lost", "closed"}
  /\ read \in {"none", "armed"}
  /\ write \in [stage : WriteStages, session : 0..MaxSessions, ok : BOOLEAN]
  /\ strand \in StrandPcs
  /\ stopped \in BOOLEAN
  /\ countRetryConnect \in 0..(MaxRetry + 1)
  /\ attempts \in 0..MaxRetry
  /\ fatal \in BOOLEAN
  /\ mined \in 0..MaxSessions
  /\ config \in Configurations
  /\ step \in {"none", "context", "resolve", "connect", "greeting", "request",
              "options", "handshake", "up"}
  /\ peer \in [at : {"none", "proxy", "pool"}, cert : Certificates]
  /\ residue \in BOOLEAN
  /\ answer \in {"due", "taken"}

\* Where the strand may be for each state of the link: a connection is set up in
\* place of none, or of one that was closed.
Places ==
  /\ link # "none" => session >= 1
  /\ strand = "boot" => link = "none"
  /\ strand \in {"bootSubscribe", "bootRead", "subscribe", "reread"} => link \in {"up", "lost"}
  /\ link \in {"up", "lost"} => countRetryConnect = 0 /\ step = "none"

\* connect() goes through its calls in order: what is up has reached the pool, and
\* with TLS has seen its certificate.
Ready == peer.at = "pool" /\ (config.tls => peer.cert = Trusted)
SetUpInOrder ==
  /\ step = "options" => peer.at \in {"none", "pool"}
  /\ step = "handshake" => peer.at = "pool"
  /\ step = "up" \/ link = "up" => Ready

\* The write under way is on the socket in use, and the strand is not in connect().
WriteOnSocket ==
  write.stage = "writing" => write.session = session /\ strand \in {"free", "onSend", "reread"}

\* Each attempt of an outage is counted, and one is left as long as it goes on.
RetriesCounted ==
  /\ strand = "retry" =>
       /\ link = "closed"
       /\ countRetryConnect = attempts + 1 /\ countRetryConnect <= MaxRetry
  /\ link = "closed" /\ strand \in {"free", "onSend"} /\ ~fatal => attempts = MaxRetry

Client ==
  /\ ClientOK
  /\ OneCompletionOwed
  /\ Places
  /\ SetUpInOrder
  /\ WriteOnSocket
  /\ RetriesCounted

ClientInv == PumpInv /\ Client

-----------------------------------------------------------------------------
(***************************************************************************)
(* connect().                                                              *)
(***************************************************************************)

\* A call of the set-up moves step, and no more than the peer and what is left of
\* the proxy's reply with it.
LEMMA SetUpMoves ==
  ASSUME ClientInv, NEW s, Then(s),
         s \in {"context", "resolve", "connect", "greeting", "request",
                "options", "handshake", "up"},
         strand \in {"boot", "retry"},
         peer' \in [at : {"none", "proxy", "pool"}, cert : Certificates], residue' \in BOOLEAN,
         s = "options" => peer'.at \in {"none", "pool"},
         s = "handshake" => peer'.at = "pool",
         s = "up" => Ready'
  PROVE  Client'
<1>1. /\ UNCHANGED <<handed, session, link, read, countRetryConnect, attempts, fatal,
                     config, answer, write, strand, stopped, mined>>
      /\ step' = s
  BY DEF Then, pumpVars
<1>2. link \in {"none", "closed"}
  BY DEF ClientInv, Client, ClientOK, Places, RetriesCounted
<1>3. ClientOK'
  BY <1>1 DEF ClientInv, Client, ClientOK
<1>4. OneCompletionOwed' /\ WriteOnSocket' /\ RetriesCounted'
  BY <1>1 DEF ClientInv, Client, OneCompletionOwed, WriteOnSocket, RetriesCounted
<1>5. Places'
  BY <1>1, <1>2 DEF ClientInv, Client, Places
<1>6. SetUpInOrder'
  BY <1>1, <1>2 DEF SetUpInOrder
<1> QED
  BY <1>3, <1>4, <1>5, <1>6 DEF Client

\* However the certificate is checked, the one that passes is trusted and names
\* the pool.
LEMMA VerifiedIsTrusted ==
  ASSUME ClientOK, NEW cert \in Certificates, Verified(cert)
  PROVE  cert = Trusted
<1>1. OnVerifySSL("leaf", cert)
  BY DEF Verified
<1>2. cert.chain = TRUE /\ cert.host = TRUE
  BY <1>1 DEF OnVerifySSL, VerifyChainWithWindows, Certificates
<1> QED
  BY <1>2 DEF Certificates, Trusted

LEMMA SetUpClient ==
  ASSUME ClientInv, strand \in {"boot", "retry"}, SetUp
  PROVE  Client'
<1>1. peer \in [at : {"none", "proxy", "pool"}, cert : Certificates] /\ residue \in BOOLEAN
  BY DEF ClientInv, Client, ClientOK
<1>2. CASE PrepareContext
  <2>1. peer' = Nobody /\ residue' = FALSE
    BY <1>2 DEF PrepareContext
  <2>2. Nobody.at = "none" /\ Nobody \in [at : {"none", "proxy", "pool"}, cert : Certificates]
    BY DEF Nobody, NoCertificate, Certificates
  <2>3. CASE config.socks = "nohost"
    BY <1>2, <2>1, <2>2, <2>3, SetUpMoves DEF PrepareContext
  <2>4. CASE config.socks # "nohost"
    BY <1>2, <2>1, <2>2, <2>4, SetUpMoves DEF PrepareContext
  <2> QED
    BY <2>3, <2>4
<1>3. CASE Resolve
  BY <1>1, <1>3, SetUpMoves DEF Resolve
<1>4. CASE ConnectSocket
  <2>1. /\ peer'.at \in {"pool", "proxy"} /\ residue' = residue
        /\ peer' \in [at : {"none", "proxy", "pool"}, cert : Certificates]
        /\ config.socks = "no" => peer'.at = "pool"
    BY <1>1, <1>4 DEF ConnectSocket
  <2>2. CASE config.socks = "no"
    BY <1>1, <1>4, <2>1, <2>2, SetUpMoves DEF ConnectSocket
  <2>3. CASE config.socks # "no"
    BY <1>1, <1>4, <2>1, <2>3, SetUpMoves DEF ConnectSocket
  <2> QED
    BY <2>2, <2>3
<1>5. CASE Greet
  BY <1>1, <1>5, SetUpMoves DEF Greet
<1>6. ASSUME NEW address \in {"ip", "domain"}, Relay(address) PROVE Client'
  <2>1. /\ peer'.at = "pool" /\ residue' \in BOOLEAN
        /\ peer' \in [at : {"none", "proxy", "pool"}, cert : Certificates]
    BY <1>1, <1>6 DEF Relay
  <2> QED
    BY <1>6, <2>1, SetUpMoves DEF Relay
<1>7. CASE SetOptions
  <2>1. peer.at = "pool" /\ peer' = peer /\ residue' = residue
    BY <1>1, <1>7 DEF SetOptions, Connecting, ClientInv, Client, SetUpInOrder
  <2>2. config' = config
    BY <1>7 DEF SetOptions, Then
  <2>3. CASE config.tls
    BY <1>1, <1>7, <2>1, <2>3, SetUpMoves DEF SetOptions, AfterOptions
  <2>4. CASE ~config.tls
    BY <1>1, <1>7, <2>1, <2>2, <2>4, SetUpMoves DEF SetOptions, AfterOptions, Ready
  <2> QED
    BY <2>3, <2>4
<1>8. ASSUME NEW cert \in Certificates, Handshake(cert) PROVE Client'
  <2>1. cert = Trusted
    BY <1>8, VerifiedIsTrusted DEF Handshake, ClientInv, Client
  <2>2. peer.at = "pool" /\ peer' = [peer EXCEPT !.cert = cert] /\ residue' = residue
    BY <1>8 DEF Handshake, Connecting, ClientInv, Client, SetUpInOrder
  <2>3. /\ peer'.at = "pool" /\ peer'.cert = Trusted
        /\ peer' \in [at : {"none", "proxy", "pool"}, cert : Certificates]
    BY <1>1, <2>1, <2>2
  <2> QED
    BY <1>1, <1>8, <2>2, <2>3, SetUpMoves DEF Handshake, Ready
<1> QED
  BY <1>2, <1>3, <1>4, <1>5, <1>6, <1>7, <1>8 DEF SetUp

\* The socket is up: main or the strand goes on to the subscribe.
LEMMA EstablishedClient ==
  ASSUME ClientInv, Established, strand \in {"boot", "retry"},
         UNCHANGED <<pumpVars, write, stopped>>,
         strand' \in {"bootSubscribe", "subscribe"}
  PROVE  Client'
<1>1. /\ step = "up" /\ session < MaxSessions /\ session' = session + 1
      /\ link' = "up" /\ step' = "none" /\ answer' = "due" /\ countRetryConnect' = 0
      /\ UNCHANGED <<read, attempts, fatal, mined, config, peer, residue, handed, write,
                     stopped>>
  BY DEF Established, pumpVars
<1>2. session \in 0..MaxSessions /\ MaxSessions \in Nat /\ MaxRetry \in Nat
  BY BoundsAssumption DEF ClientInv, Client, ClientOK
<1>3. ClientOK'
  BY <1>1, <1>2 DEF ClientInv, Client, ClientOK, StrandPcs
<1>4. OneCompletionOwed' /\ RetriesCounted'
  BY <1>1 DEF ClientInv, Client, OneCompletionOwed, RetriesCounted
<1>5. WriteOnSocket'
  BY <1>1 DEF ClientInv, Client, WriteOnSocket
<1>6. Places'
  BY <1>1, <1>2 DEF Places
<1>7. SetUpInOrder'
  BY <1>1 DEF ClientInv, Client, SetUpInOrder, Ready
<1> QED
  BY <1>3, <1>4, <1>5, <1>6, <1>7 DEF Client

\* connect() fails: another attempt, or the end.
LEMMA ConnectFailsClient ==
  ASSUME ClientInv, ConnectFails
  PROVE  Client'
<1>1. /\ strand = "retry" /\ attempts' = attempts + 1
      /\ countRetryConnect' = countRetryConnect + 1
      /\ UNCHANGED <<handed, session, link, read, fatal, write, mined,
                     config, peer, residue, answer>>
      /\ stopped' = (stopped \/ ("none" = "none" /\ write.stage = "none" /\ strand' = "free"))
  BY DEF ConnectFails, StopsIf, pumpVars
<1>2. /\ link = "closed" /\ countRetryConnect = attempts + 1 /\ countRetryConnect <= MaxRetry
      /\ attempts \in Nat /\ MaxRetry \in Nat
  BY <1>1, BoundsAssumption DEF ClientInv, Client, ClientOK, RetriesCounted
<1>3. write.stage # "writing"
  BY <1>1 DEF ClientInv, Client, WriteOnSocket
<1>4. OneCompletionOwed' /\ WriteOnSocket'
  BY <1>1, <1>3 DEF ClientInv, Client, OneCompletionOwed, WriteOnSocket
<1>5. attempts' \in 0..MaxRetry /\ countRetryConnect' \in 0..(MaxRetry + 1)
  BY <1>1, <1>2
<1>6. CASE countRetryConnect' > MaxRetry
  <2>1. strand' = "free" /\ step' = "none"
    BY <1>6 DEF ConnectFails, RetryOrGiveUp
  <2>2. attempts' = MaxRetry
    BY <1>1, <1>2, <1>6
  <2>3. ClientOK'
    BY <1>1, <1>5, <2>1 DEF ClientInv, Client, ClientOK, StrandPcs
  <2>4. Places' /\ SetUpInOrder' /\ RetriesCounted'
    BY <1>1, <1>2, <2>1, <2>2 DEF ClientInv, Client, Places, SetUpInOrder, RetriesCounted
  <2> QED
    BY <1>4, <2>3, <2>4 DEF Client
<1>7. CASE ~(countRetryConnect' > MaxRetry)
  <2>1. strand' = "retry" /\ step' = "context"
    BY <1>7 DEF ConnectFails, RetryOrGiveUp
  <2>2. countRetryConnect' = attempts' + 1 /\ countRetryConnect' <= MaxRetry
    BY <1>1, <1>2, <1>7
  <2>3. ClientOK'
    BY <1>1, <1>5, <2>1 DEF ClientInv, Client, ClientOK, StrandPcs
  <2>4. Places' /\ SetUpInOrder' /\ RetriesCounted'
    BY <1>1, <1>2, <2>1, <2>2 DEF ClientInv, Client, Places, SetUpInOrder, RetriesCounted
  <2> QED
    BY <1>4, <2>3, <2>4 DEF Client
<1> QED
  BY <1>6, <1>7

-----------------------------------------------------------------------------
(***************************************************************************)
(* The handlers of the link.                                               *)
(***************************************************************************)

\* The read fails on a lost link: the socket is closed, with the write it carries.
LEMMA AbortedWrite ==
  ASSUME ClientInv
  PROVE  /\ Aborted \in [stage : WriteStages, session : 0..MaxSessions, ok : BOOLEAN]
         /\ Aborted.stage # "writing"
         /\ Aborted.stage = "none" <=> write.stage = "none"
<1>1. write \in [stage : WriteStages, session : 0..MaxSessions, ok : BOOLEAN]
  BY DEF ClientInv, Client, ClientOK
<1> QED
  BY <1>1 DEF Aborted, WriteStages

LEMMA ReadFailsClient ==
  ASSUME ClientInv, ReadFails
  PROVE  Client'
<1>1. /\ strand = "free" /\ link = "lost" /\ read' = "none" /\ link' = "closed"
      /\ countRetryConnect' = countRetryConnect + 1 /\ write' = Aborted /\ attempts' = 0
      /\ UNCHANGED <<handed, session, fatal, mined, config, peer, residue, answer>>
      /\ stopped' \in BOOLEAN
  BY DEF ReadFails, StopsIf, pumpVars
<1>2. countRetryConnect = 0 /\ MaxRetry \in Nat /\ session >= 1
  BY <1>1, BoundsAssumption DEF ClientInv, Client, ClientOK, Places
<1>3. countRetryConnect' = 1
  BY <1>1, <1>2
<1>4. /\ write' \in [stage : WriteStages, session : 0..MaxSessions, ok : BOOLEAN]
      /\ write'.stage # "writing"
      /\ write'.stage = "none" <=> write.stage = "none"
  BY <1>1, AbortedWrite
<1>5. OneCompletionOwed' /\ WriteOnSocket'
  BY <1>1, <1>4 DEF ClientInv, Client, OneCompletionOwed, WriteOnSocket
<1>6. CASE countRetryConnect' > MaxRetry
  <2>1. strand' = "free" /\ step' = "none"
    BY <1>6 DEF ReadFails, RetryOrGiveUp
  <2>2. attempts' = MaxRetry
    BY <1>1, <1>2, <1>3, <1>6
  <2>3. ClientOK'
    BY <1>1, <1>2, <1>3, <1>4, <2>1 DEF ClientInv, Client, ClientOK, StrandPcs
  <2>4. Places' /\ SetUpInOrder' /\ RetriesCounted'
    BY <1>1, <1>2, <2>1, <2>2 DEF Places, SetUpInOrder, RetriesCounted
  <2> QED
    BY <1>5, <2>3, <2>4 DEF Client
<1>7. CASE ~(countRetryConnect' > MaxRetry)
  <2>1. strand' = "retry" /\ step' = "context"
    BY <1>7 DEF ReadFails, RetryOrGiveUp
  <2>2. countRetryConnect' = attempts' + 1 /\ countRetryConnect' <= MaxRetry
    BY <1>1, <1>2, <1>3, <1>7
  <2>3. ClientOK'
    BY <1>1, <1>2, <1>3, <1>4, <2>1 DEF ClientInv, Client, ClientOK, StrandPcs
  <2>4. Places' /\ SetUpInOrder' /\ RetriesCounted'
    BY <1>1, <1>2, <2>1, <2>2 DEF Places, SetUpInOrder, RetriesCounted
  <2> QED
    BY <1>5, <2>3, <2>4 DEF Client
<1> QED
  BY <1>6, <1>7

LEMMA ReadFailsForGoodClient ==
  ASSUME ClientInv, ReadFailsForGood
  PROVE  Client'
<1>1. /\ strand = "free" /\ link = "lost" /\ read' = "none" /\ link' = "closed"
      /\ fatal' = TRUE /\ write' = Aborted
      /\ UNCHANGED <<handed, session, countRetryConnect, attempts, setVars, strand, mined>>
      /\ stopped' \in BOOLEAN
  BY DEF ReadFailsForGood, StopsIf, pumpVars
<1>2. /\ write' \in [stage : WriteStages, session : 0..MaxSessions, ok : BOOLEAN]
      /\ write'.stage # "writing"
      /\ write'.stage = "none" <=> write.stage = "none"
  BY <1>1, AbortedWrite
<1>3. ClientOK'
  BY <1>1, <1>2 DEF ClientInv, Client, ClientOK, setVars
<1>4. OneCompletionOwed' /\ WriteOnSocket'
  BY <1>1, <1>2 DEF ClientInv, Client, OneCompletionOwed, WriteOnSocket
<1>5. Places' /\ RetriesCounted'
  BY <1>1 DEF ClientInv, Client, Places, RetriesCounted, setVars
<1>6. SetUpInOrder'
  BY <1>1 DEF ClientInv, Client, SetUpInOrder, Ready, setVars
<1> QED
  BY <1>3, <1>4, <1>5, <1>6 DEF Client

-----------------------------------------------------------------------------
(***************************************************************************)
(* The steps that leave the link and the outage alone: the strand goes to  *)
(* a place where the link may be as it is, and a write follows the rules.  *)
(***************************************************************************)

Onward ==
  \/ strand' = strand
  \/ strand \in {"free", "onSend"} /\ strand' \in {"free", "onSend"}
  \/ link \in {"up", "lost"} /\ strand' \in {"bootRead", "reread", "free"}
  \/ strand' = "quit"

LEMMA Moves ==
  ASSUME ClientInv, Onward,
         UNCHANGED <<session, link, countRetryConnect, attempts, fatal, config, step, peer>>,
         read' \in {"none", "armed"}, residue' \in BOOLEAN, answer' \in {"due", "taken"},
         stopped' \in BOOLEAN, mined' \in 0..MaxSessions, strand' \in StrandPcs,
         write' \in [stage : WriteStages, session : 0..MaxSessions, ok : BOOLEAN],
         handed' = <<>> <=> write'.stage = "none",
         write'.stage = "writing" =>
           write'.session = session /\ strand' \in {"free", "onSend", "reread"}
  PROVE  Client'
<1>1. ClientOK'
  BY DEF ClientInv, Client, ClientOK
<1>2. OneCompletionOwed' /\ WriteOnSocket'
  BY DEF OneCompletionOwed, WriteOnSocket
<1>3. Places'
  BY DEF ClientInv, Client, Places, Onward
<1>4. SetUpInOrder'
  BY DEF ClientInv, Client, SetUpInOrder, Ready
<1>5. RetriesCounted'
  BY DEF ClientInv, Client, RetriesCounted, Onward
<1> QED
  BY <1>1, <1>2, <1>3, <1>4, <1>5 DEF Client

\* The values that most steps keep.
LEMMA Kept ==
  ASSUME ClientInv
  PROVE  /\ read \in {"none", "armed"} /\ residue \in BOOLEAN /\ answer \in {"due", "taken"}
         /\ stopped \in BOOLEAN /\ mined \in 0..MaxSessions /\ session \in 0..MaxSessions
         /\ strand \in StrandPcs
         /\ write \in [stage : WriteStages, session : 0..MaxSessions, ok : BOOLEAN]
         /\ handed = <<>> <=> write.stage = "none"
         /\ write.stage = "writing" =>
              write.session = session /\ strand \in {"free", "onSend", "reread"}
         /\ "main" \in Threads /\ "io" \in Threads /\ Devices \subseteq Threads
         /\ 0 \in 0..MaxSessions
  BY BoundsAssumption DEF ClientInv, Client, ClientOK, OneCompletionOwed, WriteOnSocket,
       Threads

\* The frames of the client are frames of a session that was established.
LEMMA FrameTypes ==
  ASSUME ClientInv
  PROVE  /\ link # "none" => Subscribe \in Frames /\ Authorize \in Frames
         /\ mined > 0 => Share \in Frames
<1>1. /\ session \in 0..MaxSessions /\ mined \in 0..MaxSessions /\ MaxSessions \in Nat
      /\ link # "none" => session >= 1
  BY BoundsAssumption DEF ClientInv, Client, ClientOK, Places
<1>2. session >= 1 => session \in 1..MaxSessions
  BY <1>1
<1>3. mined > 0 => mined \in 1..MaxSessions
  BY <1>1
<1> QED
  BY <1>1, <1>2, <1>3 DEF Frames, Subscribe, Authorize, Share

Pumped == [Pump!Next]_(Pump!vars)

LEMMA PumpIdle == UNCHANGED pumpVars => Pumped /\ handed' = handed
  BY DEF pumpVars, Pumped, Pump!vars

\* main: the first connection.
LEMMA BootClient ==
  ASSUME ClientInv, BootFails \/ Main
  PROVE  Client' /\ Pumped
<1> USE Kept
<1>1. CASE BootFails
  <2>1. /\ strand = "boot" /\ strand' = "quit"
        /\ UNCHANGED <<pumpVars, linkVars, write, stopped, mined>>
    BY <1>1 DEF BootFails
  <2>2. Pumped /\ handed' = handed
    BY <2>1, PumpIdle
  <2>3. Client'
    BY <2>1, <2>2, Moves DEF Onward, linkVars, setVars, StrandPcs
  <2> QED
    BY <2>2, <2>3
<1>2. CASE strand = "boot" /\ SetUp
  <2>1. UNCHANGED pumpVars
    BY <1>2 DEF SetUp, PrepareContext, Resolve, ConnectSocket, Greet, SetOptions, Relay,
                Handshake, Then
  <2> QED
    BY <1>2, <2>1, PumpIdle, SetUpClient
<1>3. CASE Boot
  <2>1. UNCHANGED <<pumpVars, write, stopped>> /\ strand = "boot" /\ strand' = "bootSubscribe"
    BY <1>3 DEF Boot
  <2> QED
    BY <1>3, <2>1, PumpIdle, EstablishedClient DEF Boot
<1>4. CASE BootSubscribe
  <2>1. /\ strand = "bootSubscribe" /\ strand' = "bootRead" /\ Pump!Enqueue("main", Subscribe)
        /\ UNCHANGED <<linkVars, write, stopped, mined>>
    BY <1>4 DEF BootSubscribe
  <2>2. link \in {"up", "lost"} /\ Subscribe \in Frames
    BY <2>1, FrameTypes DEF ClientInv, Client, Places
  <2>3. Pumped /\ handed' = handed
    BY <2>1, <2>2, EnqueueSteps DEF Pumped, ClientInv
  <2>4. Client'
    BY <2>1, <2>2, <2>3, Moves DEF Onward, linkVars, setVars, StrandPcs
  <2> QED
    BY <2>3, <2>4
<1>5. CASE BootTransmit
  <2>1. /\ Pump!Transmit("main") /\ write' = [stage |-> "posted", session |-> 0, ok |-> FALSE]
        /\ UNCHANGED <<linkVars, strand, stopped, mined>>
    BY <1>5 DEF BootTransmit
  <2>2. Pumped /\ handed' # <<>>
    BY <2>1, TransmitSteps DEF Pumped, ClientInv
  <2>3. Client'
    BY <2>1, <2>2, Moves DEF Onward, linkVars, setVars, WriteStages
  <2> QED
    BY <2>2, <2>3
<1>6. CASE BootRead
  <2>1. /\ strand = "bootRead" /\ read' = "armed" /\ strand' = "free"
        /\ UNCHANGED <<pumpVars, session, link, countRetryConnect, attempts, fatal,
                       setVars, write, stopped, mined>>
    BY <1>6 DEF BootRead
  <2>2. link \in {"up", "lost"}
    BY <2>1 DEF ClientInv, Client, Places
  <2>3. Pumped /\ handed' = handed
    BY <2>1, PumpIdle
  <2>4. Client'
    BY <2>1, <2>2, <2>3, Moves DEF Onward, setVars, StrandPcs
  <2> QED
    BY <2>3, <2>4
<1> QED
  BY <1>1, <1>2, <1>3, <1>4, <1>5, <1>6 DEF Main

\* Writes: from the devices, the kernel and the strand.
LEMMA WriteClient ==
  ASSUME ClientInv,
         \/ StartWrite \/ OnSend \/ HandlerTransmit
         \/ \E ok \in BOOLEAN : EndWrite(ok)
         \/ \E d \in Devices : SendShare(d) \/ DeviceTransmit(d)
  PROVE  Client' /\ Pumped
<1> USE Kept
<1>1. ASSUME NEW d \in Devices, SendShare(d) PROVE Client' /\ Pumped
  <2>1. /\ mined > 0 /\ Pump!Enqueue(d, Share)
        /\ UNCHANGED <<linkVars, write, strand, stopped, mined>>
    BY <1>1 DEF SendShare
  <2>2. d \in Threads /\ Share \in Frames
    BY <2>1, FrameTypes
  <2>3. Pumped /\ handed' = handed
    BY <2>1, <2>2, EnqueueSteps DEF Pumped, ClientInv
  <2>4. Client'
    BY <2>1, <2>3, Moves DEF Onward, linkVars, setVars
  <2> QED
    BY <2>3, <2>4
<1>2. ASSUME NEW d \in Devices, DeviceTransmit(d) PROVE Client' /\ Pumped
  <2>1. /\ Pump!Transmit(d) /\ write' = [stage |-> "posted", session |-> 0, ok |-> FALSE]
        /\ UNCHANGED <<linkVars, strand, stopped, mined>>
    BY <1>2 DEF DeviceTransmit
  <2>2. Pumped /\ handed' # <<>>
    BY <2>1, TransmitSteps DEF Pumped, ClientInv
  <2>3. Client'
    BY <2>1, <2>2, Moves DEF Onward, linkVars, setVars, WriteStages
  <2> QED
    BY <2>2, <2>3
<1>3. CASE StartWrite
  <2>1. /\ strand = "free" /\ write.stage = "posted"
        /\ write' = [stage |-> "writing", session |-> session, ok |-> FALSE]
        /\ UNCHANGED <<pumpVars, linkVars, strand, stopped, mined>>
    BY <1>3 DEF StartWrite
  <2>2. Pumped /\ handed' = handed
    BY <2>1, PumpIdle
  <2>3. Client'
    BY <2>1, <2>2, Moves DEF Onward, linkVars, setVars, WriteStages
  <2> QED
    BY <2>2, <2>3
<1>4. ASSUME NEW ok \in BOOLEAN, EndWrite(ok) PROVE Client' /\ Pumped
  <2>1. /\ write.stage = "writing" /\ write' = [write EXCEPT !.stage = "done", !.ok = ok]
        /\ mined' \in {session, mined}
        /\ UNCHANGED <<pumpVars, linkVars, strand, stopped>>
    BY <1>4 DEF EndWrite
  <2>2. Pumped /\ handed' = handed
    BY <2>1, PumpIdle
  <2>3. /\ write' \in [stage : WriteStages, session : 0..MaxSessions, ok : BOOLEAN]
        /\ write'.stage = "done"
    BY <2>1 DEF WriteStages
  <2>4. Client'
    BY <2>1, <2>2, <2>3, Moves DEF Onward, linkVars, setVars
  <2> QED
    BY <2>2, <2>4
<1>5. CASE OnSend
  <2>1. /\ strand = "free" /\ write.stage = "done" /\ Pump!OnComplete("io", write.ok)
        /\ write' = NoWrite /\ strand' \in {"free", "onSend"}
        /\ stopped' \in BOOLEAN
        /\ UNCHANGED <<linkVars, mined>>
    BY <1>5 DEF OnSend, StopsIf
  <2>2. write.ok \in BOOLEAN
    OBVIOUS
  <2>3. Pumped /\ handed' = <<>>
    BY <2>1, <2>2, CompleteSteps DEF Pumped, ClientInv
  <2>4. Client'
    BY <2>1, <2>3, Moves DEF Onward, linkVars, setVars, NoWrite, WriteStages, StrandPcs
  <2> QED
    BY <2>3, <2>4
<1>6. CASE HandlerTransmit
  <2>1. /\ strand \in {"onSend", "reread"} /\ Pump!Transmit("io")
        /\ write' = [stage |-> "writing", session |-> session, ok |-> FALSE]
        /\ strand' = IF strand = "onSend" THEN "free" ELSE strand
        /\ UNCHANGED <<linkVars, stopped, mined>>
    BY <1>6 DEF HandlerTransmit
  <2>2. Pumped /\ handed' # <<>>
    BY <2>1, TransmitSteps DEF Pumped, ClientInv
  <2>3. Client'
    BY <2>1, <2>2, Moves DEF Onward, linkVars, setVars, WriteStages, StrandPcs
  <2> QED
    BY <2>2, <2>3
<1> QED
  BY <1>1, <1>2, <1>3, <1>4, <1>5, <1>6

\* The link and what arrives on it.
LEMMA LinkClient ==
  ASSUME ClientInv,
         \/ LoseLink \/ Receive \/ ReceiveAnswer \/ ReceiveGarbled
         \/ ReadFails \/ ReadFailsForGood \/ ArmRead
  PROVE  Client' /\ Pumped
<1> USE Kept
<1>1. CASE LoseLink
  <2>1. /\ link = "up" /\ link' = "lost"
        /\ UNCHANGED <<pumpVars, session, read, countRetryConnect, attempts, fatal,
                       setVars, write, strand, stopped, mined>>
    BY <1>1 DEF LoseLink
  <2>2. Pumped /\ handed' = handed
    BY <2>1, PumpIdle
  <2>3. ClientOK' /\ OneCompletionOwed' /\ WriteOnSocket'
    BY <2>1, <2>2 DEF ClientInv, Client, ClientOK, OneCompletionOwed, WriteOnSocket, setVars
  <2>4. Places' /\ SetUpInOrder' /\ RetriesCounted'
    BY <2>1 DEF ClientInv, Client, Places, SetUpInOrder, RetriesCounted, Ready, setVars
  <2> QED
    BY <2>2, <2>3, <2>4 DEF Client
<1>2. CASE Receive
  <2>1. UNCHANGED vars
    BY <1>2 DEF Receive
  <2>2. Pumped /\ handed' = handed
    BY <2>1, PumpIdle DEF vars
  <2>3. Client'
    BY <2>1, <2>2, Moves DEF Onward, vars, linkVars, setVars
  <2> QED
    BY <2>2, <2>3
<1>3. CASE ReceiveAnswer
  <2>1. /\ link = "up" /\ answer' = "taken" /\ read' = "none" /\ strand' = "reread"
        /\ Pump!Enqueue("io", Authorize)
        /\ UNCHANGED <<session, link, countRetryConnect, attempts, fatal, residue,
                       write, stopped, mined, config, step, peer>>
    BY <1>3 DEF ReceiveAnswer, AnswerArrives
  <2>2. Authorize \in Frames
    BY <2>1, FrameTypes
  <2>3. Pumped /\ handed' = handed
    BY <2>1, <2>2, EnqueueSteps DEF Pumped, ClientInv
  <2>4. Client'
    BY <2>1, <2>3, Moves DEF Onward, StrandPcs
  <2> QED
    BY <2>3, <2>4
<1>4. CASE ReceiveGarbled
  <2>1. /\ answer' = "taken" /\ residue' = FALSE
        /\ UNCHANGED <<pumpVars, session, link, read, countRetryConnect, attempts, fatal,
                       write, strand, stopped, mined, config, step, peer>>
    BY <1>4 DEF ReceiveGarbled, AnswerArrives
  <2>2. Pumped /\ handed' = handed
    BY <2>1, PumpIdle
  <2>3. Client'
    BY <2>1, <2>2, Moves DEF Onward
  <2> QED
    BY <2>2, <2>3
<1>5. CASE ReadFails
  <2>1. UNCHANGED pumpVars
    BY <1>5 DEF ReadFails
  <2> QED
    BY <1>5, <2>1, PumpIdle, ReadFailsClient
<1>6. CASE ReadFailsForGood
  <2>1. UNCHANGED pumpVars
    BY <1>6 DEF ReadFailsForGood
  <2> QED
    BY <1>6, <2>1, PumpIdle, ReadFailsForGoodClient
<1>7. CASE ArmRead
  <2>1. /\ strand = "reread" /\ read' = "armed" /\ strand' = "free"
        /\ UNCHANGED <<pumpVars, session, link, countRetryConnect, attempts, fatal,
                       setVars, write, stopped, mined>>
    BY <1>7 DEF ArmRead
  <2>2. link \in {"up", "lost"}
    BY <2>1 DEF ClientInv, Client, Places
  <2>3. Pumped /\ handed' = handed
    BY <2>1, PumpIdle
  <2>4. Client'
    BY <2>1, <2>2, <2>3, Moves DEF Onward, setVars, StrandPcs
  <2> QED
    BY <2>3, <2>4
<1> QED
  BY <1>1, <1>2, <1>3, <1>4, <1>5, <1>6, <1>7

\* A reconnection on the strand.
LEMMA RetryClient ==
  ASSUME ClientInv,
         \/ strand = "retry" /\ SetUp
         \/ ConnectFails \/ Connect \/ SendSubscribe
  PROVE  Client' /\ Pumped
<1> USE Kept
<1>1. CASE strand = "retry" /\ SetUp
  <2>1. UNCHANGED pumpVars
    BY <1>1 DEF SetUp, PrepareContext, Resolve, ConnectSocket, Greet, SetOptions, Relay,
                Handshake, Then
  <2> QED
    BY <1>1, <2>1, PumpIdle, SetUpClient
<1>2. CASE ConnectFails
  <2>1. UNCHANGED pumpVars
    BY <1>2 DEF ConnectFails
  <2> QED
    BY <1>2, <2>1, PumpIdle, ConnectFailsClient
<1>3. CASE Connect
  <2>1. UNCHANGED <<pumpVars, write, stopped>> /\ strand = "retry" /\ strand' = "subscribe"
    BY <1>3 DEF Connect
  <2> QED
    BY <1>3, <2>1, PumpIdle, EstablishedClient DEF Connect
<1>4. CASE SendSubscribe
  <2>1. /\ strand = "subscribe" /\ strand' = "reread" /\ Pump!Enqueue("io", Subscribe)
        /\ UNCHANGED <<linkVars, write, stopped, mined>>
    BY <1>4 DEF SendSubscribe
  <2>2. link \in {"up", "lost"} /\ Subscribe \in Frames
    BY <2>1, FrameTypes DEF ClientInv, Client, Places
  <2>3. Pumped /\ handed' = handed
    BY <2>1, <2>2, EnqueueSteps DEF Pumped, ClientInv
  <2>4. Client'
    BY <2>1, <2>2, <2>3, Moves DEF Onward, linkVars, setVars, StrandPcs
  <2> QED
    BY <2>3, <2>4
<1> QED
  BY <1>1, <1>2, <1>3, <1>4

LEMMA StutterClient ==
  ASSUME ClientInv, UNCHANGED vars
  PROVE  Client' /\ Pumped
<1>1. Pumped /\ handed' = handed
  BY PumpIdle DEF vars
<1> QED
  BY <1>1, Kept, Moves DEF Onward, vars, linkVars, setVars

LEMMA NextClient == ClientInv /\ [Next]_vars => ClientInv' /\ Pumped
<1> SUFFICES ASSUME ClientInv, [Next]_vars PROVE ClientInv' /\ Pumped
  OBVIOUS
<1>1. Client' /\ Pumped
  <2>1. CASE BootFails \/ Main
    BY <2>1, BootClient
  <2>2. CASE Handler
    BY <2>2, WriteClient, LinkClient, RetryClient DEF Handler
  <2>3. CASE LoseLink \/ Receive \/ ReceiveAnswer \/ ReceiveGarbled
    BY <2>3, LinkClient
  <2>4. CASE \E ok \in BOOLEAN : EndWrite(ok)
    BY <2>4, WriteClient
  <2>5. CASE \E d \in Devices : SendShare(d) \/ DeviceTransmit(d)
    BY <2>5, WriteClient
  <2>6. CASE Over \/ UNCHANGED vars
    BY <2>6, StutterClient DEF Over
  <2> QED
    BY <2>1, <2>2, <2>3, <2>4, <2>5, <2>6 DEF Next
<1>2. PumpInv'
  BY <1>1, NextPump DEF Pumped, ClientInv
<1> QED
  BY <1>1, <1>2 DEF ClientInv

LEMMA InitClient == Init => ClientInv /\ Pump!Init
<1> SUFFICES ASSUME Init PROVE ClientInv /\ Pump!Init
  OBVIOUS
<1>1. MaxSessions \in Nat \ {0} /\ MaxRetry \in Nat
  BY BoundsAssumption
<1>2. [kind |-> "share", session |-> 1] \in Frames
  BY <1>1 DEF Frames
<1>3. payload \in [Threads -> Frames]
  BY <1>2 DEF Init
<1>4. Pump!Init
  BY <1>3 DEF Init, Pump!Init
<1>5. PumpInv
  BY <1>4, InitPump
<1>6. ClientOK
  <2>1. 0 \in 0..MaxSessions /\ 0 \in 0..(MaxRetry + 1) /\ 0 \in 0..MaxRetry
    BY <1>1
  <2>2. NoWrite \in [stage : WriteStages, session : 0..MaxSessions, ok : BOOLEAN]
    BY <2>1 DEF NoWrite, WriteStages
  <2>3. Nobody \in [at : {"none", "proxy", "pool"}, cert : Certificates]
    BY DEF Nobody, NoCertificate, Certificates
  <2> QED
    BY <2>1, <2>2, <2>3 DEF Init, ClientOK, StrandPcs
<1>7. OneCompletionOwed /\ Places /\ SetUpInOrder /\ WriteOnSocket /\ RetriesCounted
  BY DEF Init, OneCompletionOwed, Places, SetUpInOrder, WriteOnSocket, RetriesCounted,
       NoWrite
<1> QED
  BY <1>4, <1>5, <1>6, <1>7 DEF ClientInv, Client

LEMMA ClientInductive == Spec => []ClientInv
<1>1. Init => ClientInv
  BY InitClient
<1>2. ClientInv /\ [Next]_vars => ClientInv'
  BY NextClient
<1> QED
  BY <1>1, <1>2, PTL DEF Spec

-----------------------------------------------------------------------------
\* Type correctness, of the pump's state too.
THEOREM TypeCorrect == Spec => []TypeOK
<1>1. ClientInv => TypeOK
  BY DEF ClientInv, Client, ClientOK, PumpInv, Pump!TypeOK, TypeOK
<1> QED
  BY <1>1, ClientInductive, PTL

\* Every frame handed to transmit owes the pump one completion and the client has one
\* write for it, however often the link is lost while it waits for the strand
\* (transmit, onSend, disconnect and retryConnect).
THEOREM CompletionsAreOwedOnce == Spec => []OneCompletionOwed
<1>1. ClientInv => OneCompletionOwed
  BY DEF ClientInv, Client
<1> QED
  BY <1>1, ClientInductive, PTL

\* connect() never deletes a socket under a write, and a write is on the socket in
\* use, for any number of retries and of devices that send meanwhile.
THEOREM WritesFindTheirSocket == Spec => []NoWriteOnDeletedSocket
<1>1. ClientInv => NoWriteOnDeletedSocket
  BY DEF ClientInv, Client, WriteOnSocket, NoWriteOnDeletedSocket
<1> QED
  BY <1>1, ClientInductive, PTL

\* In each of the configurations, nothing is written that does not go to the pool,
\* and with TLS to a pool whose certificate was checked: a reconnection repeats the
\* whole set-up of connect().
THEOREM WritesGoToThePool == Spec => []WritesReachThePool
<1>1. ClientInv => WritesReachThePool
  BY DEF ClientInv, Client, Places, SetUpInOrder, Ready, WritesReachThePool
<1> QED
  BY <1>1, ClientInductive, PTL

\* Whatever MAX_RETRY_COUNT is and however many outages there were, retryConnect
\* makes that many attempts before it gives an outage up.
THEOREM OutagesGetAllRetries == Spec => []GivesUpLate
<1>1. ClientInv => GivesUpLate
  BY DEF ClientInv, Client, RetriesCounted, GivesUpLate
<1> QED
  BY <1>1, ClientInductive, PTL

\* The frames of all sessions go out one at a time and in the order they were
\* accepted: a step of the client is a step of the pump or leaves it alone, and the
\* pump is a serial writer.
THEOREM ClientImplementsSerialWriter == Spec => ImplementsSerialWriter
<1>1. Pump!Spec => Pump!ImplementsSerialWriter
  BY PumpImplementsSerialWriter
<1>2. Init => Pump!Init
  BY InitClient
<1>3. ClientInv /\ [Next]_vars => Pumped
  BY NextClient
<1>4. Spec => Pump!Spec
  BY <1>2, <1>3, ClientInductive, PTL DEF Spec, Pump!Spec, Pumped
<1> QED
  BY <1>1, <1>4, PTL DEF ImplementsSerialWriter, Pump!ImplementsSerialWriter

-----------------------------------------------------------------------------
(***************************************************************************)
(* The session.                                                            *)
(***************************************************************************)
\* A job as a complete announcement leaves it.
Whole(info) == info # EmptyInfo => IsValidJob(info) /\ info.id = info.header

\* WorkIsWhole is not inductive: a device copies the accepted job.
SessionInv ==
  /\ SessionTypeOK
  /\ Whole(accepted)
  /\ \A d \in Miners : Whole(work[d])

-----------------------------------------------------------------------------
\* The default job is a job record.
LEMMA EmptyInfoType == EmptyInfo \in Infos
  BY DEF EmptyInfo, Infos

\* Taking an extranonce of the pool keeps jobInfo a job record.
LEMMA SetExtraNonceType ==
  ASSUME SessionTypeOK, NEW n \in Nonces, SetExtraNonce(n)
  PROVE  jobInfo' \in Infos /\ told' \subseteq {"nonce", "target"}
  BY DEF SessionTypeOK, SetExtraNonce, Infos

\* Taking the target of the pool does.
LEMMA SetTargetType ==
  ASSUME SessionTypeOK, SetTarget
  PROVE  jobInfo' \in Infos /\ told' \subseteq {"nonce", "target"}
  BY DEF SessionTypeOK, SetTarget, Infos

\* The dialects, one by one.
LEMMA DialectCases ==
  ASSUME SessionTypeOK
  PROVE  family \in Dialects
  BY FamiliesAssumption DEF SessionTypeOK

\* Each handler of notify that comes to its end has written an id and a header.
Complete(handler) ==
  /\ Len(handler) \in Nat
  /\ \E i, h \in 1..Len(handler) : "id" \in handler[i] /\ "header" \in handler[h]

LEMMA HandlersAreComplete ==
  /\ Complete(EthashNotify)
  /\ Complete(ProgPOWNotify)
  /\ Complete(AutolykosNotify)
  /\ Complete(KHeavyHashNotify)
  /\ Complete(Blake3Notify)
  /\ Complete(ProgPOWV2Notify)
  /\ Complete(EthProxyNotify)
<1>1. Complete(EthashNotify)
  <2>1. /\ Len(EthashNotify) = 2
        /\ "id" \in EthashNotify[2] /\ "header" \in EthashNotify[1]
    BY DEF EthashNotify
  <2> QED
    BY <2>1 DEF Complete
<1>2. Complete(ProgPOWNotify)
  <2>1. /\ Len(ProgPOWNotify) = 3
        /\ "id" \in ProgPOWNotify[3] /\ "header" \in ProgPOWNotify[1]
    BY DEF ProgPOWNotify
  <2> QED
    BY <2>1 DEF Complete
<1>3. Complete(AutolykosNotify)
  <2>1. /\ Len(AutolykosNotify) = 4
        /\ "id" \in AutolykosNotify[1] /\ "header" \in AutolykosNotify[2]
    BY DEF AutolykosNotify
  <2> QED
    BY <2>1 DEF Complete
<1>4. Complete(KHeavyHashNotify)
  <2>1. /\ Len(KHeavyHashNotify) = 3
        /\ "id" \in KHeavyHashNotify[1] /\ "header" \in KHeavyHashNotify[2]
    BY DEF KHeavyHashNotify
  <2> QED
    BY <2>1 DEF Complete
<1>5. Complete(Blake3Notify)
  <2>1. /\ Len(Blake3Notify) = 2
        /\ "id" \in Blake3Notify[1] /\ "header" \in Blake3Notify[2]
    BY DEF Blake3Notify
  <2> QED
    BY <2>1 DEF Complete
<1>6. Complete(ProgPOWV2Notify)
  <2>1. /\ Len(ProgPOWV2Notify) = 1
        /\ "id" \in ProgPOWV2Notify[1] /\ "header" \in ProgPOWV2Notify[1]
    BY DEF ProgPOWV2Notify
  <2> QED
    BY <2>1 DEF Complete
<1>7. Complete(EthProxyNotify)
  <2>1. /\ Len(EthProxyNotify) = 3
        /\ "id" \in EthProxyNotify[3] /\ "header" \in EthProxyNotify[1]
    BY DEF EthProxyNotify
  <2> QED
    BY <2>1 DEF Complete
<1> QED
  BY <1>1, <1>2, <1>3, <1>4, <1>5, <1>6, <1>7

\* So has the handler of the dialect.
LEMMA NotifyIsComplete ==
  ASSUME SessionTypeOK
  PROVE  Complete(Notify)
<1>1. family \in Dialects
  BY DialectCases
<1>2. Notify \in {EthashNotify, ProgPOWNotify, AutolykosNotify, KHeavyHashNotify,
                  Blake3Notify, ProgPOWV2Notify, EthProxyNotify}
  BY <1>1 DEF Notify, Dialects
<1> QED
  BY <1>2, HandlersAreComplete

\* Whatever it has written is a job record.
LEMMA WrittenType ==
  ASSUME SessionTypeOK, NEW j \in Jobs, NEW n \in Nonces \cup {NoNonce}, NEW k \in Nat
  PROVE  Written(j, n, k) \in Infos
<1> DEFINE fields == UNION {Notify[i] : i \in 1..k}
<1>1. jobInfo \in Infos /\ pool.target \in Targets
  BY DEF SessionTypeOK
<1> HIDE DEF fields
<1>2. Written(j, n, k) =
        [id     |-> IF "id" \in fields THEN j ELSE jobInfo.id,
         header |-> IF "header" \in fields THEN j ELSE jobInfo.header,
         nonce  |-> IF "nonce" \in fields THEN n ELSE jobInfo.nonce,
         target |-> IF "target" \in fields THEN pool.target ELSE jobInfo.target]
  BY DEF Written, fields
<1> QED
  BY <1>1, <1>2 DEF Infos

\* So its id and its header are those of one job.
LEMMA NotifiedWhole ==
  ASSUME SessionTypeOK, NEW j \in Jobs, NEW n \in Nonces
  PROVE  LET info == Written(j, n, Len(Notify)) IN info \in Infos /\ info.id = info.header
<1> DEFINE fields == UNION {Notify[i] : i \in 1..Len(Notify)}
<1>1. Len(Notify) \in Nat
  BY NotifyIsComplete DEF Complete
<1>2. "id" \in fields /\ "header" \in fields
  BY NotifyIsComplete DEF Complete
<1> HIDE DEF fields
<1>3. Written(j, n, Len(Notify)).id = j /\ Written(j, n, Len(Notify)).header = j
  BY <1>2 DEF Written, fields
<1> QED
  BY <1>1, <1>3, WrittenType

\* The initial state satisfies the invariant.
LEMMA InitSession == SessionInit => SessionInv
<1> SUFFICES ASSUME SessionInit PROVE SessionInv
  OBVIOUS
<1>1. SessionTypeOK
  BY EmptyInfoType DEF SessionInit, SessionTypeOK
<1>2. Whole(accepted) /\ \A d \in Miners : Whole(work[d])
  BY DEF SessionInit, Whole
<1> QED
  BY <1>1, <1>2 DEF SessionInv

\* A notify that is read to its end makes a whole job, and updateJob accepts
\* it or leaves the accepted job alone.
LEMMA UpdateJobWhole ==
  ASSUME SessionInv, NEW info \in Infos, info.id = info.header, UpdateJob(info)
  PROVE  accepted' \in Infos /\ Whole(accepted')
<1>1. CASE accepted' = accepted
  BY <1>1 DEF SessionInv, SessionTypeOK
<1>2. CASE accepted' = info /\ IsValidJob(info)
  BY <1>2 DEF Whole
<1>3. (accepted' = info /\ IsValidJob(info)) \/ accepted' = accepted
  BY DEF UpdateJob
<1> QED
  BY <1>1, <1>2, <1>3

-----------------------------------------------------------------------------
\* Every step keeps the types.
LEMMA NextSessionTypeOK ==
  ASSUME SessionInv, SessionNext
  PROVE  SessionTypeOK'
<1> SessionTypeOK
  BY DEF SessionInv
<1>1. CASE Connected
  <2>1. pool' \in [nonce : Nonces, target : Targets]
    BY <1>1 DEF Connected
  <2>2. asked' \subseteq {"subscribe", "authorize", "hello", "login", "getwork"}
    BY <1>1, DialectCases DEF Connected, OnConnect, Dialects, MiningSubscribe,
         MiningAuthorize, MiningHello, EthSubmitLogin
  <2>3. told' \subseteq {"nonce", "target"}
    BY <1>1 DEF Connected, Untold
  <2> QED
    BY <1>1, <2>1, <2>2, <2>3 DEF Connected, SessionTypeOK
<1>2. CASE Disconnect
  BY <1>2 DEF Disconnect, SessionTypeOK
<1>3. ASSUME NEW parsed \in BOOLEAN, OnSubscribeReply(parsed)
      PROVE  SessionTypeOK'
  <2>1. pool.nonce \in Nonces
    BY DEF SessionTypeOK
  <2>2. asked' \subseteq {"subscribe", "authorize", "hello", "login", "getwork"}
    BY <1>3 DEF OnSubscribeReply, AfterSubscribe, EthashSubscribed, ProgPOWSubscribed,
         AutolykosSubscribed, KHeavyHashSubscribed, MiningAuthorize, SessionTypeOK
  <2>3. jobInfo' \in Infos /\ told' \subseteq {"nonce", "target"}
    BY <1>3, <2>1, SetExtraNonceType DEF OnSubscribeReply, SessionTypeOK
  <2> QED
    BY <1>3, <2>2, <2>3 DEF OnSubscribeReply, SessionTypeOK
<1>4. CASE OnFirstError
  BY <1>4 DEF OnFirstError, SessionTypeOK
<1>5. ASSUME NEW success \in BOOLEAN, OnAuthorizeReply(success)
      PROVE  SessionTypeOK'
  BY <1>5 DEF OnAuthorizeReply, SessionTypeOK
<1>15. ASSUME NEW success \in BOOLEAN, OnAuthorizeReplyV2(success)
       PROVE  SessionTypeOK'
  BY <1>15 DEF OnAuthorizeReplyV2, SessionTypeOK
<1>6. ASSUME NEW n \in Nonces, OnMiningSetExtraNonce(n)
      PROVE  SessionTypeOK'
  <2>1. jobInfo' \in Infos /\ told' \subseteq {"nonce", "target"}
    BY <1>6, SetExtraNonceType DEF OnMiningSetExtraNonce
  <2>2. pool' \in [nonce : Nonces, target : Targets]
    BY <1>6 DEF OnMiningSetExtraNonce, SessionTypeOK
  <2>3. moved' \in BOOLEAN
    BY <1>6 DEF OnMiningSetExtraNonce, SessionTypeOK
  <2> QED
    BY <1>6, <2>1, <2>2, <2>3 DEF OnMiningSetExtraNonce, SessionTypeOK
<1>7. CASE OnMiningSetDifficulty
  BY <1>7, SetTargetType DEF OnMiningSetDifficulty, SessionTypeOK
<1>17. CASE SwallowLine
  <2>1. asked' \subseteq asked /\ serves' \in {serves, "yes"} /\ line' \in {"clean", "lost"}
    BY <1>17 DEF SwallowLine
  <2> QED
    BY <1>17, <2>1 DEF SwallowLine, SessionTypeOK
<1>16. CASE OnMiningSetTarget
  BY <1>16, SetTargetType DEF OnMiningSetTarget, SessionTypeOK
<1>8. ASSUME NEW j \in Jobs, OnMiningNotify(j)
      PROVE  SessionTypeOK'
  <2>1. PICK n \in Nonces : jobInfo' = Written(j, n, Len(Notify))
    BY <1>8 DEF OnMiningNotify
  <2>2. jobInfo' \in Infos /\ accepted' \in Infos
    BY <1>8, <2>1, NotifiedWhole, UpdateJobWhole DEF OnMiningNotify
  <2> QED
    BY <1>8, <2>2 DEF OnMiningNotify, SessionTypeOK
<1>9. ASSUME NEW j \in Jobs, OnMalformedNotify(j)
      PROVE  SessionTypeOK'
  <2>1. PICK k \in 0..(Len(Notify) - 1) : jobInfo' = Written(j, jobInfo.nonce, k)
    BY <1>9 DEF OnMalformedNotify
  <2>2. k \in Nat /\ jobInfo.nonce \in Nonces \cup {NoNonce}
    BY DEF SessionTypeOK, Infos
  <2>3. jobInfo' \in Infos
    BY <2>1, <2>2, WrittenType
  <2> QED
    BY <1>9, <2>3 DEF OnMalformedNotify, poolVars, SessionTypeOK
<1>10. ASSUME NEW d \in Miners, TakeJob(d)
       PROVE  SessionTypeOK'
  BY <1>10 DEF TakeJob, poolVars, SessionTypeOK
<1>11. ASSUME NEW plain \in BOOLEAN, OnHelloReply(plain)
       PROVE  SessionTypeOK'
  BY <1>11 DEF OnHelloReply, MiningAuthorize, SessionTypeOK
<1>12. ASSUME NEW success \in BOOLEAN, OnLoginReply(success)
       PROVE  SessionTypeOK'
  BY <1>12 DEF OnLoginReply, EthGetWork, SessionTypeOK
<1>13. CASE LoopTimeout
  BY <1>13 DEF LoopTimeout, poolVars, SessionTypeOK
<1>14. ASSUME NEW n \in Nonces, NEW whole \in BOOLEAN, OnMiningSet(n, whole)
       PROVE  SessionTypeOK'
  <2>1. pool' \in [nonce : Nonces, target : Targets] /\ pool.target \in Targets
    BY <1>14 DEF OnMiningSet, SessionTypeOK
  <2>2. jobInfo' \in Infos
    BY <1>14, <2>1 DEF OnMiningSet, SessionTypeOK, Infos
  <2>3. moved' \in BOOLEAN /\ told' \subseteq {"nonce", "target"}
    BY <1>14 DEF OnMiningSet, SessionTypeOK
  <2> QED
    BY <1>14, <2>1, <2>2, <2>3 DEF OnMiningSet, SessionTypeOK
<1> QED
  BY <1>1, <1>2, <1>3, <1>4, <1>5, <1>6, <1>7, <1>8, <1>9, <1>10, <1>11, <1>12, <1>13, <1>14,
     <1>15, <1>16, <1>17 DEF SessionNext

\* Only notify accepts a job and only a device takes one.
LEMMA NextWhole ==
  ASSUME SessionInv, SessionNext
  PROVE  Whole(accepted') /\ \A d \in Miners : Whole(work'[d])
<1>1. CASE UNCHANGED <<accepted, work>>
  BY <1>1 DEF SessionInv
<1>2. ASSUME NEW j \in Jobs, OnMiningNotify(j)
      PROVE  Whole(accepted') /\ \A d \in Miners : Whole(work'[d])
  <2>1. PICK n \in Nonces : jobInfo' = Written(j, n, Len(Notify))
    BY <1>2 DEF OnMiningNotify
  <2>2. Whole(accepted')
    BY <1>2, <2>1, NotifiedWhole, UpdateJobWhole DEF OnMiningNotify, SessionInv
  <2> QED
    BY <1>2, <2>2 DEF OnMiningNotify, SessionInv
<1>3. ASSUME NEW d \in Miners, TakeJob(d)
      PROVE  Whole(accepted') /\ \A e \in Miners : Whole(work'[e])
  <2>1. accepted' = accepted /\ work' = [work EXCEPT ![d] = accepted]
    BY <1>3 DEF TakeJob
  <2>2. work \in [Miners -> Infos]
    BY DEF SessionInv, SessionTypeOK
  <2>3. \A e \in Miners : work'[e] = accepted \/ work'[e] = work[e]
    BY <2>1, <2>2
  <2> QED
    BY <2>1, <2>3 DEF SessionInv
<1>4. SessionNext =>
              \/ UNCHANGED <<accepted, work>>
              \/ \E j \in Jobs : OnMiningNotify(j)
              \/ \E d \in Miners : TakeJob(d)
  BY DEF SessionNext, Connected, Disconnect, SwallowLine, OnSubscribeReply, OnHelloReply,
         OnLoginReply,
         OnFirstError, OnAuthorizeReply, OnAuthorizeReplyV2, OnMiningSetTarget,
         LoopTimeout, OnMiningSetExtraNonce, OnMiningSet,
         OnMiningSetDifficulty, OnMalformedNotify
<1> QED
  BY <1>1, <1>2, <1>3, <1>4

\* A stuttering step changes nothing.
LEMMA StutterSession ==
  ASSUME SessionInv, UNCHANGED sessionVars
  PROVE  SessionInv'
<1>1. SessionTypeOK'
  BY DEF SessionInv, SessionTypeOK, sessionVars, poolVars
<1>2. Whole(accepted)' /\ (\A d \in Miners : Whole(work[d]))'
  BY DEF SessionInv, Whole, sessionVars, IsValidJob
<1> QED
  BY <1>1, <1>2 DEF SessionInv

\* Init and every step establish the invariant.
THEOREM SessionInductive == SessionSpec => []SessionInv
<1>1. SessionInv /\ [SessionNext]_sessionVars => SessionInv'
  <2> SUFFICES ASSUME SessionInv, [SessionNext]_sessionVars PROVE SessionInv'
    OBVIOUS
  <2>1. CASE SessionNext
    <3>1. SessionTypeOK'
      BY <2>1, NextSessionTypeOK
    <3>2. Whole(accepted') /\ \A d \in Miners : Whole(work'[d])
      BY <2>1, NextWhole
    <3> QED
      BY <3>1, <3>2 DEF SessionInv, Whole, IsValidJob
  <2>2. CASE UNCHANGED sessionVars
    BY <2>2, StutterSession
  <2> QED
    BY <2>1, <2>2
<1> QED
  BY InitSession, <1>1, PTL DEF SessionSpec

\* Every value the session, the accepted job and the work can have.
THEOREM SessionTypeCorrect == SessionSpec => []SessionTypeOK
<1>1. SessionInv => SessionTypeOK
  BY DEF SessionInv
<1> QED
  BY <1>1, SessionInductive, PTL

\* No device ever gets half a job, whatever malformed notifies and reconnections
\* leave in jobInfo (Stratum::updateJob, DeviceManager::onUpdateJob).
THEOREM WorkAlwaysWhole == SessionSpec => []WorkIsWhole
<1>1. SessionInv => WorkIsWhole
  BY DEF SessionInv, WorkIsWhole, Whole
<1> QED
  BY <1>1, SessionInductive, PTL

=============================================================================
