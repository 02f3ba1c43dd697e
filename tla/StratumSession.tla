-------------------------- MODULE StratumSession --------------------------
(***************************************************************************)
(* A session of one stratum with its pool, from the connection to the work *)
(* of the devices: subscribe, authorize, extranonce, target, notify, and   *)
(* the next connection, for the dialects that differ in who sends what and *)
(* when.                                                                   *)
(*                                                                         *)
(*   ethash      subscribe; its reply carries the extranonce and is        *)
(*               answered by authorize in either case                      *)
(*   progpow     the same, but a reply without extranonce ends the login;  *)
(*               the target comes with each job                            *)
(*   autolykos   as progpow; set_extranonce is not implemented             *)
(*   kheavyhash  subscribe and authorize together; the extranonce comes    *)
(*               with the reply or as set_extranonce                       *)
(*   blake3      authorize only; the target comes with each job            *)
(*   progpow2    progpow over ETHEREUM_V2: hello, authorize; extranonce    *)
(*               and target come with mining.set; a thread sends noops     *)
(*   ethproxy    progpow over ETHPROXY: login, getWork; the target comes   *)
(*               with each job and the miner draws its own extranonce      *)
(*                                                                         *)
(* The pool gives each session an extranonce and a target, and may change  *)
(* the extranonce once.  A job stands for its header (or header blob) and  *)
(* the epoch that goes with it; the id a pool knows it by is a field of    *)
(* its own, since the handlers write it on its own (jobIDStr, and jobID    *)
(* where that is its hash).  The messages of one connection are handled    *)
(* one at a time and in order, whatever the pool sends when.  jobInfo      *)
(* and authenticated outlive the connection: nothing resets them.  The     *)
(* hand-off to a device is one step here; DeviceSync takes it apart.       *)
(***************************************************************************)
EXTENDS Naturals, Sequences

CONSTANTS
  Miners,    \* devices of the stratum
  Families,  \* dialects checked
  Jobs,      \* jobs a pool may announce
  NoJob,     \* id and header of a default StratumJobInfo
  Nonces,    \* extranonces a pool may assign
  NoNonce,   \* nonce of a default StratumJobInfo (0)
  Targets,   \* share targets a pool may set
  NoTarget   \* boundary of a default StratumJobInfo (all zero)

Dialects == {"ethash", "progpow", "autolykos", "kheavyhash", "blake3", "progpow2", "ethproxy"}
ASSUME FamiliesAssumption == Families \subseteq Dialects
ASSUME DefaultsAssumption ==
  NoJob \notin Jobs /\ NoNonce \notin Nonces /\ NoTarget \notin Targets

VARIABLES
  family,    \* the dialect of this stratum
  \* the pool, as the miner meets it
  up,        \* the connection is established
  pool,      \* extranonce and target of the session
  told,      \* which of the two it has sent
  asked,     \* requests of the session it has yet to answer
  serves,    \* "no", "yes" or "refused": the outcome of the login
  moved,     \* it has changed the extranonce of this session
  line,      \* recvBuffer: "clean", "partial" (the start of a line of a connection
             \* that was lost), or "lost": it swallowed a line that mattered
  \* the miner
  noop,      \* loopTimeout: "none", "looping" (authenticated), "ending" (not any more)
  jobInfo,   \* Stratum::jobInfo
  accepted,  \* DeviceManager::jobInfos[stratumUUID]
  work       \* work[d]: the job device d computes

poolVars == <<up, pool, told, asked, serves, moved, line>>
sessionVars == <<family, poolVars, noop, jobInfo, accepted, work>>

Infos == [id : Jobs \cup {NoJob}, header : Jobs \cup {NoJob},
          nonce : Nonces \cup {NoNonce}, target : Targets \cup {NoTarget}]
EmptyInfo == [id |-> NoJob, header |-> NoJob, nonce |-> NoNonce, target |-> NoTarget]

-----------------------------------------------------------------------------
\* The requests of a login; kheavyhash and blake3 have a miningSubscribe of their own.
MiningAuthorize == {"authorize"}
MiningSubscribe ==
  CASE family = "kheavyhash" -> {"subscribe"} \cup MiningAuthorize
    [] family = "blake3" -> MiningAuthorize
    [] OTHER -> {"subscribe"}
MiningHello == {"hello"}
EthSubmitLogin == {"login"}
EthGetWork == {"getwork"}

\* Stratum::onConnect, by the type of the stratum; a wallet and a password are
\* configured.
OnConnect ==
  CASE family = "progpow2" -> MiningHello
    [] family = "ethproxy" -> EthSubmitLogin
    [] OTHER -> MiningSubscribe

\* The dialects whose jobs carry the target, and the one without an extranonce
\* of the pool: there is nothing to tell them.
TargetInJob == {"progpow", "autolykos", "blake3", "ethproxy"}
Untold == (IF family \in TargetInJob THEN {"target"} ELSE {})
            \cup (IF family = "ethproxy" THEN {"nonce"} ELSE {})

Connected ==
  /\ ~up
  /\ up' = TRUE
  /\ \E n \in Nonces, t \in Targets : pool' = [nonce |-> n, target |-> t]
  /\ told' = Untold
  /\ asked' = OnConnect
  /\ serves' = "no"
  /\ moved' = FALSE
  /\ line' = IF line = "lost" THEN "clean" ELSE line
  /\ UNCHANGED <<family, noop, jobInfo, accepted, work>>

\* The connection is lost, perhaps in the middle of a line: what was asked is never
\* answered, and recvBuffer keeps what was read.
Disconnect ==
  /\ up
  /\ up' = FALSE
  /\ told' = {} /\ asked' = {} /\ serves' = "no"
  /\ moved' = FALSE
  /\ line' \in {line, "partial"}
  /\ UNCHANGED <<family, pool, noop, jobInfo, accepted, work>>

\* The first line of a connection follows the partial line of the last one in
\* recvBuffer: onReceive cannot parse the two and drops them, whatever it was. The
\* answer to authorize and a notify are not missed; a setting or another answer is.
SwallowLine ==
  /\ up /\ line = "partial"
  /\ \/ /\ line' = "clean" /\ asked' = asked \ MiningAuthorize
        /\ serves' = IF asked' = asked THEN serves ELSE "yes"
     \/ line' = "lost" /\ asked' \in {asked \ {r} : r \in asked} \cup {asked}
        /\ UNCHANGED serves
  /\ UNCHANGED <<family, up, pool, told, moved, noop, jobInfo, accepted, work>>

\* A line that reaches its handler.
Received == up /\ line # "partial"

\* setExtraNonce: the nonce of the next job starts from the pool's extranonce.
SetExtraNonce(n) ==
  /\ jobInfo' = [jobInfo EXCEPT !.nonce = n]
  /\ told' = told \cup {"nonce"}

\* Mutant: ethash authorizes once the extranonce is parsed, as it used to.
EthashSubscribedOnceParsed(parsed) == IF parsed THEN MiningAuthorize ELSE {}

\* What a reply to subscribe makes the miner ask next: ethash authorizes in
\* either case, progpow and autolykos only once the extranonce is parsed.
EthashSubscribed(parsed) == MiningAuthorize

ProgPOWSubscribed(parsed) == IF parsed THEN MiningAuthorize ELSE {}
AutolykosSubscribed(parsed) == IF parsed THEN MiningAuthorize ELSE {}
KHeavyHashSubscribed(parsed) == {}
AfterSubscribe(parsed) ==
  CASE family = "ethash" -> EthashSubscribed(parsed)
    [] family = "progpow" -> ProgPOWSubscribed(parsed)
    [] family = "autolykos" -> AutolykosSubscribed(parsed)
    [] OTHER -> KHeavyHashSubscribed(parsed)

\* onResponse(ID_MINING_SUBSCRIBE): the extranonce is taken when the reply holds
\* one in the place it is looked for.
OnSubscribeReply(parsed) ==
  /\ Received /\ "subscribe" \in asked
  /\ asked' = (asked \ {"subscribe"}) \cup AfterSubscribe(parsed)
  /\ IF parsed THEN SetExtraNonce(pool.nonce) ELSE UNCHANGED <<told, jobInfo>>
  /\ serves' = IF ~parsed /\ family \in {"progpow", "autolykos"} THEN "refused" ELSE serves
  /\ UNCHANGED <<family, up, pool, moved, line, noop, accepted, work>>

\* The reply to hello: a plain session is authorized, another one is not.
OnHelloReply(plain) ==
  /\ Received /\ "hello" \in asked
  /\ asked' = (asked \ {"hello"}) \cup (IF plain THEN MiningAuthorize ELSE {})
  /\ serves' = IF plain THEN serves ELSE "refused"
  /\ UNCHANGED <<family, up, pool, told, moved, line, noop, jobInfo, accepted, work>>

\* The reply to submitLogin: work is asked for whatever the result is.
OnLoginReply(success) ==
  /\ Received /\ "login" \in asked
  /\ asked' = (asked \ {"login"}) \cup EthGetWork
  /\ serves' = IF success THEN "yes" ELSE "refused"
  /\ UNCHANGED <<family, up, pool, told, moved, line, noop, jobInfo, accepted, work>>

\* An error instead of a result: logged, and nothing more is asked.
OnFirstError ==
  /\ Received /\ family # "kheavyhash"
  /\ \E request \in {"subscribe", "hello", "login"} :
       request \in asked /\ asked' = asked \ {request}
  /\ serves' = "refused"
  /\ UNCHANGED <<family, up, pool, told, moved, line, noop, jobInfo, accepted, work>>

\* onResponse(ID_MINING_AUTHORIZE): the miner notes the answer and acts on neither.
OnAuthorizeReply(success) ==
  /\ Received /\ "authorize" \in asked
  /\ family # "progpow2"
  /\ asked' = asked \ {"authorize"}
  /\ serves' = IF success THEN "yes" ELSE "refused"
  /\ UNCHANGED <<family, up, pool, told, moved, line, noop, jobInfo, accepted, work>>

\* ETHEREUM_V2: it (re)starts the thread of the noops, or lets it end.
OnAuthorizeReplyV2(success) ==
  /\ Received /\ "authorize" \in asked
  /\ family = "progpow2"
  /\ asked' = asked \ {"authorize"}
  /\ serves' = IF success THEN "yes" ELSE "refused"
  /\ noop' = IF success THEN "looping" ELSE IF noop = "looping" THEN "ending" ELSE noop
  /\ UNCHANGED <<family, up, pool, told, moved, line, jobInfo, accepted, work>>

\* loopTimeout sends noops over whatever link there is; it ends after one when
\* authenticated has become false.
LoopTimeout ==
  /\ noop = "ending"
  /\ noop' = "none"
  /\ UNCHANGED <<family, poolVars, jobInfo, accepted, work>>

\* mining.set_extranonce, or kheavyhash's set_extranonce by onUnknownMethod: the
\* first extranonce of the session or another one. No job is dispatched for it.
\* Autolykos only logs the message, so its pools are taken to keep to the first.
OnMiningSetExtraNonce(n) ==
  /\ Received /\ family \notin {"autolykos", "progpow2", "ethproxy"}
  /\ n = pool.nonce \/ ~moved
  /\ pool' = [pool EXCEPT !.nonce = n]
  /\ moved' = (moved \/ n # pool.nonce)
  /\ SetExtraNonce(n)
  /\ UNCHANGED <<family, up, asked, serves, line, noop, accepted, work>>

\* The boundary of the next job is the pool's.
SetTarget ==
  /\ jobInfo' = [jobInfo EXCEPT !.target = pool.target]
  /\ told' = told \cup {"target"}

\* mining.set_difficulty and mining.set_target. No job is dispatched for them.
OnMiningSetDifficulty ==
  /\ Received /\ family \notin {"blake3", "progpow2", "ethproxy"}
  /\ SetTarget
  /\ UNCHANGED <<family, up, pool, asked, serves, moved, line, noop, accepted, work>>

OnMiningSetTarget ==
  /\ Received /\ family \in {"ethash", "progpow"}
  /\ SetTarget
  /\ UNCHANGED <<family, up, pool, asked, serves, moved, line, noop, accepted, work>>

\* mining.set of ETHEREUM_V2: the extranonce, then the epoch, then the target. An
\* epoch that is no number throws between them. No job is dispatched for it.
OnMiningSet(n, whole) ==
  /\ Received /\ family = "progpow2"
  /\ n = pool.nonce \/ ~moved
  /\ pool' = [pool EXCEPT !.nonce = n]
  /\ moved' = (moved \/ n # pool.nonce)
  /\ jobInfo' = [jobInfo EXCEPT !.nonce = n, !.target = IF whole THEN pool.target ELSE @]
  /\ told' = told \cup (IF whole THEN {"nonce", "target"} ELSE {"nonce"})
  /\ UNCHANGED <<family, up, asked, serves, line, noop, accepted, work>>

-----------------------------------------------------------------------------
\* isValidJob: id and header, boundary and nonce are set.
IsValidJob(info) ==
  info.header # NoJob /\ info.id # NoJob /\ info.target # NoTarget /\ info.nonce # NoNonce

\* updateJob and DeviceManager::onUpdateJob: a job that is not complete, or whose
\* header is the one of the job accepted last, goes no further.
UpdateJob(info) ==
  accepted' = IF IsValidJob(info) /\ info.header # accepted.header THEN info ELSE accepted

\* The fields each handler of notify writes, in order; a malformed message makes
\* it give up after any of the groups but the last. (headerBlob is a header,
\* jobIDStr an id; kheavyhash reads a timestamp and autolykos a flag at the end;
\* the extranonce of ethproxy is the miner's own.)
EthashNotify == <<{"header"}, {"id"}>>
ProgPOWNotify == <<{"header"}, {"target"}, {"id"}>>
AutolykosNotify == <<{"id"}, {"header"}, {"target"}, {}>>
KHeavyHashNotify == <<{"id"}, {"header"}, {}>>
Blake3Notify == <<{"id"}, {"header", "target"}>>
ProgPOWV2Notify == <<{"header", "id"}>>
EthProxyNotify == <<{"header"}, {"target"}, {"id", "nonce"}>>
Notify ==
  CASE family = "ethash" -> EthashNotify
    [] family = "progpow" -> ProgPOWNotify
    [] family = "autolykos" -> AutolykosNotify
    [] family = "kheavyhash" -> KHeavyHashNotify
    [] family = "blake3" -> Blake3Notify
    [] family = "progpow2" -> ProgPOWV2Notify
    [] family = "ethproxy" -> EthProxyNotify

\* jobInfo once the first k groups are written for job j and extranonce n.
Written(j, n, k) ==
  LET fields == UNION {Notify[i] : i \in 1..k}
  IN  [id     |-> IF "id" \in fields THEN j ELSE jobInfo.id,
       header |-> IF "header" \in fields THEN j ELSE jobInfo.header,
       nonce  |-> IF "nonce" \in fields THEN n ELSE jobInfo.nonce,
       target |-> IF "target" \in fields THEN pool.target ELSE jobInfo.target]

\* A notify, or in ETHPROXY the answer to getWork, or one nobody asked for.
OnMiningNotify(j) ==
  /\ Received
  /\ \E n \in Nonces : jobInfo' = Written(j, n, Len(Notify))
  /\ UpdateJob(jobInfo')
  /\ asked' = asked \ {"getwork"}
  /\ UNCHANGED <<family, up, pool, told, serves, moved, line, noop, work>>

\* Mutant: a malformed job is logged and then dispatched all the same.
OnMalformedNotifyFallsThrough(j) ==
  /\ Received
  /\ \E k \in 0..(Len(Notify) - 1) : jobInfo' = Written(j, jobInfo.nonce, k)
  /\ UpdateJob(jobInfo')
  /\ UNCHANGED <<family, poolVars, noop, work>>

\* It returns (kheavyhash) or throws to onReceive (the others) before updateJob.
OnMalformedNotify(j) ==
  /\ Received
  /\ \E k \in 0..(Len(Notify) - 1) : jobInfo' = Written(j, jobInfo.nonce, k)
  /\ UNCHANGED <<family, poolVars, noop, accepted, work>>

\* Device d takes the accepted job (see DeviceSync).
TakeJob(d) ==
  /\ accepted # EmptyInfo
  /\ work' = [work EXCEPT ![d] = accepted]
  /\ UNCHANGED <<family, poolVars, noop, jobInfo, accepted>>

-----------------------------------------------------------------------------
SessionInit ==
  /\ family \in Families
  /\ up = FALSE
  /\ pool \in [nonce : Nonces, target : Targets]
  /\ told = {} /\ asked = {} /\ serves = "no" /\ moved = FALSE /\ line = "clean"
  /\ noop = "none"
  /\ jobInfo = EmptyInfo /\ accepted = EmptyInfo
  /\ work = [d \in Miners |-> EmptyInfo]

SessionNext ==
  \/ Connected \/ Disconnect \/ SwallowLine
  \/ \E parsed \in BOOLEAN : OnSubscribeReply(parsed) \/ OnHelloReply(parsed)
  \/ OnFirstError
  \/ \E success \in BOOLEAN : \/ OnAuthorizeReply(success) \/ OnAuthorizeReplyV2(success)
                              \/ OnLoginReply(success)
  \/ LoopTimeout
  \/ \E n \in Nonces : \/ OnMiningSetExtraNonce(n)
                       \/ \E whole \in BOOLEAN : OnMiningSet(n, whole)
  \/ OnMiningSetDifficulty \/ OnMiningSetTarget
  \/ \E j \in Jobs : OnMiningNotify(j) \/ OnMalformedNotify(j)
  \/ \E d \in Miners : TakeJob(d)

\* A pool that serves the miner answers, sends the extranonce and the target and
\* goes on to the next job; a device takes what it is handed. Links may fail at
\* any time and stay down.
SessionFairness ==
  /\ WF_sessionVars(SwallowLine)
  /\ WF_sessionVars(\E parsed \in BOOLEAN : OnSubscribeReply(parsed) \/ OnHelloReply(parsed))
  /\ WF_sessionVars(\E success \in BOOLEAN : \/ OnAuthorizeReply(success)
                                             \/ OnAuthorizeReplyV2(success)
                                             \/ OnLoginReply(success))
  /\ WF_sessionVars(serves = "yes" /\ "nonce" \notin told /\ \E n \in Nonces : OnMiningSetExtraNonce(n))
  /\ WF_sessionVars(serves = "yes" /\ "target" \notin told /\ (OnMiningSetDifficulty \/ OnMiningSetTarget))
  /\ WF_sessionVars(serves = "yes" /\ "target" \notin told /\ \E n \in Nonces : OnMiningSet(n, TRUE))
  /\ \A j \in Jobs : SF_sessionVars(serves = "yes" /\ j # jobInfo.header /\ OnMiningNotify(j))
  /\ \A d \in Miners : WF_sessionVars(TakeJob(d))

SessionSpec == SessionInit /\ [][SessionNext]_sessionVars
FairSessionSpec == SessionSpec /\ SessionFairness

-----------------------------------------------------------------------------
(***************************************************************************)
(* Properties.                                                             *)
(***************************************************************************)

SessionTypeOK ==
  /\ family \in Families
  /\ up \in BOOLEAN
  /\ pool \in [nonce : Nonces, target : Targets]
  /\ told \subseteq {"nonce", "target"}
  /\ asked \subseteq {"subscribe", "authorize", "hello", "login", "getwork"}
  /\ serves \in {"no", "yes", "refused"}
  /\ moved \in BOOLEAN /\ line \in {"clean", "partial", "lost"}
  /\ noop \in {"none", "looping", "ending"}
  /\ jobInfo \in Infos
  /\ accepted \in Infos
  /\ work \in [Miners -> Infos]

\* No device gets half a job: whatever malformed notifies left in jobInfo, and
\* whichever connection they came over, the work of a device has the id and the
\* header of one announcement, a target and an extranonce.
WorkIsWhole ==
  \A d \in Miners :
    work[d] # EmptyInfo => IsValidJob(work[d]) /\ work[d].id = work[d].header

Fits(info) ==
  /\ info.target = pool.target
  /\ IF family = "ethproxy" THEN info.nonce # NoNonce ELSE info.nonce = pool.nonce

\* A miner that stays connected to a pool that serves it and moves on to new
\* jobs ends up hashing with the extranonce and the target of this session,
\* not of the one before. (A session whose first line was swallowed may miss the
\* answer to its login, or a setting, until the next connection.)
WorkFitsSession ==
  \A d \in Miners : []<>(~up \/ serves = "refused" \/ line = "lost" \/ Fits(work[d]))

\* The comment on set_extranonce warns of every share being rejected when the
\* extranonce is not applied. A job announced after the extranonce and the target
\* should be accepted with them: it is not when its header is the one accepted
\* before the extranonce changed, by a reconnection or by the pool. This does not
\* hold.
NonceIsApplied ==
  [][\A j \in Jobs :
       (OnMiningNotify(j) /\ told = {"nonce", "target"} /\ line # "lost")
         => accepted'.nonce = jobInfo'.nonce]_sessionVars

\* Noops are meant for a session that was authorized. authenticated is not reset
\* when the link is lost, so the thread of the last session sends them into the
\* next one, before its hello is answered: this does not hold.
NoopsAreServed == (up /\ noop = "looping") => serves = "yes"

=============================================================================
