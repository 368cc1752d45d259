------------------------- MODULE RegionSetup_proofs --------------------------
(***************************************************************************)
(* Proofs about RegionSetup for every number of regions, descriptors,      *)
(* calls and deaths of itc-server, whatever is on the disk at the start.   *)
(***************************************************************************)
EXTENDS RegionSetup, SequenceTheorems, WellFoundedInduction, NaturalsInduction, TLAPS

Locating == {"check", "fork", "locateConnect", "locateRecv"}
Connecting == {"exists", "granting", "lsocketConnect", "lsocketAck"}
PcValues == {"idle", "sysv", "transports", "remove"} \cup Locating \cup Connecting
AnyFd == Fd \cup {NoFd}
Threads == [life : Nat, isRunning : BOOLEAN]

RegionState ==
    [pc : PcValues, calls : Nat, isServer : BOOLEAN,
     result : {"none", "ITC_OK", "ITC_FAILED"}, transports : BOOLEAN,
     serverRunning : BOOLEAN, pathCreated : BOOLEAN,
     sockFd : AnyFd, fd : AnyFd, link : {"none", "live", "dead"},
     sysv : BOOLEAN, rxTerminated : BOOLEAN, rx : {"none", "late", "ready"},
     sync : {"none", "ready", "noClock"},
     eventFd : AnyFd, life : Nat, threads : Seq(Threads), removed : BOOLEAN]

(* Every variable has its type.                                            *)
TypeOK ==
    /\ open \in [Region -> SUBSET Fd]
    /\ region \in [Region -> RegionState]

(* The descriptors a region knows are open, and no two of them are the     *)
(* same: closing the one of locateItcServer, or that of a SyncObject which *)
(* is replaced, closes no other.                                           *)
KnownAreOpen(st, fds) ==
    /\ {st.fd, st.sockFd, st.eventFd} \ {NoFd} \subseteq fds
    /\ st.fd # NoFd => st.fd # st.sockFd /\ st.fd # st.eventFd
    /\ st.sockFd # NoFd => st.sockFd # st.eventFd
    /\ st.fd # NoFd <=> st.pc \in {"locateRecv", "lsocketAck"}

(* ItcTransportLSocket is ready.                                           *)
LSocketReady(st) == st.serverRunning /\ st.pathCreated /\ st.sockFd # NoFd

HasThread(st, isRunning) ==
    \E i \in DOMAIN st.threads :
        st.threads[i] = [life |-> st.life, isRunning |-> isRunning]

(* How far initialise has come: as long as nothing has failed, each stage  *)
(* has what the stages before it have set up.                              *)
StageOK(st) ==
    /\ st.pc \in Connecting => st.serverRunning
    /\ st.pc \in {"lsocketConnect", "lsocketAck"} => st.pathCreated
    /\ st.pc \in {"sysv", "transports"} /\ st.transports => LSocketReady(st)
    /\ st.pc = "transports" /\ st.transports =>
        st.sysv /\ st.rx = "none" /\ HasThread(st, FALSE)
    /\ st.result = "ITC_OK" =>
        /\ st.pc = "idle" /\ LSocketReady(st)
        /\ st.sync # "noClock" /\ HasThread(st, TRUE)
        /\ st.sysv \/ st.rxTerminated
        /\ st.sysv => st.rx = "ready"
    /\ st.rx # "none" => st.sysv
    /\ st.pc = "sysv" => ~st.sysv

(* What the first call has opened so far.                                  *)
FirstCallOK(st, fds) ==
    /\ st.calls = 0 =>
        /\ st.pc = "idle" /\ ~st.serverRunning /\ ~st.sysv
        /\ st.sockFd = NoFd /\ st.eventFd = NoFd /\ fds = {}
    /\ st.calls = 1 =>
        /\ st.pc \in Locating \cup Connecting =>
            st.sockFd = NoFd /\ st.eventFd = NoFd /\ fds = {st.fd} \ {NoFd}
        /\ st.pc = "sysv" /\ st.transports => st.eventFd = NoFd /\ fds = {st.sockFd}
        /\ (st.pc = "transports" /\ st.transports) \/ st.result = "ITC_OK" =>
            fds = {st.sockFd, st.eventFd} \ {NoFd}

StateOK(st, fds) == KnownAreOpen(st, fds) /\ StageOK(st) /\ FirstCallOK(st, fds)

(* The inductive invariant.                                                *)
IInv ==
    /\ TypeOK
    /\ \A r \in Region : StateOK(region[r], open[r])
    /\ StaleOnlyThroughOthers

-----------------------------------------------------------------------------
(* The lowest free descriptor of a region is free.                         *)
LEMMA LowestIsFree ==
    ASSUME TypeOK, NEW r \in Region, Free(r) # {}
    PROVE  LowestFree(r) \in Fd \ open[r]
<1> DEFINE R == {ss \in Nat \X Nat : ss[1] < ss[2]}
<1>1. Free(r) \subseteq Nat /\ Free(r) \subseteq Fd \ open[r]
  BY RegionSetupAssumption DEF Free, Fd
<1>2. \E x \in Free(r) : \A y \in Free(r) : ~(<<y, x>> \in R)
  <2>1. IsWellFoundedOn(R, Nat)
    BY NatLessThanWellFounded, Zenon DEF OpToRel
  <2> HIDE DEF R
  <2> QED
    BY <1>1, <2>1, WFMin
<1>3. \A x, y \in Nat : ~(<<y, x>> \in R) => x <= y
  OBVIOUS
<1> HIDE DEF R
<1>4. \E x \in Free(r) : \A y \in Free(r) : x <= y
  BY <1>1, <1>2, <1>3
<1>5. Min(Free(r)) \in Free(r)
  BY <1>4 DEF Min
<1> QED
  BY <1>1, <1>5 DEF LowestFree

(* A descriptor is not the value for none.                                 *)
LEMMA FdIsOne == NoFd \notin Fd
BY RegionSetupAssumption DEF Fd, NoFd

(* What a step of one region may change of it: the history of removals     *)
(* only grows, and the folder's flag is set only if the folder is there.   *)
Moves(st, new) ==
    /\ st.removed => new.removed
    /\ new.pathCreated => st.pathCreated \/ SockFolder \in disk

(* A step of one region that keeps its state consistent keeps all of them. *)
LEMMA FrameStates ==
    ASSUME IInv, NEW r \in Region, NEW new \in RegionState, NEW fds \in SUBSET Fd,
           region' = [region EXCEPT ![r] = new], open' = [open EXCEPT ![r] = fds],
           StateOK(new, fds)
    PROVE  /\ TypeOK' /\ \A q \in Region : StateOK(region'[q], open'[q])
           /\ region'[r] = new /\ \A q \in Region \ {r} : region'[q] = region[q]
<1>1. TypeOK'
  BY DEF IInv, TypeOK
<1>2. /\ region'[r] = new /\ open'[r] = fds
      /\ \A q \in Region \ {r} : region'[q] = region[q] /\ open'[q] = open[q]
  BY DEF IInv, TypeOK
<1>3. \A q \in Region : StateOK(region'[q], open'[q])
  BY <1>2 DEF IInv
<1> QED
  BY <1>1, <1>2, <1>3

(* If it also keeps the folder, it keeps the invariant.                    *)
LEMMA Frame ==
    ASSUME IInv, NEW r \in Region, NEW new \in RegionState, NEW fds \in SUBSET Fd,
           region' = [region EXCEPT ![r] = new], open' = [open EXCEPT ![r] = fds],
           StateOK(new, fds), Moves(region[r], new),
           SockFolder \in disk => SockFolder \in disk'
    PROVE  IInv'
<1>1. /\ TypeOK' /\ \A q \in Region : StateOK(region'[q], open'[q])
      /\ region'[r] = new /\ \A q \in Region \ {r} : region'[q] = region[q]
  BY FrameStates
<1>2. \A q \in Region : Moves(region[q], region'[q])
  BY <1>1 DEF Moves
<1>3. StaleOnlyThroughOthers'
  BY <1>2 DEF IInv, StaleOnlyThroughOthers, Moves
<1> QED
  BY <1>1, <1>3 DEF IInv

(* initialise returns: what Returned changes.                              *)
LEMMA ReturnedFacts ==
    ASSUME NEW st \in RegionState, NEW res \in {"none", "ITC_OK", "ITC_FAILED"}
    PROVE  /\ Returned(st, res) \in RegionState
           /\ Returned(st, res).pc = "idle" /\ Returned(st, res).calls = st.calls
           /\ Returned(st, res).result = res /\ Returned(st, res).transports = TRUE
           /\ Returned(st, res).serverRunning = st.serverRunning /\ Returned(st, res).pathCreated = st.pathCreated
           /\ Returned(st, res).sockFd = st.sockFd /\ Returned(st, res).fd = NoFd
           /\ Returned(st, res).sysv = st.sysv /\ Returned(st, res).sync = st.sync
           /\ Returned(st, res).rx = st.rx /\ Returned(st, res).rxTerminated = st.rxTerminated
           /\ Returned(st, res).eventFd = st.eventFd /\ Returned(st, res).life = st.life
           /\ Returned(st, res).threads = st.threads /\ Returned(st, res).removed = st.removed
<1>0. "idle" \in PcValues /\ NoFd \in AnyFd
  BY DEF PcValues, AnyFd
<1>1. Returned(st, res) \in RegionState
  BY <1>0 DEF RegionState, Returned
<1> QED
  BY <1>1 DEF RegionState, Returned

(* initialise fails: the region is consistent, and may have lost a socket. *)
LEMMA ReturnFails ==
    ASSUME NEW st \in RegionState, NEW fds \in SUBSET Fd, NEW more \in SUBSET Fd,
           StateOK(st, fds), st.pc # "idle"
    PROVE  StateOK(Returned(st, "ITC_FAILED"), fds \cup more)
<1> DEFINE new == Returned(st, "ITC_FAILED")
<1>1. /\ new.pc = "idle" /\ new.result = "ITC_FAILED" /\ new.calls = st.calls
      /\ new.sysv = st.sysv /\ new.rx = st.rx
      /\ new.fd = NoFd /\ new.sockFd = st.sockFd /\ new.eventFd = st.eventFd
  BY ReturnedFacts
<1> HIDE DEF new
<1>2. st.calls # 0
  BY DEF StateOK, FirstCallOK
<1>3. KnownAreOpen(new, fds \cup more)
  BY <1>1 DEF StateOK, KnownAreOpen
<1>4. StageOK(new)
  BY <1>1 DEF StateOK, StageOK, Connecting
<1>5. FirstCallOK(new, fds \cup more)
  BY <1>1, <1>2 DEF FirstCallOK, Locating, Connecting
<1> QED
  BY <1>3, <1>4, <1>5 DEF StateOK, new

(* ItcTransportSysvMsgQueue::initialise begins: what SysvBegin changes.    *)
LEMMA SysvBeginFacts ==
    ASSUME NEW st \in RegionState
    PROVE  /\ SysvBegin(st) \in RegionState
           /\ SysvBegin(st).pc = (IF st.sysv THEN "transports" ELSE "sysv") /\ SysvBegin(st).calls = st.calls
           /\ SysvBegin(st).result = st.result /\ (SysvBegin(st).transports => st.transports /\ ~st.sysv)
           /\ SysvBegin(st).serverRunning = st.serverRunning /\ SysvBegin(st).pathCreated = st.pathCreated
           /\ SysvBegin(st).sockFd = st.sockFd /\ SysvBegin(st).fd = st.fd
           /\ SysvBegin(st).sysv = st.sysv /\ SysvBegin(st).sync = st.sync
           /\ SysvBegin(st).rx = st.rx /\ SysvBegin(st).rxTerminated = st.rxTerminated
           /\ SysvBegin(st).eventFd = st.eventFd /\ SysvBegin(st).life = st.life
           /\ SysvBegin(st).threads = st.threads /\ SysvBegin(st).removed = st.removed
<1>1. CASE st.sysv
  <2>1. SysvBegin(st) = [st EXCEPT !.pc = "transports", !.transports = FALSE]
    BY <1>1 DEF SysvBegin
  <2>2. SysvBegin(st) \in RegionState
    BY <2>1 DEF RegionState, PcValues
  <2> QED
    BY <1>1, <2>1, <2>2 DEF RegionState
<1>2. CASE ~st.sysv
  <2>1. SysvBegin(st) = [st EXCEPT !.pc = "sysv"]
    BY <1>2 DEF SysvBegin
  <2>2. SysvBegin(st) \in RegionState
    BY <2>1 DEF RegionState, PcValues
  <2> QED
    BY <1>2, <2>1, <2>2 DEF RegionState
<1> QED
  BY <1>1, <1>2

(* ItcTransportLSocket::initialise fails: what LSocketFailed changes.      *)
LEMMA LSocketFailedFacts ==
    ASSUME NEW st \in RegionState
    PROVE  /\ LSocketFailed(st) \in RegionState
           /\ LSocketFailed(st).pc = IF st.sysv THEN "transports" ELSE "sysv"
           /\ LSocketFailed(st).calls = st.calls
           /\ LSocketFailed(st).result = st.result /\ ~LSocketFailed(st).transports
           /\ LSocketFailed(st).serverRunning = st.serverRunning /\ LSocketFailed(st).pathCreated = st.pathCreated
           /\ LSocketFailed(st).sockFd = st.sockFd /\ LSocketFailed(st).fd = NoFd
           /\ LSocketFailed(st).sysv = st.sysv /\ LSocketFailed(st).sync = st.sync
           /\ LSocketFailed(st).rx = st.rx /\ LSocketFailed(st).rxTerminated = st.rxTerminated
           /\ LSocketFailed(st).eventFd = st.eventFd /\ LSocketFailed(st).life = st.life
           /\ LSocketFailed(st).threads = st.threads /\ LSocketFailed(st).removed = st.removed
<1> DEFINE mid == [st EXCEPT !.transports = FALSE, !.fd = NoFd, !.link = "none"]
<1>1. mid \in RegionState
  BY DEF RegionState, PcValues, Locating, Connecting, AnyFd, NoFd
<1>2. /\ mid.pc = st.pc /\ mid.calls = st.calls
      /\ mid.result = st.result /\ mid.transports = FALSE
      /\ mid.serverRunning = st.serverRunning /\ mid.pathCreated = st.pathCreated
      /\ mid.sockFd = st.sockFd /\ mid.fd = NoFd
      /\ mid.sysv = st.sysv /\ mid.sync = st.sync
      /\ mid.rx = st.rx /\ mid.rxTerminated = st.rxTerminated
      /\ mid.eventFd = st.eventFd /\ mid.life = st.life
      /\ mid.threads = st.threads /\ mid.removed = st.removed
  BY DEF RegionState
<1>3. LSocketFailed(st) = SysvBegin(mid)
  BY DEF LSocketFailed
<1> HIDE DEF mid
<1> QED
  BY <1>1, <1>2, <1>3, SysvBeginFacts

(* What has to hold of a region that is about to try, or to give up, the   *)
(* socket of ItcTransportLSocket.                                          *)
Between(st, fds) ==
    /\ {st.sockFd, st.eventFd} \ {NoFd} \subseteq fds
    /\ st.sockFd # NoFd => st.sockFd # st.eventFd
    /\ st.result # "ITC_OK" /\ st.calls # 0
    /\ st.rx # "none" => st.sysv

(* After a failure of the socket the region is consistent.                 *)
LEMMA LSocketFails ==
    ASSUME NEW st \in RegionState, NEW fds \in SUBSET Fd, Between(st, fds)
    PROVE  StateOK(LSocketFailed(st), fds)
<1> DEFINE new == LSocketFailed(st)
<1>1. /\ new.pc = (IF st.sysv THEN "transports" ELSE "sysv") /\ ~new.transports
      /\ new.sysv = st.sysv /\ new.rx = st.rx
      /\ new.fd = NoFd /\ new.sockFd = st.sockFd /\ new.eventFd = st.eventFd
      /\ new.result = st.result /\ new.calls = st.calls
  BY LSocketFailedFacts
<1> HIDE DEF new
<1>2. KnownAreOpen(new, fds)
  BY <1>1 DEF KnownAreOpen, Between
<1>3. StageOK(new)
  BY <1>1 DEF StageOK, Connecting, Between
<1>4. FirstCallOK(new, fds)
  BY <1>1 DEF FirstCallOK, Locating, Connecting, Between
<1> QED
  BY <1>2, <1>3, <1>4 DEF StateOK, new

(* A region in the middle of initialise is between the two.                *)
LEMMA InTheMiddle ==
    ASSUME NEW st \in RegionState, NEW fds \in SUBSET Fd, NEW more \in SUBSET Fd,
           StateOK(st, fds), st.pc # "idle"
    PROVE  Between(st, fds \cup more)
BY DEF StateOK, KnownAreOpen, StageOK, FirstCallOK, Between

(* ItcTransportLSocket::initialise begins: the region is consistent.       *)
LEMMA LSocketBegins ==
    ASSUME NEW st \in RegionState, NEW fds \in SUBSET Fd, Between(st, fds),
           st.fd = NoFd,
           st.calls = 1 => st.sockFd = NoFd /\ st.eventFd = NoFd /\ fds = {}
    PROVE  /\ LSocketBegin(st) \in RegionState
           /\ StateOK(LSocketBegin(st), fds)
           /\ LSocketBegin(st).pathCreated = st.pathCreated
           /\ LSocketBegin(st).removed = st.removed
<1>1. CASE ~st.serverRunning
  BY <1>1, LSocketFails, LSocketFailedFacts DEF LSocketBegin
<1>2. CASE st.serverRunning
  <2> DEFINE label == IF st.pathCreated THEN "lsocketConnect" ELSE "exists"
             new == [st EXCEPT !.pc = label]
  <2>1. new \in RegionState
    BY DEF RegionState, PcValues, Locating, Connecting, AnyFd, NoFd
  <2>2. /\ new.pc = label /\ new.calls = st.calls
        /\ new.result = st.result /\ new.transports = st.transports
        /\ new.serverRunning = st.serverRunning /\ new.pathCreated = st.pathCreated
        /\ new.sockFd = st.sockFd /\ new.fd = st.fd
        /\ new.sysv = st.sysv /\ new.sync = st.sync
        /\ new.rx = st.rx /\ new.rxTerminated = st.rxTerminated
        /\ new.eventFd = st.eventFd /\ new.life = st.life
        /\ new.threads = st.threads /\ new.removed = st.removed
    BY DEF RegionState
  <2>3. LSocketBegin(st) = new
    BY <1>2 DEF LSocketBegin
  <2> HIDE DEF new
  <2>4. KnownAreOpen(new, fds)
    BY <2>2 DEF KnownAreOpen, Between
  <2>5. StageOK(new)
    BY <1>2, <2>2 DEF StageOK, Connecting, Between
  <2>6. FirstCallOK(new, fds)
    BY <2>2 DEF FirstCallOK, Locating, Connecting, Between
  <2> QED
    BY <2>1, <2>2, <2>3, <2>4, <2>5, <2>6 DEF StateOK
<1> QED
  BY <1>1, <1>2

(* socket() may fail, or succeed before connect() does not.                *)
LEMMA SocketOutcome ==
    ASSUME TypeOK, NEW r \in Region, NoSocket(r) \/ SocketLost(r)
    PROVE  \E more \in SUBSET Fd : open' = [open EXCEPT ![r] = open[r] \cup more]
<1>1. CASE NoSocket(r)
  <2>1. open' = [open EXCEPT ![r] = open[r] \cup {}]
    BY <1>1 DEF NoSocket, TypeOK
  <2> QED
    BY <2>1
<1>2. CASE SocketLost(r)
  <2>1. open' = [open EXCEPT ![r] = open[r] \cup {LowestFree(r)}]
        /\ LowestFree(r) \in Fd
    BY <1>2, LowestIsFree DEF SocketLost
  <2> QED
    BY <2>1
<1> QED
  BY <1>1, <1>2

(* checkAndStartItcServer and locateItcServer keep the invariant.          *)
LEMMA LocateSteps ==
    ASSUME IInv, NEW r \in Region,
           \/ (\E isServer \in BOOLEAN : CallInitialise(r, isServer))
           \/ ServerExists(r) \/ ServerMissing(r) \/ startDaemon(r) \/ ForkFails(r)
           \/ LocateConnect(r) \/ LocateConnectFails(r) \/ LocateFails(r) \/ LocateReply(r)
           \/ (\E known \in BOOLEAN : LocateRefused(r, known))
    PROVE  IInv'
<1> DEFINE st == region[r]
<1>0. st \in RegionState /\ open[r] \in SUBSET Fd /\ StateOK(st, open[r]) /\ TypeOK
  BY DEF IInv, TypeOK
<1>1. ASSUME NEW isServer \in BOOLEAN, CallInitialise(r, isServer) PROVE IInv'
  <2> DEFINE new == [st EXCEPT !.pc = "check", !.calls = st.calls + 1, !.isServer = isServer,
                               !.result = "none", !.transports = TRUE]
             fds == open[r]
  <2>1. /\ region' = [region EXCEPT ![r] = new] /\ open' = [open EXCEPT ![r] = fds]
        /\ SockFolder \in disk => SockFolder \in disk'
        /\ st.pc = "idle"
    BY <1>0, <1>1 DEF CallInitialise, At, TypeOK
  <2>2. new \in RegionState /\ fds \in SUBSET Fd
    <3>1. st.calls + 1 \in Nat
      BY <1>0 DEF RegionState
    <3>2. new \in RegionState
      BY <1>0, <1>1, <3>1 DEF RegionState, PcValues, Locating
    <3> QED
      BY <1>0, <3>2
  <2>3. /\ new.pc = "check" /\ new.calls = st.calls + 1
        /\ new.result = "none" /\ new.transports = TRUE
        /\ new.serverRunning = st.serverRunning /\ new.pathCreated = st.pathCreated
        /\ new.sockFd = st.sockFd /\ new.fd = st.fd
        /\ new.sysv = st.sysv /\ new.sync = st.sync
        /\ new.rx = st.rx /\ new.rxTerminated = st.rxTerminated
        /\ new.eventFd = st.eventFd /\ new.life = st.life
        /\ new.threads = st.threads /\ new.removed = st.removed
    BY <1>0 DEF RegionState
  <2> HIDE DEF new
  <2>4. StateOK(new, fds)
    <3>1. st.calls \in Nat
      BY <1>0 DEF RegionState
    <3>2. KnownAreOpen(new, fds)
      BY <1>0, <2>1, <2>3 DEF StateOK, KnownAreOpen
    <3>3. StageOK(new)
      BY <1>0, <2>3 DEF StateOK, StageOK, Connecting
    <3>4. FirstCallOK(new, fds)
      <4>1. new.calls # 0 /\ (new.calls = 1 => st.calls = 0)
        BY <2>3, <3>1
      <4>2. st.calls = 0 => st.sockFd = NoFd /\ st.eventFd = NoFd /\ fds = {}
        BY <1>0 DEF StateOK, FirstCallOK
      <4>3. st.fd = NoFd
        BY <1>0, <2>1 DEF StateOK, KnownAreOpen
      <4> QED
        BY <2>3, <4>1, <4>2, <4>3 DEF FirstCallOK
    <3> QED
      BY <3>2, <3>3, <3>4 DEF StateOK
  <2>5. Moves(st, new)
    BY <2>1, <2>3 DEF Moves
  <2> QED
    BY <1>0, <2>1, <2>2, <2>4, <2>5, Frame
<1>2. ASSUME ServerExists(r) PROVE IInv'
  <2> DEFINE new == Returned(st, "ITC_FAILED")
             fds == open[r] \cup {}
  <2>1. /\ region' = [region EXCEPT ![r] = new] /\ open' = [open EXCEPT ![r] = fds]
        /\ SockFolder \in disk => SockFolder \in disk'
        /\ st.pc = "check"
    BY <1>0, <1>2 DEF ServerExists, At, TypeOK, Return
  <2>2. new \in RegionState /\ fds \in SUBSET Fd
    BY <1>0, ReturnedFacts
  <2>4. StateOK(new, fds)
    BY <1>0, <2>1, ReturnFails
  <2>5. Moves(st, new)
    BY <1>0, ReturnedFacts DEF Moves
  <2> QED
    BY <1>0, <2>1, <2>2, <2>4, <2>5, Frame
<1>3. ASSUME ServerMissing(r) PROVE IInv'
  <2> DEFINE new == [st EXCEPT !.pc = "fork"]
             fds == open[r]
  <2>1. /\ region' = [region EXCEPT ![r] = new] /\ open' = [open EXCEPT ![r] = fds]
        /\ SockFolder \in disk => SockFolder \in disk'
        /\ st.pc = "check"
    BY <1>0, <1>3 DEF ServerMissing, At, TypeOK
  <2>2. new \in RegionState /\ fds \in SUBSET Fd
    BY <1>0, <2>1 DEF RegionState, PcValues, Locating, Connecting, AnyFd, NoFd
  <2>3. /\ new.pc = "fork" /\ new.calls = st.calls
        /\ new.result = st.result /\ new.transports = st.transports
        /\ new.serverRunning = st.serverRunning /\ new.pathCreated = st.pathCreated
        /\ new.sockFd = st.sockFd /\ new.fd = st.fd
        /\ new.sysv = st.sysv /\ new.sync = st.sync
        /\ new.rx = st.rx /\ new.rxTerminated = st.rxTerminated
        /\ new.eventFd = st.eventFd /\ new.life = st.life
        /\ new.threads = st.threads /\ new.removed = st.removed
    BY <1>0 DEF RegionState
  <2> HIDE DEF new
  <2>4. StateOK(new, fds)
    BY <1>0, <2>1, <2>3, FdIsOne
    DEF StateOK, KnownAreOpen, StageOK, FirstCallOK, LSocketReady, HasThread,
        Locating, Connecting
  <2>5. Moves(st, new)
    BY <2>1, <2>3 DEF Moves
  <2> QED
    BY <1>0, <2>1, <2>2, <2>4, <2>5, Frame
<1>4. ASSUME startDaemon(r) PROVE IInv'
  <2> DEFINE new == IF st.isServer THEN LSocketBegin(st) ELSE [st EXCEPT !.pc = "locateConnect"]
             fds == open[r]
  <2>1. /\ region' = [region EXCEPT ![r] = new] /\ open' = [open EXCEPT ![r] = fds]
        /\ SockFolder \in disk => SockFolder \in disk'
        /\ st.pc = "fork"
    BY <1>0, <1>4 DEF startDaemon, At, TypeOK
  <2>2. CASE st.isServer
    <3>1. Between(st, fds \cup {})
      BY <1>0, <2>1, InTheMiddle
    <3>2. st.fd = NoFd /\ (st.calls = 1 => st.sockFd = NoFd /\ st.eventFd = NoFd /\ fds = {})
      BY <1>0, <2>1 DEF StateOK, KnownAreOpen, FirstCallOK, Locating
    <3>3. LSocketBegin(st) \in RegionState /\ StateOK(LSocketBegin(st), fds)
          /\ Moves(st, LSocketBegin(st))
      BY <1>0, <3>1, <3>2, LSocketBegins DEF Moves
    <3> QED
      BY <1>0, <2>1, <2>2, <3>3, Frame
  <2>3. CASE ~st.isServer
    <3> DEFINE next == [st EXCEPT !.pc = "locateConnect"]
    <3>1. next \in RegionState
      BY <1>0 DEF RegionState, PcValues, Locating, Connecting, AnyFd, NoFd
    <3>2. /\ next.pc = "locateConnect" /\ next.calls = st.calls
          /\ next.result = st.result /\ next.transports = st.transports
          /\ next.serverRunning = st.serverRunning /\ next.pathCreated = st.pathCreated
          /\ next.sockFd = st.sockFd /\ next.fd = st.fd
          /\ next.sysv = st.sysv /\ next.sync = st.sync
          /\ next.rx = st.rx /\ next.rxTerminated = st.rxTerminated
          /\ next.eventFd = st.eventFd /\ next.life = st.life
          /\ next.threads = st.threads /\ next.removed = st.removed
      BY <1>0 DEF RegionState
    <3>3. new = next
      BY <2>3
    <3> HIDE DEF next, new
    <3>4. StateOK(next, fds) /\ Moves(st, next)
      BY <1>0, <2>1, <3>2
      DEF StateOK, KnownAreOpen, StageOK, FirstCallOK, LSocketReady, HasThread,
          Locating, Connecting, Moves
    <3> QED
      BY <1>0, <2>1, <3>1, <3>3, <3>4, Frame
  <2> QED
    BY <2>2, <2>3
<1>5. ASSUME ForkFails(r) PROVE IInv'
  <2> DEFINE new == Returned(st, "ITC_FAILED")
             fds == open[r] \cup {}
  <2>1. /\ region' = [region EXCEPT ![r] = new] /\ open' = [open EXCEPT ![r] = fds]
        /\ SockFolder \in disk => SockFolder \in disk'
        /\ st.pc = "fork"
    BY <1>0, <1>5 DEF ForkFails, At, TypeOK, Return
  <2>2. new \in RegionState /\ fds \in SUBSET Fd
    BY <1>0, ReturnedFacts
  <2>4. StateOK(new, fds)
    BY <1>0, <2>1, ReturnFails
  <2>5. Moves(st, new)
    BY <1>0, ReturnedFacts DEF Moves
  <2> QED
    BY <1>0, <2>1, <2>2, <2>4, <2>5, Frame
<1>6. ASSUME LocateConnect(r) PROVE IInv'
  <2> DEFINE new == [st EXCEPT !.pc = "locateRecv", !.link = "live", !.fd = LowestFree(r)]
             fds == open[r] \cup {LowestFree(r)}
  <2>1. /\ region' = [region EXCEPT ![r] = new] /\ open' = [open EXCEPT ![r] = fds]
        /\ SockFolder \in disk => SockFolder \in disk'
        /\ st.pc = "locateConnect"
        /\ LowestFree(r) \in Fd \ open[r]
    BY <1>0, <1>6, LowestIsFree DEF LocateConnect, At, TypeOK
  <2>2. new \in RegionState /\ fds \in SUBSET Fd
    BY <1>0, <2>1 DEF RegionState, PcValues, Locating, Connecting, AnyFd, NoFd
  <2>3. /\ new.pc = "locateRecv" /\ new.calls = st.calls
        /\ new.result = st.result /\ new.transports = st.transports
        /\ new.serverRunning = st.serverRunning /\ new.pathCreated = st.pathCreated
        /\ new.sockFd = st.sockFd /\ new.fd = LowestFree(r)
        /\ new.sysv = st.sysv /\ new.sync = st.sync
        /\ new.rx = st.rx /\ new.rxTerminated = st.rxTerminated
        /\ new.eventFd = st.eventFd /\ new.life = st.life
        /\ new.threads = st.threads /\ new.removed = st.removed
    BY <1>0 DEF RegionState
  <2> HIDE DEF new
  <2>4. StateOK(new, fds)
    BY <1>0, <2>1, <2>3, FdIsOne
    DEF StateOK, KnownAreOpen, StageOK, FirstCallOK, LSocketReady, HasThread,
        Locating, Connecting
  <2>5. Moves(st, new)
    BY <2>1, <2>3 DEF Moves
  <2> QED
    BY <1>0, <2>1, <2>2, <2>4, <2>5, Frame
<1>7. ASSUME LocateConnectFails(r) PROVE IInv'
  <2>1. /\ region' = [region EXCEPT ![r] = Returned(st, "ITC_FAILED")]
        /\ SockFolder \in disk => SockFolder \in disk'
        /\ st.pc = "locateConnect"
    BY <1>0, <1>7 DEF LocateConnectFails, At, Return, TypeOK
  <2>2. PICK more \in SUBSET Fd : open' = [open EXCEPT ![r] = open[r] \cup more]
    BY <1>0, <1>7, SocketOutcome DEF LocateConnectFails
  <2>3. Moves(st, Returned(st, "ITC_FAILED")) /\ Returned(st, "ITC_FAILED") \in RegionState
    BY <1>0, ReturnedFacts DEF Moves
  <2>4. StateOK(Returned(st, "ITC_FAILED"), open[r] \cup more)
    BY <1>0, <2>1, ReturnFails
  <2> QED
    BY <1>0, <2>1, <2>2, <2>3, <2>4, Frame
<1>8. ASSUME LocateFails(r) PROVE IInv'
  <2> DEFINE new == Returned(st, "ITC_FAILED")
             fds == open[r] \cup {}
  <2>1. /\ region' = [region EXCEPT ![r] = new] /\ open' = [open EXCEPT ![r] = fds]
        /\ SockFolder \in disk => SockFolder \in disk'
        /\ st.pc = "locateRecv"
    BY <1>0, <1>8 DEF LocateFails, At, TypeOK, Return
  <2>2. new \in RegionState /\ fds \in SUBSET Fd
    BY <1>0, ReturnedFacts
  <2>4. StateOK(new, fds)
    BY <1>0, <2>1, ReturnFails
  <2>5. Moves(st, new)
    BY <1>0, ReturnedFacts DEF Moves
  <2> QED
    BY <1>0, <2>1, <2>2, <2>4, <2>5, Frame
<1>9. ASSUME LocateReply(r) PROVE IInv'
  <2> DEFINE mid == [st EXCEPT !.serverRunning = TRUE, !.fd = NoFd, !.link = "none"]
             fds == open[r] \ {st.fd}
  <2>1. /\ region' = [region EXCEPT ![r] = LSocketBegin(mid)]
        /\ open' = [open EXCEPT ![r] = fds]
        /\ SockFolder \in disk => SockFolder \in disk'
        /\ st.pc = "locateRecv"
    BY <1>0, <1>9 DEF LocateReply, At, TypeOK
  <2>2. mid \in RegionState
    BY <1>0 DEF RegionState, PcValues, Locating, Connecting, AnyFd, NoFd
  <2>3. /\ mid.pc = st.pc /\ mid.calls = st.calls
        /\ mid.result = st.result /\ mid.transports = st.transports
        /\ mid.serverRunning = TRUE /\ mid.pathCreated = st.pathCreated
        /\ mid.sockFd = st.sockFd /\ mid.fd = NoFd
        /\ mid.sysv = st.sysv /\ mid.sync = st.sync
        /\ mid.rx = st.rx /\ mid.rxTerminated = st.rxTerminated
        /\ mid.eventFd = st.eventFd /\ mid.life = st.life
        /\ mid.threads = st.threads /\ mid.removed = st.removed
    BY <1>0 DEF RegionState
  <2> HIDE DEF mid
  <2>4. /\ Between(mid, fds)
        /\ mid.calls = 1 => mid.sockFd = NoFd /\ mid.eventFd = NoFd /\ fds = {}
    BY <1>0, <2>1, <2>3
    DEF Between, StateOK, KnownAreOpen, StageOK, FirstCallOK, LSocketReady,
        HasThread, Locating, Connecting
  <2>5. LSocketBegin(mid) \in RegionState /\ StateOK(LSocketBegin(mid), fds)
        /\ Moves(st, LSocketBegin(mid))
    BY <1>0, <2>2, <2>3, <2>4, LSocketBegins DEF Moves
  <2> QED
    BY <1>0, <2>1, <2>5, Frame
<1>10. ASSUME NEW known \in BOOLEAN, LocateRefused(r, known) PROVE IInv'
  <2> DEFINE back == Returned(st, "ITC_FAILED")
             new == [back EXCEPT !.serverRunning = back.serverRunning \/ known]
             fds == open[r] \ {st.fd}
  <2>1. /\ region' = [region EXCEPT ![r] = new]
        /\ open' = [open EXCEPT ![r] = fds]
        /\ SockFolder \in disk => SockFolder \in disk'
        /\ st.pc = "locateRecv"
    <3>1. region' = [region EXCEPT ![r] = new]
      BY <1>10 DEF LocateRefused
    <3>2. open' = [open EXCEPT ![r] = fds] /\ disk' = disk /\ st.pc = "locateRecv"
      BY <1>0, <1>10 DEF LocateRefused, At
    <3> QED
      BY <3>1, <3>2
  <2>2. back \in RegionState
        /\ back.pc = "idle" /\ back.result = "ITC_FAILED" /\ back.calls = st.calls
        /\ back.fd = NoFd /\ back.sockFd = st.sockFd /\ back.eventFd = st.eventFd
        /\ back.pathCreated = st.pathCreated /\ back.removed = st.removed
        /\ back.sysv = st.sysv /\ back.rx = st.rx
    BY <1>0, ReturnedFacts
  <2> HIDE DEF back
  <2>3. new \in RegionState
    BY <2>2 DEF RegionState
  <2>4. /\ new.pc = "idle" /\ new.result = "ITC_FAILED" /\ new.calls = st.calls
        /\ new.fd = NoFd /\ new.sockFd = st.sockFd /\ new.eventFd = st.eventFd
        /\ new.pathCreated = st.pathCreated /\ new.removed = st.removed
        /\ new.sysv = st.sysv /\ new.rx = st.rx
    BY <2>2 DEF RegionState
  <2> HIDE DEF new
  <2>5. StateOK(new, fds) /\ Moves(st, new)
    BY <1>0, <2>1, <2>4
    DEF StateOK, KnownAreOpen, StageOK, FirstCallOK, LSocketReady, HasThread,
        Locating, Connecting, Moves
  <2> QED
    BY <1>0, <2>1, <2>3, <2>5, Frame
<1> QED
  BY <1>1, <1>2, <1>3, <1>4, <1>5, <1>6, <1>7, <1>8, <1>9, <1>10

(* The socket folder and ItcTransportLSocket keep the invariant.           *)
LEMMA LSocketSteps ==
    ASSUME IInv, NEW r \in Region,
           \/ PathExists(r) \/ CreateDirectories(r) \/ CreateDirectoriesFails(r)
           \/ Grant(r) \/ GrantFails(r)
           \/ LSocketConnect(r) \/ LSocketConnectFails(r)
           \/ AckWrong(r) \/ AckMissing(r) \/ AckReceived(r)
           \/ LSocketRelease(r) \/ RemovePath(r) \/ RemovePathThrows(r)
    PROVE  IInv'
<1> DEFINE st == region[r]
<1>0. st \in RegionState /\ open[r] \in SUBSET Fd /\ StateOK(st, open[r]) /\ TypeOK
  BY DEF IInv, TypeOK
<1>1. ASSUME PathExists(r) PROVE IInv'
  <2> DEFINE new == [st EXCEPT !.pc = "lsocketConnect", !.pathCreated = TRUE]
             fds == open[r]
  <2>1. /\ region' = [region EXCEPT ![r] = new] /\ open' = [open EXCEPT ![r] = fds]
        /\ SockFolder \in disk => SockFolder \in disk'
        /\ st.pc = "exists" /\ SockFolder \in disk
    BY <1>0, <1>1 DEF PathExists, At, TypeOK, PathReady
  <2>2. new \in RegionState /\ fds \in SUBSET Fd
    BY <1>0, <2>1 DEF RegionState, PcValues, Locating, Connecting, AnyFd, NoFd
  <2>3. /\ new.pc = "lsocketConnect" /\ new.calls = st.calls
        /\ new.result = st.result /\ new.transports = st.transports
        /\ new.serverRunning = st.serverRunning /\ new.pathCreated = TRUE
        /\ new.sockFd = st.sockFd /\ new.fd = st.fd
        /\ new.sysv = st.sysv /\ new.sync = st.sync
        /\ new.rx = st.rx /\ new.rxTerminated = st.rxTerminated
        /\ new.eventFd = st.eventFd /\ new.life = st.life
        /\ new.threads = st.threads /\ new.removed = st.removed
    BY <1>0 DEF RegionState
  <2> HIDE DEF new
  <2>4. StateOK(new, fds)
    BY <1>0, <2>1, <2>3, FdIsOne
    DEF StateOK, KnownAreOpen, StageOK, FirstCallOK, LSocketReady, HasThread,
        Locating, Connecting
  <2>5. Moves(st, new)
    BY <2>1, <2>3 DEF Moves
  <2> QED
    BY <1>0, <2>1, <2>2, <2>4, <2>5, Frame
<1>2. ASSUME CreateDirectories(r) PROVE IInv'
  <2> DEFINE new == [st EXCEPT !.pc = "granting"]
             fds == open[r]
  <2>1. /\ region' = [region EXCEPT ![r] = new] /\ open' = [open EXCEPT ![r] = fds]
        /\ SockFolder \in disk => SockFolder \in disk'
        /\ st.pc = "exists"
    BY <1>0, <1>2 DEF CreateDirectories, At, TypeOK
  <2>2. new \in RegionState /\ fds \in SUBSET Fd
    BY <1>0, <2>1 DEF RegionState, PcValues, Locating, Connecting, AnyFd, NoFd
  <2>3. /\ new.pc = "granting" /\ new.calls = st.calls
        /\ new.result = st.result /\ new.transports = st.transports
        /\ new.serverRunning = st.serverRunning /\ new.pathCreated = st.pathCreated
        /\ new.sockFd = st.sockFd /\ new.fd = st.fd
        /\ new.sysv = st.sysv /\ new.sync = st.sync
        /\ new.rx = st.rx /\ new.rxTerminated = st.rxTerminated
        /\ new.eventFd = st.eventFd /\ new.life = st.life
        /\ new.threads = st.threads /\ new.removed = st.removed
    BY <1>0 DEF RegionState
  <2> HIDE DEF new
  <2>4. StateOK(new, fds)
    BY <1>0, <2>1, <2>3, FdIsOne
    DEF StateOK, KnownAreOpen, StageOK, FirstCallOK, LSocketReady, HasThread,
        Locating, Connecting
  <2>5. Moves(st, new)
    BY <2>1, <2>3 DEF Moves
  <2> QED
    BY <1>0, <2>1, <2>2, <2>4, <2>5, Frame
<1>3. ASSUME CreateDirectoriesFails(r) PROVE IInv'
  <2> DEFINE new == LSocketFailed(st)
             fds == open[r] \cup {}
  <2>1. /\ region' = [region EXCEPT ![r] = new] /\ open' = [open EXCEPT ![r] = fds]
        /\ SockFolder \in disk => SockFolder \in disk'
        /\ st.pc = "exists"
    BY <1>0, <1>3 DEF CreateDirectoriesFails, At, TypeOK
  <2>2. new \in RegionState /\ fds \in SUBSET Fd
    BY <1>0, LSocketFailedFacts
  <2>4. StateOK(new, fds)
    BY <1>0, <2>1, InTheMiddle, LSocketFails
  <2>5. Moves(st, new)
    BY <1>0, LSocketFailedFacts DEF Moves
  <2> QED
    BY <1>0, <2>1, <2>2, <2>4, <2>5, Frame
<1>4. ASSUME Grant(r) PROVE IInv'
  <2> DEFINE new == [st EXCEPT !.pc = "lsocketConnect", !.pathCreated = TRUE]
             fds == open[r]
  <2>1. /\ region' = [region EXCEPT ![r] = new] /\ open' = [open EXCEPT ![r] = fds]
        /\ SockFolder \in disk => SockFolder \in disk'
        /\ st.pc = "granting" /\ SockFolder \in disk
    BY <1>0, <1>4 DEF Grant, At, TypeOK, PathReady
  <2>2. new \in RegionState /\ fds \in SUBSET Fd
    BY <1>0, <2>1 DEF RegionState, PcValues, Locating, Connecting, AnyFd, NoFd
  <2>3. /\ new.pc = "lsocketConnect" /\ new.calls = st.calls
        /\ new.result = st.result /\ new.transports = st.transports
        /\ new.serverRunning = st.serverRunning /\ new.pathCreated = TRUE
        /\ new.sockFd = st.sockFd /\ new.fd = st.fd
        /\ new.sysv = st.sysv /\ new.sync = st.sync
        /\ new.rx = st.rx /\ new.rxTerminated = st.rxTerminated
        /\ new.eventFd = st.eventFd /\ new.life = st.life
        /\ new.threads = st.threads /\ new.removed = st.removed
    BY <1>0 DEF RegionState
  <2> HIDE DEF new
  <2>4. StateOK(new, fds)
    BY <1>0, <2>1, <2>3, FdIsOne
    DEF StateOK, KnownAreOpen, StageOK, FirstCallOK, LSocketReady, HasThread,
        Locating, Connecting
  <2>5. Moves(st, new)
    BY <2>1, <2>3 DEF Moves
  <2> QED
    BY <1>0, <2>1, <2>2, <2>4, <2>5, Frame
<1>5. ASSUME GrantFails(r) PROVE IInv'
  <2> DEFINE new == LSocketFailed(st)
             fds == open[r] \cup {}
  <2>1. /\ region' = [region EXCEPT ![r] = new] /\ open' = [open EXCEPT ![r] = fds]
        /\ SockFolder \in disk => SockFolder \in disk'
        /\ st.pc = "granting"
    BY <1>0, <1>5 DEF GrantFails, At, TypeOK
  <2>2. new \in RegionState /\ fds \in SUBSET Fd
    BY <1>0, LSocketFailedFacts
  <2>4. StateOK(new, fds)
    BY <1>0, <2>1, InTheMiddle, LSocketFails
  <2>5. Moves(st, new)
    BY <1>0, LSocketFailedFacts DEF Moves
  <2> QED
    BY <1>0, <2>1, <2>2, <2>4, <2>5, Frame
<1>6. ASSUME LSocketConnect(r) PROVE IInv'
  <2> DEFINE new == [st EXCEPT !.pc = "lsocketAck", !.link = "live", !.fd = LowestFree(r)]
             fds == open[r] \cup {LowestFree(r)}
  <2>1. /\ region' = [region EXCEPT ![r] = new] /\ open' = [open EXCEPT ![r] = fds]
        /\ SockFolder \in disk => SockFolder \in disk'
        /\ st.pc = "lsocketConnect"
        /\ LowestFree(r) \in Fd \ open[r]
    BY <1>0, <1>6, LowestIsFree DEF LSocketConnect, At, TypeOK
  <2>2. new \in RegionState /\ fds \in SUBSET Fd
    BY <1>0, <2>1 DEF RegionState, PcValues, Locating, Connecting, AnyFd, NoFd
  <2>3. /\ new.pc = "lsocketAck" /\ new.calls = st.calls
        /\ new.result = st.result /\ new.transports = st.transports
        /\ new.serverRunning = st.serverRunning /\ new.pathCreated = st.pathCreated
        /\ new.sockFd = st.sockFd /\ new.fd = LowestFree(r)
        /\ new.sysv = st.sysv /\ new.sync = st.sync
        /\ new.rx = st.rx /\ new.rxTerminated = st.rxTerminated
        /\ new.eventFd = st.eventFd /\ new.life = st.life
        /\ new.threads = st.threads /\ new.removed = st.removed
    BY <1>0 DEF RegionState
  <2> HIDE DEF new
  <2>4. StateOK(new, fds)
    BY <1>0, <2>1, <2>3, FdIsOne
    DEF StateOK, KnownAreOpen, StageOK, FirstCallOK, LSocketReady, HasThread,
        Locating, Connecting
  <2>5. Moves(st, new)
    BY <2>1, <2>3 DEF Moves
  <2> QED
    BY <1>0, <2>1, <2>2, <2>4, <2>5, Frame
<1>7. ASSUME LSocketConnectFails(r) PROVE IInv'
  <2>1. /\ region' = [region EXCEPT ![r] = LSocketFailed(st)]
        /\ SockFolder \in disk => SockFolder \in disk'
        /\ st.pc = "lsocketConnect"
    BY <1>0, <1>7 DEF LSocketConnectFails, At, TypeOK
  <2>2. PICK more \in SUBSET Fd : open' = [open EXCEPT ![r] = open[r] \cup more]
    BY <1>0, <1>7, SocketOutcome DEF LSocketConnectFails
  <2>3. Moves(st, LSocketFailed(st)) /\ LSocketFailed(st) \in RegionState
    BY <1>0, LSocketFailedFacts DEF Moves
  <2>4. StateOK(LSocketFailed(st), open[r] \cup more)
    BY <1>0, <2>1, InTheMiddle, LSocketFails
  <2> QED
    BY <1>0, <2>1, <2>2, <2>3, <2>4, Frame
<1>8. ASSUME AckWrong(r) PROVE IInv'
  <2> DEFINE new == LSocketFailed(st)
             fds == open[r] \cup {}
  <2>1. /\ region' = [region EXCEPT ![r] = new] /\ open' = [open EXCEPT ![r] = fds]
        /\ SockFolder \in disk => SockFolder \in disk'
        /\ st.pc = "lsocketAck"
    BY <1>0, <1>8 DEF AckWrong, At, TypeOK
  <2>2. new \in RegionState /\ fds \in SUBSET Fd
    BY <1>0, LSocketFailedFacts
  <2>4. StateOK(new, fds)
    BY <1>0, <2>1, InTheMiddle, LSocketFails
  <2>5. Moves(st, new)
    BY <1>0, LSocketFailedFacts DEF Moves
  <2> QED
    BY <1>0, <2>1, <2>2, <2>4, <2>5, Frame
<1>9. ASSUME AckMissing(r) PROVE IInv'
  <2> DEFINE new == LSocketFailed(st)
             fds == open[r] \cup {}
  <2>1. /\ region' = [region EXCEPT ![r] = new] /\ open' = [open EXCEPT ![r] = fds]
        /\ SockFolder \in disk => SockFolder \in disk'
        /\ st.pc = "lsocketAck"
    BY <1>0, <1>9 DEF AckMissing, At, TypeOK
  <2>2. new \in RegionState /\ fds \in SUBSET Fd
    BY <1>0, LSocketFailedFacts
  <2>4. StateOK(new, fds)
    BY <1>0, <2>1, InTheMiddle, LSocketFails
  <2>5. Moves(st, new)
    BY <1>0, LSocketFailedFacts DEF Moves
  <2> QED
    BY <1>0, <2>1, <2>2, <2>4, <2>5, Frame
<1>10. ASSUME AckReceived(r) PROVE IInv'
  <2> DEFINE mid == [st EXCEPT !.sockFd = st.fd, !.fd = NoFd, !.link = "none"]
             new == SysvBegin(mid)
             fds == open[r]
  <2>1. /\ region' = [region EXCEPT ![r] = new] /\ open' = [open EXCEPT ![r] = fds]
        /\ SockFolder \in disk => SockFolder \in disk'
        /\ st.pc = "lsocketAck"
    BY <1>0, <1>10 DEF AckReceived, At, TypeOK
  <2>2. mid \in RegionState
    BY <1>0 DEF RegionState, PcValues, Locating, Connecting, AnyFd, NoFd
  <2>3. /\ mid.pc = st.pc /\ mid.calls = st.calls
        /\ mid.result = st.result /\ mid.transports = st.transports
        /\ mid.serverRunning = st.serverRunning /\ mid.pathCreated = st.pathCreated
        /\ mid.sockFd = st.fd /\ mid.fd = NoFd
        /\ mid.sysv = st.sysv /\ mid.sync = st.sync
        /\ mid.rx = st.rx /\ mid.rxTerminated = st.rxTerminated
        /\ mid.eventFd = st.eventFd /\ mid.life = st.life
        /\ mid.threads = st.threads /\ mid.removed = st.removed
    BY <1>0 DEF RegionState
  <2> HIDE DEF mid
  <2>4. new \in RegionState /\ new.pc \in {"sysv", "transports"}
        /\ (new.pc = "transports" => ~new.transports)
    BY <2>2, SysvBeginFacts
  <2>5. /\ new.pc = (IF st.sysv THEN "transports" ELSE "sysv") /\ new.calls = st.calls
        /\ new.result = st.result /\ (new.transports => st.transports /\ ~st.sysv)
        /\ new.serverRunning = st.serverRunning /\ new.pathCreated = st.pathCreated
        /\ new.sockFd = st.fd /\ new.fd = NoFd
        /\ new.sysv = st.sysv /\ new.sync = st.sync
        /\ new.rx = st.rx /\ new.rxTerminated = st.rxTerminated
        /\ new.eventFd = st.eventFd /\ new.life = st.life
        /\ new.threads = st.threads /\ new.removed = st.removed
    BY <2>2, <2>3, SysvBeginFacts
  <2> HIDE DEF new
  <2>6. StateOK(new, fds) /\ Moves(st, new)
    <3>1. KnownAreOpen(new, fds)
      BY <1>0, <2>1, <2>4, <2>5 DEF StateOK, KnownAreOpen
    <3>2. StageOK(new)
      BY <1>0, <2>1, <2>4, <2>5
      DEF StateOK, KnownAreOpen, StageOK, FirstCallOK, LSocketReady, HasThread,
          Locating, Connecting
    <3>3. FirstCallOK(new, fds)
      BY <1>0, <2>1, <2>4, <2>5
      DEF StateOK, KnownAreOpen, StageOK, FirstCallOK, LSocketReady, HasThread,
          Locating, Connecting
    <3> QED
      BY <2>5, <3>1, <3>2, <3>3 DEF StateOK, Moves
  <2> QED
    BY <1>0, <2>1, <2>4, <2>6, Frame
<1>11. ASSUME LSocketRelease(r) PROVE IInv'
  <2> DEFINE new == [st EXCEPT !.pc = "remove", !.sockFd = NoFd, !.result = "none"]
             fds == open[r] \ {st.sockFd}
  <2>1. /\ region' = [region EXCEPT ![r] = new] /\ open' = [open EXCEPT ![r] = fds]
        /\ SockFolder \in disk => SockFolder \in disk'
        /\ st.pc = "idle" /\ st.sockFd # NoFd
    BY <1>0, <1>11 DEF LSocketRelease, At, TypeOK
  <2>2. new \in RegionState /\ fds \in SUBSET Fd
    BY <1>0, <2>1 DEF RegionState, PcValues, Locating, Connecting, AnyFd, NoFd
  <2>3. /\ new.pc = "remove" /\ new.calls = st.calls
        /\ new.result = "none" /\ new.transports = st.transports
        /\ new.serverRunning = st.serverRunning /\ new.pathCreated = st.pathCreated
        /\ new.sockFd = NoFd /\ new.fd = st.fd
        /\ new.sysv = st.sysv /\ new.sync = st.sync
        /\ new.rx = st.rx /\ new.rxTerminated = st.rxTerminated
        /\ new.eventFd = st.eventFd /\ new.life = st.life
        /\ new.threads = st.threads /\ new.removed = st.removed
    BY <1>0 DEF RegionState
  <2> HIDE DEF new
  <2>4. StateOK(new, fds)
    BY <1>0, <2>1, <2>3, FdIsOne
    DEF StateOK, KnownAreOpen, StageOK, FirstCallOK, LSocketReady, HasThread,
        Locating, Connecting
  <2>5. Moves(st, new)
    BY <2>1, <2>3 DEF Moves
  <2> QED
    BY <1>0, <2>1, <2>2, <2>4, <2>5, Frame
<1>12. ASSUME RemovePath(r) PROVE IInv'
  <2> DEFINE new == [st EXCEPT !.pc = "idle", !.pathCreated = FALSE,
                               !.serverRunning = FALSE, !.removed = TRUE]
             fds == open[r]
  <2>1. /\ region' = [region EXCEPT ![r] = new] /\ open' = [open EXCEPT ![r] = fds]
        /\ st.pc = "remove"
    BY <1>0, <1>12 DEF RemovePath, At, TypeOK
  <2>2. new \in RegionState
    BY <1>0 DEF RegionState, PcValues
  <2>3. /\ new.pc = "idle" /\ new.calls = st.calls
        /\ new.result = st.result /\ new.transports = st.transports
        /\ ~new.serverRunning /\ ~new.pathCreated
        /\ new.sockFd = st.sockFd /\ new.fd = st.fd
        /\ new.sysv = st.sysv /\ new.sync = st.sync
        /\ new.rx = st.rx /\ new.rxTerminated = st.rxTerminated
        /\ new.eventFd = st.eventFd /\ new.life = st.life
        /\ new.threads = st.threads /\ new.removed
    BY <1>0 DEF RegionState
  <2> HIDE DEF new
  <2>4. StateOK(new, fds)
    BY <1>0, <2>1, <2>3
    DEF StateOK, KnownAreOpen, StageOK, FirstCallOK, LSocketReady, HasThread,
        Locating, Connecting
  <2>5. /\ TypeOK' /\ \A q \in Region : StateOK(region'[q], open'[q])
        /\ region'[r] = new
    BY <1>0, <2>1, <2>2, <2>4, FrameStates
  <2>6. StaleOnlyThroughOthers'
    BY <2>3, <2>5 DEF StaleOnlyThroughOthers
  <2> QED
    BY <2>5, <2>6 DEF IInv
<1>13. ASSUME RemovePathThrows(r) PROVE IInv'
  <2> DEFINE new == [st EXCEPT !.pc = "idle"]
             fds == open[r]
  <2>1. /\ region' = [region EXCEPT ![r] = new] /\ open' = [open EXCEPT ![r] = fds]
        /\ SockFolder \in disk => SockFolder \in disk'
        /\ st.pc = "remove"
    BY <1>0, <1>13 DEF RemovePathThrows, At, TypeOK
  <2>2. new \in RegionState /\ fds \in SUBSET Fd
    BY <1>0, <2>1 DEF RegionState, PcValues, Locating, Connecting, AnyFd, NoFd
  <2>3. /\ new.pc = "idle" /\ new.calls = st.calls
        /\ new.result = st.result /\ new.transports = st.transports
        /\ new.serverRunning = st.serverRunning /\ new.pathCreated = st.pathCreated
        /\ new.sockFd = st.sockFd /\ new.fd = st.fd
        /\ new.sysv = st.sysv /\ new.sync = st.sync
        /\ new.rx = st.rx /\ new.rxTerminated = st.rxTerminated
        /\ new.eventFd = st.eventFd /\ new.life = st.life
        /\ new.threads = st.threads /\ new.removed = st.removed
    BY <1>0 DEF RegionState
  <2> HIDE DEF new
  <2>4. StateOK(new, fds)
    BY <1>0, <2>1, <2>3, FdIsOne
    DEF StateOK, KnownAreOpen, StageOK, FirstCallOK, LSocketReady, HasThread,
        Locating, Connecting
  <2>5. Moves(st, new)
    BY <2>1, <2>3 DEF Moves
  <2> QED
    BY <1>0, <2>1, <2>2, <2>4, <2>5, Frame
<1> QED
  BY <1>1, <1>2, <1>3, <1>4, <1>5, <1>6, <1>7, <1>8, <1>9, <1>10, <1>11, <1>12,
     <1>13

(* ItcTransportSysvMsgQueue and the end of initialise keep the invariant.  *)
LEMMA SysvSteps ==
    ASSUME IInv, NEW r \in Region,
           \/ SysvFails(r) \/ (\E clock \in BOOLEAN : SysvReady(r, clock)) \/ SysvRelease(r)
           \/ InitialiseFails(r) \/ startAllThreads(r) \/ StartTimesOut(r) \/ RxThreadEnds(r)
    PROVE  IInv'
<1> DEFINE st == region[r]
<1>0. st \in RegionState /\ open[r] \in SUBSET Fd /\ StateOK(st, open[r]) /\ TypeOK
  BY DEF IInv, TypeOK
<1>1. ASSUME SysvFails(r) PROVE IInv'
  <2> DEFINE new == [st EXCEPT !.pc = "transports", !.transports = FALSE]
             fds == open[r]
  <2>1. /\ region' = [region EXCEPT ![r] = new] /\ open' = [open EXCEPT ![r] = fds]
        /\ SockFolder \in disk => SockFolder \in disk'
        /\ st.pc = "sysv"
    BY <1>0, <1>1 DEF SysvFails, At, TypeOK
  <2>2. new \in RegionState /\ fds \in SUBSET Fd
    BY <1>0, <2>1 DEF RegionState, PcValues, Locating, Connecting, AnyFd, NoFd
  <2>3. /\ new.pc = "transports" /\ new.calls = st.calls
        /\ new.result = st.result /\ ~new.transports
        /\ new.serverRunning = st.serverRunning /\ new.pathCreated = st.pathCreated
        /\ new.sockFd = st.sockFd /\ new.fd = st.fd
        /\ new.sysv = st.sysv /\ new.sync = st.sync
        /\ new.rx = st.rx /\ new.rxTerminated = st.rxTerminated
        /\ new.eventFd = st.eventFd /\ new.life = st.life
        /\ new.threads = st.threads /\ new.removed = st.removed
    BY <1>0 DEF RegionState
  <2> HIDE DEF new
  <2>4. StateOK(new, fds)
    BY <1>0, <2>1, <2>3, FdIsOne
    DEF StateOK, KnownAreOpen, StageOK, FirstCallOK, LSocketReady, HasThread,
        Locating, Connecting
  <2>5. Moves(st, new)
    BY <2>1, <2>3 DEF Moves
  <2> QED
    BY <1>0, <2>1, <2>2, <2>4, <2>5, Frame
<1>2. ASSUME NEW clock \in BOOLEAN, SysvReady(r, clock) PROVE IInv'
  <2> DEFINE fd == NewEventFd(r, clock)
             thr == [life |-> st.life + 1, isRunning |-> FALSE]
             made == MakeSyncObject(st, clock, fd)
             new == [made EXCEPT !.pc = "transports", !.sysv = TRUE,
                                 !.threads = Append(made.threads, thr)]
             fds == (open[r] \cup ({fd} \ {NoFd})) \ {st.eventFd}
  <2>1. /\ region' = [region EXCEPT ![r] = new] /\ open' = [open EXCEPT ![r] = fds]
        /\ SockFolder \in disk => SockFolder \in disk'
        /\ st.pc = "sysv"
    <3>1. region' = [region EXCEPT ![r] = new]
      BY <1>2 DEF SysvReady, addThread
    <3>2. open' = [open EXCEPT ![r] = fds]
      BY <1>2 DEF SysvReady, AfterReset
    <3> QED
      BY <1>2, <3>1, <3>2 DEF SysvReady, At
  <2>2. fd = NoFd \/ fd \in Fd \ open[r]
    BY <1>0, LowestIsFree DEF NewEventFd
  <2> HIDE DEF fd
  <2>3. made \in RegionState
    <3>1. /\ st.life + 1 \in Nat /\ fd \in AnyFd
          /\ (IF clock THEN "ready" ELSE "noClock") \in {"none", "ready", "noClock"}
      BY <1>0, <2>2 DEF RegionState, AnyFd
    <3> QED
      BY <1>0, <3>1 DEF MakeSyncObject, RegionState
  <2>4. /\ made.pc = st.pc /\ made.calls = st.calls
        /\ made.result = st.result /\ made.transports = st.transports
        /\ made.serverRunning = st.serverRunning /\ made.pathCreated = st.pathCreated
        /\ made.sockFd = st.sockFd /\ made.fd = st.fd
        /\ made.sysv = st.sysv /\ made.rx = st.rx
        /\ made.eventFd = fd /\ made.life = st.life + 1
        /\ made.threads = st.threads /\ made.removed = st.removed
    BY <1>0 DEF RegionState, MakeSyncObject
  <2> HIDE DEF made
  <2>5. /\ Append(st.threads, thr) \in Seq(Threads)
        /\ \E i \in DOMAIN Append(st.threads, thr) : Append(st.threads, thr)[i] = thr
    <3>1. thr \in Threads /\ st.threads \in Seq(Threads)
      BY <1>0 DEF RegionState, Threads
    <3> HIDE DEF thr
    <3>2. /\ Append(st.threads, thr) \in Seq(Threads)
          /\ Len(Append(st.threads, thr)) = Len(st.threads) + 1
          /\ Append(st.threads, thr)[Len(st.threads) + 1] = thr
      BY <3>1, AppendProperties
    <3>3. Len(st.threads) \in Nat
          /\ DOMAIN Append(st.threads, thr) = 1 .. Len(Append(st.threads, thr))
      BY <3>1, <3>2, LenProperties
    <3>4. Len(st.threads) + 1 \in DOMAIN Append(st.threads, thr)
      BY <3>2, <3>3
    <3> QED
      BY <3>2, <3>4
  <2>6. new \in RegionState /\ fds \in SUBSET Fd
    <3>1. new \in RegionState
      BY <2>3, <2>4, <2>5 DEF RegionState, PcValues
    <3> QED
      BY <1>0, <2>2, <3>1
  <2>7. /\ new.pc = "transports" /\ new.calls = st.calls
        /\ new.result = st.result /\ new.transports = st.transports
        /\ new.serverRunning = st.serverRunning /\ new.pathCreated = st.pathCreated
        /\ new.sockFd = st.sockFd /\ new.fd = st.fd
        /\ new.sysv /\ new.rx = st.rx /\ new.threads = Append(st.threads, thr)
        /\ new.eventFd = fd /\ new.life = st.life + 1
        /\ HasThread(new, FALSE) /\ new.removed = st.removed
    <3>1. /\ new.pc = "transports" /\ new.calls = st.calls
          /\ new.result = st.result /\ new.transports = st.transports
          /\ new.serverRunning = st.serverRunning /\ new.pathCreated = st.pathCreated
          /\ new.sockFd = st.sockFd /\ new.fd = st.fd
          /\ new.sysv /\ new.rx = st.rx /\ new.threads = Append(st.threads, thr)
          /\ new.eventFd = fd /\ new.life = st.life + 1
          /\ new.life = st.life + 1 /\ new.removed = st.removed
      BY <2>3, <2>4 DEF RegionState
    <3>2. HasThread(new, FALSE)
      BY <2>5, <3>1 DEF HasThread
    <3> QED
      BY <3>1, <3>2
  <2> HIDE DEF new
  <2>8. StateOK(new, fds)
    <3>1. KnownAreOpen(new, fds)
      BY <1>0, <2>1, <2>2, <2>7, FdIsOne DEF StateOK, KnownAreOpen
    <3>2. StageOK(new)
      BY <1>0, <2>1, <2>7 DEF StateOK, StageOK, LSocketReady, Connecting
    <3>3. FirstCallOK(new, fds)
      <4>1. new.calls # 0
        BY <1>0, <2>1, <2>7 DEF StateOK, FirstCallOK
      <4>2. ASSUME new.calls = 1, new.transports \/ new.result = "ITC_OK"
            PROVE  fds = {new.sockFd, new.eventFd} \ {NoFd}
        <5>1. st.transports
          BY <1>0, <2>1, <2>7, <4>2 DEF StateOK, StageOK
        <5>2. st.sockFd # NoFd /\ st.eventFd = NoFd /\ open[r] = {st.sockFd}
          BY <1>0, <2>1, <2>7, <4>2, <5>1
          DEF StateOK, StageOK, LSocketReady, FirstCallOK
        <5> QED
          BY <2>2, <2>7, <5>2
      <4> QED
        BY <2>7, <4>1, <4>2 DEF FirstCallOK, Locating, Connecting
    <3> QED
      BY <3>1, <3>2, <3>3 DEF StateOK
  <2>9. Moves(st, new)
    BY <2>7 DEF Moves
  <2> QED
    BY <1>0, <2>1, <2>6, <2>8, <2>9, Frame
<1>3. ASSUME SysvRelease(r) PROVE IInv'
  <2> DEFINE new == [st EXCEPT !.sysv = FALSE, !.rxTerminated = TRUE, !.rx = "none",
                               !.result = "none"]
             fds == open[r]
  <2>1. /\ region' = [region EXCEPT ![r] = new] /\ open' = [open EXCEPT ![r] = fds]
        /\ SockFolder \in disk => SockFolder \in disk'
        /\ st.pc = "idle" /\ st.sysv
    BY <1>0, <1>3 DEF SysvRelease, At, TypeOK
  <2>2. new \in RegionState /\ fds \in SUBSET Fd
    <3>1. new \in RegionState
      BY <1>0 DEF RegionState
    <3> QED
      BY <1>0, <3>1
  <2>3. /\ new.pc = st.pc /\ new.calls = st.calls
        /\ new.result = "none" /\ new.transports = st.transports
        /\ new.serverRunning = st.serverRunning /\ new.pathCreated = st.pathCreated
        /\ new.sockFd = st.sockFd /\ new.fd = st.fd
        /\ ~new.sysv /\ new.rx = "none" /\ new.sync = st.sync
        /\ new.eventFd = st.eventFd /\ new.life = st.life
        /\ new.threads = st.threads /\ new.removed = st.removed
    BY <1>0 DEF RegionState
  <2> HIDE DEF new
  <2>4. StateOK(new, fds)
    BY <1>0, <2>1, <2>3, FdIsOne
    DEF StateOK, KnownAreOpen, StageOK, FirstCallOK, LSocketReady, HasThread,
        Locating, Connecting
  <2>5. Moves(st, new)
    BY <2>1, <2>3 DEF Moves
  <2> QED
    BY <1>0, <2>1, <2>2, <2>4, <2>5, Frame
<1>4. ASSUME InitialiseFails(r) PROVE IInv'
  <2> DEFINE new == Returned(st, "ITC_FAILED")
             fds == open[r] \cup {}
  <2>1. /\ region' = [region EXCEPT ![r] = new] /\ open' = [open EXCEPT ![r] = fds]
        /\ SockFolder \in disk => SockFolder \in disk'
        /\ st.pc = "transports"
    BY <1>0, <1>4 DEF InitialiseFails, At, TypeOK, Return
  <2>2. new \in RegionState /\ fds \in SUBSET Fd
    BY <1>0, ReturnedFacts
  <2>4. StateOK(new, fds)
    BY <1>0, <2>1, ReturnFails
  <2>5. Moves(st, new)
    BY <1>0, ReturnedFacts DEF Moves
  <2> QED
    BY <1>0, <2>1, <2>2, <2>4, <2>5, Frame
<1>5. ASSUME startAllThreads(r) PROVE IInv'
  <2> DEFINE back == Returned(st, "ITC_OK")
             started == [i \in DOMAIN back.threads |->
                            [life |-> back.threads[i].life, isRunning |-> TRUE]]
             new == [back EXCEPT !.rx = "ready", !.threads = started]
             fds == open[r]
  <2>1. /\ region' = [region EXCEPT ![r] = new] /\ open' = [open EXCEPT ![r] = fds]
        /\ SockFolder \in disk => SockFolder \in disk'
        /\ st.pc = "transports" /\ st.transports
    <3>1. region' = [region EXCEPT ![r] = new]
      BY <1>5 DEF startAllThreads
    <3> QED
      BY <1>0, <1>5, <3>1 DEF startAllThreads, At, TypeOK
  <2>2. back \in RegionState /\ back.pc = "idle" /\ back.calls = st.calls
        /\ back.result = "ITC_OK" /\ back.threads = st.threads
        /\ back.serverRunning = st.serverRunning /\ back.pathCreated = st.pathCreated
        /\ back.sockFd = st.sockFd /\ back.fd = NoFd
        /\ back.sysv = st.sysv /\ back.sync = st.sync
        /\ back.rx = st.rx /\ back.rxTerminated = st.rxTerminated
        /\ back.eventFd = st.eventFd /\ back.life = st.life
        /\ back.threads = st.threads /\ back.removed = st.removed
    BY <1>0, ReturnedFacts
  <2> HIDE DEF back
  <2>3. /\ started \in Seq(Threads)
        /\ DOMAIN started = DOMAIN st.threads
        /\ \A i \in DOMAIN st.threads :
             started[i] = [life |-> st.threads[i].life, isRunning |-> TRUE]
    <3>1. back.threads \in Seq(Threads)
      BY <2>2 DEF RegionState
    <3>2. /\ Len(back.threads) \in Nat /\ DOMAIN back.threads = 1 .. Len(back.threads)
          /\ \A i \in DOMAIN back.threads : back.threads[i] \in Threads
      BY <3>1, LenProperties
    <3>3. \A i \in DOMAIN back.threads :
            [life |-> back.threads[i].life, isRunning |-> TRUE] \in Threads
      BY <3>2 DEF Threads
    <3> QED
      BY <2>2, <3>2, <3>3
  <2> HIDE DEF started
  <2>4. new \in RegionState
    BY <2>2, <2>3 DEF RegionState
  <2>5. /\ new.pc = "idle" /\ new.calls = st.calls
        /\ new.result = "ITC_OK" /\ new.threads = started
        /\ new.serverRunning = st.serverRunning /\ new.pathCreated = st.pathCreated
        /\ new.sockFd = st.sockFd /\ new.fd = NoFd
        /\ new.sysv = st.sysv /\ new.sync = st.sync /\ new.rx = "ready"
        /\ new.eventFd = st.eventFd /\ new.life = st.life
        /\ new.threads = started /\ new.removed = st.removed
    BY <2>2 DEF RegionState
  <2> HIDE DEF new
  <2>6. PICK i \in DOMAIN st.threads : st.threads[i] = [life |-> st.life, isRunning |-> FALSE]
    BY <1>0, <2>1 DEF StateOK, StageOK, HasThread
  <2>7. st.sync # "noClock"
    BY <1>5 DEF startAllThreads
  <2>8. HasThread(new, TRUE)
    <3>1. i \in DOMAIN new.threads /\ new.life = st.life
      BY <2>3, <2>5
    <3>2. st.threads[i].life = st.life
      BY <2>6
    <3>3. new.threads[i] = [life |-> st.life, isRunning |-> TRUE]
      BY <2>3, <2>5, <3>2
    <3> QED
      BY <3>1, <3>3 DEF HasThread
  <2>9. LSocketReady(new) /\ new.sysv
    BY <1>0, <2>1, <2>5 DEF StateOK, StageOK, LSocketReady
  <2>10. StateOK(new, fds)
    <3>1. KnownAreOpen(new, fds)
      BY <1>0, <2>1, <2>5 DEF StateOK, KnownAreOpen
    <3>2. StageOK(new)
      BY <2>5, <2>7, <2>8, <2>9 DEF StageOK, Connecting
    <3>3. FirstCallOK(new, fds)
      BY <1>0, <2>1, <2>5 DEF StateOK, FirstCallOK, Locating, Connecting
    <3> QED
      BY <3>1, <3>2, <3>3 DEF StateOK
  <2>11. Moves(st, new)
    BY <2>5 DEF Moves
  <2> QED
    BY <1>0, <2>1, <2>4, <2>10, <2>11, Frame
<1>6. ASSUME StartTimesOut(r) PROVE IInv'
  <2> DEFINE back == Returned(st, "ITC_FAILED")
             new == [back EXCEPT !.rx = "late"]
             fds == open[r]
  <2>1. /\ region' = [region EXCEPT ![r] = new] /\ open' = [open EXCEPT ![r] = fds]
        /\ SockFolder \in disk => SockFolder \in disk'
        /\ st.pc = "transports" /\ st.transports
    BY <1>0, <1>6 DEF StartTimesOut, At, TypeOK
  <2>2. /\ back \in RegionState /\ back.pc = "idle" /\ back.result = "ITC_FAILED"
        /\ back.pathCreated = st.pathCreated /\ back.removed = st.removed
        /\ back.sysv = st.sysv
    BY <1>0, ReturnedFacts
  <2>3. StateOK(back, fds \cup {})
    BY <1>0, <2>1, ReturnFails
  <2> HIDE DEF back
  <2>4. new \in RegionState
    BY <2>2 DEF RegionState
  <2>5. /\ new.pc = back.pc /\ new.calls = back.calls
        /\ new.result = back.result /\ new.transports = back.transports
        /\ new.serverRunning = back.serverRunning /\ new.pathCreated = back.pathCreated
        /\ new.sockFd = back.sockFd /\ new.fd = back.fd
        /\ new.sysv = back.sysv /\ new.rx = "late"
        /\ new.eventFd = back.eventFd /\ new.removed = back.removed
    BY <2>2 DEF RegionState
  <2> HIDE DEF new
  <2>6. st.sysv
    BY <1>0, <2>1 DEF StateOK, StageOK
  <2>7. StateOK(new, fds)
    <3>1. KnownAreOpen(new, fds)
      BY <2>3, <2>5 DEF StateOK, KnownAreOpen
    <3>2. StageOK(new)
      BY <2>2, <2>5, <2>6 DEF StageOK, Connecting
    <3>3. FirstCallOK(new, fds)
      BY <2>3, <2>5 DEF StateOK, FirstCallOK, Locating, Connecting
    <3> QED
      BY <3>1, <3>2, <3>3 DEF StateOK
  <2>8. Moves(st, new)
    BY <2>2, <2>5 DEF Moves
  <2> QED
    BY <1>0, <2>1, <2>4, <2>7, <2>8, Frame
<1>7. ASSUME RxThreadEnds(r) PROVE IInv'
  <2> DEFINE new == [st EXCEPT !.rx = "none", !.rxTerminated = TRUE, !.sysv = FALSE]
             fds == open[r]
  <2>1. /\ region' = [region EXCEPT ![r] = new] /\ open' = [open EXCEPT ![r] = fds]
        /\ SockFolder \in disk => SockFolder \in disk'
        /\ st.rx # "none"
    BY <1>0, <1>7 DEF RxThreadEnds, TypeOK
  <2>2. new \in RegionState
    BY <1>0 DEF RegionState
  <2>3. /\ new.pc = st.pc /\ new.calls = st.calls
        /\ new.result = st.result /\ new.transports = st.transports
        /\ new.serverRunning = st.serverRunning /\ new.pathCreated = st.pathCreated
        /\ new.sockFd = st.sockFd /\ new.fd = st.fd
        /\ ~new.sysv /\ new.rx = "none" /\ new.rxTerminated /\ new.sync = st.sync
        /\ new.eventFd = st.eventFd /\ new.life = st.life
        /\ new.threads = st.threads /\ new.removed = st.removed
    BY <1>0 DEF RegionState
  <2> HIDE DEF new
  <2>4. StateOK(new, fds)
    <3>1. KnownAreOpen(new, fds)
      BY <1>0, <2>3 DEF StateOK, KnownAreOpen
    <3>2. StageOK(new)
      BY <1>0, <2>1, <2>3 DEF StateOK, StageOK, LSocketReady, HasThread
    <3>3. FirstCallOK(new, fds)
      BY <1>0, <2>3 DEF StateOK, FirstCallOK
    <3> QED
      BY <3>1, <3>2, <3>3 DEF StateOK
  <2>5. Moves(st, new)
    BY <2>3 DEF Moves
  <2> QED
    BY <1>0, <2>1, <2>2, <2>4, <2>5, Frame
<1> QED
  BY <1>1, <1>2, <1>3, <1>4, <1>5, <1>6, <1>7

(* itc-server keeps the invariant: what it does to the regions is to break *)
(* their connections.                                                      *)
LEMMA ServerSteps ==
    ASSUME IInv, ServerUp \/ ServerDies \/ \E r \in Region : ServerListens(r)
    PROVE  IInv'
<1>1. CASE ServerUp
  BY <1>1 DEF ServerUp, IInv, TypeOK, StaleOnlyThroughOthers
<1>2. ASSUME NEW r \in Region, ServerListens(r) PROVE IInv'
  BY <1>2 DEF ServerListens, IInv, TypeOK, StaleOnlyThroughOthers
<1>3. CASE ServerDies
  <2> DEFINE cut(st) == [st EXCEPT !.link = IF st.link = "live" THEN "dead" ELSE st.link]
  <2>1. /\ region' = [r \in Region |-> cut(region[r])] /\ open' = open
        /\ SockFolder \in disk => SockFolder \in disk'
    BY <1>3 DEF ServerDies, SockFolder, ServerSocket
  <2>2. ASSUME NEW st \in RegionState
        PROVE  /\ cut(st) \in RegionState
               /\ cut(st).pc = st.pc /\ cut(st).calls = st.calls
               /\ cut(st).result = st.result /\ cut(st).transports = st.transports
               /\ cut(st).serverRunning = st.serverRunning /\ cut(st).pathCreated = st.pathCreated
               /\ cut(st).sockFd = st.sockFd /\ cut(st).fd = st.fd
               /\ cut(st).sysv = st.sysv /\ cut(st).sync = st.sync
               /\ cut(st).rx = st.rx /\ cut(st).rxTerminated = st.rxTerminated
               /\ cut(st).eventFd = st.eventFd /\ cut(st).life = st.life
               /\ cut(st).threads = st.threads /\ cut(st).removed = st.removed
    <3>1. cut(st) \in RegionState
      BY DEF RegionState
    <3> QED
      BY <3>1 DEF RegionState
  <2> HIDE DEF cut
  <2>3. TypeOK'
    BY <2>1, <2>2 DEF IInv, TypeOK
  <2>4. ASSUME NEW r \in Region PROVE StateOK(region'[r], open'[r])
    <3>1. region[r] \in RegionState /\ StateOK(region[r], open[r])
      BY DEF IInv, TypeOK
    <3>2. region'[r] = cut(region[r]) /\ open'[r] = open[r]
      BY <2>1
    <3>3. StateOK(cut(region[r]), open[r])
      <4> DEFINE st == region[r]
                 new == cut(region[r])
      <4>1. /\ new.pc = st.pc /\ new.calls = st.calls
            /\ new.result = st.result /\ new.transports = st.transports
            /\ new.serverRunning = st.serverRunning /\ new.pathCreated = st.pathCreated
            /\ new.sockFd = st.sockFd /\ new.fd = st.fd
            /\ new.sysv = st.sysv /\ new.sync = st.sync
            /\ new.rx = st.rx /\ new.rxTerminated = st.rxTerminated
            /\ new.eventFd = st.eventFd /\ new.life = st.life
            /\ new.threads = st.threads /\ new.removed = st.removed
        BY <2>2, <3>1
      <4> HIDE DEF st, new
      <4>2. StateOK(st, open[r])
        BY <3>1 DEF st
      <4>3. KnownAreOpen(new, open[r])
        BY <4>1, <4>2 DEF StateOK, KnownAreOpen
      <4>4. StageOK(new)
        BY <4>1, <4>2 DEF StateOK, StageOK, LSocketReady, HasThread
      <4>5. FirstCallOK(new, open[r])
        BY <4>1, <4>2 DEF StateOK, FirstCallOK
      <4> QED
        BY <4>3, <4>4, <4>5 DEF StateOK, new
    <3> QED
      BY <3>2, <3>3
  <2>5. \A r \in Region : /\ region'[r].pathCreated = region[r].pathCreated
                         /\ region'[r].removed = region[r].removed
    BY <2>1, <2>2 DEF IInv, TypeOK
  <2>6. StaleOnlyThroughOthers'
    BY <2>1, <2>5 DEF IInv, StaleOnlyThroughOthers
  <2> QED
    BY <2>3, <2>4, <2>6 DEF IInv
<1> QED
  BY <1>1, <1>2, <1>3

-----------------------------------------------------------------------------
(* The invariant holds in every behaviour of the host.                     *)
THEOREM InductiveInvariant == Spec => []IInv
<1>1. Init => IInv
  <2> SUFFICES ASSUME Init PROVE IInv
    OBVIOUS
  <2>1. Fresh \in RegionState
    <3>1. <<>> \in Seq(Threads)
      BY EmptySeq
    <3> QED
      BY <3>1 DEF Fresh, RegionState, PcValues, AnyFd
  <2>2. TypeOK
    BY <2>1 DEF Init, TypeOK
  <2>3. StateOK(Fresh, {})
    BY DEF Fresh, StateOK, KnownAreOpen, StageOK, FirstCallOK, Locating,
           Connecting, NoFd
  <2>4. \A r \in Region : region[r] = Fresh /\ open[r] = {} /\ ~region[r].pathCreated
    BY DEF Init, Fresh
  <2> QED
    BY <2>2, <2>3, <2>4 DEF IInv, StaleOnlyThroughOthers
<1>2. IInv /\ [Next]_vars => IInv'
  <2> SUFFICES ASSUME IInv, [Next]_vars PROVE IInv'
    OBVIOUS
  <2>1. ASSUME NEW r \in Region, RegionStep(r) PROVE IInv'
    BY <2>1, LocateSteps, LSocketSteps, SysvSteps DEF RegionStep
  <2>2. ASSUME NEW r \in Region, UserCall(r) PROVE IInv'
    BY <2>2, LocateSteps, LSocketSteps, SysvSteps DEF UserCall
  <2>3. CASE UNCHANGED vars
    BY <2>3 DEF vars, IInv, TypeOK, StaleOnlyThroughOthers
  <2> QED
    BY <2>1, <2>2, <2>3, SysvSteps, ServerSteps DEF Next
<1> QED
  BY <1>1, <1>2, PTL DEF Spec

(* ITC_OK from initialise means that the region is ready, whichever calls  *)
(* failed before, and whatever the other regions and itc-server did.       *)
THEOREM OkIsReady == Spec => []OkMeansReady
<1>1. IInv => OkMeansReady
  <2> SUFFICES ASSUME IInv, NEW r \in Region, region[r].result = "ITC_OK"
               PROVE  /\ region[r].serverRunning
                      /\ region[r].sockFd \in open[r]
                      /\ region[r].pathCreated
                      /\ region[r].sync # "noClock"
                      /\ region[r].sysv <=> region[r].rx = "ready"
                      /\ region[r].sysv \/ region[r].rxTerminated
                      /\ \E i \in DOMAIN region[r].threads :
                            region[r].threads[i] =
                                [life |-> region[r].life, isRunning |-> TRUE]
    BY DEF OkMeansReady
  <2>1. StateOK(region[r], open[r])
    BY DEF IInv
  <2> QED
    BY <2>1 DEF StateOK, StageOK, KnownAreOpen, LSocketReady, HasThread
<1> QED
  BY <1>1, InductiveInvariant, PTL

(* The first successful initialise of a region leaves no descriptor open   *)
(* but those it knows.                                                     *)
THEOREM FirstStartLeaksNothing == Spec => []FirstStartIsClean
<1>1. IInv => FirstStartIsClean
  BY DEF IInv, StateOK, FirstCallOK, FirstStartIsClean
<1> QED
  BY <1>1, InductiveInvariant, PTL

(* A region's belief that the folder is there is wrong only after another  *)
(* region has removed it.                                                  *)
THEOREM OthersMakeStale == Spec => []StaleOnlyThroughOthers
BY InductiveInvariant, PTL DEF IInv
=============================================================================
