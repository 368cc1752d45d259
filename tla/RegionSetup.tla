----------------------------- MODULE RegionSetup -----------------------------
(***************************************************************************)
(* How regions (processes) of one host start: ItcPlatform::initialise,     *)
(* which starts itc-server, locates it and connects to it through          *)
(* ItcTransportLSocket and prepares ItcTransportSysvMsgQueue, and the      *)
(* release of either transport.  The regions share the host's file system, *)
(* where FileSystem creates and removes the socket folder, and itc-server. *)
(* Any system call may fail.  What another region or the server can see or *)
(* undo in between is a step of its own; socket, connect and send, which   *)
(* only act on the caller's own descriptor, are one step.                  *)
(*                                                                         *)
(* ItcPlatform never sets its m_isInitialised: its initialise always goes  *)
(* through, and its release returns at once.  So the transports' release   *)
(* functions are called by the user here, between two initialisations.     *)
(*                                                                         *)
(* itc-server and the kernel are external: the server answers or dies, and *)
(* a connection to a server that has died delivers no more.  SIGPIPE is    *)
(* taken to be ignored.  SyncObject's mutex and condition variable start   *)
(* as zeroes, which is how Linux initialises them.                         *)
(***************************************************************************)
EXTENDS Naturals, Sequences, FiniteSets, FiniteSetsExt

CONSTANTS
    Region,     \* the regions of the host
    ItcServers, \* those that may pass ITC_FLAG_I_AM_ITC_SERVER
    Leftovers,  \* what may be on the disk from an earlier run of the system
    MaxFd,      \* RLIMIT_NOFILE: descriptors a region can have open
    MaxCalls,   \* bound: how often each region calls initialise
    MaxDeaths   \* bound: how often an itc-server dies

ASSUME RegionSetupAssumption ==
    /\ MaxFd \in Nat \ {0} /\ MaxDeaths \in Nat
    /\ MaxCalls \in [Region -> Nat] /\ ItcServers \subseteq Region
    /\ Leftovers \subseteq SUBSET {"socket", "sysvmq-file"}

VARIABLES
    disk,      \* the paths that exist
    lsock,     \* the regions whose lsocket_0x... has a listener
    server,    \* itc-server: daemons starting, whether one is up, deaths
    open,      \* the open descriptors of each region
    region     \* the state of each region's platform and transports

vars == <<disk, lsock, server, open, region>>

Fd == 1 .. MaxFd
NoFd == 0      \* -1 in the code
ServerSocket == "itc-server"     \* ITC_PATH_ITC_SERVER_SOCKET
SockFolder == "socket"           \* ITC_PATH_SOCK_FOLDER_NAME
SysvFile == "sysvmq-file"        \* ITC_PATH_SYSVMQ_FILE_NAME

Fresh ==
    [pc |-> "idle",
     calls |-> 0,             \* calls of initialise so far
     isServer |-> FALSE,      \* flags has ITC_FLAG_I_AM_ITC_SERVER
     result |-> "none",       \* what the last initialise returned
     transports |-> TRUE,     \* areTransportsInitialised
     serverRunning |-> FALSE, \* ItcTransportLSocket::m_isItcServerRunning
     pathCreated |-> FALSE,   \* ItcTransportLSocket::m_isLSockPathCreated
     sockFd |-> NoFd,         \* ItcTransportLSocket::m_sockFd
     fd |-> NoFd,             \* the local sockFd of the call in progress
     link |-> "none",         \* its connection
     sysv |-> FALSE,          \* ItcTransportSysvMsgQueue::m_isInitialised
     rxTerminated |-> FALSE,  \* ItcTransportSysvMsgQueue::m_isRxThreadTerminated
     rx |-> "none",           \* the rx thread whose exit runs destructRxThread
     sync |-> "none",         \* whether m_syncObj's condition variable has its clock
     eventFd |-> NoFd,        \* m_syncObj->elems->fd
     life |-> 0,              \* which SyncObject m_syncObj is
     threads |-> <<>>,        \* m_threadList: SyncObject and isRunning of each
     removed |-> FALSE]       \* history: it has removed the folder

Init ==
    /\ disk \in Leftovers
    /\ lsock = {}
    /\ server = [starting |-> 0, up |-> FALSE, deaths |-> 0]
    /\ open = [r \in Region |-> {}]
    /\ region = [r \in Region |-> Fresh]

-----------------------------------------------------------------------------
At(r, label) == region[r].pc = label
Free(r) == Fd \ open[r]
LowestFree(r) == Min(Free(r))

\* initialise returns; its local variables go out of scope
Returned(state, result) ==
    [state EXCEPT !.pc = "idle", !.result = result, !.fd = NoFd, !.link = "none",
                  !.isServer = FALSE, !.transports = TRUE]

Return(r, result) ==
    region' = [region EXCEPT ![r] = Returned(@, result)]

\* ItcTransportSysvMsgQueue::initialise begins; it returns false when
\* m_isInitialised
SysvBegin(state) ==
    IF state.sysv THEN [state EXCEPT !.pc = "transports", !.transports = FALSE]
                  ELSE [state EXCEPT !.pc = "sysv"]

\* ItcTransportLSocket::initialise returns false with its socket, if any, open
LSocketFailed(state) ==
    SysvBegin([state EXCEPT !.transports = FALSE, !.fd = NoFd, !.link = "none"])

\* ItcTransportLSocket::initialise begins
LSocketBegin(state) ==
    IF ~state.serverRunning THEN LSocketFailed(state)
    ELSE [state EXCEPT !.pc = IF state.pathCreated THEN "lsocketConnect" ELSE "exists"]

-----------------------------------------------------------------------------
(* Faulty variants of the operations below, for testing the properties.    *)

\* the socket of locateItcServer stays open after the reply
LocateReplyKeepsSocket(r) ==
    /\ At(r, "locateRecv") /\ region[r].link = "live"
    /\ region' = [region EXCEPT ![r] = LSocketBegin(
                    [@ EXCEPT !.serverRunning = TRUE, !.fd = NoFd, !.link = "none"])]
    /\ UNCHANGED <<disk, lsock, server, open>>

\* areTransportsInitialised = ... in place of &=
SysvReadyOverwrites(r, clock) ==
    /\ At(r, "sysv") /\ SysvFile \in disk /\ clock /\ Free(r) # {}
    /\ open' = [open EXCEPT ![r] = (@ \cup {LowestFree(r)}) \ {region[r].eventFd}]
    /\ region' = [region EXCEPT ![r].pc = "transports", ![r].transports = TRUE,
                                ![r].sysv = TRUE, ![r].sync = "ready",
                                ![r].eventFd = LowestFree(r), ![r].life = @ + 1,
                                ![r].threads = Append(@, [life |-> region[r].life + 1,
                                                          isRunning |-> FALSE])]
    /\ UNCHANGED <<disk, lsock, server>>

\* the flag of the folder is not reset
RemovePathKeepsFlag(r) ==
    /\ At(r, "remove")
    /\ disk' = disk \ {SockFolder} /\ lsock' = {}
    /\ region' = [region EXCEPT ![r].pc = "idle", ![r].serverRunning = FALSE,
                                ![r].removed = TRUE]
    /\ UNCHANGED <<server, open>>

\* while(rxLen <= 0): a closed connection is taken for an interrupted call
AckMissingRetries(r) ==
    /\ At(r, "lsocketAck") /\ region[r].link = "dead"
    /\ UNCHANGED vars

-----------------------------------------------------------------------------
(* ItcPlatform::initialise: checkAndStartItcServer and locateItcServer.    *)

CallInitialise(r, isServer) ==
    /\ At(r, "idle")
    /\ region[r].calls < MaxCalls[r]
    /\ isServer => r \in ItcServers
    /\ region' = [region EXCEPT ![r].pc = "check", ![r].calls = @ + 1,
                                ![r].isServer = isServer, ![r].result = "none",
                                ![r].transports = TRUE]
    /\ UNCHANGED <<disk, lsock, server, open>>

\* checkAndStartItcServer returns false when the server's socket exists.
ServerExists(r) ==
    /\ At(r, "check") /\ ServerSocket \in disk
    /\ Return(r, "ITC_FAILED")
    /\ UNCHANGED <<disk, lsock, server, open>>

ServerMissing(r) ==
    /\ At(r, "check") /\ ServerSocket \notin disk
    /\ region' = [region EXCEPT ![r].pc = "fork"]
    /\ UNCHANGED <<disk, lsock, server, open>>

\* Only the parent's side of startDaemon returns; the daemon comes up later.
startDaemon(r) ==
    /\ At(r, "fork")
    /\ server' = [server EXCEPT !.starting = @ + 1]
    /\ region' = [region EXCEPT ![r] =
                    IF @.isServer THEN LSocketBegin(@) ELSE [@ EXCEPT !.pc = "locateConnect"]]
    /\ UNCHANGED <<disk, lsock, open>>

ForkFails(r) ==
    /\ At(r, "fork")
    /\ Return(r, "ITC_FAILED")
    /\ UNCHANGED <<disk, lsock, server, open>>

\* socket(), connect() and send() succeed
LocateConnect(r) ==
    /\ At(r, "locateConnect") /\ Free(r) # {} /\ server.up
    /\ open' = [open EXCEPT ![r] = @ \cup {LowestFree(r)}]
    /\ region' = [region EXCEPT ![r].pc = "locateRecv", ![r].link = "live",
                                ![r].fd = LowestFree(r)]
    /\ UNCHANGED <<disk, lsock, server>>

\* socket() fails, and opens nothing
NoSocket(r) == Free(r) = {} /\ UNCHANGED open

\* socket() succeeds and connect() fails: nobody closes the socket
SocketLost(r) ==
    Free(r) # {} /\ open' = [open EXCEPT ![r] = @ \cup {LowestFree(r)}]

LocateConnectFails(r) ==
    /\ At(r, "locateConnect")
    /\ NoSocket(r) \/ (~server.up /\ SocketLost(r))
    /\ Return(r, "ITC_FAILED")
    /\ UNCHANGED <<disk, lsock, server>>

\* send() fails, or recv() fails, is interrupted or returns too little, as it
\* must once the server has died; the socket stays open
LocateFails(r) ==
    /\ At(r, "locateRecv")
    /\ Return(r, "ITC_FAILED")
    /\ UNCHANGED <<disk, lsock, server, open>>

LocateReply(r) ==
    /\ At(r, "locateRecv") /\ region[r].link = "live"
    /\ open' = [open EXCEPT ![r] = @ \ {region[r].fd}]
    /\ region' = [region EXCEPT ![r] = LSocketBegin(
                    [@ EXCEPT !.serverRunning = TRUE, !.fd = NoFd, !.link = "none"])]
    /\ UNCHANGED <<disk, lsock, server>>

\* A reply with a region id but no mailbox of the server (known), or with
\* neither: initialise fails, but m_isItcServerRunning is set by the former.
LocateRefused(r, known) ==
    /\ At(r, "locateRecv") /\ region[r].link = "live"
    /\ open' = [open EXCEPT ![r] = @ \ {region[r].fd}]
    /\ region' = [region EXCEPT
                    ![r] = [Returned(region[r], "ITC_FAILED") EXCEPT !.serverRunning = @ \/ known]]
    /\ UNCHANGED <<disk, lsock, server>>

-----------------------------------------------------------------------------
(* FileSystem::createPath of the socket folder.                            *)

PathReady(r) ==
    region' = [region EXCEPT ![r].pc = "lsocketConnect", ![r].pathCreated = TRUE]

PathExists(r) ==
    /\ At(r, "exists") /\ SockFolder \in disk
    /\ PathReady(r)
    /\ UNCHANGED <<disk, lsock, server, open>>

CreateDirectories(r) ==
    /\ At(r, "exists") /\ SockFolder \notin disk
    /\ disk' = disk \cup {SockFolder}
    /\ region' = [region EXCEPT ![r].pc = "granting"]
    /\ UNCHANGED <<lsock, server, open>>

CreateDirectoriesFails(r) ==
    /\ At(r, "exists") /\ SockFolder \notin disk
    /\ region' = [region EXCEPT ![r] = LSocketFailed(@)]
    /\ UNCHANGED <<disk, lsock, server, open>>

\* permissions() is applied to the folder and its parent.
Grant(r) ==
    /\ At(r, "granting") /\ SockFolder \in disk
    /\ PathReady(r)
    /\ UNCHANGED <<disk, lsock, server, open>>

\* permissions() fails, certainly if the folder has been removed meanwhile
GrantFails(r) ==
    /\ At(r, "granting")
    /\ region' = [region EXCEPT ![r] = LSocketFailed(@)]
    /\ UNCHANGED <<disk, lsock, server, open>>

-----------------------------------------------------------------------------
(* ItcTransportLSocket::initialise and release.                            *)

LSocketConnect(r) ==
    /\ At(r, "lsocketConnect") /\ Free(r) # {} /\ r \in lsock
    /\ open' = [open EXCEPT ![r] = @ \cup {LowestFree(r)}]
    /\ region' = [region EXCEPT ![r].pc = "lsocketAck", ![r].link = "live",
                                ![r].fd = LowestFree(r)]
    /\ UNCHANGED <<disk, lsock, server>>

LSocketConnectFails(r) ==
    /\ At(r, "lsocketConnect")
    /\ NoSocket(r) \/ (r \notin lsock /\ SocketLost(r))
    /\ region' = [region EXCEPT ![r] = LSocketFailed(@)]
    /\ UNCHANGED <<disk, lsock, server>>

\* what the server has sent is not "ack"
AckWrong(r) ==
    /\ At(r, "lsocketAck") /\ region[r].link = "live"
    /\ region' = [region EXCEPT ![r] = LSocketFailed(@)]
    /\ UNCHANGED <<disk, lsock, server, open>>

\* recv returns 0 or an error other than EINTR
AckMissing(r) ==
    /\ At(r, "lsocketAck") /\ region[r].link = "dead"
    /\ region' = [region EXCEPT ![r] = LSocketFailed(@)]
    /\ UNCHANGED <<disk, lsock, server, open>>

AckReceived(r) ==
    /\ At(r, "lsocketAck") /\ region[r].link = "live"
    /\ region' = [region EXCEPT ![r] = SysvBegin(
                    [@ EXCEPT !.sockFd = region[r].fd, !.fd = NoFd, !.link = "none"])]
    /\ UNCHANGED <<disk, lsock, server, open>>

\* Without a socket, close(-1) fails and release changes nothing.
LSocketRelease(r) ==
    /\ At(r, "idle")
    /\ region[r].serverRunning /\ region[r].sockFd # NoFd
    /\ open' = [open EXCEPT ![r] = @ \ {region[r].sockFd}]
    /\ region' = [region EXCEPT ![r].pc = "remove", ![r].sockFd = NoFd,
                                ![r].result = "none"]
    /\ UNCHANGED <<disk, lsock, server>>

\* remove_all takes the sockets of all regions with the folder
RemovePath(r) ==
    /\ At(r, "remove")
    /\ disk' = disk \ {SockFolder} /\ lsock' = {}
    /\ region' = [region EXCEPT ![r].pc = "idle", ![r].pathCreated = FALSE,
                                ![r].serverRunning = FALSE, ![r].removed = TRUE]
    /\ UNCHANGED <<server, open>>

RemovePathThrows(r) ==
    /\ At(r, "remove")
    /\ lsock' \in SUBSET lsock
    /\ region' = [region EXCEPT ![r].pc = "idle"]
    /\ UNCHANGED <<disk, server, open>>

-----------------------------------------------------------------------------
(* ItcTransportSysvMsgQueue::initialise and release, SyncObject.           *)

\* createPath never creates a file: it opens the path only if that is a
\* regular file already, so for a missing file permissions() fails.  No
\* region removes the file, so createPath is one step here.  Or
\* pthread_key_create fails.
SysvFails(r) ==
    /\ At(r, "sysv")
    /\ region' = [region EXCEPT ![r].pc = "transports", ![r].transports = FALSE]
    /\ UNCHANGED <<disk, lsock, server, open>>

\* The descriptor SyncObject::init ends up with: none if it ends before the
\* condition variable has its clock, or for want of one.  Nobody is told.
NewEventFd(r, clock) == IF clock /\ Free(r) # {} THEN LowestFree(r) ELSE NoFd

\* SyncObject::reset closes the descriptor, if there is one
AfterReset(fds, eventFd) == fds \ {eventFd}

\* A new SyncObject takes the place of the transport's former one
MakeSyncObject(state, clock, fd) ==
    [state EXCEPT !.sync = IF clock THEN "ready" ELSE "noClock",
                  !.eventFd = fd, !.life = @ + 1]

addThread(threads, syncObj) == Append(threads, [life |-> syncObj, isRunning |-> FALSE])

\* The former SyncObject ends when the new one is there, which is added
\* with a new thread.
SysvReady(r, clock) ==
    /\ At(r, "sysv") /\ SysvFile \in disk
    /\ LET fd == NewEventFd(r, clock)
       IN /\ open' = [open EXCEPT ![r] = AfterReset(@ \cup ({fd} \ {NoFd}), region[r].eventFd)]
          /\ region' = [region EXCEPT ![r] =
                [MakeSyncObject(region[r], clock, fd) EXCEPT !.pc = "transports", !.sysv = TRUE,
                        !.threads = addThread(@, region[r].life + 1)]]
    /\ UNCHANGED <<disk, lsock, server>>

\* The key is deleted: the rx thread will exit without destructRxThread.
SysvRelease(r) ==
    /\ At(r, "idle") /\ region[r].sysv
    /\ region' = [region EXCEPT ![r].sysv = FALSE, ![r].rxTerminated = TRUE,
                                ![r].rx = "none", ![r].result = "none"]
    /\ UNCHANGED <<disk, lsock, server, open>>

\* The rx thread leaves its loop, as it does at once if a release has ever
\* set m_isRxThreadTerminated, which nothing resets; or, still late, it fails
\* before the loop with its queue made.  destructRxThread takes the queue and
\* m_isInitialised away.
RxThreadEnds(r) ==
    /\ region[r].rx = "late" \/ (region[r].rx = "ready" /\ region[r].rxTerminated)
    /\ region' = [region EXCEPT ![r].rx = "none", ![r].rxTerminated = TRUE,
                                ![r].sysv = FALSE]
    /\ UNCHANGED <<disk, lsock, server, open>>

-----------------------------------------------------------------------------
(* The end of ItcPlatform::initialise.                                     *)

\* a transport, pthread_key_create or startAllThreads has failed
InitialiseFails(r) ==
    /\ At(r, "transports")
    /\ Return(r, "ITC_FAILED")
    /\ UNCHANGED <<disk, lsock, server, open>>

\* startAllThreads (see ThreadManager, which has the spurious wakeups too)
\* stops at an entry whose SyncObject is gone.
Reached(r) ==
    \A i \in DOMAIN region[r].threads :
        region[r].threads[i].isRunning \/ region[r].threads[i].life = region[r].life

\* The rx thread has its queue and signals.
startAllThreads(r) ==
    /\ At(r, "transports") /\ region[r].transports
    /\ Reached(r) /\ region[r].sync # "noClock"
    /\ region' = [region EXCEPT ![r] = [Returned(region[r], "ITC_OK") EXCEPT
            !.rx = "ready",
            !.threads = [i \in DOMAIN @ |-> [life |-> @[i].life, isRunning |-> TRUE]]]]
    /\ UNCHANGED <<disk, lsock, server, open>>

\* The wait times out, at once if it is on the wrong clock; the thread goes on.
StartTimesOut(r) ==
    /\ At(r, "transports") /\ region[r].transports /\ Reached(r)
    /\ region' = [region EXCEPT ![r] = [Returned(region[r], "ITC_FAILED") EXCEPT !.rx = "late"]]
    /\ UNCHANGED <<disk, lsock, server, open>>

-----------------------------------------------------------------------------
(* itc-server.                                                             *)

\* A second server finds the address in use and ends.
ServerUp ==
    /\ server.starting > 0
    /\ server' = [server EXCEPT !.starting = @ - 1, !.up = TRUE]
    /\ disk' = disk \cup {ServerSocket}
    /\ UNCHANGED <<lsock, open, region>>

\* the server opens the socket of a region it knows
ServerListens(r) ==
    /\ server.up /\ SockFolder \in disk /\ region[r].serverRunning
    /\ lsock' = lsock \cup {r}
    /\ UNCHANGED <<disk, server, open, region>>

\* The server dies, and leaves its socket file behind unless it ends in order.
ServerDies ==
    /\ server.up /\ server.deaths < MaxDeaths
    /\ server' = [server EXCEPT !.up = FALSE, !.deaths = @ + 1]
    /\ disk' \in {disk, disk \ {ServerSocket}}
    /\ lsock' = {}
    /\ region' = [r \in Region |-> [region[r] EXCEPT
                    !.link = IF @ = "live" THEN "dead" ELSE @]]
    /\ UNCHANGED open

-----------------------------------------------------------------------------
RegionStep(r) ==
    \/ ServerExists(r)
    \/ ServerMissing(r)
    \/ startDaemon(r)
    \/ ForkFails(r)
    \/ LocateConnect(r)
    \/ LocateConnectFails(r)
    \/ LocateFails(r)
    \/ LocateReply(r)
    \/ \E known \in BOOLEAN : LocateRefused(r, known)
    \/ PathExists(r)
    \/ CreateDirectories(r)
    \/ CreateDirectoriesFails(r)
    \/ Grant(r)
    \/ GrantFails(r)
    \/ LSocketConnect(r)
    \/ LSocketConnectFails(r)
    \/ AckWrong(r)
    \/ AckMissing(r)
    \/ AckReceived(r)
    \/ RemovePath(r)
    \/ RemovePathThrows(r)
    \/ SysvFails(r)
    \/ \E clock \in BOOLEAN : SysvReady(r, clock)
    \/ InitialiseFails(r)
    \/ startAllThreads(r)
    \/ StartTimesOut(r)

UserCall(r) ==
    \/ \E isServer \in BOOLEAN : CallInitialise(r, isServer)
    \/ LSocketRelease(r)
    \/ SysvRelease(r)

Next ==
    \/ \E r \in Region :
        RegionStep(r) \/ UserCall(r) \/ RxThreadEnds(r) \/ ServerListens(r)
    \/ ServerUp
    \/ ServerDies

Spec == Init /\ [][Next]_vars

\* A region's call runs on, and its recv ends: the server answers or dies.
FairSpec == Spec /\ \A r \in Region : WF_vars(RegionStep(r))

-----------------------------------------------------------------------------
(* ITC_OK from ItcPlatform::initialise means that the region is ready:     *)
(* itc-server was located, the socket to it is open, the folder was found  *)
(* or made, the thread of its present SyncObject was started and signalled *)
(* on the right clock, and the message queue transport counts as           *)
(* initialised exactly as long as its rx thread is there.  That is for     *)
(* good, unless the transport was released before or its thread failed:    *)
(* m_isRxThreadTerminated survives, and the new rx thread ends too.        *)
OkMeansReady ==
    \A r \in Region : region[r].result = "ITC_OK" =>
        /\ region[r].serverRunning
        /\ region[r].sockFd \in open[r]
        /\ region[r].pathCreated
        /\ region[r].sync # "noClock"
        /\ region[r].sysv <=> region[r].rx = "ready"
        /\ region[r].sysv \/ region[r].rxTerminated
        /\ \E i \in DOMAIN region[r].threads :
              region[r].threads[i] = [life |-> region[r].life, isRunning |-> TRUE]

(* A region whose first initialise has succeeded has two descriptors open  *)
(* and no more: the socket to itc-server and the eventfd of its SyncObject.*)
FirstStartIsClean ==
    \A r \in Region : region[r].result = "ITC_OK" /\ region[r].calls = 1 =>
        open[r] = {region[r].sockFd, region[r].eventFd} \ {NoFd}

(* m_isLSockPathCreated is stale only through another region: if the       *)
(* folder is gone, some other region's release has removed it.             *)
StaleOnlyThroughOthers ==
    \A r \in Region : region[r].pathCreated /\ SockFolder \notin disk =>
        \E q \in Region \ {r} : region[q].removed

(* Every initialise and every release returns, also when itc-server never  *)
(* comes up or dies in the middle: each region is outside them time and    *)
(* again.                                                                  *)
CallsReturn == \A r \in Region : []<>At(r, "idle")
=============================================================================
