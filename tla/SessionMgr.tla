----------------------------- MODULE SessionMgr -----------------------------
(***************************************************************************)
(* TcpSessionMgr and the part of TcpSession it drives: the table of        *)
(* sessions, the deferred deletion of ended sessions, listening,           *)
(* connecting, and the handlers libswevent calls, over an explicit heap    *)
(* and descriptor table.                                                   *)
(*                                                                         *)
(* Everything runs on the thread of the event loop, so a handler is a      *)
(* sequence of steps (pc names the next one) and only the kernel moves in  *)
(* between.  A virtual function or a decoder of the application runs       *)
(* inside a handler: the application may then call the manager, any number *)
(* of times, before it returns.  It may also call it when the loop is      *)
(* idle (timers, or before the loop starts).                               *)
(*                                                                         *)
(* The bytes of a session are in TcpSession.tla; here a send only decides  *)
(* whether WRITE is watched and whether the session is closed.             *)
(***************************************************************************)
EXTENDS Integers

CONSTANTS
    Fds,            \* descriptor numbers the process may use
    Addrs,          \* heap addresses a session object may get
    UIntMod,        \* values of unsigned int (2^32), the type AddSession's pair keys with
    ULongMod,       \* values of unsigned long (2^64), the type of a session id
    MaxId,          \* BOUND: once the seed has reached MaxId, BeginSession fails
    WillEndMayEnd   \* OnSessionWillEnd of the application may end other sessions

ASSUME ConstantsAssumption ==
    /\ Fds \subseteq Nat
    /\ Addrs \subseteq Nat \ {0}
    /\ UIntMod \in Nat \ {0} /\ ULongMod \in Nat \ {0} /\ UIntMod <= ULongMod
    /\ MaxId \in Nat /\ MaxId < ULongMod - 1
    /\ WillEndMayEnd \in BOOLEAN

NULL == 0
NoFd == -1
SessionIds == 0 .. ULongMod - 1
INVALID_SESSION_ID == ULongMod - 1
AppLenArg == 0                    \* OnConnectReady's socklen_t len = 0

VARIABLES
    sock,               \* kernel: the state of each descriptor
    io,                 \* libswevent: callback, argument and events of each descriptor
    heap,               \* session objects by address
    m_sessions,         \* id -> object or NULL
    m_sessionGC,        \* objects waiting for OnSessionGC
    m_listens,          \* listening descriptors
    m_pSessionGCCheck,  \* the check callback is registered
    seed,               \* GenSessionId's counter
    pc,                 \* where the thread is
    self,               \* the session the running handler, or OnSessionGC, is at
    fr,                 \* the descriptor of the running OnConnectReady
    alsoRead            \* OnSessionIOReady: events has READ

kernelVars == <<sock, io>>
mgrVars == <<heap, m_sessions, m_sessionGC>>
listVars == <<m_listens, m_pSessionGCCheck>>
frameVars == <<pc, self, fr, alsoRead>>
vars == <<sock, io, heap, m_sessions, m_sessionGC, m_listens, m_pSessionGCCheck,
          seed, pc, self, fr, alsoRead>>

SockStates == {"closed", "listening", "connecting", "refused", "up", "eof", "err", "leaked"}
Broken == {"refused", "eof", "err"}       \* nothing more will be read from it
Watch == [cb : {"none", "accept", "connect", "session"}, arg : Addrs \cup {NULL},
          ev : SUBSET {"R", "W"}]
NoWatch == [cb |-> "none", arg |-> NULL, ev |-> {}]
Object == [live : BOOLEAN, m_sessionId : SessionIds, m_socket : Fds \cup {NoFd}]
FreeObject == [live |-> FALSE, m_sessionId |-> INVALID_SESSION_ID, m_socket |-> NoFd]
PCs == {"idle", "accept", "connfail", "write", "read", "recv", "willend", "destroyed"}

StoreTypeOK ==
    /\ sock \in [Fds -> SockStates]
    /\ io \in [Fds -> Watch]
    /\ heap \in [Addrs -> Object]
    /\ m_sessions \in [SessionIds -> Addrs \cup {NULL}]
    /\ m_sessionGC \subseteq Addrs
    /\ m_listens \subseteq Fds
    /\ m_pSessionGCCheck \in BOOLEAN
    /\ seed \in SessionIds

FrameTypeOK ==
    /\ pc \in PCs
    /\ self \in Addrs \cup {NULL}
    /\ fr \in Fds \cup {NoFd}
    /\ alsoRead \in BOOLEAN

\* The values every variable ranges over; NULL never enters m_sessionGC.
TypeOK == StoreTypeOK /\ FrameTypeOK

Init ==
    /\ sock = [fd \in Fds |-> "closed"]
    /\ io = [fd \in Fds |-> NoWatch]
    /\ heap = [a \in Addrs |-> FreeObject]
    /\ m_sessions = [id \in SessionIds |-> NULL]
    /\ m_sessionGC = {}
    /\ m_listens = {}
    /\ m_pSessionGCCheck = FALSE
    /\ seed = 0
    /\ pc = "idle" /\ self = NULL /\ fr = NoFd /\ alsoRead = FALSE

-----------------------------------------------------------------------------
(* The table of sessions.                                                  *)

GenSessionId(s) ==
    LET id == (s + 1) % ULongMod
    IN  IF id = INVALID_SESSION_ID THEN (id + 1) % ULongMod ELSE id

\* The pair inserted is pair<unsigned int, TcpSession*>: the key loses its high half.
Key(id) == id % UIntMod

GetSession(id) == m_sessions[id]

\* AddSession succeeds for id, and failed for every id tried between the seed and it.
FirstAddable(id) ==
    /\ id \in GenSessionId(seed) .. MaxId
    /\ m_sessions[Key(id)] = NULL
    /\ \A tried \in GenSessionId(seed) .. id - 1 : m_sessions[Key(tried)] # NULL

Return == pc' = "idle" /\ self' = NULL /\ fr' = NoFd /\ alsoRead' = FALSE

\* A slip: close without sw_ev_io_del.
CloseFdStillWatched(fd) ==
    /\ sock' = [sock EXCEPT ![fd] = "closed"]
    /\ UNCHANGED io

\* The open socket of a session, or of a connection in hand, is closed: sw_ev_io_del, close.
CloseFd(fd) ==
    /\ sock' = [sock EXCEPT ![fd] = "closed"]
    /\ io' = [io EXCEPT ![fd] = NoWatch]

\* Slips the properties must catch: the entry stays, or is overwritten instead of
\* erased; the object is deleted at once; it is not collected.
RemoveSessionNot(id) == m_sessions
RemoveSessionMarks(id) == [m_sessions EXCEPT ![id] = NoFd]
DeleteAtOnce(s) == [heap EXCEPT ![s] = FreeObject]
CollectNot(s) == m_sessionGC

RemoveSession(id) == [m_sessions EXCEPT ![id] = NULL]
DetachSocket(s) == [heap EXCEPT ![s].m_socket = NoFd]
Collect(s) == m_sessionGC \cup {s}

EndSession(id) ==
    IF GetSession(id) = NULL
    THEN UNCHANGED <<kernelVars, mgrVars>>
    ELSE LET s == GetSession(id)
             fd == heap[s].m_socket
         IN /\ IF fd = NoFd THEN UNCHANGED kernelVars ELSE CloseFd(fd)
            /\ heap' = DetachSocket(s)
            /\ m_sessions' = RemoveSession(id)
            /\ m_sessionGC' = Collect(s)

\* Close and ForceClose of an object, by the id the object remembers.
Close(s) == EndSession(heap[s].m_sessionId)

\* CreateSession returned NULL, or sw_ev_io_add failed and the object was deleted
\* again: -1, and every caller closes the descriptor (a second close after a delete).
BeginFails(fd) ==
    /\ CloseFd(fd)
    /\ \/ seed' = seed
       \/ seed < MaxId /\ seed' = GenSessionId(seed)
    /\ UNCHANGED <<mgrVars, listVars>>

\* A slip: OnCheck is never registered.
GCCheckNotAdded == m_pSessionGCCheck

\* sw_ev_check_add is taken not to return NULL.
GCCheckAdded == TRUE

\* The object is created, registered for READ and entered under a fresh id.
BeginSucceeds(fd, state) ==
    /\ seed < MaxId
    /\ \E a \in {b \in Addrs : ~heap[b].live}, id \in SessionIds :
           /\ FirstAddable(id)
           /\ seed' = id
           /\ heap' = [heap EXCEPT ![a] = [live |-> TRUE, m_sessionId |-> id, m_socket |-> fd]]
           /\ m_sessions' = [m_sessions EXCEPT ![Key(id)] = a]
           /\ io' = [io EXCEPT ![fd] = [cb |-> "session", arg |-> a, ev |-> {"R"}]]
           /\ sock' = [sock EXCEPT ![fd] = state]
           /\ m_pSessionGCCheck' = GCCheckAdded
           /\ UNCHANGED <<m_sessionGC, m_listens>>

BeginSession(fd, state) == BeginFails(fd) \/ BeginSucceeds(fd, state)

-----------------------------------------------------------------------------
(* What the application does, in its own turn or inside a callback.        *)

Callbacks == {"accept", "connfail", "recv", "willend"}
AppRuns == pc \in {"idle"} \cup Callbacks
AppMayEnd == AppRuns /\ (pc = "willend" => WillEndMayEnd)
Closed(fd) == sock[fd] = "closed"

\* EndSession, Close, ForceClose, or a SetSentClose with nothing left to send.
AppEndSession(id) ==
    /\ AppMayEnd
    /\ GetSession(id) # NULL
    /\ EndSession(id)
    /\ UNCHANGED <<listVars, seed, frameVars>>

\* SendData kept part of the data: WRITE is watched as well.
AppSendData(id) ==
    /\ AppRuns
    /\ GetSession(id) # NULL
    /\ LET fd == heap[GetSession(id)].m_socket
       IN  io' = [io EXCEPT ![fd].ev = @ \cup {"W"}]
    /\ UNCHANGED <<sock, mgrVars, listVars, seed, frameVars>>

\* Connect, or BeginSession with a descriptor of the application, connected at once.
AppConnectNow(fd) ==
    /\ AppRuns
    /\ Closed(fd)
    /\ BeginSession(fd, "up")
    /\ UNCHANGED frameVars

\* Connect with EINPROGRESS.
AppConnect(fd) ==
    /\ AppRuns
    /\ Closed(fd)
    /\ sock' = [sock EXCEPT ![fd] = "connecting"]
    /\ io' = [io EXCEPT ![fd] = [cb |-> "connect", arg |-> NULL, ev |-> {"R", "W"}]]
    /\ UNCHANGED <<mgrVars, listVars, seed, frameVars>>

AppBindAndListen(fd) ==
    /\ AppRuns
    /\ Closed(fd)
    /\ sock' = [sock EXCEPT ![fd] = "listening"]
    /\ io' = [io EXCEPT ![fd] = [cb |-> "accept", arg |-> NULL, ev |-> {"R"}]]
    /\ m_listens' = m_listens \cup {fd}
    /\ UNCHANGED <<mgrVars, m_pSessionGCCheck, seed, frameVars>>

\* Connect whose name does not resolve, BindAndListen whose setsockopt, bind or
\* listen fails: -1 is returned and the descriptor stays open, known to nobody.
AppCallLeaks(fd) ==
    /\ AppRuns
    /\ Closed(fd)
    /\ sock' = [sock EXCEPT ![fd] = "leaked"]
    /\ UNCHANGED <<io, mgrVars, listVars, seed, frameVars>>

\* The virtual function returns to the handler that called it.
RecvReturns ==
    /\ pc = "recv"
    /\ Return
    /\ UNCHANGED <<kernelVars, mgrVars, listVars, seed>>

-----------------------------------------------------------------------------
(* Handlers libswevent calls.                                              *)

Watched(fd, cb) == pc = "idle" /\ io[fd].cb = cb

DispatchAccept(fd) ==
    /\ Watched(fd, "accept")
    /\ pc' = "accept"
    /\ UNCHANGED <<kernelVars, mgrVars, listVars, seed, self, fr, alsoRead>>

\* accept() returned a client; the loop goes on whether or not its session begins.
OnAcceptOne(fd) ==
    /\ pc = "accept"
    /\ Closed(fd)
    /\ BeginSession(fd, "up")
    /\ UNCHANGED frameVars

\* accept() returned -1: EAGAIN, or an error of the listening socket.
OnAcceptEnds ==
    /\ pc = "accept"
    /\ Return
    /\ UNCHANGED <<kernelVars, mgrVars, listVars, seed>>

\* getsockopt(SO_ERROR) stores at most AppLenArg bytes of the error.
SockErrno(fd) == IF AppLenArg > 0 /\ sock[fd] = "refused" THEN 1 ELSE 0
ConnectSeemsOk(fd, ev) == SockErrno(fd) = 0 /\ "W" \in ev

\* What is reported for a connection that is no longer in progress.
ConnectEvents(fd) ==
    IF sock[fd] = "refused" THEN {{"R"}, {"R", "W"}} ELSE {{"W"}, {"R", "W"}}

OnConnectSuccess(fd) ==
    /\ Watched(fd, "connect")
    /\ sock[fd] # "connecting"
    /\ \E ev \in ConnectEvents(fd) : ConnectSeemsOk(fd, ev)
    /\ BeginSession(fd, sock[fd])
    /\ UNCHANGED frameVars

\* OnConnect(success = 0) runs while the descriptor is still open and watched ...
OnConnectFail(fd) ==
    /\ Watched(fd, "connect")
    /\ sock[fd] # "connecting"
    /\ \E ev \in ConnectEvents(fd) : ~ConnectSeemsOk(fd, ev)
    /\ pc' = "connfail"
    /\ fr' = fd
    /\ UNCHANGED <<kernelVars, mgrVars, listVars, seed, self, alsoRead>>

\* ... and closed when it has returned.
OnConnectFailReturns ==
    /\ pc = "connfail"
    /\ CloseFd(fr)
    /\ Return
    /\ UNCHANGED <<mgrVars, listVars, seed>>

\* OnSessionIOReady for some of the watched events; a broken connection is always readable.
OnSessionIOReady(fd) ==
    /\ Watched(fd, "session")
    /\ \E ev \in SUBSET io[fd].ev \ {{}} :
        /\ sock[fd] \in Broken => "R" \in ev
        /\ pc' = IF "W" \in ev THEN "write" ELSE "read"
        /\ alsoRead' = ("R" \in ev)
    /\ self' = io[fd].arg
    /\ UNCHANGED <<kernelVars, mgrVars, listVars, seed, fr>>

AfterWrite ==
    IF alsoRead
    THEN pc' = "read" /\ UNCHANGED <<self, fr, alsoRead>>
    ELSE Return

\* SendPendingData returned 1: WRITE stays watched.
OnWritePartial ==
    /\ pc = "write"
    /\ AfterWrite
    /\ UNCHANGED <<kernelVars, mgrVars, listVars, seed>>

\* SendPendingData returned 0 and m_sentClose is not set: sw_ev_io_del(WRITE).
OnWriteDone ==
    /\ pc = "write"
    /\ io' = [io EXCEPT ![heap[self].m_socket].ev = @ \ {"W"}]
    /\ AfterWrite
    /\ UNCHANGED <<sock, mgrVars, listVars, seed>>

\* A write failed, or everything is sent and m_sentClose is set: Close, and
\* OnSessionIOReady still calls OnRead on the object.
OnWriteCloses ==
    /\ pc = "write"
    /\ Close(self)
    /\ AfterWrite
    /\ UNCHANGED <<listVars, seed>>

\* A slip: ret >= 0 for ret > 0, the end of the stream taken for data.
ReadGivesDataOrEnd ==
    heap[self].m_socket # NoFd /\ sock[heap[self].m_socket] \in {"up", "eof"}

ReadGivesData == heap[self].m_socket # NoFd /\ sock[heap[self].m_socket] = "up"

OnReadData ==
    /\ pc = "read"
    /\ ReadGivesData
    /\ pc' = "recv"
    /\ UNCHANGED <<kernelVars, mgrVars, listVars, seed, self, fr, alsoRead>>

\* read() = 0, or an error other than EAGAIN: EBADF when OnWrite has closed the socket.
OnReadCloses ==
    /\ pc = "read"
    /\ ~ReadGivesData
    /\ Close(self)
    /\ Return
    /\ UNCHANGED <<listVars, seed>>

-----------------------------------------------------------------------------
(* OnCheck -> OnSessionGC: one pass over a std::set of pointers, in address *)
(* order, with a virtual call at each element, then clear().                *)

IsLowest(a, S) == a \in S /\ \A b \in S : a <= b

GCStart ==
    /\ pc = "idle"
    /\ m_pSessionGCCheck
    /\ \E a \in Addrs : IsLowest(a, m_sessionGC) /\ self' = a
    /\ pc' = "willend"
    /\ UNCHANGED <<kernelVars, mgrVars, listVars, seed, fr, alsoRead>>

GCLater == {a \in m_sessionGC : a > self}

\* A slip: no clear() at the end of the pass.
NotCleared == m_sessionGC

Cleared == {}

\* OnSessionWillEnd returned: delete, and on to the next element or to clear().
GCDelete ==
    /\ pc = "willend"
    /\ heap' = [heap EXCEPT ![self] = FreeObject]
    /\ IF GCLater = {}
       THEN m_sessionGC' = Cleared /\ Return
       ELSE /\ \E a \in Addrs : IsLowest(a, GCLater) /\ self' = a
            /\ UNCHANGED <<m_sessionGC, pc, fr, alsoRead>>
    /\ UNCHANGED <<kernelVars, m_sessions, listVars, seed>>

-----------------------------------------------------------------------------
(* ~TcpSessionMgr: the sessions of the table and the listeners.  The objects *)
(* of m_sessionGC and the pending connections are left behind.               *)

InTable(a) == \E id \in SessionIds : m_sessions[id] = a
SessionFds == {fd \in Fds : \E a \in Addrs : InTable(a) /\ heap[a].m_socket = fd}

Destroy ==
    /\ pc = "idle"
    /\ pc' = "destroyed"
    /\ sock' = [fd \in Fds |-> IF fd \in SessionFds \cup m_listens THEN "closed" ELSE sock[fd]]
    /\ io' = [fd \in Fds |-> IF fd \in SessionFds \cup m_listens THEN NoWatch ELSE io[fd]]
    /\ heap' = [a \in Addrs |-> IF InTable(a) THEN FreeObject ELSE heap[a]]
    /\ m_sessions' = [id \in SessionIds |-> NULL]
    /\ m_sessionGC' = {}
    /\ m_listens' = {}
    /\ m_pSessionGCCheck' = FALSE
    /\ UNCHANGED <<seed, self, fr, alsoRead>>

-----------------------------------------------------------------------------
(* The kernel: a connect resolves, a peer closes or resets.                *)

Kernel(fd, from, to) ==
    /\ pc # "destroyed"
    /\ sock[fd] \in from
    /\ sock' = [sock EXCEPT ![fd] = to]
    /\ UNCHANGED <<io, mgrVars, listVars, seed, frameVars>>

ConnectEstablished(fd) == Kernel(fd, {"connecting"}, "up")
ConnectRefused(fd)     == Kernel(fd, {"connecting"}, "refused")
PeerCloses(fd)         == Kernel(fd, {"up"}, "eof")
PeerResets(fd)         == Kernel(fd, {"up", "eof"}, "err")

-----------------------------------------------------------------------------
AppNext ==
    \/ \E id \in SessionIds : AppEndSession(id) \/ AppSendData(id)
    \/ \E fd \in Fds :
        \/ AppConnectNow(fd) \/ AppConnect(fd) \/ AppBindAndListen(fd) \/ AppCallLeaks(fd)
    \/ Destroy

LoopNext ==
    \/ \E fd \in Fds :
        \/ DispatchAccept(fd) \/ OnAcceptOne(fd)
        \/ OnConnectSuccess(fd) \/ OnConnectFail(fd)
        \/ OnSessionIOReady(fd)
    \/ OnAcceptEnds \/ OnConnectFailReturns \/ RecvReturns
    \/ OnWritePartial \/ OnWriteDone \/ OnWriteCloses
    \/ OnReadData \/ OnReadCloses
    \/ GCStart \/ GCDelete

KernelNext ==
    \E fd \in Fds :
        ConnectEstablished(fd) \/ ConnectRefused(fd) \/ PeerCloses(fd) \/ PeerResets(fd)

Next == AppNext \/ LoopNext \/ KernelNext

SafeSpec == Init /\ [][Next]_vars

\* A handler that runs goes on: the thread is never preempted for good, and the
\* application's callbacks return.
HandlerSteps ==
    \/ OnAcceptEnds \/ OnConnectFailReturns \/ RecvReturns
    \/ OnWritePartial \/ OnWriteDone \/ OnWriteCloses
    \/ OnReadData \/ OnReadCloses \/ GCDelete

\* The loop polls level-triggered and gives every ready descriptor and the check
\* callback a turn in each round: strong fairness, as other handlers come between.
Fairness ==
    /\ WF_vars(HandlerSteps)
    /\ SF_vars(GCStart)
    /\ \A fd \in Fds :
        /\ SF_vars(OnConnectSuccess(fd) \/ OnConnectFail(fd))
        /\ SF_vars(OnSessionIOReady(fd))

Spec == SafeSpec /\ Fairness

-----------------------------------------------------------------------------
(* Properties.                                                             *)

\* The elements of m_sessionGC the running pass, or the next one, will still touch.
GCPending == IF pc = "willend" THEN {a \in m_sessionGC : a >= self} ELSE m_sessionGC

OwnsFd(a, fd) ==
    /\ heap[a].live
    /\ heap[a].m_socket = fd
    /\ m_sessions[heap[a].m_sessionId] = a

\* An entry of the table is a live object, under the id the object has, whose socket
\* is open and watched for READ on behalf of that object and no other: what GetSession
\* returns can be used and ended, whatever was begun and ended before.
TableSound ==
    \A id \in SessionIds : m_sessions[id] # NULL =>
        LET s == m_sessions[id]
        IN  /\ heap[s].live
            /\ heap[s].m_sessionId = id
            /\ heap[s].m_socket \in Fds
            /\ io[heap[s].m_socket].cb = "session"
            /\ io[heap[s].m_socket].arg = s
            /\ "R" \in io[heap[s].m_socket].ev

\* OnSessionIOReady's cast and its assert(fd == GetSocket()): whatever libswevent may
\* still call back names a live session that owns the descriptor and is in the table.
CallbacksSound ==
    \A fd \in Fds : io[fd].cb = "session" => io[fd].arg # NULL /\ OwnsFd(io[fd].arg, fd)

\* The object a handler or OnSessionWillEnd is running on is not deleted under it,
\* whoever closes it meanwhile: deletion is deferred to OnSessionGC.
HandlerObjectAlive ==
    pc \in {"write", "read", "recv", "willend"} => self # NULL /\ heap[self].live

\* OnSessionGC deletes each object once, and only ended ones that nobody can find.
GCSound ==
    \A a \in GCPending :
        /\ heap[a].live
        /\ heap[a].m_socket = NoFd
        /\ ~InTable(a)

\* A live object is in the table or waiting for OnSessionGC, and the check callback
\* that runs it is registered: none is lost.
NoOrphan ==
    pc # "destroyed" =>
        \A a \in Addrs : heap[a].live =>
            m_pSessionGCCheck /\ (InTable(a) \/ a \in GCPending)

\* An open descriptor has exactly one owner: a listener, a pending connection, a
\* session of the table; or a failed call has leaked it.  A closed one is not watched.
DescriptorsOwned ==
    \A fd \in Fds :
        /\ sock[fd] \in {"closed", "leaked"} => io[fd] = NoWatch
        /\ io[fd].cb = "none" => sock[fd] \in {"closed", "leaked"}
        /\ fd \in m_listens <=> io[fd].cb = "accept"
        /\ sock[fd] = "listening" <=> io[fd].cb = "accept"

-----------------------------------------------------------------------------
(* What makes the invariants above inductive.                              *)

\* Ids of live objects were given out, to one object each.
IdsSound ==
    /\ seed <= MaxId
    /\ \A a \in Addrs : heap[a].live => heap[a].m_sessionId \in 1 .. seed
    /\ \A a, b \in Addrs : /\ heap[a].live /\ heap[b].live
                          /\ heap[a].m_sessionId = heap[b].m_sessionId
                          => a = b

\* What TableSound says whatever the width of the key: an entry is a live object whose
\* id the key was cut from, with an open socket that is watched for it.
EntriesSound ==
    \A k \in SessionIds : m_sessions[k] # NULL =>
        LET s == m_sessions[k]
        IN  /\ heap[s].live
            /\ Key(heap[s].m_sessionId) = k
            /\ heap[s].m_socket \in Fds
            /\ io[heap[s].m_socket].cb = "session"
            /\ io[heap[s].m_socket].arg = s
            /\ "R" \in io[heap[s].m_socket].ev

\* The same for CallbacksSound: the object libswevent would call back is live, has the
\* descriptor, and has an entry.
HasFd(a, fd) ==
    /\ heap[a].live
    /\ heap[a].m_socket = fd
    /\ m_sessions[Key(heap[a].m_sessionId)] = a

WatchesSound ==
    \A fd \in Fds : io[fd].cb = "session" => io[fd].arg # NULL /\ HasFd(io[fd].arg, fd)

\* An object with a socket has an entry.
OpenIsInTable ==
    \A a \in Addrs :
        heap[a].live /\ heap[a].m_socket # NoFd => m_sessions[Key(heap[a].m_sessionId)] = a

\* What the running handler still counts on.
FrameSound ==
    /\ pc = "write" => m_sessions[Key(heap[self].m_sessionId)] = self
    /\ pc = "willend" => self \in m_sessionGC
    /\ pc = "connfail" => fr \in Fds /\ io[fr].cb = "connect"

\* The inductive invariant, of every execution: no callback, table entry or handler ever
\* sees a deleted object, and no object is lost unless OnSessionWillEnd ends sessions.
IInv ==
    /\ TypeOK /\ IdsSound /\ OpenIsInTable
    /\ EntriesSound /\ WatchesSound /\ DescriptorsOwned
    /\ GCSound /\ (~WillEndMayEnd => NoOrphan)
    /\ HandlerObjectAlive /\ FrameSound

\* The abstract life of an id, read off the table and the heap.
Held(id) == \E a \in Addrs : heap[a].live /\ heap[a].m_sessionId = id

LifeOf(id) ==
    CASE m_sessions[id] # NULL -> "live"
      [] m_sessions[id] = NULL /\ Held(id) -> "dying"
      [] m_sessions[id] = NULL /\ ~Held(id) /\ id > seed -> "unused"
      [] m_sessions[id] = NULL /\ ~Held(id) /\ id <= seed -> "gone"

LifeIds == SessionIds \ {0}

Life == INSTANCE SessionLife WITH
            Ids <- LifeIds,
            life <- [id \in LifeIds |-> LifeOf(id)],
            stopped <- (pc = "destroyed")

\* Every session lives the life the manager promises: begun once, ended once, reaped
\* once after its end, ids never reused, and every ended session is finally reaped.
ImplementsLife == Life!Spec

\* A session whose peer has closed or reset the connection, or whose connect was
\* refused after all, is ended.
BrokenSessionEnds ==
    \A fd \in Fds :
        (io[fd].cb = "session" /\ sock[fd] \in Broken)
            ~> (sock[fd] \notin Broken)

\* A connect that is no longer in progress leads to a session or to a closed descriptor.
ConnectIsAnswered ==
    \A fd \in Fds :
        (io[fd].cb = "connect" /\ sock[fd] # "connecting")
            ~> (io[fd].cb # "connect" \/ pc = "destroyed")
=============================================================================
