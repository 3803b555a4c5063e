--------------------------- MODULE SessionMgrProofs ---------------------------
(***************************************************************************)
(* The safety of SessionMgr for any descriptors, heap and number of        *)
(* sessions. The inductive invariant holds of every execution, and so does *)
(* NothingChangesHands, which says what a single step may do. Two limits,  *)
(* whose violation the runs session_mgr_key and session_mgr_gc exhibit,    *)
(* are hypotheses of the theorems that need them and of no other: ids that *)
(* fit in an unsigned int (MaxId < UIntMod), and an OnSessionWillEnd that  *)
(* ends no session (~WillEndMayEnd).                                       *)
(***************************************************************************)
EXTENDS SessionMgr, TLAPS

\* The invariants that do not mention where the thread is.
Store == StoreTypeOK /\ IdsSound /\ OpenIsInTable /\ EntriesSound /\ WatchesSound /\ DescriptorsOwned

\* The key of an id is a place of the table; below the limit it is the id.
LEMMA KeyIsAPlace ==
    ASSUME NEW id \in SessionIds
    PROVE  Key(id) \in SessionIds
BY ConstantsAssumption DEF Key, SessionIds

LEMMA KeyIsId ==
    ASSUME MaxId < UIntMod, NEW id \in 0 .. MaxId
    PROVE  Key(id) = id
BY ConstantsAssumption DEF Key

\* Below MaxId, GenSessionId just counts, and an id AddSession accepts is a new one.
LEMMA NextIdIsFresh ==
    ASSUME StoreTypeOK, seed < MaxId
    PROVE  /\ GenSessionId(seed) = seed + 1
           /\ seed + 1 \in SessionIds
           /\ \A id \in SessionIds : FirstAddable(id) =>
                  /\ id > seed /\ id <= MaxId /\ id \in Nat
                  /\ Key(id) \in SessionIds
                  /\ m_sessions[Key(id)] = NULL
<1>1. seed \in Nat /\ MaxId \in Nat /\ ULongMod \in Nat /\ seed + 1 <= MaxId /\ seed + 1 < ULongMod - 1
  BY ConstantsAssumption DEF StoreTypeOK, SessionIds
<1>2. GenSessionId(seed) = seed + 1 /\ seed + 1 \in SessionIds
  BY <1>1 DEF GenSessionId, INVALID_SESSION_ID, SessionIds
<1>3. ASSUME NEW id \in SessionIds, FirstAddable(id)
      PROVE  /\ id > seed /\ id <= MaxId /\ id \in Nat
             /\ Key(id) \in SessionIds
             /\ m_sessions[Key(id)] = NULL
  <2>1. id \in seed + 1 .. MaxId /\ m_sessions[Key(id)] = NULL
    BY <1>2, <1>3 DEF FirstAddable
  <2> QED BY <1>1, <2>1, KeyIsAPlace
<1> QED BY <1>2, <1>3

\* An entry of the table, spelled out.
LEMMA EntryFacts ==
    ASSUME Store, NEW k \in SessionIds, m_sessions[k] # NULL
    PROVE  LET s == m_sessions[k]
               fd == heap[s].m_socket
           IN  /\ s \in Addrs /\ heap[s] \in Object /\ heap[s].live
               /\ Key(heap[s].m_sessionId) = k
               /\ fd \in Fds /\ fd # NoFd
               /\ io[fd] \in Watch /\ io[fd].cb = "session" /\ io[fd].arg = s
               /\ sock[fd] \notin {"closed", "leaked", "listening"} /\ fd \notin m_listens
<1> DEFINE s == m_sessions[k]
           fd == heap[s].m_socket
<1>1. s \in Addrs
  BY DEF Store, StoreTypeOK
<1>2. heap[s] \in Object /\ heap[s].live /\ Key(heap[s].m_sessionId) = k /\ fd \in Fds
  BY <1>1 DEF Store, StoreTypeOK, EntriesSound
<1>3. io[fd] \in Watch /\ io[fd].cb = "session" /\ io[fd].arg = s
  BY <1>2 DEF Store, StoreTypeOK, EntriesSound
<1>4. sock[fd] \notin {"closed", "leaked", "listening"} /\ fd \notin m_listens
  BY <1>2, <1>3 DEF Store, DescriptorsOwned, NoWatch
<1>5. fd # NoFd
  BY <1>2, ConstantsAssumption DEF NoFd
<1> QED BY <1>1, <1>2, <1>3, <1>4, <1>5

\* Ending a session takes its entry, its callback and its descriptor away together.
LEMMA EndKeepsStore ==
    ASSUME Store, NEW id \in SessionIds, EndSession(id), UNCHANGED <<listVars, seed>>
    PROVE  Store'
<1> DEFINE s == m_sessions[id]
           fd == heap[s].m_socket
<1>1. CASE m_sessions[id] = NULL
  BY <1>1 DEF EndSession, DetachSocket, RemoveSession, Collect, GetSession, kernelVars, mgrVars, listVars, Store, StoreTypeOK, IdsSound,
              OpenIsInTable, EntriesSound, WatchesSound, HasFd, DescriptorsOwned
<1>2. CASE m_sessions[id] # NULL
  <2>1. /\ s \in Addrs /\ heap[s] \in Object /\ heap[s].live
        /\ Key(heap[s].m_sessionId) = id
        /\ fd \in Fds /\ fd # NoFd
        /\ io[fd] \in Watch /\ io[fd].cb = "session" /\ io[fd].arg = s
        /\ sock[fd] \notin {"closed", "leaked", "listening"} /\ fd \notin m_listens
    BY <1>2, EntryFacts
  <2>2. /\ sock' = [sock EXCEPT ![fd] = "closed"]
        /\ io' = [io EXCEPT ![fd] = NoWatch]
        /\ heap' = [heap EXCEPT ![s].m_socket = NoFd]
        /\ m_sessions' = [m_sessions EXCEPT ![id] = NULL]
        /\ m_sessionGC' = m_sessionGC \cup {s}
        /\ UNCHANGED <<m_listens, m_pSessionGCCheck, seed>>
    BY <1>2, <2>1 DEF EndSession, DetachSocket, RemoveSession, Collect, GetSession, CloseFd, listVars
  <2>3. StoreTypeOK'
    BY <2>1, <2>2 DEF Store, StoreTypeOK, SockStates, Watch, NoWatch, Object
  <2>4. \A a \in Addrs : /\ heap[a] \in Object
                         /\ heap'[a].live = heap[a].live
                         /\ heap'[a].m_sessionId = heap[a].m_sessionId
                         /\ heap'[a].m_socket = IF a = s THEN NoFd ELSE heap[a].m_socket
    BY <2>1, <2>2 DEF Store, StoreTypeOK, Object
  <2>5. IdsSound'
    BY <2>2, <2>4 DEF Store, IdsSound
  <2>6. OpenIsInTable'
    BY <2>1, <2>2, <2>4 DEF Store, OpenIsInTable, IdsSound, StoreTypeOK, Object
  <2>7. EntriesSound'
    BY <2>1, <2>2, <2>4 DEF Store, EntriesSound, StoreTypeOK
  <2>8. WatchesSound'
    BY <2>1, <2>2, <2>4 DEF Store, WatchesSound, HasFd, StoreTypeOK, Watch, NoWatch
  <2>9. DescriptorsOwned'
    BY <2>1, <2>2 DEF Store, DescriptorsOwned, StoreTypeOK, NoWatch
  <2> QED BY <2>3, <2>5, <2>6, <2>7, <2>8, <2>9 DEF Store
<1> QED BY <1>1, <1>2

\* A session begins on a descriptor that no session has: a closed one, or one whose
\* connect has just been answered.
LEMMA BeginKeepsStore ==
    ASSUME Store, NEW fd \in Fds,
           io[fd] = NoWatch \/ io[fd].cb = "connect",
           NEW state \in {"up", "eof", "err", "refused"},
           BeginSession(fd, state)
    PROVE  Store'
<1>1. fd \notin m_listens /\ \A a \in Addrs : heap[a].live => heap[a].m_socket # fd
  <2>1. fd \notin m_listens
    BY DEF Store, DescriptorsOwned, NoWatch
  <2>2. ASSUME NEW a \in Addrs, heap[a].live, heap[a].m_socket = fd
        PROVE  FALSE
    <3>1. Key(heap[a].m_sessionId) \in SessionIds /\ a # NULL
      BY KeyIsAPlace, ConstantsAssumption DEF Store, StoreTypeOK, Object, NULL
    <3>2. m_sessions[Key(heap[a].m_sessionId)] = a
      BY <2>2, ConstantsAssumption DEF Store, OpenIsInTable, NoFd
    <3> QED BY <3>1, <3>2, <2>2 DEF Store, EntriesSound, NoWatch
  <2> QED BY <2>1, <2>2
<1>2. CASE BeginFails(fd)
  <2>1. /\ sock' = [sock EXCEPT ![fd] = "closed"]
        /\ io' = [io EXCEPT ![fd] = NoWatch]
        /\ UNCHANGED <<heap, m_sessions, m_sessionGC, m_listens, m_pSessionGCCheck>>
        /\ seed' \in SessionIds /\ seed <= seed' /\ seed' <= MaxId
    BY <1>2, NextIdIsFresh, ConstantsAssumption
    DEF BeginFails, CloseFd, mgrVars, listVars, Store, StoreTypeOK, IdsSound, SessionIds
  <2>2. StoreTypeOK'
    BY <2>1 DEF Store, StoreTypeOK, SockStates, Watch, NoWatch
  <2>3. IdsSound'
    BY <2>1 DEF Store, IdsSound, StoreTypeOK, SessionIds, Object
  <2>4. OpenIsInTable' /\ EntriesSound' /\ WatchesSound'
    BY <1>1, <2>1 DEF Store, StoreTypeOK, OpenIsInTable, EntriesSound, WatchesSound, HasFd, NoWatch
  <2>5. DescriptorsOwned'
    BY <1>1, <2>1 DEF Store, StoreTypeOK, DescriptorsOwned, NoWatch
  <2> QED BY <2>2, <2>3, <2>4, <2>5 DEF Store
<1>3. CASE BeginSucceeds(fd, state)
  <2>1. PICK a \in Addrs, id \in SessionIds :
            /\ ~heap[a].live
            /\ FirstAddable(id)
            /\ seed' = id
            /\ heap' = [heap EXCEPT ![a] = [live |-> TRUE, m_sessionId |-> id, m_socket |-> fd]]
            /\ m_sessions' = [m_sessions EXCEPT ![Key(id)] = a]
            /\ io' = [io EXCEPT ![fd] = [cb |-> "session", arg |-> a, ev |-> {"R"}]]
            /\ sock' = [sock EXCEPT ![fd] = state]
            /\ m_pSessionGCCheck' = TRUE
            /\ UNCHANGED <<m_sessionGC, m_listens>>
    BY <1>3 DEF BeginSucceeds, GCCheckAdded
  <2> DEFINE key == Key(id)
  <2>2. /\ seed < MaxId /\ seed \in Nat /\ a # NULL
        /\ id > seed /\ id <= MaxId /\ id \in Nat
        /\ key \in SessionIds /\ m_sessions[key] = NULL
    BY <1>3, <2>1, NextIdIsFresh, ConstantsAssumption
    DEF BeginSucceeds, Store, StoreTypeOK, SessionIds, NULL
  <2> HIDE DEF key
  <2>3. StoreTypeOK'
    BY <2>1, <2>2 DEF Store, StoreTypeOK, SockStates, Watch, Object
  <2>4. \A b \in Addrs : heap'[b] = IF b = a
                                    THEN [live |-> TRUE, m_sessionId |-> id, m_socket |-> fd]
                                    ELSE heap[b]
    BY <2>1 DEF Store, StoreTypeOK
  <2>5. IdsSound'
    BY <2>1, <2>2, <2>4, ConstantsAssumption DEF Store, IdsSound, StoreTypeOK, Object, SessionIds
  <2>6. OpenIsInTable'
    <3>1. \A b \in Addrs : heap[b].live /\ heap[b].m_socket # NoFd =>
              /\ m_sessions[Key(heap[b].m_sessionId)] = b
              /\ Key(heap[b].m_sessionId) # key
      BY <2>2, ConstantsAssumption DEF Store, OpenIsInTable, NULL
    <3>2. m_sessions' = [m_sessions EXCEPT ![key] = a]
      BY <2>1 DEF key
    <3>3. \A i : i # key => m_sessions'[i] = m_sessions[i]
      BY <3>2 DEF Store, StoreTypeOK
    <3>4. ASSUME NEW b \in Addrs, heap'[b].live, heap'[b].m_socket # NoFd
          PROVE  m_sessions'[Key(heap'[b].m_sessionId)] = b
      <4>1. CASE b = a
        BY <2>2, <2>4, <3>2, <4>1 DEF key, Store, StoreTypeOK
      <4>2. CASE b # a
        <5>1. heap'[b] = heap[b]
          BY <2>4, <4>2
        <5> QED BY <3>1, <3>3, <3>4, <5>1
      <4> QED BY <4>1, <4>2
    <3> QED BY <3>4 DEF OpenIsInTable
  <2>7. \A i \in SessionIds : m_sessions'[i] = IF i = key THEN a ELSE m_sessions[i]
    BY <2>1, <2>2 DEF Store, StoreTypeOK, key
  <2>8. \A f \in Fds : io'[f] = IF f = fd
                                THEN [cb |-> "session", arg |-> a, ev |-> {"R"}]
                                ELSE io[f]
    BY <2>1 DEF Store, StoreTypeOK
  <2>9. EntriesSound'
    <3>1. \A i \in SessionIds : m_sessions[i] # NULL =>
              /\ m_sessions[i] \in Addrs /\ m_sessions[i] # a
              /\ heap[m_sessions[i]].m_socket # fd
      BY <1>1, <2>1 DEF Store, StoreTypeOK, EntriesSound
    <3>2. ASSUME NEW i \in SessionIds, i # key, m_sessions[i] # NULL
          PROVE  heap'[m_sessions[i]] = heap[m_sessions[i]]
      BY <2>4, <3>1, <3>2
    <3>3. /\ heap'[a].live /\ Key(heap'[a].m_sessionId) = key
          /\ heap'[a].m_socket = fd
      BY <2>4 DEF key
    <3> QED BY <2>7, <2>8, <3>1, <3>2, <3>3 DEF Store, EntriesSound
  <2>10. WatchesSound'
    <3>1. \A f \in Fds : io[f].cb = "session" =>
              /\ io[f].arg \in Addrs /\ io[f].arg # a
              /\ Key(heap[io[f].arg].m_sessionId) \in SessionIds
              /\ Key(heap[io[f].arg].m_sessionId) # key
      <4>1. ASSUME NEW f \in Fds, io[f].cb = "session"
            PROVE  /\ io[f].arg \in Addrs /\ heap[io[f].arg].live
                   /\ heap[io[f].arg].m_sessionId \in SessionIds
                   /\ m_sessions[Key(heap[io[f].arg].m_sessionId)] # NULL
        BY <4>1 DEF Store, StoreTypeOK, WatchesSound, HasFd, Watch, Object
      <4> QED BY <2>1, <2>2, <4>1, KeyIsAPlace
    <3>2. ASSUME NEW f \in Fds, f # fd, io'[f].cb = "session"
          PROVE  (io[f].arg # NULL /\ HasFd(io[f].arg, f))'
      <4>1. io'[f] = io[f] /\ io[f].arg # NULL /\ HasFd(io[f].arg, f)
        BY <2>8, <3>2 DEF Store, WatchesSound, HasFd
      <4> QED BY <4>1, <3>1, <3>2, <2>4, <2>7 DEF HasFd
    <3>3. (io[fd].arg # NULL /\ HasFd(io[fd].arg, fd))'
      <4>1. /\ io'[fd].arg = a /\ heap'[a].live /\ heap'[a].m_socket = fd
            /\ Key(heap'[a].m_sessionId) = key
        BY <2>1, <2>4, <2>8 DEF key
      <4>2. m_sessions'[key] = a
        BY <2>2, <2>7
      <4> QED BY <2>2, <4>1, <4>2 DEF HasFd
    <3> QED BY <3>2, <3>3 DEF WatchesSound, HasFd
  <2>11. DescriptorsOwned'
    BY <1>1, <2>1, <2>8 DEF Store, StoreTypeOK, DescriptorsOwned, NoWatch
  <2> QED BY <2>3, <2>5, <2>6, <2>9, <2>10, <2>11 DEF Store
<1> QED BY <1>2, <1>3 DEF BeginSession

-----------------------------------------------------------------------------
(* The invariants that depend on where the thread is.                      *)

\* An object is in the table exactly when its own id leads to it.
LEMMA InTableIff ==
    ASSUME Store, NEW a \in Addrs
    PROVE  InTable(a) <=> heap[a].live /\ m_sessions[Key(heap[a].m_sessionId)] = a
BY KeyIsAPlace, ConstantsAssumption DEF Store, StoreTypeOK, EntriesSound, InTable, NULL, Object

\* OnSessionGC deletes the right objects and, as long as OnSessionWillEnd ends no
\* session, all of them.
Deferred == GCSound /\ (~WillEndMayEnd => NoOrphan)

\* Steps that touch no object, and neither enter nor advance a GC pass.
LEMMA QuietKeepsGC ==
    ASSUME Deferred, UNCHANGED <<mgrVars, m_pSessionGCCheck>>,
           \/ UNCHANGED <<pc, self>>
           \/ pc \notin {"willend", "destroyed"} /\ pc' # "willend"
    PROVE  Deferred'
BY DEF Deferred, GCSound, NoOrphan, GCPending, InTable, mgrVars

\* Ending a session moves its object from the table to m_sessionGC; during a pass the
\* object may be behind the iterator, and is then lost.
LEMMA EndKeepsGC ==
    ASSUME Store, Deferred, NEW id \in SessionIds, EndSession(id),
           UNCHANGED <<listVars, seed>>, pc # "destroyed",
           \/ UNCHANGED <<pc, self>> /\ (pc = "willend" => WillEndMayEnd)
           \/ pc # "willend" /\ pc' \notin {"willend", "destroyed"}
    PROVE  Deferred'
<1> DEFINE s == m_sessions[id]
<1>1. CASE m_sessions[id] = NULL
  BY <1>1, QuietKeepsGC DEF EndSession, DetachSocket, RemoveSession, Collect, GetSession, kernelVars, mgrVars, listVars
<1>2. CASE m_sessions[id] # NULL
  <2>1. s \in Addrs /\ heap[s].live /\ Key(heap[s].m_sessionId) = id /\ heap[s].m_socket # NoFd
    BY <1>2, EntryFacts
  <2>2. /\ heap' = [heap EXCEPT ![s].m_socket = NoFd]
        /\ m_sessions' = [m_sessions EXCEPT ![id] = NULL]
        /\ m_sessionGC' = m_sessionGC \cup {s}
        /\ m_pSessionGCCheck' = m_pSessionGCCheck
    BY <1>2 DEF EndSession, DetachSocket, RemoveSession, Collect, GetSession, listVars
  <2>3. \A a \in Addrs : /\ heap'[a].live = heap[a].live
                         /\ heap'[a].m_sessionId = heap[a].m_sessionId
                         /\ heap'[a].m_socket = IF a = s THEN NoFd ELSE heap[a].m_socket
    BY <2>1, <2>2 DEF Store, StoreTypeOK, Object
  <2>4. Store'
    BY EndKeepsStore
  <2>5. \A a \in Addrs : InTable(a)' <=> InTable(a) /\ a # s
    <3>1. \A i \in SessionIds : m_sessions'[i] = IF i = id THEN NULL ELSE m_sessions[i]
      BY <2>2 DEF Store, StoreTypeOK
    <3>2. \A i \in SessionIds : m_sessions[i] = s => i = id
      BY <2>1, ConstantsAssumption DEF Store, EntriesSound, NULL
    <3>3. NULL \notin Addrs
      BY ConstantsAssumption DEF NULL
    <3> QED BY <3>1, <3>2, <3>3 DEF InTable
  <2>6. /\ GCPending' \subseteq GCPending \cup {s}
        /\ pc # "willend" => GCPending' = GCPending \cup {s}
    BY <2>2 DEF GCPending
  <2>7. GCPending \subseteq Addrs
    BY DEF Store, StoreTypeOK, GCPending
  <2>8. GCSound'
    BY <2>1, <2>3, <2>5, <2>6, <2>7 DEF Deferred, GCSound
  <2>9. CASE pc = "willend"
    <3>1. WillEndMayEnd
      BY <2>9
    <3> QED BY <2>8, <3>1 DEF Deferred
  <2>10. CASE pc # "willend"
    <3>1. GCPending' = GCPending \cup {s}
      BY <2>6, <2>10
    <3>2. NoOrphan => NoOrphan'
      BY <2>2, <2>3, <2>5, <3>1 DEF NoOrphan
    <3> QED BY <2>8, <3>2 DEF Deferred
  <2> QED BY <2>9, <2>10
<1> QED BY <1>1, <1>2

\* A new object is in the table, and was not one OnSessionGC is going to delete.
LEMMA BeginKeepsGC ==
    ASSUME Store, Deferred, NEW fd \in Fds, NEW state,
           BeginSession(fd, state), Store', UNCHANGED <<pc, self>>
    PROVE  Deferred' /\ (\A b \in Addrs : heap[b].live => heap'[b] = heap[b])
           /\ m_sessionGC' = m_sessionGC
<1>1. CASE BeginFails(fd)
  BY <1>1, QuietKeepsGC DEF BeginFails, mgrVars, listVars
<1>2. CASE BeginSucceeds(fd, state)
  <2>1. PICK a \in Addrs, id \in SessionIds :
            /\ ~heap[a].live
            /\ FirstAddable(id)
            /\ heap' = [heap EXCEPT ![a] = [live |-> TRUE, m_sessionId |-> id, m_socket |-> fd]]
            /\ m_sessions' = [m_sessions EXCEPT ![Key(id)] = a]
            /\ m_pSessionGCCheck' = TRUE
            /\ UNCHANGED m_sessionGC
    BY <1>2 DEF BeginSucceeds, GCCheckAdded
  <2> DEFINE key == Key(id)
  <2>2. key \in SessionIds /\ m_sessions[key] = NULL
    BY <1>2, <2>1, NextIdIsFresh DEF BeginSucceeds, Store
  <2> HIDE DEF key
  <2>3. \A b \in Addrs : heap'[b] = IF b = a
                                    THEN [live |-> TRUE, m_sessionId |-> id, m_socket |-> fd]
                                    ELSE heap[b]
    BY <2>1 DEF Store, StoreTypeOK
  <2>4. \A i \in SessionIds : m_sessions'[i] = IF i = key THEN a ELSE m_sessions[i]
    BY <2>1, <2>2 DEF Store, StoreTypeOK, key
  <2>5. \A b \in Addrs : InTable(b)' <=> InTable(b) \/ b = a
    BY <2>2, <2>4, ConstantsAssumption DEF InTable, NULL
  <2>6. GCPending' = GCPending /\ GCPending \subseteq Addrs
    BY <2>1 DEF GCPending, Store, StoreTypeOK
  <2>7. GCSound'
    BY <2>1, <2>3, <2>5, <2>6 DEF Deferred, GCSound
  <2>8. NoOrphan => NoOrphan'
    BY <2>1, <2>3, <2>5, <2>6 DEF NoOrphan
  <2> QED BY <2>1, <2>3, <2>7, <2>8 DEF Deferred
<1> QED BY <1>1, <1>2 DEF BeginSession

-----------------------------------------------------------------------------
(* Every step keeps the invariant.                                         *)

Frame == FrameTypeOK /\ HandlerObjectAlive /\ FrameSound

LEMMA IInvParts ==
    /\ IInv <=> Store /\ Deferred /\ Frame
    /\ IInv' <=> Store' /\ Deferred' /\ Frame'
BY DEF IInv, TypeOK, Store, Deferred, Frame

\* Ending a session deletes nothing and leaves pending connects alone.
LEMMA EndIsGentle ==
    ASSUME Store, NEW id \in SessionIds, EndSession(id)
    PROVE  /\ \A a \in Addrs : heap'[a].live = heap[a].live
           /\ \A fd \in Fds : io[fd].cb = "connect" => io'[fd] = io[fd]
           /\ m_sessionGC \subseteq m_sessionGC'
<1>1. CASE m_sessions[id] = NULL
  BY <1>1 DEF EndSession, DetachSocket, RemoveSession, Collect, GetSession, kernelVars, mgrVars
<1>2. CASE m_sessions[id] # NULL
  BY <1>2, EntryFacts DEF EndSession, DetachSocket, RemoveSession, Collect, GetSession, CloseFd, Store, StoreTypeOK, Object
<1> QED BY <1>1, <1>2

LEMMA FreeValues == 0 \in SessionIds /\ FreeObject \in Object /\ NoWatch \in Watch
<1>1. 0 \in SessionIds /\ INVALID_SESSION_ID \in SessionIds
  BY ConstantsAssumption DEF SessionIds, INVALID_SESSION_ID
<1>2. FreeObject \in Object
  BY <1>1 DEF FreeObject, Object
<1> QED BY <1>1, <1>2 DEF NoWatch, Watch

LEMMA InitIInv == Init => IInv
<1> SUFFICES ASSUME Init PROVE IInv
  OBVIOUS
<1>1. StoreTypeOK
  <2>1. 0 \in SessionIds /\ FreeObject \in Object /\ NoWatch \in Watch
    BY FreeValues
  <2> QED BY <2>1 DEF Init, StoreTypeOK, SockStates
<1>2. FrameTypeOK
  BY DEF Init, FrameTypeOK, PCs
<1>3. IdsSound /\ OpenIsInTable /\ EntriesSound /\ WatchesSound /\ DescriptorsOwned
  BY ConstantsAssumption
  DEF Init, IdsSound, OpenIsInTable, EntriesSound, WatchesSound, HasFd, DescriptorsOwned, NoWatch, FreeObject
<1>4. GCSound /\ NoOrphan /\ HandlerObjectAlive /\ FrameSound
  BY DEF Init, GCSound, NoOrphan, GCPending, HandlerObjectAlive, FrameSound, FreeObject
<1> QED BY <1>1, <1>2, <1>3, <1>4 DEF IInv, TypeOK

\* Calls of the application.
LEMMA AppKeepsIInv ==
    ASSUME IInv, AppNext
    PROVE  IInv'
<1> USE IInvParts
<1>1. ASSUME NEW id \in SessionIds, AppEndSession(id)
      PROVE  IInv'
  <2>1. /\ pc \in {"idle", "accept", "connfail", "recv", "willend"}
        /\ pc = "willend" => WillEndMayEnd
        /\ EndSession(id) /\ UNCHANGED <<listVars, seed, frameVars>>
    BY <1>1 DEF AppEndSession, AppMayEnd, AppRuns, Callbacks
  <2>2. Store'
    BY <2>1, EndKeepsStore
  <2>3. Deferred'
    BY <2>1, EndKeepsGC DEF frameVars
  <2>4. /\ \A a \in Addrs : heap'[a].live = heap[a].live
        /\ \A fd \in Fds : io[fd].cb = "connect" => io'[fd] = io[fd]
        /\ m_sessionGC \subseteq m_sessionGC'
    BY <2>1, EndIsGentle
  <2>5. Frame'
    BY <2>1, <2>4 DEF Frame, FrameTypeOK, HandlerObjectAlive, FrameSound, frameVars, NULL
  <2> QED BY <2>2, <2>3, <2>5
<1>2. ASSUME NEW id \in SessionIds, AppSendData(id)
      PROVE  IInv'
  <2> DEFINE fd == heap[m_sessions[id]].m_socket
  <2>1. fd \in Fds /\ io[fd] \in Watch /\ io[fd].cb = "session"
    BY <1>2, EntryFacts DEF AppSendData, GetSession
  <2>2. /\ io' = [io EXCEPT ![fd].ev = @ \cup {"W"}]
        /\ UNCHANGED <<sock, mgrVars, listVars, seed, frameVars>>
        /\ pc \in {"idle", "accept", "connfail", "recv", "willend"}
    BY <1>2 DEF AppSendData, GetSession, AppRuns, Callbacks
  <2>3. \A f \in Fds : /\ io'[f].cb = io[f].cb /\ io'[f].arg = io[f].arg
                       /\ io[f].ev \subseteq io'[f].ev
                       /\ f # fd => io'[f] = io[f]
    BY <2>1, <2>2 DEF Store, StoreTypeOK, Watch
  <2>4. StoreTypeOK'
    BY <2>1, <2>2 DEF Store, StoreTypeOK, Watch, mgrVars, listVars
  <2>5. (IdsSound /\ OpenIsInTable)'
    BY <2>2 DEF Store, IdsSound, OpenIsInTable, mgrVars
  <2>6. EntriesSound' /\ WatchesSound'
    <3>1. EntriesSound'
      BY <2>2, <2>3 DEF Store, EntriesSound, mgrVars
    <3>2. WatchesSound'
      <4>1. UNCHANGED <<heap, m_sessions>>
        BY <2>2 DEF mgrVars
      <4>2. \A f \in Fds : io'[f].cb = "session" => io[f].arg # NULL /\ HasFd(io[f].arg, f)
        BY <2>3 DEF Store, WatchesSound, HasFd
      <4> QED BY <2>3, <4>1, <4>2 DEF WatchesSound, HasFd
    <3> QED BY <3>1, <3>2
  <2>7. DescriptorsOwned'
    <3>1. sock[fd] \notin {"closed", "leaked"}
      BY <2>1 DEF Store, DescriptorsOwned, NoWatch
    <3> QED BY <2>1, <2>2, <2>3, <3>1 DEF Store, DescriptorsOwned, listVars
  <2>8. Deferred'
    BY <2>2, QuietKeepsGC DEF frameVars, listVars
  <2>9. Frame'
    BY <2>2, <2>3 DEF Frame, FrameTypeOK, HandlerObjectAlive, FrameSound, frameVars, mgrVars
  <2> QED BY <2>4, <2>5, <2>6, <2>7, <2>8, <2>9 DEF Store
<1>3. ASSUME NEW fd \in Fds, AppConnectNow(fd)
      PROVE  IInv'
  <2>1. /\ io[fd] = NoWatch /\ BeginSession(fd, "up") /\ UNCHANGED frameVars
        /\ pc \in {"idle", "accept", "connfail", "recv", "willend"}
    BY <1>3 DEF AppConnectNow, Closed, Store, DescriptorsOwned, AppRuns, Callbacks
  <2>2. Store'
    BY <2>1, BeginKeepsStore
  <2>3. /\ Deferred'
        /\ \A b \in Addrs : heap[b].live => heap'[b] = heap[b]
        /\ m_sessionGC' = m_sessionGC
    BY <2>1, <2>2, BeginKeepsGC DEF frameVars
  <2>4. \A f \in Fds : f # fd => io'[f] = io[f]
    BY <2>1 DEF BeginSession, BeginFails, BeginSucceeds, CloseFd, Store, StoreTypeOK
  <2>5. Frame'
    BY <2>1, <2>3, <2>4 DEF Frame, FrameTypeOK, HandlerObjectAlive, FrameSound, frameVars, NoWatch, NULL
  <2> QED BY <2>2, <2>3, <2>5
<1>4. ASSUME NEW fd \in Fds, NEW state \in {"connecting", "listening", "leaked"},
             NEW watch \in Watch,
             AppRuns, Closed(fd),
             sock' = [sock EXCEPT ![fd] = state],
             io' = [io EXCEPT ![fd] = watch],
             m_listens' = IF state = "listening" THEN m_listens \cup {fd} ELSE m_listens,
             watch.cb = IF state = "listening" THEN "accept"
                        ELSE IF state = "connecting" THEN "connect" ELSE "none",
             state = "leaked" => watch = NoWatch,
             UNCHANGED <<mgrVars, m_pSessionGCCheck, seed, frameVars>>
      PROVE  IInv'
  <2>1. io[fd] = NoWatch
    BY <1>4 DEF Closed, Store, DescriptorsOwned
  <2>2. \A f \in Fds : /\ f # fd => io'[f] = io[f] /\ sock'[f] = sock[f]
                       /\ f = fd => io'[f] = watch /\ sock'[f] = state
    BY <1>4 DEF Store, StoreTypeOK
  <2>3. StoreTypeOK'
    BY <1>4 DEF Store, StoreTypeOK, SockStates, mgrVars
  <2>4. (IdsSound /\ OpenIsInTable)'
    BY <1>4 DEF Store, IdsSound, OpenIsInTable, mgrVars
  <2>5. EntriesSound' /\ WatchesSound'
    BY <1>4, <2>1, <2>2 DEF Store, EntriesSound, WatchesSound, HasFd, mgrVars, NoWatch
  <2>6. DescriptorsOwned'
    <3>1. \A f \in Fds : f # fd => (f \in m_listens' <=> f \in m_listens)
      BY <1>4
    <3>2. fd \notin m_listens /\ (fd \in m_listens' <=> state = "listening")
      BY <1>4, <2>1 DEF Store, DescriptorsOwned, NoWatch
    <3> QED BY <1>4, <2>2, <3>1, <3>2 DEF Store, DescriptorsOwned
  <2>7. Deferred'
    BY <1>4, QuietKeepsGC DEF frameVars
  <2>8. Frame'
    BY <1>4, <2>1, <2>2
    DEF Frame, FrameTypeOK, HandlerObjectAlive, FrameSound, frameVars, mgrVars, NoWatch, AppRuns, Callbacks
  <2> QED BY <2>3, <2>4, <2>5, <2>6, <2>7, <2>8 DEF Store
<1>5. ASSUME NEW fd \in Fds, AppConnect(fd)
      PROVE  IInv'
  <2>1. [cb |-> "connect", arg |-> NULL, ev |-> {"R", "W"}] \in Watch
    BY DEF Watch
  <2> QED BY <1>4, <1>5, <2>1 DEF AppConnect, listVars
<1>6. ASSUME NEW fd \in Fds, AppBindAndListen(fd)
      PROVE  IInv'
  <2>1. [cb |-> "accept", arg |-> NULL, ev |-> {"R"}] \in Watch
    BY DEF Watch
  <2> QED BY <1>4, <1>6, <2>1 DEF AppBindAndListen
<1>7. ASSUME NEW fd \in Fds, AppCallLeaks(fd)
      PROVE  IInv'
  <2>1. NoWatch \in Watch /\ io' = [io EXCEPT ![fd] = NoWatch]
    BY <1>7 DEF Watch, NoWatch, AppCallLeaks, Closed, Store, StoreTypeOK, DescriptorsOwned
  <2> QED BY <1>4, <1>7, <2>1 DEF AppCallLeaks, listVars, NoWatch
<1>8. CASE Destroy
  <2> DEFINE gone == SessionFds \cup m_listens
  <2>1. /\ sock' = [fd \in Fds |-> IF fd \in gone THEN "closed" ELSE sock[fd]]
        /\ io' = [fd \in Fds |-> IF fd \in gone THEN NoWatch ELSE io[fd]]
        /\ heap' = [a \in Addrs |-> IF InTable(a) THEN FreeObject ELSE heap[a]]
        /\ m_sessions' = [id \in SessionIds |-> NULL]
        /\ m_sessionGC' = {} /\ m_listens' = {} /\ m_pSessionGCCheck' = FALSE
        /\ pc' = "destroyed"
        /\ UNCHANGED <<seed, self, fr, alsoRead>>
    BY <1>8 DEF Destroy
  <2>2. StoreTypeOK'
    BY <2>1, FreeValues DEF Store, StoreTypeOK, SockStates
  <2>3. \A fd \in Fds : io[fd].cb = "session" <=> fd \in SessionFds
    <3>1. ASSUME NEW fd \in Fds, io[fd].cb = "session"
          PROVE  fd \in SessionFds
      <4>1. io[fd].arg \in Addrs /\ HasFd(io[fd].arg, fd)
        BY <3>1 DEF Store, StoreTypeOK, WatchesSound, HasFd, Watch
      <4> QED BY <4>1, InTableIff DEF SessionFds, HasFd
    <3>2. ASSUME NEW fd \in SessionFds
          PROVE  io[fd].cb = "session"
      BY InTableIff, ConstantsAssumption DEF SessionFds, Store, StoreTypeOK, EntriesSound, InTable, NULL
    <3> QED BY <3>1, <3>2
  <2>4. \A a \in Addrs : heap'[a].live => heap'[a] = heap[a] /\ ~InTable(a)
    BY <2>1 DEF FreeObject
  <2>5. (IdsSound /\ OpenIsInTable /\ EntriesSound)'
    <3>1. IdsSound'
      BY <2>1, <2>4 DEF Store, IdsSound
    <3>2. OpenIsInTable'
      BY <2>4, InTableIff DEF Store, OpenIsInTable
    <3>3. EntriesSound'
      BY <2>1 DEF EntriesSound
    <3> QED BY <3>1, <3>2, <3>3
  <2>6. (WatchesSound /\ DescriptorsOwned)'
    BY <2>1, <2>3 DEF Store, WatchesSound, HasFd, DescriptorsOwned, NoWatch
  <2>7. Deferred'
    BY <2>1 DEF Deferred, GCSound, NoOrphan, GCPending
  <2>8. Frame'
    BY <2>1 DEF Frame, FrameTypeOK, HandlerObjectAlive, FrameSound, PCs
  <2> QED BY <2>2, <2>5, <2>6, <2>7, <2>8 DEF Store
<1> QED BY <1>1, <1>2, <1>3, <1>5, <1>6, <1>7, <1>8 DEF AppNext

\* Steps of handlers that neither end nor begin a session.
LEMMA HandlerKeepsIInv ==
    ASSUME IInv,
           \/ \E fd \in Fds : DispatchAccept(fd) \/ OnConnectFail(fd) \/ OnSessionIOReady(fd)
           \/ OnAcceptEnds \/ RecvReturns \/ OnWritePartial \/ OnReadData
    PROVE  IInv'
<1> USE IInvParts
<1>1. UNCHANGED <<kernelVars, mgrVars, listVars, seed>>
  BY DEF DispatchAccept, OnConnectFail, OnSessionIOReady, OnAcceptEnds, RecvReturns,
         OnWritePartial, OnReadData
<1>2. Store'
  BY <1>1 DEF kernelVars, mgrVars, listVars, Store, StoreTypeOK, IdsSound, OpenIsInTable,
              EntriesSound, WatchesSound, HasFd, DescriptorsOwned
<1>3. pc \notin {"willend", "destroyed"} /\ pc' # "willend"
  BY DEF DispatchAccept, OnConnectFail, OnSessionIOReady, OnAcceptEnds, RecvReturns,
         OnWritePartial, OnReadData, Watched, Return, AfterWrite
<1>4. Deferred'
  BY <1>1, <1>3, QuietKeepsGC DEF listVars
<1>5. Frame'
  <2>1. ASSUME NEW fd \in Fds, DispatchAccept(fd) \/ OnConnectFail(fd)
        PROVE  Frame'
    BY <1>1, <2>1 DEF DispatchAccept, OnConnectFail, Watched, Frame, FrameTypeOK, PCs,
                      HandlerObjectAlive, FrameSound, kernelVars, mgrVars
  <2>2. ASSUME NEW fd \in Fds, OnSessionIOReady(fd)
        PROVE  Frame'
    <3>1. /\ io[fd].arg \in Addrs /\ io[fd].arg # NULL /\ HasFd(io[fd].arg, fd)
          /\ self' = io[fd].arg /\ UNCHANGED fr
          /\ pc' \in {"write", "read"} /\ alsoRead' \in BOOLEAN
      BY <2>2 DEF OnSessionIOReady, Watched, Store, StoreTypeOK, WatchesSound, HasFd, Watch
    <3> QED BY <1>1, <3>1 DEF Frame, FrameTypeOK, PCs, HandlerObjectAlive, FrameSound, HasFd,
                              kernelVars, mgrVars
  <2>3. CASE OnAcceptEnds \/ RecvReturns
    BY <2>3 DEF OnAcceptEnds, RecvReturns, Return, Frame, FrameTypeOK, PCs, HandlerObjectAlive, FrameSound
  <2>4. CASE OnWritePartial \/ OnReadData
    BY <1>1, <2>4
    DEF OnWritePartial, OnReadData, AfterWrite, Return, Frame, FrameTypeOK, PCs,
        HandlerObjectAlive, FrameSound, kernelVars, mgrVars
  <2> QED BY <2>1, <2>2, <2>3, <2>4
<1> QED BY <1>2, <1>4, <1>5

\* Steps of handlers that begin or end a session, or close a failed connect.
LEMMA LoopKeepsIInv ==
    ASSUME IInv,
           \/ \E fd \in Fds : OnAcceptOne(fd) \/ OnConnectSuccess(fd)
           \/ OnConnectFailReturns \/ OnWriteDone \/ OnWriteCloses \/ OnReadCloses
    PROVE  IInv'
<1> USE IInvParts
<1>1. ASSUME NEW fd \in Fds, OnAcceptOne(fd) \/ OnConnectSuccess(fd)
      PROVE  IInv'
  <2>1. PICK state \in {"up", "eof", "err", "refused"} : BeginSession(fd, state)
    <3>1. CASE OnAcceptOne(fd)
      BY <3>1 DEF OnAcceptOne
    <3>2. CASE OnConnectSuccess(fd)
      <4>1. sock[fd] \in {"up", "eof", "err", "refused"}
        BY <3>2 DEF OnConnectSuccess, Watched, Store, StoreTypeOK, SockStates, DescriptorsOwned, NoWatch
      <4> QED BY <3>2, <4>1 DEF OnConnectSuccess
    <3> QED BY <1>1, <3>1, <3>2
  <2>2. /\ io[fd] = NoWatch \/ io[fd].cb = "connect"
        /\ UNCHANGED frameVars /\ pc \in {"idle", "accept"}
    BY <1>1 DEF OnAcceptOne, OnConnectSuccess, Watched, Closed, Store, DescriptorsOwned
  <2>3. Store'
    BY <2>1, <2>2, BeginKeepsStore
  <2>4. Deferred'
    BY <2>1, <2>2, <2>3, BeginKeepsGC DEF frameVars
  <2>5. Frame'
    BY <2>2 DEF Frame, FrameTypeOK, HandlerObjectAlive, FrameSound, frameVars
  <2> QED BY <2>3, <2>4, <2>5
<1>2. CASE OnConnectFailReturns
  <2>1. /\ fr \in Fds /\ io[fr].cb = "connect" /\ fr \notin m_listens
        /\ sock' = [sock EXCEPT ![fr] = "closed"] /\ io' = [io EXCEPT ![fr] = NoWatch]
        /\ UNCHANGED <<mgrVars, listVars, seed>>
        /\ pc = "connfail" /\ Return
    BY <1>2 DEF OnConnectFailReturns, CloseFd, Frame, FrameSound, Store, DescriptorsOwned
  <2>2. StoreTypeOK'
    BY <2>1, FreeValues DEF Store, StoreTypeOK, SockStates, mgrVars, listVars
  <2>3. (IdsSound /\ OpenIsInTable)'
    BY <2>1 DEF Store, IdsSound, OpenIsInTable, mgrVars
  <2>4. \A f \in Fds : io'[f] = IF f = fr THEN NoWatch ELSE io[f]
    BY <2>1 DEF Store, StoreTypeOK
  <2>5. EntriesSound'
    BY <2>1, <2>4 DEF Store, EntriesSound, mgrVars
  <2>6. WatchesSound'
    BY <2>1, <2>4 DEF Store, WatchesSound, HasFd, NoWatch, mgrVars
  <2>7. DescriptorsOwned'
    BY <2>1, <2>4 DEF Store, StoreTypeOK, DescriptorsOwned, NoWatch, listVars
  <2>8. Deferred'
    BY <2>1, QuietKeepsGC DEF listVars, Return
  <2>9. Frame'
    BY <2>1 DEF Frame, FrameTypeOK, HandlerObjectAlive, FrameSound, Return, PCs
  <2> QED BY <2>2, <2>3, <2>5, <2>6, <2>7, <2>8, <2>9 DEF Store
<1>3. pc \in {"write", "read"} => self \in Addrs /\ heap[self] \in Object
                                  /\ heap[self].m_sessionId \in SessionIds
  BY DEF Frame, FrameTypeOK, HandlerObjectAlive, Store, StoreTypeOK, Object
<1>4. CASE OnWriteDone
  <2> DEFINE fd == heap[self].m_socket
  <2>1. /\ self \in Addrs /\ heap[self].live /\ m_sessions[Key(heap[self].m_sessionId)] = self
        /\ self # NULL /\ pc = "write"
    BY <1>3, <1>4 DEF OnWriteDone, Frame, FrameSound, HandlerObjectAlive
  <2>2. fd \in Fds /\ io[fd] \in Watch /\ io[fd].cb = "session" /\ sock[fd] \notin {"closed", "leaked"}
    BY <1>3, <2>1, KeyIsAPlace, EntryFacts
  <2>3. /\ io' = [io EXCEPT ![fd].ev = @ \ {"W"}]
        /\ UNCHANGED <<sock, mgrVars, listVars, seed>> /\ AfterWrite
    BY <1>4 DEF OnWriteDone
  <2>4. \A f \in Fds : /\ io'[f].cb = io[f].cb /\ io'[f].arg = io[f].arg
                       /\ "R" \in io[f].ev => "R" \in io'[f].ev
                       /\ f # fd => io'[f] = io[f]
    BY <2>2, <2>3 DEF Store, StoreTypeOK, Watch
  <2>5. StoreTypeOK'
    BY <2>2, <2>3 DEF Store, StoreTypeOK, Watch, mgrVars, listVars
  <2>6. (IdsSound /\ OpenIsInTable)'
    BY <2>3 DEF Store, IdsSound, OpenIsInTable, mgrVars
  <2>7. EntriesSound'
    BY <2>3, <2>4 DEF Store, EntriesSound, mgrVars
  <2>8. WatchesSound'
    <3>1. UNCHANGED <<heap, m_sessions>>
      BY <2>3 DEF mgrVars
    <3>2. \A f \in Fds : io'[f].cb = "session" => io[f].arg # NULL /\ HasFd(io[f].arg, f)
      BY <2>4 DEF Store, WatchesSound, HasFd
    <3> QED BY <2>4, <3>1, <3>2 DEF WatchesSound, HasFd
  <2>9. DescriptorsOwned'
    BY <2>2, <2>3, <2>4 DEF Store, DescriptorsOwned, listVars
  <2>10. Deferred'
    BY <2>1, <2>3, QuietKeepsGC DEF listVars, AfterWrite, Return
  <2>11. Frame'
    BY <2>1, <2>3 DEF Frame, FrameTypeOK, HandlerObjectAlive, FrameSound, AfterWrite, Return, PCs, mgrVars
  <2> QED BY <2>5, <2>6, <2>7, <2>8, <2>9, <2>10, <2>11 DEF Store
<1>5. CASE OnWriteCloses \/ OnReadCloses
  <2>1. /\ heap[self].m_sessionId \in SessionIds /\ EndSession(heap[self].m_sessionId)
        /\ UNCHANGED <<listVars, seed>> /\ pc \in {"write", "read"}
        /\ pc' \in {"read", "idle"}
        /\ pc' = "read" => UNCHANGED <<self, fr, alsoRead>>
        /\ pc' = "idle" => Return
    BY <1>3, <1>5 DEF OnWriteCloses, OnReadCloses, Close, AfterWrite, Return
  <2>2. Store'
    BY <2>1, EndKeepsStore
  <2>3. Deferred'
    BY <2>1, EndKeepsGC
  <2>4. Frame'
    BY <1>3, <2>1, EndIsGentle
    DEF Frame, FrameTypeOK, HandlerObjectAlive, FrameSound, Return, PCs
  <2> QED BY <2>2, <2>3, <2>4
<1> QED BY <1>1, <1>2, <1>4, <1>5

\* The pass over m_sessionGC: what is behind the iterator is gone, what is ahead is intact.
LEMMA GCKeepsIInv ==
    ASSUME IInv, GCStart \/ GCDelete
    PROVE  IInv'
<1> USE IInvParts
<1>1. CASE GCStart
  <2>1. PICK a \in Addrs : IsLowest(a, m_sessionGC) /\ self' = a
    BY <1>1 DEF GCStart
  <2>2. /\ pc = "idle" /\ pc' = "willend" /\ UNCHANGED <<fr, alsoRead>>
        /\ UNCHANGED <<kernelVars, mgrVars, listVars, seed>>
    BY <1>1 DEF GCStart
  <2>3. Store'
    BY <2>2 DEF kernelVars, mgrVars, listVars, Store, StoreTypeOK, IdsSound, OpenIsInTable,
                EntriesSound, WatchesSound, HasFd, DescriptorsOwned
  <2>4. GCPending' = GCPending
    BY <2>1, <2>2 DEF GCPending, IsLowest, mgrVars
  <2>5. Deferred'
    BY <2>2, <2>4 DEF Deferred, GCSound, NoOrphan, InTable, mgrVars, listVars
  <2>6. heap[a].live /\ a \in m_sessionGC /\ a # NULL
    BY <2>1, <2>2, ConstantsAssumption DEF IsLowest, Deferred, GCSound, GCPending, NULL
  <2>7. Frame'
    BY <2>1, <2>2, <2>6 DEF Frame, FrameTypeOK, HandlerObjectAlive, FrameSound, PCs, mgrVars
  <2> QED BY <2>3, <2>5, <2>7
<1>2. CASE GCDelete
  <2>1. /\ pc = "willend" /\ self \in Addrs /\ self \in m_sessionGC
        /\ heap[self].live /\ heap[self].m_socket = NoFd /\ ~InTable(self)
    <3>1. /\ pc = "willend" /\ self # NULL /\ self \in Addrs
          /\ self \in m_sessionGC /\ heap[self].live
      BY <1>2 DEF GCDelete, Frame, FrameTypeOK, FrameSound, HandlerObjectAlive
    <3>2. self \in GCPending
      BY <3>1, ConstantsAssumption DEF GCPending
    <3> QED BY <3>1, <3>2 DEF Deferred, GCSound
  <2>2. /\ heap' = [heap EXCEPT ![self] = FreeObject]
        /\ UNCHANGED <<kernelVars, m_sessions, listVars, seed>>
    BY <1>2 DEF GCDelete
  <2>3. \A a \in Addrs : /\ a # self => heap'[a] = heap[a]
                         /\ ~heap'[self].live
    BY <2>1, <2>2 DEF Store, StoreTypeOK, FreeObject
  <2>4. m_sessionGC' \subseteq m_sessionGC /\ m_sessionGC \subseteq Addrs
    BY <1>2 DEF GCDelete, Cleared, Store, StoreTypeOK
  <2>5. StoreTypeOK'
    BY <2>1, <2>2, <2>4, FreeValues DEF Store, StoreTypeOK, kernelVars, listVars
  <2>6. (IdsSound /\ OpenIsInTable)'
    BY <2>2, <2>3 DEF Store, IdsSound, OpenIsInTable
  <2>7. \A id \in SessionIds : m_sessions[id] # self
    BY <2>1 DEF InTable
  <2>8. EntriesSound'
    BY <2>2, <2>3, <2>7 DEF Store, StoreTypeOK, EntriesSound, kernelVars
  <2>9. WatchesSound'
    <3>1. \A fd \in Fds : io[fd].cb = "session" => io[fd].arg \in Addrs /\ io[fd].arg # self
      BY <2>1, ConstantsAssumption DEF Store, StoreTypeOK, WatchesSound, HasFd, Watch, NoFd
    <3> QED BY <2>2, <2>3, <3>1 DEF Store, WatchesSound, HasFd, kernelVars
  <2>10. DescriptorsOwned'
    BY <2>2 DEF Store, DescriptorsOwned, kernelVars, listVars
  <2>11. GCPending' = GCPending \ {self}
    <3>1. CASE GCLater = {}
      <4>1. GCPending' = {}
        BY <1>2, <3>1 DEF GCDelete, Cleared, Return, GCPending
      <4>2. \A b \in m_sessionGC : b >= self => b = self
        BY <2>1, <2>4, <3>1, ConstantsAssumption DEF GCLater
      <4> QED BY <2>1, <4>1, <4>2 DEF GCPending
    <3>2. CASE GCLater # {}
      <4>1. PICK a \in Addrs : IsLowest(a, GCLater) /\ self' = a
        BY <1>2, <3>2 DEF GCDelete
      <4>2. m_sessionGC' = m_sessionGC /\ pc' = pc
        BY <1>2, <3>2 DEF GCDelete
      <4>3. \A b \in m_sessionGC : b >= a <=> b >= self /\ b # self
        BY <2>1, <2>4, <4>1, ConstantsAssumption DEF IsLowest, GCLater
      <4> QED BY <2>1, <4>1, <4>2, <4>3 DEF GCPending
    <3> QED BY <3>1, <3>2
  <2>12. Deferred'
    <3>1. pc' # "destroyed" /\ UNCHANGED m_pSessionGCCheck
      BY <1>2, <2>1 DEF GCDelete, Cleared, Return, listVars
    <3>2. \A a \in Addrs : InTable(a)' <=> InTable(a)
      BY <2>2 DEF InTable
    <3>3. GCSound'
      BY <2>3, <2>4, <2>11, <3>2 DEF Deferred, GCSound, GCPending
    <3>4. NoOrphan => NoOrphan'
      BY <2>1, <2>3, <2>11, <3>1, <3>2 DEF NoOrphan
    <3> QED BY <3>3, <3>4 DEF Deferred
  <2>13. Frame'
    <3>1. CASE GCLater = {}
      BY <1>2, <3>1 DEF GCDelete, Cleared, Return, Frame, FrameTypeOK, PCs, HandlerObjectAlive, FrameSound
    <3>2. CASE GCLater # {}
      <4>1. PICK a \in Addrs : IsLowest(a, GCLater) /\ self' = a
        BY <1>2, <3>2 DEF GCDelete
      <4>2. m_sessionGC' = m_sessionGC /\ UNCHANGED <<pc, fr, alsoRead>>
        BY <1>2, <3>2 DEF GCDelete
      <4>3. a \in m_sessionGC /\ a > self /\ a # NULL
        BY <2>1, <4>1, ConstantsAssumption DEF IsLowest, GCLater, NULL
      <4>4. a # self /\ a \in GCPending
        BY <2>1, <4>3, ConstantsAssumption DEF GCPending
      <4>5. heap[a].live
        BY <4>4 DEF Deferred, GCSound
      <4> QED BY <2>1, <2>3, <4>1, <4>2, <4>3, <4>4, <4>5 DEF Frame, FrameTypeOK, HandlerObjectAlive, FrameSound
    <3> QED BY <3>1, <3>2
  <2> QED BY <2>5, <2>6, <2>8, <2>9, <2>10, <2>12, <2>13 DEF Store
<1> QED BY <1>1, <1>2

\* The kernel changes the state of connected and connecting sockets only.
LEMMA KernelKeepsIInv ==
    ASSUME IInv, KernelNext
    PROVE  IInv'
<1> USE IInvParts
<1>1. PICK fd \in Fds, state \in {"up", "refused", "eof", "err"} :
          /\ sock[fd] \in {"connecting", "up", "eof"}
          /\ sock' = [sock EXCEPT ![fd] = state]
          /\ UNCHANGED <<io, mgrVars, listVars, seed, frameVars>>
  BY DEF KernelNext, ConnectEstablished, ConnectRefused, PeerCloses, PeerResets, Kernel
<1>2. StoreTypeOK'
  BY <1>1 DEF Store, StoreTypeOK, SockStates, mgrVars, listVars
<1>3. (IdsSound /\ OpenIsInTable /\ EntriesSound /\ WatchesSound)'
  BY <1>1 DEF Store, IdsSound, OpenIsInTable, EntriesSound, WatchesSound, HasFd, mgrVars
<1>4. DescriptorsOwned'
  BY <1>1 DEF Store, StoreTypeOK, DescriptorsOwned, listVars
<1>5. Deferred'
  BY <1>1, QuietKeepsGC DEF frameVars, listVars
<1>6. Frame'
  BY <1>1 DEF Frame, FrameTypeOK, HandlerObjectAlive, FrameSound, frameVars, mgrVars
<1> QED BY <1>2, <1>3, <1>4, <1>5, <1>6 DEF Store

LEMMA NextKeepsIInv ==
    ASSUME IInv, [Next]_vars
    PROVE  IInv'
<1>1. CASE AppNext
  BY <1>1, AppKeepsIInv
<1>2. CASE LoopNext
  <2>1. \/ \E fd \in Fds : DispatchAccept(fd) \/ OnConnectFail(fd) \/ OnSessionIOReady(fd)
        \/ OnAcceptEnds \/ RecvReturns \/ OnWritePartial \/ OnReadData
        \/ \E fd \in Fds : OnAcceptOne(fd) \/ OnConnectSuccess(fd)
        \/ OnConnectFailReturns \/ OnWriteDone \/ OnWriteCloses \/ OnReadCloses
        \/ GCStart \/ GCDelete
    BY <1>2 DEF LoopNext
  <2> QED BY <2>1, HandlerKeepsIInv, LoopKeepsIInv, GCKeepsIInv
<1>3. CASE KernelNext
  BY <1>3, KernelKeepsIInv
<1>4. CASE UNCHANGED vars
  BY <1>4 DEF vars, IInv, TypeOK, StoreTypeOK, FrameTypeOK, IdsSound, OpenIsInTable, EntriesSound,
              WatchesSound, HasFd, DescriptorsOwned, GCSound, GCPending, NoOrphan, InTable,
              HandlerObjectAlive, FrameSound
<1> QED BY <1>1, <1>2, <1>3, <1>4 DEF Next

-----------------------------------------------------------------------------
\* Ids that fit in an unsigned int are their own keys.
LEMMA KeysAreIds ==
    ASSUME MaxId < UIntMod, Store
    PROVE  /\ \A a \in Addrs : heap[a].live =>
                  Key(heap[a].m_sessionId) = heap[a].m_sessionId
           /\ TableSound /\ CallbacksSound
<1>1. ASSUME NEW a \in Addrs, heap[a].live
      PROVE  Key(heap[a].m_sessionId) = heap[a].m_sessionId
  <2>1. heap[a].m_sessionId \in 1 .. seed /\ seed <= MaxId /\ seed \in Nat /\ MaxId \in Nat
    BY <1>1, ConstantsAssumption DEF Store, IdsSound, StoreTypeOK, SessionIds
  <2>2. heap[a].m_sessionId \in 0 .. MaxId
    BY <2>1
  <2> QED BY <2>2, KeyIsId
<1>2. TableSound
  <2>1. \A k \in SessionIds : m_sessions[k] # NULL => m_sessions[k] \in Addrs
    BY DEF Store, StoreTypeOK
  <2> QED BY <1>1, <2>1 DEF Store, EntriesSound, TableSound
<1>3. CallbacksSound
  <2>1. \A fd \in Fds : io[fd].arg # NULL => io[fd].arg \in Addrs
    BY DEF Store, StoreTypeOK, Watch
  <2> QED BY <1>1, <2>1 DEF Store, WatchesSound, HasFd, CallbacksSound, OwnsFd
<1> QED BY <1>1, <1>2, <1>3

\* The invariant holds of every execution.
THEOREM Invariance == SafeSpec => []IInv
BY InitIInv, NextKeepsIInv, PTL DEF SafeSpec

\* Every variable keeps to its values: in particular no NULL reaches m_sessionGC and no
\* handler runs on a missing object.
THEOREM TypeCorrect == SafeSpec => []TypeOK
BY Invariance, PTL DEF IInv

\* The deferred deletion is sound however sessions are closed inside callbacks, those of
\* OnSessionGC included, and however long the ids grow: the object of the running handler
\* is not deleted under it, and OnSessionGC deletes each object once, when nobody can find
\* it any more.
THEOREM DeletionIsSound == SafeSpec => [](HandlerObjectAlive /\ GCSound)
BY Invariance, PTL DEF IInv

\* As unconditionally, an open descriptor has one owner and a closed one is not watched;
\* no entry of the table and no callback names a deleted object.
THEOREM DescriptorsSound == SafeSpec => [](DescriptorsOwned /\ EntriesSound /\ WatchesSound)
BY Invariance, PTL DEF IInv

\* While ids fit in an unsigned int, what GetSession(id) returns is the session id, and
\* libswevent calls back exactly the sessions GetSession finds.
THEOREM NoUseAfterDelete ==
    ASSUME MaxId < UIntMod
    PROVE  SafeSpec => [](TableSound /\ CallbacksSound)
<1>1. IInv => TableSound /\ CallbacksSound
  BY KeysAreIds, IInvParts
<1> QED BY <1>1, Invariance, PTL

\* As long as OnSessionWillEnd ends no session, no object is lost: a live one is in the
\* table or will be deleted by OnSessionGC, whose check callback is registered.
THEOREM NothingIsLost ==
    ASSUME ~WillEndMayEnd
    PROVE  SafeSpec => []NoOrphan
<1>1. IInv => NoOrphan
  BY DEF IInv
<1> QED BY <1>1, Invariance, PTL

-----------------------------------------------------------------------------
(* What one step may do to what was there before it.                       *)

\* A live session stays the object it is, with the id and the descriptor it began with,
\* until the descriptor is given up ...
SessionsStayThemselves ==
    \A a \in Addrs : heap[a].live /\ heap'[a].live =>
        /\ heap'[a].m_sessionId = heap[a].m_sessionId
        /\ heap'[a].m_socket \in {heap[a].m_socket, NoFd}

\* ... and whoever gives it up, EndSession or the destructor, closes it and takes its
\* callback away in the same step ...
GivenUpIsClosed ==
    \A a \in Addrs : heap[a].live /\ heap[a].m_socket # NoFd =>
        \/ heap'[a].live /\ heap'[a].m_socket = heap[a].m_socket
        \/ sock'[heap[a].m_socket] = "closed" /\ io'[heap[a].m_socket] = NoWatch

\* ... a watched descriptor is never handed to another session ...
WatchesAreNotHandedOn ==
    \A fd \in Fds : io[fd].cb = "session" =>
        io'[fd] = NoWatch \/ (io'[fd].cb = "session" /\ io'[fd].arg = io[fd].arg)

\* ... an entry of the table is erased, never overwritten, and a session whose entry is
\* erased either waits for OnSessionGC or is deleted by the destructor ...
EntriesAreNotOverwritten ==
    \A k \in SessionIds : m_sessions[k] # NULL =>
        \/ m_sessions'[k] = m_sessions[k]
        \/ m_sessions'[k] = NULL /\ (m_sessions[k] \in m_sessionGC' \/ pc' = "destroyed")

\* ... and an object is deleted only when OnSessionWillEnd has just returned from it, or
\* by the destructor.
DeletedAfterWillEnd ==
    \A a \in Addrs : heap[a].live /\ ~heap'[a].live =>
        \/ pc = "willend" /\ self = a /\ heap[a].m_socket = NoFd /\ ~InTable(a)
        \/ pc' = "destroyed" /\ InTable(a)

HandsSound ==
    /\ SessionsStayThemselves /\ GivenUpIsClosed /\ WatchesAreNotHandedOn
    /\ EntriesAreNotOverwritten /\ DeletedAfterWillEnd

\* A live object with a socket owns the watch of that socket.
LEMMA SocketFacts ==
    ASSUME Store, NEW a \in Addrs, heap[a].live, heap[a].m_socket # NoFd
    PROVE  /\ heap[a].m_socket \in Fds
           /\ io[heap[a].m_socket].cb = "session" /\ io[heap[a].m_socket].arg = a
           /\ InTable(a)
<1>1. Key(heap[a].m_sessionId) \in SessionIds /\ a # NULL
  BY KeyIsAPlace, ConstantsAssumption DEF Store, StoreTypeOK, Object, NULL
<1>2. m_sessions[Key(heap[a].m_sessionId)] = a
  BY DEF Store, OpenIsInTable
<1> QED BY <1>1, <1>2 DEF Store, EntriesSound, InTable

\* Steps that leave the objects, and every session's callback, as they are.
LEMMA QuietKeepsHands ==
    ASSUME Store, UNCHANGED mgrVars,
           \A fd \in Fds : io[fd].cb = "session" =>
               io'[fd].cb = "session" /\ io'[fd].arg = io[fd].arg
    PROVE  HandsSound
BY DEF HandsSound, SessionsStayThemselves, GivenUpIsClosed, WatchesAreNotHandedOn,
       EntriesAreNotOverwritten, DeletedAfterWillEnd, mgrVars

\* EndSession gives the descriptor of its own session up, and nothing else.
LEMMA EndKeepsHands ==
    ASSUME Store, NEW id \in SessionIds, EndSession(id)
    PROVE  HandsSound
<1> DEFINE s == m_sessions[id]
           fd == heap[s].m_socket
<1>1. CASE m_sessions[id] = NULL
  BY <1>1, QuietKeepsHands DEF EndSession, GetSession, kernelVars
<1>2. CASE m_sessions[id] # NULL
  <2>1. s \in Addrs /\ heap[s].live /\ fd \in Fds /\ fd # NoFd
        /\ io[fd].cb = "session" /\ io[fd].arg = s /\ Key(heap[s].m_sessionId) = id
    BY <1>2, EntryFacts
  <2>2. /\ sock' = [sock EXCEPT ![fd] = "closed"]
        /\ io' = [io EXCEPT ![fd] = NoWatch]
        /\ heap' = [heap EXCEPT ![s].m_socket = NoFd]
        /\ m_sessions' = [m_sessions EXCEPT ![id] = NULL]
        /\ m_sessionGC' = m_sessionGC \cup {s}
    BY <1>2, <2>1 DEF EndSession, DetachSocket, RemoveSession, Collect, GetSession, CloseFd
  <2>3. \A a \in Addrs : /\ heap'[a].live = heap[a].live
                         /\ heap'[a].m_sessionId = heap[a].m_sessionId
                         /\ heap'[a].m_socket = IF a = s THEN NoFd ELSE heap[a].m_socket
    BY <2>1, <2>2 DEF Store, StoreTypeOK, Object
  <2>4. sock'[fd] = "closed" /\ \A f \in Fds : io'[f] = IF f = fd THEN NoWatch ELSE io[f]
    BY <2>1, <2>2 DEF Store, StoreTypeOK
  <2>5. \A k \in SessionIds : m_sessions'[k] = IF k = id THEN NULL ELSE m_sessions[k]
    BY <2>2 DEF Store, StoreTypeOK
  <2>6. SessionsStayThemselves /\ DeletedAfterWillEnd
    BY <2>3 DEF SessionsStayThemselves, DeletedAfterWillEnd
  <2>7. GivenUpIsClosed
    BY <2>1, <2>3, <2>4 DEF GivenUpIsClosed
  <2>8. WatchesAreNotHandedOn
    BY <2>4 DEF WatchesAreNotHandedOn
  <2>9. EntriesAreNotOverwritten
    BY <2>2, <2>5 DEF EntriesAreNotOverwritten
  <2> QED BY <2>6, <2>7, <2>8, <2>9 DEF HandsSound
<1> QED BY <1>1, <1>2

\* BeginSession takes a free object, a free place and a descriptor no session has.
LEMMA BeginKeepsHands ==
    ASSUME Store, NEW fd \in Fds, NEW state, BeginSession(fd, state),
           io[fd] = NoWatch \/ io[fd].cb = "connect"
    PROVE  HandsSound
<1>1. \A f \in Fds : io[f].cb = "session" => io'[f] = io[f]
  BY DEF BeginSession, BeginFails, BeginSucceeds, CloseFd, NoWatch, Store, StoreTypeOK
<1>2. CASE BeginFails(fd)
  BY <1>1, <1>2, QuietKeepsHands DEF BeginFails
<1>3. CASE BeginSucceeds(fd, state)
  <2>1. PICK a \in Addrs, id \in SessionIds :
            /\ ~heap[a].live
            /\ FirstAddable(id)
            /\ heap' = [heap EXCEPT ![a] = [live |-> TRUE, m_sessionId |-> id, m_socket |-> fd]]
            /\ m_sessions' = [m_sessions EXCEPT ![Key(id)] = a]
    BY <1>3 DEF BeginSucceeds
  <2>2. m_sessions[Key(id)] = NULL
    BY <2>1 DEF FirstAddable
  <2>3. \A b \in Addrs : heap[b].live => heap'[b] = heap[b]
    BY <2>1 DEF Store, StoreTypeOK
  <2>4. \A k \in SessionIds : m_sessions[k] # NULL => m_sessions'[k] = m_sessions[k]
    BY <2>1, <2>2 DEF Store, StoreTypeOK
  <2>5. SessionsStayThemselves /\ GivenUpIsClosed /\ DeletedAfterWillEnd
    BY <2>3 DEF SessionsStayThemselves, GivenUpIsClosed, DeletedAfterWillEnd
  <2> QED BY <1>1, <2>4, <2>5 DEF HandsSound, WatchesAreNotHandedOn, EntriesAreNotOverwritten
<1> QED BY <1>2, <1>3 DEF BeginSession

\* OnSessionGC deletes the object OnSessionWillEnd has returned from.
LEMMA DeleteKeepsHands ==
    ASSUME IInv, GCDelete
    PROVE  HandsSound
<1> USE IInvParts
<1>1. /\ pc = "willend" /\ self \in Addrs
      /\ heap[self].live /\ heap[self].m_socket = NoFd /\ ~InTable(self)
  <2>1. pc = "willend" /\ self \in Addrs /\ self \in m_sessionGC
    BY DEF GCDelete, Frame, FrameTypeOK, HandlerObjectAlive, FrameSound
  <2>2. self \in GCPending
    BY <2>1, ConstantsAssumption DEF GCPending
  <2> QED BY <2>1, <2>2 DEF Deferred, GCSound
<1>2. /\ heap' = [heap EXCEPT ![self] = FreeObject]
      /\ UNCHANGED <<io, m_sessions>>
  BY DEF GCDelete, kernelVars
<1>3. \A a \in Addrs : heap'[a] = IF a = self THEN FreeObject ELSE heap[a]
  BY <1>2 DEF Store, StoreTypeOK
<1>4. SessionsStayThemselves /\ GivenUpIsClosed /\ DeletedAfterWillEnd
  BY <1>1, <1>3 DEF SessionsStayThemselves, GivenUpIsClosed, DeletedAfterWillEnd, FreeObject
<1> QED BY <1>2, <1>4 DEF HandsSound, WatchesAreNotHandedOn, EntriesAreNotOverwritten

\* The destructor closes what the sessions of the table have and deletes them.
LEMMA DestroyKeepsHands ==
    ASSUME Store, Destroy
    PROVE  HandsSound
<1>1. /\ \A a \in Addrs : heap'[a] = IF InTable(a) THEN FreeObject ELSE heap[a]
      /\ \A k \in SessionIds : m_sessions'[k] = NULL
      /\ pc' = "destroyed"
      /\ \A fd \in SessionFds : sock'[fd] = "closed" /\ io'[fd] = NoWatch
      /\ \A fd \in Fds : io'[fd] \in {NoWatch, io[fd]}
  BY DEF Destroy, SessionFds
<1>2. SessionsStayThemselves /\ DeletedAfterWillEnd
  BY <1>1 DEF SessionsStayThemselves, DeletedAfterWillEnd, FreeObject
<1>3. GivenUpIsClosed
  BY <1>1, SocketFacts DEF GivenUpIsClosed, SessionFds
<1> QED BY <1>1, <1>2, <1>3 DEF HandsSound, WatchesAreNotHandedOn, EntriesAreNotOverwritten

LEMMA StepKeepsHands ==
    ASSUME IInv, [Next]_vars
    PROVE  HandsSound
<1> USE IInvParts
<1>1. ASSUME NEW id \in SessionIds, AppEndSession(id)
      PROVE  HandsSound
  BY <1>1, EndKeepsHands DEF AppEndSession
<1>2. CASE OnWriteCloses \/ OnReadCloses
  <2>1. EndSession(heap[self].m_sessionId) /\ pc \in {"write", "read"}
    BY <1>2 DEF OnWriteCloses, OnReadCloses, Close
  <2>2. heap[self].m_sessionId \in SessionIds
    BY <2>1 DEF Frame, FrameTypeOK, HandlerObjectAlive, Store, StoreTypeOK, Object
  <2> QED BY <2>1, <2>2, EndKeepsHands
<1>3. ASSUME NEW fd \in Fds, AppConnectNow(fd) \/ OnAcceptOne(fd) \/ OnConnectSuccess(fd)
      PROVE  HandsSound
  <2>1. \E state : BeginSession(fd, state)
    BY <1>3 DEF AppConnectNow, OnAcceptOne, OnConnectSuccess
  <2>2. io[fd] = NoWatch \/ io[fd].cb = "connect"
    BY <1>3 DEF AppConnectNow, OnAcceptOne, OnConnectSuccess, Watched, Closed, Store, DescriptorsOwned
  <2> QED BY <2>1, <2>2, BeginKeepsHands
<1>4. ASSUME NEW id \in SessionIds, AppSendData(id)
      PROVE  HandsSound
  <2>1. /\ io' = [io EXCEPT ![heap[m_sessions[id]].m_socket].ev = @ \cup {"W"}]
        /\ UNCHANGED mgrVars
    BY <1>4 DEF AppSendData, GetSession
  <2>2. \A f \in Fds : io'[f].cb = io[f].cb /\ io'[f].arg = io[f].arg
    BY <2>1 DEF Store, StoreTypeOK, Watch
  <2> QED BY <2>1, <2>2, QuietKeepsHands
<1>5. CASE OnWriteDone
  <2>1. /\ io' = [io EXCEPT ![heap[self].m_socket].ev = @ \ {"W"}]
        /\ UNCHANGED mgrVars
    BY <1>5 DEF OnWriteDone
  <2>2. \A f \in Fds : io'[f].cb = io[f].cb /\ io'[f].arg = io[f].arg
    BY <2>1 DEF Store, StoreTypeOK, Watch
  <2> QED BY <2>1, <2>2, QuietKeepsHands
<1>6. ASSUME NEW fd \in Fds, io[fd].cb # "session", NEW watch,
             io' = [io EXCEPT ![fd] = watch], UNCHANGED mgrVars
      PROVE  HandsSound
  BY <1>6, QuietKeepsHands DEF Store, StoreTypeOK
<1>7. ASSUME NEW fd \in Fds, AppConnect(fd) \/ AppBindAndListen(fd)
      PROVE  HandsSound
  <2>1. io[fd].cb # "session"
    BY <1>7 DEF AppConnect, AppBindAndListen, Closed, Store, DescriptorsOwned, NoWatch
  <2> QED BY <1>6, <1>7, <2>1 DEF AppConnect, AppBindAndListen
<1>8. CASE OnConnectFailReturns
  <2>1. fr \in Fds /\ io[fr].cb # "session"
    BY <1>8 DEF OnConnectFailReturns, Frame, FrameSound
  <2> QED BY <1>6, <1>8, <2>1 DEF OnConnectFailReturns, CloseFd
<1>9. ASSUME UNCHANGED <<io, mgrVars>>
      PROVE  HandsSound
  BY <1>9, QuietKeepsHands
<1>10. ASSUME NEW fd \in Fds,
              \/ AppCallLeaks(fd) \/ DispatchAccept(fd) \/ OnConnectFail(fd) \/ OnSessionIOReady(fd)
       PROVE  HandsSound
  BY <1>9, <1>10 DEF AppCallLeaks, DispatchAccept, OnConnectFail, OnSessionIOReady, kernelVars
<1>11. CASE OnAcceptEnds \/ RecvReturns \/ OnWritePartial \/ OnReadData \/ GCStart
  BY <1>9, <1>11 DEF OnAcceptEnds, RecvReturns, OnWritePartial, OnReadData, GCStart, kernelVars
<1>12. CASE KernelNext
  BY <1>9, <1>12 DEF KernelNext, ConnectEstablished, ConnectRefused, PeerCloses, PeerResets, Kernel
<1>13. CASE UNCHANGED vars
  BY <1>9, <1>13 DEF vars, mgrVars
<1>14. CASE AppNext
  BY <1>1, <1>3, <1>4, <1>7, <1>10, <1>14, DestroyKeepsHands DEF AppNext
<1>15. CASE LoopNext
  BY <1>2, <1>3, <1>5, <1>8, <1>10, <1>11, <1>15, DeleteKeepsHands DEF LoopNext
<1> QED BY <1>12, <1>13, <1>14, <1>15 DEF Next

\* In no step of any execution, whatever its ids and its OnSessionWillEnd, does an object,
\* a descriptor, a table entry or a callback pass from one session to another: it must be
\* given up first, closed or deleted where it is given up.
THEOREM NothingChangesHands == SafeSpec => [][HandsSound]_vars
<1>1. IInv /\ [Next]_vars => [HandsSound]_vars
  BY StepKeepsHands
<1> QED BY <1>1, Invariance, PTL DEF SafeSpec

-----------------------------------------------------------------------------
(* SessionMgr implements SessionLife.                                      *)

\* The life of an id depends on the table, the ids of the live objects and the seed.
LEMMA SameLife ==
    ASSUME NEW id \in LifeIds, m_sessions'[id] = m_sessions[id],
           Held(id)' <=> Held(id), id > seed' <=> id > seed,
           seed \in Nat, seed' \in Nat
    PROVE  LifeOf(id)' = LifeOf(id)
BY ConstantsAssumption DEF LifeOf, LifeIds, SessionIds

\* A step that moves one id, or none, is a step of the abstract manager.
LEMMA OneMove ==
    ASSUME NEW id \in LifeIds, pc # "destroyed", pc' # "destroyed",
           \A i \in LifeIds \ {id} : LifeOf(i)' = LifeOf(i),
           \/ LifeOf(id) = "unused" /\ LifeOf(id)' \in {"unused", "live", "gone"}
           \/ LifeOf(id) = "live" /\ LifeOf(id)' \in {"live", "dying"}
           \/ LifeOf(id) = "dying" /\ LifeOf(id)' \in {"dying", "gone"}
    PROVE  [Life!Next]_Life!vars
<1> DEFINE f == [i \in LifeIds |-> LifeOf(i)]
<1>1. CASE LifeOf(id)' = LifeOf(id)
  <2>1. f' = f
    BY <1>1
  <2> QED BY <2>1 DEF Life!vars
<1>2. CASE LifeOf(id)' # LifeOf(id)
  <2>1. f' = [f EXCEPT ![id] = LifeOf(id)'] /\ f[id] = LifeOf(id)
    OBVIOUS
  <2>2. Life!Begin(id) \/ Life!Waste(id) \/ Life!End(id) \/ Life!Reap(id)
    BY <1>2, <2>1 DEF Life!Begin, Life!Waste, Life!End, Life!Reap, Life!Move
  <2> QED BY <2>2 DEF Life!Next
<1> QED BY <1>1, <1>2

\* A step that moves no id.
LEMMA NoMove ==
    ASSUME UNCHANGED <<m_sessions, seed>>, seed \in Nat,
           \A a \in Addrs : heap'[a].live = heap[a].live
                            /\ heap'[a].m_sessionId = heap[a].m_sessionId,
           (pc = "destroyed") = (pc = "destroyed")'
    PROVE  [Life!Next]_Life!vars
<1>1. \A id \in LifeIds : LifeOf(id)' = LifeOf(id)
  BY SameLife DEF Held
<1> QED BY <1>1 DEF Life!vars

\* Ending a session moves its id from live to dying.
LEMMA EndIsAnEnd ==
    ASSUME MaxId < UIntMod, IInv, NEW id \in SessionIds, EndSession(id), UNCHANGED seed,
           pc # "destroyed", pc' # "destroyed"
    PROVE  [Life!Next]_Life!vars
<1> USE IInvParts
<1>0. seed \in Nat
  BY DEF Store, StoreTypeOK, SessionIds
<1>1. CASE m_sessions[id] = NULL
  BY <1>0, <1>1, NoMove DEF EndSession, DetachSocket, RemoveSession, Collect, GetSession, mgrVars
<1>2. CASE m_sessions[id] # NULL
  <2> DEFINE s == m_sessions[id]
  <2>1. s \in Addrs /\ heap[s].live /\ heap[s].m_sessionId = id
    BY <1>2, EntryFacts, KeysAreIds DEF TableSound
  <2>2. /\ \A a \in Addrs : heap'[a].live = heap[a].live /\ heap'[a].m_sessionId = heap[a].m_sessionId
        /\ m_sessions' = [m_sessions EXCEPT ![id] = NULL]
    BY <1>2 DEF EndSession, DetachSocket, RemoveSession, Collect, GetSession, Store, StoreTypeOK, Object
  <2>3. id \in LifeIds
    BY <2>1, <1>0 DEF LifeIds, Store, IdsSound
  <2>4. LifeOf(id) = "live"
    BY <1>2 DEF LifeOf
  <2>5. LifeOf(id)' = "dying"
    <3>1. m_sessions'[id] = NULL /\ Held(id)'
      BY <2>1, <2>2 DEF Held, Store, StoreTypeOK
    <3> QED BY <3>1 DEF LifeOf
  <2>6. \A i \in LifeIds \ {id} : LifeOf(i)' = LifeOf(i)
    BY <1>0, <2>2, SameLife DEF Held, Store, StoreTypeOK, LifeIds
  <2> QED BY <2>3, <2>4, <2>5, <2>6, OneMove
<1> QED BY <1>1, <1>2

\* Beginning a session moves the next id from unused to live, a failed one to gone.
LEMMA BeginIsABegin ==
    ASSUME MaxId < UIntMod, IInv, NEW fd \in Fds, NEW state, BeginSession(fd, state),
           pc # "destroyed", pc' # "destroyed"
    PROVE  [Life!Next]_Life!vars
<1> USE IInvParts
<1>0. seed \in Nat
  BY DEF Store, StoreTypeOK, SessionIds
<1>1. CASE UNCHANGED <<heap, m_sessions, seed>>
  BY <1>0, <1>1, NoMove
<1>2. ASSUME NEW id \in Nat, id = seed + 1, seed < MaxId, seed' = id,
             \/ UNCHANGED <<heap, m_sessions>>
             \/ \E a \in Addrs :
                  /\ ~heap[a].live
                  /\ heap' = [heap EXCEPT ![a] = [live |-> TRUE, m_sessionId |-> id, m_socket |-> fd]]
                  /\ m_sessions' = [m_sessions EXCEPT ![id] = a]
      PROVE  [Life!Next]_Life!vars
  <2>1. id \in LifeIds /\ id # 0
    BY <1>0, <1>2, NextIdIsFresh DEF LifeIds, Store
  <2>2. m_sessions[id] = NULL /\ ~Held(id)
    <3>1. ~Held(id)
      BY <1>0, <1>2 DEF Held, Store, IdsSound
    <3>2. m_sessions[id] \in Addrs \cup {NULL}
      BY <2>1 DEF LifeIds, Store, StoreTypeOK
    <3>3. TableSound
      BY KeysAreIds
    <3> QED BY <2>1, <3>1, <3>2, <3>3 DEF Held, TableSound, LifeIds
  <2>3. LifeOf(id) = "unused"
    <3>1. id > seed /\ ~(id <= seed)
      BY <1>0, <1>2
    <3> QED BY <2>2, <3>1 DEF LifeOf
  <2>4. \A i \in LifeIds \ {id} :
            m_sessions'[i] = m_sessions[i] /\ (Held(i)' <=> Held(i)) /\ (i > seed' <=> i > seed)
    <3>1. \A i \in LifeIds \ {id} : m_sessions'[i] = m_sessions[i]
      BY <1>2 DEF LifeIds, Store, StoreTypeOK
    <3>2. \A i \in LifeIds \ {id} : Held(i)' <=> Held(i)
      BY <1>2 DEF Held, Store, StoreTypeOK
    <3>3. \A i \in LifeIds \ {id} : i > seed' <=> i > seed
      BY <1>0, <1>2, ConstantsAssumption DEF LifeIds, SessionIds
    <3> QED BY <3>1, <3>2, <3>3
  <2>5. \A i \in LifeIds \ {id} : LifeOf(i)' = LifeOf(i)
    BY <1>0, <1>2, <2>1, <2>4, SameLife
  <2>6. LifeOf(id)' \in {"live", "gone"}
    <3>1. CASE UNCHANGED <<heap, m_sessions>>
      <4>1. m_sessions'[id] = NULL /\ ~Held(id)' /\ id <= seed'
        BY <1>2, <2>1, <2>2, <3>1 DEF Held
      <4> QED BY <2>1, <4>1, <1>2 DEF LifeOf
    <3>2. CASE m_sessions'[id] # NULL
      BY <3>2 DEF LifeOf
    <3> QED BY <1>2, <2>1, <3>1, <3>2, ConstantsAssumption DEF LifeIds, NULL, Store, StoreTypeOK
  <2> QED BY <2>1, <2>3, <2>5, <2>6, OneMove
<1>3. CASE BeginFails(fd)
  <2>1. UNCHANGED <<heap, m_sessions>> /\ (seed' = seed \/ (seed < MaxId /\ seed' = seed + 1))
    <3>1. seed < MaxId => GenSessionId(seed) = seed + 1
      BY NextIdIsFresh DEF Store
    <3>2. /\ UNCHANGED <<mgrVars, listVars>>
          /\ seed' = seed \/ (seed < MaxId /\ seed' = GenSessionId(seed))
      BY <1>3 DEF BeginFails
    <3> QED BY <3>1, <3>2 DEF mgrVars
  <2>2. seed + 1 \in Nat
    BY <1>0
  <2> QED BY <1>1, <1>2, <2>1, <2>2
<1>4. CASE BeginSucceeds(fd, state)
  <2>1. PICK a \in Addrs, i \in SessionIds :
            /\ ~heap[a].live
            /\ FirstAddable(i)
            /\ seed' = i
            /\ heap' = [heap EXCEPT ![a] = [live |-> TRUE, m_sessionId |-> i, m_socket |-> fd]]
            /\ m_sessions' = [m_sessions EXCEPT ![Key(i)] = a]
    BY <1>4 DEF BeginSucceeds, GCCheckAdded
  <2>2. seed < MaxId /\ i = seed + 1 /\ Key(i) = i
    <3>1. seed < MaxId
      BY <1>4 DEF BeginSucceeds
    <3>2. i > seed /\ i <= MaxId /\ i \in Nat
      BY <2>1, <3>1, NextIdIsFresh DEF Store
    <3>3. Key(i) = i /\ Key(seed + 1) = seed + 1
      BY <1>0, <3>1, <3>2, KeyIsId, ConstantsAssumption
    <3>4. m_sessions[seed + 1] = NULL
      <4>1. seed + 1 \in SessionIds /\ seed + 1 \notin 1 .. seed
        BY <1>0, <3>1, NextIdIsFresh DEF Store
      <4>2. m_sessions[seed + 1] \in Addrs \cup {NULL}
        BY <4>1 DEF Store, StoreTypeOK
      <4>3. TableSound
        BY KeysAreIds
      <4> QED BY <4>1, <4>2, <4>3 DEF TableSound, Store, IdsSound
    <3>5. CASE i # seed + 1
      <4>1. seed + 1 \in GenSessionId(seed) .. i - 1
        BY <1>0, <3>1, <3>2, <3>5, NextIdIsFresh DEF Store
      <4> QED BY <2>1, <3>3, <3>4, <4>1 DEF FirstAddable
    <3> QED BY <3>1, <3>3, <3>5
  <2>3. i \in Nat
    BY <1>0, <2>2
  <2> QED BY <1>2, <2>1, <2>2, <2>3
<1> QED BY <1>3, <1>4 DEF BeginSession

\* Deleting an object in OnSessionGC reaps its id.
LEMMA DeleteIsAReap ==
    ASSUME MaxId < UIntMod, IInv, GCDelete
    PROVE  [Life!Next]_Life!vars
<1> USE IInvParts
<1>1. /\ pc = "willend" /\ pc' # "destroyed" /\ self \in Addrs /\ heap[self].live /\ ~InTable(self)
      /\ heap' = [heap EXCEPT ![self] = FreeObject]
      /\ UNCHANGED <<m_sessions, seed>>
  <2>1. pc = "willend" /\ self \in Addrs /\ heap[self].live /\ self \in m_sessionGC
    BY DEF GCDelete, Frame, FrameTypeOK, HandlerObjectAlive, FrameSound
  <2>2. self \in GCPending
    BY <2>1, ConstantsAssumption DEF GCPending
  <2> QED BY <2>1, <2>2 DEF GCDelete, Cleared, Return, Deferred, GCSound
<1>2. PICK id \in LifeIds : id = heap[self].m_sessionId /\ seed \in Nat
  BY <1>1 DEF Store, StoreTypeOK, IdsSound, SessionIds, LifeIds, Object
<1>3. \A a \in Addrs : heap'[a] = IF a = self THEN FreeObject ELSE heap[a]
  BY <1>1 DEF Store, StoreTypeOK
<1>4. \A i \in LifeIds \ {id} : Held(i)' <=> Held(i)
  BY <1>1, <1>2, <1>3 DEF Held, FreeObject
<1>5. Held(id) /\ ~Held(id)'
  BY <1>1, <1>2, <1>3 DEF Held, FreeObject, Store, IdsSound
<1>6. m_sessions[id] = NULL
  BY <1>1, <1>2, KeysAreIds DEF LifeIds, Store, StoreTypeOK, TableSound, IdsSound, InTable
<1>7. LifeOf(id) = "dying"
  BY <1>5, <1>6 DEF LifeOf
<1>8. LifeOf(id)' = "gone"
  <2>1. id <= seed
    BY <1>1, <1>2 DEF Store, IdsSound
  <2>2. (m_sessions[id] = NULL)' /\ ~Held(id)' /\ ~(id > seed') /\ id <= seed'
    BY <1>1, <1>2, <1>5, <1>6, <2>1 DEF LifeIds, SessionIds
  <2> QED BY <1>1, <2>1, <2>2 DEF LifeOf
<1>9. \A i \in LifeIds \ {id} : LifeOf(i)' = LifeOf(i)
  BY <1>1, <1>2, <1>4, SameLife
<1> QED BY <1>1, <1>2, <1>7, <1>8, <1>9, OneMove

\* Destroying the manager ends the life of the live sessions; what waits in m_sessionGC
\* keeps waiting.
LEMMA DestroyIsADestroy ==
    ASSUME MaxId < UIntMod, IInv, Destroy
    PROVE  Life!Next
<1> USE IInvParts
<1>1. /\ pc # "destroyed" /\ pc' = "destroyed" /\ UNCHANGED seed
      /\ heap' = [a \in Addrs |-> IF InTable(a) THEN FreeObject ELSE heap[a]]
      /\ m_sessions' = [id \in SessionIds |-> NULL]
  BY DEF Destroy
<1>2. seed \in Nat
  BY DEF Store, StoreTypeOK, SessionIds
<1>3. ASSUME NEW id \in LifeIds
      PROVE  LifeOf(id)' = IF LifeOf(id) = "live" THEN "gone" ELSE LifeOf(id)
  <2>1. m_sessions'[id] = NULL /\ id \in Nat
    BY <1>1, <1>3, ConstantsAssumption DEF LifeIds, SessionIds
  <2>2. CASE m_sessions[id] # NULL
    <3>1. m_sessions[id] \in Addrs /\ heap[m_sessions[id]].live /\ heap[m_sessions[id]].m_sessionId = id
      BY <1>3, <2>2, EntryFacts, KeysAreIds DEF LifeIds, TableSound
    <3>2. InTable(m_sessions[id])
      BY <1>3 DEF InTable, LifeIds
    <3>3. \A a \in Addrs : heap[a].live /\ heap[a].m_sessionId = id => a = m_sessions[id]
      BY <3>1 DEF Store, IdsSound
    <3>4. ~Held(id)'
      BY <1>1, <3>1, <3>2, <3>3 DEF Held, FreeObject
    <3>5. id <= seed
      BY <3>1, <1>2 DEF Store, IdsSound
    <3>6. LifeOf(id) = "live"
      BY <2>2 DEF LifeOf
    <3>7. LifeOf(id)' = "gone"
      <4>1. ~(id > seed)
        BY <1>2, <2>1, <3>5
      <4> QED BY <1>1, <2>1, <3>4, <3>5, <4>1 DEF LifeOf
    <3> QED BY <3>6, <3>7
  <2>3. CASE m_sessions[id] = NULL
    <3>1. \A a \in Addrs : InTable(a) => heap[a].m_sessionId # id
      BY <1>3, <2>3, InTableIff, KeysAreIds, ConstantsAssumption DEF NULL
    <3>2. Held(id)' <=> Held(id)
      BY <1>1, <3>1 DEF Held, FreeObject
    <3>3. LifeOf(id)' = LifeOf(id)
      BY <1>1, <1>2, <1>3, <2>1, <2>3, <3>2, SameLife
    <3>4. LifeOf(id) # "live"
      BY <1>2, <2>1, <2>3 DEF LifeOf
    <3> QED BY <3>3, <3>4
  <2> QED BY <2>2, <2>3
<1>4. Life!Destroy
  BY <1>1, <1>3 DEF Life!Destroy
<1> QED BY <1>4 DEF Life!Next

LEMMA LifeInit == Init => Life!Init
<1> SUFFICES ASSUME Init PROVE Life!Init
  OBVIOUS
<1>1. \A id \in LifeIds : /\ m_sessions[id] = NULL /\ ~Held(id) /\ pc = "idle"
                          /\ id > seed /\ ~(id <= seed)
  BY ConstantsAssumption DEF Init, Held, FreeObject, LifeIds, SessionIds
<1>2. \A id \in LifeIds : LifeOf(id) = "unused"
  BY <1>1 DEF LifeOf
<1> QED BY <1>1, <1>2 DEF Life!Init, Init

LEMMA LifeStep ==
    ASSUME MaxId < UIntMod, IInv, [Next]_vars
    PROVE  [Life!Next]_Life!vars
<1> USE IInvParts
<1>0. seed \in Nat
  BY DEF Store, StoreTypeOK, SessionIds
<1>1. CASE Destroy
  BY <1>1, DestroyIsADestroy
<1>2. CASE GCDelete
  BY <1>2, DeleteIsAReap
<1>3. ASSUME NEW fd \in Fds, AppConnectNow(fd) \/ OnAcceptOne(fd) \/ OnConnectSuccess(fd)
      PROVE  [Life!Next]_Life!vars
  <2>1. (\E state : BeginSession(fd, state)) /\ pc # "destroyed" /\ pc' # "destroyed"
    BY <1>3 DEF AppConnectNow, OnAcceptOne, OnConnectSuccess, Watched, AppRuns, Callbacks, frameVars
  <2> QED BY <2>1, BeginIsABegin
<1>4. ASSUME NEW id \in SessionIds, AppEndSession(id)
      PROVE  [Life!Next]_Life!vars
  <2>1. EndSession(id) /\ UNCHANGED seed /\ pc # "destroyed" /\ pc' # "destroyed"
    BY <1>4 DEF AppEndSession, AppMayEnd, AppRuns, Callbacks, frameVars
  <2> QED BY <2>1, EndIsAnEnd
<1>5. CASE OnWriteCloses \/ OnReadCloses
  <2>1. /\ EndSession(heap[self].m_sessionId) /\ UNCHANGED seed
        /\ pc \in {"write", "read"} /\ pc' # "destroyed"
    BY <1>5 DEF OnWriteCloses, OnReadCloses, Close, AfterWrite, Return
  <2>2. heap[self].m_sessionId \in SessionIds
    BY <2>1 DEF Frame, FrameTypeOK, HandlerObjectAlive, Store, StoreTypeOK, Object
  <2> QED BY <2>1, <2>2, EndIsAnEnd
<1>6. ASSUME UNCHANGED <<mgrVars, seed>>, (pc = "destroyed") = (pc = "destroyed")'
      PROVE  [Life!Next]_Life!vars
  BY <1>0, <1>6, NoMove DEF mgrVars
<1>7. ASSUME NEW id \in SessionIds, AppSendData(id)
      PROVE  [Life!Next]_Life!vars
  BY <1>6, <1>7 DEF AppSendData, frameVars
<1>8. ASSUME NEW fd \in Fds, AppConnect(fd) \/ AppBindAndListen(fd) \/ AppCallLeaks(fd)
      PROVE  [Life!Next]_Life!vars
  BY <1>6, <1>8 DEF AppConnect, AppBindAndListen, AppCallLeaks, frameVars
<1>9. ASSUME NEW fd \in Fds, DispatchAccept(fd) \/ OnConnectFail(fd) \/ OnSessionIOReady(fd)
      PROVE  [Life!Next]_Life!vars
  BY <1>6, <1>9 DEF DispatchAccept, OnConnectFail, OnSessionIOReady, Watched
<1>10. CASE OnAcceptEnds \/ OnConnectFailReturns \/ RecvReturns
  BY <1>6, <1>10 DEF OnAcceptEnds, OnConnectFailReturns, RecvReturns, Return
<1>11. CASE OnWritePartial \/ OnWriteDone \/ OnReadData
  BY <1>6, <1>11 DEF OnWritePartial, OnWriteDone, OnReadData, AfterWrite, Return
<1>12. CASE GCStart
  BY <1>6, <1>12 DEF GCStart
<1>13. CASE KernelNext
  <2>1. UNCHANGED <<mgrVars, seed, frameVars>>
    BY <1>13 DEF KernelNext, ConnectEstablished, ConnectRefused, PeerCloses, PeerResets, Kernel
  <2> QED BY <1>6, <2>1 DEF frameVars
<1>14. CASE UNCHANGED vars
  BY <1>6, <1>14 DEF vars, mgrVars
<1>15. CASE AppNext
  BY <1>1, <1>3, <1>4, <1>7, <1>8, <1>15 DEF AppNext
<1>16. CASE LoopNext
  BY <1>2, <1>3, <1>5, <1>9, <1>10, <1>11, <1>12, <1>16 DEF LoopNext
<1> QED BY <1>13, <1>14, <1>15, <1>16 DEF Next

\* Every session of the manager lives the life SessionLife promises: begun once, ended
\* once, deleted once and only after its end, its id never used again.
THEOREM Refinement ==
    ASSUME MaxId < UIntMod
    PROVE  SafeSpec => Life!SafeSpec
BY Invariance, LifeInit, LifeStep, PTL DEF SafeSpec, Life!SafeSpec
=============================================================================
