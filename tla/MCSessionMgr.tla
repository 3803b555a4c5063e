---------------------------- MODULE MCSessionMgr ----------------------------
(* Instances of SessionMgr for TLC, and what the comments of the code say of it. *)
EXTENDS SessionMgr

\* tcp_session_mgr.h:94, "m_sessions; // key is sessionid".
KeyIsSessionId ==
    \A id \in SessionIds :
        m_sessions[id] # NULL => heap[m_sessions[id]].m_sessionId = id

\* tcp_session_mgr.cpp:91, "//ok ,connect success": the branch is taken for
\* connections that were established.
BegunConnectionsWereEstablished ==
    \A fd \in Fds : io[fd].cb = "session" => sock[fd] # "refused"

\* tcp_session.h:51, "All tcp sessions is deleted by TcpSessionMgr automaticly".
EveryEndedSessionIsDeleted == NoOrphan
=============================================================================
