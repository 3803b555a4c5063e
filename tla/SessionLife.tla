---------------------------- MODULE SessionLife ----------------------------
(***************************************************************************)
(* What TcpSessionMgr promises its user about one session id, with no      *)
(* descriptors, events or memory: an id is handed out once, its session is *)
(* begun once, ended once, and its object reaped (OnSessionWillEnd, then   *)
(* delete) once, after it has ended.  Destroying the manager takes the     *)
(* live sessions with it.                                                  *)
(***************************************************************************)
CONSTANT Ids          \* session ids, the values GenSessionId may return

VARIABLES life,       \* [Ids -> "unused" | "live" | "dying" | "gone"]
          stopped     \* the manager has been destroyed

vars == <<life, stopped>>

LifeTypeOK ==
    /\ life \in [Ids -> {"unused", "live", "dying", "gone"}]
    /\ stopped \in BOOLEAN

Init ==
    /\ life = [id \in Ids |-> "unused"]
    /\ stopped = FALSE

Move(id, from, to) ==
    /\ ~stopped
    /\ life[id] = from
    /\ life' = [life EXCEPT ![id] = to]
    /\ UNCHANGED stopped

Begin(id) == Move(id, "unused", "live")
\* The id of a session that could not be registered is never used again.
Waste(id) == Move(id, "unused", "gone")
End(id)   == Move(id, "live", "dying")
Reap(id)  == Move(id, "dying", "gone")

Destroy ==
    /\ ~stopped
    /\ stopped' = TRUE
    /\ life' = [id \in Ids |-> IF life[id] = "live" THEN "gone" ELSE life[id]]

Next == Destroy \/ \E id \in Ids : Begin(id) \/ Waste(id) \/ End(id) \/ Reap(id)

SafeSpec == Init /\ [][Next]_vars

\* The manager reaps every ended session, unless it is destroyed first.
Spec == SafeSpec /\ \A id \in Ids : WF_vars(Reap(id))
=============================================================================
