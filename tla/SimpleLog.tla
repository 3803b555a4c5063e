------------------------------ MODULE SimpleLog ------------------------------
(***************************************************************************)
(* The logger: threads that log push lines on a queue under m_lock, one    *)
(* writer thread drains it into the log file, and one thread of the        *)
(* program starts the logger up and shuts it down, as often as it likes.   *)
(*                                                                         *)
(* A section under m_lock is one step; m_startup and m_pFile are read and  *)
(* written without it, so the steps that do so are their own.  Lines are   *)
(* numbered from 1 in the order they are pushed.  The clock is a choice: a *)
(* delay or a rotate cycle has passed or not.                              *)
(***************************************************************************)
EXTENDS Integers, Sequences

CONSTANTS
    Threads,    \* the threads that log
    MaxLines    \* BOUND on the lines logged

ASSUME LogAssumption == MaxLines \in Nat

NULL == "null"
Streams == {"stdout", "file"}

VARIABLES
    m_startup, m_pFile, m_logQue,
    m_delay,                \* m_delay # 0
    m_rotateCycle,          \* m_rotateCycle # 0
    m_lastRotateLogTime,    \* m_lastRotateLogTime # 0
    tempLogs,               \* the writer's batch
    writer,                 \* where the writer thread is; "none": not joinable
    main,                   \* where the thread that calls Startup and Shutdown is
    restart,                \* Shutdown was called by Startup
    logger,                 \* where each logging thread is
    pushed,                 \* how many lines were pushed
    atShutdown,             \* how many of them before Shutdown was called
    out,                    \* the lines given to fwrite, in order
    unflushed,              \* the lines in the buffer of each stream
    dropped                 \* the lines the writer had no file for

configVars == <<m_delay, m_rotateCycle>>
fileVars == <<out, unflushed, dropped>>
mainVars == <<main, restart, atShutdown>>
vars == <<m_startup, m_pFile, m_logQue, m_delay, m_rotateCycle, m_lastRotateLogTime,
          tempLogs, writer, main, restart, logger, pushed, atShutdown, out, unflushed, dropped>>

Lines(s) == {s[i] : i \in 1 .. Len(s)}
Running == {"top", "waiting", "woken", "write", "check"}

TypeOK ==
    /\ m_startup \in BOOLEAN
    /\ m_pFile \in Streams \cup {NULL}
    /\ m_delay \in BOOLEAN /\ m_rotateCycle \in BOOLEAN /\ m_lastRotateLogTime \in BOOLEAN
    /\ m_logQue \in Seq(Nat) /\ tempLogs \in Seq(Nat) /\ out \in Seq(Nat)
    /\ writer \in Running \cup {"none", "done"}
    /\ main \in {"idle", "join", "open", "crashed"}
    /\ restart \in BOOLEAN
    /\ logger \in [Threads -> {"idle", "notify"}]
    /\ pushed \in Nat /\ atShutdown \in Nat
    /\ unflushed \in [Streams -> SUBSET Nat]
    /\ dropped \subseteq Nat

Init ==
    /\ m_startup = FALSE /\ m_pFile = NULL /\ m_logQue = <<>>
    /\ m_delay = FALSE /\ m_rotateCycle = FALSE /\ m_lastRotateLogTime = FALSE
    /\ tempLogs = <<>> /\ writer = "none" /\ main = "idle" /\ restart = FALSE
    /\ logger = [t \in Threads |-> "idle"] /\ pushed = 0 /\ atShutdown = 0
    /\ out = <<>> /\ unflushed = [s \in Streams |-> {}] /\ dropped = {}

-----------------------------------------------------------------------------
(* _Log and _AppendLogQueue.                                               *)

\* The line is formatted, copied and pushed under the lock ...
AppendLogQueue(t) ==
    /\ logger[t] = "idle"
    /\ pushed < MaxLines
    /\ pushed' = pushed + 1
    /\ m_logQue' = Append(m_logQue, pushed + 1)
    /\ logger' = [logger EXCEPT ![t] = "notify"]
    /\ UNCHANGED <<m_startup, m_pFile, configVars, m_lastRotateLogTime, tempLogs, writer,
                   mainVars, fileVars>>

\* ... and notify_all comes after the unlock: it wakes the writer only if it waits now.
NotifyAll(t) ==
    /\ logger[t] = "notify"
    /\ logger' = [logger EXCEPT ![t] = "idle"]
    /\ writer' = IF writer = "waiting" THEN "woken" ELSE writer
    /\ UNCHANGED <<m_startup, m_pFile, m_logQue, configVars, m_lastRotateLogTime, tempLogs,
                   mainVars, pushed, fileVars>>

-----------------------------------------------------------------------------
(* WriteLogThread.                                                         *)

\* A slip: m_startup is looked at before the queue.
WriterBreaksEarly ==
    /\ writer = "top" /\ ~m_startup
    /\ writer' = "done"
    /\ UNCHANGED <<m_startup, m_pFile, m_logQue, configVars, m_lastRotateLogTime, tempLogs,
                   mainVars, logger, pushed, fileVars>>

\* The queue is empty and Shutdown was called.
WriterBreaks ==
    /\ writer = "top" /\ m_logQue = <<>> /\ ~m_startup
    /\ writer' = "done"
    /\ UNCHANGED <<m_startup, m_pFile, m_logQue, configVars, m_lastRotateLogTime, tempLogs,
                   mainVars, logger, pushed, fileVars>>

\* The queue is empty: wait_for releases the lock.
WriterWaits ==
    /\ writer = "top" /\ m_logQue = <<>> /\ m_startup
    /\ writer' = "waiting"
    /\ UNCHANGED <<m_startup, m_pFile, m_logQue, configVars, m_lastRotateLogTime, tempLogs,
                   mainVars, logger, pushed, fileVars>>

\* A slip: wait for wait_for.
WriterWaitsForever == FALSE /\ UNCHANGED vars

\* The second is over, or the wake-up is spurious.
WriterTimesOut ==
    /\ writer = "waiting"
    /\ writer' = "woken"
    /\ UNCHANGED <<m_startup, m_pFile, m_logQue, configVars, m_lastRotateLogTime, tempLogs,
                   mainVars, logger, pushed, fileVars>>

\* A slip: the lines are copied but not popped.
QueueNotPopped == m_logQue

QueuePopped == <<>>

\* The queue, empty or not, is moved to tempLogs, and the lock released.
WriterDrains ==
    /\ writer = "woken" \/ (writer = "top" /\ m_logQue # <<>>)
    /\ tempLogs' = m_logQue
    /\ m_logQue' = QueuePopped
    /\ writer' = "write"
    /\ UNCHANGED <<m_startup, m_pFile, configVars, m_lastRotateLogTime, mainVars, logger,
                   pushed, fileVars>>

WriterWrites ==
    /\ writer = "write" /\ m_pFile # NULL
    /\ out' = out \o tempLogs
    /\ unflushed' = [unflushed EXCEPT ![m_pFile] = @ \cup Lines(tempLogs)]
    /\ tempLogs' = <<>>
    /\ writer' = "check"
    /\ UNCHANGED <<m_startup, m_pFile, m_logQue, configVars, m_lastRotateLogTime, mainVars,
                   logger, pushed, dropped>>

\* The log could not be reopened: the batch is cleared, its memory leaked, and _Check,
\* which could reopen the log, is not called again.
WriterDrops ==
    /\ writer = "write" /\ m_pFile = NULL
    /\ dropped' = dropped \cup Lines(tempLogs)
    /\ tempLogs' = <<>>
    /\ writer' = "top"
    /\ UNCHANGED <<m_startup, m_pFile, m_logQue, configVars, m_lastRotateLogTime, mainVars,
                   logger, pushed, out, unflushed>>

\* A slip: the file is closed and not opened again.
ReopenedNot == {"closed"}

\* _LogRotate: fopen of the log anew, whether or not the rename succeeded.
Reopened == {"file", NULL}

FlushDue == IF m_delay THEN BOOLEAN ELSE {TRUE}

\* The first look at the clock only remembers it.
RotateDue == IF m_rotateCycle /\ m_lastRotateLogTime THEN BOOLEAN ELSE {FALSE}

\* A slip: a delay never passes.
CheckDueNever(flush, rotate) == flush = ~m_delay /\ rotate \in RotateDue

CheckDue(flush, rotate) == flush \in FlushDue /\ rotate \in RotateDue

\* _Check.
Check(flush, rotate) ==
    /\ writer = "check"
    /\ CheckDue(flush, rotate)
    /\ unflushed' = IF flush \/ (rotate /\ m_pFile = "file")
                    THEN [unflushed EXCEPT ![m_pFile] = {}]
                    ELSE unflushed
    /\ m_pFile' \in IF rotate /\ m_pFile = "file" THEN Reopened ELSE {m_pFile}
    /\ m_lastRotateLogTime' = (m_rotateCycle \/ m_lastRotateLogTime)
    /\ writer' = "top"
    /\ UNCHANGED <<m_startup, m_logQue, configVars, tempLogs, mainVars, logger, pushed,
                   out, dropped>>

-----------------------------------------------------------------------------
(* Startup and Shutdown.                                                   *)

\* Shutdown, called by the program or, if the logger is up, by Startup: from here the
\* writer may stop.  It is not notified, only joined.
ShutdownBegins(byStartup) ==
    /\ main = "idle"
    /\ m_startup
    /\ m_startup' = FALSE
    /\ atShutdown' = pushed
    /\ main' = "join"
    /\ restart' = byStartup
    /\ UNCHANGED <<m_pFile, m_logQue, configVars, m_lastRotateLogTime, tempLogs, writer,
                   logger, pushed, fileVars>>

\* A slip: the thread is not joined.
JoinedNot == writer' = writer

\* join() returns: the thread has ended and is joinable no more.
Joined == writer = "done" /\ writer' = "none"

\* join() returned: fflush and fclose of the file; stdout is left as it is.
ShutdownEnds ==
    /\ main = "join" /\ Joined /\ m_pFile # NULL
    /\ unflushed' = [unflushed EXCEPT !["file"] = {}]
    /\ m_pFile' = NULL
    /\ main' = IF restart THEN "open" ELSE "idle"
    /\ UNCHANGED <<m_startup, m_logQue, configVars, m_lastRotateLogTime, tempLogs, restart,
                   atShutdown, logger, pushed, out, dropped>>

\* The log could not be reopened: fclose(NULL).
ShutdownCrashes ==
    /\ main = "join" /\ Joined /\ m_pFile = NULL
    /\ main' = "crashed"
    /\ UNCHANGED <<m_startup, m_pFile, m_logQue, configVars, m_lastRotateLogTime, tempLogs,
                   restart, atShutdown, logger, pushed, fileVars>>

StartupMayOpen == main = "open" \/ (main = "idle" /\ ~m_startup)

\* The log is open, the writer runs.
StartupSucceeds(stream, delay, rotateCycle) ==
    /\ StartupMayOpen
    /\ m_pFile' = stream
    /\ m_delay' = delay /\ m_rotateCycle' = rotateCycle
    /\ m_startup' = TRUE
    /\ writer' = "top"
    /\ main' = "idle"
    /\ UNCHANGED <<m_logQue, m_lastRotateLogTime, tempLogs, restart, atShutdown, logger,
                   pushed, fileVars>>

\* fopen failed: false is returned, and lines wait in the queue for a later Startup.
StartupFails ==
    /\ StartupMayOpen
    /\ m_pFile' = NULL
    /\ main' = "idle"
    /\ UNCHANGED <<m_startup, m_logQue, configVars, m_lastRotateLogTime, tempLogs, writer,
                   restart, atShutdown, logger, pushed, fileVars>>

-----------------------------------------------------------------------------
WriterStep ==
    \/ WriterBreaks \/ WriterWaits \/ WriterTimesOut \/ WriterDrains
    \/ WriterWrites \/ WriterDrops
    \/ \E flush, rotate \in BOOLEAN : Check(flush, rotate)

Next ==
    \/ main # "crashed" /\ WriterStep
    \/ \E t \in Threads : main # "crashed" /\ (AppendLogQueue(t) \/ NotifyAll(t))
    \/ \E byStartup \in BOOLEAN : ShutdownBegins(byStartup)
    \/ ShutdownEnds \/ ShutdownCrashes
    \/ \E stream \in Streams, delay, rotateCycle \in BOOLEAN :
            StartupSucceeds(stream, delay, rotateCycle)
    \/ StartupFails

SafeSpec == Init /\ [][Next]_vars

\* The writer and a Shutdown under way go on; a wait ends after a second at the latest;
\* and the writer looks at the clock at least once a second, so a delay has passed
\* sooner or later when it looks.
Spec ==
    /\ SafeSpec
    /\ WF_vars(main # "crashed" /\ WriterStep)
    /\ WF_vars(ShutdownEnds \/ ShutdownCrashes)
    /\ SF_vars(\E rotate \in BOOLEAN : main # "crashed" /\ Check(TRUE, rotate))

-----------------------------------------------------------------------------
(* Properties.                                                             *)

Increasing(s) == \A i, j \in 1 .. Len(s) : i < j => s[i] < s[j]
Before(s, t) == \A i \in 1 .. Len(s), j \in 1 .. Len(t) : s[i] < t[j]
Handled == Lines(out) \cup dropped

\* The line of every log call is written, being written, or still queued, in the order
\* the lines were pushed and none twice, across restarts and rotations; or it was
\* dropped because the log could not be reopened.
LinesKept ==
    /\ Increasing(out) /\ Increasing(tempLogs) /\ Increasing(m_logQue)
    /\ Before(out, tempLogs) /\ Before(tempLogs, m_logQue) /\ Before(out, m_logQue)
    /\ Handled \cup Lines(tempLogs) \cup Lines(m_logQue) = 1 .. pushed
    /\ dropped \cap (Lines(out) \cup Lines(tempLogs) \cup Lines(m_logQue)) = {}

\* m_pFile, which no lock protects, is opened and closed only while no writer uses it.
FileNotTakenFromWriter ==
    /\ main = "open" => writer = "none"
    /\ main = "idle" /\ ~m_startup => writer = "none"
    /\ main = "idle" /\ m_startup => writer \in Running
    /\ writer \in Running /\ m_pFile = NULL => m_lastRotateLogTime

\* When Shutdown has joined the writer, every line pushed before Shutdown was called has
\* been handed to the file (or dropped after a failed reopen).
ShutdownDrains ==
    main = "join" /\ writer = "done" => 1 .. atShutdown \subseteq Handled

\* What makes the invariants above inductive: the batch is empty outside a write, the
\* phases of the two threads fit, and after the writer's end only new lines are queued.
FrameSound ==
    /\ writer # "write" => tempLogs = <<>>
    /\ writer = "check" => m_pFile # NULL
    /\ main = "join" => ~m_startup /\ writer # "none"
    /\ main = "open" => ~m_startup
    /\ writer = "done" => main = "join"
    /\ atShutdown <= pushed
    /\ writer = "done" => \A x \in Lines(m_logQue) : x > atShutdown

IInv == TypeOK /\ LinesKept /\ FileNotTakenFromWriter /\ ShutdownDrains /\ FrameSound

\* Every line pushed while the writer runs is written, though Shutdown may come at any time.
EveryLineIsWritten ==
    \A i \in 1 .. MaxLines :
        (pushed >= i /\ writer \in Running) ~> (i \in Handled)

\* simple_log.h:25, the flush interval: a line in the buffer of the file gets to the disk.
EveryLineIsFlushed ==
    \A i \in 1 .. MaxLines : (i \in unflushed["file"]) ~> (i \notin unflushed["file"])

\* Shutdown does not notify the writer, and yet its join() returns, once the threads
\* pause (here after MaxLines lines): the writer stops only when it finds the queue empty.
ShutdownReturns == (main = "join") ~> (main # "join")
=============================================================================
