-------------------------- MODULE SimpleLogProofs --------------------------
(***************************************************************************)
(* For any threads and any number of lines: the logger keeps every line,   *)
(* once and in order, across restarts and rotations; no file is closed     *)
(* under the writer; and a Shutdown leaves no earlier line behind, and     *)
(* waits for a writer that has only so many steps left.                    *)
(***************************************************************************)
EXTENDS SimpleLog, SequenceTheorems, TLAPS

-----------------------------------------------------------------------------
(* Sequences of lines.                                                     *)

LEMMA EmptyFacts ==
    ASSUME NEW s \in Seq(Nat)
    PROVE  /\ <<>> \in Seq(Nat) /\ Lines(<<>>) = {} /\ Increasing(<<>>)
           /\ Before(<<>>, s) /\ Before(s, <<>>)
BY DEF Lines, Increasing, Before

LEMMA LinesAppend ==
    ASSUME NEW s \in Seq(Nat), NEW x \in Nat
    PROVE  Lines(Append(s, x)) = Lines(s) \cup {x}
<1> DEFINE l == Append(s, x)
<1>1. /\ Len(s) \in Nat /\ Len(l) = Len(s) + 1 /\ l[Len(l)] = x
      /\ \A i \in 1 .. Len(s) : l[i] = s[i]
  BY AppendProperties
<1> HIDE DEF l
<1>2. ASSUME NEW y \in Lines(l) PROVE y \in Lines(s) \cup {x}
  <2>1. PICK i \in 1 .. Len(l) : y = l[i]
    BY DEF Lines
  <2>2. CASE i = Len(l)
    BY <1>1, <2>1, <2>2
  <2>3. CASE i # Len(l)
    <3>1. i \in 1 .. Len(s) /\ y = s[i]
      BY <1>1, <2>1, <2>3
    <3>2. QED
      BY <3>1 DEF Lines
  <2>4. QED
    BY <2>2, <2>3
<1>3. x \in Lines(l)
  <2>1. Len(l) \in 1 .. Len(l)
    BY <1>1
  <2>2. QED
    BY <1>1, <2>1 DEF Lines
<1>4. ASSUME NEW y \in Lines(s) PROVE y \in Lines(l)
  <2>1. PICK i \in 1 .. Len(s) : y = s[i]
    BY DEF Lines
  <2>2. i \in 1 .. Len(l) /\ y = l[i]
    BY <1>1, <2>1
  <2>3. QED
    BY <2>2 DEF Lines
<1>5. QED
  BY <1>2, <1>3, <1>4 DEF l

LEMMA LinesConcat ==
    ASSUME NEW s \in Seq(Nat), NEW t \in Seq(Nat)
    PROVE  Lines(s \o t) = Lines(s) \cup Lines(t)
<1> DEFINE l == s \o t
<1>1. /\ Len(s) \in Nat /\ Len(t) \in Nat /\ Len(l) = Len(s) + Len(t)
      /\ \A i \in 1 .. Len(s) + Len(t) : l[i] = IF i <= Len(s) THEN s[i] ELSE t[i - Len(s)]
  BY ConcatProperties
<1> HIDE DEF l
<1>2. ASSUME NEW y \in Lines(l) PROVE y \in Lines(s) \cup Lines(t)
  <2>1. PICK i \in 1 .. Len(l) : y = l[i]
    BY DEF Lines
  <2>2. CASE i <= Len(s)
    <3>1. i \in 1 .. Len(s) /\ y = s[i]
      BY <1>1, <2>1, <2>2
    <3>2. QED
      BY <3>1 DEF Lines
  <2>3. CASE ~(i <= Len(s))
    <3>1. i - Len(s) \in 1 .. Len(t) /\ y = t[i - Len(s)]
      BY <1>1, <2>1, <2>3
    <3>2. QED
      BY <3>1 DEF Lines
  <2>4. QED
    BY <2>2, <2>3
<1>3. ASSUME NEW y \in Lines(s) PROVE y \in Lines(l)
  <2>1. PICK i \in 1 .. Len(s) : y = s[i]
    BY DEF Lines
  <2>2. i \in 1 .. Len(l) /\ y = l[i]
    BY <1>1, <2>1
  <2>3. QED
    BY <2>2 DEF Lines
<1>4. ASSUME NEW y \in Lines(t) PROVE y \in Lines(l)
  <2>1. PICK i \in 1 .. Len(t) : y = t[i]
    BY DEF Lines
  <2>2. i + Len(s) \in 1 .. Len(l) /\ ~(i + Len(s) <= Len(s)) /\ (i + Len(s)) - Len(s) = i
    BY <1>1, <2>1
  <2>3. y = l[i + Len(s)]
    BY <1>1, <2>1, <2>2
  <2>4. QED
    BY <2>2, <2>3 DEF Lines
<1>5. QED
  BY <1>2, <1>3, <1>4 DEF l

\* A line with a higher number than all before it keeps the order.
LEMMA IncreasingAppend ==
    ASSUME NEW s \in Seq(Nat), NEW x \in Nat, Increasing(s), \A y \in Lines(s) : y < x
    PROVE  Increasing(Append(s, x))
<1> DEFINE l == Append(s, x)
<1>1. /\ Len(s) \in Nat /\ Len(l) = Len(s) + 1 /\ l[Len(s) + 1] = x
      /\ \A i \in 1 .. Len(s) : l[i] = s[i] /\ s[i] < x
  BY AppendProperties DEF Lines
<1> HIDE DEF l
<1>2. SUFFICES ASSUME NEW i \in 1 .. Len(l), NEW j \in 1 .. Len(l), i < j
               PROVE  l[i] < l[j]
  BY DEF Increasing, l
<1>3. i \in 1 .. Len(s)
  BY <1>1, <1>2
<1>4. CASE j \in 1 .. Len(s)
  BY <1>1, <1>2, <1>3, <1>4 DEF Increasing
<1>5. CASE j = Len(s) + 1
  BY <1>1, <1>3, <1>5
<1>6. QED
  BY <1>1, <1>4, <1>5

LEMMA BeforeAppend ==
    ASSUME NEW r \in Seq(Nat), NEW s \in Seq(Nat), NEW x \in Nat,
           Before(r, s), \A y \in Lines(r) : y < x
    PROVE  Before(r, Append(s, x))
<1> DEFINE l == Append(s, x)
<1>1. /\ Len(s) \in Nat /\ Len(l) = Len(s) + 1 /\ l[Len(s) + 1] = x
      /\ \A i \in 1 .. Len(s) : l[i] = s[i]
  BY AppendProperties
<1> HIDE DEF l
<1>2. SUFFICES ASSUME NEW i \in 1 .. Len(r), NEW j \in 1 .. Len(l)
               PROVE  r[i] < l[j]
  BY DEF Before, l
<1>3. CASE j \in 1 .. Len(s)
  BY <1>1, <1>2, <1>3 DEF Before
<1>4. CASE j = Len(s) + 1
  BY <1>1, <1>2, <1>4 DEF Lines
<1>5. QED
  BY <1>1, <1>3, <1>4

\* Two runs of lines, the first before the second, make one.
LEMMA IncreasingConcat ==
    ASSUME NEW s \in Seq(Nat), NEW t \in Seq(Nat),
           Increasing(s), Increasing(t), Before(s, t)
    PROVE  Increasing(s \o t)
<1> DEFINE l == s \o t
<1>1. /\ Len(s) \in Nat /\ Len(t) \in Nat /\ Len(l) = Len(s) + Len(t)
      /\ \A i \in 1 .. Len(s) + Len(t) : l[i] = IF i <= Len(s) THEN s[i] ELSE t[i - Len(s)]
  BY ConcatProperties
<1> HIDE DEF l
<1>2. SUFFICES ASSUME NEW i \in 1 .. Len(l), NEW j \in 1 .. Len(l), i < j
               PROVE  l[i] < l[j]
  BY DEF Increasing, l
<1>3. CASE j <= Len(s)
  <2>1. i \in 1 .. Len(s) /\ j \in 1 .. Len(s)
    BY <1>1, <1>2, <1>3
  <2>2. l[i] = s[i] /\ l[j] = s[j]
    BY <1>1, <2>1
  <2>3. QED
    BY <1>2, <2>1, <2>2 DEF Increasing
<1>4. CASE i <= Len(s) /\ ~(j <= Len(s))
  <2>1. i \in 1 .. Len(s) /\ j - Len(s) \in 1 .. Len(t)
    BY <1>1, <1>4
  <2>2. l[i] = s[i] /\ l[j] = t[j - Len(s)]
    BY <1>1, <1>4
  <2>3. QED
    BY <2>1, <2>2 DEF Before
<1>5. CASE ~(i <= Len(s)) /\ ~(j <= Len(s))
  <2>1. i - Len(s) \in 1 .. Len(t) /\ j - Len(s) \in 1 .. Len(t) /\ i - Len(s) < j - Len(s)
    BY <1>1, <1>2, <1>5
  <2>2. l[i] = t[i - Len(s)] /\ l[j] = t[j - Len(s)]
    BY <1>1, <1>5
  <2>3. QED
    BY <2>1, <2>2 DEF Increasing
<1>6. QED
  BY <1>1, <1>2, <1>3, <1>4, <1>5

LEMMA BeforeConcat ==
    ASSUME NEW s \in Seq(Nat), NEW t \in Seq(Nat), NEW u \in Seq(Nat),
           Before(s, u), Before(t, u)
    PROVE  Before(s \o t, u)
<1> DEFINE l == s \o t
<1>1. /\ Len(s) \in Nat /\ Len(t) \in Nat /\ Len(l) = Len(s) + Len(t)
      /\ \A i \in 1 .. Len(s) + Len(t) : l[i] = IF i <= Len(s) THEN s[i] ELSE t[i - Len(s)]
  BY ConcatProperties
<1> HIDE DEF l
<1>2. SUFFICES ASSUME NEW i \in 1 .. Len(l), NEW j \in 1 .. Len(u)
               PROVE  l[i] < u[j]
  BY DEF Before, l
<1>3. CASE i <= Len(s)
  <2>1. i \in 1 .. Len(s) /\ l[i] = s[i]
    BY <1>1, <1>3
  <2>2. QED
    BY <2>1 DEF Before
<1>4. CASE ~(i <= Len(s))
  <2>1. i - Len(s) \in 1 .. Len(t) /\ l[i] = t[i - Len(s)]
    BY <1>1, <1>4
  <2>2. QED
    BY <2>1 DEF Before
<1>5. QED
  BY <1>3, <1>4

-----------------------------------------------------------------------------
(* The invariant.                                                          *)

LEMMA InitIInv == Init => IInv
<1> SUFFICES ASSUME Init PROVE IInv
  OBVIOUS
<1>1. TypeOK
  <2>1. <<>> \in Seq(Nat)
    OBVIOUS
  <2>2. [s \in Streams |-> {}] \in [Streams -> SUBSET Nat]
    OBVIOUS
  <2>3. [t \in Threads |-> "idle"] \in [Threads -> {"idle", "notify"}]
    OBVIOUS
  <2>4. QED
    BY <2>1, <2>2, <2>3 DEF Init, TypeOK
<1>2. LinesKept
  <2>1. /\ Lines(<<>>) = {} /\ Increasing(<<>>) /\ Before(<<>>, <<>>)
    BY DEF Lines, Increasing, Before
  <2>2. 1 .. 0 = {}
    OBVIOUS
  <2>3. QED
    BY <2>1, <2>2 DEF Init, LinesKept, Handled
<1>3. FileNotTakenFromWriter /\ ShutdownDrains /\ FrameSound
  BY DEF Init, FileNotTakenFromWriter, ShutdownDrains, FrameSound, Running
<1>4. QED
  BY <1>1, <1>2, <1>3 DEF IInv

\* A line that was handled, is in hand or is queued was pushed.
LEMMA LinesArePushed ==
    ASSUME TypeOK, LinesKept
    PROVE  /\ \A x \in Lines(out) \cup Lines(tempLogs) \cup Lines(m_logQue) \cup dropped :
                  x \in Nat /\ x < pushed + 1
           /\ pushed \in Nat
<1>1. pushed \in Nat
  BY DEF TypeOK
<1>2. \A x \in 1 .. pushed : x \in Nat /\ x < pushed + 1
  BY <1>1
<1>3. QED
  BY <1>1, <1>2 DEF LinesKept, Handled

\* A line is pushed.
LEMMA AppendKeepsLines ==
    ASSUME TypeOK, LinesKept,
           m_logQue' = Append(m_logQue, pushed + 1), pushed' = pushed + 1,
           UNCHANGED <<out, tempLogs, dropped>>
    PROVE  LinesKept' /\ m_logQue' \in Seq(Nat)
<1>0. /\ out \in Seq(Nat) /\ tempLogs \in Seq(Nat) /\ m_logQue \in Seq(Nat)
      /\ pushed \in Nat /\ pushed + 1 \in Nat
  BY DEF TypeOK
<1>1. \A x \in Lines(out) \cup Lines(tempLogs) \cup Lines(m_logQue) \cup dropped : x < pushed + 1
  BY LinesArePushed
<1>2. Lines(m_logQue') = Lines(m_logQue) \cup {pushed + 1}
  BY <1>0, LinesAppend
<1>3. Increasing(m_logQue')
  BY <1>0, <1>1, IncreasingAppend DEF LinesKept
<1>4. Before(tempLogs', m_logQue')
  BY <1>0, <1>1, BeforeAppend DEF LinesKept
<1>5. Before(out', m_logQue')
  BY <1>0, <1>1, BeforeAppend DEF LinesKept
<1>6. 1 .. pushed + 1 = (1 .. pushed) \cup {pushed + 1}
  BY <1>0
<1>7. pushed + 1 \notin dropped
  BY <1>0, <1>1
<1>8. /\ (Handled \cup Lines(tempLogs) \cup Lines(m_logQue) = 1 .. pushed)'
      /\ (dropped \cap (Lines(out) \cup Lines(tempLogs) \cup Lines(m_logQue)) = {})'
  <2>1. /\ Handled \cup Lines(tempLogs) \cup Lines(m_logQue) = 1 .. pushed
        /\ dropped \cap (Lines(out) \cup Lines(tempLogs) \cup Lines(m_logQue)) = {}
    BY DEF LinesKept
  <2>2. Handled' = Handled /\ Lines(tempLogs)' = Lines(tempLogs) /\ Lines(out)' = Lines(out)
    BY DEF Handled, Lines
  <2>3. Lines(m_logQue)' = Lines(m_logQue')
    BY DEF Lines
  <2>4. QED
    BY <1>2, <1>6, <1>7, <2>1, <2>2, <2>3
<1>9. Increasing(out)' /\ Increasing(tempLogs)' /\ Before(out, tempLogs)'
  BY DEF LinesKept, Increasing, Before
<1>10. Increasing(m_logQue)' /\ Before(tempLogs, m_logQue)' /\ Before(out, m_logQue)'
  BY <1>3, <1>4, <1>5 DEF Increasing, Before
<1>11. m_logQue' \in Seq(Nat)
  BY <1>0, AppendProperties
<1>12. QED
  BY <1>8, <1>9, <1>10, <1>11 DEF LinesKept

\* The queue becomes the batch.
LEMMA DrainKeepsLines ==
    ASSUME TypeOK, LinesKept, tempLogs = <<>>,
           tempLogs' = m_logQue, m_logQue' = <<>>,
           UNCHANGED <<out, dropped, pushed>>
    PROVE  LinesKept'
<1>0. out \in Seq(Nat) /\ m_logQue \in Seq(Nat)
  BY DEF TypeOK
<1>1. /\ Lines(tempLogs) = {} /\ Lines(m_logQue)' = {} /\ Increasing(m_logQue)'
      /\ Before(tempLogs, m_logQue)' /\ Before(out, m_logQue)'
  BY <1>0, EmptyFacts DEF Lines, Increasing, Before
<1>2. /\ Lines(tempLogs)' = Lines(m_logQue) /\ Lines(out)' = Lines(out) /\ Handled' = Handled
      /\ Increasing(tempLogs)' /\ Before(out, tempLogs)' /\ Increasing(out)'
  BY DEF LinesKept, Lines, Increasing, Before, Handled
<1>3. QED
  BY <1>1, <1>2 DEF LinesKept

\* The batch is written.
LEMMA WriteKeepsLines ==
    ASSUME TypeOK, LinesKept,
           out' = out \o tempLogs, tempLogs' = <<>>,
           UNCHANGED <<m_logQue, dropped, pushed>>
    PROVE  LinesKept' /\ Handled' = Handled \cup Lines(tempLogs) /\ out' \in Seq(Nat)
<1>0. out \in Seq(Nat) /\ tempLogs \in Seq(Nat) /\ m_logQue \in Seq(Nat)
  BY DEF TypeOK
<1>1. Lines(out') = Lines(out) \cup Lines(tempLogs)
  BY <1>0, LinesConcat
<1>2. Increasing(out')
  BY <1>0, IncreasingConcat DEF LinesKept
<1>3. Before(out', m_logQue)
  BY <1>0, BeforeConcat DEF LinesKept
<1>4. out' \in Seq(Nat)
  BY <1>0, ConcatProperties
<1>5. /\ Lines(tempLogs)' = {} /\ Increasing(tempLogs)'
      /\ Before(out, tempLogs)' /\ Before(tempLogs, m_logQue)'
  BY <1>0, <1>4, EmptyFacts DEF Lines, Increasing, Before
<1>6. /\ Lines(out)' = Lines(out) \cup Lines(tempLogs) /\ Lines(m_logQue)' = Lines(m_logQue)
      /\ Handled' = Handled \cup Lines(tempLogs)
      /\ Increasing(out)' /\ Before(out, m_logQue)' /\ Increasing(m_logQue)'
  BY <1>1, <1>2, <1>3 DEF LinesKept, Lines, Increasing, Before, Handled
<1>7. QED
  BY <1>4, <1>5, <1>6 DEF LinesKept

\* The batch is dropped.
LEMMA DropKeepsLines ==
    ASSUME TypeOK, LinesKept,
           dropped' = dropped \cup Lines(tempLogs), tempLogs' = <<>>,
           UNCHANGED <<m_logQue, out, pushed>>
    PROVE  LinesKept' /\ Handled' = Handled \cup Lines(tempLogs) /\ dropped' \subseteq Nat
<1>0. out \in Seq(Nat) /\ tempLogs \in Seq(Nat) /\ m_logQue \in Seq(Nat) /\ dropped \subseteq Nat
  BY DEF TypeOK
<1>1. /\ Lines(tempLogs)' = {} /\ Increasing(tempLogs)'
      /\ Before(out, tempLogs)' /\ Before(tempLogs, m_logQue)'
  BY <1>0, EmptyFacts DEF Lines, Increasing, Before
<1>2. /\ Lines(out)' = Lines(out) /\ Lines(m_logQue)' = Lines(m_logQue)
      /\ Handled' = Handled \cup Lines(tempLogs)
      /\ Increasing(out)' /\ Before(out, m_logQue)' /\ Increasing(m_logQue)'
  BY DEF LinesKept, Lines, Increasing, Before, Handled
<1>3. Lines(tempLogs) \cap Lines(out) = {} /\ Lines(tempLogs) \cap Lines(m_logQue) = {}
  <2>1. ASSUME NEW x \in Lines(tempLogs), x \in Lines(out)
        PROVE  FALSE
    <3>1. PICK i \in 1 .. Len(tempLogs), j \in 1 .. Len(out) : x = tempLogs[i] /\ x = out[j]
      BY <2>1 DEF Lines
    <3>2. out[j] < tempLogs[i]
      BY <3>1 DEF LinesKept, Before
    <3>3. x \in Nat
      BY <1>0, <3>1
    <3>4. QED
      BY <3>1, <3>2, <3>3
  <2>2. ASSUME NEW x \in Lines(tempLogs), x \in Lines(m_logQue)
        PROVE  FALSE
    <3>1. PICK i \in 1 .. Len(tempLogs), j \in 1 .. Len(m_logQue) :
            x = tempLogs[i] /\ x = m_logQue[j]
      BY <2>2 DEF Lines
    <3>2. tempLogs[i] < m_logQue[j]
      BY <3>1 DEF LinesKept, Before
    <3>3. x \in Nat
      BY <1>0, <3>1
    <3>4. QED
      BY <3>1, <3>2, <3>3
  <2>3. QED
    BY <2>1, <2>2
<1>4. dropped' \subseteq Nat
  BY <1>0, ElementOfSeq DEF Lines
<1>5. QED
  BY <1>1, <1>2, <1>3, <1>4 DEF LinesKept

\* No line moves.
LEMMA StillKeepsLines ==
    ASSUME LinesKept, UNCHANGED <<out, tempLogs, m_logQue, dropped, pushed>>
    PROVE  LinesKept' /\ Handled' = Handled /\ Lines(m_logQue)' = Lines(m_logQue)
BY DEF LinesKept, Lines, Increasing, Before, Handled

\* Everything in the invariant but the lines.
LEMMA NextShape ==
    ASSUME IInv, [Next]_vars
    PROVE  /\ FileNotTakenFromWriter'
           /\ writer' # "write" => tempLogs' = <<>>
           /\ writer' = "check" => m_pFile' # NULL
           /\ main' = "join" => ~m_startup' /\ writer' # "none"
           /\ main' = "open" => ~m_startup'
           /\ writer' = "done" => main' = "join"
           /\ m_startup' \in BOOLEAN /\ m_pFile' \in Streams \cup {NULL}
           /\ m_delay' \in BOOLEAN /\ m_rotateCycle' \in BOOLEAN
           /\ m_lastRotateLogTime' \in BOOLEAN
           /\ writer' \in Running \cup {"none", "done"}
           /\ main' \in {"idle", "join", "open", "crashed"}
           /\ restart' \in BOOLEAN
<1> USE DEF IInv, TypeOK, FileNotTakenFromWriter, FrameSound, Running, Streams, NULL,
            mainVars, configVars, fileVars
<1>1. CASE \E t \in Threads : AppendLogQueue(t)
  BY <1>1 DEF AppendLogQueue
<1>2. CASE \E t \in Threads : NotifyAll(t)
  BY <1>2 DEF NotifyAll
<1>3. CASE main # "crashed" /\ WriterBreaks
  BY <1>3 DEF WriterBreaks
<1>4. CASE WriterWaits
  BY <1>4 DEF WriterWaits
<1>5. CASE WriterTimesOut
  BY <1>5 DEF WriterTimesOut
<1>6. CASE WriterDrains
  BY <1>6 DEF WriterDrains
<1>7. CASE WriterWrites
  BY <1>7 DEF WriterWrites
<1>8. CASE WriterDrops
  BY <1>8 DEF WriterDrops
<1>9. ASSUME NEW flush \in BOOLEAN, NEW rotate \in BOOLEAN, Check(flush, rotate)
      PROVE  /\ m_pFile' \in {m_pFile, "file", NULL} /\ (m_pFile' # m_pFile => m_lastRotateLogTime)
             /\ writer = "check" /\ writer' = "top"
             /\ m_lastRotateLogTime' = (m_rotateCycle \/ m_lastRotateLogTime)
             /\ UNCHANGED <<m_startup, m_logQue, configVars, tempLogs, mainVars>>
  BY <1>9 DEF Check, CheckDue, RotateDue, Reopened
<1>10. CASE \E flush, rotate \in BOOLEAN : Check(flush, rotate)
  <2>1. /\ m_pFile' \in {m_pFile, "file", NULL} /\ (m_pFile' # m_pFile => m_lastRotateLogTime)
        /\ writer = "check" /\ writer' = "top"
        /\ m_lastRotateLogTime' = (m_rotateCycle \/ m_lastRotateLogTime)
        /\ UNCHANGED <<m_startup, m_logQue, configVars, tempLogs, mainVars>>
    BY <1>9, <1>10
  <2>2. QED
    BY <2>1
<1>11. CASE \E byStartup \in BOOLEAN : ShutdownBegins(byStartup)
  <2>1. /\ main = "idle" /\ m_startup /\ m_startup' = FALSE /\ main' = "join" /\ restart' \in BOOLEAN
        /\ UNCHANGED <<m_pFile, m_logQue, configVars, m_lastRotateLogTime, tempLogs, writer>>
    BY <1>11 DEF ShutdownBegins
  <2>2. QED
    BY <2>1
<1>12. CASE ShutdownEnds
  BY <1>12 DEF ShutdownEnds, Joined
<1>13. CASE ShutdownCrashes
  BY <1>13 DEF ShutdownCrashes, Joined
<1>14. CASE \E stream \in Streams, delay, rotateCycle \in BOOLEAN :
                StartupSucceeds(stream, delay, rotateCycle)
  BY <1>14 DEF StartupSucceeds, StartupMayOpen
<1>15. CASE StartupFails
  BY <1>15 DEF StartupFails, StartupMayOpen
<1>16. CASE UNCHANGED vars
  BY <1>16 DEF vars
<1>17. QED
  BY <1>1, <1>2, <1>3, <1>4, <1>5, <1>6, <1>7, <1>8, <1>10, <1>11, <1>12, <1>13, <1>14, <1>15,
     <1>16
  DEF Next, WriterStep

\* The lines, and the rest of the types.
LEMMA NextLines ==
    ASSUME IInv, [Next]_vars
    PROVE  /\ LinesKept'
           /\ m_logQue' \in Seq(Nat) /\ tempLogs' \in Seq(Nat) /\ out' \in Seq(Nat)
           /\ pushed' \in Nat /\ atShutdown' \in Nat /\ atShutdown' <= pushed'
           /\ dropped' \subseteq Nat
           /\ writer' = "done" => \A x \in Lines(m_logQue)' : x > atShutdown'
<1>0. /\ TypeOK /\ LinesKept /\ out \in Seq(Nat) /\ tempLogs \in Seq(Nat) /\ m_logQue \in Seq(Nat)
      /\ pushed \in Nat /\ atShutdown \in Nat /\ atShutdown <= pushed /\ dropped \subseteq Nat
      /\ <<>> \in Seq(Nat)
      /\ (writer # "write" => tempLogs = <<>>)
      /\ (writer = "done" => \A x \in Lines(m_logQue) : x > atShutdown)
  BY DEF IInv, TypeOK, FrameSound
<1>1. CASE \E t \in Threads : AppendLogQueue(t)
  <2>1. /\ m_logQue' = Append(m_logQue, pushed + 1) /\ pushed' = pushed + 1
        /\ UNCHANGED <<out, tempLogs, dropped, atShutdown, writer>>
    BY <1>1 DEF AppendLogQueue, fileVars, mainVars
  <2>2. LinesKept' /\ m_logQue' \in Seq(Nat)
    BY <1>0, <2>1, AppendKeepsLines
  <2>3. Lines(m_logQue)' = Lines(m_logQue) \cup {pushed + 1}
    <3>1. Lines(m_logQue') = Lines(m_logQue) \cup {pushed + 1}
      BY <1>0, <2>1, LinesAppend
    <3>2. QED
      BY <3>1 DEF Lines
  <2>4. pushed + 1 > atShutdown
    BY <1>0
  <2>5. pushed' \in Nat /\ atShutdown' \in Nat /\ atShutdown' <= pushed'
    BY <1>0, <2>1
  <2>6. writer' = "done" => \A x \in Lines(m_logQue)' : x > atShutdown'
    BY <1>0, <2>1, <2>3, <2>4
  <2>7. QED
    BY <1>0, <2>1, <2>2, <2>5, <2>6
<1>2. CASE WriterDrains
  <2>1. /\ tempLogs = <<>> /\ tempLogs' = m_logQue /\ m_logQue' = <<>> /\ writer' = "write"
        /\ UNCHANGED <<out, dropped, pushed, atShutdown>>
    BY <1>0, <1>2 DEF WriterDrains, QueuePopped, fileVars, mainVars
  <2>2. LinesKept'
    BY <1>0, <2>1, DrainKeepsLines
  <2>3. QED
    BY <1>0, <2>1, <2>2
<1>3. CASE WriterWrites
  <2>1. /\ out' = out \o tempLogs /\ tempLogs' = <<>> /\ writer' = "check"
        /\ UNCHANGED <<m_logQue, dropped, pushed, atShutdown>>
    BY <1>3 DEF WriterWrites, mainVars
  <2>2. LinesKept' /\ out' \in Seq(Nat)
    BY <1>0, <2>1, WriteKeepsLines
  <2>3. QED
    BY <1>0, <2>1, <2>2
<1>4. CASE WriterDrops
  <2>1. /\ dropped' = dropped \cup Lines(tempLogs) /\ tempLogs' = <<>> /\ writer' = "top"
        /\ UNCHANGED <<m_logQue, out, pushed, atShutdown>>
    BY <1>4 DEF WriterDrops, mainVars
  <2>2. LinesKept' /\ dropped' \subseteq Nat
    BY <1>0, <2>1, DropKeepsLines
  <2>3. QED
    BY <1>0, <2>1, <2>2
<1>5. ASSUME UNCHANGED <<out, tempLogs, m_logQue, dropped, pushed>>,
             atShutdown' \in {atShutdown, pushed},
             writer' = "done" => \/ m_logQue = <<>>
                                 \/ writer = "done" /\ atShutdown' = atShutdown
      PROVE  /\ LinesKept'
             /\ m_logQue' \in Seq(Nat) /\ tempLogs' \in Seq(Nat) /\ out' \in Seq(Nat)
             /\ pushed' \in Nat /\ atShutdown' \in Nat /\ atShutdown' <= pushed'
             /\ dropped' \subseteq Nat
             /\ writer' = "done" => \A x \in Lines(m_logQue)' : x > atShutdown'
  <2>1. LinesKept' /\ Lines(m_logQue)' = Lines(m_logQue)
    BY <1>0, <1>5, StillKeepsLines
  <2>2. m_logQue = <<>> => Lines(m_logQue) = {}
    BY <1>0 DEF Lines
  <2>3. writer' = "done" => \A x \in Lines(m_logQue)' : x > atShutdown'
    BY <1>0, <1>5, <2>1, <2>2
  <2>4. QED
    BY <1>0, <1>5, <2>1, <2>3
<1>6. CASE \E t \in Threads : NotifyAll(t)
  <2>1. /\ UNCHANGED <<out, tempLogs, m_logQue, dropped, pushed, atShutdown>>
        /\ writer' = "done" => writer = "done"
    BY <1>6 DEF NotifyAll, fileVars, mainVars
  <2>2. QED
    BY <1>5, <2>1
<1>7. CASE WriterBreaks \/ WriterWaits \/ WriterTimesOut
  <2>1. /\ UNCHANGED <<out, tempLogs, m_logQue, dropped, pushed, atShutdown>>
        /\ writer' = "done" => m_logQue = <<>>
    BY <1>7 DEF WriterBreaks, WriterWaits, WriterTimesOut, fileVars, mainVars
  <2>2. QED
    BY <1>5, <2>1
<1>8. CASE \E flush, rotate \in BOOLEAN : Check(flush, rotate)
  <2>1. /\ UNCHANGED <<out, tempLogs, m_logQue, dropped, pushed, atShutdown>>
        /\ writer' = "top"
    BY <1>8 DEF Check, mainVars
  <2>2. QED
    BY <1>5, <2>1
<1>9. CASE \E byStartup \in BOOLEAN : ShutdownBegins(byStartup)
  <2>1. /\ UNCHANGED <<out, tempLogs, m_logQue, dropped, pushed, writer>>
        /\ atShutdown' = pushed /\ main = "idle"
    BY <1>9 DEF ShutdownBegins, fileVars
  <2>2. writer # "done"
    BY <2>1 DEF IInv, FrameSound
  <2>3. QED
    BY <1>5, <2>1, <2>2
<1>10. CASE ShutdownEnds \/ ShutdownCrashes
  <2>1. /\ UNCHANGED <<out, tempLogs, m_logQue, dropped, pushed, atShutdown>>
        /\ writer' = "done" => writer = "done"
    BY <1>10 DEF ShutdownEnds, ShutdownCrashes, Joined, fileVars
  <2>2. QED
    BY <1>5, <2>1
<1>11. CASE \/ \E stream \in Streams, delay, rotateCycle \in BOOLEAN :
                  StartupSucceeds(stream, delay, rotateCycle)
            \/ StartupFails
  <2>1. /\ UNCHANGED <<out, tempLogs, m_logQue, dropped, pushed, atShutdown>>
        /\ writer' = "done" => writer = "done"
    BY <1>11 DEF StartupSucceeds, StartupFails, fileVars
  <2>2. QED
    BY <1>5, <2>1
<1>12. CASE UNCHANGED vars
  BY <1>5, <1>12 DEF vars
<1>13. QED
  BY <1>1, <1>2, <1>3, <1>4, <1>6, <1>7, <1>8, <1>9, <1>10, <1>11, <1>12 DEF Next, WriterStep

\* The streams' buffers and the logging threads keep their types.
LEMMA NextBuffers ==
    ASSUME IInv, [Next]_vars
    PROVE  unflushed' \in [Streams -> SUBSET Nat] /\ logger' \in [Threads -> {"idle", "notify"}]
<1>0. /\ unflushed \in [Streams -> SUBSET Nat] /\ logger \in [Threads -> {"idle", "notify"}]
      /\ m_pFile \in Streams \cup {NULL} /\ tempLogs \in Seq(Nat) /\ "file" \in Streams
      /\ (writer = "check" => m_pFile # NULL)
  BY DEF IInv, TypeOK, FrameSound, Streams
<1>1. CASE \E t \in Threads : AppendLogQueue(t) \/ NotifyAll(t)
  BY <1>0, <1>1 DEF AppendLogQueue, NotifyAll, fileVars
<1>2. CASE WriterWrites
  <2>1. Lines(tempLogs) \subseteq Nat
    BY <1>0 DEF Lines
  <2>2. QED
    BY <1>0, <1>2, <2>1 DEF WriterWrites
<1>3. CASE \E flush, rotate \in BOOLEAN : Check(flush, rotate)
  BY <1>0, <1>3 DEF Check
<1>4. CASE ShutdownEnds
  BY <1>0, <1>4 DEF ShutdownEnds
<1>5. CASE \/ WriterBreaks \/ WriterWaits \/ WriterTimesOut \/ WriterDrains \/ WriterDrops
           \/ ShutdownCrashes \/ StartupFails \/ UNCHANGED vars
           \/ \E byStartup \in BOOLEAN : ShutdownBegins(byStartup)
           \/ \E stream \in Streams, delay, rotateCycle \in BOOLEAN :
                  StartupSucceeds(stream, delay, rotateCycle)
  BY <1>0, <1>5
  DEF WriterBreaks, WriterWaits, WriterTimesOut, WriterDrains, WriterDrops, ShutdownCrashes,
      StartupFails, vars, ShutdownBegins, StartupSucceeds, fileVars
<1>6. QED
  BY <1>1, <1>2, <1>3, <1>4, <1>5 DEF Next, WriterStep

LEMMA NextIInv == IInv /\ [Next]_vars => IInv'
<1> SUFFICES ASSUME IInv, [Next]_vars
             PROVE  IInv'
  OBVIOUS
<1>1. TypeOK'
  BY NextShape, NextLines, NextBuffers DEF TypeOK
<1>2. FileNotTakenFromWriter' /\ LinesKept' /\ FrameSound'
  BY NextShape, NextLines DEF FrameSound
<1>3. ShutdownDrains'
  <2> SUFFICES ASSUME writer' = "done", NEW x \in 1 .. atShutdown'
               PROVE  x \in Handled'
    BY DEF ShutdownDrains
  <2>1. pushed' \in Nat /\ atShutdown' \in Nat /\ atShutdown' <= pushed'
    BY NextLines
  <2>2. x \in 1 .. pushed'
    BY <2>1
  <2>3. tempLogs' = <<>> /\ \A y \in Lines(m_logQue)' : y > atShutdown'
    BY NextShape, NextLines
  <2>4. Lines(tempLogs)' = {}
    BY <2>3 DEF Lines
  <2>5. x \notin Lines(m_logQue)'
    BY <2>1, <2>3
  <2>6. (Handled \cup Lines(tempLogs) \cup Lines(m_logQue))' = 1 .. pushed'
    BY <1>2 DEF LinesKept
  <2>7. QED
    BY <2>2, <2>4, <2>5, <2>6
<1>4. QED
  BY <1>1, <1>2, <1>3 DEF IInv

\* The inductive invariant holds in every state, for any threads and MaxLines.
THEOREM Invariance == SafeSpec => []IInv
<1>1. QED
  BY InitIInv, NextIInv, PTL DEF SafeSpec

\* _AppendLogQueue and WriteLogThread lose no line, double none and keep their order,
\* whatever Startup, Shutdown and _LogRotate do meanwhile.
THEOREM LinesAreKept == SafeSpec => [](TypeOK /\ LinesKept)
<1>1. IInv => TypeOK /\ LinesKept
  BY DEF IInv
<1>2. QED
  BY <1>1, Invariance, PTL

\* Shutdown's join: the file is closed after the writer has ended, and the writer has
\* ended only when every line pushed before Shutdown is handed over.
THEOREM ShutdownIsSafe == SafeSpec => [](FileNotTakenFromWriter /\ ShutdownDrains)
<1>1. IInv => FileNotTakenFromWriter /\ ShutdownDrains
  BY DEF IInv
<1>2. QED
  BY <1>1, Invariance, PTL

-----------------------------------------------------------------------------
(* Shutdown comes to an end.                                               *)

WriterRank ==
    CASE writer = "waiting" -> 5 [] writer = "woken" -> 4 [] writer = "write" -> 3
      [] writer = "check" -> 2 [] writer = "top" -> 1 [] OTHER -> 0

\* The lines queued, and those that may still come, weigh more than a turn of the loop.
JoinVariant == 4 * (MaxLines - pushed + Len(m_logQue)) + WriterRank

\* While Shutdown waits in join(), each step of the writer brings its end nearer, and no
\* thread that logs puts it off.
WriterNearsItsEnd ==
    main = "join" /\ main' = "join" =>
        /\ JoinVariant' <= JoinVariant
        /\ WriterStep => JoinVariant' < JoinVariant

\* The writer that is joined is in its loop, where m_startup tells it not to wait, or has
\* ended: join() is not called for a thread that was joined before.
WriterMayEnd ==
    main = "join" => ~m_startup /\ writer \in Running \cup {"done"}

PushedWithinBound == pushed <= MaxLines

LEMMA JoinNumbers ==
    ASSUME IInv, PushedWithinBound
    PROVE  /\ pushed \in Nat /\ Len(m_logQue) \in Nat /\ MaxLines - pushed \in Nat
           /\ WriterRank \in 0 .. 5 /\ JoinVariant \in Nat
<1>1. pushed \in Nat /\ Len(m_logQue) \in Nat /\ MaxLines - pushed \in Nat
  BY LogAssumption DEF IInv, TypeOK, PushedWithinBound
<1>2. WriterRank \in 0 .. 5
  BY DEF WriterRank
<1>3. QED
  BY <1>1, <1>2 DEF JoinVariant

LEMMA BoundKept ==
    ASSUME PushedWithinBound, IInv, [Next]_vars
    PROVE  PushedWithinBound'
<1>0. pushed \in Nat /\ pushed <= MaxLines
  BY DEF IInv, TypeOK, PushedWithinBound
<1>1. CASE \E t \in Threads : AppendLogQueue(t)
  BY <1>0, <1>1, LogAssumption DEF AppendLogQueue, PushedWithinBound
<1>2. CASE ~\E t \in Threads : AppendLogQueue(t)
  <2>1. pushed' = pushed
    BY <1>2 DEF Next, WriterStep, NotifyAll, WriterBreaks, WriterWaits, WriterTimesOut, WriterDrains,
                WriterWrites, WriterDrops, Check, ShutdownBegins, ShutdownEnds, ShutdownCrashes,
                StartupSucceeds, StartupFails, vars
  <2>2. QED
    BY <1>0, <2>1 DEF PushedWithinBound
<1>3. QED
  BY <1>1, <1>2

\* The steps that can come between the start of a join() and its end.
LEMMA JoinTurns ==
    ASSUME IInv, PushedWithinBound, [Next]_vars, main = "join", main' = "join"
    PROVE  /\ JoinVariant' <= JoinVariant
           /\ WriterStep => JoinVariant' < JoinVariant
<1>0. /\ pushed \in Nat /\ m_logQue \in Seq(Nat) /\ Len(m_logQue) \in Nat
      /\ MaxLines - pushed \in Nat /\ MaxLines \in Nat /\ ~m_startup
  BY JoinNumbers, LogAssumption DEF IInv, TypeOK, FrameSound
<1>1. CASE WriterStep
  <2>1. CASE WriterBreaks \/ WriterTimesOut \/ WriterWrites \/ WriterDrops
             \/ \E flush, rotate \in BOOLEAN : Check(flush, rotate)
    BY <1>0, <2>1 DEF WriterBreaks, WriterTimesOut, WriterWrites, WriterDrops, Check, JoinVariant,
                      WriterRank
  <2>2. CASE WriterWaits
    BY <1>0, <2>2 DEF WriterWaits
  <2>3. CASE WriterDrains
    <3>1. /\ Len(m_logQue') = 0 /\ pushed' = pushed /\ writer' = "write"
          /\ writer = "woken" \/ (writer = "top" /\ Len(m_logQue) # 0)
      BY <1>0, <2>3 DEF WriterDrains, QueuePopped
    <3>2. QED
      BY <1>0, <3>1 DEF JoinVariant, WriterRank
  <2>4. JoinVariant' < JoinVariant
    BY <1>1, <2>1, <2>2, <2>3 DEF WriterStep
  <2>5. JoinVariant \in Int /\ JoinVariant' \in Int
    <3>1. pushed' \in Nat /\ Len(m_logQue') \in Nat
      BY NextIInv DEF IInv, TypeOK
    <3>2. QED
      BY <1>0, <3>1 DEF JoinVariant, WriterRank
  <2>6. QED
    BY <2>4, <2>5
<1>2. CASE ~WriterStep
  <2>1. CASE \E t \in Threads : AppendLogQueue(t)
    <3>1. /\ m_logQue' = Append(m_logQue, pushed + 1) /\ pushed' = pushed + 1 /\ writer' = writer
      BY <2>1 DEF AppendLogQueue
    <3>2. Len(m_logQue') = Len(m_logQue) + 1
      BY <1>0, <3>1
    <3>3. QED
      BY <1>0, <1>2, <3>1, <3>2 DEF JoinVariant, WriterRank
  <2>2. CASE \E t \in Threads : NotifyAll(t)
    BY <1>0, <1>2, <2>2 DEF NotifyAll, JoinVariant, WriterRank
  <2>3. CASE UNCHANGED vars
    BY <1>0, <1>2, <2>3 DEF vars, JoinVariant, WriterRank
  <2>4. QED
    BY <1>0, <1>2, <2>1, <2>2, <2>3
    DEF Next, ShutdownBegins, ShutdownEnds, ShutdownCrashes, StartupSucceeds, StartupFails,
        StartupMayOpen
<1>3. QED
  BY <1>1, <1>2

\* Shutdown joins the writer without notifying it: the writer, which may be anywhere in its
\* loop and may find new lines in the queue, still has only so many steps to its end, for
\* any set of logging threads, as long as these stop logging at some time (MaxLines).
THEOREM ShutdownComesToAnEnd ==
    SafeSpec => [](JoinVariant \in Nat /\ WriterMayEnd) /\ [][WriterNearsItsEnd]_vars
<1>1. Init => IInv /\ PushedWithinBound
  BY InitIInv, LogAssumption DEF Init, PushedWithinBound
<1>2. IInv /\ PushedWithinBound /\ [Next]_vars => (IInv /\ PushedWithinBound)' /\ WriterNearsItsEnd
  BY NextIInv, BoundKept, JoinTurns DEF WriterNearsItsEnd
<1>3. IInv /\ PushedWithinBound => JoinVariant \in Nat /\ WriterMayEnd
  <2> SUFFICES ASSUME IInv, PushedWithinBound PROVE JoinVariant \in Nat /\ WriterMayEnd
    OBVIOUS
  <2>1. WriterMayEnd
    BY DEF IInv, TypeOK, FrameSound, WriterMayEnd
  <2>2. QED
    BY <2>1, JoinNumbers
<1>4. QED
  BY <1>1, <1>2, <1>3, PTL DEF SafeSpec
=============================================================================
