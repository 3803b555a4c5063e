-------------------------- MODULE TcpSessionProofs --------------------------
(***************************************************************************)
(* For every MaxLen and MaxBytes, and whether or not libswevent fails: the *)
(* bytes of a session reach the socket in order and once, none is dropped  *)
(* while it is open, SetSentClose closes it with nothing left, the loops   *)
(* that write come to an end, and every step is a step of ByteStream.      *)
(***************************************************************************)
EXTENDS TcpSession, SequenceTheorems, TLAPS

-----------------------------------------------------------------------------
(* The list of pending buffers.                                            *)

\* Appending the data given next continues the list up to that data's end.
LEMMA ContinuesAppend ==
    ASSUME NEW todo \in Seq(SendBuf), NEW from \in Nat, NEW to \in Nat, NEW b \in SendBuf,
           Continues(todo, from, to), todo # <<>>,
           b.base = to, b.m_sendOff = 0, b.m_len > 0
    PROVE  Continues(Append(todo, b), from, b.base + b.m_len)
<1> DEFINE l == Append(todo, b)
<1>1. /\ l \in Seq(SendBuf) /\ l # <<>>
      /\ Len(l) = Len(todo) + 1 /\ Len(todo) \in Nat \ {0}
      /\ l[Len(l)] = b /\ \A i \in 1 .. Len(todo) : l[i] = todo[i] /\ l[i] \in SendBuf
  OBVIOUS
<1> HIDE DEF l
<1>2. \A i \in 1 .. Len(l) - 1 : l[i].base + l[i].m_len = l[i + 1].base
  <2> SUFFICES ASSUME NEW i \in 1 .. Len(l) - 1
               PROVE  l[i].base + l[i].m_len = l[i + 1].base
    OBVIOUS
  <2>1. CASE i = Len(todo)
    BY <1>1, <2>1 DEF Continues
  <2>2. CASE i # Len(todo)
    BY <1>1, <2>2 DEF Continues
  <2>3. QED
    BY <2>1, <2>2
<1>3. \A i \in 2 .. Len(l) : l[i].m_sendOff = 0
  BY <1>1 DEF Continues
<1>4. \A i \in 1 .. Len(l) :
        Remaining(l[i]) > 0 /\ l[i].base + l[i].m_len <= b.base + b.m_len
  <2> SUFFICES ASSUME NEW i \in 1 .. Len(l)
               PROVE  Remaining(l[i]) > 0 /\ l[i].base + l[i].m_len <= b.base + b.m_len
    OBVIOUS
  <2>1. CASE i = Len(l)
    BY <1>1, <2>1 DEF Remaining, SendBuf
  <2>2. CASE i # Len(l)
    <3>1. i \in 1 .. Len(todo) /\ l[i] = todo[i] /\ l[i] \in SendBuf
      BY <1>1, <2>2
    <3>2. Remaining(l[i]) > 0 /\ l[i].base + l[i].m_len <= to
      BY <3>1 DEF Continues
    <3>3. QED
      BY <3>1, <3>2 DEF SendBuf
  <2>3. QED
    BY <2>1, <2>2
<1>5. QED
  BY <1>1, <1>2, <1>3, <1>4 DEF Continues, l

\* Writing out the first buffer leaves the rest.
LEMMA ContinuesTail ==
    ASSUME NEW todo \in Seq(SendBuf), NEW from \in Nat, NEW to \in Nat,
           Continues(todo, from, to), todo # <<>>
    PROVE  /\ Tail(todo) \in Seq(SendBuf)
           /\ Continues(Tail(todo), from + Remaining(todo[1]), to)
<1> DEFINE l == Tail(todo)
<1>1. /\ l \in Seq(SendBuf)
      /\ Len(l) = Len(todo) - 1 /\ Len(todo) \in Nat \ {0}
      /\ \A i \in 1 .. Len(l) : l[i] = todo[i + 1]
      /\ \A i \in 1 .. Len(todo) : todo[i] \in SendBuf
      /\ l = <<>> <=> Len(l) = 0
  <2>1. /\ l \in Seq(SendBuf)
        /\ Len(l) = Len(todo) - 1
        /\ \A i \in 1 .. Len(l) : l[i] = todo[i + 1]
    BY HeadTailProperties
  <2>2. l = <<>> <=> Len(l) = 0
    BY <2>1, EmptySeq
  <2>3. \A i \in 1 .. Len(todo) : todo[i] \in SendBuf
    OBVIOUS
  <2>4. Len(todo) \in Nat \ {0}
    BY EmptySeq
  <2>5. QED
    BY <2>1, <2>2, <2>3, <2>4
<1> HIDE DEF l
<1>2. from + Remaining(todo[1]) = todo[1].base + todo[1].m_len
  BY <1>1 DEF Continues, Remaining, SendBuf
<1>3. l = <<>> => from + Remaining(todo[1]) = to
  <2>1. l = <<>> => Len(todo) = 1
    BY <1>1
  <2>2. todo[Len(todo)].base + todo[Len(todo)].m_len = to
    BY DEF Continues
  <2>3. QED
    BY <1>2, <2>1, <2>2
<1>4. l # <<>> => /\ l[1].base + l[1].m_sendOff = from + Remaining(todo[1])
                  /\ l[Len(l)].base + l[Len(l)].m_len = to
  <2> SUFFICES ASSUME l # <<>>
               PROVE  /\ l[1].base + l[1].m_sendOff = from + Remaining(todo[1])
                      /\ l[Len(l)].base + l[Len(l)].m_len = to
    OBVIOUS
  <2>1. Len(todo) >= 2 /\ l[1] = todo[2] /\ l[Len(l)] = todo[Len(todo)]
    BY <1>1
  <2>2. todo[2] \in SendBuf /\ todo[2].m_sendOff = 0 /\ todo[1].base + todo[1].m_len = todo[2].base
    BY <1>1, <2>1 DEF Continues
  <2>3. QED
    BY <1>2, <2>1, <2>2 DEF Continues, SendBuf
<1>5. \A i \in 1 .. Len(l) - 1 : l[i].base + l[i].m_len = l[i + 1].base
  BY <1>1 DEF Continues
<1>6. \A i \in 2 .. Len(l) : l[i].m_sendOff = 0
  BY <1>1 DEF Continues
<1>7. \A i \in 1 .. Len(l) : Remaining(l[i]) > 0 /\ l[i].base + l[i].m_len <= to
  BY <1>1 DEF Continues
<1>8. QED
  BY <1>1, <1>3, <1>4, <1>5, <1>6, <1>7 DEF Continues, l

\* Only the offset of a buffer moves.
LEMMA AdvancedIsBuf ==
    ASSUME NEW b \in SendBuf, NEW n \in Nat
    PROVE  /\ Advanced(b, n) \in SendBuf
           /\ Advanced(b, n).base = b.base
           /\ Advanced(b, n).m_len = b.m_len
           /\ Advanced(b, n).m_sendOff = b.m_sendOff + n
BY DEF Advanced, SendBuf

\* Writing a part of the first buffer moves its start.
LEMMA ContinuesAdvanced ==
    ASSUME NEW todo \in Seq(SendBuf), NEW from \in Nat, NEW to \in Nat, NEW n \in Nat,
           Continues(todo, from, to), todo # <<>>, n < Remaining(todo[1])
    PROVE  /\ [todo EXCEPT ![1] = Advanced(@, n)] \in Seq(SendBuf)
           /\ Continues([todo EXCEPT ![1] = Advanced(@, n)], from + n, to)
<1> DEFINE l == [todo EXCEPT ![1] = Advanced(@, n)]
<1>1. todo[1] \in SendBuf /\ 1 \in 1 .. Len(todo)
  OBVIOUS
<1>0. /\ Advanced(todo[1], n) \in SendBuf
      /\ Advanced(todo[1], n).base = todo[1].base
      /\ Advanced(todo[1], n).m_len = todo[1].m_len
      /\ Advanced(todo[1], n).m_sendOff = todo[1].m_sendOff + n
  BY <1>1, AdvancedIsBuf
<1>2. /\ l \in Seq(SendBuf) /\ l # <<>>
      /\ Len(l) = Len(todo)
      /\ l[1] = Advanced(todo[1], n)
      /\ \A i \in 2 .. Len(todo) : l[i] = todo[i]
  BY <1>1, <1>0
<1> HIDE DEF l
<1>3. /\ l[1].base = todo[1].base /\ l[1].m_len = todo[1].m_len
      /\ l[1].m_sendOff = todo[1].m_sendOff + n
  BY <1>2, <1>0
<1>4. /\ l[1].base + l[1].m_sendOff = from + n
      /\ Remaining(l[1]) > 0
  <2>1. todo[1].base + todo[1].m_sendOff = from
    BY DEF Continues
  <2>2. /\ todo[1].base \in Nat /\ todo[1].m_len \in Nat /\ todo[1].m_sendOff \in Nat
    BY <1>1 DEF SendBuf
  <2>3. l[1].base + l[1].m_sendOff = todo[1].base + todo[1].m_sendOff + n
    BY <1>3, <2>2
  <2>4. Remaining(l[1]) = Remaining(todo[1]) - n /\ Remaining(todo[1]) \in Int
    BY <1>3, <2>2 DEF Remaining
  <2>5. QED
    BY <2>1, <2>3, <2>4
<1>5. l[Len(l)].base + l[Len(l)].m_len = to
  BY <1>1, <1>2, <1>3 DEF Continues
<1>6. \A i \in 1 .. Len(l) : l[i].base = todo[i].base /\ l[i].m_len = todo[i].m_len
  BY <1>2, <1>3
<1>7. \A i \in 1 .. Len(l) - 1 : l[i].base + l[i].m_len = l[i + 1].base
  BY <1>2, <1>6 DEF Continues
<1>8. \A i \in 2 .. Len(l) : l[i].m_sendOff = 0
  BY <1>2 DEF Continues
<1>9. \A i \in 1 .. Len(l) : Remaining(l[i]) > 0 /\ l[i].base + l[i].m_len <= to
  <2> SUFFICES ASSUME NEW i \in 1 .. Len(l)
               PROVE  Remaining(l[i]) > 0 /\ l[i].base + l[i].m_len <= to
    OBVIOUS
  <2>1. CASE i = 1
    BY <1>1, <1>2, <1>3, <1>4, <2>1 DEF Continues
  <2>2. CASE i # 1
    BY <1>2, <2>2 DEF Continues
  <2>3. QED
    BY <2>1, <2>2
<1>10. QED
  BY <1>2, <1>4, <1>5, <1>7, <1>8, <1>9 DEF Continues, l

\* The first buffer starts where the wire ends and does not reach past what was given.
LEMMA ContinuesFirst ==
    ASSUME NEW todo \in Seq(SendBuf), NEW from \in Nat, NEW to \in Nat,
           Continues(todo, from, to), todo # <<>>
    PROVE  /\ todo[1] \in SendBuf
           /\ todo[1].base + todo[1].m_sendOff = from
           /\ Remaining(todo[1]) \in Nat \ {0}
           /\ from + Remaining(todo[1]) <= to
<1>1. 1 \in 1 .. Len(todo) /\ todo[1] \in SendBuf
  OBVIOUS
<1>2. QED
  BY <1>1 DEF Continues, Remaining, SendBuf

\* One buffer is a list.
LEMMA ContinuesOne ==
    ASSUME NEW b \in SendBuf, NEW to \in Nat, b.m_len - b.m_sendOff > 0, b.base + b.m_len = to
    PROVE  Continues(<<b>>, b.base + b.m_sendOff, to)
BY DEF Continues, Remaining, SendBuf

-----------------------------------------------------------------------------
(* The wire.                                                               *)

\* A slice that starts where the wire ends carries the next bytes, in order.
LEMMA WireGrows ==
    ASSUME NEW w \in Seq(Nat), NEW b \in SendBuf, NEW n \in Nat,
           b.base + b.m_sendOff = Len(w),
           \A i \in 1 .. Len(w) : w[i] = i
    PROVE  /\ w \o Slice(b, n) = w \o [i \in 1 .. n |-> Len(w) + i]
           /\ w \o Slice(b, n) \in Seq(Nat)
           /\ Len(w \o Slice(b, n)) = Len(w) + n
           /\ \A i \in 1 .. Len(w \o Slice(b, n)) : (w \o Slice(b, n))[i] = i
<1> DEFINE s == [i \in 1 .. n |-> Len(w) + i]
<1>1. Slice(b, n) = s
  BY DEF Slice, SendBuf
<1>2. s \in Seq(Nat) /\ Len(s) = n /\ \A i \in 1 .. n : s[i] = Len(w) + i
  OBVIOUS
<1> HIDE DEF s
<1>3. /\ w \o s \in Seq(Nat) /\ Len(w \o s) = Len(w) + n
      /\ \A i \in 1 .. Len(w) + n : (w \o s)[i] = IF i <= Len(w) THEN w[i] ELSE s[i - Len(w)]
  BY <1>2, ConcatProperties
<1>4. \A i \in 1 .. Len(w) + n : (w \o s)[i] = i
  <2> SUFFICES ASSUME NEW i \in 1 .. Len(w) + n
               PROVE  (w \o s)[i] = i
    OBVIOUS
  <2> Len(w) \in Nat
    OBVIOUS
  <2>1. CASE i <= Len(w)
    BY <1>3, <2>1
  <2>2. CASE ~(i <= Len(w))
    <3>1. i - Len(w) \in 1 .. n /\ s[i - Len(w)] = Len(w) + (i - Len(w))
      BY <1>2, <2>2
    <3>2. QED
      BY <1>3, <2>2, <3>1
  <2>3. QED
    BY <2>1, <2>2
<1>5. QED
  BY <1>1, <1>3, <1>4 DEF s

-----------------------------------------------------------------------------
(* Buffers made by SendData.                                               *)

LEMMA NewDataIsBuf ==
    ASSUME accepted \in Nat, NEW len \in Nat \ {0}
    PROVE  /\ NewData(len) \in SendBuf
           /\ NewData(len).base = accepted
           /\ NewData(len).m_len = len
           /\ NewData(len).m_sendOff = 0
BY DEF NewData, SendBuf

LEMMA PendingPartIsBuf ==
    ASSUME NEW b \in SendBuf, b.m_len - b.m_sendOff > 0
    PROVE  /\ PendingPart(b) \in SendBuf
           /\ PendingPart(b).base = b.base + b.m_sendOff
           /\ PendingPart(b).m_sendOff = 0
           /\ PendingPart(b).m_len = b.m_len - b.m_sendOff
           /\ PendingPart(b).base + PendingPart(b).m_len = b.base + b.m_len
BY DEF PendingPart, Remaining, SendBuf

LEMMA EmptyContinues ==
    ASSUME NEW n \in Nat
    PROVE  Continues(<<>>, n, n)
BY DEF Continues

\* What the invariant says of the direct write of SendData.
LEMMA DirectWrite ==
    ASSUME StreamInv, pc = "send"
    PROVE  /\ ended = "no" /\ bufs = <<>>
           /\ data \in SendBuf
           /\ data.base + data.m_sendOff = Len(wire)
           /\ data.base + data.m_len = accepted
           /\ data.m_len - data.m_sendOff > 0
<1>1. ended = "no" /\ bufs = <<>> /\ data \in SendBuf
  BY DEF StreamInv, FrameSound, IsOpen, TypeOK
<1>2. Continues(<<data>>, Len(wire), accepted)
  BY <1>1 DEF StreamInv, NothingDropped, IsOpen
<1>3. QED
  BY <1>1, <1>2 DEF Continues, Remaining, SendBuf

\* What it says of the list while the session is open and SendData is not writing.
LEMMA PendingList ==
    ASSUME StreamInv, ended = "no", pc # "send"
    PROVE  /\ bufs \in Seq(SendBuf)
           /\ Len(wire) \in Nat /\ accepted \in Nat /\ Len(wire) <= accepted
           /\ Continues(bufs, Len(wire), accepted)
BY DEF StreamInv, TypeOK, InOrderOnce, NothingDropped, IsOpen

-----------------------------------------------------------------------------
(* The invariant.                                                          *)

LEMMA InitStreamInv == Init => StreamInv
<1> SUFFICES ASSUME Init PROVE StreamInv
  OBVIOUS
<1>1. TypeOK
  <2>1. NoData \in SendBuf
    BY DEF NoData, SendBuf
  <2>2. QED
    BY <2>1, EmptySeq DEF Init, TypeOK
<1>2. Continues(<<>>, 0, 0)
  BY EmptyContinues
<1>3. QED
  BY <1>1, <1>2
  DEF Init, StreamInv, FrameSound, InOrderOnce, NothingDropped, WatchedWhilePending, SentCloseLosesNothing, IsOpen

\* A step that takes no byte, gives none and leaves the list alone.
LEMMA QuietStep ==
    ASSUME StreamInv,
           UNCHANGED <<bufs, wire, accepted>>,
           data' = data \/ data' = NoData,
           ended' \in {"no"} \cup Causes,
           ended # "no" => ended' = ended,
           m_sentClose' \in BOOLEAN, watchW' \in BOOLEAN, sockErr' \in BOOLEAN,
           watchFailed' \in BOOLEAN, WatchedWhilePending',
           pc' \in {"idle", "send", "flush"},
           ended' = "no" /\ pc' = "send" => pc = "send" /\ data' = data,
           ended' = "no" /\ pc = "send" => pc' = "send",
           pc' = "send" => bufs = <<>>,
           pc' # "idle" => ended' = "no",
           watchW' => ended' = "no",
           ended' = "sentClose" => ended = "sentClose" \/ (pc # "send" /\ bufs = <<>>)
    PROVE  StreamInv'
<1>1. TypeOK'
  BY DEF StreamInv, TypeOK, NoData, SendBuf
<1>2. FrameSound'
  BY DEF FrameSound, IsOpen
<1>3. InOrderOnce'
  BY DEF StreamInv, InOrderOnce
<1>4. NothingDropped'
  BY DEF StreamInv, NothingDropped, IsOpen
<1>5. SentCloseLosesNothing'
  <2> SUFFICES ASSUME ended' = "sentClose"
               PROVE  Len(wire') = accepted' /\ bufs' = <<>>
    BY DEF SentCloseLosesNothing
  <2>1. CASE ended = "sentClose"
    BY <2>1 DEF StreamInv, SentCloseLosesNothing
  <2>2. CASE ended # "sentClose"
    <3>1. ended = "no" /\ pc # "send" /\ bufs = <<>>
      BY <2>2
    <3>2. Continues(<<>>, Len(wire), accepted)
      BY <3>1, PendingList
    <3>3. QED
      BY <3>1, <3>2 DEF Continues
  <2>3. QED
    BY <2>1, <2>2
<1>6. QED
  BY <1>1, <1>2, <1>3, <1>4, <1>5 DEF StreamInv

\* Data given to SendData joins the list, whether or not it is empty.
LEMMA EnqueueStep ==
    ASSUME StreamInv, NEW len \in 1 .. MaxLen, Enqueue(len)
    PROVE  StreamInv'
<1> DEFINE b == PendingPart(NewData(len))
<1>0. /\ wire \in Seq(Nat) /\ Len(wire) \in Nat /\ accepted \in Nat
      /\ m_sentClose \in BOOLEAN /\ sockErr \in BOOLEAN /\ data \in SendBuf
      /\ watchW \in BOOLEAN /\ watchFailed \in BOOLEAN
  BY DEF StreamInv, TypeOK
<1>1. /\ ended = "no" /\ ended' = "no" /\ pc' = "idle" /\ pc = "idle"
      /\ wire' = wire /\ accepted' = accepted + len /\ bufs' = Append(bufs, b)
      /\ data' = data /\ m_sentClose' = m_sentClose /\ sockErr' = sockErr /\ Watch(TRUE)
  BY DEF Enqueue, IsOpen, ToPending, WatchWrite
<1>2. len \in Nat \ {0}
  BY SendAssumption
<1>3. /\ NewData(len) \in SendBuf /\ NewData(len).base = accepted
      /\ NewData(len).m_len = len /\ NewData(len).m_sendOff = 0
  BY <1>0, <1>2, NewDataIsBuf
<1>4. b \in SendBuf /\ b.base = accepted /\ b.m_sendOff = 0 /\ b.m_len = len
  BY <1>0, <1>2, <1>3, PendingPartIsBuf
<1> HIDE DEF b
<1>5. bufs \in Seq(SendBuf) /\ Continues(bufs, Len(wire), accepted)
  BY <1>1, PendingList
<1>6. Continues(bufs', Len(wire'), accepted')
  <2>1. CASE bufs # <<>>
    BY <1>0, <1>1, <1>2, <1>4, <1>5, <2>1, ContinuesAppend
  <2>2. CASE bufs = <<>>
    <3>1. Len(wire) = accepted /\ bufs' = <<b>>
      BY <1>1, <1>4, <1>5, <2>2 DEF Continues
    <3>2. Continues(<<b>>, b.base + b.m_sendOff, accepted + len)
      BY <1>0, <1>2, <1>4, ContinuesOne
    <3>3. b.base + b.m_sendOff = Len(wire)
      BY <1>0, <1>4, <3>1
    <3>4. QED
      BY <1>1, <3>1, <3>2, <3>3
  <2>3. QED
    BY <2>1, <2>2
<1>7. bufs' \in Seq(SendBuf) /\ bufs' # <<>>
  BY <1>1, <1>4, <1>5, AppendProperties
<1>8. watchW' \in BOOLEAN /\ watchFailed' \in BOOLEAN /\ (watchW' \/ watchFailed')
  BY <1>0, <1>1 DEF Watch
<1>9. TypeOK'
  BY <1>0, <1>1, <1>2, <1>7, <1>8 DEF TypeOK
<1>10. InOrderOnce'
  BY <1>0, <1>1, <1>2 DEF StreamInv, InOrderOnce
<1>11. WatchedWhilePending'
  BY <1>1, <1>7, <1>8 DEF WatchedWhilePending
<1>12. QED
  BY <1>1, <1>6, <1>9, <1>10, <1>11
  DEF StreamInv, FrameSound, NothingDropped, SentCloseLosesNothing, IsOpen

\* The WRITE watch follows the list, as long as libswevent has not failed.
LEMMA NextWatched ==
    ASSUME TypeOK, FrameSound, WatchedWhilePending, [Next]_vars
    PROVE  watchW' \in BOOLEAN /\ watchFailed' \in BOOLEAN /\ WatchedWhilePending'
<1> USE DEF TypeOK, FrameSound, WatchedWhilePending, IsOpen
<1>1. ASSUME NEW len \in 1 .. MaxLen, SendData(len) \/ SendDataBehind(len)
      PROVE  watchW' \in BOOLEAN /\ watchFailed' \in BOOLEAN /\ WatchedWhilePending'
  <2>1. CASE SendData(len)
    BY <2>1 DEF SendData
  <2>2. CASE SendDataBehind(len)
    <3>1. /\ ended' = ended /\ pc = "idle" /\ pc' = "idle"
          /\ bufs' = Append(bufs, PendingPart(NewData(len))) /\ Watch(TRUE)
      BY <2>2 DEF SendDataBehind, Enqueue, ToPending, WatchWrite
    <3>2. bufs' # <<>>
      BY <3>1
    <3>3. QED
      BY <3>1, <3>2 DEF Watch
  <2>3. QED
    BY <1>1, <2>1, <2>2
<1>2. CASE \E sentClose \in BOOLEAN : SetSentClose(sentClose)
  BY <1>2 DEF SetSentClose, CloseSession
<1>3. CASE \E cause \in {"app", "peer"} : CloseBy(cause)
  BY <1>3 DEF CloseBy, CloseSession
<1>4. ASSUME NEW n \in 1 .. MaxBytes, SendDataWrites(n) \/ SendPendingWrites(n)
      PROVE  watchW' \in BOOLEAN /\ watchFailed' \in BOOLEAN /\ WatchedWhilePending'
  BY <1>4 DEF SendDataWrites, AfterDirectSend, CloseSession, SendPendingWrites
<1>5. CASE SendDataAgain
  <2>1. /\ ended' = ended /\ pc = "send" /\ pc' = "idle"
        /\ bufs' = Append(bufs, PendingPart(data)) /\ Watch(TRUE)
    BY <1>5 DEF SendDataAgain, ToPending, WatchWrite
  <2>2. bufs' # <<>>
    BY <2>1
  <2>3. QED
    BY <2>1, <2>2 DEF Watch
<1>6. CASE SendDataFails \/ SendPendingFails
  BY <1>6 DEF SendDataFails, SendPendingFails, CloseSession
<1>7. CASE OnWrite \/ SendPendingAgain \/ PeerResets \/ UNCHANGED vars
  BY <1>7 DEF OnWrite, SendPendingAgain, PeerResets, vars
<1>8. CASE SendPendingDone
  BY <1>8 DEF SendPendingDone, CloseSession, UnwatchWrite, Watch
<1>9. QED
  BY <1>1, <1>2, <1>3, <1>4, <1>5, <1>6, <1>7, <1>8 DEF Next

LEMMA NextStreamInv == StreamInv /\ [Next]_vars => StreamInv'
<1> SUFFICES ASSUME StreamInv, [Next]_vars
             PROVE  StreamInv'
  OBVIOUS
<1>0. TypeOK /\ FrameSound /\ ended \in {"no"} \cup Causes /\ m_sentClose \in BOOLEAN
      /\ watchW \in BOOLEAN /\ sockErr \in BOOLEAN /\ pc \in {"idle", "send", "flush"}
      /\ wire \in Seq(Nat) /\ Len(wire) \in Nat /\ accepted \in Nat
  BY DEF StreamInv, TypeOK
<1>w. watchW' \in BOOLEAN /\ watchFailed' \in BOOLEAN /\ WatchedWhilePending'
  BY NextWatched DEF StreamInv
<1>1. ASSUME NEW len \in 1 .. MaxLen, SendData(len)
      PROVE  StreamInv'
  <2>1. /\ ended = "no" /\ ended' = "no" /\ bufs = <<>> /\ bufs' = <<>> /\ pc' = "send"
        /\ wire' = wire /\ accepted' = accepted + len /\ data' = NewData(len) /\ pc = "idle"
    BY <1>1 DEF SendData, IsOpen
  <2>2. len \in Nat \ {0}
    BY SendAssumption
  <2>3. Len(wire) = accepted
    BY <2>1, PendingList DEF Continues
  <2>4. /\ NewData(len) \in SendBuf /\ NewData(len).base = accepted
        /\ NewData(len).m_len = len /\ NewData(len).m_sendOff = 0
    BY <1>0, <2>2, NewDataIsBuf
  <2>5. Continues(<<NewData(len)>>, NewData(len).base + NewData(len).m_sendOff, accepted + len)
    BY <1>0, <2>2, <2>4, ContinuesOne
  <2>6. Continues(<<data'>>, Len(wire'), accepted')
    BY <1>0, <2>1, <2>3, <2>4, <2>5
  <2>7. TypeOK'
    BY <1>0, <1>w, <1>1, <2>1, <2>2, <2>4 DEF SendData, TypeOK
  <2>8. InOrderOnce'
    BY <1>0, <2>1, <2>2 DEF StreamInv, InOrderOnce
  <2>9. QED
    BY <1>w, <2>1, <2>6, <2>7, <2>8
    DEF StreamInv, FrameSound, NothingDropped, SentCloseLosesNothing, IsOpen
<1>2. ASSUME NEW len \in 1 .. MaxLen, SendDataBehind(len)
      PROVE  StreamInv'
  BY <1>2, EnqueueStep DEF SendDataBehind
<1>3. ASSUME NEW sentClose \in BOOLEAN, SetSentClose(sentClose)
      PROVE  StreamInv'
  BY <1>0, <1>3, <1>w, QuietStep DEF SetSentClose, CloseSession, IsOpen, Causes
<1>4. ASSUME NEW cause \in {"app", "peer"}, CloseBy(cause)
      PROVE  StreamInv'
  BY <1>0, <1>4, <1>w, QuietStep DEF CloseBy, CloseSession, IsOpen, Causes
<1>5. ASSUME NEW n \in 1 .. MaxBytes, SendDataWrites(n)
      PROVE  StreamInv'
  <2>1. pc = "send" /\ n \in 1 .. Remaining(data) /\ n \in Nat \ {0}
        /\ wire' = wire \o Slice(data, n) /\ accepted' = accepted /\ bufs' = bufs
        /\ m_sentClose' = m_sentClose /\ sockErr' = sockErr
    BY <1>5, SendAssumption DEF SendDataWrites
  <2>2. /\ ended = "no" /\ bufs = <<>>
        /\ data \in SendBuf
        /\ data.base + data.m_sendOff = Len(wire)
        /\ data.base + data.m_len = accepted
        /\ data.m_len - data.m_sendOff > 0
    BY <2>1, DirectWrite
  <2>3. /\ wire' \in Seq(Nat) /\ Len(wire') = Len(wire) + n
        /\ \A i \in 1 .. Len(wire') : wire'[i] = i
    BY <1>0, <2>1, <2>2, WireGrows DEF StreamInv, InOrderOnce
  <2>4. Len(wire') <= accepted
    BY <1>0, <2>1, <2>2, <2>3 DEF Remaining, SendBuf
  <2>5. CASE n = Remaining(data)
    <3>1. pc' = "idle" /\ data' = NoData /\ AfterDirectSend
      BY <1>5, <2>5 DEF SendDataWrites
    <3>2. Len(wire') = accepted
      BY <1>0, <2>2, <2>3, <2>5 DEF Remaining, SendBuf
    <3>3. Continues(<<>>, Len(wire'), accepted)
      BY <1>0, <3>2, EmptyContinues
    <3>4. ended' \in {"no", "sentClose"} /\ (ended' = "no" => m_sentClose = FALSE)
          /\ watchW' \in BOOLEAN /\ (watchW' => ended' = "no")
      BY <1>0, <2>2, <3>1 DEF AfterDirectSend, CloseSession
    <3>5. TypeOK'
      BY <1>0, <1>w, <2>1, <2>3, <3>1, <3>4 DEF TypeOK, NoData, SendBuf, Causes
    <3>6. QED
      BY <1>w, <2>1, <2>2, <2>3, <2>4, <3>1, <3>2, <3>3, <3>4, <3>5
      DEF StreamInv, FrameSound, InOrderOnce, NothingDropped, SentCloseLosesNothing, IsOpen
  <2>6. CASE n # Remaining(data)
    <3>1. pc' = "send" /\ data' = Advanced(data, n) /\ ended' = "no" /\ watchW' = watchW
      BY <1>5, <2>1, <2>2, <2>6 DEF SendDataWrites
    <3>2. /\ data' \in SendBuf
          /\ data'.base + data'.m_sendOff = Len(wire')
          /\ data'.base + data'.m_len = accepted
          /\ data'.m_len - data'.m_sendOff > 0
      <4>1. /\ Advanced(data, n) \in SendBuf
            /\ Advanced(data, n).base = data.base
            /\ Advanced(data, n).m_len = data.m_len
            /\ Advanced(data, n).m_sendOff = data.m_sendOff + n
        BY <2>1, <2>2, AdvancedIsBuf
      <4>2. /\ data.base \in Nat /\ data.m_len \in Nat /\ data.m_sendOff \in Nat
            /\ n < data.m_len - data.m_sendOff
        BY <2>1, <2>2, <2>6 DEF Remaining, SendBuf
      <4>3. data' \in SendBuf
        BY <3>1, <4>1
      <4>4. /\ data'.base = data.base /\ data'.m_len = data.m_len
            /\ data'.m_sendOff = data.m_sendOff + n
        BY <3>1, <4>1
      <4>5. n \in Nat /\ data.base + data.m_sendOff = Len(wire)
            /\ data.base + data.m_len = accepted /\ Len(wire') = Len(wire) + n
        BY <2>1, <2>2, <2>3
      <4>6. data'.base + data'.m_sendOff = Len(wire')
        <5>1. data'.base + data'.m_sendOff = (data.base + data.m_sendOff) + n
          BY <4>2, <4>4, <4>5
        <5>2. QED
          BY <4>5, <5>1
      <4>7. data'.base + data'.m_len = accepted
        BY <4>4, <4>5
      <4>8. data'.m_len - data'.m_sendOff > 0
        BY <4>2, <4>4, <4>5
      <4>9. QED
        BY <4>3, <4>6, <4>7, <4>8
    <3>3. Continues(<<data'>>, Len(wire'), accepted)
      <4>1. Continues(<<data'>>, data'.base + data'.m_sendOff, accepted)
        BY <1>0, <3>2, ContinuesOne
      <4>2. QED
        BY <3>2, <4>1
    <3>4. TypeOK'
      BY <1>0, <1>w, <2>1, <2>3, <3>1, <3>2 DEF TypeOK
    <3>5. QED
      BY <1>w, <2>1, <2>2, <2>3, <2>4, <3>1, <3>3, <3>4
      DEF StreamInv, FrameSound, InOrderOnce, NothingDropped, SentCloseLosesNothing, IsOpen
  <2>7. QED
    BY <2>5, <2>6
<1>6. ASSUME NEW n \in 1 .. MaxBytes, SendPendingWrites(n)
      PROVE  StreamInv'
  <2>1. /\ pc = "flush" /\ pc' = "flush" /\ bufs # <<>> /\ n \in 1 .. Remaining(bufs[1])
        /\ n \in Nat \ {0} /\ wire' = wire \o Slice(bufs[1], n) /\ accepted' = accepted
        /\ bufs' = AfterWrite(n) /\ m_sentClose' = m_sentClose /\ sockErr' = sockErr
        /\ ended' = ended /\ watchW' = watchW /\ data' = data
    BY <1>6, SendAssumption DEF SendPendingWrites
  <2>2. ended = "no"
    BY <1>0, <2>1 DEF FrameSound, IsOpen
  <2>3. bufs \in Seq(SendBuf) /\ Continues(bufs, Len(wire), accepted)
    BY <2>1, <2>2, PendingList
  <2>4. /\ bufs[1] \in SendBuf
        /\ bufs[1].base + bufs[1].m_sendOff = Len(wire)
        /\ Remaining(bufs[1]) \in Nat \ {0}
        /\ Len(wire) + Remaining(bufs[1]) <= accepted
    BY <1>0, <2>1, <2>3, ContinuesFirst
  <2>5. /\ wire' \in Seq(Nat) /\ Len(wire') = Len(wire) + n
        /\ \A i \in 1 .. Len(wire') : wire'[i] = i
    BY <1>0, <2>1, <2>4, WireGrows DEF StreamInv, InOrderOnce
  <2>6. Len(wire') <= accepted
    BY <1>0, <2>1, <2>4, <2>5
  <2>7. bufs' \in Seq(SendBuf) /\ Continues(bufs', Len(wire) + n, accepted)
    <3>1. CASE n = Remaining(bufs[1])
      BY <1>0, <2>1, <2>3, <3>1, ContinuesTail DEF AfterWrite
    <3>2. CASE n # Remaining(bufs[1])
      <4>1. bufs' = [bufs EXCEPT ![1] = Advanced(@, n)]
        BY <2>1, <3>2 DEF AfterWrite
      <4>2. n < Remaining(bufs[1])
        BY <2>1, <2>4, <3>2
      <4>3. /\ [bufs EXCEPT ![1] = Advanced(@, n)] \in Seq(SendBuf)
            /\ Continues([bufs EXCEPT ![1] = Advanced(@, n)], Len(wire) + n, accepted)
        BY <1>0, <2>1, <2>3, <4>2, ContinuesAdvanced, Zenon
      <4>4. QED
        BY <4>1, <4>3, Zenon
    <3>3. QED
      BY <3>1, <3>2
  <2>8. TypeOK'
    BY <1>0, <1>w, <2>1, <2>5, <2>7 DEF TypeOK
  <2>9. QED
    BY <1>w, <2>1, <2>2, <2>5, <2>6, <2>7, <2>8
    DEF StreamInv, FrameSound, InOrderOnce, NothingDropped, SentCloseLosesNothing, IsOpen
<1>7. ASSUME SendDataAgain
      PROVE  StreamInv'
  <2> DEFINE b == PendingPart(data)
  <2>1. /\ pc = "send" /\ pc' = "idle" /\ data' = NoData /\ ended' = ended
        /\ wire' = wire /\ accepted' = accepted /\ bufs' = Append(bufs, b)
        /\ m_sentClose' = m_sentClose /\ sockErr' = sockErr
    BY <1>0, <1>7 DEF SendDataAgain, ToPending, WatchWrite
  <2>2. /\ ended = "no" /\ bufs = <<>>
        /\ data \in SendBuf
        /\ data.base + data.m_sendOff = Len(wire)
        /\ data.base + data.m_len = accepted
        /\ data.m_len - data.m_sendOff > 0
    BY <2>1, DirectWrite
  <2>3. /\ b \in SendBuf /\ b.base = Len(wire) /\ b.m_sendOff = 0
        /\ b.m_len - b.m_sendOff > 0 /\ b.base + b.m_len = accepted
    BY <1>0, <2>2, PendingPartIsBuf DEF SendBuf
  <2> HIDE DEF b
  <2>4. bufs' = <<b>> /\ bufs' # <<>> /\ bufs' \in Seq(SendBuf)
    BY <2>1, <2>2, <2>3
  <2>5. Continues(bufs', Len(wire'), accepted')
    <3>1. Continues(<<b>>, b.base + b.m_sendOff, accepted)
      BY <1>0, <2>3, ContinuesOne
    <3>2. b.base + b.m_sendOff = Len(wire)
      BY <1>0, <2>3
    <3>3. QED
      BY <2>1, <2>4, <3>1, <3>2
  <2>6. TypeOK'
    BY <1>0, <1>w, <2>1, <2>4 DEF TypeOK, NoData, SendBuf
  <2>7. InOrderOnce'
    BY <2>1 DEF StreamInv, InOrderOnce
  <2>8. QED
    BY <1>w, <2>1, <2>2, <2>4, <2>5, <2>6, <2>7
    DEF StreamInv, FrameSound, NothingDropped, SentCloseLosesNothing, IsOpen
<1>8. CASE SendDataFails
  <2>1. ended = "no" /\ bufs = <<>>
    BY <1>8, DirectWrite DEF SendDataFails
  <2>2. QED
    BY <1>0, <1>8, <2>1, <1>w, QuietStep DEF SendDataFails, CloseSession, Causes
<1>9. CASE OnWrite
  BY <1>0, <1>9, <1>w, QuietStep DEF OnWrite, FrameSound, IsOpen
<1>10. CASE SendPendingAgain
  BY <1>0, <1>10, <1>w, QuietStep DEF SendPendingAgain, FrameSound, IsOpen
<1>11. CASE SendPendingFails
  BY <1>0, <1>11, <1>w, QuietStep DEF SendPendingFails, CloseSession, FrameSound, IsOpen, Causes
<1>12. CASE SendPendingDone
  BY <1>0, <1>12, <1>w, QuietStep
  DEF SendPendingDone, CloseSession, UnwatchWrite, FrameSound, IsOpen, Causes
<1>13. CASE PeerResets
  BY <1>0, <1>13, <1>w, QuietStep
  DEF PeerResets, FrameSound, IsOpen
<1>14. CASE UNCHANGED vars
  BY <1>0, <1>14, <1>w, QuietStep
  DEF vars, FrameSound, IsOpen
<1>15. QED
  BY <1>1, <1>2, <1>3, <1>4, <1>5, <1>6, <1>7, <1>8, <1>9, <1>10, <1>11, <1>12, <1>13, <1>14
  DEF Next

\* SetSentClose leaves the session open only with data to send, and the last of them closes it.
LEMMA NextSentClose ==
    ASSUME StreamInv, SentCloseWaitsForData, [Next]_vars
    PROVE  SentCloseWaitsForData'
<1> USE DEF SentCloseWaitsForData, IsOpen
<1>0. m_sentClose \in BOOLEAN
  BY DEF StreamInv, TypeOK
<1>1. ASSUME NEW len \in 1 .. MaxLen, SendData(len) \/ SendDataBehind(len)
      PROVE  SentCloseWaitsForData'
  <2>1. CASE SendData(len)
    BY <2>1 DEF SendData
  <2>2. CASE SendDataBehind(len)
    <3>1. bufs' = Append(bufs, PendingPart(NewData(len)))
      BY <2>2 DEF SendDataBehind, Enqueue, ToPending
    <3>2. bufs' # <<>>
      BY <3>1
    <3>3. QED
      BY <3>2
  <2>3. QED
    BY <1>1, <2>1, <2>2
<1>2. CASE \E sentClose \in BOOLEAN : SetSentClose(sentClose)
  BY <1>2 DEF SetSentClose, CloseSession
<1>3. CASE \E cause \in {"app", "peer"} : CloseBy(cause)
  BY <1>3 DEF CloseBy, CloseSession
<1>4. ASSUME NEW n \in 1 .. MaxBytes, SendDataWrites(n) \/ SendPendingWrites(n)
      PROVE  SentCloseWaitsForData'
  BY <1>0, <1>4 DEF SendDataWrites, AfterDirectSend, CloseSession, SendPendingWrites
<1>5. CASE SendDataAgain
  <2>1. bufs' = Append(bufs, PendingPart(data))
    BY <1>5 DEF SendDataAgain, ToPending
  <2>2. bufs' # <<>>
    BY <2>1
  <2>3. QED
    BY <2>2
<1>6. CASE SendDataFails \/ SendPendingFails
  BY <1>6 DEF SendDataFails, SendPendingFails, CloseSession
<1>7. CASE OnWrite \/ SendPendingAgain \/ PeerResets \/ UNCHANGED vars
  BY <1>7 DEF OnWrite, SendPendingAgain, PeerResets, vars
<1>8. CASE SendPendingDone
  BY <1>0, <1>8 DEF SendPendingDone, CloseSession
<1>9. QED
  BY <1>1, <1>2, <1>3, <1>4, <1>5, <1>6, <1>7, <1>8 DEF Next

LEMMA InitIInv == Init => IInv
<1>1. QED
  BY InitStreamInv DEF Init, IInv, SentCloseWaitsForData

LEMMA NextIInv == IInv /\ [Next]_vars => IInv'
<1>1. QED
  BY NextStreamInv, NextSentClose DEF IInv

\* The inductive invariant holds in every state, for every MaxLen and MaxBytes, and
\* whether or not sw_ev_io_add and sw_ev_io_del succeed.
THEOREM Invariance == SafeSpec => []IInv
<1>1. QED
  BY InitIInv, NextIInv, PTL DEF SafeSpec

LEMMA StreamInvariance == SafeSpec => []StreamInv
<1>1. IInv => StreamInv
  BY DEF IInv
<1>2. QED
  BY <1>1, Invariance, PTL

\* SendData, SendPendingData and the list between them: every byte given is on the wire
\* once and in order, or in the list once and in order, as long as the session is open.
THEOREM EveryByteOnceInOrder == SafeSpec => [](TypeOK /\ InOrderOnce /\ NothingDropped)
<1>1. IInv => TypeOK /\ InOrderOnce /\ NothingDropped
  BY DEF IInv, StreamInv
<1>2. QED
  BY <1>1, Invariance, PTL

\* SetSentClose: the session waits for its data exactly as long as there is some, and
\* the close it asked for comes when all the bytes given were taken by the socket.
THEOREM SentCloseIsSafe == SafeSpec => [](SentCloseWaitsForData /\ SentCloseLosesNothing)
<1>1. IInv => SentCloseWaitsForData /\ SentCloseLosesNothing
  BY DEF IInv, StreamInv
<1>2. QED
  BY <1>1, Invariance, PTL

\* The WRITE event is watched exactly while there is data to send, unless a call of
\* libswevent has failed.
THEOREM WatchIsSound == SafeSpec => []WatchedWhilePending
<1>1. IInv => WatchedWhilePending
  BY DEF IInv, StreamInv
<1>2. QED
  BY <1>1, Invariance, PTL

-----------------------------------------------------------------------------
(* The byte stream.                                                        *)

Phase == CASE ended = "no" -> "open"
           [] ended = "sentClose" -> "flushed"
           [] OTHER -> "cut"

\* The three phases, read off ended.
LEMMA PhaseOf ==
    /\ ended = "no" => Phase = "open"
    /\ ended = "sentClose" => Phase = "flushed"
    /\ ended \in {"app", "peer", "error"} => Phase = "cut"
BY DEF Phase

LEMMA PhaseOfNext ==
    /\ ended' = "no" => Phase' = "open"
    /\ ended' = "sentClose" => Phase' = "flushed"
    /\ ended' \in {"app", "peer", "error"} => Phase' = "cut"
BY DEF Phase

\* A step that moves no byte and gives none maps to a close of the stream or a stutter.
LEMMA CloseStep ==
    ASSUME UNCHANGED <<wire, accepted>>,
           \/ ended' = ended
           \/ ended = "no" /\ ended' \in {"app", "peer", "error"}
           \/ ended = "no" /\ ended' = "sentClose" /\ Len(wire) = accepted
    PROVE  [Stream!Next]_(Stream!vars)
<1>1. CASE ended' = ended
  BY <1>1 DEF Stream!vars
<1>2. CASE ended = "no" /\ ended' \in {"app", "peer", "error"}
  <2>1. Stream!Cut
    BY <1>2, PhaseOf, PhaseOfNext DEF Phase, Stream!Cut
  <2>2. QED
    BY <2>1 DEF Stream!Next
<1>3. CASE ended = "no" /\ ended' = "sentClose" /\ Len(wire) = accepted
  <2>1. Stream!CloseFlushed
    BY <1>3, PhaseOf, PhaseOfNext DEF Phase, Stream!CloseFlushed
  <2>2. QED
    BY <2>1 DEF Stream!Next
<1>4. QED
  BY <1>1, <1>2, <1>3

\* A write of n bytes maps to Carry(n); the last one may close.
LEMMA CarryStep ==
    ASSUME StreamInv, NEW n \in 1 .. MaxBytes,
           ended = "no", accepted' = accepted,
           wire' = wire \o [i \in 1 .. n |-> Len(wire) + i],
           Len(wire) + n <= accepted,
           ended' = "no" \/ (ended' = "sentClose" /\ Len(wire) + n = accepted)
    PROVE  [Stream!Next]_(Stream!vars)
<1>1. n \in 0 .. MaxBytes
  BY SendAssumption
<1>2. Stream!Carry(n)
  BY PhaseOf, PhaseOfNext DEF Phase, Stream!Carry
<1>3. QED
  BY <1>1, <1>2 DEF Stream!Next

LEMMA NextStream == StreamInv /\ StreamInv' /\ [Next]_vars => [Stream!Next]_(Stream!vars)
<1> SUFFICES ASSUME StreamInv, StreamInv', [Next]_vars
             PROVE  [Stream!Next]_(Stream!vars)
  OBVIOUS
<1>0. /\ ended \in {"no"} \cup Causes /\ wire \in Seq(Nat) /\ Len(wire) \in Nat
      /\ accepted \in Nat /\ (pc # "idle" => ended = "no")
  BY DEF StreamInv, TypeOK, FrameSound, IsOpen
<1>closed. ended' = "sentClose" => Len(wire') = accepted'
  BY DEF StreamInv, SentCloseLosesNothing
<1>1. ASSUME NEW len \in 1 .. MaxLen, SendData(len) \/ SendDataBehind(len)
      PROVE  [Stream!Next]_(Stream!vars)
  <2>1. /\ ended = "no" /\ ended' = "no" /\ wire' = wire
        /\ accepted' = accepted + len /\ accepted + len <= MaxBytes
    BY <1>1 DEF SendData, SendDataBehind, Enqueue, IsOpen
  <2>2. len \in 0 .. MaxBytes
    BY <1>0, <2>1, SendAssumption
  <2>3. Stream!Give(len)
    BY <2>1, PhaseOf, PhaseOfNext DEF Phase, Stream!Give
  <2>4. QED
    BY <2>2, <2>3 DEF Stream!Next
<1>2. ASSUME NEW n \in 1 .. MaxBytes, SendDataWrites(n)
      PROVE  [Stream!Next]_(Stream!vars)
  <2>1. /\ pc = "send" /\ n \in 1 .. Remaining(data) /\ wire' = wire \o Slice(data, n)
        /\ accepted' = accepted
        /\ n = Remaining(data) => ended' \in {"no", "sentClose"}
        /\ n # Remaining(data) => ended' = "no"
    BY <1>0, <1>2 DEF SendDataWrites, AfterDirectSend, CloseSession
  <2>2. /\ ended = "no" /\ data \in SendBuf
        /\ data.base + data.m_sendOff = Len(wire)
        /\ data.base + data.m_len = accepted
    BY <2>1, DirectWrite
  <2>3. wire' = wire \o [i \in 1 .. n |-> Len(wire) + i]
    BY <2>1, <2>2 DEF Slice
  <2>4. Len(wire) + n <= accepted /\ (n = Remaining(data) => Len(wire) + n = accepted)
    <3>1. data.base \in Nat /\ data.m_len \in Nat /\ data.m_sendOff \in Nat
      BY <2>2 DEF SendBuf
    <3>2. Remaining(data) = accepted - Len(wire) /\ n <= Remaining(data)
      BY <2>1, <2>2, <3>1 DEF Remaining
    <3>3. QED
      BY <1>0, <3>1, <3>2
  <2>5. QED
    BY <2>1, <2>2, <2>3, <2>4, CarryStep
<1>3. ASSUME NEW n \in 1 .. MaxBytes, SendPendingWrites(n)
      PROVE  [Stream!Next]_(Stream!vars)
  <2>1. /\ pc = "flush" /\ bufs # <<>> /\ n \in 1 .. Remaining(bufs[1])
        /\ wire' = wire \o Slice(bufs[1], n) /\ accepted' = accepted /\ ended' = ended
    BY <1>3 DEF SendPendingWrites
  <2>2. ended = "no" /\ bufs \in Seq(SendBuf) /\ Continues(bufs, Len(wire), accepted)
    BY <1>0, <2>1, PendingList
  <2>3. /\ bufs[1] \in SendBuf /\ bufs[1].base + bufs[1].m_sendOff = Len(wire)
        /\ Remaining(bufs[1]) \in Nat \ {0} /\ Len(wire) + Remaining(bufs[1]) <= accepted
    BY <1>0, <2>1, <2>2, ContinuesFirst
  <2>4. wire' = wire \o [i \in 1 .. n |-> Len(wire) + i]
    BY <2>1, <2>3 DEF Slice
  <2>5. Len(wire) + n <= accepted
    BY <1>0, <2>1, <2>3
  <2>6. QED
    BY <2>1, <2>2, <2>4, <2>5, CarryStep
<1>4. CASE \E sentClose \in BOOLEAN : SetSentClose(sentClose)
  BY <1>0, <1>closed, <1>4, CloseStep DEF SetSentClose, CloseSession, IsOpen
<1>5. CASE \E cause \in {"app", "peer"} : CloseBy(cause)
  BY <1>0, <1>5, CloseStep DEF CloseBy, CloseSession, IsOpen
<1>6. CASE SendDataAgain \/ OnWrite \/ SendPendingAgain \/ PeerResets \/ UNCHANGED vars
  BY <1>6, CloseStep DEF SendDataAgain, OnWrite, SendPendingAgain, PeerResets, vars
<1>7. CASE SendDataFails \/ SendPendingFails
  BY <1>0, <1>7, CloseStep DEF SendDataFails, SendPendingFails, CloseSession
<1>8. CASE SendPendingDone
  BY <1>0, <1>closed, <1>8, CloseStep DEF SendPendingDone, CloseSession
<1>9. QED
  BY <1>1, <1>2, <1>3, <1>4, <1>5, <1>6, <1>7, <1>8 DEF Next

\* The session implements the byte stream: every step carries the next bytes, gives
\* new ones, closes, or changes nothing the stream can see.
THEOREM Refinement == SafeSpec => ImplementsByteStream
<1>1. Init => Stream!Init
  BY PhaseOf DEF Init, Phase, Stream!Init
<1>2. StreamInv /\ StreamInv' /\ [Next]_vars => [Stream!Next]_(Stream!vars)
  BY NextStream
<1>3. QED
  BY <1>1, <1>2, StreamInvariance, PTL DEF SafeSpec, ImplementsByteStream, Stream!Spec

-----------------------------------------------------------------------------
(* The write() loops come to an end.                                       *)

\* The bytes that SendData's loop or SendPendingData's may still write, and one step to return.
LoopVariant == IF pc = "idle" THEN 0 ELSE accepted - Len(wire) + 1

\* Each write() and each return brings the end of the loop nearer; the kernel, which is all
\* that moves meanwhile, does not put it off.
LoopNearsItsEnd ==
    pc # "idle" =>
        /\ LoopVariant' <= LoopVariant
        /\ LoopStep => LoopVariant' < LoopVariant

GivenWithinBound == accepted <= MaxBytes

Writing == IF pc = "send" THEN data ELSE Head(bufs)

\* The loop is never without a next write(): what it writes next has bytes left, and is
\* within the bound.
LoopGoesOn == pc = "send" \/ (pc = "flush" /\ bufs # <<>>) => Remaining(Writing) \in 1 .. MaxBytes

\* Of the bytes a step writes there are as many left to write before it.
LEMMA WritesWhatIsLeft ==
    ASSUME StreamInv, NEW n \in Nat \ {0},
           SendDataWrites(n) \/ SendPendingWrites(n)
    PROVE  Len(wire') = Len(wire) + n /\ Len(wire) + n <= accepted /\ accepted' = accepted
<1>0. /\ wire \in Seq(Nat) /\ Len(wire) \in Nat /\ accepted \in Nat
      /\ \A i \in 1 .. Len(wire) : wire[i] = i
  BY DEF StreamInv, TypeOK, InOrderOnce
<1>1. CASE SendDataWrites(n)
  <2>1. /\ n <= Remaining(data) /\ wire' = wire \o Slice(data, n) /\ accepted' = accepted
        /\ data \in SendBuf /\ data.base + data.m_sendOff = Len(wire)
        /\ data.base + data.m_len = accepted
    BY <1>1, DirectWrite DEF SendDataWrites
  <2>2. Remaining(data) = accepted - Len(wire)
    BY <2>1 DEF Remaining, SendBuf
  <2>3. QED
    BY <1>0, <2>1, <2>2, WireGrows
<1>2. CASE SendPendingWrites(n)
  <2>1. /\ pc = "flush" /\ bufs # <<>> /\ n \in 1 .. Remaining(bufs[1])
        /\ wire' = wire \o Slice(bufs[1], n) /\ accepted' = accepted
    BY <1>2 DEF SendPendingWrites
  <2>2. bufs \in Seq(SendBuf) /\ Continues(bufs, Len(wire), accepted)
    BY <2>1, PendingList DEF StreamInv, FrameSound, IsOpen
  <2>3. /\ bufs[1] \in SendBuf /\ bufs[1].base + bufs[1].m_sendOff = Len(wire)
        /\ Remaining(bufs[1]) \in Nat \ {0} /\ Len(wire) + Remaining(bufs[1]) <= accepted
    BY <1>0, <2>1, <2>2, ContinuesFirst
  <2>4. n <= Remaining(bufs[1])
    BY <2>1, <2>3
  <2>5. Len(wire') = Len(wire) + n
    BY <1>0, <2>1, <2>3, WireGrows
  <2>6. QED
    BY <1>0, <2>1, <2>3, <2>4, <2>5
<1>3. QED
  BY <1>1, <1>2

\* While the session is in a loop, the others cannot step; but for the peer, which may reset.
LEMMA LoopTurns ==
    ASSUME StreamInv, [Next]_vars
    PROVE  LoopNearsItsEnd
<1> SUFFICES ASSUME pc # "idle"
             PROVE  /\ LoopVariant' <= LoopVariant
                    /\ LoopStep => LoopVariant' < LoopVariant
  BY DEF LoopNearsItsEnd
<1>0. Len(wire) \in Nat /\ accepted \in Nat /\ Len(wire) <= accepted
  BY DEF StreamInv, TypeOK, InOrderOnce
<1>1. ASSUME NEW n \in 1 .. MaxBytes, SendDataWrites(n) \/ SendPendingWrites(n)
      PROVE  LoopVariant' < LoopVariant
  BY <1>0, <1>1, WritesWhatIsLeft, SendAssumption DEF LoopVariant
<1>2. CASE SendDataAgain \/ SendDataFails \/ SendPendingAgain \/ SendPendingFails \/ SendPendingDone
  <2>1. pc' = "idle"
    BY <1>2 DEF SendDataAgain, SendDataFails, SendPendingAgain, SendPendingFails, SendPendingDone
  <2>2. QED
    BY <1>0, <2>1 DEF LoopVariant
<1>3. CASE LoopStep
  <2>1. LoopVariant' < LoopVariant
    BY <1>1, <1>2, <1>3 DEF LoopStep, PendingWrite
  <2>2. LoopVariant \in Int /\ LoopVariant' \in Int
    <3>1. Len(wire') \in Int /\ accepted' \in Int
      BY NextStreamInv DEF StreamInv, TypeOK
    <3>2. QED
      BY <1>0, <3>1 DEF LoopVariant
  <2>3. QED
    BY <2>1, <2>2
<1>4. CASE ~LoopStep
  <2>1. UNCHANGED <<pc, wire, accepted>>
    BY <1>4 DEF Next, LoopStep, PendingWrite, SendData, SendDataBehind, Enqueue, SetSentClose,
                CloseBy, OnWrite, PeerResets, vars
  <2>2. QED
    BY <1>0, <1>4, <2>1 DEF LoopVariant
<1>5. QED
  BY <1>3, <1>4

LEMMA LoopNumbers ==
    ASSUME StreamInv, GivenWithinBound
    PROVE  LoopVariant \in Nat /\ LoopGoesOn
<1>0. Len(wire) \in Nat /\ accepted \in Nat /\ Len(wire) <= accepted /\ accepted <= MaxBytes
      /\ MaxBytes \in Nat
  BY SendAssumption DEF StreamInv, TypeOK, InOrderOnce, GivenWithinBound
<1>1. ASSUME pc = "send" PROVE Remaining(data) \in 1 .. MaxBytes
  BY <1>0, <1>1, DirectWrite DEF Remaining, SendBuf
<1>2. ASSUME pc = "flush", bufs # <<>> PROVE Remaining(Head(bufs)) \in 1 .. MaxBytes
  <2>1. bufs \in Seq(SendBuf) /\ Continues(bufs, Len(wire), accepted)
    BY <1>2, PendingList DEF StreamInv, FrameSound, IsOpen
  <2>2. Remaining(bufs[1]) \in Nat \ {0} /\ Len(wire) + Remaining(bufs[1]) <= accepted
    BY <1>0, <1>2, <2>1, ContinuesFirst
  <2>3. QED
    BY <1>0, <1>2, <2>1, <2>2
<1>3. QED
  BY <1>0, <1>1, <1>2 DEF LoopVariant, LoopGoesOn, Writing

LEMMA GivenBounded ==
    ASSUME GivenWithinBound, [Next]_vars
    PROVE  GivenWithinBound'
BY DEF GivenWithinBound, Next, SendData, SendDataBehind, Enqueue, SetSentClose, CloseBy,
       SendDataWrites, SendPendingWrites, SendDataAgain, SendDataFails, OnWrite, SendPendingAgain,
       SendPendingFails, SendPendingDone, PeerResets, vars

\* SendData and SendPendingData return, for any amount of data and however little each
\* write() takes: every turn of their loops lowers a natural number, and none is stuck.
THEOREM WritesComeToAnEnd ==
    SafeSpec => [](LoopVariant \in Nat /\ LoopGoesOn) /\ [][LoopNearsItsEnd]_vars
<1>1. Init => StreamInv /\ GivenWithinBound
  BY InitStreamInv, SendAssumption DEF Init, GivenWithinBound
<1>2. StreamInv /\ GivenWithinBound /\ [Next]_vars =>
        (StreamInv /\ GivenWithinBound)' /\ LoopNearsItsEnd
  BY NextStreamInv, GivenBounded, LoopTurns
<1>3. StreamInv /\ GivenWithinBound => LoopVariant \in Nat /\ LoopGoesOn
  BY LoopNumbers
<1>4. QED
  BY <1>1, <1>2, <1>3, PTL DEF SafeSpec
=============================================================================
