----------------------- MODULE DefaultTcpSessionProofs -----------------------
(***************************************************************************)
(* For every head length, every m_nMaxMsgLen and every cut of the stream:  *)
(* ProcessMessage is given the messages that were sent, in order and each  *)
(* whole, none that has arrived is held back, m_data never keeps as much   *)
(* as a whole message, and each turn of OnRecvData's loop takes bytes out  *)
(* of m_data or ends the loop.                                             *)
(***************************************************************************)
EXTENDS DefaultTcpSession, SequenceTheorems, TLAPS

-----------------------------------------------------------------------------
(* The messages in the stream.                                             *)

\* What a sound stream says of one message.
LEMMA MessageFacts ==
    ASSUME DecoderAssumption, TypeOK, StreamSound, NEW i \in 1 .. Len(msgs)
    PROVE  /\ msgs[i].start \in Nat /\ msgs[i].len \in Nat /\ msgs[i].head \in Nat
           /\ HeadLen \in Nat \ {0} /\ m_nMaxMsgLen \in Nat
           /\ msgs[i].len >= HeadLen
           /\ msgs[i].head = msgs[i].len \/ Illegal(msgs[i].head)
           /\ EndOf(i) = msgs[i].start + msgs[i].len /\ EndOf(i) <= total
<1>1. /\ msgs[i] \in SentMsg
      /\ msgs[i].start \in Nat /\ msgs[i].len \in Nat /\ msgs[i].head \in Nat
  <2>1. msgs[i] \in SentMsg
    BY ElementOfSeq DEF TypeOK
  <2>2. QED
    BY <2>1 DEF SentMsg
<1>2. [len |-> msgs[i].len, head |-> msgs[i].head] \in Messages
  BY DEF StreamSound
<1>3. /\ msgs[i].len >= HeadLen
      /\ msgs[i].head = msgs[i].len \/ Illegal(msgs[i].head)
  BY <1>2 DEF DecoderAssumption
<1>4. EndOf(i) = msgs[i].start + msgs[i].len /\ EndOf(i) <= total
  <2>1. EndOf(i) <= total /\ i # 0
    BY DEF StreamSound
  <2>2. QED
    BY <2>1 DEF EndOf
<1>5. QED
  BY <1>1, <1>3, <1>4 DEF DecoderAssumption

\* The decoder stands where the next message starts; when it has a head, that message was
\* sent, and the head it reads is that message's.
LEMMA NextHead ==
    ASSUME DecoderAssumption, IInv, HasHead
    PROVE  /\ Len(delivered) + 1 \in 1 .. Len(msgs)
           /\ msgs[Len(delivered) + 1].start = Erased
           /\ HeadsAt(Erased) = {msgs[Len(delivered) + 1].head}
<1> DEFINE k == Len(delivered)
<1>0. /\ k \in Nat /\ Len(msgs) \in Nat /\ k <= Len(msgs) /\ Erased = EndOf(k)
      /\ base \in Nat /\ got \in Nat /\ sent \in Nat /\ total \in Nat /\ m_nPos \in Nat
      /\ got <= sent /\ sent <= total /\ HeadLen \in Nat \ {0}
  BY DEF IInv, TypeOK, MessagesAreThoseSent, StreamSound, DecoderAssumption
<1>1. Erased < total
  BY <1>0 DEF HasHead, Erased
<1>2. k # Len(msgs)
  BY <1>0, <1>1 DEF IInv, StreamSound
<1>3. k + 1 \in 1 .. Len(msgs)
  BY <1>0, <1>2
<1>4. msgs[k + 1].start = Erased
  <2>1. msgs[k + 1].start = EndOf((k + 1) - 1)
    BY <1>3 DEF IInv, StreamSound
  <2>2. (k + 1) - 1 = k
    BY <1>0
  <2>3. QED
    BY <1>0, <2>1, <2>2
<1>5. ASSUME NEW i \in 1 .. Len(msgs), msgs[i].start = Erased
      PROVE  i = k + 1
  <2>0. /\ msgs[i].start \in Nat /\ msgs[i].len \in Nat /\ msgs[i].len > 0
        /\ EndOf(i) = msgs[i].start + msgs[i].len
    BY MessageFacts DEF IInv
  <2>1. ASSUME i < k + 1
        PROVE  FALSE
    <3>1. EndOf(i) <= msgs[k + 1].start
      BY <1>3, <2>1 DEF IInv, StreamSound
    <3>2. QED
      BY <1>4, <1>5, <2>0, <3>1
  <2>2. ASSUME k + 1 < i
        PROVE  FALSE
    <3>1. EndOf(k + 1) <= msgs[i].start
      BY <1>3, <2>2 DEF IInv, StreamSound
    <3>2. /\ msgs[k + 1].start \in Nat /\ msgs[k + 1].len \in Nat /\ msgs[k + 1].len > 0
          /\ EndOf(k + 1) = msgs[k + 1].start + msgs[k + 1].len
      BY <1>3, MessageFacts DEF IInv
    <3>3. QED
      BY <1>4, <1>5, <2>0, <3>1, <3>2
  <2>3. QED
    BY <1>0, <2>1, <2>2
<1>6. HeadsAt(Erased) = {msgs[i].head : i \in {j \in 1 .. Len(msgs) : msgs[j].start = Erased}}
  BY <1>3, <1>4 DEF HeadsAt
<1>7. {j \in 1 .. Len(msgs) : msgs[j].start = Erased} = {k + 1}
  BY <1>3, <1>4, <1>5
<1>8. HeadsAt(Erased) = {msgs[k + 1].head}
  BY <1>6, <1>7
<1>9. QED
  BY <1>3, <1>4, <1>8

-----------------------------------------------------------------------------
(* The invariant.                                                          *)

LEMMA InitIInv == DecoderAssumption /\ Init => IInv
<1> SUFFICES ASSUME DecoderAssumption, Init PROVE IInv
  OBVIOUS
<1>1. TypeOK
  BY EmptySeq DEF TypeOK, Init, DecoderAssumption
<1>2. QED
  BY <1>1, EmptySeq DEF IInv, Init, StreamSound, MessagesAreThoseSent, NoneHeldBack, EndOf, Erased

\* A step of the peer or the connection: more messages, or more of their bytes.
LEMMA PeerStep ==
    ASSUME DecoderAssumption, IInv,
           (\E m \in Messages : PeerSends(m)) \/ (\E n \in 1 .. total : Carry(n))
    PROVE  IInv'
<1>0. /\ msgs \in Seq(SentMsg) /\ total \in Nat /\ sent \in Nat
      /\ base \in Nat /\ got \in Nat /\ m_nPos \in Nat /\ Len(msgs) \in Nat
      /\ delivered \in Seq(RecvMsg) /\ Len(delivered) \in Nat
      /\ Len(delivered) <= Len(msgs) /\ got <= sent /\ sent <= total
      /\ HeadLen \in Nat \ {0} /\ m_nMaxMsgLen \in Nat
  BY DEF IInv, TypeOK, StreamSound, MessagesAreThoseSent, DecoderAssumption
<1>1. ASSUME NEW m \in Messages, PeerSends(m)
      PROVE  IInv'
  <2>last. PICK last \in Nat \ {0} : last = Len(msgs) + 1
    BY <1>0
  <2>1. /\ m.len \in Nat /\ m.head \in Nat /\ m.len >= HeadLen /\ m \in [len : Nat, head : Nat]
    BY DEF DecoderAssumption
  <2>2. /\ msgs' = Append(msgs, Sent(m)) /\ total' = total + m.len /\ sent' = sent
        /\ base' = base /\ got' = got /\ m_nPos' = m_nPos /\ recvPc' = recvPc
        /\ delivered' = delivered /\ recvEnded' = recvEnded
    BY <1>1 DEF PeerSends, recvVars
  <2>3. /\ Sent(m) \in SentMsg
        /\ Sent(m).start = total /\ Sent(m).len = m.len /\ Sent(m).head = m.head
    BY <1>0, <2>last, <2>1 DEF Sent, SentMsg
  <2>4. /\ msgs' \in Seq(SentMsg)
        /\ Len(msgs') = last /\ msgs'[last] = Sent(m)
        /\ \A i \in 1 .. Len(msgs) : msgs'[i] = msgs[i]
    BY <1>0, <2>last, <2>2, <2>3
  <2>5. TypeOK'
    BY <1>0, <2>last, <2>1, <2>2, <2>4 DEF IInv, TypeOK
  <2>6. ASSUME NEW i \in 0 .. Len(msgs)
        PROVE  EndOf(i)' = EndOf(i)
    <3>1. i # 0 => msgs'[i] = msgs[i]
      BY <1>0, <2>last, <2>4
    <3>2. QED
      BY <3>1 DEF EndOf
  <2>7. EndOf(last)' = total'
    <3>1. last # 0 /\ EndOf(last)' = msgs'[last].start + msgs'[last].len
      BY <2>last DEF EndOf
    <3>2. QED
      BY <1>0, <2>last, <2>1, <2>2, <2>3, <2>4, <3>1
  <2>8. ASSUME NEW i \in 1 .. last
        PROVE  /\ [len |-> msgs'[i].len, head |-> msgs'[i].head] \in Messages
               /\ msgs'[i].start = EndOf(i - 1)' /\ EndOf(i)' <= total'
    <3>1. CASE i = last
      <4>1. [len |-> m.len, head |-> m.head] = m
        BY <2>1
      <4>2. EndOf(i - 1)' = EndOf(Len(msgs)) /\ EndOf(Len(msgs)) = total
        BY <1>0, <2>last, <2>6, <3>1 DEF IInv, StreamSound
      <4>3. QED
        BY <1>0, <2>last, <2>1, <2>2, <2>3, <2>4, <2>7, <3>1, <4>1, <4>2
    <3>2. CASE i # last
      <4>1. i \in 1 .. Len(msgs) /\ i - 1 \in 0 .. Len(msgs) /\ msgs'[i] = msgs[i]
        BY <1>0, <2>last, <2>4, <3>2
      <4>2. EndOf(i)' = EndOf(i) /\ EndOf(i - 1)' = EndOf(i - 1)
        BY <1>0, <2>last, <2>6, <4>1
      <4>3. /\ EndOf(i) <= total /\ EndOf(i) = msgs[i].start + msgs[i].len
            /\ msgs[i].start \in Nat /\ msgs[i].len \in Nat
        BY <4>1, MessageFacts DEF IInv
      <4>4. /\ [len |-> msgs[i].len, head |-> msgs[i].head] \in Messages
            /\ msgs[i].start = EndOf(i - 1)
        BY <4>1 DEF IInv, StreamSound
      <4>5. EndOf(i)' <= total'
        <5>1. total' \in Nat /\ total <= total'
          BY <1>0, <2>1, <2>2
        <5>2. EndOf(i) \in Nat
          BY <4>3
        <5>3. QED
          BY <1>0, <4>2, <4>3, <5>1, <5>2
      <4>6. QED
        BY <4>1, <4>2, <4>4, <4>5
    <3>3. QED
      BY <3>1, <3>2
  <2>9. ASSUME NEW i \in 1 .. last, NEW j \in 1 .. last, i < j
        PROVE  EndOf(i)' <= msgs'[j].start
    <3>1. i \in 1 .. Len(msgs) /\ EndOf(i)' = EndOf(i) /\ EndOf(i) <= total
      BY <1>0, <2>last, <2>6, <2>9 DEF IInv, StreamSound
    <3>2. CASE j = last
      BY <2>last, <2>3, <2>4, <3>1, <3>2
    <3>3. CASE j # last
      BY <1>0, <2>last, <2>4, <2>9, <3>1, <3>3 DEF IInv, StreamSound
    <3>4. QED
      BY <3>2, <3>3
  <2>10. StreamSound'
    <3>1. got' <= sent' /\ sent' <= total' /\ Erased' <= got'
      BY <1>0, <2>last, <2>1, <2>2 DEF IInv, StreamSound, Erased
    <3>2. QED
      BY <2>last, <2>4, <2>7, <2>8, <2>9, <3>1 DEF StreamSound
  <2>11. MessagesAreThoseSent'
    <3>1. Len(delivered) \in 0 .. Len(msgs)
      BY <1>0
    <3>2. \A i \in 1 .. Len(delivered) : msgs'[i] = msgs[i]
      BY <1>0, <2>last, <2>4
    <3>3. QED
      BY <1>0, <2>last, <2>2, <2>4, <2>6, <3>1, <3>2 DEF IInv, MessagesAreThoseSent, Erased
  <2>12. NoneHeldBack'
    <3> SUFFICES ASSUME recvPc = "idle", recvEnded = "no", NEW i \in 1 .. last,
                        i > Len(delivered), got - msgs'[i].start >= HeadLen
                 PROVE  ~Illegal(msgs'[i].head) /\ got < EndOf(i)'
      BY <2>last, <2>2, <2>4 DEF NoneHeldBack
    <3>1. i # last
      BY <1>0, <2>last, <2>3, <2>4
    <3>2. i \in 1 .. Len(msgs) /\ msgs'[i] = msgs[i] /\ EndOf(i)' = EndOf(i)
      BY <1>0, <2>last, <2>4, <2>6, <3>1
    <3>3. QED
      BY <3>2 DEF IInv, NoneHeldBack
  <2>13. QED
    BY <2>5, <2>10, <2>11, <2>12 DEF IInv
<1>2. ASSUME NEW n \in 1 .. total, Carry(n)
      PROVE  IInv'
  <2>1. /\ UNCHANGED <<msgs, total, base, got, m_nPos, recvPc, delivered, recvEnded>>
        /\ sent' = sent + n /\ sent + n <= total /\ n \in Nat
    BY <1>0, <1>2 DEF Carry, recvVars
  <2>2. TypeOK' /\ StreamSound'
    BY <1>0, <2>1 DEF IInv, TypeOK, StreamSound, EndOf, Erased
  <2>3. MessagesAreThoseSent' /\ NoneHeldBack'
    BY <2>1 DEF IInv, MessagesAreThoseSent, NoneHeldBack, EndOf, Erased
  <2>4. QED
    BY <2>2, <2>3 DEF IInv
<1>3. QED
  BY <1>1, <1>2

\* A step that erases what was processed and delivers nothing.
LEMMA EraseStep ==
    ASSUME DecoderAssumption, IInv, UNCHANGED <<peerVars, delivered>>,
           \/ base' = Erased /\ m_nPos' = 0
           \/ base' = base /\ m_nPos' = m_nPos,
           got' \in Nat, got <= got', got' <= sent,
           recvPc' \in {"idle", "get", "process"},
           recvEnded' \in {"no", "app", "illegal", "eof", "reset"},
           NoneHeldBack'
    PROVE  IInv'
<1>0. base \in Nat /\ m_nPos \in Nat /\ got \in Nat /\ m_nMaxMsgLen \in Nat
  BY DEF IInv, TypeOK, DecoderAssumption
<1>1. Erased' = Erased
  BY <1>0 DEF Erased
<1>2. TypeOK'
  BY <1>0 DEF IInv, TypeOK, Erased, peerVars
<1>3. StreamSound'
  <2>1. got' <= sent' /\ sent' <= total' /\ Erased' <= got'
    BY <1>0, <1>1 DEF IInv, TypeOK, StreamSound, Erased, peerVars
  <2>2. QED
    BY <2>1 DEF IInv, StreamSound, EndOf, peerVars
<1>4. MessagesAreThoseSent'
  BY <1>1 DEF IInv, MessagesAreThoseSent, EndOf, peerVars
<1>5. QED
  BY <1>2, <1>3, <1>4 DEF IInv

\* No message after the next one has a byte in m_data unless the next one is whole.
LEMMA OnlyNextMayBegin ==
    ASSUME DecoderAssumption, IInv, NEW i \in 1 .. Len(msgs), i > Len(delivered),
           got - msgs[i].start >= HeadLen
    PROVE  /\ HasHead
           /\ i = Len(delivered) + 1 \/ got >= EndOf(Len(delivered) + 1)
<1> DEFINE k == Len(delivered) + 1
<1>0. /\ k \in 1 .. Len(msgs) /\ Len(delivered) \in Nat /\ got \in Nat
      /\ base \in Nat /\ m_nPos \in Nat
      /\ msgs[i].start \in Nat /\ HeadLen \in Nat \ {0}
  BY MessageFacts DEF IInv, TypeOK
<1>1. /\ msgs[k].start \in Nat /\ msgs[k].len \in Nat /\ EndOf(k) = msgs[k].start + msgs[k].len
  BY <1>0, MessageFacts DEF IInv
<1>2. msgs[k].start = Erased
  <2>1. msgs[k].start = EndOf(k - 1)
    BY <1>0 DEF IInv, StreamSound
  <2>2. k - 1 = Len(delivered)
    BY <1>0
  <2>3. QED
    BY <2>1, <2>2 DEF IInv, MessagesAreThoseSent
<1>3. CASE i = k
  BY <1>2, <1>3 DEF HasHead
<1>4. CASE i # k
  <2>1. EndOf(k) <= msgs[i].start
    BY <1>0, <1>4 DEF IInv, StreamSound
  <2>2. got >= EndOf(k) /\ got - Erased >= HeadLen
    BY <1>0, <1>1, <1>2, <2>1
  <2>3. QED
    BY <2>2 DEF HasHead
<1>5. QED
  BY <1>3, <1>4

LEMMA RecvStep ==
    ASSUME DecoderAssumption, IInv, RecvNext
    PROVE  IInv'
<1>0. /\ base \in Nat /\ m_nPos \in Nat /\ got \in Nat /\ sent \in Nat /\ got <= sent
      /\ recvPc \in {"idle", "get", "process"} /\ Len(delivered) \in Nat /\ Len(msgs) \in Nat
      /\ recvEnded \in {"no", "app", "illegal", "eof", "reset"}
      /\ m_nMaxMsgLen \in Nat /\ HeadLen \in Nat \ {0}
  BY DEF IInv, TypeOK, StreamSound, DecoderAssumption
<1>1. ASSUME NEW n \in 1 .. sent, OnRecvData(n)
      PROVE  IInv'
  <2>1. NoneHeldBack'
    BY <1>1 DEF OnRecvData, NoneHeldBack
  <2>2. got' = got + n /\ n \in Nat /\ got + n <= sent
    BY <1>0, <1>1 DEF OnRecvData
  <2>3. QED
    BY <1>0, <1>1, <2>1, <2>2, EraseStep DEF OnRecvData
<1>2. CASE GetNeedsMore
  <2>1. NoneHeldBack'
    <3> SUFFICES ASSUME NEW i \in 1 .. Len(msgs), i > Len(delivered),
                        got - msgs[i].start >= HeadLen
                 PROVE  ~Illegal(msgs[i].head) /\ got < EndOf(i)
      BY <1>2 DEF GetNeedsMore, NoneHeldBack, EndOf, peerVars
    <3> DEFINE k == Len(delivered) + 1
    <3>1. HasHead /\ (i = k \/ got >= EndOf(k))
      BY OnlyNextMayBegin
    <3>2. k \in 1 .. Len(msgs) /\ msgs[k].start = Erased /\ HeadsAt(Erased) = {msgs[k].head}
      BY <3>1, NextHead
    <3>3. ~Illegal(msgs[k].head) /\ ~(got - Erased >= msgs[k].head)
      BY <1>2, <3>1, <3>2 DEF GetNeedsMore, Rejects, Complete
    <3>4. /\ msgs[k].len \in Nat /\ msgs[k].start \in Nat /\ msgs[k].head = msgs[k].len
          /\ EndOf(k) = msgs[k].start + msgs[k].len
      BY <3>2, <3>3, MessageFacts DEF IInv
    <3>5. got < EndOf(k)
      BY <1>0, <3>2, <3>3, <3>4
    <3>6. i = k
      BY <1>0, <3>1, <3>4, <3>5
    <3>7. QED
      BY <3>3, <3>5, <3>6
  <2>2. QED
    BY <1>0, <1>2, <2>1, EraseStep DEF GetNeedsMore
<1>3. CASE GetRejects
  <2>1. recvEnded' \in {"app", "illegal", "eof", "reset"}
    BY <1>0, <1>3 DEF GetRejects, CloseRecv
  <2>2. NoneHeldBack'
    BY <2>1 DEF NoneHeldBack
  <2>3. QED
    BY <1>0, <1>3, <2>1, <2>2, EraseStep DEF GetRejects
<1>4. CASE GetMessage
  <2> DEFINE k == Len(delivered) + 1
  <2>1. k \in 1 .. Len(msgs) /\ msgs[k].start = Erased /\ HeadsAt(Erased) = {msgs[k].head}
    BY <1>4, NextHead DEF GetMessage
  <2>2. /\ ~Illegal(msgs[k].head) /\ got - Erased >= msgs[k].head
        /\ m_nPos' = msgs[k].head
        /\ delivered' = Append(delivered, [start |-> Erased, len |-> msgs[k].head])
        /\ base' = Erased /\ recvPc' = "process" /\ got' = got /\ recvEnded' = recvEnded
        /\ UNCHANGED peerVars
    BY <1>4, <2>1 DEF GetMessage, Rejects, Complete
  <2>3. /\ msgs[k].len \in Nat /\ msgs[k].start \in Nat /\ msgs[k].head = msgs[k].len
        /\ msgs[k].head \in 0 .. m_nMaxMsgLen
        /\ EndOf(k) = msgs[k].start + msgs[k].len
    BY <1>0, <2>1, <2>2, MessageFacts DEF IInv, Illegal
  <2>4. [start |-> Erased, len |-> msgs[k].len] \in RecvMsg
    BY <2>1, <2>3 DEF RecvMsg
  <2>5. /\ delivered' \in Seq(RecvMsg) /\ Len(delivered') = k
        /\ delivered'[k] = [start |-> msgs[k].start, len |-> msgs[k].len]
        /\ \A i \in 1 .. Len(delivered) : delivered'[i] = delivered[i]
    <3>1. delivered \in Seq(RecvMsg)
      BY DEF IInv, TypeOK
    <3>2. QED
      BY <2>1, <2>2, <2>3, <2>4, <3>1
  <2>6. Erased' = EndOf(k)
    BY <2>1, <2>2, <2>3 DEF Erased
  <2>7. TypeOK'
    BY <1>0, <2>1, <2>2, <2>3, <2>5 DEF IInv, TypeOK, peerVars
  <2>8. EndOf(k) <= got
    BY <1>0, <2>1, <2>2, <2>3
  <2>9. StreamSound'
    BY <2>2, <2>6, <2>8 DEF IInv, StreamSound, EndOf, peerVars
  <2>10. MessagesAreThoseSent'
    <3>1. ASSUME NEW i \in 1 .. k
          PROVE  delivered'[i] = [start |-> msgs[i].start, len |-> msgs[i].len]
      <4>1. CASE i = k
        BY <2>5, <4>1
      <4>2. CASE i # k
        <5>1. i \in 1 .. Len(delivered)
          BY <1>0, <4>2
        <5>2. delivered[i] = [start |-> msgs[i].start, len |-> msgs[i].len]
          BY <5>1 DEF IInv, MessagesAreThoseSent
        <5>3. QED
          BY <2>5, <5>1, <5>2
      <4>3. QED
        BY <4>1, <4>2
    <3>2. QED
      BY <2>1, <2>2, <2>5, <2>6, <3>1 DEF MessagesAreThoseSent, EndOf, peerVars
  <2>11. NoneHeldBack'
    BY <2>2 DEF NoneHeldBack
  <2>12. QED
    BY <2>7, <2>9, <2>10, <2>11 DEF IInv
<1>5. CASE ProcessMessageReturns
  <2>1. NoneHeldBack'
    BY <1>5 DEF ProcessMessageReturns, NoneHeldBack
  <2>2. QED
    BY <1>0, <1>5, <2>1, EraseStep DEF ProcessMessageReturns
<1>6. CASE AppClosesRecv \/ \E cause \in {"eof", "reset"} : ReadEnds(cause)
  <2>1. /\ UNCHANGED <<peerVars, base, got, m_nPos, recvPc, delivered>>
        /\ recvEnded' \in {"app", "eof", "reset"}
    BY <1>6 DEF AppClosesRecv, ReadEnds, CloseRecv
  <2>2. NoneHeldBack'
    BY <2>1 DEF NoneHeldBack
  <2>3. QED
    BY <1>0, <2>1, <2>2, EraseStep
<1>7. QED
  BY <1>1, <1>2, <1>3, <1>4, <1>5, <1>6 DEF RecvNext, LoopStep

LEMMA NextIInv == DecoderAssumption /\ IInv /\ [Next]_vars => IInv'
<1> SUFFICES ASSUME DecoderAssumption, IInv, [Next]_vars
             PROVE  IInv'
  OBVIOUS
<1>1. CASE Next
  BY <1>1, PeerStep, RecvStep DEF Next
<1>2. CASE UNCHANGED vars
  BY <1>2 DEF vars, peerVars, recvVars, IInv, TypeOK, StreamSound, MessagesAreThoseSent,
              NoneHeldBack, EndOf, Erased
<1>3. QED
  BY <1>1, <1>2

\* OnRecvData and DefaultMsgDecoder: for every head length and every m_nMaxMsgLen the
\* messages given to ProcessMessage are those that were sent, and none is held back.
THEOREM DecoderSound ==
    ASSUME DecoderAssumption
    PROVE  SafeSpec => [](TypeOK /\ MessagesAreThoseSent /\ NoneHeldBack)
<1>1. Init => IInv
  BY InitIInv
<1>2. IInv /\ [Next]_vars => IInv'
  BY NextIInv
<1>3. IInv => TypeOK /\ MessagesAreThoseSent /\ NoneHeldBack
  BY DEF IInv
<1>4. QED
  BY <1>1, <1>2, <1>3, PTL DEF SafeSpec

\* m_data stays small: back in the event loop it holds less than the longest message.
Bounded == recvPc = "idle" /\ recvEnded = "no" => got - Erased < m_nMaxMsgLen

\* AppendData adds what one read() returns, and what the loop leaves behind is always the
\* beginning of one message: m_data never grows past that, however fast the peer sends.
THEOREM BufferBounded ==
    ASSUME DecoderAssumption
    PROVE  SafeSpec => []Bounded
<1>1. IInv => Bounded
  <2> SUFFICES ASSUME IInv, recvPc = "idle", recvEnded = "no"
               PROVE  got - Erased < m_nMaxMsgLen
    BY DEF Bounded
  <2> DEFINE k == Len(delivered) + 1
  <2>0. /\ base \in Nat /\ m_nPos \in Nat /\ got \in Nat /\ Len(delivered) \in Nat
        /\ m_nMaxMsgLen \in Nat /\ HeadLen \in Nat \ {0} /\ HeadLen <= m_nMaxMsgLen
    BY DEF IInv, TypeOK, DecoderAssumption
  <2>1. CASE ~HasHead
    BY <2>0, <2>1 DEF HasHead, Erased
  <2>2. CASE HasHead
    <3>1. k \in 1 .. Len(msgs) /\ msgs[k].start = Erased /\ got - msgs[k].start >= HeadLen
      BY <2>2, NextHead DEF HasHead
    <3>2. ~Illegal(msgs[k].head) /\ got < EndOf(k)
      BY <2>0, <3>1 DEF IInv, NoneHeldBack
    <3>3. /\ msgs[k].len \in Nat /\ msgs[k].start \in Nat /\ msgs[k].head = msgs[k].len
          /\ EndOf(k) = msgs[k].start + msgs[k].len
      BY <3>1, <3>2, MessageFacts DEF IInv
    <3>4. QED
      BY <2>0, <3>1, <3>2, <3>3 DEF Illegal
  <2>3. QED
    BY <2>1, <2>2
<1>2. Init => IInv
  BY InitIInv
<1>3. IInv /\ [Next]_vars => IInv'
  BY NextIInv
<1>4. QED
  BY <1>1, <1>2, <1>3, PTL DEF SafeSpec

-----------------------------------------------------------------------------
(* OnRecvData's loop comes to an end.                                      *)

\* The bytes of m_data that are left weigh more than a turn of the loop.
LoopVariant ==
    2 * (got - Erased) + (CASE recvPc = "idle" -> 0 [] recvPc = "get" -> 1
                            [] recvPc = "process" -> 2)

\* Each step of the loop brings its end nearer, and nothing that happens meanwhile, a close
\* in ProcessMessage included, puts it off.
LoopNearsItsEnd ==
    recvPc # "idle" =>
        /\ LoopVariant' <= LoopVariant
        /\ LoopStep => LoopVariant' < LoopVariant

\* The loop is never without a next step: a head that GetMessage looks at was written by the
\* peer, as the head of the message that is next.
LoopGoesOn ==
    recvPc = "get" /\ HasHead =>
        /\ Len(delivered) + 1 \in 1 .. Len(msgs)
        /\ HeadsAt(Erased) = {msgs[Len(delivered) + 1].head}

LEMMA LoopNumbers ==
    ASSUME DecoderAssumption, IInv
    PROVE  /\ base \in Nat /\ got \in Nat /\ m_nPos \in Nat /\ Erased \in Nat /\ Erased <= got
           /\ HeadLen \in Nat \ {0} /\ recvPc \in {"idle", "get", "process"}
BY DEF IInv, TypeOK, StreamSound, DecoderAssumption, Erased

LEMMA LoopTurns ==
    ASSUME DecoderAssumption, IInv, [Next]_vars
    PROVE  LoopNearsItsEnd
<1> SUFFICES ASSUME recvPc # "idle"
             PROVE  /\ LoopVariant' <= LoopVariant
                    /\ LoopStep => LoopVariant' < LoopVariant
  BY DEF LoopNearsItsEnd
<1>0. /\ base \in Nat /\ got \in Nat /\ m_nPos \in Nat /\ HeadLen \in Nat \ {0}
      /\ recvPc \in {"idle", "get", "process"}
  BY LoopNumbers
<1>1. CASE GetNeedsMore \/ GetRejects \/ ProcessMessageReturns
  BY <1>0, <1>1 DEF GetNeedsMore, GetRejects, ProcessMessageReturns, LoopVariant, Erased
<1>2. CASE GetMessage
  <2>1. PICK head \in HeadsAt(Erased) : ~Rejects(head) /\ m_nPos' = head
    BY <1>2 DEF GetMessage
  <2>2. HeadsAt(Erased) = {msgs[Len(delivered) + 1].head} /\ msgs[Len(delivered) + 1].head \in Nat
    BY <1>2, NextHead, MessageFacts DEF GetMessage, IInv
  <2>3. head \in Nat /\ head >= HeadLen
    BY <1>0, <2>1, <2>2 DEF Rejects, Illegal
  <2>4. QED
    BY <1>0, <1>2, <2>1, <2>3 DEF GetMessage, LoopVariant, Erased
<1>3. CASE ~LoopStep
  <2>1. UNCHANGED <<base, got, m_nPos, recvPc>>
    BY <1>3 DEF Next, RecvNext, PeerSends, Carry, OnRecvData, AppClosesRecv, ReadEnds, recvVars, vars
  <2>2. QED
    BY <1>0, <1>3, <2>1 DEF LoopVariant, Erased
<1>4. QED
  BY <1>1, <1>2, <1>3 DEF LoopStep

\* OnRecvData and GetMessage: every turn of the loop takes bytes out of m_data, and none is
\* ever stuck, whatever lengths the heads hold: OnRecvData returns.
THEOREM OnRecvDataComesToAnEnd ==
    ASSUME DecoderAssumption
    PROVE  SafeSpec => [](LoopVariant \in Nat /\ LoopGoesOn) /\ [][LoopNearsItsEnd]_vars
<1>1. Init => IInv
  BY InitIInv
<1>2. IInv /\ [Next]_vars => IInv' /\ LoopNearsItsEnd
  BY NextIInv, LoopTurns
<1>3. IInv => LoopVariant \in Nat /\ LoopGoesOn
  <2> SUFFICES ASSUME IInv PROVE LoopVariant \in Nat /\ LoopGoesOn
    OBVIOUS
  <2>1. LoopVariant \in Nat
    BY LoopNumbers DEF LoopVariant
  <2>2. QED
    BY <2>1, NextHead DEF LoopGoesOn
<1>4. QED
  BY <1>1, <1>2, <1>3, PTL DEF SafeSpec
=============================================================================
