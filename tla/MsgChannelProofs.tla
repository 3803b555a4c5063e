--------------------------- MODULE MsgChannelProofs ---------------------------
(***************************************************************************)
(* The channel is a TcpSession whose stream a DefaultTcpSession cuts up:   *)
(* both invariants hold together, and ProcessMessage is given the messages *)
(* that SendData was given.                                                *)
(***************************************************************************)
EXTENDS MsgChannel, TcpSessionProofs

Decoder == INSTANCE DefaultTcpSessionProofs WITH total <- accepted, sent <- Len(wire)

ChannelIInv == IInv /\ Decoder!IInv

\* The two instances of DefaultTcpSession, one for TLC and one with its theorems, are the same.
LEMMA SameDecoder ==
    /\ Decoder!DecoderAssumption
    /\ Receiver!Init <=> Decoder!Init
    /\ Receiver!LoopStep <=> Decoder!LoopStep
    /\ Receiver!AppClosesRecv <=> Decoder!AppClosesRecv
    /\ \A n \in Nat : Receiver!OnRecvData(n) <=> Decoder!OnRecvData(n)
    /\ \A cause \in {"eof", "reset"} : Receiver!ReadEnds(cause) <=> Decoder!ReadEnds(cause)
    /\ \A m \in Messages : Receiver!PeerSends(m) <=> Decoder!PeerSends(m)
    /\ \A n \in Nat : Receiver!Carry(n) <=> Decoder!Carry(n)
    /\ \A m \in Messages : Receiver!Sent(m) = Decoder!Sent(m)
    /\ Receiver!vars = Decoder!vars
<1>1. Decoder!DecoderAssumption
  BY ChannelAssumption
  DEF Receiver!DecoderAssumption, Decoder!DecoderAssumption, Receiver!Illegal, Decoder!Illegal
<1>2. Receiver!Init <=> Decoder!Init
  BY DEF Receiver!Init, Decoder!Init
<1>3. Receiver!LoopStep <=> Decoder!LoopStep
  <2>1. Receiver!GetNeedsMore <=> Decoder!GetNeedsMore
    BY Zenon
    DEF Receiver!GetNeedsMore, Decoder!GetNeedsMore, Receiver!HasHead, Decoder!HasHead,
        Receiver!Erased, Decoder!Erased, Receiver!HeadsAt, Decoder!HeadsAt,
        Receiver!Rejects, Decoder!Rejects, Receiver!Illegal, Decoder!Illegal,
        Receiver!Complete, Decoder!Complete, Receiver!peerVars, Decoder!peerVars
  <2>2. Receiver!GetRejects <=> Decoder!GetRejects
    BY Zenon
    DEF Receiver!GetRejects, Decoder!GetRejects, Receiver!HasHead, Decoder!HasHead,
        Receiver!Erased, Decoder!Erased, Receiver!HeadsAt, Decoder!HeadsAt,
        Receiver!Rejects, Decoder!Rejects, Receiver!Illegal, Decoder!Illegal,
        Receiver!CloseRecv, Decoder!CloseRecv, Receiver!peerVars, Decoder!peerVars
  <2>3. Receiver!GetMessage <=> Decoder!GetMessage
    BY Zenon
    DEF Receiver!GetMessage, Decoder!GetMessage, Receiver!HasHead, Decoder!HasHead,
        Receiver!Erased, Decoder!Erased, Receiver!HeadsAt, Decoder!HeadsAt,
        Receiver!Rejects, Decoder!Rejects, Receiver!Illegal, Decoder!Illegal,
        Receiver!Complete, Decoder!Complete, Receiver!peerVars, Decoder!peerVars
  <2>4. Receiver!ProcessMessageReturns <=> Decoder!ProcessMessageReturns
    BY DEF Receiver!ProcessMessageReturns, Decoder!ProcessMessageReturns,
           Receiver!peerVars, Decoder!peerVars
  <2>5. QED
    BY <2>1, <2>2, <2>3, <2>4 DEF Receiver!LoopStep, Decoder!LoopStep
<1>4. Receiver!AppClosesRecv <=> Decoder!AppClosesRecv
  BY DEF Receiver!AppClosesRecv, Decoder!AppClosesRecv, Receiver!CloseRecv, Decoder!CloseRecv,
         Receiver!peerVars, Decoder!peerVars
<1>5. \A n \in Nat : Receiver!OnRecvData(n) <=> Decoder!OnRecvData(n)
  BY DEF Receiver!OnRecvData, Decoder!OnRecvData, Receiver!Erased, Decoder!Erased,
         Receiver!peerVars, Decoder!peerVars
<1>6. \A cause \in {"eof", "reset"} : Receiver!ReadEnds(cause) <=> Decoder!ReadEnds(cause)
  BY DEF Receiver!ReadEnds, Decoder!ReadEnds, Receiver!CloseRecv, Decoder!CloseRecv,
         Receiver!peerVars, Decoder!peerVars
<1>7. \A m \in Messages :
        /\ Receiver!PeerSends(m) <=> Decoder!PeerSends(m)
        /\ Receiver!Sent(m) = Decoder!Sent(m)
  BY DEF Receiver!PeerSends, Decoder!PeerSends, Receiver!Sent, Decoder!Sent,
         Receiver!recvVars, Decoder!recvVars
<1>8. \A n \in Nat : Receiver!Carry(n) <=> Decoder!Carry(n)
  BY DEF Receiver!Carry, Decoder!Carry, Receiver!recvVars, Decoder!recvVars
<1>9. Receiver!vars = Decoder!vars
  BY DEF Receiver!vars, Decoder!vars, Receiver!peerVars, Decoder!peerVars,
         Receiver!recvVars, Decoder!recvVars
<1>10. QED
  BY <1>1, <1>2, <1>3, <1>4, <1>5, <1>6, <1>7, <1>8, <1>9

LEMMA ChannelInitIInv == ChannelInit => ChannelIInv
<1> SUFFICES ASSUME ChannelInit PROVE ChannelIInv
  OBVIOUS
<1>1. IInv
  BY InitIInv DEF ChannelInit
<1>2. Decoder!Init
  BY DEF ChannelInit, Init, Decoder!Init
<1>3. Decoder!IInv
  BY <1>2, SameDecoder, Decoder!InitIInv
<1>4. QED
  BY <1>1, <1>3 DEF ChannelIInv

\* A step of the channel is a step of the sending session.
LEMMA SenderSees == [ChannelNext]_channelVars => [Next]_vars
<1> SUFFICES ASSUME ChannelNext PROVE [Next]_vars
  BY DEF channelVars
<1>1. ASSUME NEW m \in Messages, SendMessage(m)
      PROVE  Next
  <2>1. m.len \in 1 .. MaxLen
    BY ChannelAssumption, SendAssumption DEF Messages, Receiver!DecoderAssumption
  <2>2. QED
    BY <1>1, <2>1 DEF SendMessage, Next
<1>2. CASE SenderStep
  BY <1>2 DEF SenderStep, SenderSteps, Next
<1>3. CASE ReceiverStep
  BY <1>3 DEF ReceiverStep, Reads, Decodes
<1>4. QED
  BY <1>1, <1>2, <1>3 DEF ChannelNext

\* What the sender's step does to the stream: no new bytes, or more of those it was given.
LEMMA SenderCarries ==
    ASSUME IInv, IInv', SenderSteps
    PROVE  /\ accepted' = accepted
           /\ Len(wire') = Len(wire) \/ \E n \in 1 .. accepted : Len(wire') = Len(wire) + n
           /\ Len(wire') <= accepted
<1>0. /\ wire \in Seq(Nat) /\ Len(wire) \in Nat /\ accepted \in Nat /\ Len(wire') \in Nat
      /\ Len(wire') <= accepted'
  BY DEF IInv, StreamInv, TypeOK, InOrderOnce
<1>1. ASSUME NEW n \in 1 .. MaxBytes, SendDataWrites(n) \/ SendPendingWrites(n)
      PROVE  accepted' = accepted /\ Len(wire') = Len(wire) + n
  <2>1. accepted' = accepted
    BY <1>1 DEF SendDataWrites, SendPendingWrites
  <2>2. PICK b \in SendBuf : wire' = wire \o Slice(b, n)
    <3>1. CASE SendDataWrites(n)
      BY <3>1 DEF SendDataWrites, IInv, StreamInv, TypeOK
    <3>2. CASE SendPendingWrites(n)
      <4>1. bufs \in Seq(SendBuf) /\ bufs # <<>> /\ wire' = wire \o Slice(Head(bufs), n)
        BY <3>2 DEF SendPendingWrites, IInv, StreamInv, TypeOK
      <4>2. Head(bufs) \in SendBuf
        BY <4>1
      <4>3. QED
        BY <4>1, <4>2
    <3>3. QED
      BY <1>1, <3>1, <3>2
  <2>3. Len(wire \o Slice(b, n)) = Len(wire) + n
    <3>1. n \in Nat
      BY SendAssumption
    <3>2. Slice(b, n) \in Seq(Nat) /\ Len(Slice(b, n)) = n
      BY <3>1 DEF Slice, SendBuf
    <3>3. QED
      BY <1>0, <3>2, ConcatProperties
  <2>4. QED
    BY <2>1, <2>2, <2>3
<1>2. CASE \E n \in 1 .. MaxBytes : SendDataWrites(n) \/ SendPendingWrites(n)
  BY <1>0, <1>1, <1>2, SendAssumption
<1>3. CASE ~\E n \in 1 .. MaxBytes : SendDataWrites(n) \/ SendPendingWrites(n)
  <2>1. accepted' = accepted /\ wire' = wire
    BY <1>3
    DEF SenderSteps, SetSentClose, CloseBy, SendDataAgain, SendDataFails, OnWrite,
        SendPendingAgain, SendPendingFails, SendPendingDone, PeerResets
  <2>2. QED
    BY <1>0, <2>1
<1>4. QED
  BY <1>2, <1>3

\* A step of the channel is a step of the peer and connection that the decoder sees, or one
\* of its own.
LEMMA DecoderSees ==
    ASSUME ChannelIInv, IInv', [ChannelNext]_channelVars
    PROVE  [Decoder!Next]_(Decoder!vars)
<1>0. /\ wire \in Seq(Nat) /\ Len(wire) \in Nat /\ accepted \in Nat
      /\ got \in Nat
  BY DEF ChannelIInv, IInv, StreamInv, TypeOK, Decoder!IInv, Decoder!TypeOK
<1>1. ASSUME NEW m \in Messages, SendMessage(m)
      PROVE  Decoder!Next
  <2>1. /\ accepted' = accepted + m.len /\ wire' = wire /\ UNCHANGED recvVars
        /\ msgs' = Append(msgs, Decoder!Sent(m))
    BY <1>1, SameDecoder DEF SendMessage, SendData, SendDataBehind, Enqueue
  <2>2. Decoder!PeerSends(m)
    BY <2>1 DEF Decoder!PeerSends, Decoder!recvVars, recvVars
  <2>3. QED
    BY <2>2 DEF Decoder!Next
<1>2. CASE SenderStep
  <2>1. /\ accepted' = accepted /\ UNCHANGED <<msgs, recvVars>>
        /\ Len(wire') = Len(wire) \/ \E n \in 1 .. accepted : Len(wire') = Len(wire) + n
        /\ Len(wire') <= accepted
    BY <1>2, SenderCarries DEF SenderStep, ChannelIInv
  <2>2. CASE Len(wire') = Len(wire)
    BY <2>1, <2>2
    DEF Decoder!vars, Decoder!peerVars, Decoder!recvVars, recvVars
  <2>3. ASSUME NEW n \in 1 .. accepted, Len(wire') = Len(wire) + n
        PROVE  Decoder!Next
    <3>1. Decoder!Carry(n)
      BY <1>0, <2>1, <2>3 DEF Decoder!Carry, Decoder!recvVars, recvVars
    <3>2. QED
      BY <3>1 DEF Decoder!Next
  <2>4. QED
    BY <2>1, <2>2, <2>3
<1>3. CASE ReceiverStep
  <2>1. ASSUME NEW n \in 1 .. MaxBytes, Receiver!OnRecvData(n)
        PROVE  Decoder!Next
    <3>1. n \in Nat /\ Decoder!OnRecvData(n)
      BY <2>1, SameDecoder, SendAssumption
    <3>2. n \in 1 .. Len(wire)
      BY <1>0, <3>1 DEF Decoder!OnRecvData
    <3>3. QED
      BY <3>1, <3>2 DEF Decoder!Next, Decoder!RecvNext
  <2>2. CASE Receiver!LoopStep \/ Receiver!AppClosesRecv
    BY <2>2, SameDecoder DEF Decoder!Next, Decoder!RecvNext
  <2>3. CASE \E cause \in {"eof", "reset"} : Receiver!ReadEnds(cause)
    BY <2>3, SameDecoder DEF Decoder!Next, Decoder!RecvNext
  <2>4. QED
    BY <1>3, <2>1, <2>2, <2>3 DEF ReceiverStep, Reads, Decodes
<1>4. CASE UNCHANGED channelVars
  BY <1>4 DEF channelVars, vars, recvVars, Decoder!vars, Decoder!peerVars, Decoder!recvVars
<1>5. QED
  BY <1>1, <1>2, <1>3, <1>4 DEF ChannelNext

LEMMA ChannelNextIInv == ChannelIInv /\ [ChannelNext]_channelVars => ChannelIInv'
<1> SUFFICES ASSUME ChannelIInv, [ChannelNext]_channelVars
             PROVE  ChannelIInv'
  OBVIOUS
<1>1. IInv'
  BY SenderSees, NextIInv DEF ChannelIInv
<1>2. [Decoder!Next]_(Decoder!vars)
  BY <1>1, DecoderSees
<1>3. Decoder!IInv'
  BY <1>2, SameDecoder, Decoder!NextIInv DEF ChannelIInv
<1>4. QED
  BY <1>1, <1>3 DEF ChannelIInv

LEMMA ChannelInvariance == ChannelSafeSpec => []ChannelIInv
<1>1. QED
  BY ChannelInitIInv, ChannelNextIInv, PTL DEF ChannelSafeSpec

\* SendData at one end and OnRecvData at the other: the messages processed are those sent,
\* in order and whole, and none that has arrived waits.
THEOREM ChannelSound == ChannelSafeSpec => [](MessagesAreThoseSent /\ NoneHeldBack)
<1>1. ChannelIInv => MessagesAreThoseSent /\ NoneHeldBack
  BY DEF ChannelIInv, Decoder!IInv, MessagesAreThoseSent, NoneHeldBack,
         Receiver!MessagesAreThoseSent, Decoder!MessagesAreThoseSent,
         Receiver!NoneHeldBack, Decoder!NoneHeldBack, Receiver!EndOf, Decoder!EndOf,
         Receiver!Erased, Decoder!Erased, Receiver!Illegal, Decoder!Illegal
<1>2. QED
  BY <1>1, ChannelInvariance, PTL

\* What the sending session promises alone it keeps at its end of the channel.
THEOREM ChannelKeepsSession ==
    ChannelSafeSpec =>
        [](ChannelTypeOK /\ NothingDropped /\ WatchedWhilePending /\ SentCloseWaitsForData)
<1>1. ChannelIInv =>
        ChannelTypeOK /\ NothingDropped /\ WatchedWhilePending /\ SentCloseWaitsForData
  <2>1. Decoder!TypeOK => Receiver!TypeOK
    BY DEF Decoder!TypeOK, Receiver!TypeOK, Decoder!SentMsg, Receiver!SentMsg,
           Decoder!RecvMsg, Receiver!RecvMsg
  <2>2. QED
    BY <2>1 DEF ChannelIInv, IInv, StreamInv, ChannelTypeOK, Decoder!IInv
<1>2. QED
  BY <1>1, ChannelInvariance, PTL

\* The channel's sender is a TcpSession, whatever the other end does.
THEOREM SenderRefinement == ChannelSafeSpec => SafeSpec
<1>1. ChannelInit => Init
  BY DEF ChannelInit
<1>2. QED
  BY <1>1, SenderSees, PTL DEF ChannelSafeSpec, SafeSpec

\* SetSentClose costs no message: when the sender has closed as it asked, and the receiver
\* has read to the end of file, every message was processed or refused.
SentCloseDeliversAll ==
    ended = "sentClose" /\ got = Len(wire) /\ recvPc = "idle" /\ recvEnded = "no" =>
        Len(delivered) = Len(msgs)

\* The two halves put together: SetSentClose's promise (tcp_session.h:35) reaches the
\* application at the other end.
THEOREM SentCloseDelivers == ChannelSafeSpec => []SentCloseDeliversAll
<1>1. ChannelIInv => SentCloseDeliversAll
  <2> SUFFICES ASSUME ChannelIInv, ended = "sentClose", got = Len(wire),
                      recvPc = "idle", recvEnded = "no", Len(delivered) # Len(msgs)
               PROVE  FALSE
    BY DEF SentCloseDeliversAll
  <2>1. Len(wire) = accepted /\ accepted \in Nat
    BY DEF ChannelIInv, IInv, StreamInv, SentCloseLosesNothing, TypeOK
  <2>2. /\ Len(delivered) \in Nat /\ Len(msgs) \in Nat /\ Len(delivered) <= Len(msgs)
        /\ HeadLen \in Nat
    BY SameDecoder
    DEF ChannelIInv, Decoder!IInv, Decoder!MessagesAreThoseSent, Decoder!TypeOK,
        Decoder!DecoderAssumption
  <2>3. Len(msgs) \in 1 .. Len(msgs) /\ Len(msgs) > Len(delivered)
    BY <2>2
  <2>4. /\ msgs[Len(msgs)].start \in Nat /\ msgs[Len(msgs)].len \in Nat
        /\ msgs[Len(msgs)].len >= HeadLen
        /\ Decoder!EndOf(Len(msgs)) = msgs[Len(msgs)].start + msgs[Len(msgs)].len
    BY <2>3, SameDecoder, Decoder!MessageFacts DEF ChannelIInv, Decoder!IInv
  <2>5. Decoder!EndOf(Len(msgs)) = accepted
    BY DEF ChannelIInv, Decoder!IInv, Decoder!StreamSound
  <2>6. got - msgs[Len(msgs)].start >= HeadLen
    BY <2>1, <2>2, <2>4, <2>5
  <2>7. got < Decoder!EndOf(Len(msgs))
    BY <2>3, <2>6 DEF ChannelIInv, Decoder!IInv, Decoder!NoneHeldBack
  <2>8. QED
    BY <2>1, <2>5, <2>7
<1>2. QED
  BY <1>1, ChannelInvariance, PTL

\* To the receiving end, a TcpSession with its buffers and events is a peer that sends
\* messages and a stream that carries them.
THEOREM ReceiverRefinement == ChannelSafeSpec => ImplementsReceiver
<1>1. ChannelInit => Receiver!Init
  BY DEF ChannelInit, Init, Receiver!Init
<1>2. ChannelIInv /\ ChannelIInv' /\ [ChannelNext]_channelVars
        => [Receiver!Next]_(Receiver!vars)
  <2> SUFFICES ASSUME ChannelIInv, ChannelIInv', [ChannelNext]_channelVars
               PROVE  [Receiver!Next]_(Receiver!vars)
    OBVIOUS
  <2>1. [Decoder!Next]_(Decoder!vars)
    BY DecoderSees DEF ChannelIInv
  <2>2. Decoder!Next => Receiver!Next
    <3>1. 1 .. Len(wire) \subseteq Nat /\ 1 .. accepted \subseteq Nat
      BY DEF ChannelIInv, IInv, StreamInv, TypeOK
    <3>2. QED
      BY <3>1, SameDecoder DEF Decoder!Next, Receiver!Next, Decoder!RecvNext, Receiver!RecvNext
  <2>3. UNCHANGED Decoder!vars => UNCHANGED Receiver!vars
    BY DEF Receiver!vars, Decoder!vars, Receiver!peerVars, Decoder!peerVars,
           Receiver!recvVars, Decoder!recvVars
  <2>4. QED
    BY <2>1, <2>2, <2>3
<1>3. QED
  BY <1>1, <1>2, ChannelInvariance, PTL DEF ChannelSafeSpec, ImplementsReceiver, Receiver!SafeSpec
=============================================================================
