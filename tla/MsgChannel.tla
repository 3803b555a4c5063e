----------------------------- MODULE MsgChannel -----------------------------
(***************************************************************************)
(* Two ends of a connection: messages are sent through a TcpSession, its   *)
(* direct writes and its pending buffers, and cut out of the stream again  *)
(* by the DefaultTcpSession at the other end.  Each end closes as it does  *)
(* alone; the sender sees a close of the receiver as end of file.          *)
(***************************************************************************)
EXTENDS TcpSession

CONSTANTS HeadLen, m_nMaxMsgLen

VARIABLES msgs, base, got, m_nPos, recvPc, delivered, recvEnded

recvVars == <<base, got, m_nPos, recvPc, delivered, recvEnded>>
channelVars == <<vars, msgs, recvVars>>

\* The messages the sender may give: one longer than m_nMaxMsgLen, and one whose head is
\* too short for itself, among them.   (BOUND: the lengths that differ to the decoder)
Messages ==
    {[len |-> n, head |-> n] : n \in HeadLen .. m_nMaxMsgLen + 1}
        \cup {[len |-> HeadLen, head |-> HeadLen - 1]}

Receiver == INSTANCE DefaultTcpSession WITH total <- accepted, sent <- Len(wire)

ASSUME ChannelAssumption == Receiver!DecoderAssumption /\ m_nMaxMsgLen + 1 <= MaxLen

ChannelTypeOK == TypeOK /\ Receiver!TypeOK

ChannelInit ==
    /\ Init
    /\ msgs = <<>> /\ base = 0 /\ got = 0 /\ m_nPos = 0
    /\ recvPc = "idle" /\ delivered = <<>> /\ recvEnded = "no"

-----------------------------------------------------------------------------
(* One SendData for each message.                                          *)
SendMessage(m) ==
    /\ SendData(m.len) \/ SendDataBehind(m.len)
    /\ msgs' = Append(msgs, Receiver!Sent(m))
    /\ UNCHANGED recvVars

SenderSteps ==
    \/ \E sentClose \in BOOLEAN : SetSentClose(sentClose)
    \/ CloseBy("app")
    \/ recvEnded # "no" /\ CloseBy("peer")
    \/ \E n \in 1 .. MaxBytes : SendDataWrites(n) \/ SendPendingWrites(n)
    \/ SendDataAgain \/ SendDataFails
    \/ OnWrite \/ SendPendingAgain \/ SendPendingFails \/ SendPendingDone
    \/ PeerResets

SenderStep == SenderSteps /\ UNCHANGED <<msgs, recvVars>>

Reads == UNCHANGED vars /\ \E n \in 1 .. MaxBytes : Receiver!OnRecvData(n)
Decodes == UNCHANGED vars /\ Receiver!LoopStep
ReceiverStep ==
    \/ Reads
    \/ Decodes
    \/ UNCHANGED vars /\ Receiver!AppClosesRecv
    \/ UNCHANGED vars /\ IsOpen /\ Receiver!ReadEnds("reset")
    \/ UNCHANGED vars /\ ~IsOpen /\ \E cause \in {"eof", "reset"} : Receiver!ReadEnds(cause)

ChannelNext ==
    \/ \E m \in Messages : SendMessage(m)
    \/ SenderStep
    \/ ReceiverStep

ChannelSafeSpec == ChannelInit /\ [][ChannelNext]_channelVars

\* The sender's fairness is that of TcpSession; the receiver's descriptor is reported as
\* long as it has something to read, and OnRecvData's loop goes on.
ChannelSpec ==
    /\ ChannelSafeSpec
    /\ WF_channelVars(LoopStep /\ UNCHANGED <<msgs, recvVars>>)
    /\ SF_channelVars(OnWrite /\ UNCHANGED <<msgs, recvVars>>)
    /\ SF_channelVars(PendingWrite /\ UNCHANGED <<msgs, recvVars>>)
    /\ WF_channelVars(Reads)
    /\ WF_channelVars(Decodes)

-----------------------------------------------------------------------------
(* Properties, beside those of TcpSession.                                 *)

\* OnRecvData gives ProcessMessage the messages that SendData was given, in order, once,
\* each whole, however the two ends cut the stream.
MessagesAreThoseSent == Receiver!MessagesAreThoseSent

\* No message that has arrived whole waits for the next one.
NoneHeldBack == Receiver!NoneHeldBack

\* The connection was cut by someone, or a message was refused.  A close that SetSentClose
\* asked for and the end of file that follows it are no such thing.
Lost ==
    \/ ended \in {"app", "peer", "error"} \/ watchFailed
    \/ recvEnded \in {"app", "illegal", "reset"}

\* Every message given to SendData is processed at the other end, and SetSentClose does
\* not cost one that was given before it.
EveryMessageArrives ==
    \A k \in 1 .. MaxBytes \div HeadLen : (Len(msgs) >= k) ~> (Len(delivered) >= k \/ Lost)

\* The receiving end sees a peer that sends messages and a stream that carries them.
ImplementsReceiver == Receiver!SafeSpec
=============================================================================
