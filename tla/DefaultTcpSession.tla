-------------------------- MODULE DefaultTcpSession --------------------------
(***************************************************************************)
(* The receiving side: DefaultTcpSession::OnRecvData and DefaultMsgDecoder *)
(* cut the stream of a connection back into the messages that were sent.   *)
(* A message starts with a head of HeadLen bytes that holds its length,    *)
(* the head included.                                                      *)
(*                                                                         *)
(* Bytes are numbered as in TcpSession, so m_data is an interval of the    *)
(* stream and only its heads have a value.  ProcessMessage is the          *)
(* application's: it may close the session, and OnRecvData's loop goes on  *)
(* over what is left in m_data.                                            *)
(***************************************************************************)
EXTENDS Integers, Sequences

CONSTANTS
    HeadLen,        \* sizeof(uint32_t)
    m_nMaxMsgLen,   \* the longest message taken, 4096 in the code
    Messages        \* the messages a peer may send: their length, and what the head says

VARIABLES
    msgs,           \* peer: the messages it sent, in order
    total,          \* peer: the bytes of these messages
    sent,           \* kernel: how many of these bytes were taken by write()
    base, got,      \* m_data holds the bytes base + 1 .. got
    m_nPos,         \* the bytes of m_data that the last message took
    recvPc,         \* "idle", or OnRecvData: "get" the next message, "process" one
    delivered,      \* the messages given to ProcessMessage
    recvEnded       \* "no" while the session is open, else why it was closed

peerVars == <<msgs, total, sent>>
recvVars == <<base, got, m_nPos, recvPc, delivered, recvEnded>>
vars == <<peerVars, recvVars>>

Illegal(head) == head < HeadLen \/ head > m_nMaxMsgLen

\* A peer writes the length of a message into its head, or a head that no message may have.
DecoderAssumption ==
    /\ HeadLen \in Nat \ {0} /\ m_nMaxMsgLen \in Nat /\ HeadLen <= m_nMaxMsgLen
    /\ Messages \subseteq [len : Nat, head : Nat]
    /\ \A m \in Messages : m.len >= HeadLen /\ (m.head = m.len \/ Illegal(m.head))

SentMsg == [start : Nat, len : Nat, head : Nat]
RecvMsg == [start : Nat, len : Nat]

TypeOK ==
    /\ msgs \in Seq(SentMsg)
    /\ total \in Nat /\ sent \in Nat /\ base \in Nat /\ got \in Nat
    /\ m_nPos \in 0 .. m_nMaxMsgLen
    /\ recvPc \in {"idle", "get", "process"}
    /\ delivered \in Seq(RecvMsg)
    /\ recvEnded \in {"no", "app", "illegal", "eof", "reset"}

Init ==
    /\ msgs = <<>> /\ total = 0 /\ sent = 0
    /\ base = 0 /\ got = 0 /\ m_nPos = 0
    /\ recvPc = "idle" /\ delivered = <<>> /\ recvEnded = "no"

-----------------------------------------------------------------------------
(* The peer and the connection.                                            *)

Sent(m) == [start |-> total, len |-> m.len, head |-> m.head]

PeerSends(m) ==
    /\ msgs' = Append(msgs, Sent(m))
    /\ total' = total + m.len
    /\ UNCHANGED <<sent, recvVars>>

Carry(n) ==
    /\ sent + n <= total
    /\ sent' = sent + n
    /\ UNCHANGED <<msgs, total, recvVars>>

-----------------------------------------------------------------------------
(* DefaultMsgDecoder.                                                      *)

\* A slip: the message stays at the front of m_data.
NotErased == base

\* m_data.erase(0, m_nPos), at the start of AppendData and GetMessage.
Erased == base + m_nPos

\* The head at a place of the stream: what the peer wrote there, and any value at all where
\* no message starts.
HeadsAt(place) ==
    IF \E i \in 1 .. Len(msgs) : msgs[i].start = place
    THEN {msgs[i].head : i \in {j \in 1 .. Len(msgs) : msgs[j].start = place}}
    ELSE 0 .. m_nMaxMsgLen + 1

HasHead == got - Erased >= HeadLen

\* A slip: a head is not checked against m_nMaxMsgLen.
RejectsShort(head) == head < HeadLen

Rejects(head) == Illegal(head)

\* A slip: the message is complete when more than its bytes are there.
CompleteOffByOne(head) == got - Erased > head

Complete(head) == got - Erased >= head

-----------------------------------------------------------------------------
(* DefaultTcpSession.                                                      *)

CloseRecv(cause) == recvEnded' = IF recvEnded = "no" THEN cause ELSE recvEnded

\* OnRead has read n bytes; OnRecvData appends them.
OnRecvData(n) ==
    /\ recvPc = "idle" /\ recvEnded = "no"
    /\ got + n <= sent
    /\ base' = Erased /\ m_nPos' = 0
    /\ got' = got + n
    /\ recvPc' = "get"
    /\ UNCHANGED <<peerVars, delivered, recvEnded>>

\* GetMessage returns 1.
GetNeedsMore ==
    /\ recvPc = "get"
    /\ HasHead => \E head \in HeadsAt(Erased) : ~Rejects(head) /\ ~Complete(head)
    /\ base' = Erased /\ m_nPos' = 0
    /\ recvPc' = "idle"
    /\ UNCHANGED <<peerVars, got, delivered, recvEnded>>

\* GetMessage returns -1, and OnRecvData closes.
GetRejects ==
    /\ recvPc = "get" /\ HasHead
    /\ \E head \in HeadsAt(Erased) : Rejects(head)
    /\ base' = Erased /\ m_nPos' = 0
    /\ recvPc' = "idle"
    /\ CloseRecv("illegal")
    /\ UNCHANGED <<peerVars, got, delivered>>

\* GetMessage returns 0, and ProcessMessage is called.
GetMessage ==
    /\ recvPc = "get" /\ HasHead
    /\ \E head \in HeadsAt(Erased) :
        /\ ~Rejects(head) /\ Complete(head)
        /\ m_nPos' = head
        /\ delivered' = Append(delivered, [start |-> Erased, len |-> head])
    /\ base' = Erased
    /\ recvPc' = "process"
    /\ UNCHANGED <<peerVars, got, recvEnded>>

ProcessMessageReturns ==
    /\ recvPc = "process"
    /\ recvPc' = "get"
    /\ UNCHANGED <<peerVars, base, got, m_nPos, delivered, recvEnded>>

\* The application closes, in ProcessMessage or between two events.
AppClosesRecv ==
    /\ recvPc \in {"idle", "process"} /\ recvEnded = "no"
    /\ CloseRecv("app")
    /\ UNCHANGED <<peerVars, base, got, m_nPos, recvPc, delivered>>

\* read() returns 0 when all was read, or fails.
ReadEnds(cause) ==
    /\ recvPc = "idle" /\ recvEnded = "no"
    /\ cause = "eof" => got = sent
    /\ CloseRecv(cause)
    /\ UNCHANGED <<peerVars, base, got, m_nPos, recvPc, delivered>>

LoopStep == GetNeedsMore \/ GetRejects \/ GetMessage \/ ProcessMessageReturns

RecvNext ==
    \/ \E n \in 1 .. sent : OnRecvData(n)
    \/ LoopStep
    \/ AppClosesRecv
    \/ \E cause \in {"eof", "reset"} : ReadEnds(cause)

Next ==
    \/ \E m \in Messages : PeerSends(m)
    \/ \E n \in 1 .. total : Carry(n)
    \/ RecvNext

SafeSpec == Init /\ [][Next]_vars

-----------------------------------------------------------------------------
(* Properties.                                                             *)

EndOf(i) == IF i = 0 THEN 0 ELSE msgs[i].start + msgs[i].len

\* OnRecvData: the messages given to ProcessMessage are the first of those sent, each with
\* its own bounds, wherever read() cut the stream; and the decoder never looks for a head
\* in the middle of a message.
MessagesAreThoseSent ==
    /\ Len(delivered) <= Len(msgs)
    /\ \A i \in 1 .. Len(delivered) :
        delivered[i] = [start |-> msgs[i].start, len |-> msgs[i].len]
    /\ Erased = EndOf(Len(delivered))

\* Back in the event loop, no message that has arrived whole is held back, and no head
\* that OnRecvData must close for, until the next read, which may never come.
NoneHeldBack ==
    recvPc = "idle" /\ recvEnded = "no" =>
        \A i \in 1 .. Len(msgs) :
            i > Len(delivered) /\ got - msgs[i].start >= HeadLen =>
                ~Illegal(msgs[i].head) /\ got < EndOf(i)

\* What makes the two inductive: the messages cover the stream without gap or overlap.
StreamSound ==
    /\ got <= sent /\ sent <= total /\ Erased <= got
    /\ total = EndOf(Len(msgs))
    /\ \A i \in 1 .. Len(msgs) : [len |-> msgs[i].len, head |-> msgs[i].head] \in Messages
    /\ \A i \in 1 .. Len(msgs) : msgs[i].start = EndOf(i - 1)
    /\ \A i \in 1 .. Len(msgs) : EndOf(i) <= total
    /\ \A i, j \in 1 .. Len(msgs) : i < j => EndOf(i) <= msgs[j].start

IInv == TypeOK /\ StreamSound /\ MessagesAreThoseSent /\ NoneHeldBack
=============================================================================
