----------------------------- MODULE TcpSession -----------------------------
(***************************************************************************)
(* The sending side of one TcpSession: SendData's direct write, the list   *)
(* of pending buffers, SendPendingData on WRITE events, and SetSentClose.  *)
(*                                                                         *)
(* One step per write(): between two of them only the kernel moves (it     *)
(* takes bytes, says EAGAIN, or the connection is reset).  The application *)
(* and the loop act when pc is "idle".  Bytes are numbered from 1 in the   *)
(* order they are given to SendData, so a buffer is an interval.  len <= 0 *)
(* and data == NULL return at once and are not modelled.                   *)
(***************************************************************************)
EXTENDS Integers, Sequences

CONSTANTS
    MaxLen,         \* the largest len of a SendData
    MaxBytes,       \* BOUND on the bytes given to SendData
    WatchMayFail    \* sw_ev_io_add and sw_ev_io_del may fail; the code only logs it

ASSUME SendAssumption ==
    MaxLen \in Nat /\ MaxBytes \in Nat /\ WatchMayFail \in BOOLEAN

VARIABLES
    ended,          \* "no" while m_socket is open, else why EndSession was called
    m_sentClose,
    bufs,           \* m_pSendBufHead .. m_pSendBufTail
    watchW,         \* WRITE is watched for the socket
    watchFailed,    \* history: a call of sw_ev_io_add or sw_ev_io_del has failed
    pc,             \* "idle", or inside the loop of SendData or SendPendingData
    data,           \* SendData: the data, m_sendOff is its local sended
    sockErr,        \* kernel: the connection was reset
    wire,           \* kernel: the bytes taken by write(), in order
    accepted        \* how many bytes SendData was given while the session was open

vars == <<ended, m_sentClose, bufs, watchW, watchFailed, pc, data, sockErr, wire, accepted>>

SendBuf == [base : Nat, m_len : Nat, m_sendOff : Nat]
NoData == [base |-> 0, m_len |-> 0, m_sendOff |-> 0]
Causes == {"app", "peer", "error", "sentClose"}
IsOpen == ended = "no"

TypeOK ==
    /\ ended \in {"no"} \cup Causes
    /\ m_sentClose \in BOOLEAN
    /\ bufs \in Seq(SendBuf)
    /\ watchW \in BOOLEAN /\ watchFailed \in BOOLEAN
    /\ pc \in {"idle", "send", "flush"}
    /\ data \in SendBuf
    /\ sockErr \in BOOLEAN
    /\ wire \in Seq(Nat)
    /\ accepted \in Nat

Init ==
    /\ ended = "no" /\ m_sentClose = FALSE /\ bufs = <<>>
    /\ watchW = FALSE /\ watchFailed = FALSE
    /\ pc = "idle" /\ data = NoData /\ sockErr = FALSE /\ wire = <<>> /\ accepted = 0

-----------------------------------------------------------------------------
Remaining(b) == b.m_len - b.m_sendOff
Advanced(b, n) == [b EXCEPT !.m_sendOff = @ + n]
Slice(b, n) == [i \in 1 .. n |-> b.base + b.m_sendOff + i]
NewData(len) == [base |-> accepted, m_len |-> len, m_sendOff |-> 0]

\* Close -> EndSession: the socket is closed and no longer watched.
CloseSession(cause) == ended' = cause /\ watchW' = FALSE /\ UNCHANGED watchFailed

\* A slip: the WRITE event is not asked for.
WatchWriteNot == UNCHANGED <<watchW, watchFailed>>

Watch(on) ==
    \/ watchW' = on /\ UNCHANGED watchFailed
    \/ WatchMayFail /\ UNCHANGED watchW /\ watchFailed' = TRUE

WatchWrite == Watch(TRUE)

UnwatchWrite == Watch(FALSE)

\* A slip: the whole of the data is copied, the part already written with it.
PendingPartWhole(b) == [b EXCEPT !.m_sendOff = 0]

\* A slip: the length is subtracted the wrong way round.
PendingPartSwapped(b) ==
    [base |-> b.base + b.m_sendOff, m_len |-> b.m_sendOff - b.m_len, m_sendOff |-> 0]

\* The part of the data that was not written, as a buffer of its own.
PendingPart(b) == [base |-> b.base + b.m_sendOff, m_len |-> Remaining(b), m_sendOff |-> 0]

\* A slip: a buffer is put before the ones that already wait.
ToPendingAtHead(b) ==
    /\ bufs' = <<PendingPart(b)>> \o bufs
    /\ WatchWrite

ToPending(b) ==
    /\ bufs' = Append(bufs, PendingPart(b))
    /\ WatchWrite

-----------------------------------------------------------------------------
(* The application.                                                        *)

\* Nothing is pending: SendData writes directly.
SendData(len) ==
    /\ pc = "idle" /\ IsOpen /\ bufs = <<>>
    /\ accepted + len <= MaxBytes
    /\ pc' = "send"
    /\ data' = NewData(len)
    /\ accepted' = accepted + len
    /\ UNCHANGED <<ended, m_sentClose, bufs, watchW, watchFailed, sockErr, wire>>

\* The data joins the list.
Enqueue(len) ==
    /\ pc = "idle" /\ IsOpen
    /\ accepted + len <= MaxBytes
    /\ ToPending(NewData(len))
    /\ accepted' = accepted + len
    /\ UNCHANGED <<ended, m_sentClose, pc, data, sockErr, wire>>

\* Something is pending: SendData appends.
SendDataBehind(len) == bufs # <<>> /\ Enqueue(len)

\* A slip: SetSentClose leaves an idle session open.
SetSentCloseOnlyMarks(sentClose) ==
    /\ pc = "idle" /\ IsOpen
    /\ m_sentClose' = sentClose
    /\ UNCHANGED <<ended, bufs, watchW, watchFailed, pc, data, sockErr, wire, accepted>>

\* A slip: the list is not looked at.
SetSentCloseAtOnce(sentClose) ==
    /\ pc = "idle" /\ IsOpen
    /\ m_sentClose' = sentClose
    /\ IF sentClose THEN CloseSession("sentClose") ELSE UNCHANGED <<ended, watchW, watchFailed>>
    /\ UNCHANGED <<bufs, pc, data, sockErr, wire, accepted>>

SetSentClose(sentClose) ==
    /\ pc = "idle" /\ IsOpen
    /\ m_sentClose' = sentClose
    /\ IF sentClose /\ bufs = <<>>
       THEN CloseSession("sentClose")
       ELSE UNCHANGED <<ended, watchW, watchFailed>>
    /\ UNCHANGED <<bufs, pc, data, sockErr, wire, accepted>>

\* Close or ForceClose by the application; OnRead with read() <= 0.
CloseBy(cause) ==
    /\ pc = "idle" /\ IsOpen
    /\ CloseSession(cause)
    /\ UNCHANGED <<m_sentClose, bufs, pc, data, sockErr, wire, accepted>>

-----------------------------------------------------------------------------
(* SendData's loop.                                                        *)

AfterDirectSend ==
    IF m_sentClose THEN CloseSession("sentClose") ELSE UNCHANGED <<ended, watchW, watchFailed>>

SendDataWrites(n) ==
    /\ pc = "send" /\ ~sockErr
    /\ n \in 1 .. Remaining(data)
    /\ wire' = wire \o Slice(data, n)
    /\ IF n = Remaining(data)
       THEN pc' = "idle" /\ data' = NoData /\ AfterDirectSend
       ELSE data' = Advanced(data, n) /\ UNCHANGED <<pc, ended, watchW, watchFailed>>
    /\ UNCHANGED <<m_sentClose, bufs, sockErr, accepted>>

SendDataAgain ==
    /\ pc = "send" /\ ~sockErr
    /\ ToPending(data)
    /\ pc' = "idle" /\ data' = NoData
    /\ UNCHANGED <<ended, m_sentClose, sockErr, wire, accepted>>

SendDataFails ==
    /\ pc = "send" /\ sockErr
    /\ CloseSession("error")
    /\ pc' = "idle" /\ data' = NoData
    /\ UNCHANGED <<m_sentClose, bufs, sockErr, wire, accepted>>

-----------------------------------------------------------------------------
(* OnWrite, and SendPendingData's loop.                                    *)

OnWrite ==
    /\ pc = "idle" /\ watchW
    /\ pc' = "flush"
    /\ UNCHANGED <<ended, m_sentClose, bufs, watchW, watchFailed, data, sockErr, wire, accepted>>

AfterWrite(n) ==
    IF n = Remaining(Head(bufs)) THEN Tail(bufs) ELSE [bufs EXCEPT ![1] = Advanced(@, n)]

SendPendingWrites(n) ==
    /\ pc = "flush" /\ ~sockErr /\ bufs # <<>>
    /\ n \in 1 .. Remaining(Head(bufs))
    /\ wire' = wire \o Slice(Head(bufs), n)
    /\ bufs' = AfterWrite(n)
    /\ UNCHANGED <<ended, m_sentClose, watchW, watchFailed, pc, data, sockErr, accepted>>

\* A slip: SendPendingData reports 0 instead of 1, and OnWrite closes.
SendPendingAgainAsDone ==
    /\ pc = "flush" /\ ~sockErr /\ bufs # <<>>
    /\ pc' = "idle"
    /\ IF m_sentClose THEN CloseSession("sentClose") ELSE UNCHANGED <<ended, watchW, watchFailed>>
    /\ UNCHANGED <<m_sentClose, bufs, data, sockErr, wire, accepted>>

SendPendingAgain ==
    /\ pc = "flush" /\ ~sockErr /\ bufs # <<>>
    /\ pc' = "idle"
    /\ UNCHANGED <<ended, m_sentClose, bufs, watchW, watchFailed, data, sockErr, wire, accepted>>

SendPendingFails ==
    /\ pc = "flush" /\ sockErr /\ bufs # <<>>
    /\ CloseSession("error")
    /\ pc' = "idle"
    /\ UNCHANGED <<m_sentClose, bufs, data, sockErr, wire, accepted>>

\* All sent, but OnWrite does not look at m_sentClose: a slip here, SslSession's way.
SendPendingDoneStaysOpen ==
    /\ pc = "flush" /\ bufs = <<>>
    /\ pc' = "idle"
    /\ UnwatchWrite
    /\ UNCHANGED <<ended, m_sentClose, bufs, data, sockErr, wire, accepted>>

\* All is sent: sw_ev_io_del(WRITE), and OnWrite closes if m_sentClose is set.
SendPendingDone ==
    /\ pc = "flush" /\ bufs = <<>>
    /\ pc' = "idle"
    /\ IF m_sentClose
       THEN CloseSession("sentClose")
       ELSE UnwatchWrite /\ UNCHANGED ended
    /\ UNCHANGED <<m_sentClose, bufs, data, sockErr, wire, accepted>>

\* The kernel.
PeerResets ==
    /\ ~sockErr
    /\ sockErr' = TRUE
    /\ UNCHANGED <<ended, m_sentClose, bufs, watchW, watchFailed, pc, data, wire, accepted>>

-----------------------------------------------------------------------------
Next ==
    \/ \E len \in 1 .. MaxLen : SendData(len) \/ SendDataBehind(len)
    \/ \E sentClose \in BOOLEAN : SetSentClose(sentClose)
    \/ \E cause \in {"app", "peer"} : CloseBy(cause)
    \/ \E n \in 1 .. MaxBytes : SendDataWrites(n) \/ SendPendingWrites(n)
    \/ SendDataAgain \/ SendDataFails
    \/ OnWrite \/ SendPendingAgain \/ SendPendingFails \/ SendPendingDone
    \/ PeerResets

SafeSpec == Init /\ [][Next]_vars

PendingWrite == \E n \in 1 .. MaxBytes : SendPendingWrites(n)
LoopStep ==
    \/ \E n \in 1 .. MaxBytes : SendDataWrites(n)
    \/ SendDataAgain \/ SendDataFails
    \/ PendingWrite \/ SendPendingAgain \/ SendPendingFails \/ SendPendingDone

\* write() loops go on; a watched writable socket is reported again and again; and a
\* peer that keeps the connection keeps reading, so that write() takes bytes in the end.
Spec ==
    /\ SafeSpec
    /\ WF_vars(LoopStep)
    /\ SF_vars(OnWrite)
    /\ SF_vars(PendingWrite)

-----------------------------------------------------------------------------
(* Properties.                                                             *)

\* The bytes on the wire are the bytes given, in order, none twice, none skipped, however
\* the data was cut into direct writes and pending buffers.
InOrderOnce ==
    Len(wire) <= accepted /\ \A i \in 1 .. Len(wire) : wire[i] = i

\* The buffers todo hold the bytes from + 1 .. to, in order, none twice, none empty.
Continues(todo, from, to) ==
    /\ todo = <<>> => from = to
    /\ todo # <<>> =>
        /\ todo[1].base + todo[1].m_sendOff = from
        /\ todo[Len(todo)].base + todo[Len(todo)].m_len = to
    /\ \A i \in 1 .. Len(todo) - 1 : todo[i].base + todo[i].m_len = todo[i + 1].base
    /\ \A i \in 2 .. Len(todo) : todo[i].m_sendOff = 0
    /\ \A i \in 1 .. Len(todo) :
        Remaining(todo[i]) > 0 /\ todo[i].base + todo[i].m_len <= to

\* While the session is open, every byte given and not yet on the wire is pending exactly
\* once: the list continues the wire without gap or overlap, up to the last byte given,
\* and no write() is ever called with nothing to write (the asserts at 140, 171 and 209).
NothingDropped ==
    IsOpen => Continues(IF pc = "send" THEN <<data>> ELSE bufs, Len(wire), accepted)

\* Pending data and the WRITE watch go together, as long as libswevent does not fail: no pending
\* data without an event to send it, no event without data, which would spin the loop.
WatchedWhilePending ==
    IsOpen /\ ~watchFailed =>
        /\ pc = "flush" => watchW
        /\ pc # "flush" => (watchW <=> bufs # <<>>)

\* A session marked by SetSentClose stays open only as long as it has data to send.
SentCloseWaitsForData ==
    IsOpen /\ m_sentClose /\ pc = "idle" => bufs # <<>>

\* tcp_session.h:35: closed "after sended all pending data", not before.
SentCloseLosesNothing ==
    ended = "sentClose" => Len(wire) = accepted /\ bufs = <<>>

\* What makes the five above inductive: the direct write has the list to itself, and
\* events and loops come only while the session is open.
FrameSound ==
    /\ pc = "send" => bufs = <<>>
    /\ pc # "idle" => IsOpen
    /\ watchW => IsOpen

StreamInv ==
    /\ TypeOK /\ FrameSound
    /\ InOrderOnce /\ NothingDropped /\ WatchedWhilePending /\ SentCloseLosesNothing

IInv == StreamInv /\ SentCloseWaitsForData

\* SetSentClose does close: once marked, the session ends, or the mark is taken back.  A call
\* of libswevent that fails may leave it waiting for an event that never comes.
SentCloseEnds ==
    (IsOpen /\ m_sentClose) ~> (~IsOpen \/ ~m_sentClose \/ watchFailed)

\* Every byte given reaches the wire, unless the session ends or libswevent fails.
EveryByteSent ==
    \A i \in 1 .. MaxBytes : (accepted >= i) ~> (Len(wire) >= i \/ ~IsOpen \/ watchFailed)

Stream == INSTANCE ByteStream WITH
            Amounts <- 0 .. MaxBytes,
            given <- accepted,
            phase <- CASE ended = "no" -> "open"
                       [] ended = "sentClose" -> "flushed"
                       [] OTHER -> "cut"

\* Every step of the session is a step of the byte stream: bytes are carried in order
\* and once, and a close asked for by SetSentClose comes when all are carried.
ImplementsByteStream == Stream!Spec
=============================================================================
