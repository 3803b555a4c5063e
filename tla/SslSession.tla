----------------------------- MODULE SslSession -----------------------------
(***************************************************************************)
(* SslSession derives from TcpSession: it keeps the list of pending        *)
(* buffers, SetSentClose and Close, and overrides OnRead, OnWrite, SendData *)
(* and SendPendingData to go through OpenSSL.  The handshake is driven by  *)
(* whatever event comes; data given before it is done waits in the list.   *)
(*                                                                         *)
(* OnRead calls OnRecvData from a loop over SSL_read: while reading is     *)
(* TRUE, pc = "idle" is the application's turn inside that callback.       *)
(*                                                                         *)
(* OpenSSL is modelled by what it returns to this code.  An SSL_write that *)
(* returned WANT_WRITE must be repeated with the same buffer, as the mode  *)
(* set in Init is ENABLE_PARTIAL_WRITE only.                               *)
(***************************************************************************)
EXTENDS TcpSession

VARIABLES
    bServer,    \* Init was called for the accepting side
    m_state,    \* ESslServerSessionState
    spoke,      \* OpenSSL: our first flight is written
    blocked,    \* OpenSSL: our flight is made but the socket does not take it
    hsIn,       \* a flight of the peer's handshake has arrived
    hsLeft,     \* the flights of the peer still to be read
    moved,      \* OpenSSL: the buffer of an interrupted SSL_write is gone
    recordIn,   \* a record with data has arrived   (BOUND: one at a time)
    reading     \* OnRead is in its SSL_read loop

hsVars == <<spoke, blocked, hsIn, hsLeft>>
sslVars == <<bServer, m_state, hsVars, moved, recordIn, reading>>
allVars == <<vars, sslVars>>

SslTypeOK ==
    /\ TypeOK
    /\ bServer \in BOOLEAN /\ spoke \in BOOLEAN /\ blocked \in BOOLEAN
    /\ m_state \in {"INIT", "HANDSHAKING", "ESTABLESED", "CLOSE"}
    /\ hsIn \in BOOLEAN /\ hsLeft \in 0 .. 2
    /\ moved \in BOOLEAN /\ recordIn \in BOOLEAN /\ reading \in BOOLEAN

SslInit ==
    /\ Init
    /\ bServer \in BOOLEAN
    /\ m_state = "INIT" /\ spoke = FALSE /\ blocked = FALSE /\ hsIn = FALSE
    /\ hsLeft = IF bServer THEN 2 ELSE 1
    /\ moved = FALSE /\ recordIn = FALSE /\ reading = FALSE

-----------------------------------------------------------------------------
(* SSL_do_handshake, as OnRead and OnWrite see it.                         *)

\* It has no flight of the peer to read: WANT_READ, the client's first flight apart.
HandshakeWantsRead ==
    /\ ~hsIn /\ ~blocked
    /\ spoke' = (spoke \/ ~bServer)
    /\ UNCHANGED <<blocked, hsIn, hsLeft>>

\* The socket does not take the flight we answer with: WANT_WRITE.
HandshakeWantsWrite ==
    /\ blocked \/ hsIn \/ (~bServer /\ ~spoke)
    /\ blocked' = TRUE
    /\ hsIn' = FALSE
    /\ hsLeft' = IF hsIn THEN hsLeft - 1 ELSE hsLeft
    /\ UNCHANGED spoke

\* The peer's flight is read and ours written, and more is to come: WANT_READ.
HandshakeAdvances ==
    /\ blocked \/ hsIn
    /\ hsLeft' = IF hsIn THEN hsLeft - 1 ELSE hsLeft
    /\ hsLeft' # 0
    /\ hsIn' = FALSE /\ blocked' = FALSE /\ spoke' = TRUE

\* ... or the last flight was read: 1.
HandshakeCompletes ==
    /\ blocked \/ hsIn
    /\ hsLeft' = IF hsIn THEN hsLeft - 1 ELSE hsLeft
    /\ hsLeft' = 0
    /\ hsIn' = FALSE /\ blocked' = FALSE /\ spoke' = TRUE

HandshakeUnfinished == HandshakeWantsRead \/ HandshakeWantsWrite \/ HandshakeAdvances

Handshaking == m_state \in {"INIT", "HANDSHAKING"}

\* An event may be delivered: the application's turn, not inside OnRecvData.
LoopTurn == pc = "idle" /\ IsOpen /\ ~reading

-----------------------------------------------------------------------------
(* OnRead.                                                                 *)

Readable == hsIn \/ recordIn \/ sockErr

OnReadHandshakes ==
    /\ LoopTurn /\ Readable /\ Handshaking
    /\ HandshakeUnfinished
    /\ m_state' = "HANDSHAKING"
    /\ UNCHANGED <<vars, bServer, moved, recordIn, reading>>

\* The handshake is done, and OnRead goes on to read.
OnReadEstablishes ==
    /\ LoopTurn /\ Readable /\ Handshaking
    /\ HandshakeCompletes
    /\ m_state' = "ESTABLESED"
    /\ reading' = TRUE
    /\ UNCHANGED <<vars, bServer, moved, recordIn>>

OnReadEstablished ==
    /\ LoopTurn /\ Readable /\ m_state = "ESTABLESED"
    /\ reading' = TRUE
    /\ UNCHANGED <<vars, bServer, m_state, hsVars, moved, recordIn>>

\* SSL_read > 0: OnRecvData is called, and the loop reads again when it returns,
\* also when the session was closed in it and OpenSSL holds the rest of a record.
ReadGivesRecord ==
    /\ reading /\ pc = "idle" /\ recordIn
    /\ recordIn' \in BOOLEAN
    /\ UNCHANGED <<vars, bServer, m_state, hsVars, moved, reading>>

\* SSL_read wants more: OnRead returns.
ReadWantsRead ==
    /\ reading /\ pc = "idle" /\ IsOpen /\ ~recordIn
    /\ reading' = FALSE
    /\ UNCHANGED <<vars, bServer, m_state, hsVars, moved, recordIn>>

\* A slip: the state says CLOSE, but Close is not called.
CloseStateOnly(cause) == m_state' = "CLOSE" /\ UNCHANGED <<ended, watchW, watchFailed>>

CloseState(cause) ==
    /\ m_state' = "CLOSE"
    /\ IF IsOpen THEN CloseSession(cause) ELSE UNCHANGED <<ended, watchW, watchFailed>>

\* The peer has closed, the socket failed, or OnRecvData closed the descriptor.
ReadFails ==
    /\ reading /\ pc = "idle"
    /\ reading' = FALSE
    /\ CloseState("peer")
    /\ UNCHANGED <<m_sentClose, bufs, pc, data, sockErr, wire, accepted,
                   bServer, hsVars, moved, recordIn>>

\* SSL_do_handshake fails, in OnRead or OnWrite.
HandshakeFails ==
    /\ LoopTurn /\ (Readable \/ watchW) /\ Handshaking
    /\ CloseState("error")
    /\ UNCHANGED <<m_sentClose, bufs, pc, data, sockErr, wire, accepted,
                   bServer, hsVars, moved, recordIn, reading>>

-----------------------------------------------------------------------------
(* OnWrite.                                                                *)

\* A slip: the handshake is left to OnRead.
OnWriteLeavesHandshake ==
    /\ LoopTurn /\ watchW /\ Handshaking
    /\ UNCHANGED allVars

OnWriteHandshakes ==
    /\ LoopTurn /\ watchW /\ Handshaking
    /\ HandshakeUnfinished
    /\ m_state' = "HANDSHAKING"
    /\ UNCHANGED <<vars, bServer, moved, recordIn, reading>>

OnWriteEstablishes ==
    /\ LoopTurn /\ watchW /\ Handshaking
    /\ HandshakeCompletes
    /\ m_state' = "ESTABLESED"
    /\ pc' = "flush"
    /\ UNCHANGED <<ended, m_sentClose, bufs, watchW, watchFailed, data, sockErr, wire, accepted,
                   bServer, moved, recordIn, reading>>

OnWriteEstablished ==
    /\ LoopTurn /\ m_state = "ESTABLESED"
    /\ OnWrite
    /\ UNCHANGED sslVars

-----------------------------------------------------------------------------
(* SendData and SendPendingData.                                           *)

\* A slip: the state of the handshake is not looked at.
MayWriteAtAnyTime == bufs = <<>>

MayWriteDirectly == bufs = <<>> /\ m_state = "ESTABLESED"

SslSendData(len) ==
    /\ MayWriteDirectly
    /\ SendData(len)
    /\ UNCHANGED sslVars

SslSendDataBehind(len) ==
    /\ ~MayWriteDirectly
    /\ Enqueue(len)
    /\ UNCHANGED sslVars

SslSendDataWrites(n) == SendDataWrites(n) /\ UNCHANGED sslVars

\* WANT_WRITE: the rest is copied to a new buffer; OpenSSL remembers the old one.
SslSendDataAgain ==
    /\ SendDataAgain
    /\ moved' = TRUE
    /\ UNCHANGED <<bServer, m_state, hsVars, recordIn, reading>>

SslSendDataFails ==
    /\ SendDataFails
    /\ m_state' = "CLOSE"
    /\ UNCHANGED <<bServer, hsVars, moved, recordIn, reading>>

SslSendPendingWrites(n) ==
    /\ ~moved
    /\ SendPendingWrites(n)
    /\ UNCHANGED sslVars

SslSendPendingAgain == ~moved /\ SendPendingAgain /\ UNCHANGED sslVars

SslSendPendingFails ==
    /\ SendPendingFails
    /\ m_state' = "CLOSE"
    /\ UNCHANGED <<bServer, hsVars, moved, recordIn, reading>>

\* The write is repeated with another buffer: "bad write retry", and the session ends.
SslSendPendingBadRetry ==
    /\ pc = "flush" /\ bufs # <<>> /\ moved
    /\ CloseState("error")
    /\ pc' = "idle"
    /\ UNCHANGED <<m_sentClose, bufs, data, sockErr, wire, accepted,
                   bServer, hsVars, moved, recordIn, reading>>

\* A slip: the WRITE event stays.
PendingDoneStillWatched ==
    /\ pc = "flush" /\ bufs = <<>>
    /\ pc' = "idle"
    /\ UNCHANGED <<ended, m_sentClose, bufs, watchW, watchFailed, data, sockErr, wire, accepted,
                   sslVars>>

\* All is sent; OnWrite does not look at m_sentClose.
SslSendPendingDone == SendPendingDoneStaysOpen /\ UNCHANGED sslVars

-----------------------------------------------------------------------------
(* The peer.                                                               *)

\* Its next flight: the client's first comes unasked, the others answer ours.
PeerSendsFlight ==
    /\ ~hsIn /\ hsLeft > 0 /\ ~blocked
    /\ spoke \/ (bServer /\ hsLeft = 2)
    /\ hsIn' = TRUE
    /\ UNCHANGED <<vars, bServer, m_state, spoke, blocked, hsLeft, moved, recordIn, reading>>

PeerSendsRecord ==
    /\ m_state = "ESTABLESED" /\ ~recordIn
    /\ recordIn' = TRUE
    /\ UNCHANGED <<vars, bServer, m_state, hsVars, moved, reading>>

SslPeerResets == PeerResets /\ UNCHANGED sslVars

-----------------------------------------------------------------------------
SslSetSentClose(sentClose) == SetSentClose(sentClose) /\ UNCHANGED sslVars
SslClose == CloseBy("app") /\ UNCHANGED sslVars

OnReadStep ==
    \/ OnReadHandshakes \/ OnReadEstablishes \/ OnReadEstablished
ReadLoopStep == ReadGivesRecord \/ ReadWantsRead \/ ReadFails
OnWriteStep == OnWriteHandshakes \/ OnWriteEstablishes \/ OnWriteEstablished
SslPendingWrite == \E n \in 1 .. MaxBytes : SslSendPendingWrites(n)
SendStep ==
    \/ \E n \in 1 .. MaxBytes : SslSendDataWrites(n)
    \/ SslSendDataAgain \/ SslSendDataFails
    \/ SslPendingWrite \/ SslSendPendingAgain \/ SslSendPendingFails
    \/ SslSendPendingBadRetry \/ SslSendPendingDone

SslNext ==
    \/ \E len \in 1 .. MaxLen : SslSendData(len) \/ SslSendDataBehind(len)
    \/ \E sentClose \in BOOLEAN : SslSetSentClose(sentClose)
    \/ SslClose
    \/ OnReadStep \/ ReadLoopStep \/ HandshakeFails \/ OnWriteStep \/ SendStep
    \/ PeerSendsFlight \/ PeerSendsRecord \/ SslPeerResets

SslSafeSpec == SslInit /\ [][SslNext]_allVars

\* As in TcpSession; the peer sends the flights it owes, takes ours in the end, and does
\* not send data without end, so that OnRead's loop leaves the thread to other events.
SslSpec ==
    /\ SslSafeSpec
    /\ WF_allVars(SendStep)
    /\ SF_allVars(SslPendingWrite)
    /\ SF_allVars(ReadWantsRead \/ ReadFails)
    /\ SF_allVars(OnWriteEstablished)
    /\ SF_allVars(OnWriteEstablishes \/ OnReadEstablishes)
    /\ SF_allVars(LoopTurn /\ watchW /\ Handshaking /\ HandshakeAdvances
                    /\ OnWriteHandshakes)
    /\ SF_allVars(LoopTurn /\ watchW /\ Handshaking /\ HandshakeWantsRead
                    /\ OnWriteHandshakes)
    /\ WF_allVars(PeerSendsFlight)

-----------------------------------------------------------------------------
(* Properties, beside those of TcpSession that hold here as well:          *)
(* ImplementsByteStream and what it rests on, WatchedWhilePending, and     *)
(* EveryByteSent.  SentCloseWaitsForData does not hold.                    *)

\* No byte of the application is given to OpenSSL before the peer's part of the
\* handshake was read, however early SendData was called.
NoDataBeforeHandshake == wire # <<>> => hsLeft = 0 /\ ~blocked

\* m_state tells whether the handshake is done, and CLOSE that the session has ended.
StateSound ==
    /\ m_state = "ESTABLESED" => hsLeft = 0 /\ ~hsIn /\ ~blocked
    /\ m_state = "CLOSE" => ~IsOpen
    /\ pc # "idle" => m_state = "ESTABLESED"

\* What makes the two inductive: nothing is written during the handshake, and a flight that
\* has arrived is one still to be read.
HandshakeSound ==
    /\ Handshaking => wire = <<>>
    /\ hsIn => hsLeft > 0

SslIInv == SslTypeOK /\ StreamInv /\ StateSound /\ NoDataBeforeHandshake /\ HandshakeSound
=============================================================================
