--------------------------- MODULE SslSessionProofs ---------------------------
(***************************************************************************)
(* SslSession keeps what TcpSession promises of its byte stream, though it *)
(* overrides every method that sends: data given during the handshake      *)
(* waits in the list, nothing is written before the handshake is done, the *)
(* loops that write come to an end, and every step is a step of            *)
(* ByteStream.                                                             *)
(***************************************************************************)
EXTENDS SslSession, TcpSessionProofs

\* OnRead or SendPendingData has closed the session.
LEMMA CloseStateStep ==
    ASSUME StreamInv, NEW cause \in {"peer", "error"}, CloseState(cause),
           UNCHANGED <<m_sentClose, bufs, data, sockErr, wire, accepted>>,
           pc # "send", pc' = "idle"
    PROVE  StreamInv'
<1>0. /\ ended \in {"no"} \cup Causes /\ m_sentClose \in BOOLEAN /\ watchW \in BOOLEAN
      /\ watchFailed \in BOOLEAN /\ sockErr \in BOOLEAN /\ FrameSound
  BY DEF StreamInv, TypeOK
<1>1. /\ ended' \in Causes /\ (ended # "no" => ended' = ended) /\ ended' # "no"
      /\ watchW' \in BOOLEAN /\ watchFailed' \in BOOLEAN /\ ~watchW'
      /\ (ended' = "sentClose" => ended = "sentClose")
  BY <1>0 DEF CloseState, CloseSession, IsOpen, Causes, FrameSound
<1>2. WatchedWhilePending'
  BY <1>1 DEF WatchedWhilePending, IsOpen
<1>3. QED
  BY <1>0, <1>1, <1>2, QuietStep

\* All is sent, and the session stays open whatever m_sentClose says.
LEMMA StaysOpenStep ==
    ASSUME StreamInv, SendPendingDoneStaysOpen
    PROVE  StreamInv'
<1>0. /\ ended = "no" /\ m_sentClose \in BOOLEAN /\ watchW \in BOOLEAN
      /\ watchFailed \in BOOLEAN /\ sockErr \in BOOLEAN
  BY DEF StreamInv, TypeOK, FrameSound, IsOpen, SendPendingDoneStaysOpen
<1>1. /\ ended' = "no" /\ pc = "flush" /\ pc' = "idle" /\ bufs = <<>> /\ bufs' = <<>>
      /\ UNCHANGED <<m_sentClose, bufs, data, sockErr, wire, accepted>> /\ Watch(FALSE)
  BY <1>0 DEF SendPendingDoneStaysOpen, UnwatchWrite
<1>2. watchW' \in BOOLEAN /\ watchFailed' \in BOOLEAN /\ WatchedWhilePending'
  BY <1>0, <1>1 DEF Watch, WatchedWhilePending
<1>3. QED
  BY <1>0, <1>1, <1>2, QuietStep DEF Causes

\* The step of SslSession seen from TcpSession: one of its own, a buffer added, a close, the
\* end of SendPendingData without a close, or nothing.
LEMMA BaseStep ==
    ASSUME StreamInv, [SslNext]_allVars
    PROVE  \/ [Next]_vars
           \/ \E len \in 1 .. MaxLen : Enqueue(len)
           \/ SendPendingDoneStaysOpen
           \/ /\ \E cause \in {"peer", "error"} : CloseState(cause)
              /\ UNCHANGED <<m_sentClose, bufs, data, sockErr, wire, accepted>>
              /\ pc # "send" /\ pc' = "idle"
<1>1. CASE \E len \in 1 .. MaxLen : SslSendData(len) \/ SslSendDataBehind(len)
  BY <1>1 DEF SslSendData, SslSendDataBehind, Next
<1>2. CASE \/ \E sentClose \in BOOLEAN : SslSetSentClose(sentClose)
           \/ SslClose \/ SslPeerResets
  BY <1>2 DEF SslSetSentClose, SslClose, SslPeerResets, Next
<1>3. CASE OnReadStep
  BY <1>3 DEF OnReadStep, OnReadHandshakes, OnReadEstablishes, OnReadEstablished
<1>4. CASE ReadLoopStep
  BY <1>4 DEF ReadLoopStep, ReadGivesRecord, ReadWantsRead, ReadFails
<1>5. CASE HandshakeFails
  BY <1>5 DEF HandshakeFails, LoopTurn
<1>6. CASE OnWriteStep
  <2>1. CASE OnWriteHandshakes
    BY <2>1 DEF OnWriteHandshakes
  <2>2. CASE OnWriteEstablishes
    BY <2>2 DEF OnWriteEstablishes, LoopTurn, OnWrite, Next
  <2>3. CASE OnWriteEstablished
    BY <2>3 DEF OnWriteEstablished, Next
  <2>4. QED
    BY <1>6, <2>1, <2>2, <2>3 DEF OnWriteStep
<1>7. CASE SendStep
  <2>1. CASE \E n \in 1 .. MaxBytes : SslSendDataWrites(n) \/ SslSendPendingWrites(n)
    BY <2>1 DEF SslSendDataWrites, SslSendPendingWrites, Next
  <2>2. CASE SslSendDataAgain \/ SslSendDataFails \/ SslSendPendingAgain \/ SslSendPendingFails
    BY <2>2 DEF SslSendDataAgain, SslSendDataFails, SslSendPendingAgain, SslSendPendingFails, Next
  <2>3. CASE SslSendPendingBadRetry
    BY <2>3 DEF SslSendPendingBadRetry
  <2>4. CASE SslSendPendingDone
    BY <2>4 DEF SslSendPendingDone
  <2>5. QED
    BY <1>7, <2>1, <2>2, <2>3, <2>4 DEF SendStep, SslPendingWrite
<1>8. CASE PeerSendsFlight \/ PeerSendsRecord \/ UNCHANGED allVars
  BY <1>8 DEF PeerSendsFlight, PeerSendsRecord, allVars
<1>9. QED
  BY <1>1, <1>2, <1>3, <1>4, <1>5, <1>6, <1>7, <1>8 DEF SslNext

LEMMA SslNextStreamInv ==
    ASSUME StreamInv, [SslNext]_allVars
    PROVE  StreamInv'
BY BaseStep, NextStreamInv, EnqueueStep, StaysOpenStep, CloseStateStep

-----------------------------------------------------------------------------
(* The byte stream.                                                        *)

LEMMA SslNextStream ==
    ASSUME StreamInv, StreamInv', [SslNext]_allVars
    PROVE  [Stream!Next]_(Stream!vars)
<1>1. CASE [Next]_vars
  BY <1>1, NextStream
<1>2. ASSUME NEW len \in 1 .. MaxLen, Enqueue(len)
      PROVE  [Stream!Next]_(Stream!vars)
  <2>1. /\ ended = "no" /\ ended' = "no" /\ wire' = wire
        /\ accepted' = accepted + len /\ accepted + len <= MaxBytes /\ accepted \in Nat
    BY <1>2 DEF Enqueue, IsOpen, StreamInv, TypeOK
  <2>2. len \in 0 .. MaxBytes
    BY <2>1, SendAssumption
  <2>3. Stream!Give(len)
    BY <2>1, PhaseOf, PhaseOfNext DEF Phase, Stream!Give
  <2>4. QED
    BY <2>2, <2>3 DEF Stream!Next
<1>3. CASE SendPendingDoneStaysOpen
  BY <1>3, CloseStep DEF SendPendingDoneStaysOpen
<1>4. ASSUME NEW cause \in {"peer", "error"}, CloseState(cause), UNCHANGED <<wire, accepted>>
      PROVE  [Stream!Next]_(Stream!vars)
  BY <1>4, CloseStep DEF CloseState, CloseSession, IsOpen
<1>5. QED
  BY <1>1, <1>2, <1>3, <1>4, BaseStep

-----------------------------------------------------------------------------
(* The handshake.                                                          *)

\* What the proofs below need of TcpSession's invariant.
LEMMA OpenWhileBusy ==
    ASSUME StreamInv
    PROVE  /\ pc # "idle" => IsOpen
           /\ pc \in {"idle", "send", "flush"}
BY DEF StreamInv, TypeOK, FrameSound

\* The variables of the handshake, and what is said of them.
HandshakeTypeOK ==
    /\ bServer \in BOOLEAN /\ spoke \in BOOLEAN /\ blocked \in BOOLEAN
    /\ m_state \in {"INIT", "HANDSHAKING", "ESTABLESED", "CLOSE"}
    /\ hsIn \in BOOLEAN /\ hsLeft \in 0 .. 2
    /\ moved \in BOOLEAN /\ recordIn \in BOOLEAN /\ reading \in BOOLEAN

HandshakeInv == HandshakeTypeOK /\ StateSound /\ NoDataBeforeHandshake /\ HandshakeSound

LEMMA SslIInvParts ==
    SslIInv <=> StreamInv /\ HandshakeInv
BY DEF SslIInv, SslTypeOK, HandshakeInv, HandshakeTypeOK, StreamInv

\* A step of OpenSSL that reads or writes flights, while nothing is on the wire.
LEMMA FlightStep ==
    ASSUME HandshakeInv, Handshaking,
           HandshakeUnfinished \/ HandshakeCompletes
    PROVE  /\ spoke' \in BOOLEAN /\ blocked' \in BOOLEAN /\ hsIn' \in BOOLEAN
           /\ hsLeft' \in 0 .. 2
           /\ hsIn' => hsLeft' > 0
           /\ HandshakeCompletes => hsLeft' = 0 /\ ~hsIn' /\ ~blocked'
<1>0. HandshakeTypeOK /\ HandshakeSound
  BY DEF HandshakeInv
<1>1. /\ hsLeft \in 0 .. 2 /\ spoke \in BOOLEAN /\ hsIn \in BOOLEAN /\ blocked \in BOOLEAN
      /\ (hsIn => hsLeft > 0)
  BY <1>0 DEF HandshakeTypeOK, HandshakeSound
<1>2. CASE HandshakeWantsRead
  BY <1>1, <1>2 DEF HandshakeWantsRead, HandshakeCompletes
<1>3. CASE ~HandshakeWantsRead
  <2>1. /\ hsIn' = FALSE
        /\ hsLeft' = IF hsIn THEN hsLeft - 1 ELSE hsLeft
    BY <1>3 DEF HandshakeUnfinished, HandshakeWantsWrite, HandshakeAdvances, HandshakeCompletes
  <2>2. hsLeft' \in 0 .. 2
    <3>1. CASE hsIn
      BY <1>1, <2>1, <3>1
    <3>2. CASE ~hsIn
      BY <1>1, <2>1, <3>2
    <3>3. QED
      BY <3>1, <3>2
  <2>3. spoke' \in BOOLEAN /\ blocked' \in BOOLEAN
    BY <1>1, <1>3 DEF HandshakeUnfinished, HandshakeWantsWrite, HandshakeAdvances, HandshakeCompletes
  <2>4. HandshakeCompletes => hsLeft' = 0 /\ ~blocked'
    BY DEF HandshakeCompletes
  <2>5. QED
    BY <2>1, <2>2, <2>3, <2>4
<1>4. QED
  BY <1>2, <1>3

\* OnRead or OnWrite drives the handshake, and it is not done.
LEMMA HandshakesStep ==
    ASSUME StreamInv, HandshakeInv, OnReadHandshakes \/ OnWriteHandshakes
    PROVE  HandshakeInv'
<1>0. /\ HandshakeTypeOK /\ Handshaking /\ wire = <<>> /\ pc = "idle"
      /\ HandshakeUnfinished
  BY DEF HandshakeInv, HandshakeSound, OnReadHandshakes, OnWriteHandshakes, LoopTurn
<1>1. /\ UNCHANGED <<vars, bServer, moved, recordIn, reading>> /\ m_state' = "HANDSHAKING"
  BY DEF OnReadHandshakes, OnWriteHandshakes
<1>2. /\ spoke' \in BOOLEAN /\ blocked' \in BOOLEAN /\ hsIn' \in BOOLEAN
      /\ hsLeft' \in 0 .. 2 /\ (hsIn' => hsLeft' > 0)
  BY <1>0, FlightStep
<1>3. wire' = wire /\ pc' = pc /\ ended' = ended
  BY <1>1 DEF vars
<1>4. QED
  BY <1>0, <1>1, <1>2, <1>3
  DEF HandshakeInv, HandshakeTypeOK, StateSound, NoDataBeforeHandshake, HandshakeSound,
      Handshaking, IsOpen

\* The handshake completes, and the event goes on to read or to send.
LEMMA EstablishesStep ==
    ASSUME StreamInv, HandshakeInv, OnReadEstablishes \/ OnWriteEstablishes
    PROVE  HandshakeInv'
<1>0. /\ HandshakeTypeOK /\ Handshaking /\ wire = <<>>
      /\ HandshakeCompletes
  BY DEF HandshakeInv, HandshakeSound, OnReadEstablishes, OnWriteEstablishes
<1>1. /\ bServer' = bServer /\ moved' = moved /\ recordIn' = recordIn /\ wire' = wire
      /\ m_state' = "ESTABLESED" /\ reading' \in BOOLEAN
  BY <1>0 DEF OnReadEstablishes, OnWriteEstablishes, vars, HandshakeTypeOK
<1>2. /\ spoke' \in BOOLEAN /\ hsLeft' = 0 /\ ~hsIn' /\ ~blocked'
      /\ hsIn' \in BOOLEAN /\ blocked' \in BOOLEAN
  BY <1>0, FlightStep
<1>3. QED
  BY <1>0, <1>1, <1>2
  DEF HandshakeInv, HandshakeTypeOK, StateSound, NoDataBeforeHandshake, HandshakeSound,
      Handshaking, IsOpen

\* The session has ended, and the state may say so.
LEMMA EndsStep ==
    ASSUME StreamInv, HandshakeInv, ended' # "no", pc' = "idle",
           UNCHANGED <<wire, bServer, hsVars, moved, recordIn>>,
           m_state' \in {m_state, "CLOSE"}, reading' \in BOOLEAN
    PROVE  HandshakeInv'
BY DEF HandshakeInv, HandshakeTypeOK, StateSound, NoDataBeforeHandshake, HandshakeSound,
       Handshaking, IsOpen, hsVars

\* A step of TcpSession that leaves the handshake alone, and writes only when it is done.
LEMMA SameHandshakeStep ==
    ASSUME StreamInv, HandshakeInv, UNCHANGED <<bServer, m_state, hsVars>>,
           moved' \in BOOLEAN, recordIn' \in BOOLEAN, reading' \in BOOLEAN,
           m_state = "CLOSE" => ended' = ended,
           m_state # "ESTABLESED" => pc' = "idle" /\ wire' = wire
    PROVE  HandshakeInv'
BY DEF HandshakeInv, HandshakeTypeOK, StateSound, NoDataBeforeHandshake, HandshakeSound,
       Handshaking, IsOpen, hsVars

\* The application, and the peer's reset.
LEMMA AppHandshake ==
    ASSUME StreamInv, HandshakeInv,
           \/ \E len \in 1 .. MaxLen : SslSendData(len) \/ SslSendDataBehind(len)
           \/ \E sentClose \in BOOLEAN : SslSetSentClose(sentClose)
           \/ SslClose \/ SslPeerResets
    PROVE  HandshakeInv'
<1>0. /\ UNCHANGED sslVars
      /\ moved \in BOOLEAN /\ recordIn \in BOOLEAN /\ reading \in BOOLEAN
      /\ (m_state = "CLOSE" => ended # "no") /\ (pc # "idle" => m_state = "ESTABLESED")
  BY DEF HandshakeInv, HandshakeTypeOK, StateSound, IsOpen,
         SslSendData, SslSendDataBehind, SslSetSentClose, SslClose, SslPeerResets
<1>1. CASE \E len \in 1 .. MaxLen : SslSendData(len) \/ SslSendDataBehind(len)
  BY <1>0, <1>1, SameHandshakeStep
  DEF sslVars, SslSendData, MayWriteDirectly, SendData, SslSendDataBehind, Enqueue
<1>2. CASE \E sentClose \in BOOLEAN : SslSetSentClose(sentClose)
  BY <1>0, <1>2, SameHandshakeStep DEF sslVars, SslSetSentClose, SetSentClose, IsOpen
<1>3. CASE SslClose
  BY <1>0, <1>3, SameHandshakeStep DEF sslVars, SslClose, CloseBy, IsOpen
<1>4. CASE SslPeerResets
  BY <1>0, <1>4, SameHandshakeStep DEF sslVars, SslPeerResets, PeerResets
<1>5. QED
  BY <1>1, <1>2, <1>3, <1>4

\* SendData and SendPendingData.
LEMMA SendHandshake ==
    ASSUME StreamInv, HandshakeInv, SendStep
    PROVE  HandshakeInv'
<1>0. /\ UNCHANGED <<bServer, hsVars, recordIn, reading>>
      /\ moved \in BOOLEAN /\ recordIn \in BOOLEAN /\ reading \in BOOLEAN
      /\ pc # "idle" /\ m_state = "ESTABLESED"
  BY DEF HandshakeInv, HandshakeTypeOK, StateSound, SendStep, sslVars, hsVars,
         SslPendingWrite, SslSendDataWrites, SslSendDataAgain, SslSendDataFails,
         SslSendPendingWrites, SslSendPendingAgain, SslSendPendingFails, SslSendPendingBadRetry,
         SslSendPendingDone, SendDataWrites, SendDataAgain, SendDataFails, SendPendingWrites,
         SendPendingAgain, SendPendingFails, SendPendingDoneStaysOpen
<1>1. CASE /\ UNCHANGED m_state /\ moved' \in BOOLEAN
  BY <1>0, <1>1, SameHandshakeStep
<1>2. CASE SslSendDataFails \/ SslSendPendingFails \/ SslSendPendingBadRetry
  <2>1. /\ UNCHANGED <<wire, moved>> /\ ended' # "no" /\ pc' = "idle" /\ m_state' = "CLOSE"
    BY <1>2 DEF SslSendDataFails, SslSendPendingFails, SslSendPendingBadRetry, SendDataFails,
                SendPendingFails, CloseState, CloseSession, IsOpen
  <2>2. QED
    BY <1>0, <2>1, EndsStep
<1>3. CASE ~(SslSendDataFails \/ SslSendPendingFails \/ SslSendPendingBadRetry)
  BY <1>0, <1>1, <1>3
  DEF SendStep, SslPendingWrite, SslSendDataWrites, SslSendDataAgain, SslSendPendingWrites,
      SslSendPendingAgain, SslSendPendingDone, sslVars
<1>4. QED
  BY <1>2, <1>3

\* OnRead's loop over SSL_read, and a handshake that fails.
LEMMA ReadHandshake ==
    ASSUME StreamInv, HandshakeInv, ReadLoopStep \/ HandshakeFails
    PROVE  HandshakeInv'
<1>0. HandshakeTypeOK
  BY DEF HandshakeInv
<1>1. CASE ReadGivesRecord \/ ReadWantsRead
  <2>1. /\ UNCHANGED <<vars, bServer, m_state, hsVars, moved>>
        /\ recordIn' \in BOOLEAN /\ reading' \in BOOLEAN /\ pc = "idle"
    BY <1>0, <1>1 DEF HandshakeTypeOK, ReadGivesRecord, ReadWantsRead
  <2>2. QED
    BY <1>0, <2>1, SameHandshakeStep DEF HandshakeTypeOK, vars
<1>2. CASE ReadFails \/ HandshakeFails
  BY <1>0, <1>2, EndsStep
  DEF HandshakeTypeOK, ReadFails, HandshakeFails, LoopTurn, CloseState, CloseSession, IsOpen
<1>3. QED
  BY <1>1, <1>2 DEF ReadLoopStep

\* The events that find the handshake done, and the peer.
LEMMA EventHandshake ==
    ASSUME StreamInv, HandshakeInv,
           OnReadEstablished \/ OnWriteEstablished \/ PeerSendsRecord \/ PeerSendsFlight
    PROVE  HandshakeInv'
<1>0. HandshakeTypeOK /\ StateSound
  BY DEF HandshakeInv
<1>1. CASE OnReadEstablished
  BY <1>0, <1>1, SameHandshakeStep DEF HandshakeTypeOK, OnReadEstablished, LoopTurn, vars
<1>2. CASE OnWriteEstablished
  BY <1>0, <1>2, SameHandshakeStep DEF HandshakeTypeOK, OnWriteEstablished, OnWrite, sslVars
<1>3. CASE PeerSendsRecord
  BY <1>0, <1>3, SameHandshakeStep DEF HandshakeTypeOK, PeerSendsRecord, vars
<1>4. CASE PeerSendsFlight
  BY <1>4 DEF HandshakeInv, HandshakeTypeOK, StateSound, NoDataBeforeHandshake, HandshakeSound,
              Handshaking, IsOpen, PeerSendsFlight, vars
<1>5. QED
  BY <1>1, <1>2, <1>3, <1>4

LEMMA SslNextHandshake ==
    ASSUME StreamInv, HandshakeInv, [SslNext]_allVars
    PROVE  HandshakeInv'
<1>1. CASE UNCHANGED allVars
  BY <1>1 DEF allVars, vars, sslVars, hsVars, HandshakeInv, HandshakeTypeOK, StateSound,
              NoDataBeforeHandshake, HandshakeSound, Handshaking, IsOpen
<1>2. CASE SslNext
  BY <1>2, AppHandshake, SendHandshake, ReadHandshake, EventHandshake, HandshakesStep,
     EstablishesStep
  DEF SslNext, OnReadStep, OnWriteStep
<1>3. QED
  BY <1>1, <1>2

LEMMA SslInitIInv == SslInit => StreamInv /\ HandshakeInv
<1>1. ASSUME SslInit
      PROVE  HandshakeInv
  <2>1. /\ bServer \in BOOLEAN /\ spoke = FALSE /\ blocked = FALSE /\ m_state = "INIT"
        /\ hsIn = FALSE /\ moved = FALSE /\ recordIn = FALSE /\ reading = FALSE
        /\ wire = <<>> /\ pc = "idle"
    BY <1>1 DEF SslInit, Init
  <2>2. hsLeft \in 0 .. 2
    BY <1>1 DEF SslInit
  <2>3. QED
    BY <2>1, <2>2 DEF HandshakeInv, HandshakeTypeOK, StateSound, NoDataBeforeHandshake,
                      HandshakeSound, Handshaking, IsOpen
<1>2. QED
  BY <1>1, InitIInv DEF SslInit, IInv

-----------------------------------------------------------------------------
\* The sender's invariant and the handshake's hold throughout.
LEMMA SslInvariance == SslSafeSpec => [](StreamInv /\ HandshakeInv)
<1>1. SslInit => StreamInv /\ HandshakeInv
  BY SslInitIInv
<1>2. (StreamInv /\ HandshakeInv) /\ [SslNext]_allVars => (StreamInv /\ HandshakeInv)'
  BY SslNextStreamInv, SslNextHandshake
<1>3. QED
  BY <1>1, <1>2, PTL DEF SslSafeSpec

\* Whatever the handshake does and whichever of OnRead and OnWrite completes it, no byte of the
\* application is written before it is done, and m_state tells the truth of it.
THEOREM HandshakeIsDoneFirst == SslSafeSpec => [](SslTypeOK /\ NoDataBeforeHandshake /\ StateSound)
<1>1. StreamInv /\ HandshakeInv => SslTypeOK /\ NoDataBeforeHandshake /\ StateSound
  BY SslIInvParts DEF SslIInv
<1>2. QED
  BY <1>1, SslInvariance, PTL

\* The overridden SendData and SendPendingData keep what TcpSession promises: the WRITE watch is
\* there as long as something is pending, and every byte is sent or pending exactly once.
THEOREM SslStreamIsSound == SslSafeSpec => [](WatchedWhilePending /\ NothingDropped)
<1>1. StreamInv => WatchedWhilePending /\ NothingDropped
  BY DEF StreamInv
<1>2. QED
  BY <1>1, SslInvariance, PTL

\* Every step of SslSession is a step of the byte stream.
THEOREM SslRefinement == SslSafeSpec => ImplementsByteStream
<1>1. SslInit => Stream!Init
  BY PhaseOf DEF SslInit, Init, Phase, Stream!Init
<1>2. StreamInv /\ StreamInv' /\ [SslNext]_allVars => [Stream!Next]_(Stream!vars)
  BY SslNextStream
<1>3. QED
  BY <1>1, <1>2, SslInvariance, PTL DEF SslSafeSpec, ImplementsByteStream, Stream!Spec

-----------------------------------------------------------------------------
(* The SSL_write loops.                                                    *)

\* As in TcpSession, with SSL_write for write().
SslLoopNearsItsEnd ==
    pc # "idle" =>
        /\ LoopVariant' <= LoopVariant
        /\ SendStep => LoopVariant' < LoopVariant

\* The steps of SslSession's loops that TcpSession does not have end the loop.
LEMMA SslLoopTurns ==
    ASSUME StreamInv, [SslNext]_allVars
    PROVE  SslLoopNearsItsEnd
<1> SUFFICES ASSUME pc # "idle"
             PROVE  /\ LoopVariant' <= LoopVariant
                    /\ SendStep => LoopVariant' < LoopVariant
  BY DEF SslLoopNearsItsEnd
<1>0. Len(wire) \in Nat /\ accepted \in Nat /\ Len(wire) <= accepted
  BY DEF StreamInv, TypeOK, InOrderOnce
<1>1. CASE pc' = "idle"
  BY <1>0, <1>1 DEF LoopVariant
<1>2. CASE pc' # "idle"
  <2>1. [Next]_vars
    BY <1>2, BaseStep DEF Enqueue, SendPendingDoneStaysOpen
  <2>2. SendStep => LoopStep
    BY <1>2
    DEF SendStep, LoopStep, SslPendingWrite, PendingWrite, SslSendDataWrites, SslSendDataAgain,
        SslSendDataFails, SslSendPendingWrites, SslSendPendingAgain, SslSendPendingFails,
        SslSendPendingBadRetry, SslSendPendingDone, SendPendingDoneStaysOpen
  <2>3. QED
    BY <2>1, <2>2, LoopTurns DEF LoopNearsItsEnd
<1>3. QED
  BY <1>1, <1>2

LEMMA SslGivenBounded ==
    ASSUME StreamInv, GivenWithinBound, [SslNext]_allVars
    PROVE  GivenWithinBound'
BY BaseStep, GivenBounded DEF GivenWithinBound, Enqueue, SendPendingDoneStaysOpen

\* SendData and SendPendingData, as SslSession overrides them, return: each SSL_write that
\* takes bytes, wants to wait or fails brings the end of the loop nearer, and none is stuck.
THEOREM SslWritesComeToAnEnd ==
    SslSafeSpec => [](LoopVariant \in Nat /\ LoopGoesOn) /\ [][SslLoopNearsItsEnd]_allVars
<1>1. SslInit => StreamInv /\ GivenWithinBound
  BY InitStreamInv, SendAssumption DEF SslInit, Init, GivenWithinBound
<1>2. StreamInv /\ GivenWithinBound /\ [SslNext]_allVars =>
        (StreamInv /\ GivenWithinBound)' /\ SslLoopNearsItsEnd
  BY SslNextStreamInv, SslGivenBounded, SslLoopTurns
<1>3. StreamInv /\ GivenWithinBound => LoopVariant \in Nat /\ LoopGoesOn
  BY LoopNumbers
<1>4. QED
  BY <1>1, <1>2, <1>3, PTL DEF SslSafeSpec
=============================================================================
