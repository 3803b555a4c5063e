------------------------ MODULE HttpServerSessionProofs ------------------------
(***************************************************************************)
(* HttpServerSession for any number of lines and requests, cut into reads  *)
(* anywhere and answered at any time, whole or in chunks. The requests     *)
(* processed are those of the bytes: the decoder, in each of its states,   *)
(* has made of the lines before pos what the reference makes of them       *)
(* (DecoderAgrees), and OnRecvData leaves no whole line behind             *)
(* (HandlerSound). Once a request line with one space was taken for legal  *)
(* the decoder is ahead of the reference, which is in error and stays      *)
(* there: what it had delivered was processed first (IsAhead).             *)
(*                                                                         *)
(* When a response closes the session rests on what m_keepAlive,           *)
(* m_sentClose and a response under way remember of the requests, and on a *)
(* marked TCP session being open only while data waits, in the handlers as *)
(* well as in the event loop. OnRecvData's loop comes to an end over TCP:  *)
(* the lines left and the place in its body make a number that falls with  *)
(* every step.                                                             *)
(***************************************************************************)
EXTENDS HttpServerSession, TLAPS

Asking == {i \in 1 .. Len(processed) : processed[i].keepAlive}

\* What the fields of the session say of the requests.
RequestsSound ==
    /\ processed = <<>> => ~m_sentClose
    /\ 1 \in Asking => m_keepAlive /\ ~m_sentClose
    /\ m_keepAlive => Asking # {}

\* What they say of the responses.
ResponsesSound ==
    /\ chunked = "keep-alive" => m_keepAlive
    /\ chunked # "no" => owed > 0
    /\ m_sentClose => saidClose
    /\ owed < Len(processed) => m_keepAlive \/ m_sentClose
    /\ ended = "sentClose" => m_sentClose
    /\ IsOpen /\ m_sentClose => pending \/ https

\* The reference's states, one for each line sent, and an illegal line is its last.
ReadsSound ==
    /\ Len(reads) = Len(stream) + 1
    /\ reads[1] = NewReader
    /\ \A i \in 1 .. Len(stream) : reads[i + 1] = ReadLine(reads[i], stream[i])
    /\ \A i, j \in 1 .. Len(reads) : i <= j /\ reads[i].phase = "illegal" => reads[j] = reads[i]

\* What OnRecvData leaves behind, in the decoder and in m_recvBuf.
HandlerSound ==
    /\ m_status = "ERROR" => ~IsOpen /\ (https \/ (pc = "idle" /\ pos = got \div 2))
    /\ ended = "illegal" => m_status = "ERROR"
    /\ ~https => ~reading
    /\ pc \in {"process", "app"} => m_status \in {"DONE", "ERROR"}
    /\ pc = "idle" /\ m_status # "ERROR" =>
        /\ m_status # "DONE" /\ pos = got \div 2
        /\ m_status = "BODY" => m_request.length = 1

\* Where the decoder is, and where the reference is, having read the same lines.
DecoderAgrees(r) ==
    /\ m_status = "REQ_LINE" =>
        /\ m_request = NewRequest
        /\ r = [phase |-> "line", request |-> NewRequest, requests |-> processed]
    /\ m_status = "HEAD_FIELDS" =>
        r = [phase |-> "head", request |-> m_request, requests |-> processed]
    /\ m_status = "BODY" /\ m_request.length = 0 =>
        r = [phase |-> "line", request |-> NewRequest,
             requests |-> Append(processed, [m_request EXCEPT !.body = <<>>])]
    /\ m_status = "BODY" /\ m_request.length = 1 =>
        r = [phase |-> "body", request |-> m_request, requests |-> processed]
    /\ m_status = "BODY" /\ m_request.length = -1 =>
        r.phase = "illegal" /\ r.requests = processed
    /\ m_status = "DONE" =>
        r = [phase |-> "line", request |-> NewRequest,
             requests |-> IF pc = "process" THEN Append(processed, m_request) ELSE processed]
    /\ m_status = "ERROR" /\ ~https =>
        r.phase = "illegal" /\ r.requests = processed

\* Where they have parted, and for good.
IsAhead(r) == r.phase = "illegal" /\ IsPrefix(r.requests, processed)

DecoderSound == LinesFit => IF stretched THEN IsAhead(Read(pos)) ELSE DecoderAgrees(Read(pos))

Statuses == {"REQ_LINE", "HEAD_FIELDS", "BODY", "DONE", "ERROR"}
Endings == {"no", "peer", "app", "illegal", "error", "sentClose"}
Places == {"idle", "parse", "process", "app"}

-----------------------------------------------------------------------------
(* Types.                                                                  *)

\* Halves keep the order.
LEMMA HalfOf ==
    ASSUME NEW n \in Nat, NEW m \in Nat, m > n
    PROVE  n \div 2 \in Nat /\ m \div 2 \in Nat /\ n \div 2 <= m \div 2
OBVIOUS

\* What is decoded of what has arrived was sent.
LEMMA WithinHalf ==
    ASSUME NEW n \in Nat, NEW g \in 0 .. 2 * n, NEW q \in 0 .. g \div 2
    PROVE  q \in 0 .. n
<1>1. g \in Nat /\ g <= 2 * n
  OBVIOUS
<1>2. g \div 2 <= n /\ g \div 2 \in Nat
  BY <1>1
<1>3. QED
  BY <1>2

\* A line that has arrived was sent.
LEMMA LineSent ==
    ASSUME TypeOK, LineArrived
    PROVE  AfterLine \in 0 .. got \div 2
<1>1. got \in Nat /\ pos \in Nat /\ pos < got \div 2 /\ got \div 2 \in Nat
  BY DEF TypeOK, LineArrived
<1>2. QED
  BY <1>1 DEF AfterLine

\* The lines a body takes were sent.
LEMMA BodySent ==
    ASSUME TypeOK, NEW n \in Nat, got \div 2 - pos >= n
    PROVE  SubSeq(stream, pos + 1, pos + n) \in Seq(Kinds) /\ pos + n \in 0 .. got \div 2
<1>1. stream \in Seq(Kinds) /\ got \in Nat /\ got <= 2 * Len(stream) /\ pos \in Nat
      /\ Len(stream) \in Nat
  BY DEF TypeOK
<1>2. got \div 2 <= Len(stream) /\ got \div 2 \in Nat
  BY <1>1
<1>3. pos + n <= Len(stream) /\ pos + n \in 0 .. got \div 2
  BY <1>1, <1>2
<1>4. \A i \in pos + 1 .. pos + n : stream[i] \in Kinds
  BY <1>1, <1>3
<1>5. QED
  BY <1>1, <1>3, <1>4

LEMMA RequestFields ==
    ASSUME NEW r \in Request
    PROVE  /\ r.length \in {-1, 0, 1} /\ r.body \in Seq(Kinds) /\ r.keepAlive \in BOOLEAN
           /\ [r EXCEPT !.keepAlive = TRUE] \in Request
           /\ [r EXCEPT !.length = 1] \in Request
           /\ [r EXCEPT !.length = -1] \in Request
           /\ \A b \in Seq(Kinds) : [r EXCEPT !.body = b] \in Request
BY DEF Request

LEMMA NewRequestOK == NewRequest \in Request
BY DEF NewRequest, Request

\* Nothing of the connection moves in Parse, but for a close of an illegal message.
ParseKeeps ==
    /\ UNCHANGED <<sentVars, m_keepAlive, m_sentClose, pending, appVars>>
    /\ ended' \in {ended, "illegal"}
    /\ stretched' \in BOOLEAN /\ (stretched => stretched')

\* A step of Parse: where its variables keep their types, so do the others.
LEMMA ParseTyped ==
    ASSUME TypeOK, ParseKeeps,
           pos' \in 0 .. got \div 2, m_status' \in Statuses, m_request' \in Request,
           pc' \in Places
    PROVE  TypeOK'
BY DEF TypeOK, ParseKeeps, sentVars, inputVars, appVars, Statuses, Places

LEMMA ParseStepKeeps ==
    ASSUME TypeOK, ParseStep \/ ParseAfterError
    PROVE  ParseKeeps
<1>0. stretched \in BOOLEAN
  BY DEF TypeOK
<1>1. CASE Error
  BY <1>0, <1>1 DEF ParseKeeps, sentVars, inputVars, Error, Returns
<1>2. CASE ParseResets \/ ParseRequestLine \/ ParseHeadField \/ ParseHeadEnds
  BY <1>0, <1>2 DEF ParseKeeps, ParseResets, ParseRequestLine, ParseHeadField, ParseHeadEnds,
              sentVars, inputVars, connVars
<1>3. CASE ParseLineNeedsMore \/ ParseBodyNeedsMore \/ ParseBody \/ ParseAfterError
  BY <1>0, <1>3 DEF ParseKeeps, ParseLineNeedsMore, ParseBodyNeedsMore, ParseBody, ParseAfterError,
              sentVars, inputVars, Returns
<1>4. QED
  BY <1>1, <1>2, <1>3
  DEF ParseStep, ParseRequestLineFails, ParseHeadFails, ParseLineTooLong, ParseBodyFails

LEMMA ParseStepTyped ==
    ASSUME TypeOK, ParseStep \/ ParseAfterError
    PROVE  TypeOK'
<1>0. /\ ParseKeeps /\ m_request \in Request /\ m_status \in Statuses /\ pc \in Places
      /\ pos \in 0 .. got \div 2 /\ got \in Nat
  BY ParseStepKeeps DEF TypeOK, Statuses, Places
<1>1. CASE ParseResets
  BY <1>0, <1>1, NewRequestOK, ParseTyped DEF ParseResets, Reset, Statuses
<1>2. CASE ParseRequestLine \/ ParseHeadEnds
  BY <1>0, <1>2, LineSent, ParseTyped DEF ParseRequestLine, ParseHeadEnds, Statuses
<1>3. CASE ParseHeadField
  <2>1. m_request' \in Request
    BY <1>0, <1>3, RequestFields DEF ParseHeadField, WithField, Fields
  <2>2. QED
    BY <1>0, <1>3, <2>1, LineSent, ParseTyped DEF ParseHeadField
<1>4. CASE Error
  <2>1. got \div 2 \in 0 .. got \div 2
    BY <1>0
  <2>2. QED
    BY <1>0, <1>4, <2>1, ParseTyped DEF Error, Returns, Statuses, Places
<1>5. CASE ParseLineNeedsMore \/ ParseBodyNeedsMore \/ ParseAfterError
  BY <1>0, <1>5, ParseTyped
  DEF ParseLineNeedsMore, ParseBodyNeedsMore, ParseAfterError, Returns, Places
<1>6. CASE ParseBody
  <2>1. m_request.length \in {-1, 0, 1} /\ m_request.length >= 0
    BY <1>0, <1>6, RequestFields DEF ParseBody
  <2>2. m_request.length \in Nat /\ got \div 2 - pos >= m_request.length
    BY <1>6, <2>1 DEF ParseBody, BodyArrived
  <2>3. /\ SubSeq(stream, pos + 1, pos + m_request.length) \in Seq(Kinds)
        /\ pos + m_request.length \in 0 .. got \div 2
    BY <2>2, BodySent
  <2>4. m_request' \in Request
    BY <1>0, <1>6, <2>3, RequestFields DEF ParseBody
  <2>5. QED
    BY <1>0, <1>6, <2>3, <2>4, ParseTyped DEF ParseBody, Returns, Statuses, Places
<1>7. QED
  BY <1>1, <1>2, <1>3, <1>4, <1>5, <1>6
  DEF ParseStep, ParseRequestLineFails, ParseHeadFails, ParseLineTooLong, ParseBodyFails

\* What is first stays first.
LEMMA Appended ==
    ASSUME NEW s \in Seq(Request), NEW req \in Request
    PROVE  /\ Append(s, req) \in Seq(Request) /\ Len(Append(s, req)) = Len(s) + 1
           /\ Len(s) \in Nat /\ (s = <<>> <=> Len(s) = 0)
           /\ \A i \in 1 .. Len(s) : Append(s, req)[i] = s[i]
           /\ Append(s, req)[Len(s) + 1] = req
OBVIOUS

LEMMA CallTyped ==
    ASSUME TypeOK, CallProcessHttpRequest
    PROVE  TypeOK'
<1>0. /\ m_request \in Request /\ processed \in Seq(Request) /\ m_keepAlive \in BOOLEAN
      /\ m_request.keepAlive \in BOOLEAN /\ owed \in 0 .. Len(processed)
  BY RequestFields DEF TypeOK
<1>1. /\ processed' = Append(processed, m_request) /\ owed' = owed + 1 /\ pc' = "app"
      /\ m_keepAlive' = (m_keepAlive \/ m_request.keepAlive)
      /\ UNCHANGED <<inputVars, pos, m_status, m_request, connVars, chunked, saidClose>>
  BY DEF CallProcessHttpRequest
<1>2. processed' \in Seq(Request) /\ owed' \in 0 .. Len(processed')
  BY <1>0, <1>1, Appended
<1>3. m_keepAlive' \in BOOLEAN
  BY <1>0, <1>1
<1>4. QED
  BY <1>1, <1>2, <1>3 DEF TypeOK, sentVars, inputVars, connVars

\* What SendData and SetSentClose do to the connection.
LEMMA SendsTyped ==
    ASSUME TypeOK, NEW o \in Outcomes, NEW marks \in BOOLEAN, Sends(o, marks)
    PROVE  pending' \in BOOLEAN /\ m_sentClose' \in BOOLEAN /\ ended' \in Endings
<1>1. o.waits \in BOOLEAN /\ o.fails \in BOOLEAN
  BY DEF Outcomes
<1>2. QED
  BY <1>1 DEF TypeOK, Sends, Endings

\* The four ways to go on with a response, by what they do to the rest.
Answers(o, marks) ==
    /\ MayRespond /\ Sends(o, marks)
    /\ UNCHANGED respondKeeps
    /\ owed' \in {owed, owed - 1}
    /\ chunked' \in {"no", "close", "keep-alive"}
    /\ saidClose' \in BOOLEAN

LEMMA RespondsAnswers ==
    ASSUME TypeOK, NEW o \in Outcomes,
           SendResponse(o) \/ SendResponseStart(o) \/ SendChunk(o) \/ SendResponseEnd(o)
    PROVE  Answers(o, FALSE) \/ Answers(o, ~m_keepAlive)
<1>1. saidClose \in BOOLEAN /\ m_keepAlive \in BOOLEAN /\ chunked \in {"no", "close", "keep-alive"}
  BY DEF TypeOK
<1>2. CASE SendResponse(o)
  BY <1>1, <1>2 DEF SendResponse, Answers
<1>3. CASE SendResponseStart(o)
  BY <1>1, <1>3 DEF SendResponseStart, Answers
<1>4. CASE SendChunk(o)
  BY <1>1, <1>4 DEF SendChunk, Answers
<1>5. CASE SendResponseEnd(o)
  BY <1>1, <1>5 DEF SendResponseEnd, Answers
<1>6. QED
  BY <1>2, <1>3, <1>4, <1>5

LEMMA RespondsTyped ==
    ASSUME TypeOK, Responds
    PROVE  TypeOK'
<1>1. PICK o \in Outcomes :
        SendResponse(o) \/ SendResponseStart(o) \/ SendChunk(o) \/ SendResponseEnd(o)
  BY DEF Responds
<1>2. PICK marks \in BOOLEAN : Answers(o, marks)
  <2>1. m_keepAlive \in BOOLEAN
    BY DEF TypeOK
  <2>2. QED
    BY <1>1, <2>1, RespondsAnswers
<1>3. pending' \in BOOLEAN /\ m_sentClose' \in BOOLEAN /\ ended' \in Endings
  BY <1>2, SendsTyped DEF Answers
<1>4. /\ UNCHANGED <<inputVars, pos, m_status, m_request, m_keepAlive, pc, processed>>
      /\ chunked' \in {"no", "close", "keep-alive"} /\ saidClose' \in BOOLEAN
  BY <1>2 DEF Answers, respondKeeps
<1>5. owed' \in 0 .. Len(processed)
  <2>1. owed \in 0 .. Len(processed) /\ processed \in Seq(Request) /\ owed > 0
        /\ owed' \in {owed, owed - 1}
    BY <1>2 DEF TypeOK, Answers, MayRespond
  <2>2. QED
    BY <2>1
<1>6. QED
  BY <1>3, <1>4, <1>5 DEF TypeOK, sentVars, inputVars, Endings

\* One line more for the reference: it has a next state, and an illegal line was its last.
LEMMA ReadLineTyped ==
    ASSUME NEW r \in Reader, NEW line \in Kinds
    PROVE  ReadLine(r, line) \in Reader /\ (r.phase = "illegal" => ReadLine(r, line) = r)
<1>0. /\ r.phase \in {"line", "head", "body", "illegal"} /\ r.request \in Request
      /\ r.requests \in Seq(Request) /\ r.request.length \in {-1, 0, 1}
  BY RequestFields DEF Reader
<1>1. Illegal(r) \in Reader /\ [r EXCEPT !.phase = "head"] \in Reader
      /\ [r EXCEPT !.phase = "body"] \in Reader
  BY DEF Illegal, Reader
<1>2. \A b \in Seq(Kinds) : Deliver(r, b) \in Reader
  <2> SUFFICES ASSUME NEW b \in Seq(Kinds)
               PROVE  Deliver(r, b) \in Reader
    OBVIOUS
  <2>1. [r.request EXCEPT !.body = b] \in Request
    BY <1>0, RequestFields
  <2>2. Append(r.requests, [r.request EXCEPT !.body = b]) \in Seq(Request)
    BY <1>0, <2>1
  <2>3. QED
    BY <2>2, NewRequestOK DEF Deliver, Reader
<1>3. ReadHead(r, line) \in Reader
  <2>1. CASE line \in {"ka", "len1", "lenbad"}
    <3>1. /\ [r.request EXCEPT !.keepAlive = TRUE] \in Request
          /\ [r.request EXCEPT !.length = 1] \in Request
          /\ [r.request EXCEPT !.length = -1] \in Request
      BY <1>0, RequestFields
    <3>2. QED
      BY <2>1, <3>1 DEF ReadHead, Reader
  <2>2. CASE line \in {"long", "ver", "req", "half", "bad"}
    BY <2>2, <1>1 DEF ReadHead
  <2>3. CASE line = "empty"
    <3>1. <<>> \in Seq(Kinds)
      OBVIOUS
    <3>2. Deliver(r, <<>>) \in Reader
      BY <1>2, <3>1
    <3>3. QED
      BY <2>3, <1>0, <1>1, <3>2 DEF ReadHead
  <2>4. QED
    BY <2>1, <2>2, <2>3 DEF Kinds
<1>4. Deliver(r, <<line>>) \in Reader
  <2>1. <<line>> \in Seq(Kinds)
    OBVIOUS
  <2>2. QED
    BY <1>2, <2>1
<1>5. QED
  BY <1>0, <1>1, <1>3, <1>4 DEF ReadLine

\* The states of the reference.
LEMMA ReadTyped ==
    ASSUME TypeOK, ReadsSound, NEW n \in 0 .. Len(stream)
    PROVE  Read(n) \in Reader
BY DEF TypeOK, ReadsSound, Read

\* A line more is read, and what was read before stays.
LEMMA SentRead ==
    ASSUME TypeOK, ReadsSound, NEW line \in Kinds, PeerSends(line)
    PROVE  /\ ReadsSound' /\ reads' \in Seq(Reader)
           /\ \A n \in 0 .. Len(stream) : reads'[n + 1] = reads[n + 1]
<1> DEFINE next == ReadLine(Read(Len(stream)), line)
<1>0. /\ stream \in Seq(Kinds) /\ Len(stream) \in Nat /\ reads \in Seq(Reader)
      /\ Len(reads) = Len(stream) + 1
      /\ stream' = Append(stream, line) /\ reads' = Append(reads, next)
  BY DEF TypeOK, ReadsSound, PeerSends
<1>1. /\ Read(Len(stream)) \in Reader /\ next \in Reader
      /\ Read(Len(stream)).phase = "illegal" => next = Read(Len(stream))
  BY <1>0, ReadTyped, ReadLineTyped
<1> HIDE DEF next
<1>2. /\ Len(stream') = Len(stream) + 1
      /\ \A i \in 1 .. Len(stream) : stream'[i] = stream[i]
      /\ stream'[Len(stream) + 1] = line
  BY <1>0
<1>3. /\ reads' \in Seq(Reader) /\ Len(reads') = Len(reads) + 1
      /\ \A i \in 1 .. Len(reads) : reads'[i] = reads[i]
      /\ reads'[Len(reads) + 1] = next
  BY <1>0, <1>1
<1>4. \A i \in 1 .. Len(stream') : reads'[i + 1] = ReadLine(reads'[i], stream'[i])
  <2> SUFFICES ASSUME NEW i \in 1 .. Len(stream')
               PROVE  reads'[i + 1] = ReadLine(reads'[i], stream'[i])
    OBVIOUS
  <2>1. CASE i \in 1 .. Len(stream)
    BY <2>1, <1>0, <1>2, <1>3 DEF ReadsSound
  <2>2. CASE i = Len(stream) + 1
    BY <2>2, <1>0, <1>2, <1>3 DEF Read, next
  <2>3. QED
    BY <1>0, <1>2, <2>1, <2>2
<1>5. \A i, j \in 1 .. Len(reads') :
        i <= j /\ reads'[i].phase = "illegal" => reads'[j] = reads'[i]
  <2> SUFFICES ASSUME NEW i \in 1 .. Len(reads'), NEW j \in 1 .. Len(reads'),
                      i <= j, reads'[i].phase = "illegal"
               PROVE  reads'[j] = reads'[i]
    OBVIOUS
  <2>1. CASE j \in 1 .. Len(reads)
    BY <2>1, <1>0, <1>3 DEF ReadsSound
  <2>2. CASE j = Len(reads) + 1 /\ i # j
    <3>1. i \in 1 .. Len(reads) /\ Len(reads) \in 1 .. Len(reads)
      BY <2>2, <1>0, <1>3
    <3>2. reads[Len(reads)] = reads[i]
      BY <3>1, <1>3 DEF ReadsSound
    <3>3. next = reads[i]
      BY <3>1, <3>2, <1>0, <1>1, <1>3 DEF Read
    <3>4. QED
      BY <2>2, <3>1, <3>3, <1>3
  <2>3. QED
    BY <1>0, <1>3, <2>1, <2>2
<1>6. QED
  BY <1>0, <1>2, <1>3, <1>4, <1>5 DEF ReadsSound

\* The peer, the transport, OnWrite, and what the application does besides answering.
LEMMA IdleTyped ==
    ASSUME TypeOK, ReadsSound,
           \/ \E line \in Kinds : PeerSends(line)
           \/ \E missing \in 0 .. 1 : OnRecvData(missing)
           \/ ReadEnds \/ PeerCloses \/ OnWrite \/ AppCloses \/ ProcessHttpRequestReturns
    PROVE  TypeOK'
<1>0. /\ stream \in Seq(Kinds) /\ Len(stream) \in Nat /\ got \in Nat /\ got <= 2 * Len(stream)
      /\ pos \in 0 .. got \div 2 /\ https \in BOOLEAN
  BY DEF TypeOK
<1>1. CASE \E line \in Kinds : PeerSends(line)
  <2>1. PICK line \in Kinds : PeerSends(line)
    BY <1>1
  <2>2. stream' = Append(stream, line)
    BY <2>1 DEF PeerSends
  <2>3. stream' \in Seq(Kinds) /\ Len(stream') = Len(stream) + 1
    BY <1>0, <2>2
  <2>r. reads' \in Seq(Reader)
    BY <2>1, SentRead
  <2>4. got \in 0 .. 2 * Len(stream')
    BY <1>0, <2>3
  <2>5. QED
    BY <2>1, <2>3, <2>4, <2>r DEF TypeOK, PeerSends, connVars, appVars
<1>2. CASE \E missing \in 0 .. 1 : OnRecvData(missing)
  <2>1. PICK missing \in 0 .. 1 : OnRecvData(missing)
    BY <1>2
  <2>2. got' \in 0 .. 2 * Len(stream) /\ got' > got
    BY <1>0, <2>1 DEF OnRecvData
  <2>3. pos \in 0 .. got' \div 2
    <3>1. got' \in Nat
      BY <1>0, <2>2
    <3>2. got \div 2 <= got' \div 2 /\ got' \div 2 \in Nat /\ got \div 2 \in Nat
      BY <1>0, <2>2, <3>1, HalfOf
    <3>3. pos \in 0 .. got \div 2
      BY <1>0
    <3>4. QED
      BY <3>2, <3>3
  <2>4. QED
    BY <1>0, <2>1, <2>2, <2>3 DEF TypeOK, OnRecvData, connVars, appVars
<1>3. CASE ReadEnds \/ PeerCloses
  <2>1. CASE ReadEnds
    <3>1. /\ reading' \in BOOLEAN
          /\ UNCHANGED <<https, stream, reads, got, stretched, pos, m_status, m_request,
                         m_keepAlive,
                         m_sentClose, pending, ended, pc, processed, owed, chunked, saidClose>>
      BY <2>1 DEF ReadEnds, connVars, appVars
    <3>2. QED
      BY <3>1 DEF TypeOK
  <2>2. CASE PeerCloses
    BY <2>2 DEF TypeOK, PeerCloses, appVars
  <2>3. QED
    BY <1>3, <2>1, <2>2
<1>w. CASE OnWrite
  BY <1>w DEF TypeOK, OnWrite, sentVars, inputVars, appVars
<1>4. CASE AppCloses \/ ProcessHttpRequestReturns
  BY <1>4 DEF TypeOK, AppCloses, ProcessHttpRequestReturns, sentVars, inputVars, connVars, appVars
<1>5. QED
  BY <1>1, <1>2, <1>3, <1>4, <1>w

-----------------------------------------------------------------------------
(* The decoder and the reference.                                          *)

\* The next line, for both.
LEMMA ReadNext ==
    ASSUME TypeOK, ReadsSound, pos < Len(stream)
    PROVE  /\ Line \in Kinds /\ (LinesFit => Line # "long")
           /\ Read(pos) \in Reader /\ AfterLine = pos + 1 /\ AfterLine \in 0 .. Len(stream)
           /\ Read(AfterLine) = ReadLine(Read(pos), Line)
<1>1. stream \in Seq(Kinds) /\ Len(stream) \in Nat /\ pos \in Nat /\ pos + 1 \in 1 .. Len(stream)
  BY DEF TypeOK
<1>2. Read(pos) \in Reader
  BY <1>1, ReadTyped
<1>3. reads[(pos + 1) + 1] = ReadLine(reads[pos + 1], stream[pos + 1])
  BY <1>1 DEF ReadsSound
<1>4. QED
  BY <1>1, <1>2, <1>3 DEF Read, Line, LinesFit, AfterLine

\* Bytes that have arrived were sent.
LEMMA GotSent ==
    ASSUME TypeOK
    PROVE  /\ got \div 2 \in Nat /\ Len(stream) \in Nat /\ got \div 2 <= Len(stream)
           /\ pos \in Nat /\ pos <= got \div 2
           /\ HalfLine => pos < Len(stream)
<1>1. got \in Nat /\ Len(stream) \in Nat /\ got <= 2 * Len(stream) /\ pos \in 0 .. got \div 2
  BY DEF TypeOK
<1>2. got \div 2 \in Nat /\ got \div 2 <= Len(stream)
  BY <1>1
<1>3. got % 2 = 1 => got \div 2 < Len(stream)
  BY <1>1
<1>4. QED
  BY <1>1, <1>2, <1>3 DEF HalfLine

\* m_recvBuf is cleared at an illegal line: what the reference has read then, it keeps.
LEMMA ErrorAgrees ==
    ASSUME TypeOK, ReadsSound, Error, NEW n \in pos .. Len(stream),
           n <= got \div 2, Read(n).phase = "illegal", Read(n).requests = processed
    PROVE  DecoderAgrees(Read(pos))'
<1>1. /\ got \div 2 \in 0 .. Len(stream) /\ n \in 0 .. Len(stream)
      /\ Len(reads) = Len(stream) + 1
  BY GotSent DEF ReadsSound
<1>2. reads[got \div 2 + 1] = reads[n + 1]
  BY <1>1 DEF ReadsSound, Read
<1>3. /\ m_status' = "ERROR" /\ pos' = got \div 2
      /\ UNCHANGED <<reads, got, processed>>
  BY DEF Error, sentVars, inputVars, appVars
<1>4. QED
  BY <1>2, <1>3 DEF DecoderAgrees, Read

\* What a step of the transport or of the application leaves as it is.
LEMMA SameDecoder ==
    ASSUME DecoderSound,
           UNCHANGED <<https, stream, reads, got, stretched, pos, m_status, m_request, processed>>,
           pc' = "process" <=> pc = "process"
    PROVE  DecoderSound'
BY DEF DecoderSound, DecoderAgrees, IsAhead, Read, LinesFit

\* A line of the request line or the head.
LEMMA HeadAgrees ==
    ASSUME TypeOK, ReadsSound, HandlerSound, DecoderSound, LinesFit, ~stretched, ~stretched',
           ParseRequestLine \/ ParseHeadField \/ ParseHeadEnds
    PROVE  DecoderAgrees(Read(pos))'
<1> DEFINE r == Read(pos)
<1>1. pos < Len(stream)
  BY GotSent DEF ParseRequestLine, ParseHeadField, ParseHeadEnds, LineArrived
<1>2. /\ Line \in Kinds /\ Line # "long" /\ r \in Reader
      /\ Read(AfterLine) = ReadLine(r, Line)
      /\ DecoderAgrees(r)
  BY <1>1, ReadNext DEF DecoderSound
<1>3. /\ pos' = AfterLine /\ UNCHANGED <<reads, processed, pc>>
  BY DEF ParseRequestLine, ParseHeadField, ParseHeadEnds, sentVars, inputVars, appVars
<1>4. Read(pos)' = ReadLine(r, Line)
  BY <1>2, <1>3 DEF Read
<1> HIDE DEF r
<1>5. CASE ParseRequestLine
  <2>1. /\ Line = "req" /\ m_status = "REQ_LINE" /\ m_status' = "HEAD_FIELDS"
        /\ m_request' = m_request
    BY <1>2, <1>5 DEF ParseRequestLine, LegalRequestLine
  <2>2. /\ r = [phase |-> "line", request |-> NewRequest, requests |-> processed]
        /\ m_request = NewRequest
    BY <1>2, <2>1 DEF DecoderAgrees
  <2>3. ReadLine(r, Line) = [phase |-> "head", request |-> NewRequest, requests |-> processed]
    BY <2>1, <2>2 DEF ReadLine
  <2>4. QED
    BY <1>3, <1>4, <2>1, <2>2, <2>3 DEF DecoderAgrees
<1>6. CASE ParseHeadField
  <2>1. /\ Line \in {"ka", "len1", "lenbad", "ver"} /\ m_status = "HEAD_FIELDS"
        /\ m_status' = "HEAD_FIELDS" /\ m_request' = WithField(Line)
    BY <1>2, <1>6 DEF ParseHeadField, Fields
  <2>2. r = [phase |-> "head", request |-> m_request, requests |-> processed]
    BY <1>2, <2>1 DEF DecoderAgrees
  <2>3. ReadLine(r, Line) = [phase |-> "head", request |-> WithField(Line), requests |-> processed]
    BY <2>1, <2>2 DEF ReadLine, ReadHead, WithField
  <2>4. QED
    BY <1>3, <1>4, <2>1, <2>3 DEF DecoderAgrees
<1>7. CASE ParseHeadEnds
  <2>1. /\ Line = "empty" /\ m_status = "HEAD_FIELDS" /\ m_status' = "BODY"
        /\ m_request' = m_request
    BY <1>7 DEF ParseHeadEnds
  <2>2. r = [phase |-> "head", request |-> m_request, requests |-> processed]
    BY <1>2, <2>1 DEF DecoderAgrees
  <2>3. ReadLine(r, Line) = ReadHead(r, "empty")
    BY <2>1, <2>2 DEF ReadLine
  <2>4. CASE m_request.length = 0
    BY <1>3, <1>4, <2>1, <2>2, <2>3, <2>4 DEF DecoderAgrees, ReadHead, Deliver
  <2>5. CASE m_request.length = 1
    BY <1>3, <1>4, <2>1, <2>2, <2>3, <2>5 DEF DecoderAgrees, ReadHead
  <2>6. CASE m_request.length = -1
    BY <1>3, <1>4, <2>1, <2>2, <2>3, <2>6 DEF DecoderAgrees, ReadHead, Illegal
  <2>7. QED
    BY <2>4, <2>5, <2>6, RequestFields DEF TypeOK
<1>8. QED
  BY <1>5, <1>6, <1>7

\* A part of one element.
LEMMA OneLine ==
    ASSUME NEW s \in Seq(Kinds), NEW n \in 0 .. Len(s) - 1
    PROVE  SubSeq(s, n + 1, n + 1) = <<s[n + 1]>>
<1> DEFINE t == SubSeq(s, n + 1, n + 1)
<1>1. n + 1 \in 1 .. Len(s) /\ Len(s) \in Nat
  OBVIOUS
<1>2. t \in Seq(Kinds) /\ Len(t) = 1 /\ t[1] = s[n + 1]
  BY <1>1
<1> HIDE DEF t
<1>3. t = <<t[1]>>
  BY <1>2
<1>4. QED
  BY <1>2, <1>3 DEF t

\* The body: none, or the next line whatever it is.
LEMMA BodyAgrees ==
    ASSUME TypeOK, ReadsSound, DecoderSound, LinesFit, ~stretched, ParseBody
    PROVE  DecoderAgrees(Read(pos))'
<1>1. /\ m_status = "BODY" /\ m_request.length >= 0 /\ BodyArrived
      /\ m_request' = [m_request EXCEPT !.body = SubSeq(stream, pos + 1, pos + m_request.length)]
      /\ pos' = pos + m_request.length
      /\ m_status' = "DONE" /\ pc' = "process"
      /\ UNCHANGED <<reads, processed>>
  BY DEF ParseBody, Returns, LoopGoesOn, sentVars, inputVars, appVars
<1>2. m_request \in Request /\ m_request.length \in {0, 1} /\ DecoderAgrees(Read(pos))
  <2>1. m_request \in Request
    BY DEF TypeOK
  <2>2. m_request.length \in {-1, 0, 1}
    BY <2>1, RequestFields
  <2>3. QED
    BY <1>1, <2>1, <2>2 DEF DecoderSound
<1>3. stream \in Seq(Kinds) /\ got \div 2 \in Nat /\ pos \in Nat /\ got \div 2 <= Len(stream)
      /\ Len(stream) \in Nat
  BY GotSent DEF TypeOK
<1>4. CASE m_request.length = 0
  <2>1. SubSeq(stream, pos + 1, pos + m_request.length) = <<>> /\ pos' = pos
    BY <1>1, <1>3, <1>4
  <2>2. Read(pos) = [phase |-> "line", request |-> NewRequest,
                     requests |-> Append(processed, [m_request EXCEPT !.body = <<>>])]
    BY <1>1, <1>2, <1>4 DEF DecoderAgrees
  <2>3. QED
    BY <1>1, <2>1, <2>2 DEF DecoderAgrees, Read
<1>5. CASE m_request.length = 1
  <2>1. pos < Len(stream)
    BY <1>1, <1>3, <1>5 DEF BodyArrived
  <2>2. Read(AfterLine) = ReadLine(Read(pos), Line) /\ AfterLine = pos + 1
    BY <2>1, ReadNext
  <2>3. SubSeq(stream, pos + 1, pos + m_request.length) = <<Line>> /\ pos' = AfterLine
    <3>1. SubSeq(stream, pos + 1, pos + 1) = <<stream[pos + 1]>>
      BY <1>3, <2>1, OneLine
    <3>2. QED
      BY <1>1, <1>5, <2>2, <3>1 DEF Line
  <2>4. Read(pos) = [phase |-> "body", request |-> m_request, requests |-> processed]
    BY <1>1, <1>2, <1>5 DEF DecoderAgrees
  <2>5. ReadLine(Read(pos), Line) = [phase |-> "line", request |-> NewRequest,
            requests |-> Append(processed, [m_request EXCEPT !.body = <<Line>>])]
    BY <2>4 DEF ReadLine, Deliver
  <2>6. QED
    BY <1>1, <2>2, <2>3, <2>5 DEF DecoderAgrees, Read
<1>6. QED
  BY <1>2, <1>4, <1>5

\* Whatever is illegal for the decoder is illegal for the reference.
LEMMA ErrorSound ==
    ASSUME TypeOK, ReadsSound, DecoderSound, LinesFit, ~stretched,
           ParseRequestLineFails \/ ParseHeadFails \/ ParseLineTooLong \/ ParseBodyFails
    PROVE  DecoderAgrees(Read(pos))'
<1> DEFINE r == Read(pos)
<1>1. Error /\ DecoderAgrees(r)
  BY DEF ParseRequestLineFails, ParseHeadFails, ParseLineTooLong, ParseBodyFails, DecoderSound
<1>2. got \div 2 \in Nat /\ pos \in Nat /\ got \div 2 <= Len(stream) /\ Len(stream) \in Nat
      /\ pos <= got \div 2
  BY GotSent
<1>3. CASE ParseRequestLineFails \/ ParseHeadFails
  <2>1. pos < got \div 2
    BY <1>3 DEF ParseRequestLineFails, ParseHeadFails, LineArrived
  <2>2. /\ r \in Reader /\ Line \in Kinds /\ Read(AfterLine) = ReadLine(r, Line)
        /\ AfterLine = pos + 1
    BY <1>2, <2>1, ReadNext
  <2>3. ReadLine(r, Line).phase = "illegal" /\ ReadLine(r, Line).requests = processed
    <3>1. CASE ParseRequestLineFails
      <4>1. /\ r = [phase |-> "line", request |-> NewRequest, requests |-> processed]
            /\ Line \notin {"req", "long"}
        BY <1>1, <3>1 DEF ParseRequestLineFails, LegalRequestLine, DecoderAgrees
      <4>2. QED
        BY <4>1 DEF ReadLine, Illegal
    <3>2. CASE ParseHeadFails
      <4>1. /\ r = [phase |-> "head", request |-> m_request, requests |-> processed]
            /\ Line \in {"req", "half", "bad"}
        BY <1>1, <3>2 DEF ParseHeadFails, DecoderAgrees
      <4>2. QED
        BY <4>1 DEF ReadLine, ReadHead, Illegal
    <3>3. QED
      BY <1>3, <3>1, <3>2
  <2>4. AfterLine \in pos .. Len(stream) /\ AfterLine <= got \div 2
    BY <1>2, <2>1, <2>2
  <2>5. QED
    BY <1>1, <2>2, <2>3, <2>4, ErrorAgrees
<1>4. CASE ParseLineTooLong
  <2>1. pos < Len(stream) /\ Line = "long"
    BY <1>4, GotSent DEF ParseLineTooLong
  <2>2. QED
    BY <2>1, ReadNext
<1>5. CASE ParseBodyFails
  <2>1. m_request.length = -1 /\ m_status = "BODY"
    <3>1. m_request \in Request
      BY DEF TypeOK
    <3>2. m_request.length \in {-1, 0, 1}
      BY <3>1, RequestFields
    <3>3. QED
      BY <1>5, <3>2 DEF ParseBodyFails
  <2>2. r.phase = "illegal" /\ r.requests = processed
    BY <1>1, <2>1 DEF DecoderAgrees
  <2>3. pos \in pos .. Len(stream)
    BY <1>2
  <2>4. QED
    BY <1>1, <1>2, <2>2, <2>3, ErrorAgrees
<1>6. QED
  BY <1>3, <1>4, <1>5

\* A prefix stays one when more is appended.
LEMMA PrefixGrows ==
    ASSUME NEW s \in Seq(Request), NEW t \in Seq(Request), NEW req \in Request, IsPrefix(s, t)
    PROVE  IsPrefix(s, Append(t, req))
<1>1. /\ Len(s) \in Nat /\ Len(t) \in Nat /\ Len(s) <= Len(t)
      /\ SubSeq(s, 1, Len(s)) = SubSeq(t, 1, Len(s))
  BY DEF IsPrefix
<1>2. Len(Append(t, req)) = Len(t) + 1 /\ Append(t, req) \in Seq(Request)
      /\ \A i \in 1 .. Len(t) : Append(t, req)[i] = t[i]
  BY Appended
<1>3. SubSeq(Append(t, req), 1, Len(s)) = SubSeq(t, 1, Len(s))
  BY <1>1, <1>2
<1>4. QED
  BY <1>1, <1>2, <1>3 DEF IsPrefix

\* A request line with one space is taken for legal: here the decoder and the reference part.
LEMMA Parts ==
    ASSUME TypeOK, ReadsSound, DecoderSound, LinesFit, ~stretched, ParseRequestLine, stretched'
    PROVE  IsAhead(Read(pos))'
<1> DEFINE r == Read(pos)
<1>1. /\ Line = "half" /\ m_status = "REQ_LINE" /\ pos' = AfterLine
      /\ UNCHANGED <<reads, processed>>
  BY DEF ParseRequestLine, sentVars, appVars
<1>2. pos < Len(stream)
  BY GotSent DEF ParseRequestLine, LineArrived
<1>3. r \in Reader /\ Read(AfterLine) = ReadLine(r, Line) /\ DecoderAgrees(r)
  BY <1>2, ReadNext DEF DecoderSound
<1>4. Read(pos)' = ReadLine(r, Line)
  BY <1>1, <1>3 DEF Read
<1>5. r = [phase |-> "line", request |-> NewRequest, requests |-> processed]
  BY <1>1, <1>3 DEF DecoderAgrees
<1> HIDE DEF r
<1>6. Read(pos)'.phase = "illegal" /\ Read(pos)'.requests = processed
  BY <1>1, <1>4, <1>5 DEF ReadLine, Illegal
<1>7. IsPrefix(processed, processed)
  <2>1. Len(processed) \in Nat
    BY DEF TypeOK
  <2>2. QED
    BY <2>1 DEF IsPrefix
<1>8. QED
  BY <1>1, <1>6, <1>7 DEF IsAhead

\* No step takes anything back: of the bytes, of what was made of them, of the requests.
LEMMA Onward ==
    ASSUME TypeOK, ReadsSound, Next
    PROVE  /\ pos' >= pos
           /\ stretched => stretched'
           /\ processed' \in {processed, Append(processed, m_request)}
           /\ \A n \in 0 .. Len(stream) : reads'[n + 1] = reads[n + 1]
           /\ LinesFit' => LinesFit
           /\ Len(stream') >= Len(stream)
<1>0. /\ got \div 2 \in Nat /\ pos \in Nat /\ pos <= got \div 2 /\ Len(stream) \in Nat
      /\ stream \in Seq(Kinds)
  BY GotSent DEF TypeOK
<1>1. CASE \E line \in Kinds : PeerSends(line)
  <2>1. PICK line \in Kinds : PeerSends(line)
    BY <1>1
  <2>2. /\ stream' = Append(stream, line)
        /\ UNCHANGED <<pos, stretched, processed>>
    BY <2>1 DEF PeerSends, appVars
  <2>3. /\ Len(stream') = Len(stream) + 1
        /\ \A i \in 1 .. Len(stream) : stream'[i] = stream[i]
    BY <1>0, <2>2
  <2>4. QED
    BY <1>0, <2>1, <2>2, <2>3, SentRead DEF LinesFit
<1>2. CASE ~ \E line \in Kinds : PeerSends(line)
  <2>1. UNCHANGED <<stream, reads>>
    BY <1>2, ParseStepKeeps
    DEF Next, HandlerStep, OnRecvData, ReadEnds, PeerCloses, OnWrite, AppCloses, Responds,
        CallProcessHttpRequest, ProcessHttpRequestReturns, ParseKeeps, respondKeeps, sentVars,
        inputVars, SendResponse, SendResponseStart, SendChunk, SendResponseEnd
  <2>2. /\ stretched => stretched'
        /\ processed' \in {processed, Append(processed, m_request)}
    <3>1. CASE ParseStep \/ ParseAfterError
      BY <3>1, ParseStepKeeps DEF ParseKeeps, appVars
    <3>2. CASE (\E missing \in 0 .. 1 : OnRecvData(missing)) \/ ReadEnds \/ PeerCloses
      BY <3>2 DEF OnRecvData, ReadEnds, PeerCloses, appVars
    <3>3. CASE OnWrite \/ AppCloses \/ CallProcessHttpRequest \/ ProcessHttpRequestReturns
      BY <3>3 DEF OnWrite, AppCloses, CallProcessHttpRequest, ProcessHttpRequestReturns, inputVars,
                  appVars
    <3>4. CASE Responds
      <4>1. UNCHANGED respondKeeps
        BY <3>4 DEF Responds, SendResponse, SendResponseStart, SendChunk, SendResponseEnd
      <4>2. QED
        BY <4>1 DEF respondKeeps, inputVars
    <3>5. QED
      BY <1>2, <3>1, <3>2, <3>3, <3>4 DEF Next, HandlerStep
  <2>3. pos' >= pos
    <3>1. CASE ParseStep \/ ParseAfterError
      <4>1. CASE Error
        BY <1>0, <4>1 DEF Error
      <4>2. CASE ParseBody
        <5>1. m_request \in Request
          BY DEF TypeOK
        <5>2. m_request.length \in {-1, 0, 1} /\ m_request.length >= 0
          BY <4>2, <5>1, RequestFields DEF ParseBody
        <5>3. QED
          BY <1>0, <4>2, <5>2 DEF ParseBody
      <4>3. CASE \/ ParseResets \/ ParseRequestLine \/ ParseHeadField \/ ParseHeadEnds
                 \/ ParseLineNeedsMore \/ ParseBodyNeedsMore \/ ParseAfterError
        BY <1>0, <4>3
        DEF ParseResets, ParseRequestLine, ParseHeadField, ParseHeadEnds, ParseLineNeedsMore,
            ParseBodyNeedsMore, ParseAfterError, AfterLine
      <4>4. QED
        BY <3>1, <4>1, <4>2, <4>3
        DEF ParseStep, ParseRequestLineFails, ParseHeadFails, ParseLineTooLong, ParseBodyFails
    <3>2. CASE ~(ParseStep \/ ParseAfterError)
      <4>1. pos' = pos
        BY <1>2, <3>2
        DEF Next, HandlerStep, OnRecvData, ReadEnds, PeerCloses, OnWrite, AppCloses, Responds,
            CallProcessHttpRequest, ProcessHttpRequestReturns, respondKeeps, SendResponse,
            SendResponseStart, SendChunk, SendResponseEnd
      <4>2. QED
        BY <1>0, <4>1
    <3>3. QED
      BY <3>1, <3>2
  <2>4. QED
    BY <1>0, <2>1, <2>2, <2>3 DEF LinesFit
<1>3. QED
  BY <1>1, <1>2

\* The reference stays in error, and what it had delivered stays ahead of what comes.
LEMMA StaysAhead ==
    ASSUME TypeOK, TypeOK', ReadsSound, ReadsSound', Next,
           stretched, DecoderSound, LinesFit'
    PROVE  stretched' /\ IsAhead(Read(pos))'
<1>1. /\ pos' >= pos /\ stretched' /\ LinesFit
      /\ processed' \in {processed, Append(processed, m_request)}
      /\ \A n \in 0 .. Len(stream) : reads'[n + 1] = reads[n + 1]
      /\ Len(stream') >= Len(stream)
  BY Onward
<1>2. pos \in 0 .. Len(stream) /\ Len(stream) \in Nat /\ Read(pos) \in Reader
  <2>1. pos \in 0 .. Len(stream) /\ Len(stream) \in Nat
    BY GotSent
  <2>2. QED
    BY <2>1, ReadTyped
<1>3. pos' \in 0 .. Len(stream') /\ Len(stream') \in Nat
  <2>1. /\ got' \in 0 .. 2 * Len(stream') /\ pos' \in 0 .. got' \div 2
        /\ stream' \in Seq(Kinds)
    BY DEF TypeOK
  <2>2. Len(stream') \in Nat
    BY <2>1
  <2>3. QED
    BY <2>1, <2>2, WithinHalf
<1>4. IsAhead(Read(pos))
  BY <1>1 DEF DecoderSound
<1>5. reads'[pos + 1] = Read(pos)
  BY <1>1, <1>2 DEF Read
<1>6. reads'[pos' + 1] = reads'[pos + 1]
  <2>1. Len(reads') = Len(stream') + 1
    BY DEF ReadsSound
  <2>2. pos + 1 \in 1 .. Len(reads') /\ pos' + 1 \in 1 .. Len(reads') /\ pos + 1 <= pos' + 1
    <3>1. pos \in Nat /\ pos' \in Nat /\ pos <= pos' /\ pos' <= Len(stream')
      BY <1>1, <1>2, <1>3
    <3>2. \A a, b, n \in Nat : a <= b /\ b <= n =>
              a + 1 \in 1 .. n + 1 /\ b + 1 \in 1 .. n + 1 /\ a + 1 <= b + 1
      OBVIOUS
    <3>3. QED
      BY <1>3, <2>1, <3>1, <3>2
  <2>3. reads'[pos + 1].phase = "illegal"
    BY <1>4, <1>5 DEF IsAhead
  <2>4. QED
    BY <2>2, <2>3 DEF ReadsSound
<1>7. Read(pos)' = Read(pos)
  BY <1>5, <1>6 DEF Read
<1>8. IsPrefix(Read(pos).requests, processed')
  <2>1. Read(pos).requests \in Seq(Request) /\ processed \in Seq(Request) /\ m_request \in Request
    BY <1>2 DEF Reader, TypeOK
  <2>2. QED
    BY <1>1, <1>4, <2>1, PrefixGrows DEF IsAhead
<1>9. QED
  BY <1>1, <1>4, <1>7, <1>8 DEF IsAhead

\* What the handlers leave behind.
LEMMA HandlerKept ==
    ASSUME TypeOK, HandlerSound, Next
    PROVE  HandlerSound'
<1>0. /\ got \div 2 \in Nat /\ pos \in Nat /\ pos <= got \div 2
      /\ m_request \in Request /\ m_request.length \in {-1, 0, 1}
      /\ m_status \in Statuses /\ https \in BOOLEAN /\ pc \in Places
  <2>1. m_request \in Request
    BY DEF TypeOK
  <2>2. m_request.length \in {-1, 0, 1}
    BY <2>1, RequestFields
  <2>3. QED
    BY <2>1, <2>2, GotSent DEF TypeOK, Statuses, Places
<1>1. CASE \E line \in Kinds : PeerSends(line)
  BY <1>1 DEF HandlerSound, PeerSends, connVars, IsOpen
<1>2. CASE \E missing \in 0 .. 1 : OnRecvData(missing)
  BY <1>2 DEF HandlerSound, OnRecvData, connVars, IsOpen
<1>3. CASE ReadEnds \/ PeerCloses \/ OnWrite \/ AppCloses \/ ProcessHttpRequestReturns
  BY <1>3 DEF HandlerSound, ReadEnds, PeerCloses, OnWrite, AppCloses, ProcessHttpRequestReturns,
              sentVars, inputVars, connVars, IsOpen
<1>4. CASE Responds
  <2>1. PICK o \in Outcomes :
        SendResponse(o) \/ SendResponseStart(o) \/ SendChunk(o) \/ SendResponseEnd(o)
    BY <1>4 DEF Responds
  <2>2. PICK marks \in BOOLEAN : Answers(o, marks)
    <3>1. m_keepAlive \in BOOLEAN
      BY DEF TypeOK
    <3>2. QED
      BY <2>1, <3>1, RespondsAnswers
  <2>3. /\ UNCHANGED <<inputVars, pos, m_status, m_request, pc>>
        /\ ~IsOpen => ended' = ended
        /\ ended' \in {ended, "error", "sentClose", "no"} /\ (ended' = "no" => ended = "no")
    BY <2>2 DEF Answers, respondKeeps, Sends, IsOpen
  <2>4. QED
    BY <2>3 DEF HandlerSound, sentVars, inputVars, IsOpen
<1>5. CASE Error
  BY <1>0, <1>5 DEF HandlerSound, Error, Returns, LoopGoesOn, sentVars, inputVars, IsOpen
<1>6. CASE ParseResets \/ ParseRequestLine \/ ParseHeadField \/ ParseHeadEnds
  BY <1>6 DEF HandlerSound, ParseResets, ParseRequestLine, ParseHeadField, ParseHeadEnds,
              sentVars, inputVars, connVars, IsOpen
<1>7. CASE ParseLineNeedsMore
  BY <1>0, <1>7 DEF HandlerSound, ParseLineNeedsMore, LineArrived, Returns, LoopGoesOn, sentVars,
                    inputVars, IsOpen
<1>8. CASE ParseBodyNeedsMore
  <2>1. m_request.length = 1 /\ pos = got \div 2
    BY <1>0, <1>8 DEF ParseBodyNeedsMore, BodyArrived
  <2>2. QED
    BY <2>1, <1>8 DEF HandlerSound, ParseBodyNeedsMore, Returns, LoopGoesOn, sentVars, inputVars,
        IsOpen
<1>9. CASE ParseBody \/ ParseAfterError
  BY <1>9 DEF HandlerSound, ParseBody, ParseAfterError, Returns, LoopGoesOn, sentVars, inputVars,
      IsOpen
<1>10. CASE CallProcessHttpRequest
  BY <1>10 DEF HandlerSound, CallProcessHttpRequest, sentVars, inputVars, connVars, IsOpen
<1>11. QED
  BY <1>1, <1>2, <1>3, <1>4, <1>5, <1>6, <1>7, <1>8, <1>9, <1>10
  DEF Next, HandlerStep, ParseStep, ParseRequestLineFails, ParseHeadFails, ParseLineTooLong,
      ParseBodyFails

\* Every step of the decoder, and of the others, keeps it where the reference is.
LEMMA DecoderKept ==
    ASSUME TypeOK, TypeOK', ReadsSound, ReadsSound', HandlerSound, DecoderSound, Next
    PROVE  DecoderSound'
<1>s. CASE stretched
  BY <1>s, StaysAhead DEF DecoderSound
<1> SUFFICES ASSUME ~stretched
             PROVE  DecoderSound'
  BY <1>s
<1>1. CASE \E line \in Kinds : PeerSends(line)
  <2>1. PICK line \in Kinds : PeerSends(line)
    BY <1>1
  <2>2. /\ stream \in Seq(Kinds) /\ Len(stream) \in Nat /\ stream' = Append(stream, line)
        /\ UNCHANGED <<https, got, stretched, pos, m_status, m_request, processed, pc>>
    BY <2>1 DEF TypeOK, PeerSends, appVars
  <2>3. pos \in 0 .. Len(stream)
    BY GotSent
  <2>4. reads'[pos + 1] = reads[pos + 1]
    BY <2>1, <2>3, SentRead
  <2>5. LinesFit' => LinesFit
    <3>1. /\ Len(stream') = Len(stream) + 1
          /\ \A i \in 1 .. Len(stream) : stream'[i] = stream[i]
      BY <2>2
    <3>2. QED
      BY <2>2, <3>1 DEF LinesFit
  <2>6. QED
    BY <2>2, <2>4, <2>5 DEF DecoderSound, DecoderAgrees, Read
<1>2. CASE \E missing \in 0 .. 1 : OnRecvData(missing)
  <2>1. /\ m_status = "ERROR" => https
        /\ UNCHANGED <<https, stream, reads, stretched, pos, m_status, m_request, processed>>
        /\ pc = "idle" /\ pc' = "parse"
    BY <1>2 DEF HandlerSound, OnRecvData, appVars
  <2>2. QED
    BY <2>1 DEF DecoderSound, DecoderAgrees, Read, LinesFit
<1>3. CASE \/ ReadEnds \/ PeerCloses \/ OnWrite \/ AppCloses \/ ProcessHttpRequestReturns
           \/ ParseLineNeedsMore \/ ParseBodyNeedsMore
  <2>1. /\ UNCHANGED <<https, stream, reads, got, stretched, pos, m_status, m_request, processed>>
        /\ pc' = "process" <=> pc = "process"
    BY <1>3 DEF ReadEnds, PeerCloses, OnWrite, AppCloses, ProcessHttpRequestReturns,
                ParseLineNeedsMore, ParseBodyNeedsMore, Returns, LoopGoesOn, sentVars, inputVars,
                appVars
  <2>2. QED
    BY <2>1, SameDecoder
<1>4. CASE Responds
  <2>1. /\ UNCHANGED <<https, stream, reads, got, stretched, pos, m_status, m_request, processed>>
        /\ pc' = "process" <=> pc = "process"
    BY <1>4 DEF Responds, SendResponse, SendResponseStart, SendChunk, SendResponseEnd,
                respondKeeps, sentVars, inputVars
  <2>2. QED
    BY <2>1, SameDecoder
<1>5. CASE ParseStep \/ ParseAfterError
  <2> SUFFICES ASSUME LinesFit'
               PROVE  IF stretched' THEN IsAhead(Read(pos))' ELSE DecoderAgrees(Read(pos))'
    BY DEF DecoderSound
  <2>1. LinesFit /\ DecoderAgrees(Read(pos))
    BY <1>5, ParseStepKeeps DEF ParseKeeps, sentVars, inputVars, LinesFit, DecoderSound
  <2>2. CASE ParseResets
    BY <2>1, <2>2
    DEF ParseResets, Reset, DecoderAgrees, Read, sentVars, inputVars, appVars
  <2>3. CASE ParseRequestLine \/ ParseHeadField \/ ParseHeadEnds
    <3>1. CASE stretched'
      <4>1. ParseRequestLine
        BY <2>3, <3>1 DEF ParseHeadField, ParseHeadEnds, inputVars
      <4>2. QED
        BY <2>1, <3>1, <4>1, Parts
    <3>2. CASE ~stretched'
      BY <2>1, <2>3, <3>2, HeadAgrees
    <3>3. QED
      BY <3>1, <3>2
  <2>4. CASE ParseBody
    BY <2>1, <2>4, BodyAgrees DEF ParseBody, Returns, inputVars
  <2>5. CASE ParseRequestLineFails \/ ParseHeadFails \/ ParseLineTooLong \/ ParseBodyFails
    BY <2>1, <2>5, ErrorSound
    DEF ParseRequestLineFails, ParseHeadFails, ParseLineTooLong, ParseBodyFails, Error, inputVars
  <2>6. CASE ParseLineNeedsMore \/ ParseBodyNeedsMore
    BY <1>3, <2>1, <2>6 DEF DecoderSound, ParseLineNeedsMore, ParseBodyNeedsMore
  <2>7. CASE ParseAfterError
    <3>1. /\ m_status' = "ERROR" /\ https /\ https' = https
          /\ stretched' = stretched
      BY <2>7 DEF ParseAfterError, HandlerSound, sentVars, inputVars
    <3>2. QED
      BY <3>1 DEF DecoderAgrees
  <2>8. QED
    BY <1>5, <2>2, <2>3, <2>4, <2>5, <2>6, <2>7 DEF ParseStep
<1>6. CASE CallProcessHttpRequest
  <2>1. /\ UNCHANGED <<https, stream, reads, got, stretched, pos, m_status, m_request>>
        /\ processed' = Append(processed, m_request) /\ pc = "process" /\ pc' = "app"
        /\ m_status \in {"DONE", "ERROR"} /\ (m_status = "ERROR" => https)
    BY <1>6 DEF CallProcessHttpRequest, sentVars, inputVars, HandlerSound
  <2>2. QED
    BY <2>1 DEF DecoderSound, DecoderAgrees, Read, LinesFit
<1>7. QED
  BY <1>1, <1>2, <1>3, <1>4, <1>5, <1>6 DEF Next, HandlerStep

\* The lines sent and read are those of the reference, whatever else happens.
LEMMA ReadsKept ==
    ASSUME TypeOK, ReadsSound, Next
    PROVE  ReadsSound'
<1>1. CASE \E line \in Kinds : PeerSends(line)
  BY <1>1, SentRead
<1>2. CASE ~ \E line \in Kinds : PeerSends(line)
  <2>1. UNCHANGED <<stream, reads>>
    BY <1>2 DEF Next, HandlerStep, ParseStep, OnRecvData, ReadEnds, PeerCloses, OnWrite, AppCloses,
        ProcessHttpRequestReturns, CallProcessHttpRequest, ParseAfterError, ParseResets,
        ParseRequestLine, ParseRequestLineFails, ParseHeadField, ParseHeadEnds, ParseHeadFails,
        ParseLineNeedsMore, ParseLineTooLong, ParseBody, ParseBodyNeedsMore, ParseBodyFails, Error,
        Responds, SendResponse, SendResponseStart, SendChunk, SendResponseEnd, respondKeeps,
        sentVars, inputVars
  <2>2. QED
    BY <2>1 DEF ReadsSound
<1>3. QED
  BY <1>1, <1>2

-----------------------------------------------------------------------------
(* When a response closes the session.                                     *)

\* Nothing is processed, answered, marked or closed by a response.
LEMMA SameSound ==
    ASSUME RequestsSound, ResponsesSound,
           UNCHANGED <<m_keepAlive, m_sentClose, pending, https, appVars>>,
           ended' \in {ended, "peer", "app", "illegal"}
    PROVE  RequestsSound' /\ ResponsesSound'
BY DEF RequestsSound, ResponsesSound, Asking, IsOpen, appVars

\* OnWrite has sent the last response of a marked session.
LEMMA WriteSound ==
    ASSUME RequestsSound, ResponsesSound, OnWrite
    PROVE  RequestsSound' /\ ResponsesSound'
BY DEF RequestsSound, ResponsesSound, Asking, IsOpen, OnWrite, sentVars, inputVars, appVars

\* One more request: the first to ask sets m_keepAlive, and it stays set.
LEMMA CallSound ==
    ASSUME TypeOK, RequestsSound, ResponsesSound, CallProcessHttpRequest
    PROVE  RequestsSound' /\ ResponsesSound'
<1>0. /\ m_request \in Request /\ processed \in Seq(Request) /\ m_keepAlive \in BOOLEAN
      /\ m_request.keepAlive \in BOOLEAN /\ owed \in 0 .. Len(processed)
  BY RequestFields DEF TypeOK
<1>1. /\ processed' = Append(processed, m_request) /\ owed' = owed + 1
      /\ m_keepAlive' = (m_keepAlive \/ m_request.keepAlive)
      /\ UNCHANGED <<https, m_sentClose, pending, ended, chunked, saidClose>>
  BY DEF CallProcessHttpRequest, sentVars, inputVars, connVars
<1>2. /\ Len(processed') = Len(processed) + 1 /\ Len(processed) \in Nat
      /\ processed = <<>> <=> Len(processed) = 0
      /\ \A i \in 1 .. Len(processed) : processed'[i] = processed[i]
      /\ processed'[Len(processed) + 1] = m_request
  BY <1>0, <1>1, Appended
<1>3. \A i \in 1 .. Len(processed) : i \in Asking' <=> i \in Asking
  BY <1>2 DEF Asking
<1>4. Len(processed) + 1 \in Asking' <=> m_request.keepAlive
  BY <1>2 DEF Asking
<1>5. RequestsSound'
  <2>1. processed' # <<>>
    BY <1>0, <1>1
  <2>2. 1 \in Asking' => m_keepAlive' /\ ~m_sentClose'
    <3>1. CASE processed = <<>>
      <4>1. Len(processed) + 1 = 1 /\ ~m_sentClose
        BY <1>2, <3>1 DEF RequestsSound
      <4>2. 1 \in Asking' => m_request.keepAlive
        BY <1>4, <4>1
      <4>3. QED
        BY <1>0, <1>1, <4>1, <4>2
    <3>2. CASE processed # <<>>
      <4>1. 1 \in 1 .. Len(processed)
        BY <1>2, <3>2
      <4>2. 1 \in Asking' => 1 \in Asking
        BY <1>3, <4>1
      <4>3. QED
        BY <1>0, <1>1, <4>2 DEF RequestsSound
    <3>3. QED
      BY <3>1, <3>2
  <2>3. m_keepAlive' => Asking' # {}
    <3>1. CASE m_keepAlive
      <4>1. PICK i : i \in Asking
        BY <3>1 DEF RequestsSound
      <4>2. i \in Asking'
        BY <1>3, <4>1 DEF Asking
      <4>3. QED
        BY <4>2
    <3>2. CASE ~m_keepAlive
      BY <1>1, <1>4, <3>2
    <3>3. QED
      BY <3>1, <3>2
  <2>4. QED
    BY <2>1, <2>2, <2>3 DEF RequestsSound
<1>6. ResponsesSound'
  BY <1>0, <1>1, <1>2 DEF ResponsesSound, IsOpen
<1>7. QED
  BY <1>5, <1>6

\* Part of a response, or all of it.
LEMMA RespondsSound ==
    ASSUME TypeOK, RequestsSound, ResponsesSound, Responds
    PROVE  RequestsSound' /\ ResponsesSound'
<1>1. PICK o \in Outcomes :
        SendResponse(o) \/ SendResponseStart(o) \/ SendChunk(o) \/ SendResponseEnd(o)
  BY DEF Responds
<1>2. PICK marks \in BOOLEAN : Answers(o, marks) /\ (marks => ~m_keepAlive)
  <2>1. m_keepAlive \in BOOLEAN
    BY DEF TypeOK
  <2>2. QED
    BY <1>1, <2>1, RespondsAnswers
<1>3. /\ UNCHANGED <<https, m_keepAlive, processed>>
      /\ m_sentClose' = (m_sentClose \/ marks)
      /\ owed > 0 /\ owed \in 0 .. Len(processed) /\ Len(processed) \in Nat
      /\ m_keepAlive \in BOOLEAN /\ m_sentClose \in BOOLEAN /\ saidClose \in BOOLEAN
      /\ chunked \in {"no", "close", "keep-alive"}
  BY <1>2 DEF Answers, respondKeeps, sentVars, inputVars, Sends, MayRespond, TypeOK
<1>4. processed # <<>>
  BY <1>3
<1>5. RequestsSound'
  BY <1>2, <1>3, <1>4 DEF RequestsSound, Asking
<1>6. /\ ended' = "sentClose" => m_sentClose'
      /\ IsOpen' /\ m_sentClose' => pending' \/ https'
  <2>1. Sends(o, marks) /\ o.waits \in BOOLEAN /\ o.fails \in BOOLEAN
    BY <1>2 DEF Answers, Outcomes
  <2>2. CASE IsOpen
    BY <1>3, <2>1, <2>2 DEF Sends, ResponsesSound, IsOpen
  <2>3. CASE ~IsOpen
    BY <1>3, <2>1, <2>3 DEF Sends, ResponsesSound, IsOpen
  <2>4. QED
    BY <2>2, <2>3
<1>7. /\ chunked' = "keep-alive" => m_keepAlive'
      /\ chunked' # "no" => owed' > 0
      /\ m_sentClose' => saidClose'
      /\ owed' < Len(processed') => m_keepAlive' \/ m_sentClose'
  <2>1. CASE SendResponse(o)
    BY <1>3, <2>1 DEF SendResponse, Sends, ResponsesSound
  <2>2. CASE SendResponseStart(o)
    BY <1>3, <2>2 DEF SendResponseStart, Sends, ResponsesSound
  <2>3. CASE SendChunk(o)
    BY <1>3, <2>3 DEF SendChunk, Sends, ResponsesSound
  <2>4. CASE SendResponseEnd(o)
    BY <1>3, <2>4 DEF SendResponseEnd, Sends, ResponsesSound
  <2>5. QED
    BY <1>1, <2>1, <2>2, <2>3, <2>4
<1>8. QED
  BY <1>5, <1>6, <1>7 DEF ResponsesSound

-----------------------------------------------------------------------------
IInv ==
    /\ TypeOK /\ RequestsSound /\ ResponsesSound
    /\ ReadsSound /\ HandlerSound /\ DecoderSound

LEMMA InitIInv == Init => IInv
<1> SUFFICES ASSUME Init
             PROVE  IInv
  OBVIOUS
<1>1. /\ https \in BOOLEAN /\ m_keepAlive = FALSE /\ m_sentClose = FALSE /\ pending = FALSE
      /\ stream = <<>> /\ reads = <<NewReader>> /\ got = 0 /\ pos = 0 /\ stretched = FALSE
      /\ m_status = "REQ_LINE"
      /\ m_request = NewRequest /\ ended = "no" /\ reading = FALSE /\ pc = "idle"
      /\ processed = <<>> /\ owed = 0 /\ chunked = "no" /\ saidClose = FALSE
  BY DEF Init
<1>2. /\ stream \in Seq(Kinds) /\ Len(stream) = 0 /\ got \div 2 = 0
      /\ processed \in Seq(Request) /\ Len(processed) = 0
  BY <1>1
<1>3. got \in 0 .. 2 * Len(stream) /\ pos \in 0 .. got \div 2 /\ owed \in 0 .. Len(processed)
  BY <1>1, <1>2
<1>4. NewReader \in Reader
  <2>1. <<>> \in Seq(Request)
    OBVIOUS
  <2>2. QED
    BY <2>1, NewRequestOK DEF NewReader, Reader
<1>5. reads \in Seq(Reader) /\ Len(reads) = 1 /\ reads[1] = NewReader
  BY <1>1, <1>4
<1>6. TypeOK
  BY <1>1, <1>2, <1>3, <1>5, NewRequestOK DEF TypeOK
<1>7. RequestsSound /\ ResponsesSound
  BY <1>1, <1>2 DEF RequestsSound, ResponsesSound, Asking
<1>8. ReadsSound
  BY <1>2, <1>5 DEF ReadsSound
<1>9. HandlerSound
  BY <1>1, <1>2 DEF HandlerSound
<1>10. DecoderSound
  BY <1>1, <1>5 DEF DecoderSound, DecoderAgrees, Read, NewReader
<1>11. QED
  BY <1>6, <1>7, <1>8, <1>9, <1>10 DEF IInv

LEMMA NextIInv == IInv /\ [Next]_vars => IInv'
<1> SUFFICES ASSUME IInv, [Next]_vars
             PROVE  IInv'
  OBVIOUS
<1>0. TypeOK /\ RequestsSound /\ ResponsesSound /\ ReadsSound /\ HandlerSound /\ DecoderSound
  BY DEF IInv
<1>1. CASE Next
  <2>t. TypeOK'
    BY <1>0, <1>1, IdleTyped, ParseStepTyped, CallTyped, RespondsTyped DEF Next, HandlerStep
  <2>1. ReadsSound' /\ HandlerSound' /\ DecoderSound'
    BY <1>0, <1>1, <2>t, ReadsKept, HandlerKept, DecoderKept
  <2>2. CASE OnWrite
    BY <1>0, <2>1, <2>2, <2>t, WriteSound DEF IInv
  <2>3. CASE \/ \E line \in Kinds : PeerSends(line)
             \/ \E missing \in 0 .. 1 : OnRecvData(missing)
             \/ ReadEnds \/ PeerCloses \/ AppCloses \/ ProcessHttpRequestReturns
    <3>1. /\ UNCHANGED <<m_keepAlive, m_sentClose, pending, https, appVars>>
          /\ ended' \in {ended, "peer", "app", "illegal"}
      BY <2>3
      DEF PeerSends, OnRecvData, ReadEnds, PeerCloses, AppCloses, ProcessHttpRequestReturns,
          sentVars, inputVars, connVars
    <3>2. QED
      BY <1>0, <2>1, <2>3, <3>1, <2>t, SameSound DEF IInv
  <2>4. CASE ParseStep \/ ParseAfterError
    <3>1. /\ UNCHANGED <<m_keepAlive, m_sentClose, pending, https, appVars>>
          /\ ended' \in {ended, "peer", "app", "illegal"}
      BY <1>0, <2>4, ParseStepKeeps DEF ParseKeeps, sentVars, inputVars
    <3>2. QED
      BY <1>0, <2>1, <2>4, <3>1, <2>t, SameSound DEF IInv
  <2>5. CASE CallProcessHttpRequest
    BY <1>0, <2>1, <2>5, <2>t, CallSound DEF IInv
  <2>6. CASE Responds
    BY <1>0, <2>1, <2>6, <2>t, RespondsSound DEF IInv
  <2>7. QED
    BY <1>1, <2>2, <2>3, <2>4, <2>5, <2>6 DEF Next, HandlerStep
<1>2. CASE UNCHANGED vars
  BY <1>0, <1>2 DEF vars, IInv, TypeOK, RequestsSound, ResponsesSound, Asking, IsOpen, ReadsSound,
                    HandlerSound, DecoderSound, DecoderAgrees, IsAhead, Read, LinesFit
<1>3. QED
  BY <1>1, <1>2

\* The inductive invariant holds for any number of lines and any way of cutting them.
THEOREM Invariance == SafeSpec => []IInv
<1>1. Init => IInv
  BY InitIInv
<1>2. IInv /\ [Next]_vars => IInv'
  BY NextIInv
<1>3. QED
  BY <1>1, <1>2, PTL DEF SafeSpec

\* OnRecvData takes no byte that has not arrived, over TCP and over SSL, the application
\* owes no more responses than it was given requests, and every variable keeps its type.
THEOREM TypeCorrect == SafeSpec => []TypeOK
<1>1. IInv => TypeOK
  BY DEF IInv
<1>2. QED
  BY <1>1, Invariance, PTL

\* SendResponse and SendResponseEnd: a response closes the session only after a whole one
\* that said connection: close, never if the first request asked for keep-alive, and does
\* close it in the end if none did; whatever the requests, and however late the responses.
THEOREM ResponsesClose == SafeSpec => []ClosesAfterResponse
<1>1. IInv => ClosesAfterResponse
  <2> SUFFICES ASSUME TypeOK, RequestsSound, ResponsesSound
               PROVE  ClosesAfterResponse
    BY DEF IInv
  <2>1. processed \in Seq(Request) /\ (processed # <<>> => Len(processed) > 0)
    BY DEF TypeOK
  <2>2. ended = "sentClose" => saidClose /\ 1 \notin Asking
    BY DEF RequestsSound, ResponsesSound
  <2>3. pc = "idle" /\ IsOpen /\ owed = 0 /\ processed # <<>> /\ Asking = {} =>
            pending \/ https
    BY <2>1 DEF RequestsSound, ResponsesSound
  <2>4. QED
    BY <2>2, <2>3 DEF ClosesAfterResponse, Asking
<1>2. QED
  BY <1>1, Invariance, PTL

\* OnRecvData and Parse: of a legal stream the requests given to ProcessHttpRequest are
\* those of the bytes received and no error is found, however many lines there are and
\* however the reads cut them.  Of an illegal one they are those ahead of the first illegal
\* line, and it is found to be illegal; unless the decoder has taken a request line with one
\* space for legal, and then those ahead of that line are the first it has processed.
THEOREM RequestsAreTheBytes == SafeSpec => []RequestsDependOnBytesOnly
<1>1. IInv => RequestsDependOnBytesOnly
  <2> SUFFICES ASSUME TypeOK, ReadsSound, HandlerSound, DecoderSound,
                      pc = "idle", LinesFit, IsOpen \/ ~https
               PROVE  LET r == Read(got \div 2)
                      IN  /\ r.phase # "illegal" =>
                              processed = r.requests /\ m_status # "ERROR" /\ ended # "illegal"
                          /\ r.phase = "illegal" =>
                              /\ IsPrefix(r.requests, processed)
                              /\ ~stretched => processed = r.requests /\ m_status = "ERROR"
    BY DEF IInv, RequestsDependOnBytesOnly
  <2> DEFINE r == Read(got \div 2)
  <2>0. /\ m_status \in Statuses /\ Len(processed) \in Nat
        /\ ended = "illegal" => m_status = "ERROR"
    BY DEF TypeOK, Statuses, HandlerSound
  <2>1. pos = got \div 2
    BY DEF HandlerSound
  <2>2. CASE stretched
    BY <2>1, <2>2 DEF DecoderSound, IsAhead
  <2>3. CASE ~stretched
    <3>1. DecoderAgrees(r)
      BY <2>1, <2>3 DEF DecoderSound
    <3>2. CASE m_status = "ERROR"
      <4>1. r.phase = "illegal" /\ r.requests = processed
        BY <3>1, <3>2 DEF HandlerSound, DecoderAgrees
      <4>2. QED
        BY <2>0, <3>2, <4>1 DEF IsPrefix
    <3>3. CASE m_status # "ERROR"
      <4>1. /\ m_status \in {"REQ_LINE", "HEAD_FIELDS", "BODY"}
            /\ m_status = "BODY" => m_request.length = 1
        BY <2>0, <3>3 DEF HandlerSound, Statuses
      <4>2. r.requests = processed /\ r.phase \in {"line", "head", "body"}
        BY <3>1, <4>1 DEF DecoderAgrees
      <4>3. QED
        BY <2>0, <3>3, <4>2
    <3>4. QED
      BY <3>2, <3>3
  <2>4. QED
    BY <2>2, <2>3
<1>2. QED
  BY <1>1, Invariance, PTL

\* http_request_decoder.h:26 holds over TCP: when Parse gives 0 there is a request.
THEOREM ParseOkOverTCP == SafeSpec => [](~https => ParseOkMeansRequest)
<1>1. IInv => (~https => ParseOkMeansRequest)
  BY DEF IInv, HandlerSound, ParseOkMeansRequest
<1>2. QED
  BY <1>1, Invariance, PTL
-----------------------------------------------------------------------------
(* OnRecvData's loop comes to an end.                                      *)

\* How far the loop is from its next line or from its end, by where in its body it is.
LoopRank ==
    CASE pc = "idle" -> 0
      [] pc = "app" -> 3
      [] pc = "process" -> 4
      [] pc = "parse" -> CASE m_status = "BODY" -> 5 [] m_status = "DONE" -> 2 [] OTHER -> 1

\* The lines that are left weigh more than a turn of the loop.
LoopVariant == 6 * (got \div 2 - pos) + LoopRank

\* Over TCP, each step of the handler brings its end nearer, and nothing that happens in
\* the callback puts it off.
HandlerNearsItsEnd ==
    pc # "idle" /\ ~https =>
        /\ LoopVariant' <= LoopVariant
        /\ HandlerStep => LoopVariant' < LoopVariant

\* A request has at least two lines of its own, those of the one in hand included.
LinesOfRequests ==
    2 * Len(processed) + (CASE m_status = "HEAD_FIELDS" -> 1
                            [] m_status = "BODY" \/ pc = "process" -> 2
                            [] OTHER -> 0)

LinesSpent == ~https => LinesOfRequests <= pos

SentWithinBound == Len(stream) <= MaxLines

\* So the bound in CallProcessHttpRequest never holds the handler up, and it never runs on
\* in state ERROR.
HandlerGoesOn ==
    ~https =>
        /\ pc = "process" => Len(processed) < MaxLines
        /\ pc = "parse" => m_status # "ERROR"

LEMMA LoopNumbers ==
    ASSUME TypeOK
    PROVE  /\ got \div 2 \in Nat /\ pos \in Nat /\ pos <= got \div 2 /\ got \div 2 <= Len(stream)
           /\ Len(stream) \in Nat /\ Len(processed) \in Nat
           /\ LoopRank \in 0 .. 5 /\ (pc # "idle" => LoopRank >= 1)
           /\ LinesOfRequests \in Nat
           /\ m_request.length \in {-1, 0, 1} /\ pc \in Places /\ m_status \in Statuses
<1>1. got \div 2 \in Nat /\ pos \in Nat /\ pos <= got \div 2 /\ got \div 2 <= Len(stream)
      /\ Len(stream) \in Nat
  BY GotSent DEF TypeOK
<1>2. pc \in Places /\ m_status \in Statuses /\ Len(processed) \in Nat
  BY DEF TypeOK, Places, Statuses
<1>3. m_request.length \in {-1, 0, 1}
  <2>1. m_request \in Request
    BY DEF TypeOK
  <2>2. QED
    BY <2>1, RequestFields
<1>4. LoopRank \in 0 .. 5 /\ (pc # "idle" => LoopRank >= 1)
  BY <1>2 DEF LoopRank, Places
<1>5. LinesOfRequests \in Nat
  BY <1>2 DEF LinesOfRequests
<1>6. QED
  BY <1>1, <1>2, <1>3, <1>4, <1>5

\* One lemma for both: what a step of the handler does to the variant and to the lines.
LEMMA HandlerTurns ==
    ASSUME TypeOK, HandlerSound, LinesSpent, ~https, HandlerStep
    PROVE  LoopVariant' < LoopVariant /\ LinesSpent'
<1>0. /\ got \div 2 \in Nat /\ pos \in Nat /\ pos <= got \div 2
      /\ Len(processed) \in Nat /\ m_request.length \in {-1, 0, 1}
      /\ LinesOfRequests <= pos
  BY LoopNumbers DEF LinesSpent
<1>1. CASE ParseResets
  BY <1>0, <1>1 DEF ParseResets, sentVars, inputVars, connVars, appVars, LoopVariant, LoopRank,
                    LinesSpent, LinesOfRequests
<1>2. CASE ParseRequestLine \/ ParseHeadField \/ ParseHeadEnds
  BY <1>0, <1>2 DEF ParseRequestLine, ParseHeadField, ParseHeadEnds, AfterLine, sentVars,
                    inputVars, connVars, appVars, LoopVariant, LoopRank, LinesSpent, LinesOfRequests
<1>3. CASE Error /\ pc = "parse" /\ m_status \in {"REQ_LINE", "HEAD_FIELDS", "BODY"}
  BY <1>0, <1>3 DEF Error, Returns, LoopGoesOn, sentVars, inputVars, appVars, LoopVariant, LoopRank,
                    LinesSpent, LinesOfRequests
<1>4. CASE ParseLineNeedsMore \/ ParseBodyNeedsMore
  BY <1>0, <1>4 DEF ParseLineNeedsMore, ParseBodyNeedsMore, Returns, LoopGoesOn, sentVars,
                    inputVars, appVars, LoopVariant, LoopRank, LinesSpent, LinesOfRequests
<1>5. CASE ParseBody
  BY <1>0, <1>5 DEF ParseBody, Returns, LoopGoesOn, sentVars, inputVars, appVars, LoopVariant,
                    LoopRank, LinesSpent, LinesOfRequests
<1>6. CASE ParseAfterError
  BY <1>6 DEF ParseAfterError, HandlerSound
<1>7. CASE CallProcessHttpRequest
  <2>1. m_status = "DONE"
    BY <1>7 DEF CallProcessHttpRequest, HandlerSound
  <2>2. Len(processed') = Len(processed) + 1
    BY <1>7 DEF CallProcessHttpRequest, TypeOK
  <2>3. QED
    BY <1>0, <1>7, <2>1, <2>2
    DEF CallProcessHttpRequest, sentVars, inputVars, connVars, LoopVariant, LoopRank, LinesSpent,
      LinesOfRequests
<1>8. CASE ProcessHttpRequestReturns
  <2>1. m_status = "DONE"
    BY <1>8 DEF ProcessHttpRequestReturns, HandlerSound
  <2>2. QED
    BY <1>0, <1>8, <2>1
    DEF ProcessHttpRequestReturns, sentVars, inputVars, connVars, appVars, LoopVariant, LoopRank,
        LinesSpent, LinesOfRequests
<1>9. QED
  BY <1>1, <1>2, <1>3, <1>4, <1>5, <1>6, <1>7, <1>8
  DEF HandlerStep, ParseStep, ParseRequestLineFails, ParseHeadFails, ParseLineTooLong,
    ParseBodyFails

\* What else happens leaves both alone, or finds the thread in the event loop.
LEMMA OthersWait ==
    ASSUME TypeOK, LinesSpent, ~https, [Next]_vars, ~HandlerStep
    PROVE  /\ pc # "idle" => LoopVariant' = LoopVariant
           /\ ~https' /\ LinesSpent'
<1>0. LinesOfRequests <= pos /\ pos \in Nat /\ LinesOfRequests \in Nat
  BY LoopNumbers DEF LinesSpent
<1>1. CASE (\E line \in Kinds : PeerSends(line)) \/ (\E missing \in 0 .. 1 : OnRecvData(missing))
  BY <1>0, <1>1 DEF PeerSends, OnRecvData, connVars, appVars, LinesSpent, LinesOfRequests
<1>2. CASE ReadEnds \/ PeerCloses \/ OnWrite \/ AppCloses \/ UNCHANGED vars
  <2>1. UNCHANGED <<https, got, pos, m_status, pc, processed>>
    BY <1>2 DEF ReadEnds, PeerCloses, OnWrite, AppCloses, vars, sentVars, inputVars, appVars
  <2>2. QED
    BY <1>0, <2>1 DEF LinesSpent, LinesOfRequests, LoopVariant, LoopRank
<1>3. CASE Responds
  <2>1. UNCHANGED respondKeeps
    BY <1>3 DEF Responds, SendResponse, SendResponseStart, SendChunk, SendResponseEnd
  <2>2. QED
    BY <1>0, <2>1 DEF respondKeeps, sentVars, inputVars, LinesSpent, LinesOfRequests,
        LoopVariant, LoopRank
<1>4. QED
  BY <1>1, <1>2, <1>3 DEF Next

LEMMA BoundKept ==
    ASSUME TypeOK, SentWithinBound, [Next]_vars
    PROVE  SentWithinBound'
<1>1. CASE \E line \in Kinds : PeerSends(line)
  BY <1>1, HttpAssumption DEF PeerSends, SentWithinBound, TypeOK
<1>2. CASE ~\E line \in Kinds : PeerSends(line)
  <2>1. UNCHANGED stream
    BY <1>2, ParseStepKeeps
    DEF Next, HandlerStep, OnRecvData, ReadEnds, PeerCloses, OnWrite, AppCloses, Responds,
        CallProcessHttpRequest, ProcessHttpRequestReturns, ParseKeeps, respondKeeps, sentVars,
        inputVars, SendResponse, SendResponseStart, SendChunk, SendResponseEnd, vars
  <2>2. QED
    BY <2>1 DEF SentWithinBound
<1>3. QED
  BY <1>1, <1>2

\* OnRecvData's loop: over TCP every step of it lowers a natural number that the callback
\* cannot raise, and until it is in the event loop again it can take one.  With the fairness
\* of Spec this is why OnRecvData returns, for any number of lines.
THEOREM OnRecvDataComesToAnEnd ==
    SafeSpec => [](LoopVariant \in Nat /\ HandlerGoesOn) /\ [][HandlerNearsItsEnd]_vars
<1> DEFINE Inv == IInv /\ LinesSpent /\ SentWithinBound
<1>1. Init => Inv
  BY InitIInv, HttpAssumption DEF Init, LinesSpent, LinesOfRequests, SentWithinBound
<1>2. Inv /\ [Next]_vars => Inv' /\ (HandlerNearsItsEnd \/ UNCHANGED vars)
  <2> SUFFICES ASSUME Inv, [Next]_vars
               PROVE  Inv' /\ HandlerNearsItsEnd
    OBVIOUS
  <2>1. TypeOK /\ HandlerSound /\ IInv' /\ SentWithinBound'
    BY NextIInv, BoundKept DEF IInv
  <2>2. LoopVariant \in Int /\ LoopVariant' \in Int
    <3>1. ASSUME TypeOK PROVE LoopVariant \in Int
      BY <3>1, LoopNumbers DEF LoopVariant
    <3>2. LoopRank' \in Int
      BY <2>1 DEF IInv, TypeOK, LoopRank
    <3>3. got' \in Int /\ pos' \in Int
      BY <2>1 DEF IInv, TypeOK
    <3>4. QED
      BY <2>1, <3>1, <3>2, <3>3 DEF LoopVariant
  <2>3. CASE https
    <3>1. https'
      BY <2>1, <2>3, ParseStepKeeps
      DEF Next, HandlerStep, PeerSends, OnRecvData, ReadEnds, PeerCloses, OnWrite, AppCloses,
          Responds, CallProcessHttpRequest, ProcessHttpRequestReturns, ParseKeeps, respondKeeps,
          sentVars, inputVars, SendResponse, SendResponseStart, SendChunk, SendResponseEnd, vars
    <3>2. QED
      BY <2>1, <2>3, <3>1 DEF HandlerNearsItsEnd, LinesSpent
  <2>4. CASE ~https /\ HandlerStep
    BY <2>1, <2>2, <2>4, HandlerTurns DEF HandlerNearsItsEnd
  <2>5. CASE ~https /\ ~HandlerStep
    BY <2>1, <2>2, <2>5, OthersWait DEF HandlerNearsItsEnd
  <2>6. QED
    BY <2>3, <2>4, <2>5
<1>3. Inv => LoopVariant \in Nat /\ HandlerGoesOn
  <2> SUFFICES ASSUME Inv PROVE LoopVariant \in Nat /\ HandlerGoesOn
    OBVIOUS
  <2>1. TypeOK /\ HandlerSound
    BY DEF IInv
  <2>2. LoopVariant \in Nat
    BY <2>1, LoopNumbers DEF LoopVariant
  <2>3. ASSUME ~https, pc = "process"
        PROVE  Len(processed) < MaxLines
    <3>1. m_status = "DONE" /\ LinesOfRequests <= pos
      BY <2>1, <2>3 DEF HandlerSound, LinesSpent
    <3>2. 2 * Len(processed) + 2 <= pos
      BY <2>3, <3>1 DEF LinesOfRequests
    <3>3. QED
      BY <2>1, <3>2, LoopNumbers, HttpAssumption DEF SentWithinBound
  <2>4. QED
    BY <2>1, <2>2, <2>3 DEF HandlerGoesOn, HandlerSound
<1>4. QED
  BY <1>1, <1>2, <1>3, PTL DEF SafeSpec
=============================================================================
