------------------------ MODULE HttpClientSessionProofs ------------------------
(***************************************************************************)
(* HttpClientSession for any number of lines, cut into reads anywhere. The *)
(* object that requests and responses share holds no body when the         *)
(* application may send: a body is there between the end of ParseBody and  *)
(* the next Reset, which is a time the event loop sees only of a session   *)
(* that is closed. The responses processed are those of the bytes: the     *)
(* decoder, in each of its states, has made of the lines before pos what   *)
(* the reference makes of them (DecoderAgrees), unless a request has found *)
(* a content-length in m_response half way; and once a status line without *)
(* a reason was taken for legal the decoder is ahead of the reference,     *)
(* which is in error and stays there (IsAhead). OnRecvData's loop comes to *)
(* an end over TCP, as on the server.                                      *)
(***************************************************************************)
EXTENDS HttpClientSession, TLAPS

\* What a body may be, and when there is one.
BodySound ==
    /\ Len(m_response.body) <= 1
    /\ m_status \in {"STATUS_LINE", "HEAD_FIELDS", "BODY"} => m_response.body = <<>>
    /\ m_status = "ERROR" => ~IsOpen
    /\ pc = "process" => m_status \in {"DONE", "ERROR"}
    /\ pc = "idle" /\ IsOpen => m_status # "DONE"

\* The reference's states, one for each line sent: an illegal line is its last, and the
\* first response stays the first.
ReadsSound ==
    /\ Len(reads) = Len(stream) + 1
    /\ reads[1] = NewReader
    /\ \A i \in 1 .. Len(stream) : reads[i + 1] = ReadLine(reads[i], stream[i])
    /\ \A i, j \in 1 .. Len(reads) : i <= j =>
        /\ reads[i].phase = "illegal" => reads[j] = reads[i]
        /\ reads[i].responses # <<>> =>
            reads[j].responses # <<>> /\ reads[j].responses[1] = reads[i].responses[1]

\* What OnRecvData leaves behind, in the decoder and in m_recvBuf; and the response of a
\* session that is not kept alive is its last, over TCP whatever has arrived behind it.
HandlerSound ==
    /\ m_status = "ERROR" => https \/ (pc = "idle" /\ pos = got \div 2)
    /\ ended = "illegal" => m_status = "ERROR"
    /\ ~https => ~reading
    /\ pc = "idle" /\ m_status \notin {"ERROR", "DONE"} =>
        /\ pos = got \div 2
        /\ m_status = "BODY" /\ ~disturbed => m_response.length = 1
    /\ pc = "idle" /\ m_status = "DONE" => ~StaysOpen /\ ~IsOpen /\ processed # <<>>
    /\ StaysOpen \/ processed = <<>> \/ (~IsOpen /\ https)
        \/ (~IsOpen /\ pc = "idle" /\ m_status = "DONE" /\ Len(processed) = 1)

\* Where the decoder is, and where the reference is, having read the same lines.
DecoderAgrees(r) ==
    /\ m_status = "STATUS_LINE" =>
        /\ m_response = NewResponse
        /\ r = [phase |-> "line", response |-> NewResponse, responses |-> processed]
    /\ m_status = "HEAD_FIELDS" =>
        r = [phase |-> "head", response |-> m_response, responses |-> processed]
    /\ m_status = "BODY" /\ m_response.length = 0 =>
        r = [phase |-> "line", response |-> NewResponse,
             responses |-> Append(processed, m_response)]
    /\ m_status = "BODY" /\ m_response.length = 1 =>
        r = [phase |-> "body", response |-> m_response, responses |-> processed]
    /\ m_status = "BODY" /\ m_response.length = -1 =>
        r.phase = "illegal" /\ r.responses = processed
    /\ m_status = "DONE" =>
        r = [phase |-> "line", response |-> NewResponse,
             responses |-> IF pc = "process" THEN Append(processed, m_response) ELSE processed]
    /\ m_status = "ERROR" /\ ~https =>
        r.phase = "illegal" /\ r.responses = processed

\* Where they have parted, and for good.
IsAhead(r) == r.phase = "illegal" /\ IsPrefix(r.responses, processed)

DecoderSound ==
    LinesFit /\ ~disturbed =>
        IF stretched THEN IsAhead(Read(pos)) ELSE DecoderAgrees(Read(pos))

-----------------------------------------------------------------------------
(* Types.                                                                  *)

LEMMA HalfOf ==
    ASSUME NEW n \in Nat, NEW m \in Nat, m > n \/ m = n
    PROVE  n \div 2 \in Nat /\ n \div 2 <= m \div 2 /\ 2 * (n \div 2) <= n
OBVIOUS

\* A line that has arrived was sent.
LEMMA LineSent ==
    ASSUME TypeOK, LineArrived
    PROVE  Line \in Kinds /\ AfterLine \in 0 .. got \div 2
<1>1. stream \in Seq(Kinds) /\ got \in Nat /\ got <= 2 * Len(stream) /\ pos \in Nat
      /\ pos < got \div 2 /\ Len(stream) \in Nat
  BY DEF TypeOK, LineArrived
<1>2. got \div 2 <= Len(stream) /\ got \div 2 \in Nat
  BY <1>1
<1>3. QED
  BY <1>1, <1>2 DEF Line, AfterLine

\* The lines a body takes were sent.
LEMMA BodySent ==
    ASSUME TypeOK, NEW n \in Nat, got \div 2 - pos >= n
    PROVE  SubSeq(stream, pos + 1, pos + n) \in Seq(Kinds) /\ pos + n \in 0 .. got \div 2
<1>1. stream \in Seq(Kinds) /\ got \in Nat /\ got <= 2 * Len(stream) /\ pos \in Nat
      /\ Len(stream) \in Nat
  BY DEF TypeOK
<1>2. got \div 2 <= Len(stream) /\ got \div 2 \in Nat
  BY <1>1
<1>3. pos + n <= Len(stream) /\ pos + n \in 0 .. got \div 2
  BY <1>1, <1>2
<1>4. \A i \in pos + 1 .. pos + n : stream[i] \in Kinds
  BY <1>1, <1>3
<1>5. QED
  BY <1>1, <1>3, <1>4

LEMMA ResponseFields ==
    ASSUME NEW r \in Response
    PROVE  /\ r.length \in {-1, 0, 1} /\ r.body \in Seq(Kinds)
           /\ \A n \in {-1, 0, 1} : [r EXCEPT !.length = n] \in Response
           /\ \A n \in {-1, 0, 1} : [r EXCEPT !.length = n].body = r.body
           /\ \A b \in Seq(Kinds) : [r EXCEPT !.body = b] \in Response
BY DEF Response

LEMMA NewResponseOK == NewResponse \in Response /\ NewResponse.body = <<>>
BY DEF NewResponse, Response

Statuses == {"STATUS_LINE", "HEAD_FIELDS", "BODY", "DONE", "ERROR"}
Endings == {"no", "other", "illegal", "done"}

\* A step of Parse: where its variables stay, TypeOK stays.
LEMMA ParseTyped ==
    ASSUME TypeOK, UNCHANGED <<sentVars, m_keepAlive, processed, disturbed>>,
           stretched' \in BOOLEAN, pos' \in 0 .. got \div 2, m_status' \in Statuses,
           m_response' \in Response, ended' \in Endings, pc' \in {"idle", "parse", "process"}
    PROVE  TypeOK'
BY DEF TypeOK, sentVars, Statuses, Endings

\* The lines Parse takes off the front of m_recvBuf.
LEMMA LineTyped ==
    ASSUME TypeOK, ParseStatusLine \/ ParseHeadField \/ ParseHeadEnds
    PROVE  TypeOK'
<1>1. m_response \in Response /\ pc \in {"idle", "parse", "process"} /\ ended \in Endings
      /\ m_status \in Statuses /\ stretched \in BOOLEAN
  BY DEF TypeOK, Endings, Statuses
<1>2. /\ UNCHANGED <<sentVars, m_keepAlive, processed, disturbed>> /\ pc' = pc /\ ended' = ended
      /\ stretched' \in BOOLEAN /\ LineArrived /\ pos' = AfterLine /\ m_status' \in Statuses
  BY <1>1 DEF ParseStatusLine, ParseHeadField, ParseHeadEnds, inputVars, sessionVars, Statuses
<1>3. m_response' \in Response
  <2>1. CASE ParseHeadField
    BY <1>1, <2>1, ResponseFields DEF ParseHeadField, WithField, Fields
  <2>2. CASE ParseStatusLine \/ ParseHeadEnds
    BY <1>1, <2>2 DEF ParseStatusLine, ParseHeadEnds
  <2>3. QED
    BY <2>1, <2>2
<1>4. QED
  BY <1>1, <1>2, <1>3, LineSent, ParseTyped

\* Parse fails, needs more, or finds the decoder failed before.
LEMMA ReturnTyped ==
    ASSUME TypeOK, Error \/ NeedsMore \/ ParseAfterError
    PROVE  TypeOK'
<1>1. /\ m_response \in Response /\ ended \in Endings /\ m_status \in Statuses
      /\ pos \in 0 .. got \div 2 /\ got \in Nat /\ stretched \in BOOLEAN
  BY DEF TypeOK, Endings, Statuses
<1>2. got \div 2 \in 0 .. got \div 2
  BY <1>1
<1>3. /\ UNCHANGED <<inputVars, m_keepAlive, processed, disturbed>>
      /\ ended' \in Endings /\ pc' \in {"idle", "parse", "process"}
  BY <1>1 DEF Error, NeedsMore, ParseAfterError, Returns, Closes, Endings
<1>4. /\ pos' \in 0 .. got \div 2 /\ m_status' \in Statuses /\ m_response' \in Response
  BY <1>1, <1>2 DEF Error, NeedsMore, ParseAfterError, Statuses
<1>5. QED
  BY <1>1, <1>3, <1>4, ParseTyped DEF inputVars

LEMMA Joined ==
    ASSUME NEW a \in Seq(Kinds), NEW b \in Seq(Kinds)
    PROVE  a \o b \in Seq(Kinds) /\ Len(a \o b) = Len(a) + Len(b)
OBVIOUS

\* The body is complete.
LEMMA BodyTyped ==
    ASSUME TypeOK, BodySound, ParseBody
    PROVE  TypeOK' /\ BodySound'
<1>1. /\ m_response \in Response /\ ended \in Endings /\ stream \in Seq(Kinds)
      /\ pos \in Nat /\ m_response.body = <<>> /\ stretched \in BOOLEAN
  BY DEF TypeOK, Endings, ParseBody, BodySound
<1>2. /\ m_response.length \in 0 .. 1 /\ m_response.body \in Seq(Kinds)
  <2>1. m_response.length \in {-1, 0, 1} /\ m_response.body \in Seq(Kinds)
    BY <1>1 DEF Response
  <2>2. m_response.length >= 0
    BY DEF ParseBody
  <2>3. QED
    BY <2>1, <2>2
<1> DEFINE b == SubSeq(stream, pos + 1, pos + m_response.length)
<1>3. /\ b \in Seq(Kinds) /\ pos + m_response.length \in 0 .. got \div 2
  BY <1>2, BodySent DEF ParseBody, BodyArrived
<1>4. Len(b) = m_response.length
  BY <1>1, <1>2
<1>5. m_response.body \o b \in Seq(Kinds) /\ Len(m_response.body \o b) <= 1
  <2> HIDE DEF b
  <2>1. Len(m_response.body) = 0
    BY <1>1
  <2>2. QED
    BY <1>2, <1>3, <1>4, <2>1, Joined
<1>6. /\ m_response' \in Response /\ m_response'.body = m_response.body \o b
  <2>1. m_response' = [m_response EXCEPT !.body = m_response.body \o b]
    BY DEF ParseBody
  <2> HIDE DEF b
  <2>2. QED
    BY <1>1, <1>5, <2>1, ResponseFields DEF Response
<1>7. TypeOK'
  BY <1>1, <1>3, <1>6, ParseTyped DEF ParseBody, Returns, inputVars, Statuses
<1>8. BodySound'
  BY <1>5, <1>6 DEF BodySound, ParseBody, Returns
<1>9. QED
  BY <1>7, <1>8

\* Parse of the next message begins.
LEMMA ResetTyped ==
    ASSUME TypeOK, ParseResets
    PROVE  TypeOK'
<1>1. /\ ended \in Endings /\ pos \in 0 .. got \div 2 /\ stretched \in BOOLEAN
  BY DEF TypeOK, Endings
<1>2. QED
  BY <1>1, NewResponseOK, ParseTyped DEF ParseResets, Reset, inputVars, sessionVars, Statuses

LEMMA Small ==
    ASSUME NEW n \in Nat, n <= 1
    PROVE  n \in {-1, 0, 1}
OBVIOUS

\* AddHeadField writes the length of the body there is.
LEMMA RequestTyped ==
    ASSUME TypeOK, BodySound
    PROVE  /\ RequestFields(m_response) \in Response
           /\ RequestFields(m_response).body = m_response.body
<1>1. m_response \in Response /\ m_response.body \in Seq(Kinds) /\ Len(m_response.body) <= 1
  BY ResponseFields DEF TypeOK, BodySound
<1>2. Len(m_response.body) \in {-1, 0, 1}
  <2>1. Len(m_response.body) \in Nat
    BY <1>1
  <2>2. Len(m_response.body) <= 1
    BY <1>1
  <2>3. QED
    BY <2>1, <2>2, Small
<1>3. QED
  BY <1>1, <1>2, ResponseFields DEF RequestFields

\* ProcessHttpResponse, with a request sent in it or not.
LEMMA ProcessTyped ==
    ASSUME TypeOK, BodySound, NEW sends \in BOOLEAN, NEW closes \in BOOLEAN,
           ProcessHttpResponse(sends, closes)
    PROVE  TypeOK' /\ BodySound'
<1>1. /\ m_response \in Response /\ ended \in Endings /\ processed \in Seq(Response)
      /\ m_keepAlive \in BOOLEAN /\ asks \in BOOLEAN
  BY DEF TypeOK, Endings
<1>2. m_keepAlive' \in BOOLEAN
  BY <1>1 DEF ProcessHttpResponse, StaysOpen
<1>3. ended' \in Endings
  BY <1>1 DEF ProcessHttpResponse, Closes, Endings
<1>4. processed' \in Seq(Response)
  BY <1>1 DEF ProcessHttpResponse
<1>5. m_response' \in Response /\ m_response'.body = m_response.body
  BY <1>1, RequestTyped DEF ProcessHttpResponse
<1>6. /\ UNCHANGED <<inputVars, pos, m_status, disturbed>> /\ pc' \in {"idle", "parse", "process"}
  BY DEF ProcessHttpResponse, NextTurn
<1>7. TypeOK'
  BY <1>2, <1>3, <1>4, <1>5, <1>6 DEF TypeOK, sentVars, inputVars, Endings
<1>8. /\ pc' # "process"
      /\ pc' = "idle" => ended' # "no"
      /\ ended # "no" => ended' # "no"
  BY DEF ProcessHttpResponse, NextTurn, Closes, IsOpen
<1>9. BodySound'
  BY <1>5, <1>6, <1>8 DEF BodySound, IsOpen, ProcessHttpResponse
<1>10. QED
  BY <1>7, <1>9

-----------------------------------------------------------------------------
(* The steps outside Parse.                                                *)

\* One line more for the reference: it has a next state, an illegal line was its last, and
\* a response more leaves the first where it is.
LEMMA ReadLineTyped ==
    ASSUME NEW r \in Reader, NEW line \in Kinds
    PROVE  /\ ReadLine(r, line) \in Reader
           /\ r.phase = "illegal" => ReadLine(r, line) = r
           /\ r.responses # <<>> => /\ ReadLine(r, line).responses # <<>>
                                    /\ ReadLine(r, line).responses[1] = r.responses[1]
<1> DEFINE Follows(q) ==
        q \in Reader /\ (r.responses # <<>> =>
            q.responses # <<>> /\ q.responses[1] = r.responses[1])
<1>0. /\ r.phase \in {"line", "head", "body", "illegal"} /\ r.response \in Response
      /\ r.responses \in Seq(Response) /\ r.response.length \in {-1, 0, 1}
  BY ResponseFields DEF Reader
<1>1. /\ Follows(Illegal(r)) /\ Follows([r EXCEPT !.phase = "head"])
      /\ Follows([r EXCEPT !.phase = "body"]) /\ Follows(r)
  BY DEF Illegal, Reader
<1>2. \A b \in Seq(Kinds) : Follows(Deliver(r, b))
  <2> SUFFICES ASSUME NEW b \in Seq(Kinds)
               PROVE  Follows(Deliver(r, b))
    OBVIOUS
  <2>1. PICK last \in Response : last = [r.response EXCEPT !.body = b]
    BY <1>0, ResponseFields
  <2>2. /\ Append(r.responses, last) \in Seq(Response)
        /\ r.responses # <<>> => /\ Append(r.responses, last) # <<>>
                                 /\ Append(r.responses, last)[1] = r.responses[1]
    BY <1>0, <2>1
  <2>3. QED
    BY <2>1, <2>2, NewResponseOK DEF Deliver, Reader
<1>3. Follows(ReadHead(r, line))
  <2>1. CASE line \in Fields
    <3>1. WithField(r.response, line) \in Response
      BY <1>0, <2>1, ResponseFields DEF WithField, Fields
    <3>2. [r EXCEPT !.response = WithField(r.response, line)] \in Reader
      BY <3>1 DEF Reader
    <3>3. ReadHead(r, line) = [r EXCEPT !.response = WithField(r.response, line)]
      BY <2>1 DEF ReadHead, Fields
    <3>4. [r EXCEPT !.response = WithField(r.response, line)].responses = r.responses
      BY DEF Reader
    <3>5. QED
      BY <3>2, <3>3, <3>4
  <2>2. CASE line \in {"status", "short", "bad"}
    BY <2>2, <1>1 DEF ReadHead, Fields
  <2>3. CASE line = "empty"
    <3>1. <<>> \in Seq(Kinds)
      OBVIOUS
    <3>2. Follows(Deliver(r, <<>>))
      BY <1>2, <3>1
    <3>3. QED
      BY <2>3, <1>0, <1>1, <3>2 DEF ReadHead, Fields
  <2>4. QED
    BY <2>1, <2>2, <2>3 DEF Kinds, Fields
<1>4. Follows(Deliver(r, <<line>>))
  <2>1. <<line>> \in Seq(Kinds)
    OBVIOUS
  <2>2. QED
    BY <1>2, <2>1
<1>5. Follows(ReadLine(r, line)) /\ (r.phase = "illegal" => ReadLine(r, line) = r)
  BY <1>0, <1>1, <1>3, <1>4 DEF ReadLine
<1>6. QED
  BY <1>5

\* The states of the reference.
LEMMA ReadTyped ==
    ASSUME TypeOK, ReadsSound, NEW n \in 0 .. Len(stream)
    PROVE  Read(n) \in Reader
BY DEF TypeOK, ReadsSound, Read

\* A line more is read, and what was read before stays.
LEMMA SentRead ==
    ASSUME TypeOK, ReadsSound, NEW line \in Kinds, PeerSends(line)
    PROVE  /\ ReadsSound' /\ reads' \in Seq(Reader)
           /\ \A n \in 0 .. Len(stream) : reads'[n + 1] = reads[n + 1]
<1> DEFINE last == Read(Len(stream))
           next == ReadLine(last, line)
<1>0. /\ stream \in Seq(Kinds) /\ Len(stream) \in Nat /\ reads \in Seq(Reader)
      /\ Len(reads) = Len(stream) + 1 /\ last = reads[Len(reads)]
      /\ stream' = Append(stream, line) /\ reads' = Append(reads, next)
  BY DEF TypeOK, ReadsSound, PeerSends, Read
<1>1. /\ last \in Reader /\ next \in Reader
      /\ last.phase = "illegal" => next = last
      /\ last.responses # <<>> =>
            next.responses # <<>> /\ next.responses[1] = last.responses[1]
  BY <1>0, ReadTyped, ReadLineTyped
<1> HIDE DEF next
<1>2. /\ Len(stream') = Len(stream) + 1
      /\ \A i \in 1 .. Len(stream) : stream'[i] = stream[i]
      /\ stream'[Len(stream) + 1] = line
  BY <1>0
<1>3. /\ reads' \in Seq(Reader) /\ Len(reads') = Len(reads) + 1
      /\ \A i \in 1 .. Len(reads) : reads'[i] = reads[i]
      /\ reads'[Len(reads) + 1] = next
  BY <1>0, <1>1
<1>4. \A i \in 1 .. Len(stream') : reads'[i + 1] = ReadLine(reads'[i], stream'[i])
  <2> SUFFICES ASSUME NEW i \in 1 .. Len(stream')
               PROVE  reads'[i + 1] = ReadLine(reads'[i], stream'[i])
    OBVIOUS
  <2>1. CASE i \in 1 .. Len(stream)
    BY <2>1, <1>0, <1>2, <1>3 DEF ReadsSound
  <2>2. CASE i = Len(stream) + 1
    BY <2>2, <1>0, <1>2, <1>3 DEF next
  <2>3. QED
    BY <1>0, <1>2, <2>1, <2>2
<1> HIDE DEF last
<1>5. \A i, j \in 1 .. Len(reads') : i <= j =>
        /\ reads'[i].phase = "illegal" => reads'[j] = reads'[i]
        /\ reads'[i].responses # <<>> =>
            reads'[j].responses # <<>> /\ reads'[j].responses[1] = reads'[i].responses[1]
  <2> SUFFICES ASSUME NEW i \in 1 .. Len(reads'), NEW j \in 1 .. Len(reads'), i <= j
               PROVE  /\ reads'[i].phase = "illegal" => reads'[j] = reads'[i]
                      /\ reads'[i].responses # <<>> =>
                            /\ reads'[j].responses # <<>>
                            /\ reads'[j].responses[1] = reads'[i].responses[1]
    OBVIOUS
  <2>1. CASE j \in 1 .. Len(reads)
    BY <2>1, <1>0, <1>3 DEF ReadsSound
  <2>2. CASE j = Len(reads) + 1 /\ i # j
    <3>1. i \in 1 .. Len(reads) /\ Len(reads) \in 1 .. Len(reads) /\ i <= Len(reads)
      BY <2>2, <1>0, <1>3
    <3>2. /\ reads[i].phase = "illegal" => last = reads[i]
          /\ reads[i].responses # <<>> =>
                last.responses # <<>> /\ last.responses[1] = reads[i].responses[1]
      BY <3>1, <1>0 DEF ReadsSound
    <3>3. reads'[j] = next /\ reads'[i] = reads[i]
      BY <2>2, <3>1, <1>3
    <3>4. QED
      BY <3>2, <3>3, <1>1
  <2>3. CASE i = j
    BY <2>3
  <2>4. QED
    BY <1>0, <1>3, <2>1, <2>2, <2>3
<1>6. QED
  BY <1>0, <1>2, <1>3, <1>4, <1>5 DEF ReadsSound

\* The peer, the transport, and the application between two events.
LEMMA IdleStep ==
    ASSUME TypeOK, BodySound, ReadsSound,
           \/ \E line \in Kinds : PeerSends(line)
           \/ \E missing \in 0 .. 1 : OnRecvData(missing)
           \/ ReadEnds \/ CloseByOther
           \/ \E fails \in BOOLEAN : SendRequest(fails)
    PROVE  TypeOK' /\ BodySound'
<1>0. /\ stream \in Seq(Kinds) /\ Len(stream) \in Nat /\ got \in Nat /\ got <= 2 * Len(stream)
      /\ pos \in 0 .. got \div 2 /\ disturbed \in BOOLEAN /\ https \in BOOLEAN
      /\ m_response \in Response
  BY DEF TypeOK
<1>1. CASE \E line \in Kinds : PeerSends(line)
  <2>1. PICK line \in Kinds : PeerSends(line)
    BY <1>1
  <2>2. stream' = Append(stream, line)
    BY <2>1 DEF PeerSends
  <2>3. stream' \in Seq(Kinds) /\ Len(stream') = Len(stream) + 1
    BY <1>0, <2>2
  <2>4. got \in 0 .. 2 * Len(stream')
    BY <1>0, <2>3
  <2>5. reads' \in Seq(Reader)
    BY <2>1, SentRead
  <2>6. QED
    BY <2>1, <2>3, <2>4, <2>5 DEF TypeOK, BodySound, PeerSends, sessionVars, IsOpen
<1>2. CASE \E missing \in 0 .. 1 : OnRecvData(missing)
  <2>1. PICK missing \in 0 .. 1 : OnRecvData(missing)
    BY <1>2
  <2>2. got' \in 0 .. 2 * Len(stream) /\ got' > got
    BY <1>0, <2>1 DEF OnRecvData
  <2>3. got' \in Nat /\ got' > got
    BY <1>0, <2>2
  <2>4. pos \in 0 .. got' \div 2
    <3>1. got \div 2 <= got' \div 2 /\ got' \div 2 \in Nat /\ got \div 2 \in Nat
      BY <1>0, <2>3, HalfOf
    <3>2. pos \in 0 .. got \div 2
      BY <1>0
    <3>3. QED
      BY <3>1, <3>2
  <2>5. QED
    BY <1>0, <2>1, <2>2, <2>4 DEF TypeOK, BodySound, OnRecvData, sessionVars, IsOpen
<1>3. CASE ReadEnds \/ CloseByOther
  BY <1>3 DEF TypeOK, BodySound, ReadEnds, CloseByOther, sessionVars, IsOpen
<1>4. CASE \E fails \in BOOLEAN : SendRequest(fails)
  <2>1. PICK fails \in BOOLEAN : SendRequest(fails)
    BY <1>4
  <2>2. m_response' \in Response /\ m_response'.body = m_response.body
    BY <2>1, RequestTyped DEF SendRequest
  <2>3. disturbed' \in BOOLEAN
    BY <1>0, <2>1 DEF SendRequest
  <2>4. ended' \in {ended, "other"}
    BY <2>1 DEF SendRequest
  <2>5. QED
    BY <2>1, <2>2, <2>3, <2>4 DEF TypeOK, BodySound, SendRequest, sentVars, inputVars, IsOpen
<1>5. QED
  BY <1>1, <1>2, <1>3, <1>4

\* Parse, but for the end of a body.
LEMMA ParseBodySound ==
    ASSUME TypeOK, BodySound, pc = "parse",
           \/ ParseResets \/ ParseStatusLine \/ ParseHeadField \/ ParseHeadEnds
           \/ Error \/ ParseAfterError
           \/ NeedsMore /\ m_status \in {"STATUS_LINE", "HEAD_FIELDS", "BODY"}
    PROVE  BodySound'
<1>1. CASE ParseResets
  BY <1>1, NewResponseOK DEF BodySound, ParseResets, Reset, sessionVars, IsOpen
<1>2. CASE ParseStatusLine \/ ParseHeadEnds
  BY <1>2 DEF BodySound, ParseStatusLine, ParseHeadEnds, sessionVars, IsOpen
<1>3. CASE ParseHeadField
  <2>1. m_response'.body = m_response.body
    <3>1. m_response \in Response
      BY DEF TypeOK
    <3>2. QED
      BY <1>3, <3>1, ResponseFields DEF ParseHeadField, WithField, Fields
  <2>2. QED
    BY <1>3, <2>1 DEF BodySound, ParseHeadField, sessionVars, IsOpen
<1>4. CASE Error
  BY <1>4 DEF BodySound, Error, Returns, Closes, IsOpen
<1>5. CASE ParseAfterError
  BY <1>5 DEF BodySound, ParseAfterError, Returns, IsOpen
<1>6. CASE NeedsMore /\ m_status \in {"STATUS_LINE", "HEAD_FIELDS", "BODY"}
  BY <1>6 DEF BodySound, NeedsMore, Returns, IsOpen
<1>7. QED
  BY <1>1, <1>2, <1>3, <1>4, <1>5, <1>6

-----------------------------------------------------------------------------
(* The decoder and the reference.                                          *)

\* The next line, for both.
LEMMA ReadNext ==
    ASSUME TypeOK, ReadsSound, pos < Len(stream)
    PROVE  /\ Line \in Kinds /\ (LinesFit => Line # "long")
           /\ Read(pos) \in Reader /\ AfterLine = pos + 1 /\ AfterLine \in 0 .. Len(stream)
           /\ Read(AfterLine) = ReadLine(Read(pos), Line)
<1>1. stream \in Seq(Kinds) /\ Len(stream) \in Nat /\ pos \in Nat /\ pos + 1 \in 1 .. Len(stream)
  BY DEF TypeOK
<1>2. Read(pos) \in Reader
  BY <1>1, ReadTyped
<1>3. reads[(pos + 1) + 1] = ReadLine(reads[pos + 1], stream[pos + 1])
  BY <1>1 DEF ReadsSound
<1>4. QED
  BY <1>1, <1>2, <1>3 DEF Read, Line, LinesFit, AfterLine

\* Bytes that have arrived were sent.
LEMMA GotSent ==
    ASSUME TypeOK
    PROVE  /\ got \div 2 \in Nat /\ Len(stream) \in Nat /\ got \div 2 <= Len(stream)
           /\ pos \in Nat /\ pos <= got \div 2
           /\ HalfLine => pos < Len(stream)
<1>1. got \in Nat /\ Len(stream) \in Nat /\ got <= 2 * Len(stream) /\ pos \in 0 .. got \div 2
  BY DEF TypeOK
<1>2. got \div 2 \in Nat /\ got \div 2 <= Len(stream)
  BY <1>1
<1>3. got % 2 = 1 => got \div 2 < Len(stream)
  BY <1>1
<1>4. QED
  BY <1>1, <1>2, <1>3 DEF HalfLine

\* m_recvBuf is cleared at an illegal line: what the reference has read then, it keeps.
LEMMA ErrorAgrees ==
    ASSUME TypeOK, ReadsSound, Error, NEW n \in pos .. Len(stream),
           n <= got \div 2, Read(n).phase = "illegal", Read(n).responses = processed
    PROVE  DecoderAgrees(Read(pos))'
<1>1. /\ got \div 2 \in 0 .. Len(stream) /\ n \in 0 .. Len(stream)
      /\ Len(reads) = Len(stream) + 1
  BY GotSent DEF ReadsSound
<1>2. reads[got \div 2 + 1] = reads[n + 1]
  BY <1>1 DEF ReadsSound, Read
<1>3. /\ m_status' = "ERROR" /\ pos' = got \div 2
      /\ UNCHANGED <<reads, got, processed>>
  BY DEF Error, Returns, sentVars, inputVars
<1>4. QED
  BY <1>2, <1>3 DEF DecoderAgrees, Read

\* What a step of the transport or of the application leaves as it is.
LEMMA SameDecoder ==
    ASSUME DecoderSound, disturbed \in BOOLEAN, disturbed => disturbed',
           UNCHANGED <<https, stream, reads, got, stretched, pos, m_status, processed>>,
           m_response' = m_response \/ disturbed',
           pc' = "process" <=> pc = "process"
    PROVE  DecoderSound'
BY DEF DecoderSound, DecoderAgrees, IsAhead, Read, LinesFit

\* A line of the status line or the head.
LEMMA HeadAgrees ==
    ASSUME TypeOK, ReadsSound, BodySound, DecoderSound, LinesFit, ~disturbed,
           ~stretched, ~stretched', ParseStatusLine \/ ParseHeadField \/ ParseHeadEnds
    PROVE  DecoderAgrees(Read(pos))'
<1> DEFINE r == Read(pos)
<1>1. pos < Len(stream)
  BY GotSent DEF ParseStatusLine, ParseHeadField, ParseHeadEnds, LineArrived
<1>2. /\ Line \in Kinds /\ Line # "long" /\ r \in Reader
      /\ Read(AfterLine) = ReadLine(r, Line)
      /\ DecoderAgrees(r)
  BY <1>1, ReadNext DEF DecoderSound
<1>3. /\ pos' = AfterLine /\ UNCHANGED <<reads, processed, pc>>
  BY DEF ParseStatusLine, ParseHeadField, ParseHeadEnds, sentVars, inputVars, sessionVars
<1>4. Read(pos)' = ReadLine(r, Line)
  BY <1>2, <1>3 DEF Read
<1> HIDE DEF r
<1>5. CASE ParseStatusLine
  <2>1. /\ Line = "status" /\ m_status = "STATUS_LINE" /\ m_status' = "HEAD_FIELDS"
        /\ m_response' = m_response
    BY <1>2, <1>5 DEF ParseStatusLine, LegalStatusLine
  <2>2. /\ r = [phase |-> "line", response |-> NewResponse, responses |-> processed]
        /\ m_response = NewResponse
    BY <1>2, <2>1 DEF DecoderAgrees
  <2>3. ReadLine(r, Line) = [phase |-> "head", response |-> NewResponse, responses |-> processed]
    BY <2>1, <2>2 DEF ReadLine
  <2>4. QED
    BY <1>3, <1>4, <2>1, <2>2, <2>3 DEF DecoderAgrees
<1>6. CASE ParseHeadField
  <2>1. /\ Line \in Fields /\ m_status = "HEAD_FIELDS" /\ m_status' = "HEAD_FIELDS"
        /\ m_response' = WithField(m_response, Line)
    BY <1>2, <1>6 DEF ParseHeadField
  <2>2. r = [phase |-> "head", response |-> m_response, responses |-> processed]
    BY <1>2, <2>1 DEF DecoderAgrees
  <2>3. ReadLine(r, Line) = [phase |-> "head", response |-> WithField(m_response, Line),
                             responses |-> processed]
    BY <2>1, <2>2 DEF ReadLine, ReadHead, Fields
  <2>4. QED
    BY <1>3, <1>4, <2>1, <2>3 DEF DecoderAgrees
<1>7. CASE ParseHeadEnds
  <2>1. /\ Line = "empty" /\ m_status = "HEAD_FIELDS" /\ m_status' = "BODY"
        /\ m_response' = m_response /\ m_response \in Response /\ m_response.body = <<>>
    BY <1>7 DEF ParseHeadEnds, BodySound, TypeOK
  <2>2. r = [phase |-> "head", response |-> m_response, responses |-> processed]
    BY <1>2, <2>1 DEF DecoderAgrees
  <2>3. ReadLine(r, Line) = ReadHead(r, "empty")
    BY <2>1, <2>2 DEF ReadLine
  <2>4. CASE m_response.length = 0
    <3>1. [m_response EXCEPT !.body = <<>>] = m_response
      BY <2>1 DEF Response
    <3>2. Deliver(r, <<>>) = [phase |-> "line", response |-> NewResponse,
                              responses |-> Append(processed, m_response)]
      BY <2>2, <3>1 DEF Deliver
    <3>3. ReadHead(r, "empty") = Deliver(r, <<>>)
      BY <2>2, <2>4 DEF ReadHead, Fields
    <3>4. QED
      BY <1>3, <1>4, <2>1, <2>3, <2>4, <3>2, <3>3 DEF DecoderAgrees
  <2>5. CASE m_response.length = 1
    BY <1>3, <1>4, <2>1, <2>2, <2>3, <2>5 DEF DecoderAgrees, ReadHead, Fields
  <2>6. CASE m_response.length = -1
    BY <1>3, <1>4, <2>1, <2>2, <2>3, <2>6 DEF DecoderAgrees, ReadHead, Illegal, Fields
  <2>7. QED
    BY <2>1, <2>4, <2>5, <2>6, ResponseFields
<1>8. QED
  BY <1>5, <1>6, <1>7

\* A part of one element.
LEMMA OneLine ==
    ASSUME NEW s \in Seq(Kinds), NEW n \in 0 .. Len(s) - 1
    PROVE  SubSeq(s, n + 1, n + 1) = <<s[n + 1]>>
<1> DEFINE t == SubSeq(s, n + 1, n + 1)
<1>1. n + 1 \in 1 .. Len(s) /\ Len(s) \in Nat
  OBVIOUS
<1>2. t \in Seq(Kinds) /\ Len(t) = 1 /\ t[1] = s[n + 1]
  BY <1>1
<1> HIDE DEF t
<1>3. t = <<t[1]>>
  BY <1>2
<1>4. QED
  BY <1>2, <1>3 DEF t

\* The body: none, or the next line whatever it is.
LEMMA BodyAgrees ==
    ASSUME TypeOK, ReadsSound, BodySound, DecoderSound, LinesFit, ~disturbed, ~stretched,
           ParseBody
    PROVE  DecoderAgrees(Read(pos))'
<1> DEFINE body == SubSeq(stream, pos + 1, pos + m_response.length)
<1>1. /\ m_status = "BODY" /\ m_response.length >= 0 /\ BodyArrived
      /\ m_response' = [m_response EXCEPT !.body = m_response.body \o body]
      /\ pos' = pos + m_response.length
      /\ m_status' = "DONE" /\ pc' = "process"
      /\ UNCHANGED <<reads, processed>>
  BY DEF ParseBody, Returns, sentVars, inputVars
<1>2. /\ m_response \in Response /\ m_response.length \in {0, 1} /\ m_response.body = <<>>
      /\ DecoderAgrees(Read(pos))
  <2>1. m_response \in Response
    BY DEF TypeOK
  <2>2. m_response.length \in {-1, 0, 1}
    BY <2>1, ResponseFields
  <2>3. QED
    BY <1>1, <2>1, <2>2 DEF DecoderSound, BodySound
<1>3. stream \in Seq(Kinds) /\ got \div 2 \in Nat /\ pos \in Nat /\ got \div 2 <= Len(stream)
      /\ Len(stream) \in Nat
  BY GotSent DEF TypeOK
<1>4. CASE m_response.length = 0
  <2>1. body = <<>> /\ pos' = pos
    BY <1>1, <1>3, <1>4
  <2> HIDE DEF body
  <2>2. <<>> \o <<>> = <<>>
    OBVIOUS
  <2>3. m_response' = m_response
    BY <1>1, <1>2, <2>1, <2>2 DEF Response
  <2>4. Read(pos) = [phase |-> "line", response |-> NewResponse,
                     responses |-> Append(processed, m_response)]
    BY <1>1, <1>2, <1>4 DEF DecoderAgrees
  <2>5. QED
    BY <1>1, <2>1, <2>3, <2>4 DEF DecoderAgrees, Read
<1>5. CASE m_response.length = 1
  <2>1. pos < Len(stream)
    BY <1>1, <1>3, <1>5 DEF BodyArrived
  <2>2. /\ Read(AfterLine) = ReadLine(Read(pos), Line) /\ AfterLine = pos + 1
        /\ Line \in Kinds
    BY <2>1, ReadNext
  <2>3. body = <<Line>> /\ pos' = AfterLine
    <3>1. SubSeq(stream, pos + 1, pos + 1) = <<stream[pos + 1]>>
      BY <1>3, <2>1, OneLine
    <3>2. QED
      BY <1>1, <1>5, <2>2, <3>1 DEF Line
  <2> HIDE DEF body
  <2>4. <<>> \o <<Line>> = <<Line>>
    OBVIOUS
  <2>5. m_response' = [m_response EXCEPT !.body = <<Line>>]
    BY <1>1, <1>2, <2>3, <2>4
  <2>6. Read(pos) = [phase |-> "body", response |-> m_response, responses |-> processed]
    BY <1>1, <1>2, <1>5 DEF DecoderAgrees
  <2>7. ReadLine(Read(pos), Line) = [phase |-> "line", response |-> NewResponse,
            responses |-> Append(processed, [m_response EXCEPT !.body = <<Line>>])]
    BY <2>6 DEF ReadLine, Deliver
  <2>8. QED
    BY <1>1, <2>2, <2>3, <2>5, <2>7 DEF DecoderAgrees, Read
<1>6. QED
  BY <1>2, <1>4, <1>5

\* Whatever is illegal for the decoder is illegal for the reference.
LEMMA ErrorSound ==
    ASSUME TypeOK, ReadsSound, DecoderSound, LinesFit, ~disturbed, ~stretched,
           ParseStatusLineFails \/ ParseHeadFails \/ ParseLineTooLong \/ ParseBodyFails
    PROVE  DecoderAgrees(Read(pos))'
<1> DEFINE r == Read(pos)
<1>1. Error /\ DecoderAgrees(r)
  BY DEF ParseStatusLineFails, ParseHeadFails, ParseLineTooLong, ParseBodyFails, DecoderSound
<1>2. got \div 2 \in Nat /\ pos \in Nat /\ got \div 2 <= Len(stream) /\ Len(stream) \in Nat
      /\ pos <= got \div 2
  BY GotSent
<1>3. CASE ParseStatusLineFails \/ ParseHeadFails
  <2>1. pos < got \div 2
    BY <1>3 DEF ParseStatusLineFails, ParseHeadFails, LineArrived
  <2>2. /\ r \in Reader /\ Line \in Kinds /\ Read(AfterLine) = ReadLine(r, Line)
        /\ AfterLine = pos + 1
    BY <1>2, <2>1, ReadNext
  <2>3. ReadLine(r, Line).phase = "illegal" /\ ReadLine(r, Line).responses = processed
    <3>1. CASE ParseStatusLineFails
      <4>1. /\ r = [phase |-> "line", response |-> NewResponse, responses |-> processed]
            /\ Line \notin {"status", "long"}
        BY <1>1, <3>1 DEF ParseStatusLineFails, LegalStatusLine, DecoderAgrees
      <4>2. QED
        BY <4>1 DEF ReadLine, Illegal
    <3>2. CASE ParseHeadFails
      <4>1. /\ r = [phase |-> "head", response |-> m_response, responses |-> processed]
            /\ Line \in {"status", "short", "bad"}
        BY <1>1, <3>2 DEF ParseHeadFails, DecoderAgrees
      <4>2. QED
        BY <4>1 DEF ReadLine, ReadHead, Illegal, Fields
    <3>3. QED
      BY <1>3, <3>1, <3>2
  <2>4. AfterLine \in pos .. Len(stream) /\ AfterLine <= got \div 2
    BY <1>2, <2>1, <2>2
  <2>5. QED
    BY <1>1, <2>2, <2>3, <2>4, ErrorAgrees
<1>4. CASE ParseLineTooLong
  <2>1. pos < Len(stream) /\ Line = "long"
    BY <1>4, GotSent DEF ParseLineTooLong
  <2>2. QED
    BY <2>1, ReadNext
<1>5. CASE ParseBodyFails
  <2>1. m_response.length = -1 /\ m_status = "BODY"
    <3>1. m_response \in Response
      BY DEF TypeOK
    <3>2. m_response.length \in {-1, 0, 1}
      BY <3>1, ResponseFields
    <3>3. QED
      BY <1>5, <3>2 DEF ParseBodyFails
  <2>2. r.phase = "illegal" /\ r.responses = processed
    BY <1>1, <2>1 DEF DecoderAgrees
  <2>3. pos \in pos .. Len(stream)
    BY <1>2
  <2>4. QED
    BY <1>1, <1>2, <2>2, <2>3, ErrorAgrees
<1>6. QED
  BY <1>3, <1>4, <1>5

\* A prefix stays one when more is appended.
LEMMA PrefixGrows ==
    ASSUME NEW s \in Seq(Response), NEW t \in Seq(Response), NEW res \in Response, IsPrefix(s, t)
    PROVE  IsPrefix(s, Append(t, res))
<1>1. /\ Len(s) \in Nat /\ Len(t) \in Nat /\ Len(s) <= Len(t)
      /\ SubSeq(s, 1, Len(s)) = SubSeq(t, 1, Len(s))
  BY DEF IsPrefix
<1>2. /\ Append(t, res) \in Seq(Response) /\ Len(Append(t, res)) = Len(t) + 1
      /\ \A i \in 1 .. Len(t) : Append(t, res)[i] = t[i]
  OBVIOUS
<1>3. SubSeq(Append(t, res), 1, Len(s)) = SubSeq(t, 1, Len(s))
  BY <1>1, <1>2
<1>4. QED
  BY <1>1, <1>2, <1>3 DEF IsPrefix

\* A status line without a reason is taken for legal: here the decoder and the reference part.
LEMMA Parts ==
    ASSUME TypeOK, ReadsSound, DecoderSound, LinesFit, ~disturbed, ~stretched,
           ParseStatusLine, stretched'
    PROVE  IsAhead(Read(pos))'
<1> DEFINE r == Read(pos)
<1>1. /\ Line = "short" /\ m_status = "STATUS_LINE" /\ pos' = AfterLine
      /\ UNCHANGED <<reads, processed>>
  BY DEF ParseStatusLine, sentVars, sessionVars
<1>2. pos < Len(stream)
  BY GotSent DEF ParseStatusLine, LineArrived
<1>3. r \in Reader /\ Read(AfterLine) = ReadLine(r, Line) /\ DecoderAgrees(r)
  BY <1>2, ReadNext DEF DecoderSound
<1>4. Read(pos)' = ReadLine(r, Line)
  BY <1>1, <1>3 DEF Read
<1>5. r = [phase |-> "line", response |-> NewResponse, responses |-> processed]
  BY <1>1, <1>3 DEF DecoderAgrees
<1> HIDE DEF r
<1>6. Read(pos)'.phase = "illegal" /\ Read(pos)'.responses = processed
  BY <1>1, <1>4, <1>5 DEF ReadLine, Illegal
<1>7. IsPrefix(processed, processed)
  <2>1. Len(processed) \in Nat
    BY DEF TypeOK
  <2>2. QED
    BY <2>1 DEF IsPrefix
<1>8. QED
  BY <1>1, <1>6, <1>7 DEF IsAhead

\* No step takes anything back: of the bytes, of what was made of them, of the responses.
LEMMA Onward ==
    ASSUME TypeOK, ReadsSound, Next
    PROVE  /\ pos' >= pos
           /\ stretched => stretched'
           /\ disturbed => disturbed'
           /\ processed' \in {processed, Append(processed, m_response)}
           /\ \A n \in 0 .. Len(stream) : reads'[n + 1] = reads[n + 1]
           /\ LinesFit' => LinesFit
           /\ Len(stream') >= Len(stream)
<1>0. /\ got \div 2 \in Nat /\ pos \in Nat /\ pos <= got \div 2 /\ Len(stream) \in Nat
      /\ stream \in Seq(Kinds) /\ stretched \in BOOLEAN /\ disturbed \in BOOLEAN
  BY GotSent DEF TypeOK
<1>1. CASE \E line \in Kinds : PeerSends(line)
  <2>1. PICK line \in Kinds : PeerSends(line)
    BY <1>1
  <2>2. /\ stream' = Append(stream, line)
        /\ UNCHANGED <<pos, stretched, disturbed, processed>>
    BY <2>1 DEF PeerSends, sessionVars
  <2>3. /\ Len(stream') = Len(stream) + 1
        /\ \A i \in 1 .. Len(stream) : stream'[i] = stream[i]
    BY <1>0, <2>2
  <2>4. QED
    BY <1>0, <2>1, <2>2, <2>3, SentRead DEF LinesFit
<1>2. CASE \/ (\E missing \in 0 .. 1 : OnRecvData(missing)) \/ ReadEnds \/ CloseByOther
           \/ \E fails \in BOOLEAN : SendRequest(fails)
  <2>1. /\ UNCHANGED <<stream, reads, pos, stretched, processed>>
        /\ disturbed => disturbed'
    BY <1>0, <1>2
    DEF OnRecvData, ReadEnds, CloseByOther, SendRequest, sentVars, inputVars, sessionVars
  <2>2. QED
    BY <1>0, <2>1 DEF LinesFit
<1>3. CASE ParseStep \/ ParseAfterError
  <2>1. /\ UNCHANGED <<stream, reads, disturbed, processed>>
        /\ stretched => stretched'
    BY <1>0, <1>3
    DEF ParseStep, ParseResets, ParseStatusLine, ParseStatusLineFails, ParseHeadField,
        ParseHeadEnds, ParseHeadFails, ParseLineNeedsMore, ParseLineTooLong, ParseBody,
        ParseBodyNeedsMore, ParseBodyFails, ParseAfterError, Error, NeedsMore, Returns, sentVars,
        inputVars, sessionVars
  <2>2. pos' >= pos
    <3>1. CASE Error
      BY <1>0, <3>1 DEF Error
    <3>2. CASE ParseBody
      <4>1. m_response \in Response
        BY DEF TypeOK
      <4>2. m_response.length \in {-1, 0, 1} /\ m_response.length >= 0
        BY <3>2, <4>1, ResponseFields DEF ParseBody
      <4>3. QED
        BY <1>0, <3>2, <4>2 DEF ParseBody
    <3>3. CASE \/ ParseResets \/ ParseStatusLine \/ ParseHeadField \/ ParseHeadEnds
               \/ ParseLineNeedsMore \/ ParseBodyNeedsMore \/ ParseAfterError
      BY <1>0, <3>3
      DEF ParseResets, ParseStatusLine, ParseHeadField, ParseHeadEnds, ParseLineNeedsMore,
          ParseBodyNeedsMore, ParseAfterError, NeedsMore, AfterLine
    <3>4. QED
      BY <1>3, <3>1, <3>2, <3>3
      DEF ParseStep, ParseStatusLineFails, ParseHeadFails, ParseLineTooLong, ParseBodyFails
  <2>3. QED
    BY <1>0, <2>1, <2>2 DEF LinesFit
<1>4. CASE \E sends, closes \in BOOLEAN : ProcessHttpResponse(sends, closes)
  <2>1. /\ UNCHANGED <<stream, reads, pos, stretched, disturbed>>
        /\ processed' = Append(processed, m_response)
    BY <1>4 DEF ProcessHttpResponse, sentVars, inputVars
  <2>2. QED
    BY <1>0, <2>1 DEF LinesFit
<1>5. QED
  BY <1>1, <1>2, <1>3, <1>4 DEF Next, HandlerStep

\* What is decoded of what has arrived was sent.
LEMMA WithinHalf ==
    ASSUME NEW n \in Nat, NEW g \in 0 .. 2 * n, NEW q \in 0 .. g \div 2
    PROVE  q \in 0 .. n
<1>1. g \in Nat /\ g <= 2 * n
  OBVIOUS
<1>2. g \div 2 <= n /\ g \div 2 \in Nat
  BY <1>1
<1>3. QED
  BY <1>2

\* The reference stays in error, and what it had delivered stays ahead of what comes.
LEMMA StaysAhead ==
    ASSUME TypeOK, TypeOK', ReadsSound, ReadsSound', Next,
           stretched, DecoderSound, LinesFit', ~disturbed'
    PROVE  stretched' /\ IsAhead(Read(pos))'
<1>1. /\ pos' >= pos /\ stretched' /\ LinesFit /\ ~disturbed
      /\ processed' \in {processed, Append(processed, m_response)}
      /\ \A n \in 0 .. Len(stream) : reads'[n + 1] = reads[n + 1]
      /\ Len(stream') >= Len(stream)
  BY Onward
<1>2. pos \in 0 .. Len(stream) /\ Len(stream) \in Nat /\ Read(pos) \in Reader
  <2>1. pos \in 0 .. Len(stream) /\ Len(stream) \in Nat
    BY GotSent
  <2>2. QED
    BY <2>1, ReadTyped
<1>3. pos' \in 0 .. Len(stream') /\ Len(stream') \in Nat
  <2>1. /\ got' \in 0 .. 2 * Len(stream') /\ pos' \in 0 .. got' \div 2
        /\ stream' \in Seq(Kinds)
    BY DEF TypeOK
  <2>2. Len(stream') \in Nat
    BY <2>1
  <2>3. QED
    BY <2>1, <2>2, WithinHalf
<1>4. IsAhead(Read(pos))
  BY <1>1 DEF DecoderSound
<1>5. reads'[pos + 1] = Read(pos)
  BY <1>1, <1>2 DEF Read
<1>6. reads'[pos' + 1] = reads'[pos + 1]
  <2>1. Len(reads') = Len(stream') + 1
    BY DEF ReadsSound
  <2>2. pos + 1 \in 1 .. Len(reads') /\ pos' + 1 \in 1 .. Len(reads') /\ pos + 1 <= pos' + 1
    <3>1. pos \in Nat /\ pos' \in Nat /\ pos <= pos' /\ pos' <= Len(stream')
      BY <1>1, <1>2, <1>3
    <3>2. \A a, b, n \in Nat : a <= b /\ b <= n =>
              a + 1 \in 1 .. n + 1 /\ b + 1 \in 1 .. n + 1 /\ a + 1 <= b + 1
      OBVIOUS
    <3>3. QED
      BY <1>3, <2>1, <3>1, <3>2
  <2>3. reads'[pos + 1].phase = "illegal"
    BY <1>4, <1>5 DEF IsAhead
  <2>4. QED
    BY <2>2, <2>3 DEF ReadsSound
<1>7. Read(pos)' = Read(pos)
  BY <1>5, <1>6 DEF Read
<1>8. IsPrefix(Read(pos).responses, processed')
  <2>1. /\ Read(pos).responses \in Seq(Response) /\ processed \in Seq(Response)
        /\ m_response \in Response
    BY <1>2 DEF Reader, TypeOK
  <2>2. QED
    BY <1>1, <1>4, <2>1, PrefixGrows DEF IsAhead
<1>9. QED
  BY <1>1, <1>4, <1>7, <1>8 DEF IsAhead

-----------------------------------------------------------------------------
(* What the handlers leave behind, step by step.                           *)

LEMMA ParseHandlerKept ==
    ASSUME TypeOK, BodySound, HandlerSound, ParseStep \/ ParseAfterError
    PROVE  HandlerSound'
<1>0. /\ got \div 2 \in Nat /\ pos \in Nat /\ pos <= got \div 2
      /\ m_response.length \in {-1, 0, 1} /\ m_status \in Statuses /\ disturbed \in BOOLEAN
  <2>1. m_response \in Response
    BY DEF TypeOK
  <2>2. QED
    BY <2>1, ResponseFields, GotSent DEF TypeOK, Statuses
<1>1. pc = "parse" /\ UNCHANGED <<https, asks, reading, got, m_keepAlive, processed, disturbed>>
  BY DEF ParseStep, ParseResets, ParseStatusLine, ParseStatusLineFails, ParseHeadField,
         ParseHeadEnds, ParseHeadFails, ParseLineNeedsMore, ParseLineTooLong, ParseBody,
         ParseBodyNeedsMore, ParseBodyFails, ParseAfterError, Error, NeedsMore, Returns,
         sentVars, inputVars, sessionVars
<1>2. StaysOpen' = StaysOpen /\ (StaysOpen \/ processed = <<>> \/ (~IsOpen /\ https))
  BY <1>1 DEF StaysOpen, HandlerSound
<1>3. CASE Error
  BY <1>0, <1>1, <1>2, <1>3 DEF HandlerSound, Error, Returns, Closes, IsOpen
<1>4. CASE ParseResets \/ ParseStatusLine \/ ParseHeadField \/ ParseHeadEnds
  <2>1. /\ m_status' # "ERROR" /\ pc' = "parse" /\ ended' = ended /\ m_status # "ERROR"
    BY <1>1, <1>4 DEF ParseResets, ParseStatusLine, ParseHeadField, ParseHeadEnds, sessionVars
  <2>2. QED
    BY <1>1, <1>2, <2>1 DEF HandlerSound, IsOpen
<1>5. CASE NeedsMore /\ (ParseLineNeedsMore \/ ParseBodyNeedsMore)
  <2>1. /\ m_status' = m_status /\ m_status \in {"STATUS_LINE", "HEAD_FIELDS", "BODY"}
        /\ pos' = pos /\ pos = got \div 2 /\ ended' = ended /\ m_response' = m_response
        /\ m_status = "BODY" => m_response.length = 1
    BY <1>0, <1>5 DEF ParseLineNeedsMore, ParseBodyNeedsMore, LineArrived, BodyArrived, NeedsMore,
                      Returns
  <2>2. QED
    BY <1>1, <1>2, <2>1 DEF HandlerSound, IsOpen
<1>6. CASE ParseBody \/ ParseAfterError
  <2>1. /\ pc' = "process" /\ ended' = ended
        /\ \/ m_status' = "DONE" /\ m_status = "BODY"
           \/ m_status' = "ERROR" /\ m_status = "ERROR"
    BY <1>6 DEF ParseBody, ParseAfterError, Returns
  <2>2. QED
    BY <1>1, <1>2, <2>1 DEF HandlerSound, IsOpen
<1>7. QED
  BY <1>3, <1>4, <1>5, <1>6
  DEF ParseStep, ParseStatusLineFails, ParseHeadFails, ParseLineTooLong, ParseBodyFails,
      ParseLineNeedsMore, ParseBodyNeedsMore

LEMMA HandlerKept ==
    ASSUME TypeOK, BodySound, HandlerSound, Next
    PROVE  HandlerSound'
<1>0. m_status \in Statuses /\ disturbed \in BOOLEAN /\ m_keepAlive \in BOOLEAN /\ asks \in BOOLEAN
  BY DEF TypeOK, Statuses
<1>1. CASE \E line \in Kinds : PeerSends(line)
  BY <1>1 DEF HandlerSound, PeerSends, sessionVars, IsOpen, StaysOpen
<1>2. CASE \E missing \in 0 .. 1 : OnRecvData(missing)
  BY <1>2 DEF HandlerSound, BodySound, OnRecvData, sessionVars, IsOpen, StaysOpen
<1>3. CASE ReadEnds \/ CloseByOther
  BY <1>3 DEF HandlerSound, ReadEnds, CloseByOther, sessionVars, IsOpen, StaysOpen
<1>4. CASE \E fails \in BOOLEAN : SendRequest(fails)
  <2>1. /\ UNCHANGED <<https, asks, reading, got, pos, m_status, pc, m_keepAlive, processed>>
        /\ pc = "idle" /\ IsOpen /\ ended' \in {"no", "other"}
        /\ ~disturbed' => ~disturbed /\ m_response' = m_response
    BY <1>0, <1>4 DEF SendRequest, sentVars, inputVars, IsOpen
  <2>2. StaysOpen' = StaysOpen /\ m_status # "DONE" /\ m_status # "ERROR"
        /\ (StaysOpen \/ processed = <<>>)
    BY <2>1 DEF StaysOpen, HandlerSound, BodySound
  <2>3. QED
    BY <2>1, <2>2 DEF HandlerSound
<1>5. CASE ParseStep \/ ParseAfterError
  BY <1>5, ParseHandlerKept
<1>6. CASE \E sends, closes \in BOOLEAN : ProcessHttpResponse(sends, closes)
  <2>1. PICK sends, closes \in BOOLEAN : ProcessHttpResponse(sends, closes)
    BY <1>6
  <2>2. /\ pc = "process" /\ UNCHANGED <<https, asks, reading, m_status>>
        /\ StaysOpen' = StaysOpen
        /\ pc' = IF StaysOpen THEN "parse" ELSE "idle"
        /\ ended' \in {ended, "other", "done"} /\ (IsOpen' => IsOpen /\ StaysOpen)
        /\ ended' = "illegal" => ended = "illegal"
        /\ StaysOpen \in BOOLEAN
    BY <1>0, <2>1 DEF ProcessHttpResponse, NextTurn, Closes, IsOpen, StaysOpen, sentVars, inputVars
  <2>3. /\ processed \in Seq(Response) /\ m_response \in Response
        /\ processed' = Append(processed, m_response)
    BY <2>1 DEF ProcessHttpResponse, TypeOK
  <2>4. /\ processed' # <<>>
        /\ processed = <<>> => Len(processed') = 1
    BY <2>3
  <2>5. /\ m_status \in {"DONE", "ERROR"} /\ (m_status = "ERROR" => https /\ ~IsOpen)
        /\ StaysOpen \/ processed = <<>> \/ (~IsOpen /\ https)
    BY <2>2 DEF BodySound, HandlerSound
  <2>6. /\ m_status' = "ERROR" => https' \/ (pc' = "idle" /\ pos' = got' \div 2)
        /\ ended' = "illegal" => m_status' = "ERROR"
        /\ ~https' => ~reading'
    BY <2>2, <2>5 DEF HandlerSound
  <2>7. /\ m_status' \in {"DONE", "ERROR"}
        /\ pc' = "idle" /\ m_status' = "DONE" => ~StaysOpen' /\ ~IsOpen' /\ processed' # <<>>
    BY <2>2, <2>4, <2>5
  <2>8. StaysOpen' \/ (~IsOpen' /\ https')
        \/ (~IsOpen' /\ pc' = "idle" /\ m_status' = "DONE" /\ Len(processed') = 1)
    BY <2>2, <2>4, <2>5
  <2>9. QED
    BY <2>6, <2>7, <2>8 DEF HandlerSound
<1>7. QED
  BY <1>1, <1>2, <1>3, <1>4, <1>5, <1>6 DEF Next, HandlerStep

\* Every step of the decoder, and of the others, keeps it where the reference is.
LEMMA DecoderKept ==
    ASSUME TypeOK, TypeOK', BodySound, ReadsSound, ReadsSound', HandlerSound, DecoderSound, Next
    PROVE  DecoderSound'
<1>s. CASE stretched
  BY <1>s, StaysAhead DEF DecoderSound
<1> SUFFICES ASSUME ~stretched
             PROVE  DecoderSound'
  BY <1>s
<1>0. disturbed \in BOOLEAN
  BY DEF TypeOK
<1>1. CASE \E line \in Kinds : PeerSends(line)
  <2>1. PICK line \in Kinds : PeerSends(line)
    BY <1>1
  <2>2. /\ stream \in Seq(Kinds) /\ Len(stream) \in Nat /\ stream' = Append(stream, line)
        /\ UNCHANGED <<https, got, stretched, pos, m_status, m_response, processed, pc, disturbed>>
    BY <2>1 DEF TypeOK, PeerSends, sessionVars
  <2>3. pos \in 0 .. Len(stream)
    BY GotSent
  <2>4. reads'[pos + 1] = reads[pos + 1]
    BY <2>1, <2>3, SentRead
  <2>5. LinesFit' => LinesFit
    <3>1. /\ Len(stream') = Len(stream) + 1
          /\ \A i \in 1 .. Len(stream) : stream'[i] = stream[i]
      BY <2>2
    <3>2. QED
      BY <2>2, <3>1 DEF LinesFit
  <2>6. QED
    BY <2>2, <2>4, <2>5 DEF DecoderSound, DecoderAgrees, Read
<1>2. CASE \E missing \in 0 .. 1 : OnRecvData(missing)
  <2>1. /\ m_status = "ERROR" => https
        /\ UNCHANGED <<https, stream, reads, stretched, pos, m_status, m_response, processed,
                       disturbed>>
        /\ pc = "idle" /\ pc' = "parse"
    BY <1>2 DEF HandlerSound, BodySound, OnRecvData, sessionVars
  <2>2. QED
    BY <2>1 DEF DecoderSound, DecoderAgrees, Read, LinesFit
<1>3. CASE ReadEnds \/ CloseByOther \/ ParseLineNeedsMore \/ ParseBodyNeedsMore
  <2>1. /\ UNCHANGED <<https, stream, reads, got, stretched, pos, m_status, m_response, processed,
                       disturbed>>
        /\ pc' = "process" <=> pc = "process"
    BY <1>3 DEF ReadEnds, CloseByOther, ParseLineNeedsMore, ParseBodyNeedsMore, NeedsMore, Returns,
                sentVars, inputVars, sessionVars
  <2>2. QED
    BY <1>0, <2>1, SameDecoder
<1>4. CASE \E fails \in BOOLEAN : SendRequest(fails)
  <2>1. /\ UNCHANGED <<https, stream, reads, got, stretched, pos, m_status, processed>> /\ pc' = pc
        /\ disturbed' = (disturbed \/ m_response' # m_response)
    BY <1>4 DEF SendRequest, sentVars, inputVars
  <2>2. QED
    BY <1>0, <2>1, SameDecoder
<1>5. CASE ParseStep \/ ParseAfterError
  <2> SUFFICES ASSUME LinesFit', ~disturbed'
               PROVE  IF stretched' THEN IsAhead(Read(pos))' ELSE DecoderAgrees(Read(pos))'
    BY DEF DecoderSound
  <2>1. LinesFit /\ ~disturbed /\ DecoderAgrees(Read(pos)) /\ https' = https
    <3>1. UNCHANGED <<stream, https, disturbed>>
      BY <1>5 DEF ParseStep, ParseResets, ParseStatusLine, ParseStatusLineFails, ParseHeadField,
         ParseHeadEnds, ParseHeadFails, ParseLineNeedsMore, ParseLineTooLong, ParseBody,
         ParseBodyNeedsMore, ParseBodyFails, ParseAfterError, Error, NeedsMore, Returns,
         sentVars, inputVars, sessionVars
    <3>2. QED
      BY <3>1 DEF LinesFit, DecoderSound
  <2>2. CASE ParseResets
    BY <2>1, <2>2
    DEF ParseResets, Reset, DecoderAgrees, Read, sentVars, inputVars, sessionVars
  <2>3. CASE ParseStatusLine \/ ParseHeadField \/ ParseHeadEnds
    <3>1. CASE stretched'
      <4>1. ParseStatusLine
        BY <2>3, <3>1 DEF ParseHeadField, ParseHeadEnds, inputVars
      <4>2. QED
        BY <2>1, <3>1, <4>1, Parts
    <3>2. CASE ~stretched'
      BY <2>1, <2>3, <3>2, HeadAgrees
    <3>3. QED
      BY <3>1, <3>2
  <2>4. CASE ParseBody
    BY <2>1, <2>4, BodyAgrees DEF ParseBody, Returns, inputVars
  <2>5. CASE ParseStatusLineFails \/ ParseHeadFails \/ ParseLineTooLong \/ ParseBodyFails
    BY <2>1, <2>5, ErrorSound
    DEF ParseStatusLineFails, ParseHeadFails, ParseLineTooLong, ParseBodyFails, Error, Returns,
        inputVars
  <2>6. CASE ParseLineNeedsMore \/ ParseBodyNeedsMore
    BY <1>3, <2>6 DEF DecoderSound
  <2>7. CASE ParseAfterError
    <3>1. m_status' = "ERROR" /\ https /\ stretched' = stretched
      BY <2>7 DEF ParseAfterError, HandlerSound, Returns, inputVars
    <3>2. QED
      BY <2>1, <3>1 DEF DecoderAgrees
  <2>8. QED
    BY <1>5, <2>2, <2>3, <2>4, <2>5, <2>6, <2>7 DEF ParseStep
<1>6. CASE \E sends, closes \in BOOLEAN : ProcessHttpResponse(sends, closes)
  <2>1. /\ UNCHANGED <<https, stream, reads, got, stretched, pos, m_status, disturbed>>
        /\ processed' = Append(processed, m_response) /\ pc = "process" /\ pc' # "process"
        /\ m_status \in {"DONE", "ERROR"} /\ (m_status = "ERROR" => https)
    BY <1>6 DEF ProcessHttpResponse, NextTurn, sentVars, inputVars, HandlerSound, BodySound
  <2>2. QED
    BY <2>1 DEF DecoderSound, DecoderAgrees, Read, LinesFit
<1>7. QED
  BY <1>1, <1>2, <1>3, <1>4, <1>5, <1>6 DEF Next, HandlerStep

\* The lines sent and read are those of the reference, whatever else happens.
LEMMA ReadsKept ==
    ASSUME TypeOK, ReadsSound, Next
    PROVE  ReadsSound'
<1>1. CASE \E line \in Kinds : PeerSends(line)
  BY <1>1, SentRead
<1>2. CASE ~ \E line \in Kinds : PeerSends(line)
  <2>1. UNCHANGED <<stream, reads>>
    BY <1>2 DEF Next, HandlerStep, ParseStep, OnRecvData, ReadEnds, CloseByOther, SendRequest,
        ProcessHttpResponse, ParseAfterError, ParseResets, ParseStatusLine, ParseStatusLineFails,
        ParseHeadField, ParseHeadEnds, ParseHeadFails, ParseLineNeedsMore, ParseLineTooLong,
        ParseBody, ParseBodyNeedsMore, ParseBodyFails, Error, NeedsMore, Returns, sentVars,
        inputVars
  <2>2. QED
    BY <2>1 DEF ReadsSound
<1>3. QED
  BY <1>1, <1>2

-----------------------------------------------------------------------------
IInv == TypeOK /\ BodySound /\ ReadsSound /\ HandlerSound /\ DecoderSound

LEMMA InitIInv == Init => IInv
<1> SUFFICES ASSUME Init
             PROVE  IInv
  OBVIOUS
<1>1. /\ https \in BOOLEAN /\ asks \in BOOLEAN /\ m_keepAlive \in BOOLEAN
      /\ stream = <<>> /\ reads = <<NewReader>> /\ got = 0 /\ pos = 0 /\ stretched = FALSE
      /\ m_status = "STATUS_LINE"
      /\ m_response = NewResponse /\ ended = "no" /\ reading = FALSE /\ pc = "idle"
      /\ processed = <<>> /\ disturbed = FALSE
  BY DEF Init
<1>2. stream \in Seq(Kinds) /\ Len(stream) = 0 /\ got \div 2 = 0
  BY <1>1
<1>3. processed \in Seq(Response) /\ Len(m_response.body) = 0
  BY <1>1, NewResponseOK
<1>4. got \in 0 .. 2 * Len(stream) /\ pos \in 0 .. got \div 2
  BY <1>1, <1>2
<1>5. NewReader \in Reader
  <2>1. <<>> \in Seq(Response)
    OBVIOUS
  <2>2. QED
    BY <2>1, NewResponseOK DEF NewReader, Reader
<1>6. reads \in Seq(Reader) /\ Len(reads) = 1 /\ reads[1] = NewReader
  BY <1>1, <1>5
<1>7. TypeOK
  BY <1>1, <1>2, <1>3, <1>4, <1>6, NewResponseOK DEF TypeOK
<1>8. BodySound
  BY <1>1, <1>3, NewResponseOK DEF BodySound
<1>9. ReadsSound
  BY <1>2, <1>6 DEF ReadsSound
<1>10. HandlerSound
  BY <1>1, <1>2 DEF HandlerSound
<1>11. DecoderSound
  BY <1>1, <1>6 DEF DecoderSound, DecoderAgrees, Read, NewReader
<1>12. QED
  BY <1>7, <1>8, <1>9, <1>10, <1>11 DEF IInv

LEMMA NextTyped ==
    ASSUME TypeOK, BodySound, ReadsSound, Next
    PROVE  TypeOK' /\ BodySound'
<1>1. CASE \/ \E line \in Kinds : PeerSends(line)
           \/ \E missing \in 0 .. 1 : OnRecvData(missing)
           \/ ReadEnds \/ CloseByOther
           \/ \E fails \in BOOLEAN : SendRequest(fails)
  BY <1>1, IdleStep
<1>2. CASE ParseStatusLine \/ ParseHeadField \/ ParseHeadEnds
  <2>1. pc = "parse"
    BY <1>2 DEF ParseStatusLine, ParseHeadField, ParseHeadEnds
  <2>2. QED
    BY <1>2, <2>1, LineTyped, ParseBodySound
<1>3. CASE \/ ParseStatusLineFails \/ ParseHeadFails \/ ParseLineTooLong \/ ParseBodyFails
           \/ ParseLineNeedsMore \/ ParseBodyNeedsMore \/ ParseAfterError
  <2>1. /\ pc = "parse"
        /\ \/ Error \/ ParseAfterError
           \/ NeedsMore /\ m_status \in {"STATUS_LINE", "HEAD_FIELDS", "BODY"}
    BY <1>3 DEF ParseStatusLineFails, ParseHeadFails, ParseLineTooLong, ParseBodyFails,
                ParseLineNeedsMore, ParseBodyNeedsMore, ParseAfterError
  <2>2. QED
    BY <2>1, ReturnTyped, ParseBodySound
<1>4. CASE ParseBody
  BY <1>4, BodyTyped
<1>5. CASE ParseResets
  <2>1. pc = "parse"
    BY <1>5 DEF ParseResets
  <2>2. QED
    BY <1>5, <2>1, ResetTyped, ParseBodySound
<1>6. CASE \E sends, closes \in BOOLEAN : ProcessHttpResponse(sends, closes)
  BY <1>6, ProcessTyped
<1>7. QED
  BY <1>1, <1>2, <1>3, <1>4, <1>5, <1>6 DEF Next, HandlerStep, ParseStep

LEMMA NextIInv == IInv /\ [Next]_vars => IInv'
<1> SUFFICES ASSUME TypeOK, BodySound, ReadsSound, HandlerSound, DecoderSound, [Next]_vars
             PROVE  TypeOK' /\ BodySound' /\ ReadsSound' /\ HandlerSound' /\ DecoderSound'
  BY DEF IInv
<1>1. CASE Next
  BY <1>1, NextTyped, ReadsKept, HandlerKept, DecoderKept
<1>2. CASE UNCHANGED vars
  BY <1>2 DEF vars, TypeOK, BodySound, IsOpen, StaysOpen, ReadsSound, HandlerSound, DecoderSound,
              DecoderAgrees, IsAhead, Read, LinesFit
<1>3. QED
  BY <1>1, <1>2

\* The inductive invariant holds for any number of lines and any way of cutting them.
THEOREM Invariance == SafeSpec => []IInv
<1>1. Init => IInv
  BY InitIInv
<1>2. IInv /\ [Next]_vars => IInv'
  BY NextIInv
<1>3. QED
  BY <1>1, <1>2, PTL DEF SafeSpec

\* OnRecvData takes no byte that has not arrived, over TCP and over SSL, and every variable
\* keeps its type.
THEOREM TypeCorrect == SafeSpec => []TypeOK
<1>1. IInv => TypeOK
  BY DEF IInv
<1>2. QED
  BY <1>1, Invariance, PTL

\* Back in the event loop, m_response of an open session has no body: what SendRequest sends
\* there is no response that was received.
THEOREM NoOldBody == SafeSpec => []RequestsCarryNoOldBody
<1>1. IInv => RequestsCarryNoOldBody
  <2>1. SUFFICES ASSUME TypeOK, BodySound, IsOpen, pc = "idle"
                 PROVE  m_response.body = <<>> /\ m_status # "DONE"
    BY DEF IInv, RequestsCarryNoOldBody
  <2>2. m_status \in {"STATUS_LINE", "HEAD_FIELDS", "BODY", "DONE", "ERROR"}
    BY <2>1 DEF TypeOK
  <2>3. QED
    BY <2>1, <2>2 DEF BodySound
<1>2. QED
  BY <1>1, Invariance, PTL

\* OnRecvData and Parse: of a legal stream the responses given to ProcessHttpResponse are
\* those of the bytes received and no error is found, or the first of them where the
\* connection is not kept alive, however many lines there are and however the reads cut them,
\* and whatever requests are sent meanwhile, but for one that finds a content-length half
\* received.  Of an illegal one they are those ahead of the first illegal line, and it is
\* found to be illegal; unless the decoder has taken a status line without a reason for
\* legal, and then those ahead of that line are the first it has processed.
THEOREM ResponsesAreThoseReceived == SafeSpec => []ResponsesAreTheBytes
<1>1. IInv => ResponsesAreTheBytes
  <2> DEFINE r == Read(got \div 2)
  <2> SUFFICES ASSUME TypeOK, BodySound, ReadsSound, HandlerSound, DecoderSound,
                      pc = "idle", LinesFit, ~disturbed, IsOpen \/ ~https
               PROVE  IF ~StaysOpen /\ r.responses # <<>>
                      THEN processed = <<r.responses[1]>> /\ ~IsOpen
                      ELSE /\ r.phase # "illegal" =>
                                  processed = r.responses /\ m_status # "ERROR"
                                  /\ ended # "illegal"
                           /\ r.phase = "illegal" =>
                                  /\ IsPrefix(r.responses, processed)
                                  /\ ~stretched => processed = r.responses /\ m_status = "ERROR"
    BY DEF IInv, ResponsesAreTheBytes
  <2>0. /\ m_status \in Statuses /\ processed \in Seq(Response)
        /\ ended = "illegal" => m_status = "ERROR"
    BY DEF TypeOK, Statuses, HandlerSound
  <2>1. /\ pos + 1 \in 1 .. Len(reads) /\ got \div 2 + 1 \in 1 .. Len(reads)
        /\ pos + 1 <= got \div 2 + 1 /\ got \div 2 \in 0 .. Len(stream)
    BY GotSent DEF ReadsSound
  <2>2. /\ Read(pos).phase = "illegal" => r = Read(pos)
        /\ Read(pos).responses # <<>> =>
              r.responses # <<>> /\ r.responses[1] = Read(pos).responses[1]
    BY <2>1 DEF ReadsSound, Read
  <2>3. m_status # "DONE" => pos = got \div 2 /\ (StaysOpen \/ processed = <<>>)
    BY DEF HandlerSound, BodySound
  <2>4. m_status = "DONE" => ~StaysOpen /\ ~IsOpen /\ Len(processed) = 1
    BY DEF HandlerSound
  <2>5. CASE stretched
    <3>1. r.phase = "illegal" /\ IsPrefix(r.responses, processed)
      BY <2>2, <2>5 DEF DecoderSound, IsAhead
    <3>2. r.responses \in Seq(Response)
      BY <2>1, ReadTyped DEF Reader
    <3>3. ASSUME ~StaysOpen, r.responses # <<>>
          PROVE  processed = <<r.responses[1]>> /\ ~IsOpen
      <4>1. /\ Len(r.responses) >= 1 /\ Len(r.responses) <= Len(processed)
            /\ SubSeq(r.responses, 1, Len(r.responses)) = SubSeq(processed, 1, Len(r.responses))
        BY <3>1, <3>2, <3>3 DEF IsPrefix
      <4>2. Len(processed) = 1 /\ ~IsOpen
        BY <2>0, <2>3, <2>4, <3>3, <4>1
      <4>3. r.responses = processed
        BY <2>0, <3>2, <4>1, <4>2
      <4>4. processed = <<processed[1]>>
        BY <2>0, <4>2
      <4>5. QED
        BY <4>2, <4>3, <4>4
    <3>4. QED
      BY <2>5, <3>1, <3>3
  <2>6. CASE ~stretched /\ m_status = "DONE"
    <3>1. Read(pos).responses = processed
      BY <2>6 DEF DecoderSound, DecoderAgrees
    <3>2. processed = <<processed[1]>> /\ processed # <<>>
      BY <2>0, <2>4, <2>6
    <3>3. QED
      BY <2>2, <2>4, <2>6, <3>1, <3>2
  <2>7. CASE ~stretched /\ m_status # "DONE"
    <3>1. DecoderAgrees(r)
      BY <2>3, <2>7 DEF DecoderSound
    <3>2. r.responses = processed /\ (m_status = "ERROR" <=> r.phase = "illegal")
      <4>1. CASE m_status = "ERROR"
        BY <3>1, <4>1 DEF BodySound, DecoderAgrees
      <4>2. CASE m_status # "ERROR"
        <5>1. /\ m_status \in {"STATUS_LINE", "HEAD_FIELDS", "BODY"}
              /\ m_status = "BODY" => m_response.length = 1
          BY <2>0, <2>7, <4>2 DEF HandlerSound, Statuses
        <5>2. r.responses = processed /\ r.phase \in {"line", "head", "body"}
          BY <3>1, <5>1 DEF DecoderAgrees
        <5>3. QED
          BY <4>2, <5>2
      <4>3. QED
        BY <4>1, <4>2
    <3>3. IsPrefix(processed, processed)
      <4>1. Len(processed) \in Nat
        BY <2>0
      <4>2. QED
        BY <4>1 DEF IsPrefix
    <3>4. QED
      BY <2>0, <2>3, <2>7, <3>2, <3>3
  <2>8. QED
    BY <2>5, <2>6, <2>7
<1>2. QED
  BY <1>1, Invariance, PTL

-----------------------------------------------------------------------------
(* OnRecvData's loop comes to an end.                                      *)

\* How far the loop is from its next line or from its end, by where in its body it is.
LoopRank ==
    CASE pc = "idle" -> 0
      [] pc = "process" -> 3
      [] pc = "parse" -> CASE m_status = "BODY" -> 4 [] m_status = "DONE" -> 2 [] OTHER -> 1

\* The lines that are left weigh more than a turn of the loop.
LoopVariant == 5 * (got \div 2 - pos) + LoopRank

\* Over TCP, each step of the handler brings its end nearer, and nothing else happens.
HandlerNearsItsEnd == pc # "idle" /\ ~https => LoopVariant' < LoopVariant

\* A response has at least two lines of its own, those of the one in hand included.
LinesOfResponses ==
    2 * Len(processed) + (CASE m_status = "HEAD_FIELDS" -> 1
                            [] m_status = "BODY" \/ pc = "process" -> 2
                            [] OTHER -> 0)

LinesSpent == ~https => LinesOfResponses <= pos

SentWithinBound == Len(stream) <= MaxLines

\* So the bound in ProcessHttpResponse never holds the handler up, and it never runs on in
\* state ERROR.
HandlerGoesOn ==
    ~https =>
        /\ pc = "process" => Len(processed) < MaxLines
        /\ pc = "parse" => m_status # "ERROR"

LEMMA LoopNumbers ==
    ASSUME TypeOK
    PROVE  /\ got \div 2 \in Nat /\ pos \in Nat /\ pos <= got \div 2 /\ got \div 2 <= Len(stream)
           /\ Len(stream) \in Nat /\ Len(processed) \in Nat
           /\ LoopRank \in 0 .. 4 /\ LinesOfResponses \in Nat
           /\ m_response.length \in {-1, 0, 1} /\ m_status \in Statuses
<1>1. got \div 2 \in Nat /\ pos \in Nat /\ pos <= got \div 2 /\ got \div 2 <= Len(stream)
      /\ Len(stream) \in Nat
  <2>1. got \in Nat /\ got <= 2 * Len(stream) /\ Len(stream) \in Nat /\ pos \in 0 .. got \div 2
    BY DEF TypeOK
  <2>2. QED
    BY <2>1
<1>2. m_status \in Statuses /\ Len(processed) \in Nat
  BY DEF TypeOK, Statuses
<1>3. m_response.length \in {-1, 0, 1}
  BY ResponseFields DEF TypeOK
<1>4. LoopRank \in 0 .. 4
  BY DEF LoopRank, TypeOK
<1>5. LinesOfResponses \in Nat
  BY <1>2 DEF LinesOfResponses
<1>6. QED
  BY <1>1, <1>2, <1>3, <1>4, <1>5

\* One lemma for both: what a step of the handler does to the variant and to the lines.
LEMMA HandlerTurns ==
    ASSUME TypeOK, BodySound, HandlerSound, LinesSpent, ~https, HandlerStep
    PROVE  LoopVariant' < LoopVariant /\ LinesSpent'
<1>0. /\ got \div 2 \in Nat /\ pos \in Nat /\ pos <= got \div 2
      /\ Len(processed) \in Nat /\ m_response.length \in {-1, 0, 1}
      /\ LinesOfResponses <= pos
  BY LoopNumbers DEF LinesSpent
<1>1. CASE ParseResets
  BY <1>0, <1>1 DEF ParseResets, sentVars, inputVars, sessionVars, LoopVariant, LoopRank,
                    LinesSpent, LinesOfResponses
<1>2. CASE ParseStatusLine \/ ParseHeadField \/ ParseHeadEnds
  BY <1>0, <1>2 DEF ParseStatusLine, ParseHeadField, ParseHeadEnds, AfterLine, sentVars, inputVars,
                    sessionVars, LoopVariant, LoopRank, LinesSpent, LinesOfResponses
<1>3. CASE Error /\ pc = "parse" /\ m_status \in {"STATUS_LINE", "HEAD_FIELDS", "BODY"}
  BY <1>0, <1>3 DEF Error, Returns, sentVars, inputVars, LoopVariant, LoopRank, LinesSpent,
      LinesOfResponses
<1>4. CASE ParseLineNeedsMore \/ ParseBodyNeedsMore
  BY <1>0, <1>4 DEF ParseLineNeedsMore, ParseBodyNeedsMore, NeedsMore, Returns, sentVars, inputVars,
                    LoopVariant, LoopRank, LinesSpent, LinesOfResponses
<1>5. CASE ParseBody
  BY <1>0, <1>5 DEF ParseBody, Returns, sentVars, inputVars, LoopVariant, LoopRank, LinesSpent,
                    LinesOfResponses
<1>6. CASE ParseAfterError
  BY <1>6 DEF ParseAfterError, HandlerSound
<1>7. CASE \E sends, closes \in BOOLEAN : ProcessHttpResponse(sends, closes)
  <2>1. /\ pc = "process" /\ pc' \in {"parse", "idle"}
        /\ processed' = Append(processed, m_response) /\ UNCHANGED <<got, pos, m_status, https>>
    BY <1>7 DEF ProcessHttpResponse, NextTurn, sentVars, inputVars
  <2>2. m_status = "DONE"
    BY <2>1 DEF BodySound, HandlerSound
  <2>3. Len(processed') = Len(processed) + 1
    BY <2>1 DEF TypeOK
  <2>4. QED
    BY <1>0, <2>1, <2>2, <2>3 DEF LoopVariant, LoopRank, LinesSpent, LinesOfResponses
<1>8. QED
  BY <1>1, <1>2, <1>3, <1>4, <1>5, <1>6, <1>7
  DEF HandlerStep, ParseStep, ParseStatusLineFails, ParseHeadFails, ParseLineTooLong, ParseBodyFails

\* Nothing else happens before the thread is in the event loop again.
LEMMA OthersWait ==
    ASSUME TypeOK, LinesSpent, ~https, Next, ~HandlerStep
    PROVE  pc = "idle" /\ ~https' /\ LinesSpent'
<1>1. LinesOfResponses <= pos /\ pc = "idle"
  BY DEF LinesSpent, Next, PeerSends, OnRecvData, ReadEnds, CloseByOther, SendRequest
<1>2. UNCHANGED <<https, pos, processed, m_status>> /\ pc' # "process"
  BY <1>1 DEF Next, PeerSends, OnRecvData, ReadEnds, CloseByOther, SendRequest, sentVars,
      inputVars, sessionVars
<1>3. QED
  BY <1>1, <1>2 DEF LinesSpent, LinesOfResponses

LEMMA BoundKept ==
    ASSUME TypeOK, SentWithinBound, [Next]_vars
    PROVE  SentWithinBound' /\ https' = https
<1>1. CASE \E line \in Kinds : PeerSends(line)
  BY <1>1, HttpAssumption DEF PeerSends, SentWithinBound, TypeOK
<1>2. CASE ~\E line \in Kinds : PeerSends(line)
  <2>1. UNCHANGED <<stream, https>>
    BY <1>2 DEF Next, HandlerStep, ParseStep, OnRecvData, ReadEnds, CloseByOther, SendRequest,
        ProcessHttpResponse, ParseAfterError, ParseResets, ParseStatusLine, ParseStatusLineFails,
        ParseHeadField, ParseHeadEnds, ParseHeadFails, ParseLineNeedsMore, ParseLineTooLong,
        ParseBody, ParseBodyNeedsMore, ParseBodyFails, Error, NeedsMore, Returns, sentVars,
        inputVars, vars
  <2>2. QED
    BY <2>1 DEF SentWithinBound
<1>3. QED
  BY <1>1, <1>2

\* OnRecvData's loop: over TCP every step of it lowers a natural number, and until it is in
\* the event loop again it can take one.  With the fairness of Spec this is why OnRecvData
\* returns, for any number of lines.
THEOREM OnRecvDataComesToAnEnd ==
    SafeSpec => [](LoopVariant \in Nat /\ HandlerGoesOn) /\ [][HandlerNearsItsEnd]_vars
<1> DEFINE Inv == IInv /\ LinesSpent /\ SentWithinBound
<1>1. Init => Inv
  <2> SUFFICES ASSUME Init PROVE IInv /\ LinesSpent /\ SentWithinBound
    OBVIOUS
  <2>1. stream = <<>> /\ processed = <<>> /\ pos = 0 /\ m_status = "STATUS_LINE" /\ pc = "idle"
    BY DEF Init
  <2>2. Len(stream) = 0 /\ Len(processed) = 0
    BY <2>1
  <2>3. LinesOfResponses = 0
    BY <2>1, <2>2 DEF LinesOfResponses
  <2>4. QED
    BY <2>1, <2>2, <2>3, InitIInv, HttpAssumption DEF LinesSpent, SentWithinBound
<1>2. Inv /\ [Next]_vars => Inv' /\ (HandlerNearsItsEnd \/ UNCHANGED vars)
  <2> SUFFICES ASSUME Inv, [Next]_vars
               PROVE  Inv' /\ (HandlerNearsItsEnd \/ UNCHANGED vars)
    OBVIOUS
  <2>1. TypeOK /\ BodySound /\ HandlerSound /\ IInv' /\ SentWithinBound' /\ https' = https
    BY NextIInv, BoundKept DEF IInv
  <2>2. CASE https
    BY <2>1, <2>2 DEF HandlerNearsItsEnd, LinesSpent
  <2>3. CASE ~https /\ HandlerStep
    BY <2>1, <2>3, HandlerTurns DEF HandlerNearsItsEnd
  <2>4. CASE ~https /\ Next /\ ~HandlerStep
    BY <2>1, <2>4, OthersWait DEF HandlerNearsItsEnd
  <2>5. CASE UNCHANGED vars
    BY <2>1, <2>5 DEF vars, LinesSpent, LinesOfResponses
  <2>6. QED
    BY <2>2, <2>3, <2>4, <2>5
<1>3. Inv => LoopVariant \in Nat /\ HandlerGoesOn
  <2> SUFFICES ASSUME Inv PROVE LoopVariant \in Nat /\ HandlerGoesOn
    OBVIOUS
  <2>1. TypeOK /\ BodySound /\ HandlerSound
    BY DEF IInv
  <2>2. LoopVariant \in Nat
    BY <2>1, LoopNumbers DEF LoopVariant
  <2>3. ASSUME ~https, pc = "process"
        PROVE  Len(processed) < MaxLines
    <3>1. m_status = "DONE" /\ LinesOfResponses <= pos
      BY <2>1, <2>3 DEF BodySound, HandlerSound, LinesSpent
    <3>2. 2 * Len(processed) + 2 <= pos
      BY <2>3, <3>1 DEF LinesOfResponses
    <3>3. QED
      BY <2>1, <3>2, LoopNumbers, HttpAssumption DEF SentWithinBound
  <2>4. QED
    BY <2>1, <2>2, <2>3 DEF HandlerGoesOn, HandlerSound
<1>4. QED
  BY <1>1, <1>2, <1>3, PTL DEF SafeSpec
=============================================================================
