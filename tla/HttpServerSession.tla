-------------------------- MODULE HttpServerSession --------------------------
(***************************************************************************)
(* HttpServerSession (and HttpsServerSession, the same code on SslSession)  *)
(* with its HttpRequestDecoder: OnRecvData appends what was read and calls  *)
(* Parse until it needs more.  The application answers a request inside    *)
(* ProcessHttpRequest or later, at once or in chunks, one after the other. *)
(*                                                                         *)
(* The peer's bytes are lines, whose kind is all the decoder looks at, and *)
(* a read may end inside a line: got counts half lines, so that with got   *)
(* odd the CRLF of the last line is still to come.  m_recvBuf is what is   *)
(* between pos, in lines, and got.  A body of content-length 1 is one line. *)
(*                                                                         *)
(* ParseRequestLine looks for the two spaces of the request line in all of *)
(* m_recvBuf, and takes for the version what is between the second one and *)
(* the CRLF, or all the rest where that space is behind the CRLF.  So what *)
(* becomes of a line with one space depends on how much more has arrived.  *)
(*                                                                         *)
(* Over TCP a closed session reads no more.  Over SSL OnRead's loop goes   *)
(* on with what OpenSSL still holds (SslSession.tla, ReadGivesRecord).     *)
(***************************************************************************)
EXTENDS Integers, SequencesExt

CONSTANT MaxLines    \* BOUND on the lines the peer sends, and on the responses

ASSUME HttpAssumption == MaxLines \in Nat

\* req: a legal request line; half: a legal method and one space; ka: connection: keep-alive;
\* len1, lenbad: content-length 1, and one that is negative or too large; ver: another head
\* field, whose first space HTTP/1.1 follows; long: a legal request line or a head field,
\* longer than the limits; bad: illegal wherever it comes; empty: CRLF alone.
Kinds == {"req", "half", "ka", "len1", "lenbad", "ver", "long", "bad", "empty"}
Fields == {"ka", "len1", "lenbad", "ver", "long"}

\* Those that are written with a space.
Spaced == {"req", "half", "ka", "len1", "ver", "long"}

VARIABLES
    https,                      \* the session is an HttpsServerSession
    stream, got, pos,           \* sent, received (half lines), and decoded
    stretched,                  \* history: a request line with one space was taken for legal
    reads,                      \* history: what the reference makes of the lines sent, see below
    m_status,                   \* EHttpRequestDecodeStatus
    m_request,                  \* its connection and content-length fields, and its body
    m_keepAlive, m_sentClose,
    pending,                    \* a response waits for a WRITE event
    ended,                      \* why the session was closed
    reading,                    \* OnRead's SSL_read loop has more to give
    pc,                         \* OnRecvData: "parse", "process" (Parse gave 0), "app" (callback)
    processed,                  \* the requests given to ProcessHttpRequest, in order
    owed,                       \* how many of them have no response, or not all of it
    chunked,                    \* what the head of a response not yet ended said: close or not
    saidClose                   \* history: a whole response said connection: close

vars == <<https, stream, reads, got, stretched, pos, m_status, m_request, m_keepAlive,
          m_sentClose, pending, ended, reading, pc, processed, owed, chunked, saidClose>>
sentVars == <<https, stream, reads, got, reading>>
inputVars == <<sentVars, stretched>>
connVars == <<m_sentClose, pending, ended>>
appVars == <<processed, owed, chunked, saidClose>>

Request == [keepAlive : BOOLEAN, length : {-1, 0, 1}, body : Seq(Kinds)]
NewRequest == [keepAlive |-> FALSE, length |-> 0, body |-> <<>>]

Reader == [phase : {"line", "head", "body", "illegal"}, request : Request, requests : Seq(Request)]
NewReader == [phase |-> "line", request |-> NewRequest, requests |-> <<>>]

TypeOK ==
    /\ https \in BOOLEAN
    /\ stream \in Seq(Kinds) /\ reads \in Seq(Reader)
    /\ got \in 0 .. 2 * Len(stream) /\ pos \in 0 .. got \div 2
    /\ stretched \in BOOLEAN
    /\ m_status \in {"REQ_LINE", "HEAD_FIELDS", "BODY", "DONE", "ERROR"}
    /\ m_request \in Request
    /\ m_keepAlive \in BOOLEAN /\ m_sentClose \in BOOLEAN /\ pending \in BOOLEAN
    /\ ended \in {"no", "peer", "app", "illegal", "error", "sentClose"}
    /\ reading \in BOOLEAN
    /\ pc \in {"idle", "parse", "process", "app"}
    /\ processed \in Seq(Request)
    /\ owed \in 0 .. Len(processed)
    /\ chunked \in {"no", "close", "keep-alive"}
    /\ saidClose \in BOOLEAN

Init ==
    /\ https \in BOOLEAN
    /\ stream = <<>> /\ reads = <<NewReader>> /\ got = 0 /\ pos = 0 /\ stretched = FALSE
    /\ m_status = "REQ_LINE" /\ m_request = NewRequest
    /\ m_keepAlive = FALSE /\ m_sentClose = FALSE /\ pending = FALSE /\ ended = "no"
    /\ reading = FALSE /\ pc = "idle"
    /\ processed = <<>> /\ owed = 0 /\ chunked = "no" /\ saidClose = FALSE

IsOpen == ended = "no"

-----------------------------------------------------------------------------
(* The reference: a reader of whole lines, which does not see where a read ends. *)

Illegal(r) == [r EXCEPT !.phase = "illegal"]
Deliver(r, body) ==
    [phase |-> "line", request |-> NewRequest,
     requests |-> Append(r.requests, [r.request EXCEPT !.body = body])]

ReadHead(r, line) ==
    CASE line = "ka" -> [r EXCEPT !.request.keepAlive = TRUE]
      [] line = "len1" -> [r EXCEPT !.request.length = 1]
      [] line = "lenbad" -> [r EXCEPT !.request.length = -1]
      [] line \in {"ver", "long"} -> r
      [] line \in {"req", "half", "bad"} -> Illegal(r)
      [] line = "empty" /\ r.request.length = 0 -> Deliver(r, <<>>)
      [] line = "empty" /\ r.request.length = 1 -> [r EXCEPT !.phase = "body"]
      [] line = "empty" /\ r.request.length = -1 -> Illegal(r)

ReadLine(r, line) ==
    CASE r.phase = "line" /\ line \in {"req", "long"} -> [r EXCEPT !.phase = "head"]
      [] r.phase = "line" /\ line \notin {"req", "long"} -> Illegal(r)
      [] r.phase = "head" -> ReadHead(r, line)
      [] r.phase = "body" -> Deliver(r, <<line>>)
      [] r.phase = "illegal" -> r

\* Having read n lines: reads grows with stream, and no step reads it but to bound the lines.
Read(n) == reads[n + 1]

-----------------------------------------------------------------------------
(* The peer and the transport.                                             *)

LinesFit == \A i \in 1 .. Len(stream) : stream[i] # "long"

\* BOUND: one line after the first illegal one, or more of them where that is a request line
\* with one space, as no step looks at others; two bodies, one that could be a request line;
\* one line over the limits; ver only behind an illegal line; none when nothing is read any more.
LinesTried ==
    [line |-> {"req", "half", "long", "bad"}, head |-> (Fields \ {"ver"}) \cup {"empty", "bad"},
     body |-> {"req", "bad"}, illegal |-> {"ver", "empty"}]

PeerSends(line) ==
    /\ pc = "idle" /\ (IsOpen \/ reading) /\ Len(stream) < MaxLines
    /\ stream # <<>> => Read(Len(stream) - 1).phase # "illegal" \/ Contains(stream, "half")
    /\ line = "long" => LinesFit
    /\ line \in LinesTried[Read(Len(stream)).phase]
    /\ stream' = Append(stream, line)
    /\ reads' = Append(reads, ReadLine(Read(Len(stream)), line))
    /\ UNCHANGED <<https, got, stretched, pos, m_status, m_request, m_keepAlive, connVars, reading,
                   pc, appVars>>

\* A read returns what has arrived, and OnRecvData appends it to m_recvBuf: all that was
\* sent, or all but the end of the last line.  (What has not arrived could as well be sent
\* later, so this leaves out no way of cutting the stream.)
OnRecvData(missing) ==
    /\ pc = "idle" /\ (IsOpen \/ reading)
    /\ got' = 2 * Len(stream) - missing
    /\ got' > got
    /\ reading' = https
    /\ pc' = "parse"
    /\ UNCHANGED <<https, stream, reads, stretched, pos, m_status, m_request, m_keepAlive, connVars,
                   appVars>>

\* SSL_read has no more.
ReadEnds ==
    /\ pc = "idle" /\ reading
    /\ reading' = FALSE
    /\ UNCHANGED <<https, stream, reads, got, stretched, pos, m_status, m_request, m_keepAlive,
                   connVars, pc, appVars>>

PeerCloses ==
    /\ pc = "idle" /\ IsOpen
    /\ ended' = "peer"
    /\ reading' = FALSE
    /\ UNCHANGED <<https, stream, reads, got, stretched, pos, m_status, m_request, m_keepAlive,
                   m_sentClose, pending, pc, appVars>>

\* OnWrite has sent all: TcpSession closes a session that is marked, SslSession does not.
OnWrite ==
    /\ pc = "idle" /\ IsOpen /\ ~reading /\ pending
    /\ pending' = FALSE
    /\ ended' = IF m_sentClose /\ ~https THEN "sentClose" ELSE ended
    /\ UNCHANGED <<inputVars, pos, m_status, m_request, m_keepAlive, m_sentClose, pc, appVars>>

-----------------------------------------------------------------------------
(* Parse.                                                                  *)

\* A slip: the loop goes on for 1 as well.
GoesOnForMore(ret) == ret >= 0

LoopGoesOn(ret) == ret = 0

\* Parse returns: 0 for a request, 1 for more data, -1 for an illegal message.
Returns(ret) ==
    /\ pc' = IF ~LoopGoesOn(ret) THEN "idle" ELSE IF ret = 0 THEN "process" ELSE "parse"
    /\ ended' = IF ret = -1 /\ IsOpen THEN "illegal" ELSE ended

\* A slip: erase takes one line too many.
AfterTwoLines == pos + 2

AfterLine == pos + 1

LineArrived == pos < got \div 2
HalfLine == got % 2 = 1 /\ pos = got \div 2
Line == stream[pos + 1]

\* A slip: the fields of the last request stay.
ResetNot == m_request

Reset == NewRequest

\* Parse of the next message begins.
ParseResets ==
    /\ pc = "parse" /\ m_status = "DONE"
    /\ m_request' = Reset
    /\ m_status' = "REQ_LINE"
    /\ UNCHANGED <<inputVars, pos, m_keepAlive, connVars, pc, appVars>>

\* error: m_status = ERROR, m_recvBuf.clear().
Error ==
    /\ m_status' = "ERROR"
    /\ pos' = got \div 2
    /\ Returns(-1)
    /\ UNCHANGED <<inputVars, m_request, m_keepAlive, m_sentClose, pending, appVars>>

\* The second space and the version are looked for up to the end of m_recvBuf: the next space
\* is in the line that has half arrived, and HTTP/1.1 is the last of it that has.  (Had less
\* arrived of that line, or more, the request line would be as illegal as without it.)
VersionAtEnd ==
    LET last == got \div 2 + 1
    IN  /\ got % 2 = 1 /\ stream[last] = "ver"
        /\ \A i \in pos + 2 .. last - 1 : stream[i] \notin Spaced

LegalRequestLine == Line \in {"req", "long"} \/ (Line = "half" /\ VersionAtEnd)

ParseRequestLine ==
    /\ pc = "parse" /\ m_status = "REQ_LINE"
    /\ LineArrived /\ LegalRequestLine
    /\ m_status' = "HEAD_FIELDS"
    /\ pos' = AfterLine
    /\ stretched' = (stretched \/ Line = "half")
    /\ UNCHANGED <<sentVars, m_request, m_keepAlive, connVars, pc, appVars>>

ParseRequestLineFails ==
    /\ pc = "parse" /\ m_status = "REQ_LINE"
    /\ LineArrived /\ ~LegalRequestLine
    /\ Error

WithField(line) ==
    CASE line = "ka" -> [m_request EXCEPT !.keepAlive = TRUE]
      [] line = "len1" -> [m_request EXCEPT !.length = 1]
      [] line = "lenbad" -> [m_request EXCEPT !.length = -1]
      [] line \in {"ver", "long"} -> m_request

\* One turn of ParseHeadFields' loop.
ParseHeadField ==
    /\ pc = "parse" /\ m_status = "HEAD_FIELDS"
    /\ LineArrived /\ Line \in Fields
    /\ m_request' = WithField(Line)
    /\ pos' = AfterLine
    /\ UNCHANGED <<inputVars, m_status, m_keepAlive, connVars, pc, appVars>>

ParseHeadEnds ==
    /\ pc = "parse" /\ m_status = "HEAD_FIELDS"
    /\ LineArrived /\ Line = "empty"
    /\ m_status' = "BODY"
    /\ pos' = AfterLine
    /\ UNCHANGED <<inputVars, m_request, m_keepAlive, connVars, pc, appVars>>

ParseHeadFails ==
    /\ pc = "parse" /\ m_status = "HEAD_FIELDS"
    /\ LineArrived /\ Line \in {"req", "half", "bad"}
    /\ Error

\* No CRLF yet, and what there is of the line is within the limit ...
ParseLineNeedsMore ==
    /\ pc = "parse" /\ m_status \in {"REQ_LINE", "HEAD_FIELDS"}
    /\ ~LineArrived
    /\ Returns(1)
    /\ UNCHANGED <<inputVars, pos, m_status, m_request, m_keepAlive, m_sentClose, pending,
                   appVars>>

\* ... or is not: only an incomplete line is ever measured.
ParseLineTooLong ==
    /\ pc = "parse" /\ m_status \in {"REQ_LINE", "HEAD_FIELDS"}
    /\ HalfLine /\ Line = "long"
    /\ Error

BodyArrived == got \div 2 - pos >= m_request.length

ParseBody ==
    /\ pc = "parse" /\ m_status = "BODY"
    /\ m_request.length >= 0 /\ BodyArrived
    /\ m_request' = [m_request EXCEPT !.body = SubSeq(stream, pos + 1, pos + m_request.length)]
    /\ pos' = pos + m_request.length
    /\ m_status' = "DONE"
    /\ Returns(0)
    /\ UNCHANGED <<inputVars, m_keepAlive, m_sentClose, pending, appVars>>

ParseBodyNeedsMore ==
    /\ pc = "parse" /\ m_status = "BODY"
    /\ m_request.length >= 0 /\ ~BodyArrived
    /\ Returns(1)
    /\ UNCHANGED <<inputVars, pos, m_status, m_request, m_keepAlive, m_sentClose, pending,
                   appVars>>

ParseBodyFails ==
    /\ pc = "parse" /\ m_status = "BODY" /\ m_request.length < 0
    /\ Error

\* After an error none of Parse's branches is taken, and 0 is returned.
ParseAfterError ==
    /\ pc = "parse" /\ m_status = "ERROR"
    /\ Returns(0)
    /\ UNCHANGED <<inputVars, pos, m_status, m_request, m_keepAlive, m_sentClose, pending,
                   appVars>>

-----------------------------------------------------------------------------
(* The application.                                                        *)

\* The rest of the loop's body: SetKeepAlive, and ProcessHttpRequest is called.
CallProcessHttpRequest ==
    /\ pc = "process" /\ Len(processed) < MaxLines
    /\ m_keepAlive' = (m_keepAlive \/ m_request.keepAlive)
    /\ processed' = Append(processed, m_request)
    /\ owed' = owed + 1
    /\ pc' = "app"
    /\ UNCHANGED <<inputVars, pos, m_status, m_request, connVars, chunked, saidClose>>

ProcessHttpRequestReturns ==
    /\ pc = "app"
    /\ pc' = "parse"
    /\ UNCHANGED <<inputVars, pos, m_status, m_request, m_keepAlive, connVars, appVars>>

AppCloses ==
    /\ pc = "app" \/ (pc = "idle" /\ ~reading)
    /\ IsOpen
    /\ ended' = "app"
    /\ UNCHANGED <<inputVars, pos, m_status, m_request, m_keepAlive, m_sentClose, pending, pc,
                   appVars>>

\* The application answers inside ProcessHttpRequest, or on its own, in the order of the
\* requests and each one once.
MayRespond == owed > 0 /\ (pc = "app" \/ (pc = "idle" /\ IsOpen /\ ~reading))

\* What SendData may come to: all is written, or some of it waits, or it fails.
Outcomes == {o \in [waits : BOOLEAN, fails : BOOLEAN] :
    /\ pending => o.waits
    /\ ~IsOpen => o.waits = pending
    /\ o.fails => IsOpen /\ ~o.waits}

\* A slip: a session that still has data to send is not marked.
SendsMarkingIdle(o, marks) ==
    /\ pending' = o.waits
    /\ m_sentClose' = (m_sentClose \/ (marks /\ ~o.waits))
    /\ ended' = IF ~IsOpen THEN ended ELSE IF o.fails THEN "error"
                ELSE IF m_sentClose' /\ ~o.waits THEN "sentClose" ELSE "no"

\* SendData, and SetSentClose(true) behind it if it marks: both close a marked session
\* that has nothing to send.
Sends(o, marks) ==
    /\ pending' = o.waits
    /\ m_sentClose' = (m_sentClose \/ marks)
    /\ ended' = IF ~IsOpen THEN ended ELSE IF o.fails THEN "error"
                ELSE IF m_sentClose' /\ ~o.waits THEN "sentClose" ELSE "no"

respondKeeps == <<inputVars, pos, m_status, m_request, m_keepAlive, pc, processed>>

SendResponse(o) ==
    /\ MayRespond /\ chunked = "no"
    /\ Sends(o, ~m_keepAlive)
    /\ owed' = owed - 1
    /\ saidClose' = (saidClose \/ ~m_keepAlive)
    /\ UNCHANGED <<respondKeeps, chunked>>

\* Only HttpServerSession sends chunks.
SendResponseStart(o) ==
    /\ MayRespond /\ chunked = "no" /\ ~https
    /\ Sends(o, FALSE)
    /\ chunked' = IF m_keepAlive THEN "keep-alive" ELSE "close"
    /\ UNCHANGED <<respondKeeps, owed, saidClose>>

SendChunk(o) ==
    /\ MayRespond /\ chunked # "no"
    /\ Sends(o, FALSE)
    /\ UNCHANGED <<respondKeeps, owed, chunked, saidClose>>

SendResponseEnd(o) ==
    /\ MayRespond /\ chunked # "no"
    /\ Sends(o, ~m_keepAlive)
    /\ owed' = owed - 1
    /\ chunked' = "no"
    /\ saidClose' = (saidClose \/ chunked = "close")
    /\ UNCHANGED respondKeeps

-----------------------------------------------------------------------------
ParseStep ==
    \/ ParseResets \/ ParseRequestLine \/ ParseRequestLineFails
    \/ ParseHeadField \/ ParseHeadEnds \/ ParseHeadFails
    \/ ParseLineNeedsMore \/ ParseLineTooLong
    \/ ParseBody \/ ParseBodyNeedsMore \/ ParseBodyFails

HandlerStep ==
    \/ ParseStep
    \/ ParseAfterError
    \/ CallProcessHttpRequest \/ ProcessHttpRequestReturns

Responds ==
    \E o \in Outcomes :
        SendResponse(o) \/ SendResponseStart(o) \/ SendChunk(o) \/ SendResponseEnd(o)

Next ==
    \/ \E line \in Kinds : PeerSends(line)
    \/ \E missing \in 0 .. 1 : OnRecvData(missing)
    \/ ReadEnds \/ PeerCloses \/ OnWrite
    \/ HandlerStep
    \/ AppCloses
    \/ Responds

SafeSpec == Init /\ [][Next]_vars

\* A handler that runs goes on, and the application's callback returns.
Spec == SafeSpec /\ WF_vars(HandlerStep)

-----------------------------------------------------------------------------
(* Properties.                                                             *)

\* A legal stream is read the same however it is cut into reads and however many requests
\* come in one: when OnRecvData has returned, the requests processed are those of the bytes
\* received, each once, in order, with its own head fields and body and no other's, and the
\* session was not closed as illegal.  Of an illegal one the requests ahead of the first
\* illegal line are processed so, and then none, and the error is found; but for a request
\* line with one space, which ParseRequestLine takes for legal, or not, by what had arrived
\* behind it (stretched).  (Lines that pass the limits are apart: they are legal when they
\* come in one read.)
RequestsDependOnBytesOnly ==
    pc = "idle" /\ LinesFit /\ (IsOpen \/ ~https) =>
        LET r == Read(got \div 2)
        IN  /\ r.phase # "illegal" =>
                processed = r.requests /\ m_status # "ERROR" /\ ended # "illegal"
            /\ r.phase = "illegal" =>
                /\ IsPrefix(r.requests, processed)
                /\ ~stretched => processed = r.requests /\ m_status = "ERROR"

\* m_keepAlive, m_sentClose and pending data together: a response closes the session only
\* after a whole response, chunks and all, that said connection: close, and never if the
\* first request asked for keep-alive; and if no request did, the session is closed when
\* all are answered and the last byte has gone out.  (One that asks while a response is
\* under way that said close keeps the session open: m_keepAlive is read again at its end.)
ClosesAfterResponse ==
    LET asking == {i \in 1 .. Len(processed) : processed[i].keepAlive}
    IN  /\ ended = "sentClose" => saidClose /\ 1 \notin asking
        /\ pc = "idle" /\ IsOpen /\ owed = 0 /\ processed # <<>> /\ asking = {} =>
            pending \/ https

\* OnRecvData's loop ends, over TCP: Parse never gives 0 without taking bytes.
OnRecvDataReturns == (pc # "idle" /\ ~https) ~> (pc = "idle")

\* http_request_decoder.h:26: Parse returns "0    OK, http request parse ok."
ParseOkMeansRequest == pc = "process" => m_status = "DONE"
=============================================================================
