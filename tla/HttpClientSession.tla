-------------------------- MODULE HttpClientSession --------------------------
(***************************************************************************)
(* HttpClientSession (and HttpsClientSession, the same code on SslSession)  *)
(* with its HttpResponseDecoder.  As in HttpServerSession.tla the peer's   *)
(* bytes are lines and got counts half lines; a body of content-length 1   *)
(* is one line.                                                            *)
(*                                                                         *)
(* ParseStatusLine looks for the two spaces of the status line in all of   *)
(* m_recvBuf: one without a reason is legal if a space has arrived behind  *)
(* it, whatever that belongs to, and illegal if none has.                  *)
(*                                                                         *)
(* The decoder parses into m_response, and SendRequest writes its fields   *)
(* into m_response too and sends the fields and the body of that: requests *)
(* and responses share the object, and a request sent while a response is  *)
(* half received gives it another content-length.                          *)
(***************************************************************************)
EXTENDS Integers, SequencesExt

CONSTANT MaxLines    \* BOUND on the lines the peer sends, and on the responses

ASSUME HttpAssumption == MaxLines \in Nat

\* status: a legal status line; short: one that ends with the code, without a space behind it;
\* len1, lenbad: content-length 1, and one that is negative or too large; long: a legal status
\* line or another head field, longer than the limits; bad: illegal wherever it comes; empty:
\* CRLF alone.
Kinds == {"status", "short", "len1", "lenbad", "long", "bad", "empty"}
Fields == {"len1", "lenbad", "long"}

\* Those that are written with a space.
Spaced == {"status", "short", "len1", "long"}

VARIABLES
    https,              \* the session is an HttpsClientSession
    asks,               \* m_request has the field connection: keep-alive
    stream, got, pos,   \* sent, received (half lines), and decoded
    stretched,          \* history: a status line without a reason was taken for legal
    reads,              \* history: what the reference makes of the lines sent, see below
    m_status,           \* EHttpResponseDecodeStatus
    m_response,         \* its content-length field, and its body
    m_keepAlive,
    ended,              \* why the session was closed
    reading,            \* OnRead's SSL_read loop has more to give
    pc,                 \* "parse": in OnRecvData's loop; "process": Parse gave 0
    processed,          \* the responses given to ProcessHttpResponse, in order
    disturbed           \* history: SendRequest changed the length of a response half received

vars == <<https, asks, stream, reads, got, stretched, pos, m_status, m_response, m_keepAlive, ended,
          reading, pc, processed, disturbed>>
sentVars == <<https, asks, stream, reads, got, reading>>
inputVars == <<sentVars, stretched>>
sessionVars == <<m_keepAlive, ended, processed, disturbed>>

Response == [length : {-1, 0, 1}, body : Seq(Kinds)]
NewResponse == [length |-> 0, body |-> <<>>]

Reader ==
    [phase : {"line", "head", "body", "illegal"}, response : Response, responses : Seq(Response)]
NewReader == [phase |-> "line", response |-> NewResponse, responses |-> <<>>]

TypeOK ==
    /\ https \in BOOLEAN /\ asks \in BOOLEAN
    /\ stream \in Seq(Kinds) /\ reads \in Seq(Reader)
    /\ got \in 0 .. 2 * Len(stream) /\ pos \in 0 .. got \div 2
    /\ stretched \in BOOLEAN
    /\ m_status \in {"STATUS_LINE", "HEAD_FIELDS", "BODY", "DONE", "ERROR"}
    /\ m_response \in Response
    /\ m_keepAlive \in BOOLEAN /\ disturbed \in BOOLEAN
    /\ ended \in {"no", "other", "illegal", "done"}
    /\ reading \in BOOLEAN
    /\ pc \in {"idle", "parse", "process"}
    /\ processed \in Seq(Response)

\* The application may have called SetKeepAlive, or set the field of m_request.
Init ==
    /\ https \in BOOLEAN /\ m_keepAlive \in BOOLEAN
    /\ asks \in IF m_keepAlive THEN {FALSE} ELSE BOOLEAN
    /\ stream = <<>> /\ reads = <<NewReader>> /\ got = 0 /\ pos = 0 /\ stretched = FALSE
    /\ m_status = "STATUS_LINE" /\ m_response = NewResponse
    /\ ended = "no" /\ reading = FALSE /\ pc = "idle" /\ processed = <<>> /\ disturbed = FALSE

IsOpen == ended = "no"
StaysOpen == m_keepAlive \/ asks
Closes(cause) == ended' = IF IsOpen THEN cause ELSE ended

-----------------------------------------------------------------------------
(* The reference: a reader of whole lines, which does not see where a read ends. *)

Illegal(r) == [r EXCEPT !.phase = "illegal"]
Deliver(r, body) ==
    [phase |-> "line", response |-> NewResponse,
     responses |-> Append(r.responses, [r.response EXCEPT !.body = body])]

WithField(response, line) ==
    CASE line = "len1" -> [response EXCEPT !.length = 1]
      [] line = "lenbad" -> [response EXCEPT !.length = -1]
      [] line = "long" -> response

ReadHead(r, line) ==
    CASE line \in Fields -> [r EXCEPT !.response = WithField(r.response, line)]
      [] line \in {"status", "short", "bad"} -> Illegal(r)
      [] line = "empty" /\ r.response.length = 0 -> Deliver(r, <<>>)
      [] line = "empty" /\ r.response.length = 1 -> [r EXCEPT !.phase = "body"]
      [] line = "empty" /\ r.response.length = -1 -> Illegal(r)

ReadLine(r, line) ==
    CASE r.phase = "line" /\ line \in {"status", "long"} -> [r EXCEPT !.phase = "head"]
      [] r.phase = "line" /\ line \notin {"status", "long"} -> Illegal(r)
      [] r.phase = "head" -> ReadHead(r, line)
      [] r.phase = "body" -> Deliver(r, <<line>>)
      [] r.phase = "illegal" -> r

LinesFit == \A i \in 1 .. Len(stream) : stream[i] # "long"

\* Having read n lines: reads grows with stream, and no step reads it but to bound the lines.
Read(n) == reads[n + 1]

-----------------------------------------------------------------------------
(* The peer and the transport.                                             *)

\* BOUND: one line after the first illegal one, or more of them where that is a status line
\* without a reason, as no step looks at others; two bodies, one that could be a status line;
\* one line over the limits; none after the session was closed for good.
LinesTried ==
    [line |-> {"status", "short", "long", "bad"}, head |-> Fields \cup {"empty", "bad"},
     body |-> {"status", "bad"}, illegal |-> {"status", "len1", "empty"}]

PeerSends(line) ==
    /\ pc = "idle" /\ (IsOpen \/ reading) /\ Len(stream) < MaxLines
    /\ stream # <<>> => Read(Len(stream) - 1).phase # "illegal" \/ Contains(stream, "short")
    /\ line = "long" => LinesFit
    /\ line \in LinesTried[Read(Len(stream)).phase]
    /\ stream' = Append(stream, line)
    /\ reads' = Append(reads, ReadLine(Read(Len(stream)), line))
    /\ UNCHANGED <<https, asks, got, stretched, pos, m_status, m_response, reading, pc,
                   sessionVars>>

\* All that was sent arrives, or all but the end of the last line.
OnRecvData(missing) ==
    /\ pc = "idle" /\ (IsOpen \/ reading)
    /\ got' = 2 * Len(stream) - missing
    /\ got' > got
    /\ reading' = https
    /\ pc' = "parse"
    /\ UNCHANGED <<https, asks, stream, reads, stretched, pos, m_status, m_response, sessionVars>>

\* SSL_read has no more.
ReadEnds ==
    /\ pc = "idle" /\ reading
    /\ reading' = FALSE
    /\ UNCHANGED <<https, asks, stream, reads, got, stretched, pos, m_status, m_response, pc,
                   sessionVars>>

\* The peer has closed, or the application does.
CloseByOther ==
    /\ pc = "idle" /\ IsOpen
    /\ ended' = "other"
    /\ reading' = FALSE
    /\ UNCHANGED <<https, asks, stream, reads, got, stretched, pos, m_status, m_response, pc,
                   m_keepAlive, processed, disturbed>>

-----------------------------------------------------------------------------
(* SendRequest.                                                            *)

\* AddHeadField("content-length", the size of m_response's body).
RequestFields(response) == [response EXCEPT !.length = Len(response.body)]

\* The application sends a request between two events; SendData may fail and close.
SendRequest(fails) ==
    /\ pc = "idle" /\ IsOpen /\ ~reading
    /\ m_response' = RequestFields(m_response)
    /\ disturbed' = (disturbed \/ m_response' # m_response)
    /\ ended' = IF fails THEN "other" ELSE ended
    /\ UNCHANGED <<inputVars, pos, m_status, pc, m_keepAlive, processed>>

-----------------------------------------------------------------------------
(* Parse.                                                                  *)

\* Parse returns: 0 for a response, 1 for more data, -1 for an illegal message.
Returns(ret) ==
    /\ pc' = IF ret = 0 THEN "process" ELSE "idle"
    /\ IF ret = -1 THEN Closes("illegal") ELSE UNCHANGED ended
    /\ UNCHANGED <<inputVars, m_keepAlive, processed, disturbed>>

\* A slip: the line is left in m_recvBuf.
SameLine == pos

\* A slip: the line behind it is erased too.
AfterTwoLines == pos + 2

AfterLine == pos + 1

LineArrived == pos < got \div 2
HalfLine == got % 2 = 1 /\ pos = got \div 2
Line == stream[pos + 1]

\* A slip: the fields go, the body stays.
ResetFields == [m_response EXCEPT !.length = 0]

Reset == NewResponse

\* Parse of the next message begins.
ParseResets ==
    /\ pc = "parse" /\ m_status = "DONE"
    /\ m_response' = Reset
    /\ m_status' = "STATUS_LINE"
    /\ UNCHANGED <<inputVars, pos, pc, sessionVars>>

\* error: m_status = ERROR, m_recvBuf.clear().
Error ==
    /\ m_status' = "ERROR"
    /\ pos' = got \div 2
    /\ Returns(-1)
    /\ UNCHANGED m_response

NeedsMore == Returns(1) /\ UNCHANGED <<pos, m_status, m_response>>

\* The second space is looked for up to the end of m_recvBuf, whole lines or not.  (Had less
\* arrived of the last line than its space, it would be as if nothing had.)
SpaceBehind == \E i \in pos + 2 .. (got + 1) \div 2 : stream[i] \in Spaced

LegalStatusLine == Line \in {"status", "long"} \/ (Line = "short" /\ SpaceBehind)

ParseStatusLine ==
    /\ pc = "parse" /\ m_status = "STATUS_LINE"
    /\ LineArrived /\ LegalStatusLine
    /\ m_status' = "HEAD_FIELDS"
    /\ pos' = AfterLine
    /\ stretched' = (stretched \/ Line = "short")
    /\ UNCHANGED <<sentVars, m_response, pc, sessionVars>>

ParseStatusLineFails ==
    /\ pc = "parse" /\ m_status = "STATUS_LINE"
    /\ LineArrived /\ ~LegalStatusLine
    /\ Error

\* One turn of ParseHeadFields' loop.
ParseHeadField ==
    /\ pc = "parse" /\ m_status = "HEAD_FIELDS"
    /\ LineArrived /\ Line \in Fields
    /\ m_response' = WithField(m_response, Line)
    /\ pos' = AfterLine
    /\ UNCHANGED <<inputVars, m_status, pc, sessionVars>>

ParseHeadEnds ==
    /\ pc = "parse" /\ m_status = "HEAD_FIELDS"
    /\ LineArrived /\ Line = "empty"
    /\ m_status' = "BODY"
    /\ pos' = AfterLine
    /\ UNCHANGED <<inputVars, m_response, pc, sessionVars>>

ParseHeadFails ==
    /\ pc = "parse" /\ m_status = "HEAD_FIELDS"
    /\ LineArrived /\ Line \in {"status", "short", "bad"}
    /\ Error

\* No CRLF yet, and what there is of the line is within the limit ...
ParseLineNeedsMore ==
    /\ pc = "parse" /\ m_status \in {"STATUS_LINE", "HEAD_FIELDS"}
    /\ ~LineArrived
    /\ NeedsMore

\* ... or is not: only an incomplete line is ever measured.
ParseLineTooLong ==
    /\ pc = "parse" /\ m_status \in {"STATUS_LINE", "HEAD_FIELDS"}
    /\ HalfLine /\ Line = "long"
    /\ Error

BodyArrived == got \div 2 - pos >= m_response.length

\* AppendHttpBody.
ParseBody ==
    /\ pc = "parse" /\ m_status = "BODY"
    /\ m_response.length >= 0 /\ BodyArrived
    /\ m_response' =
        [m_response EXCEPT !.body = @ \o SubSeq(stream, pos + 1, pos + m_response.length)]
    /\ pos' = pos + m_response.length
    /\ m_status' = "DONE"
    /\ Returns(0)

ParseBodyNeedsMore ==
    /\ pc = "parse" /\ m_status = "BODY"
    /\ m_response.length >= 0 /\ ~BodyArrived
    /\ NeedsMore

ParseBodyFails ==
    /\ pc = "parse" /\ m_status = "BODY" /\ m_response.length < 0
    /\ Error

\* After an error none of Parse's branches is taken, and 0 is returned.
ParseAfterError ==
    /\ pc = "parse" /\ m_status = "ERROR"
    /\ Returns(0)
    /\ UNCHANGED <<pos, m_status, m_response>>

\* A slip: OnRecvData closes and goes on parsing.
NextTurnAlways == "parse"

NextTurn == IF StaysOpen THEN "parse" ELSE "idle"

\* ProcessHttpResponse, in which the application may send the next request and close; then
\* a session that is not kept alive is closed, and OnRecvData returns.
ProcessHttpResponse(sends, closes) ==
    /\ pc = "process" /\ Len(processed) < MaxLines
    /\ processed' = Append(processed, m_response)
    /\ m_response' = IF sends THEN RequestFields(m_response) ELSE m_response
    /\ m_keepAlive' = StaysOpen
    /\ IF closes THEN Closes("other") ELSE IF StaysOpen THEN UNCHANGED ended ELSE Closes("done")
    /\ pc' = NextTurn
    /\ UNCHANGED <<inputVars, pos, m_status, disturbed>>

-----------------------------------------------------------------------------
ParseStep ==
    \/ ParseResets \/ ParseStatusLine \/ ParseStatusLineFails
    \/ ParseHeadField \/ ParseHeadEnds \/ ParseHeadFails
    \/ ParseLineNeedsMore \/ ParseLineTooLong
    \/ ParseBody \/ ParseBodyNeedsMore \/ ParseBodyFails

HandlerStep ==
    \/ ParseStep
    \/ ParseAfterError
    \/ \E sends, closes \in BOOLEAN : ProcessHttpResponse(sends, closes)

Next ==
    \/ \E line \in Kinds : PeerSends(line)
    \/ \E missing \in 0 .. 1 : OnRecvData(missing)
    \/ ReadEnds
    \/ CloseByOther
    \/ \E fails \in BOOLEAN : SendRequest(fails)
    \/ HandlerStep

SafeSpec == Init /\ [][Next]_vars

\* A handler that runs goes on.
Spec == SafeSpec /\ WF_vars(HandlerStep)

-----------------------------------------------------------------------------
(* Properties.                                                             *)

\* A legal stream is read the same however it is cut into reads: when OnRecvData has
\* returned, the responses processed are those of the bytes received, each once, in order,
\* with its own body, and the session was not closed as illegal.  Of an illegal one the
\* responses ahead of the first illegal line are processed so, and then none, and the error
\* is found; but for a status line without a reason, which ParseStatusLine takes for legal,
\* or not, by what had arrived behind it (stretched).  Where the connection is not kept
\* alive only the first response is processed.  Requests sent meanwhile do not change that,
\* as long as none finds a response with a content-length half received.
ResponsesAreTheBytes ==
    pc = "idle" /\ LinesFit /\ ~disturbed /\ (IsOpen \/ ~https) =>
        LET r == Read(got \div 2)
        IN  IF ~StaysOpen /\ r.responses # <<>>
            THEN processed = <<r.responses[1]>> /\ ~IsOpen
            ELSE /\ r.phase # "illegal" =>
                        processed = r.responses /\ m_status # "ERROR" /\ ended # "illegal"
                 /\ r.phase = "illegal" =>
                        /\ IsPrefix(r.responses, processed)
                        /\ ~stretched => processed = r.responses /\ m_status = "ERROR"

\* A request the application sends between two events carries no body of a response: what
\* ProcessHttpResponse saw is gone when OnRecvData has returned to an open session.
RequestsCarryNoOldBody ==
    IsOpen /\ pc = "idle" => m_response.body = <<>> /\ m_status # "DONE"

\* OnRecvData's loop ends, over TCP: Parse never gives 0 without taking bytes.
OnRecvDataReturns == (pc # "idle" /\ ~https) ~> (pc = "idle")
=============================================================================
