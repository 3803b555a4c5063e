# A verification of TcpSessionMgr

TcpSessionMgr is a C++ library that keeps TCP sessions on top of the event loop
libswevent: it listens, connects, accepts, reads and writes, and hands the bytes
to a session class of the application's choice (length-prefixed messages, HTTP,
SSL, HTTPS). Beside it stand a logger with a writer thread and some helpers.
This directory holds TLA+ models of its parts, the TLC runs that check them and
proofs that TLAPS checks.

## 1. The system

| Component | State | Operations | Model |
|---|---|---|---|
| **TcpSessionMgr** (`tcp_session_mgr.*`) | `m_sessions` (id to object), `m_sessionGC` (ended objects), `m_listens`, `m_pSessionGCCheck`, the id counter | BindAndListen, Connect, BeginSession, EndSession, SendData; callbacks OnAcceptReady, OnConnectReady, OnCheck; the destructor | `SessionMgr` |
| **TcpSession** (`tcp_session.*`) | `m_socket`, `m_sessionId`, the list of pending buffers, `m_sentClose` | SendData, SendPendingData, SetSentClose, Close, ForceClose; callback OnSessionIOReady, with OnRead and OnWrite | `TcpSession` (bytes), `SessionMgr` (life, reads) |
| **SslSession** (`ssl_session.*`) | that of TcpSession, `m_state`, the SSL object | overrides OnRead, OnWrite, SendData, SendPendingData | `SslSession` |
| **HttpRequestDecoder, HttpServerSession, HttpsServerSession** | `m_recvBuf`, `m_status`, `m_request`, `m_keepAlive` | AppendData, Parse, OnRecvData, ProcessHttpRequest, SendResponse, SendResponseStart, SendChunk, SendResponseEnd | `HttpServerSession` |
| **SimpleLog** (`simple_log.*`) | `m_logQue` under `m_lock`; `m_startup`, `m_pFile` and the times without a lock | Debug..Error, Startup, Shutdown, the writer thread, `_Check`, `_LogRotate` | `SimpleLog` |
| **DefaultMsgDecoder, DefaultTcpSession** (`default_tcp_session.*`) | `m_data`, `m_nPos` | AppendData, GetMessage, OnRecvData, ProcessMessage | `DefaultTcpSession`; both ends of a connection: `MsgChannel` |
| **HttpResponseDecoder, HttpClientSession, HttpsClientSession** | `m_recvBuf`, `m_status`, `m_response`, `m_keepAlive` | AppendData, Parse, OnRecvData, ProcessHttpResponse, SendRequest | `HttpClientSession` |
| HttpRequest, HttpResponse, utils, easyconfig | maps and strings | getters, setters, coding, file reading | not modelled |
| libswevent, OpenSSL (external) | watches; the TLS machine | `sw_ev_io_add/del`, `sw_ev_check_add`; `SSL_*` | by their use, inside `SessionMgr`, `SslSession` |

How they interact. Everything but the logger runs on the thread of the loop. The
loop calls a static callback with a pointer it was given (`ListenInfo`,
`ConnectInfo`, a session, the manager); the callback calls virtual functions of
the session (`OnRead`, `OnWrite`, `OnRecvData`) and of the manager
(`OnSessionHasBegin`, `OnSessionWillEnd`, `OnConnect`); those are the
application's, and may call back into the manager, that is, end the very session
they run on. For that reason EndSession does not delete: it takes the session out
of the table and puts it in `m_sessionGC`, which a check callback empties once per
round of the loop. The logger is called from any thread.

What is hard here, and what makes each part correct:

* **Pointers that outlive what they name.** Handlers go on after a callback that
  closed their session (`OnWrite` then `OnRead`; the SSL_read loop); descriptor
  numbers and addresses are reused at once. Correct: the table, the watches and
  the running handler name live objects only, and no object is lost, nor a descriptor
  that a session or a pending connect owns.
* **Bytes cut anywhere.** The kernel takes part of a write, and reads end inside a
  line or the head of a message. Correct: the wire carries the bytes given, in order
  and once; the messages, requests and responses decoded of a legal stream are those
  of the bytes, whatever the reads, and none that has arrived waits for a read that may
  not come. (Whether an illegal stream is found to be so may depend on the reads, see
  HttpServerSession in section 2.)
* **One object for two purposes.** HttpClientSession parses responses into the object
  that SendRequest fills in and sends. Correct: a request sent between two events takes
  no old body along, and does not change where a response ends.
* **Closing at the right time.** SetSentClose must close when all is sent, neither
  before nor never, whatever is sent meanwhile.
* **Events that must come.** Pending data needs a WRITE watch; a broken connection
  must be ended; a handshake must go on.
* **Threads.** The logger's queue has a lock, its flag and its file have none.

PROJECT.json lists the hazards one by one, each at its line, with the properties
that would catch it, or the reason why none does.

## 2. The modules

```
SessionLife  <-- refines --  SessionMgr <-- MCSessionMgr (runs)
                                 ^--------- SessionMgrProofs
ByteStream   <-- refines --  TcpSession <-- SslSession, MsgChannel (extend it)
                                 ^--------- TcpSessionProofs <-- SslSessionProofs,
                                                                 MsgChannelProofs
DefaultTcpSession  <-- refines -- MsgChannel  (instance of it, as the receiver)
        ^--------- DefaultTcpSessionProofs
HttpServerSession <--- HttpServerSessionProofs
HttpClientSession <--- HttpClientSessionProofs
SimpleLog         <--- SimpleLogProofs
```

### SessionMgr, with SessionLife

State: `sock` (kernel), `io` (libswevent's watch of each descriptor: callback,
argument, events), `heap` (session objects by address, so that addresses are
reused), the manager's own members under their names, and where the thread is:
`pc`, `self` (this), `fr` (the descriptor OnConnectReady handles), `alsoRead`.

A handler is one step per stretch of code between two points where the
application may act, or where the outcome of a system call matters:
`OnSessionIOReady` dispatches, `OnWrite...` and `OnRead...` are the results of
OnWrite and OnRead, `OnReadData` enters OnRecvData (`pc = "recv"`) and
`RecvReturns` leaves it. While `pc` is in `Callbacks`, or the loop is idle, the
actions `App...` are enabled: EndSession, SendData, Connect, BindAndListen, in
any number. `EndSession`, `Close`, `BeginSession` are operators that handlers and
application share. OnSessionGC walks the set in address order, as `std::set` of
pointers does: `GCStart`, then one `GCDelete` per element, with the application's
turn (OnSessionWillEnd) before each, and `Cleared` at the end.

`Key` is the conversion to `unsigned int` in AddSession; `AppLenArg` the length 0
that OnConnectReady passes. A connect that is reported ready may be readable or
writable, also if it was refused; that is libswevent over poll or epoll.

`SessionLife` is what the manager promises about one id: unused, live, dying,
gone, in this order, and every ended session is reaped. The mapping
(`LifeOf`) reads the life of an id off the table, the heap and the counter.
`Waste` is an id of a BeginSession that failed.

### TcpSession, with ByteStream

One step per `write()`. Bytes are numbered in the order they are given, so a
buffer is an interval (`base`, `m_len`, `m_sendOff`) and what the kernel took is
the sequence `wire`. `pc` is `"send"` in SendData's loop, `"flush"` in
SendPendingData's. `ended` says why a session was closed. `WatchMayFail` lets
`sw_ev_io_add` and `sw_ev_io_del` fail, which the code only logs; `watchFailed`
remembers that one did, so that the properties about watches say what holds before
and what remains true after. `ByteStream` is the promise: give, carry in order, and
close flushed or cut.

Calls on a session that has ended are left out: TcpSession's `write(-1)` fails
and Close then finds nothing.

### SslSession

Extends TcpSession and overrides what the class overrides. `SSL_do_handshake` is
four external operators over the flights that peer and session exchange
(two of the client, one of the server): it wants to read, wants to write,
advances, or completes. An SSL_write that was interrupted is remembered
(`moved`); the code copies the rest to another buffer, and the repeated write is
then refused (`SslSendPendingBadRetry`), as the mode set in Init does not allow a
moved buffer. `reading` is the SSL_read loop, inside which the application has
its turn and which goes on after a Close.

### DefaultTcpSession and MsgChannel

Bytes are numbered as in TcpSession: `m_data` is the interval `base + 1 .. got`, and
only the heads of messages have a value. The peer sends messages with a legal head,
or a head that GetMessage must refuse. The erase at the start of AppendData and of
GetMessage is `Erased`; the four returns of GetMessage are actions, each with what
OnRecvData's loop does next. A head is looked for wherever the decoder happens to
stand; in the middle of a message it could read anything, and `HeadsAt` allows
that, so a decoder that lost its place would be seen.

`MsgChannel` puts a TcpSession with its direct writes and pending buffers at one end
and a DefaultTcpSession at the other. The stream of the receiver is the sender's
`wire` (`INSTANCE ... WITH total <- accepted, sent <- Len(wire)`), so one message
may be cut at four places: by `write()`, between buffers, by `read()`, and in its
head. Either end may close, and the other sees it.

### HttpServerSession

The peer's stream is a sequence of lines of nine kinds; a read ends after a line
or inside it (`got` counts half lines), so that a CRLF may still be missing.
`m_recvBuf` is what lies between `pos` and `got`. Each branch of Parse and its
three functions is an action; `Returns` is the test of OnRecvData's loop.
`CallProcessHttpRequest` is the rest of the loop body; while `pc = "app"`, or the loop
is idle, the application may answer: `SendResponse`, or `SendResponseStart`, any
number of `SendChunk` and `SendResponseEnd`, in the order of the requests (`owed`
counts those without a whole response), inside the callback for its request, for a
later one, or on its own; and it may close. `Sends` is SendData with SetSentClose
behind it, over what a write may come to (`Outcomes`); like TcpSession and SslSession it
closes a marked session whose data went out at once. `chunked` keeps what the head of
a response under way said of the connection. The variable `https`, fixed at the
start, adds the SSL_read loop that reads on after a Close, drops the close in
OnWrite, and leaves out the chunks, which HttpsServerSession does not have. `Read(n)`
is the reference: what a reader of whole lines makes of the first `n`. It is kept in
the history variable `reads`, which grows by one `ReadLine` with each line sent and
which no step of the code looks at.

ParseRequestLine waits for a CRLF, but looks for the two spaces in all of
`m_recvBuf` (`http_request_decoder.cpp:71`, `:82`). If the second one is behind the
CRLF, the length given to `substr` (`:87`) is negative, so the version is all the rest
of the buffer. `GET /x` alone is therefore illegal; if behind it has arrived the start
of another line that ends, for now, with a space and `HTTP/1.1`, it is legal
(`VersionAtEnd`); a byte less or more, and it is illegal again. The kind `half` is a line
with a legal method and one space, `ver` one whose first space HTTP/1.1 follows, and
`stretched` remembers that a `half` was taken for legal. A first space behind the CRLF
makes the method illegal whatever arrives, and ParseHeadFields looks for its colon in the
line alone, so no other kind is concerned.

### HttpClientSession

The same cuts and actions for the client, with lines of seven kinds and Parse's
branches as the response decoder has them. The status line has the same weakness as
the request line (`http_response_decoder.cpp:71`, `:80`), and as the reason may be
anything a space behind the CRLF is enough: `HTTP/1.1 200` is illegal if nothing with
a space has arrived behind it, and legal otherwise (kind `short`, `SpaceBehind`,
`stretched`). SendRequest is an action of the application between two events, and a
part of ProcessHttpResponse inside one. It writes `content-length` into `m_response`
and sends that object's fields and body, although `m_request` is there for the
purpose; `disturbed` remembers a request that did this to a response whose head was
half received. A session that is not kept alive closes after its first response and
OnRecvData returns; over SSL (`https`) the SSL_read loop may call it again, as on the
server. One that the application closes in ProcessHttpResponse goes on parsing.

### SimpleLog

A section under `m_lock` is one step; reads and writes of `m_startup` and
`m_pFile` are steps of their own. The writer's `pc` is `writer`, that of the
thread that calls Startup and Shutdown is `main`. A condition variable wakes the
writer only if it waits at that moment; `wait_for` may also end by itself. The
clock is a choice.

## 3. The runs

| Run | Shows | Size |
|---|---|---|
| `session_mgr` | safety of the manager: `TableSound`, `CallbacksSound`, `HandlerObjectAlive`, `GCSound`, `NoOrphan`, `DescriptorsOwned` | 3 descriptors, 2 addresses, 3 ids; 457 367 states |
| `session_mgr_live` | `ImplementsLife` (refinement with reaping), `BrokenSessionEnds`, `ConnectIsAnswered` | 2 descriptors, 2 addresses, 2 ids; 10 852 states |
| `msg_channel` | both ends of a connection: order, completeness, watches and SetSentClose of the sender, refinement of ByteStream; messages whole, in order and not held back; every message arrives unless the connection is cut | messages of up to 4 bytes, 6 in all, heads of 2, `m_nMaxMsgLen` 3, failing watches; 132 144 states |
| `ssl_session` | what of the above holds over SSL, and the handshake | sends of up to 2 bytes, 4 in all, failing watches; 16 875 states |
| `http_server` | the requests of a legal stream depend on its bytes only, and what an illegal one may do; when responses, whole or chunked, at once or late, close the session; the handler returns (TCP) | 6 lines, all cuts; 1 460 395 states |
| `http_client` | the responses of a legal stream are those of the bytes, and what an illegal one may do; a request sent between two events carries no body of a response; the handler returns (TCP) | 6 lines, all cuts, requests at any time; 1 286 587 states |
| `simple_log` | no line lost; file and shutdown; liveness of the writer | 2 threads, 3 lines; 112 787 states |

Bounds. Two addresses are enough for one object to be reused while another is dying,
and for the set of ended sessions to have an element before and one after the one
being deleted; with three descriptors one may be closed and reused while two are open.
Three ids outlast the addresses, so ids and addresses part. Six bytes in pieces of up
to four make lists of several buffers with a head that was partly written, direct
writes cut at every place, and two or three messages, of a head alone, with a body,
too long, or with a head that is too short for itself. TcpSession by itself has no
run: `msg_channel` takes all of its steps, and checks its properties on them. Six
lines hold a message with a body and another one behind it, or a request and, behind
it, a request line with one space, the line that completes it and the end of that
head. Lines that no step can tell apart are not all sent: behind an illegal line one
more, or more if that is a `half` or `short`. Three lines from two threads, together
with any number of restarts, reach a queue, a batch and a file that all hold lines.
`MaxId`, `MaxBytes`, `MaxLines` are the bounds in guards, each named where it is
declared. Deadlock is not checked: an application may stop calling, and the bounds end
every behaviour.

### What the code does not do as it says

Five runs expect a violation of a sentence in the repository:

* `session_mgr_key`: "key is sessionid" (`tcp_session_mgr.h:94`), but AddSession's
  pair cuts the id to 32 bits. A session beyond that is not found under its id.
* `session_mgr_connect`: "ok ,connect success" (`tcp_session_mgr.cpp:91`), but the
  error is never read, since `len` is 0; a refused connect begins a session. (The
  next read ends it: `BrokenSessionEnds`.)
* `session_mgr_gc`: "deleted by TcpSessionMgr automaticly" (`tcp_session.h:51`), but
  a session ended inside OnSessionWillEnd of another may be dropped by `clear()`.
* `ssl_session_sent_close`: "closed after sended all pending data"
  (`tcp_session.h:35`), but SslSession::OnWrite does not look at `m_sentClose`.
* `http_server_parse`: "0 OK, http request parse ok" (`http_request_decoder.h:26`),
  but Parse returns 0 in state ERROR, and over SSL it is called again.

The passing runs keep away from the first and the third (`MaxId < UIntMod`,
`~WillEndMayEnd`), and include the others as they are. The proofs take these limits
as hypotheses only where they are needed (section 4).

### Fairness

* The thread of the loop goes on with a handler it is in, and the application's
  callbacks return: weak fairness of the handler steps.
* The loop polls, level-triggered, and in each round serves every ready descriptor
  and the check callbacks: strong fairness of a descriptor's dispatch and of
  `GCStart`, since handlers come in between.
* A peer that keeps the connection reads in the end, so that `write()` takes bytes
  again: strong fairness of a pending write. Without it nothing can be sent.
* In SslSession the peer sends the flights it owes and does not send records
  without end; the handshake, if it keeps being driven, makes progress.
* In MsgChannel the sender's fairness is TcpSession's; a receiver's descriptor is
  reported as long as there is something to read, and OnRecvData's loop goes on:
  weak fairness of `Reads` and `Decodes`.
* In HttpServerSession and HttpClientSession a handler that runs goes on, and the
  application's callback returns; nothing is assumed of its answering.
* The logger's writer and a Shutdown under way go on. `wait_for` ends after a
  second, so the writer looks at the clock at least so often and a delay has
  passed sooner or later: strong fairness of a `_Check` that flushes.

Nothing is assumed of the application, the logging threads or the peer's closing.

## 4. What is proved

TLAPS proves, for all values of the constants that meet the modules' named
assumptions (lengths are natural numbers, a head fits the longest message, `NULL` is no
address, and the like):

* **SessionMgrProofs**. Of every execution, with ids that outgrow the key and an
  OnSessionWillEnd that ends sessions included: `Invariance`, `TypeCorrect`,
  `DeletionIsSound` (no handler's object is deleted under it, none is deleted twice),
  `DescriptorsSound` (one owner per descriptor; entries and watches name live
  objects) and the action property `NothingChangesHands`. With `MaxId < UIntMod`:
  `NoUseAfterDelete` (`TableSound`, `CallbacksSound`: objects are found under their own
  ids) and `Refinement`, that SessionMgr's safety part implements SessionLife's. With
  `~WillEndMayEnd`: `NothingIsLost`. So the two known errors cost sessions
  that cannot be found or ended by id, and objects that are never deleted; they do not
  lead to a use after delete.
  `TableSound` and the others are not inductive: closing a session by the id an object
  remembers is harmless only if ids are unique (`IdsSound`), an object with a socket
  must have an entry, under the key of its id (`OpenIsInTable`, `EntriesSound`,
  `WatchesSound`, which say what `TableSound` and `CallbacksSound` say, for keys in
  place of ids), and a handler still counts on facts from before its callback
  (`FrameSound`). The invariant splits into a part about the stores and a part about
  the thread; a lemma says what EndSession and BeginSession do to the first, and each
  action then follows. NothingChangesHands relates the two states of a step: an
  object keeps its id and descriptor until the step that closes and unwatches the
  descriptor, a watch or a table entry is taken away before it is given to another
  session, and an object is deleted only after OnSessionWillEnd or by the destructor.
* **TcpSessionProofs**: `Invariance`, `EveryByteOnceInOrder`, `SentCloseIsSafe`,
  `WatchIsSound`, and `Refinement` of ByteStream. The heart is `Continues`: the list
  of pending buffers continues the wire without gap or overlap. It is a statement
  about neighbouring buffers, with lemmas for appending at the tail, writing a part
  of the head and dropping it, so no recursion is needed. `FrameSound` adds that a
  direct write has the list to itself. The invariant comes in two layers:
  `StreamInv` is what any class that keeps the list must keep, and `IInv` adds
  `SentCloseWaitsForData`, which SslSession breaks. `WritesComeToAnEnd` is about the
  loops, see below.
* **SslSessionProofs**: `HandshakeIsDoneFirst`, `SslStreamIsSound`, `SslRefinement`.
  Most steps of SslSession are steps of TcpSession for the variables they share
  (`BaseStep`), so `StreamInv` is kept by the lemmas above; the steps that are
  not are a close through CloseState and a flush that leaves a marked session open.
  `HandshakeInv` is proved beside it from the flights read and written.
  `SslWritesComeToAnEnd` carries the variant of TcpSession's loops over.
* **DefaultTcpSessionProofs**: `DecoderSound` (messages are those sent, whole, in
  order, none held back) and `BufferBounded`. `StreamSound` says that messages cover
  the stream without gap or overlap; with it, a decoder that stands where a message
  starts reads that message's own head, and stands at the start of the next one
  afterwards. BufferBounded follows: what the loop leaves is the beginning of one
  legal message. So does `OnRecvDataComesToAnEnd`.
* **MsgChannelProofs**: `SenderRefinement` and `ReceiverRefinement`, that the channel
  implements each end's own specification, so that both ends' invariants hold
  together (`ChannelSound`, `ChannelKeepsSession`); and from the two
  `SentCloseDelivers`, which neither end can state alone: after SetSentClose has
  closed the sender, a receiver that has read all has processed every message.
* **HttpServerSessionProofs**: `TypeCorrect`; `RequestsAreTheBytes`; `ParseOkOverTCP`;
  `ResponsesClose`; `OnRecvDataComesToAnEnd`. The second compares the decoder with the
  reference, line by line: `DecoderAgrees` says, for each `m_status`, what the
  reference has made of the lines before `pos` (a decoder in state BODY without a
  content-length, say, stands where the reference has already found an illegal line),
  `ReadsSound` that the reference's states follow from each other by `ReadLine` and
  that an illegal one is final, and `HandlerSound` what OnRecvData leaves behind: no
  whole line, except of a session that is closed. Each branch of Parse then is one
  `ReadLine` of the reference, or none, until a request line with one space is taken
  for legal. There the two part, and `RequestsAreTheBytes` says what is left, which
  `IsAhead` keeps: the reference has found an illegal line and stays with the requests
  ahead of it, which were processed, and the decoder may process more behind them. So
  the theorem is exact for legal streams however they are cut, exact for illegal ones
  without such a line, and a prefix for the rest. `ParseOkOverTCP` is the sentence of
  the header that the run `http_server_parse` refutes over SSL: over TCP it holds.
  `ResponsesClose` rests on `RequestsSound` and `ResponsesSound`: what `m_keepAlive`,
  `m_sentClose`, waiting data and a response under way remember of the requests and of
  what was said in answer to them.
* **HttpClientSessionProofs**: `TypeCorrect`; `NoOldBody` by `BodySound`, where in
  Parse `m_response` can hold a body at all; `ResponsesAreThoseReceived`, by the same
  argument as on the server and with the same exception, a status line without a reason,
  with the responses behind the first one of a connection
  that closes, and the requests that disturb `m_response`, set apart;
  `OnRecvDataComesToAnEnd`.
* **SimpleLogProofs**: `Invariance`, `LinesAreKept`, `ShutdownIsSafe`,
  `ShutdownComesToAnEnd`, for any set of threads and any number of lines. The step
  that needs thought: a writer that stops has seen the queue empty after `m_startup`
  was cleared, so what is in the queue later was pushed after Shutdown (last conjunct
  of `FrameSound`).

The theorems named `...ComeToAnEnd` and `...ComesToAnEnd` are the part of liveness
that can be proved here. Each gives a natural number (`LoopVariant`, `JoinVariant`) that
every step of the loop lowers and that nothing else that can happen meanwhile, a
callback of the application, a peer or another thread, raises; and the condition
under which a loop still running has a next step. With the weak fairness of the loop's
steps this is why it ends, for all values of the constants; that last inference is
temporal and stays with TLC (`OnRecvDataReturns`, `EveryMessageArrives`,
`EveryByteSent`, `SentCloseEnds`, `ShutdownReturns` in the runs). The variants are those one
would write in a loop's comment: bytes or lines that are left, then the place in the
body. Over SSL OnRecvData is called again as long as SSL_read gives data, so the HTTP
ones speak of TCP.

Only model-checked, then: all liveness under fairness, with the liveness part of the
refinement of SessionLife. Every invariant that a passing run checks
is stated by a theorem.

## 5. What is not modelled

* A server application that answers requests out of order, or calls SetKeepAlive
  itself.
* The values of head fields other than content-length and connection, URL and form
  parameters, the text of messages and logs. The strings of `utils` and `easyconfig`:
  pure functions without state. (One thing a reader should know: UrlEncode writes the
  hexadecimal digits A to F, while UrlDecode takes decimal digits only, so the two are
  not inverse, and `%2F` in a query string or a form stays as it is. The repository
  nowhere says otherwise, and no handler's control depends on it.)
* What HttpClientSession's `m_request` holds beyond the field `connection`: method,
  URL and version only go into the text. A request that is only partly written.
* SSL_shutdown and renegotiation; what SSL_read does with a descriptor number that
  was closed and is in use again.
* A failing `getsockopt`; a `sw_ev_check_add` that returns NULL, after which ended
  sessions would wait for the next BeginSession to register OnCheck; an event loop
  that runs on after the manager is destroyed; use of the manager from several threads
  (the library's README leaves that to the user); two threads in the first
  `GetInstance`.
* Messages of DefaultTcpSession whose head is no length of theirs but a legal one: the
  peer would then mean another message, and nothing can be said.

The hazards in PROJECT.json say which of these matter.

## 6. The plan

Done: SessionMgr, TcpSession, SslSession, DefaultTcpSession, MsgChannel, SimpleLog,
HttpServerSession and HttpClientSession, with the abstract specifications and the
proofs above. Left, in this order:

1. The composition of SessionMgr with TcpSession's bytes, so that `OnWriteDone` and
   `OnWriteCloses` are decided by the list of pending buffers, and several sessions
   send at a time; and of HttpServerSession's responses with them.
2. The loops over SSL: a bound on what one SSL_read loop may be given, and the
   variants of the HTTP handlers under it.
3. `utils`, as functions over characters, if it grows.
