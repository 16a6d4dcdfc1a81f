# wsrv: a verification development

wsrv is a small C++ web framework (`src/src`, `src/include/wsrv`): an HTTP server on
asio, an application layer with routes, blueprints and middleware, cookie sessions
in SQLite, an HTTP client, a mailer, and an example application (`src/app`). This
directory holds TLA+ models of its parts, TLC configurations that check them on
small instances, and TLAPS proofs for every instance. `PROJECT.json` lists the
runs, the lines of the source behind every definition, the hazards the properties
are for, what the checks found, and the theorems.

## The system

| Part | State it keeps | Operations | Hard because of |
|---|---|---|---|
| Server core: `server_impl`, `io_service_pool`, `connection_manager`, `detail/connection.hpp` | acceptor, socket being accepted, set of connections under a mutex, one thread per io_service, parser/request/response of each connection without a lock | `run`, the accept loop, read/parse/handle/write/close, `stop` from a signal or any thread | handlers of several threads; a stop sequence that races with accepting and reading; exceptions in handlers |
| Request parser: `request_parser` over `http_parser.c` | url, headers, body collected so far, `is_complete_` | `parse` once per chunk, callbacks, `decode_message` | chunks cut anywhere; an uninitialised flag; errors noticed late |
| Sessions: `session`, `sqlite3_session_manager` | the `sessions` table; in a request a stack of `Session` objects, each with its own copy of a row | constructor, `add`/`remove`/`clear`, destructor, expiry, garbage collection | nested copies of one row; one Set-Cookie header; requests in flight together; failing statements, exceptions, crashes |
| Authentication and CSRF: `auth/authenticator`, `middleware/csrf` | entries `user_id`, `csrf_token` of a session | require, check, login, logout, token check | they are sessions around sessions |
| Application and routing: `application`, `route`, blueprints, `middleware.hpp` | ordered routes with handlers and middleware | registration, `handle`, `url` | nested prefixes, order of routes, optional elements, capturing groups |
| Response: `response` | status, headers (a map), body | `write`, `setCookie`, `encodeFile`, stock replies | one value per header name |
| HTTP client: `http_client`, `http_client_request`, `response_parser` | a request being built; one blocking connection; a parser | setters, `execute` | answers cut into blocks or cut short; no timeout |
| Mailer: `mailer`, `smtp_socket` | a dialogue with unread lines in a buffer | `authenticate`, `submit` | replies of several lines; refusals and lost connections in the middle; retries |
| Logger: `util/logger` | the log and its compressed archives on disk, a stream, a mutex | `log` with rotation | several threads; failing calls and crashes within a rotation |
| Locale: `middleware/locale` | supported languages | `resolve` | four sources in order, an index used as a truth value |
| JWT, url/MIME/crypto utilities | none | pure functions | |
| Example application: `app/` | pool of database connections; pages | `acquireConnection` and the deleter | condition variable, borrowers and wakeups |
| Vendored: asio, `http_parser.c` | | | third-party; external actions here |

The parts meet as follows. `HttpConnection` feeds `RequestParser` and calls the one
`RequestHandler`, normally an `Application`, which runs the middleware chain of the
matching route. `decode_message` fills the request's dictionaries before that, and
`LocaleResolver` reads them. Middlewares and handlers open `Session`s, which change the
response's headers when they are destroyed. The constructor of `ServerImpl` takes
three io_services in turn and every accepted socket stays on the third, so all
handlers run on one thread; what is concurrent is the accept thread, the signal
thread, and threads that call `stop()`.

## Modules

| Module | Models | Checked by |
|---|---|---|
| `HttpServer` | the server core | `MCHttpServer`, `server_*.cfg` |
| `HttpServerProofs` | its theorems | TLAPS |
| `RequestParser` | parser callbacks and `parse()` | `MCRequestParser`, `parser_*.cfg` |
| `RequestParserProofs` | its theorems | TLAPS |
| `Session` | sessions, authentication, CSRF, their browser | `MCSession`, `session_*.cfg` |
| `SessionProofs` | its theorems | TLAPS |
| `ConnectionPool` | `app/connection_pool.hpp` | `MCConnectionPool`, `pool.cfg` |
| `BorrowSpec` | what a pool promises; `ConnectionPool` implements it | `pool.cfg`, `PoolLends` |
| `ConnectionPoolProofs` | theorems about the pool | TLAPS |
| `RequestDecoding` | `decode_message` and below: paths, queries, cookies, forms, multipart | through `Application` |
| `Routing` | route patterns, blueprints, reverse routing | through `Application` |
| `Application` | a request from its decoding to its handler, with `LocaleResolver`; composes the two above | `MCApplication`, `application.cfg`, `blueprint_prefix.cfg` |
| `FileLogger` | `FileLogger` of `util/logger` | `MCFileLogger`, `logger.cfg` |
| `FileLoggerProofs` | its theorems | TLAPS |
| `Mailer` | the SMTP dialogue | `MCMailer`, `mailer.cfg` |
| `MailerProofs` | its theorems, about replies of one line | TLAPS |
| `SubmitProofs` | its theorem about `submit()`, for replies of any length | TLAPS |
| `HttpClient` | the client with the response parser | `MCHttpClient`, `client.cfg` |
| `HttpClientProofs` | its theorems | TLAPS |

In each module an operator whose comment begins with "A bug:" is a variant of the
definition that follows it; it is not part of the specification. `PROJECT.json`
("mutants") names for every property the variant that breaks it, which shows that
the property depends on that code.

### HttpServer

A worker is a thread: one per io_service and one per user thread that calls
`stop()`. `pc` says which step of which handler it is in; steps end where another
thread can interfere, at calls on sockets and the acceptor and at the manager's
mutex. A connection has at most one operation outstanding (`op`), whose result
(`res`) is set by the peer (`OpCompletes`), by `Close`, or at once when the socket is
not open. asio is external: a handler never runs inside the call that completes it,
`close()` cancels, and an exception that leaves a handler ends the process.

What the request says is abstracted to the answer of the parser and
`decode_message` (`ParseResults`: not complete, refused, decoded, or an exception, which
leaves the handler because the call is not in the `try`), what the application does to
how `handle()` ends (`HandlerOutcomes`). Calls on one asio object are atomic; the code calls
`acceptor_.close()` and `socket_.close()` from other threads than the ones that use
them, which asio does not allow, and what a torn call would do is outside the model.

### RequestParser

One action consumes one byte of the message, and a chunk may end after each
(`Return`). `mark` says whether the callback for the current element was called
in this chunk already; a part of several bytes is one callback. `is_complete_`
starts with either value, since nothing initialises it. Methods, versions and
separators carry no data and are folded into the steps at the ends of elements.
A header with an empty value is in the model: it is never entered into `headers_`
and its name is put in front of the next header's name; `HeadersFaithful` is stated
for requests whose headers have values.

### Session

The browser sends requests with the cookie it has (`Send`); the server serves one at
a time (`Begin` ... `Respond`) along the chain of its route, constructing a session at
every element that opens one and destroying them in reverse (`SessionDtor`), on
return and on unwinding. A session's data is a function from keys to numbers with 0
for "absent"; ids and tokens are numbered in the order they are generated, so a
collision of random ids, and the four attempts of `uniqueSID`, are left out. The
cookie's `Expires` and the row's `ts` are kept; `Lifetime` stands for both settings,
which have one default. Garbage collection may run whenever a session is opened.
`granted` and `removed` are history variables: who logged in where and has not
logged out, and which rows a destructor deleted.

The model also shows two behaviours that nothing in the repository speaks about:
`add()` does not overwrite, so logging in as another user in a session that has one
leaves the first user in it; and a failing read leaves an old session empty, whose
destructor then deletes it.

### ConnectionPool

`Lock` is every acquisition of `mutex_`, the one inside `wait()` included; `Wait`,
`Take`, `Push` and `Notify` are what is done under it. `Destroy` happens when no
handler runs, as in `main()`. `BorrowSpec` is the promise: free connections and
loans.

### RequestDecoding, Routing, Application

The pure code of `request_parser.cpp` and `route.cpp` is operators on sequences of
characters; a percent-encoded character is one character. `url_encode` of one gives
another (`Twice`), since it encodes the percent sign. A multipart body is a sequence in
which `"cut"` stands for CRLF-- and `"bnd"` for the boundary, which is what
`parse_mime_data` looks for; its first line is read as the code reads it, with the EOF as a
byte when there is no more. `raw.length` is the number in the Content-Length header, 0
when a request has none, as a chunked one: `FormParses` and a form go by it and not by the
body. `FormThrows` says when `decode_message` ends in an exception (`"terminate"`). A path is split into segments, so that a pattern's regex
becomes the set of ways in which its elements can cover the segments (`Spans`), of
which std::regex takes the one in which early elements take most (`Best`); the words a
parameter accepts are a set, and `text` is its regex as it is written, which `url()` writes
for an element without a name. `NDEBUG` says whether `assert(parse(...))` is compiled at
all: in a Release build, the default of `CMake/setup.cmake`, it is not, a route has no
elements and matches nothing but `/`; the runs are about the build with assertions.

`Application` has one action for decoding, one per middleware (`next`), one for the
routing engine at the end of the global pipeline and one for the handler. Middleware
other than `LocaleResolver` goes on or answers by itself (`Refusing`); what sessions do
in it is the subject of `Session`. Each request of the instance carries what its
client meant (`meantGET`, `meantPOST`, `meantCOOKIE`), so that `Faithful` compares the
dictionaries with the encoder a browser uses and not with the decoder's own code.

### FileLogger

A file is the sequence of the numbers of its records; `gz[n]` is `.n.gz`, `raw1` the
uncompressed `.1`. Every call on the file system in `rotateLogs` is a step of its own,
because the process may die before and after it and because it may throw. A
compression may fail in three ways: with a result of false and nothing or a part
written, or in `gzclose`, whose result is ignored, with an incomplete archive. After an
exception the stream is closed and stays so until the next rotation; after a restart
the constructor opens the log again.

### Mailer

A call is the list of steps it still has to take; `Send` and `Receive` alternate. A
line has its code, whether it is the last of its reply, and the command it answers.
`waitForResponse` takes one line. `Passes` is the check after it: several commands
accept any line that is not the last (`Lenient`). The server is external and always
answers a command it gets: positively when that is possible, or by a refusal. `multi`
remembers that a reply that is read as one line had several; the properties that
fail then are stated for `~multi`, and `SubmitSound` is not: whatever is left over, a
`submit()` that returns has delivered its message, if that has a recipient. A lost connection makes `receive()`
run off its end, which is undefined behaviour and a state of its own.

### HttpClient

The caller sets headers and a body, then `execute()` connects, writes and reads.
A turn of the loop in `readResponse()` is `ReadBlock`, which takes `BufSz` items, fewer
only if the connection ended, a `ParseItem` for each of them, and `EndTurn`, which
throws, goes on or decodes. An item is a byte of a name, a value or the body, or a point
at which http_parser calls back; it stands for its place in the answer (`Place`), from
which its byte and the next place follow (`Text`, `After`). http_parser and the peer are
external. The steps are per item and not per block so that a proof can follow them; the
peer may act between two of them, which changes nothing, since a block was read before.
The peer may send a body shorter than its Content-Length, bytes after its message, or
something malformed, and may close or reset the connection anywhere.

## Runs

Some properties of the runs are conjunctions of named parts, which the text names where
it speaks of one part: `MessageEnds` (with `EndOfMessageDetected`), `RequestStored`
(`PageTokenStored`, `LoginKept`), `TableSound` (`RowsNonEmpty`, `NeverResurrected`),
`Orderly` (`InStep`), `ExchangeFaithful`
(`RequestFaithful`, `ResponseFaithful`) and `OutcomeRight` (`CutOnlyByPeer`,
`MalformedRefused`). The type invariants of the parser, sessions, mailer, application
and client are conjuncts of `MessageEnds`, `TableSound`, `Orderly`, `Served` and
`OutcomeRight`; that of the pool is proved.

Passing runs:

- `server_safety`: three io_services, two connections, a signal and one caller of
  `stop()`, all outcomes. Three services put signal, accept and connection handlers
  on different threads; two connections are needed for one to be closed by
  `stop_all` while another is accepted; the signal and the caller run two stop
  sequences at once.
- `server_live`: two services, one connection, a signal and one caller of `stop()`:
  `run()` returns after a stop, a started connection is closed in the end, and nothing
  ends the process but three calls of a read handler (`CrashCauses`): `decode_message()`,
  `remote_endpoint()` on a socket that a stop has closed or a peer has reset, and a handler
  that throws what is not caught.
- `parser_chunks`: all requests with up to two headers, names of one or two bytes,
  values of up to two, a url of three, bodies of none or three, an empty line first or
  not, malformed in the headers or the body or not; every cut. Two headers are needed
  for one to end where the next begins, three bytes for a cut with something on both
  sides of a middle.
- `session_chains`: three requests, two in flight, clock to 2 with a lifetime of 1, so
  that a row is valid, expired but present, and collectable. The routes are like
  those of the application and the tests, and some in which a session that only
  looks encloses one that writes.
- `session_faults`: every statement may fail.
- `logger`: two threads, logs of two records, three archives, eleven records, three
  failures or crashes. The three archives are full at the seventh record, and the
  rotations before the ninth and the eleventh drop the oldest one, with failures
  possible in several rotations.
- `mailer`: `authenticate()` by each method, two calls of `submit()` with one or three
  recipients, replies of one or two lines (three for EHLO). A second call is what a
  line left over by the first can disturb.
- `application`: two applications, one with overlapping patterns, optional elements, a
  wildcard and groups, one with blueprints nested three deep; all paths of up to four
  characters out of slash, name, dot and their encoded forms after the first slash, all
  paths of up to three names, nine dictionaries as queries and as forms, multipart
  bodies, whole, cut and with broken first lines, each with a Content-Length that is
  right, absent, shorter, longer or too large, cookies, and combinations of the sources of
  a locale. `Served` finds the route that must serve among those that stand in the source
  of the application, in the order in which they stand (`Staged`, `Before`), with a
  definition of fitting of its own (`Fits`): which of several routes answers, and what has
  run before it, follows from that alone. The prefixes and the `?` are those of the code,
  which differ from what its comments say (`blueprint_prefix`, and Routing below).
- `client`: blocks of three items, so that names, values and bodies are cut; the three
  framings, bodies cut short by their own headers, surplus bytes, malformed answers,
  repeated and empty headers; two calls of setters.
- `pool`: three threads, two connections, two spurious wakeups. Three threads with
  three calls each are enough for one that holds, one that sleeps and one that
  overtakes it.

Deadlock is checked in the server and parser runs. In the others a state without a
successor is a browser that has sent its requests, threads that have made their calls,
a request that was answered or a mailer that was destroyed, and deadlock checking is
off.

Violations, each against a line of the repository (details in "findings"):

| Run | What happens |
|---|---|
| `server_stop_crash` | `stop_all` closes a socket just before `remote_endpoint()`, which throws outside the `try` |
| `blueprint_prefix` | the children of a blueprint get the prefix it was given, not the combined one |

More disagreements follow from the same models without a run of their own; the
property named is stated for the cases without them.

- Server. `decode_message()` is called outside the `try`, like `remote_endpoint()`: a POST
  whose multipart body is empty or begins with a line of one byte, or a chunked one with a
  Content-Length above `INT_MAX`, ends the process (`CrashCauses`, `FormThrows`). A
  connection accepted during `acceptor_.close()` survives `stop_all`
  (`OneLeftOpen` shows that it is at most one). The documented `HttpResponseException`
  (`readme.md:29`) is not derived from `std::runtime_error` and ends the process. `run()`
  returns with cancelled operations still queued, although the comment in
  `do_await_stop` says they finish first.
- Parser. A cut inside or right after the url loses what came before it (`UrlIsSuffix`). An
  empty line as the first chunk is answered OK when the uninitialised flag happens to be
  set (`EndOfMessageDetected`).
- Sessions. A session cleared inside `CSRFMiddleware` is written back by the session
  around it (`NeverResurrected`). When a storing handler runs inside `CSRFMiddleware` on a
  first visit, both sessions make an id and the outer Set-Cookie replaces the inner one
  (`NewSessionAnnounced`).
- Decoding. Form fields are url-encoded once more where they should be decoded; a query is
  decoded before it is split; CRLF-- in a part is dropped. The form of a chunked request,
  which has no Content-Length, is lost, and of any other as many bytes count as that header
  says. A multipart body without its first boundary is dropped, and the request served as
  if it had none, since `parse_form_data` ignores the result (`request_parser.cpp:506`)
  (`Faithful`).
- Routing. Groups in a parameter's regex shift the attributes; `url()` drops what follows a
  missing optional element and writes the regex of one without a name (`UrlInverse`). A `?`
  makes its own element optional, where `route.hpp:26` and `readme.md:43` say "and the
  subsequent elements": `/a/{x}?/b` does not match `/a` (`route.cpp:163`), and `Served`
  follows the code. A `?` after characters, which `readme.md:43` allows, becomes part of
  their regex. Names of routes in blueprints are not registered. A global `LocaleResolver` runs before there are route attributes.
- Locale. The index of a supported language is used as a truth value
  (`locale.cpp:62`): the first language of a route is ignored and an unsupported one
  accepted (`LocaleChosen`).
- Logger. The raw log is deleted after a `gzclose` that failed, against the comment at
  `logger.cpp:97`; a second fallback overwrites `.1`, against the one at `logger.cpp:100`
  (`LossBounded` bounds both).
- Mailer. A refusal of two lines passes the check of the password (`FailuresTold`); a lost
  connection does not throw `SMTPError`, as `mailer.hpp:175` says, but is undefined.
  `submit()` does not ask for a recipient; a message without one can be taken for
  delivered after replies of three lines (see `SubmitProofs`).
- Client. An answer cut short by the peer is returned like a whole one
  (`CutOnlyByPeer`); the port of the url is not used; a protocol other than http and https
  leads to a call on a null pointer.

### Fairness

`HttpServer!Fairness`: a thread that can run does (weak fairness per worker), and a
completed handler is not passed over for ever, since an io_service queues handlers
first in, first out (strong fairness per handler). `handle()` is assumed to return.
`StopTerminates` needs no more. `ConnectionResolved` also needs clients that finish
or hang up (`ClientFairness`): the server has no timeout, so a silent client keeps
its connection for ever. `ConnectionPool!FairSpec`: threads run and handlers finish
with their connection. Calls and spurious wakeups are bounded; with an endless
stream of newcomers `std::mutex` and `notify_one` do not promise that a given
borrower is ever served. `Mailer!FairSpec`: the caller's thread runs, and a server that
is there answers; nothing is assumed of a server that went away. `HttpClient!FairSpec`:
the caller's thread runs, and the peer closes the connection in the end, as the
`Connection: close` of every request asks it to; the client has no timeout, and without
this `CallEnds` fails.

## Proofs

TLAPS checks every proof; the theorems hold for any pool size, any set of
connections, stopping threads, borrowers, requests, messages and routes within the
assumptions named below, and any bounds. The inductive invariants were model-checked on
the runs' instances before they were proved.

`HttpServerProofs`: `Spec => []Inductive`, and from it `TypeOK`, `IterationSafe`,
`OpenManaged`, `ImplicitStrand`, `OneLeftOpen`. None of these is inductive alone. What
is added: the mutex is held exactly in the loop of `stop_all`, and what the loop has
passed is closed (`MutexInv`); `async_accept`, its handler and `start` form one thread
of control, so at most one connection is between the operating system and the
manager (`AcceptInv`), which is why at most one can escape a stop; a handler works on
a connection only while no operation is outstanding on it, and connection handlers
run on one service only (`HandlerInv`); stopping io_services comes after closing the
acceptor and the connections (`StopInv`). Assumptions: a pool size of at least 1 (the
constructor of the pool throws otherwise) and distinct names.

A second invariant, `ExchangeInv`, follows one exchange and rests on the first. A
connection with a response is only written to and stopped (`AnsweredInv`), which gives
the action property `OneExchange`. An operation is aborted only by closing its socket
(`AbortedInv`), and while the server accepts, a socket is shut down or closed only by the
last steps of its own handler (`EndedInv`); hence every exit from a handler of an open
connection leaves an operation behind (`NoneForgotten`), and when the process has crashed
the handler is at one of the three calls, at `remote_endpoint()` only after a stop has
closed the acceptor and the socket or with a peer that may reset (`CrashCauses`).

`ConnectionPoolProofs`: `Spec => []Inductive`, hence `TypeOK`, `Conserved`, `DestroyedClean`,
`NoLostWakeup`, and `Spec => Lends`, the refinement of `BorrowSpec`. Added to the
properties: who holds the mutex is in a critical section and the reverse, a
`ConnectionPtr` is set from `Take` to `Push`, and threads are inside only while the
pool is up. `NoLostWakeup` counts: `Push` adds an idle connection and a thread that
will notify, `Notify` trades itself for a woken thread, a thread goes to sleep only
on an empty queue. Assumption: finitely many threads.

`FileLoggerProofs`: `Spec => []IInv`, hence `TypeOK`, `KeepsAtMostMaxIdx`, `AgeOrder`,
`LossBounded` and that one thread is inside `log()` at a time. Added to the properties: a thread inside
has the mutex (`Exclusive`), so the loop counter and the files belong to it; the log
exists when the stream is good and until it is retired (`Present`); the slot of the
oldest archive is free when the loop starts (`OldestGone`), without which the first
turn of the loop could make an archive too many. `AgeOrder` needs that a shift only moves
an archive into the gap above it, that what is compressed is the log, which is newer
than all archives, and that a broken compression leaves a beginning of the log
(`TruncatedFile`) whose first record is the log's.

`LossBounded` rests on two more invariants. `SizeInv`: the log has the newest records and no
file has more than `MaxSize`. `CountInv`, for every m: of the m * `MaxSize` records before
those of the log, at most `MaxSize` for every fault are in none of the first m archives. What
these archives are depends on how far the rotation is (`Levels`, `Older`): above the gap an
archive is one place up already, and the file that goes next no longer counts. So a shift
changes nothing (`LevelKept`), the compression of the log adds the `MaxSize` records that a
level is longer, and what interrupts the loop, an exception or a crash, costs one level,
which is one fault (`LevelLost`, `Interrupted`). Assumptions: a positive size and number of
archives, and names that are not files.

`RequestParserProofs`: `Spec => []Inductive`, hence `BodyFaithful`, `HeadersFaithful`,
`UrlIsSuffix` and `MessageEnds` for every request and every way to cut it. Added: the byte
to come lies in the element that `phase` names (`WireInv`); `is_complete_` means something
only from `on_message_begin` on (`CompleteInv`); a url under way in this chunk is a
stretch that ends at the position (`UrlInv`); the header being read is in the two
`current_header_` strings, and the ones before it are in `headers_`, under each name the
last of its values (`HeaderInv`, where `LastOf` names the index that `HeaderMap` chooses,
which is unique). Assumptions: urls and header names are not empty.

`MailerProofs`: `Spec => []Inductive`, hence `Orderly` and `FailuresTold`. Added: a call
that runs has no result yet (`CallInv`); one line waits and it is the last of its reply,
but for EHLO and HELO, which are read to the end (`LineInv`); where the server is in the
login is told by how many steps are left (`LoginInv`); BODY is the last step of a call, so
that what is delivered belongs to the call under way or to one that returned
(`DeliveryInv`). Assumptions: a reply has at least a line, recipients are addresses. The
number of lines is not bounded, nor that of the recipients.

`SubmitProofs`: `Recipients => (Spec => []SubmitSound)`, where `Recipients` says that
every message has one. The invariant is `SubmitInv`. Until a line is left over the
dialogue is that of `MailerProofs`. After that, a `submit()` which returns has read a 2xx
for RCPT, a 3xx for DATA and a 2xx for the body. Either these were sent in answer to its
own steps, and the server has the message (`AddressingInv`, `DataInv`, `BodyInv`); or they
were left over. Among waiting lines a 3xx comes from AUTH, USER or DATA only; no 2xx
stands right before a 3xx of USER, and no 3xx of AUTH right before a 2xx (`StreamInv`). So
what a login leaves never has a 2xx, a 3xx and a 2xx in this order, and a call that is
behind fails before it has read all three (`Behind`). Without a recipient nothing needs
the first 2xx: let USER be answered by three lines of 3xx. PASS reads the second, MAIL
passes over a line that is not the last, DATA takes the third for its own answer, the body
the 2xx of PASS, and `submit()` returns without a delivery; TLC finds this with replies of
three lines, not of two. Hence the hypothesis.

`SessionProofs` is about sets of routes, which the theorems take as hypotheses. They have
to: sessions of one request that have one cookie each have a copy of the row, and the
outer one is written last, so that in some chains it undoes what the inner one did (see
the disagreements above). `RoutesOrdered`: no session that may be written back encloses
one that may be deleted, and none is written back within a logout. `OneChange`: at most
one session of a request changes. `FormsInnermost`: `CSRFMiddleware` and the login enclose
handlers only and are enclosed by sessions that only look. `MCSession` has TLC evaluate the
three for the routes of both runs. From `RoutesOrdered` come `TableInv`, hence
`NeverResurrected` and `TableSound`, with failing statements, and without them `AuthSound`
(a logout whose statement fails is lost); from `OneChange` `NewSessionAnnounced`; from the
three and no failures `RequestStored`. The invariants: the stack and the elements still to
be called are the chain of a route (`ChainInv`); a session has the cookie's id or a fresh
one that neither a row nor another session has, and only some elements modify or empty
one (`ObjectInv`); a session that will be written was not deleted (`WriterInv`); what will
be written about a user is granted, and a logout that found nobody logged in still finds
it so (`GrantInv`); a row that the request created is announced and the sessions left are
quiet (`AnnounceInv`); a token or user is in the innermost session, which nothing has
closed yet, or in the row the client will have a cookie for (`StoredInv`). Assumptions: a
chain ends in its only handler, user ids are not 0.

`HttpClientProofs`: `Spec => []Inductive`, hence `ExchangeFaithful` and `OutcomeRight`, for
every answer, block size and end of the connection. The items on the way are those of
consecutive places, from the one that http_parser has reached (`at`) to the one that the
peer sends next (`QueueInv`), so that what was parsed is told by `at` alone: the status and
the body are their beginnings up to it, the parser is stopped with an error exactly after a
refused byte, and paused exactly after a complete message, be it in the middle of a block
(`FlowInv`). The loop goes on only with a parser that is neither (`LoopInv`); a block of no
items is read only when the connection ended, so that `is_complete_`, which nothing
initialises, is not looked at by the loop before `on_message_begin` has set it. `HeaderInv`:
the header before `at` is in the two `current_header_` strings and those before it are in
`headers_`, of several with a name the last; it holds for answers whose headers have
values. For the request, `SetInv` says what any sequence of setter calls leaves.
Assumptions (`ClientAssumption`): the status and the names are not empty, a body is not
longer than its Content-Length (what is beyond is `extra`), only a chunked body can hold a
byte that http_parser refuses, and bytes follow only a refused one or a message that has
an end of its own.

Only model-checked:

- Liveness: `StopTerminates`, `ConnectionResolved`, the pool's, the mailer's and the
  client's, since the prover has neither fairness nor ENABLED.
- Everything about `Application`: `Routing` walks nested blueprints with a RECURSIVE
  operator, which the prover does not take. The inputs are bounded data and every one is
  checked.

## Plan

Done: the server core, the request parser, sessions, the pool, the logger, the mailer and
the client, with proofs; decoding, routing and the application, model-checked. Left:

1. `Routing` without RECURSIVE operators, so that `PathResolved` and `UrlInverse` can be
   proved for nested blueprints of any depth.
2. An abstract connection manager that `HttpServer` implements.

## Not modelled

Vendored asio and `http_parser.c` beyond their use, which are most of the repository's
lines. Cryptography, JWT, base64, MIME tables, zlib streams, url parsing of the client
and the formatting of mails and responses: pure conversions or third-party calls that
keep no state. `client_async.cpp`, which is not part of the build and has no header.
Database schema, pages and GPX import of the example application: sequential code whose
only shared state is the connection pool. The lifetime of the handler object, which
`setHandler` takes over although the example passes a local (`server_impl.cpp:42`).
