# A specification of basic_ws_https_server

TLA+ models of the server in `src/`, the TLC runs that check them on small
instances and the TLAPS proofs that hold for every instance.

## The system

The server is a library around boost::asio. Threads of an `io_service` pool run
its handlers; the application (outside the repository) hands in a bridge for
HTTP requests and callbacks for WebSocket events.

| component | source | state | operations | correct when |
|---|---|---|---|---|
| `WebServer`, accept chains | `webserver.cpp` 12-42, 131-179 | two acceptors, `params_` | `Start`, `Stop`, the handlers of `async_accept` | an open acceptor always has one accept or one handler under way; a connection has its own client's address; `Stop` ends both chains |
| `WebServer`, registry | `webserver.cpp` 44-58, 106-127, 183-197 | two maps of `weak_ptr`, `ws_conns_mx_` | `WSPush`, `WSClose`, `WSAddSession` | a live connection is found, a dead one is not used and is forgotten |
| `HTTPConnection` | `HTTP/http_connection.cpp` | socket, buffer, request, response, parser | `Start`, `do_read`, `do_write`, the upgrade, `stop` | one operation on the socket at a time; every message is answered, in order; only a handshake opens a WebSocket |
| `HTTPParser`, `HTTPRequest` | `HTTP/http_parser.cpp`, `HTTP/http_request.cpp` | automaton state, fields read so far | `Parse`, `Reset`, `fill_request`, `isWSHandshake` | the request is the one the client meant however the bytes were cut |
| `WSConnection` | `ws/ws_connection.cpp` | `send_q_`, `send_q_mx_`, `closed_`, socket | `Start`, `handle_read`, `write`, `handle_write`, `stop`, destructor | one writer for a non-empty queue; the stream keeps the order of the pushes; `stop` acts once; nothing is left behind |
| `Connection` | `connection.cpp` | socket | `_cancel`, `_shutdown`, `_close` | the socket of a stopped connection is closed |
| `HTTPResponse` | `HTTP/http_response.cpp` | status, headers, content | `setCookie`, `stock_reply`, `to_buffers` | a client on a reused connection can tell where each response ends |
| `Cookie` | `HTTP/cookie.cpp` | fields | `toString`, `fromString` | a cookie that was set comes back with its value |
| frames | `ws/ws_proto_impl.cpp` | none | `fill_text_frame` | each message is one frame of the right length |
| TLS set-up | `webserver.cpp` 65-104 | an SSL context | `setup_ssl` | not modelled |

How they interact: an accept handler makes an `HTTPConnection` with a copy of
`params_` and starts it. The connection reads, feeds its parser, calls the
bridge and writes; on a handshake it writes 101, makes a `WSConnection` over
the same socket, enters it in the registry and lets itself go. The application
pushes by id: `WSPush` locks the registry, finds the connection and runs its
`write` with that lock held. A connection has no owner: the references bound
into its pending handlers keep it alive, and the registry holds `weak_ptr`s.

What is hard here is the concurrency of `WSConnection` (two mutexes, an atomic
flag, handlers and pushes in any thread, the queue owning buffers the network
reads), the lifetime by handler references, parsing across reads and several
requests with one parser, exceptions that leave a handler, and state shared by
the two accept chains. `PROJECT.json` lists the hazards line by line.

## Modules

| module | models |
|---|---|
| `WSConnection` | one `WSConnection` and all threads that run its methods |
| `WSChannel` | what it promises: an ordered stream, without a gap while open |
| `WSConnectionInv` | the inductive invariant of `WSConnection` |
| `WSConnectionProofs` | proofs about `WSConnection`, the refinement of `WSChannel` among them |
| `Alphabet` | the symbols of text in either direction, in the classes that some code tells apart |
| `HTTPParser` | the parser and the request tests, as operators |
| `HTTPConnection` | one HTTP(S) connection, its client and the network |
| `Acceptor` | both accept chains, `Start`, `Stop`, the clients that connect |
| `Registry` | the handover of sockets, both maps, pushes and closes of several connections, callbacks that call back or throw |
| `AcceptorInv`, `AcceptorProofs` | the inductive invariant of `Acceptor` and the proofs |
| `HTTPMessages` | the requests that a client can spell, their bytes and what they mean: the abstract side of `HTTPParser` |
| `HTTPConnectionInv`, `HTTPConnectionProofs` | what the messages of `HTTPConnection` mean, its inductive invariant, the proofs about it and about the parser |
| `DownstreamInv`, `DownstreamProofs` | what texts and lengths the application may pass to `Downstream`, its inductive invariant, the proofs |
| `DownstreamCookies`, `CookieProofs` | what the cookies have to be for a client to return them, and the proof that it does |
| `Induction`, `Folding` | lemmas that the proofs instantiate: induction over the naturals, and what `FoldLeft`, `FlattenSeq` and `SetToSeq` compute |
| `RegistryInv`, `RegistryProofs` | the inductive invariant of `Registry` and the proofs |
| `Cookie`, `HTTPResponse`, `WSFrame` | conversions, as operators |
| `Downstream` | all that one socket carries to its client: composes the three above and the cookies of `HTTPParser` |
| `MCWSConnection`, `MCHTTPConnection`, `MCAcceptor`, `MCRegistry`, `MCDownstream` | instances for TLC |

Definitions whose name has an underscore and a comment beginning with "Mutant"
are variants of the definition after them as a plausible mistake would have
left it. No specification uses them; replacing the original by one of them
breaks the property it was written for.

### WSConnection

`op[t]` is the call a thread is in and `pc[t]` its next step, so the four
callers of `stop()` share one set of steps and return by their own `Return...`
action. Grain: code that touches only data of a mutex it holds is one step;
each callback, each socket call of `stop()` and each wait for a mutex begins a
step. So `write` is `WSPush` (registry locked, frame built, `ws_onmessageout`)
and `Enqueue` or `EnqueueOverflow` (queue locked). After an overflow `write`
goes on behind `stop()`: `ReturnWSPush` holds its last test.

`write_op[m]` is the `async_write` of message `m`, so two at once can be
represented. `Alive` says that some `shared_ptr` exists, which is when
`weak_ptr::lock` succeeds. Messages are numbered by the pushes that found the
connection; `wire` and `pushed` are history variables.

The network may take any time, the link may fail at any step, the client may
send or end its half of the stream. `cancel` reaches each pending operation or
misses it (a composed operation between two transfers). `DestroyService` is the
destruction of the `io_service` at shutdown: handlers are dropped unrun and the
destructor stops the connection.

The link is "reset" once the system has given it up, and then what is pending
fails. A client that vanishes without a word leaves it "up", and the read pending:
the code has neither keepalive nor timeout.

Assumed: callbacks do not call back into the server (`Registry` lifts this); a socket called from two
threads serialises the calls (boost::asio leaves it undefined); the connection
is in the registry before `Start` runs, as `_create_ws_connection` does, and
the application knows its id only from `ws_onopen`.

### HTTPParser and HTTPConnection

The automaton runs over the symbols of `Alphabet`. A byte that some code tells
from others is a symbol of its own, in classes: control, separators
(`is_tspecial`, all of them), digits, bytes from 128 on, and the marks that a token
may have and the name of a cookie may not. Every other symbol is a word of bytes
that nothing tells apart ("NUL" stands for all bytes of control but TAB, CR and LF).
`stoi` is modelled as it reads: blanks, a sign, any digits, and a throw unless the
number fits an int.
The states are those of `Schema::ParserState`; `"good"`, `"bad"` and `"throw"`
are its ways out. `HTTPConnection` has one pending operation at a time and each
handler starts the next as its last act; the strand and this make a handler one
step. `Read` returns any part of what is under way, parses it and answers.
`_cancel()` in `process_ws_handshake` (138) finds nothing to cancel.
`HandleRequest` sets a status or leaves the default 500, whether or not it
throws; what it throws is a `std::exception`, as `do_read` catches no other. An exception that nothing catches is `Escape`. A missing cookie `SID`
gives the nil uuid (`cookie.cpp` 23). The client sends only after the SSL
handshake, which may fail at any time.

`HTTPMessages` is what the parser is measured against, and knows nothing of its
states: a `Spelling` is a method, a uri, digits of two versions, headers with
their continuation lines and a content, `Bytes` what a client puts on the wire
for it, `Fields` and `Complete` what is meant. `ReadsBack` says that the parser
inverts `Bytes`. What becomes of the header list in a request (`fill_request`,
cookies) is the code's own definition on both sides; the requests of
`MCHTTPConnection`, written out by hand, check that one.

### Acceptor

`pc[t]` and `chain[t]` are the step and the protocol of the handler a thread
runs; each access to `params_` is a step, so the other chain and `Stop` may
come between. The number of threads of `acceptor_service` is not in the
repository; `pool` is any non-empty subset of `Threads`. After an exception the
thread is assumed to run the service again. The application calls `Start` and
`Stop` from one thread, and `Start` only when the former chains have ended.

### Registry

`stack[t]` is the call stack of a thread, innermost frame first: a frame is a
method, its connection and the next thing it does there. A callback that pushes
or closes puts a frame on top of the one that called it, which is what
`WSConnection` cannot express. Who holds a mutex is read off the stacks
(`ConnsOwners`, `QueueOwners`), and so is who holds a `shared_ptr` (`Refers`,
`Alive`). The destructor is the `stop` frame that `Released` puts in the place
of the last reference.

A connection here is the part of `WSConnection` its callers see: a queue
length, the pending read and write, `closed_`, the socket. `live` says that the
pending write was begun while the socket could still take it, so that its handler
may be told of success. The three calls of `stop()` on the socket are one step.
Calls are not counted: the application may push and close for ever. Only a queue
that nobody empties is kept short, by `MaxQueue`, above the limit of the code. The module begins where the server has
decided on an upgrade: `upgrade` is the pending write of the 101, and
`HandshakeWritten` runs whether or not that write succeeded, as the handler
takes no error code. An id that the application was never told of is not pushed
to. `Calling` and `Throwing` are the callbacks in which the application calls
back or throws; after a throw it is assumed that the thread goes on in the pool
or in the caller. `ptl::mutex` is outside the repository: `Recursive` says which
kind it is. A `ws_onclose` that throws is not modelled (out of the destructor it
would end the process); `ws_onmessagein` is never called by the code.

### Cookie, HTTPResponse, WSFrame and Downstream

The wire carries words, separators, numbers and runs of content bytes, so that
lengths are real and text is not. `Downstream` puts the writes of one socket
behind one another. The client of the model knows only the protocols: it reads
status, headers, as many bytes as `Content-Length` says, after 101 frames by
their length bytes, and is `"lost"` when something else comes than it waits
for. The headers are an `unordered_map`: they are written in any order. The
client reads incrementally, so how the network cuts the stream makes no
difference. The response to a request is filled in by the application, which
may throw before it has set a status or announced a length.

The replies that no client can delimit are singled out by `Framed`: one without
a length, and the stock replies for 204 and 304, which carry HTML where no body
is expected. The properties say that everything up to and including the first
such status line is understood. 101 needs no length.

The client keeps the cookies of the responses it understood and returns them
all; path, domain, secure and http-only never hold one back, as its requests go
to where the cookies came from. Values are those without ";", since nothing in
the code escapes one. What they are measured against, `Issued`, is what the application
means by all its calls of `setCookie`; the code keeps the first of a response.

## Runs

| run | bounds | shows |
|---|---|---|
| `WSConnection` | 3 threads, limit 2, 4 pushes | all safety properties of `WSConnection`, and that it implements `WSChannel`; a stopped connection is announced and its socket closed; once the pushes end it is destroyed, as is one whose client speaks or is known to be lost |
| `HTTPSafety` | 2 of 13 messages, cut anywhere, client may leave | safety and liveness of `HTTPConnection`; its inductive invariant; the parser reads back 13 spelled requests |
| `HTTPPipelined` | 2 requests without waiting | violated: bytes behind a request are dropped |
| `AcceptSafety` | 2 threads, 2 clients, 1 failing accept | both chains |
| `AcceptRace` | the same | violated: an address of another client |
| `AcceptChain` | the same | violated: an exception ends a chain |
| `RegistrySafety` | 2 threads, a plain and a secure connection, limit 1, queues up to 2, calls without end | what holds of the registry at any time |
| `RegistryLiveness` | 3 threads, 1 connection, the same | once the calls end, the server comes to rest and lost clients are gone |
| `RegistryDeadlock` | 2 threads, 1 connection, calls from `ws_onclose` too, recursive mutexes | violated: threads wait for each other's mutex |
| `RegistryPushes` | 2 threads, 1 connection, strong fairness | violated: pushes that do not end keep a stopped connection alive |
| `WireSafety` | 2 responses of 4 statuses or the stock replies, 6 lists of cookies, 2 pushes of 11 lengths | a client understands all that the server writes and returns cookies that come one to a response; the inductive invariant `StreamInv` |
| `WireCookies` | the same, two cookies in one response | violated: the second cookie is lost |

Why the bounds suffice. *WebSocket*: three threads are one in `stop()`, one in a
handler and one pushing, the largest number that can do different things to the
connection at a time, as `ws_conns_mx_` admits one push or close. The limit of
100 becomes 2, with pushes enough to overflow it, drain the
queue and push again; the theorems hold for any limit. *HTTP*: a second message
is needed to see what the first leaves behind, a third would find the same
parser state. The thirteen messages have a body with a line end, a folded and a
repeated header, a cookie, a missing `Host`, a bad byte, a separator in the name of a header, lengths
with a sign and zeros in front, that are no number, one too large for an int, and
the least int, and handshakes of good, old and bad versions and with a bad `SID`. The spellings add
two different lengths, an empty value, continuation lines without text, a uri of no
byte and symbols that are not ASCII. A malformed message ends at the byte that makes it so: what follows such a byte
is read by the code as a new request and nothing is promised of it. A read
returns at most 8 symbols, so a request takes several reads. *Accept*: two
clients can use one chain in turn or both chains at once. *Registry*: a deadlock
or a race for the last reference needs two threads (the liveness run has three: one
in a callback, one in a handler, one calling); a queue of two is one above the limit,
and what happens at two happens at any length above; two connections are one
per map, so that a push for one searches past the other. Its calls are not
bounded, so an application that calls for ever is a behaviour of each run. The theorems hold for
any numbers. *Wire*: a second response shows what the first leaves in the stream
or in the client's cookies, a second frame what the first does; the lengths are
both sides of every change in the coding of a length and of a byte.

Fairness. Handlers that are ready run, since the pool takes them from one
queue; a thread inside a call goes on (weak fairness per thread; a wait for a
mutex is released because its holder goes on). The operating system completes
what is pending on a reset link or a closed socket, and delivers what an HTTP client
has sent. Nothing is assumed of WebSocket clients or of a link that might fail: a read
from a client that vanished without a word is pending for ever, so liveness
begins where the system knows of the loss. In `Registry` callbacks return, and one
weak fairness condition says that the pool does not idle while a handler is ready on
a dead socket or an upgrade is under way. The number of accepts that fail on an open
acceptor is bounded: with errors for ever nobody is served.

Of the application one thing is asked, and only where a property says so: `write()`
does not test `closed_`, so a push that finds the queue just cleared starts one more
write, whose handler prolongs the life of the connection for one more push.
`PushingEnds` and `CallsEnd` name the assumption that this stops;
`StoppedIsReleased` says without it that `stop()` announces the end and closes the
socket, and with it that the connection is destroyed. (`MaxMsgs` makes every
behaviour of `WSConnection` meet `PushingEnds`; `RegistryLiveness` has behaviours
that do not meet `CallsEnd`.) `RegistryPushes` shows what happens without: even
under `StrongFairness`, which is more than a pool gives, the connection lives.

No run turns deadlock checking off. Where the system may rest the model has an
explicit step for it: `Gone` of `WSConnection` and `HTTPConnection`, `Quiet` of
`Registry`, `Done` of `Downstream`.

## Proofs

The theorems hold for every set of threads (and of connections), every queue
limit, every number of messages, responses and pushes. They rest on the
ASSUMEs of the modules, which each run evaluates:

- `WSConnection`: `NoThread` is no thread, the limit is positive.
- `Registry`: the limit is positive, `MaxQueue` is a number, `Calling` and `Throwing` are sets of callbacks.
- `Acceptor`: the threads are finitely many, `NoClient` is no client.
- `HTTPMessages`: what clients spell is a `Spelling`: no byte of control within
  a line, no blank in a uri, a token for each name.
- `Downstream`: no application sets 101, behind which a client waits for frames
  (the server sends it in answer to a handshake, and nothing keeps an application
  from setting it); the texts of cookies have no line end, which is the
  application's duty, as nothing in `setCookie` or `toString` looks for one; the
  lengths fit in a `size_t` of 64 bits.
- `DownstreamCookies`, for `CookiesReturn` only: the names of cookies are of the
  bytes that `fromString` takes for a name, and no text of a cookie has a
  semicolon. This too is the application's duty: `toString` writes any bytes, and
  `fromString` would cut such a name or value short.

`HalfDuplexAlways` of `HTTPConnection` needs nothing. The other theorems about
it name two conditions. `MessagesAreMeant` says that the parser, given a message
alone, finds in it what its kind says, and no earlier than at its last byte. It
is proved (`SpelledAreMeant`) of messages that are spelled, `MessagesAreSpelled`,
a condition that speaks of requests and bytes and not of the parser's states. Both, and
`SpellingsAreRead`, are parts of `SpelledInv`, so the run evaluates them.
`Window = 1` says that a client waits for the answer before it sends again;
`HTTPPipelined` shows what happens if it does not.

### WSConnection

No property is inductive. `IInv` adds: `Control`, which says of each step the
call it belongs to and the mutexes held there (the carried message of a push is
the latest *because* `ws_conns_mx_` is held from its numbering to the queue);
`Stopping`, how far the one thread in `stop()` has taken the socket; `Guarded`,
that until `closed_` is set the read of `Start` keeps the connection alive;
`Writer`, `WriterServesQueue` stated per message and thread; `Overflowing`,
that a pusher in `stop()` finds a queue whose length is not 1 on its return;
`Order`, that the queue is an interval ending at the last message enqueued and
that the wire has nothing the queue still has to send; and `NoSpuriousError`.
Each conjunct has a lemma `...Step`. The lemmas about the stream go through
`StreamOfStep`, which lists the few ways a step can change queue, wire and
pushes, so that arithmetic is done once for each way and not for each action.

`Refinement` shows that every step of `WSConnection` is a step of `WSChannel` or
a stutter, under the mapping accepted = pushes, wire = wire, phase = `"open"`
while the socket is untouched, `"released"` when no reference is left. It needs
`IInv`: a write that succeeds on an open socket sends the *next* message by
`Writer`, `Order` and `NothingLost`.

### Registry

`IInv` of `RegistryInv` adds to the types and to two properties that are
inductive once the rest is known (`OpenIsRegistered`, `RefusedIsGone`):
`Stacked`, which frames there can be and that handlers are at the bottom of a
stack; `Known`, that nobody calls for an id before it is announced; `Queued`,
that the message being written is in the queue until its one handler takes it
out, so nothing is taken from an empty queue; and `Closes`, that a connection
that is not closed has a reference or a `stop()` about to run, and a closed one
with an open socket has a thread inside `stop()`.

The nineteen steps of a call all replace the innermost frame of one stack.
`StepFrames`, `StepRegistry`, `StepQueue` and `StepCloses` reduce them once to
what matters for stacks, maps, queues and closing, and each conjunct is proved
from these. `AliveStep` is the hinge: a step can only take references away,
except where a new handler gets one from a thread that has one, so a dead
connection stays dead. That is why `ws_forward` may erase its entry.

`NoDeadlockOutsideLocks` assumes `Calling \subseteq {"ws_onopen",
"ws_onerror"}`, the callbacks that run with no mutex held. `CallsLast` says that
then all frames below the innermost hold none; so who waits for `ws_conns_mx_`
holds nothing, and who waits for `send_q_mx_` holds at most `ws_conns_mx_`
(`LockOrder`), whose owner cannot wait for it. `RegistryDeadlock` shows that the
assumption is needed.

### Acceptor

`IInv` of `AcceptorInv` says `OneLink` per thread (`Chain`), that between the
two halves of `Start` https is at rest (`Calls`), that the socket stays with the
handler it was accepted for (`HasClient`), and what a thread that is alone finds
in `params_` (`Alone`). `OneLink` follows by counting.

### Induction and Folding

The parser, `setCookie` and the client of `Downstream` are folds over sequences,
and the provers can do no induction with a predicate as a parameter of a theorem. So
the predicate is the CONSTANT of a module: `Induction` is instantiated with
each predicate that holds for all numbers, `Folding` with each step that is
folded and with what the step keeps. From the definition of `FoldLeft` as a recursive
function over sets of positions, `Folding` proves that this function exists and
depends on nothing but the elements folded, and from that `FoldAppend` (one more
element is one more step), `FoldConcat` (a sequence may be read in parts),
`FoldKeeps` (what a step keeps, the fold keeps), and that `FlattenSeq` takes one
more sequence at the end.

### HTTPConnection

*The connection.* `HalfDuplex` needs of the handler of `do_read` only that it writes, reads again
or closes (`AnswerOperations`), so it holds whatever the parser answers.

`InOrderInv` ties the parser to the network. `Waiting`: while a read is pending,
the parser is what a new parser would be after the first `n` bytes of the one
message under way, and the network holds the others; with nothing under way the
parser is as new. `Answering`: what is being written answers that message, all of which
has been read. `Ending`: a WebSocket and an exception are the end of a handshake and of a
message with a bad value. The step that matters is a read (`ReadReturns`). What
it parses continues what earlier reads left off (`TwoReads`, from `FoldConcat`),
so however the bytes are cut, the outcome is that of the whole message; a part
of the message is never an outcome, by `MessagesAreMeant`. After each end of a
message the parser is as new: `Reset` forgets nothing that the next message
would notice, which is why one parser may serve many requests. `SpelledInOrder`
states this for clients that spell their messages.

*The parser.* `SpellingsRead` holds for any number of headers and continuation
lines and for texts and bodies of any length. `Leads(S, p, s, q)` says that the
bytes `s` take the parser from `p` to `q`, and through no state of `S` on the way.
Such runs can be joined (`LeadsOn`), and three kinds of loop are folded into one
run: a word, byte by byte (`WordLeads`), a list of parts, part by part
(`AllLead`, by induction over their number), and both with what has been stored so far
as the path. From below: `MarkLeads` and the `Turn...` lemmas are single bytes;
`MethodLeads`, `UriLeads`, `DigitsLead` and `SlashLeads` make up
`RequestLineLeads`; `NameLeads`, `TextLeads`, `BlanksLead` and `FoldsLead`
make up `FieldLeads`, which adds one header and leaves the others alone; `FieldsLead`
adds all; `HeadLeads` goes up to the empty line, and `BytesLead` through the body to the
byte at which `Content-Length` is reached, if it ever is. That no
earlier state is an outcome is part of each run. `BrokenRefused` is the other way
out: in no state of the head does a byte of control lead on (`ControlBreaks`), nor does
a separator or a byte that is not ASCII in a method (`MethodBreaks`) or in a name
(`NameBreaks`).

### Downstream

`StreamInv` relates the client to what was written: between two writes it waits
for the first word of the next response or frame (`AtRest`), or has given up
for good after a response that nobody can delimit; it holds one understood
reply per reply up to that one (`RepliesRead`) and the length of every push
(`FramesRead`). The lemmas follow the bytes from below. `ReadLine`: one header
line leaves the client as it was, with one header more; `ReadHeaders`: so do all
lines *in any order*, by induction over the order the hash map yields;
`ReadResponse` adds the status line and the content. `ReadBigEndian`: the client's
sum of the shifted bytes is the number that `fill_text_frame` cut into them,
for two and for eight bytes; `ReadFrame`: so every length below 2^64 is read back, on
both sides of 126 and 65536. `GivenUp`: a lost client ignores all further
tokens. `ApplicationAnswers`, `StockAnswers` and `HandshakeAnswers` show
that each way the code fills a response gives headers that are text and lengths
that match the content, and `WriteKeeps` joins both halves for all writers.
In the model ":" is the separator ": " of a header line and a name is one word, so
a ":" within a value, as in a path or an address, ends nothing.

`CookiesReturn` speaks of responses with at most one cookie, since `insert` keeps only
the first (`WireCookies`). It follows a cookie around the whole loop: the application's
fields, the text of `toString` in the header Set-Cookie, the client's jar, the
text of the header Cookie, `fromString`, the map of the next request.
`CookieSays`: the text is the pair and the attributes with a semicolon before
each, so `Segments` finds exactly these (`SegmentsOfPieces`, by induction over the
pieces); `ReadBack`: a value may itself hold "=", the first one ends the name;
the client sees a withdrawal exactly if `expires` is the epoch, as no other
attribute is that text (`OtherAttribute`). `KeepIsIssue` joins the two jars for one
response and `JarIsIssued` for all, as two folds that agree (`FoldKeeps`).
`MatchIs`: the regular expression finds the name and value of a segment
whatever the blank before them, and `HeaderBack`: the header made of the jar *in
any order* gives back the jar, because a name occurs once (`ListingComplete`).

### Only model-checked

- Liveness and deadlock freedom of whole runs: fairness and ENABLED are beyond
  the prover.
- That a client's bytes are those of a `Spelling`, and that the requests written
  out by hand are the ones the code makes of the headers: the run checks it for
  its messages. Of bytes that are no spelling and do not break off as `Broken` says
  (a header without a colon whose name is a token, say) no theorem speaks.
- The six violations, which are behaviours of an instance.

## Findings

Six runs end in a violation on purpose: each states what a comment of the
repository says and shows a behaviour of the code against it. They are in
`PROJECT.json` under `findings`.

## Not modelled

- TLS set-up: `setup_ssl` calls OpenSSL once, at construction; a missing
  certificate is only logged. What it leaves to SSL sockets is `HandshakeFails`
  of `HTTPConnection`.
- `fill_closing_frame`: nobody calls it. The status code of `WSClose` reaches
  `Forward` and is dropped there; no close frame is ever sent.
- The header `Connection: keep-alive` of which `http_connection.h` 52-53 speaks:
  the code never sets it; the application may.
- Reason phrases, HTML, dates, hashes and base64; the zeroing of buffers;
  logging; version numbers.
- Timeouts and keepalive: the code has none, so nothing bounds how long a vanished
  client keeps its connection.
- A bridge that throws something else than a `std::exception`, which nothing would
  catch.
- The application: it appears as choices of the models.
- Undefined outcomes of a socket used from two threads without a strand, which
  `write` and `stop` do: a model of them would be one of boost::asio.

## Plan

What could follow: the composition of `Registry` with `WSConnection`, in which the
connection of `Registry` is an abstraction of the detailed one.
