# A TLA+ model of subevent

subevent is a C++ library of threads that talk through event queues, with
timers and non-blocking sockets on the same loop, and HTTP and WebSocket on top.
This directory holds TLA+ modules that model it, TLC configurations that
check them on small instances, and proofs that TLAPS checks for every value of
the constants. Paths below are relative to `src/inc/subevent/`.

## 1. Inventory

| Component | State | Operations | Talks to |
|---|---|---|---|
| Event loop: `event_loop`, `event_controller`, `event`, `common.hpp` | queue of events under a mutex, stop flag, status, handler map | push, pop, clear, wait, wakeup, run, dispatch, stop | any thread posts; the loop's thread runs handlers |
| `semaphore` | a count | post, timed wait | wakes a loop, or a `start()` |
| Timers: `timer`, `timer_manager` | interval, repeat, running; sorted list of deadlines, set of expired timers | start, cancel, cancelAll, nextTimeout, expire | posts expiry tasks to its own loop |
| Threads: `thread`, `application` | parent, children, result of onInit, operating-system thread | start, stop, wait, onInit, onExit, onChildFinished | parent and children post to each other and join |
| `socket_controller`, Linux `socket_selector` | items of servers, clients, channels, receivers; epoll set, eventfd, socket count | wait, register, request connect/send/close, callbacks per readiness, drain at exit | replaces the event controller of a thread that uses sockets |
| TCP: `tcp`, `network` | socket, owner, receive/send/close handlers | open, accept, connect, send, receive, close | socket controller of its owner; posts tasks to the owner |
| `tcp_server_worker` | pool of worker threads, index of the last choice | createThread, open, onTcpAccept, nextWorker | hands channels to worker threads |
| `udp`, `socket`, `ssl_socket` | a descriptor, a `SocketOption` that stores values or points at a socket | open, create, close, system calls | registered with the socket controller |
| `http_client` | request, response, url, running flag, redirect list | request (synchronous and not), redirect, close | TCP client, a temporary thread |
| `http_server`, `http_server_worker` | request being received, handler map | onTcpReceive, onHttpRequest, upgrade | TCP server |
| `http` | messages, urls, parameters, headers, cookies, chunk receiver | parse, compose, serialize, deserialize piece by piece | |
| `ws` | receive cache, fragments, close state | send, onTcpReceive, onControlFrame, close | TCP channel |
| `crypto`, byte and string helpers, `utility` | none | pure functions | |

What is hard here:

* **Concurrency.** Posts from any thread interleave with the loop; a child
  thread reads its parent's status without a lock; a connection changes owner
  between two threads; the server reads counters the workers are changing.
* **Stale state.** Expiry, reception, completion and closing are *posted* as
  tasks and run later, when the object they were posted for may have been
  cancelled, restarted, closed or deleted.
* **Ordering and termination.** Nothing may be accepted behind a stop; a thread
  must join its children, wherever they are, before it ends.
* **Edges.** The selector reports a change once. What is not read, sent or
  closed then has to be found in another way.
* **Cuts.** The network cuts what one side writes anywhere: inside a line end, a
  chunk's size, a frame's header. The parsers keep what is not complete and begin
  anew, or go on, with the next piece.
* **Width.** Milliseconds pass through `uint32_t` nanoseconds and through `int`.

The properties that make each component right: the queue is FIFO, exactly once,
and never sleeps on work; a timer is called once per start, never early, never
after cancel or deletion, and in the end always; no `Thread` object is used or
deleted after its deletion, and shutdown always ends; every accepted connection
has one owner and ends up served or closed; a channel's messages go out in order,
each is answered truly, its end is told when it should be and its socket is
released; every descriptor is held by one object, and a connect is answered once;
a request is answered once, by a whole page and by that of its own; WebSocket
messages are delivered whole and in order, and a close brings the other side
with it; what one side writes the other reads as it was meant.

`PROJECT.json` lists every hazard with its line and the property that watches it.

## 2. Modules

| Module | Models | Shape |
|---|---|---|
| `Mailbox` | nothing: the promise of an event queue | Accept, HandOver, Discard, Leave |
| `EventLoop` | event controller, semaphore or eventfd, `EventLoop::run`, exit | implements `Mailbox` |
| `EventLoopProofs`, `TimerManagerProofs`, `ThreadProofs`, `TcpServerWorkerProofs`, `TcpChannelProofs`, `ConnectionsProofs`, `UpgradeProofs` | theorems about these | |
| `SequenceLemmas` | lemmas about sequences and numbers | |
| `TimerManager` | timers, the wait for the next deadline, expiry tasks | time in ticks |
| `Thread` | the tree of threads | one program counter per thread |
| `TcpChannel` | channels of one thread, their items in the socket controller, kernel and peer | one loop, edge-triggered |
| `TcpServerWorker` | accept, the choice of a worker, the hand-over | server and workers |
| `SocketTable` | descriptors, epoll keys, `SocketOption` | state that the next two share |
| `TcpConnect` | `TcpClient`, its items and timers in the controller | one client, any kernel |
| `Listeners` | `TcpServer` open and close, `UdpReceiver`, `UdpSender` | three owners of a socket |
| `Connections` | composes the two; getSocketOption, the thread's exit | one thread |
| `Connect` | nothing: the promise of `connect()` | Ask, Answer, Withdraw |
| `HttpContent` | the content receiver, bodies plain and chunked, as units | operators |
| `HttpExchange` | `HttpClient`, `HttpChannel`, the network between them | tasks of the client's thread |
| `WsChannel` | two WebSocket channels and the connection | cut anywhere |
| `Text`, `HttpUrl`, `HttpFields`, `HttpMessages` | strings, URLs, fields, messages, the handshake, the handler map | operators on tokens |
| `Codecs` | Base64, Sha1 | operators on bytes; Sha1 a round at a time |
| `Forms` | samples of every form and what each should be | one variable, `input` |
| `Upgrade` | composes `HttpExchange` and `WsChannel` by the upgrade | one connection |
| `Web` | hangs `Forms` and two `WsChannel`s by themselves beside `Upgrade` for one run | |

`Thread`, `TcpChannel` and `TcpServerWorker` use queues as mailboxes, which `EventLoop` is
shown to implement; they do not repeat its tokens and waits. `TimerManager`
keeps only the expiry tasks and the stop event of the queue.

**EventLoop.** `queue`, `stopPosted` are the controller's; `tokens` is the
semaphore's count or that of the eventfd, which is opened with `EFD_SEMAPHORE`
and so gives one token per read. `pc` says where `run()` is. The boundaries of
the actions are where the code takes the mutex, blocks or calls a handler:
`WaitToken` and `Pop` are two, because `push()` fits between them. `selector`,
chosen initially, tells a thread with a `SocketController`, whose wait may also
return with sockets (`WaitSockets`), with both, or by a signal. `hand` is the
event between `pop()` and the end of `dispatch()`. `accepted`, `delivered` and
`discarded` are history. Timers are a number, since only their wakeups and
posts matter to the loop.

**TimerManager.** An instant is kept as the ticks left until it, 0 from then on,
which leaves the state space finite without a bound on time: the code only asks
which of two pending instants is earlier and whether one has passed. `Modulus`
and `IntMax` stand for the ranges of `uint32_t` and `int`, `NsPerMs` for the
factor of `Semaphore::wait`; small values let TLC meet the wrap-around.
`expire()` is one action; the stop event of another thread, which is all that
can come between its posts, may be put there. `current`
is the timer whose handler runs, and during it the user may start, cancel,
delete or make any timer, that one included, or one at a deleted one's address.

**Thread.** `pc` follows a thread through onInit, `run()`, its own `start()` of a
child, and onExit. The tree is built by the behaviours: any thread may construct
any other as its child in user code. `param` and `sem` are the `ThreadParam` on
the starter's stack. The status check and the post of a child that ends
(`NotifyParent`, `NotifyPost`) are two steps. With `SlowInit` the wait for the
semaphore may end first.

**TcpChannel.** `chan` is the channel objects, `item` the controller's
`mTcpChannels`, `kernel` the sockets, all found by descriptor, which are given out
again. A socket has data unread (counted in units), room to send, a peer that is
open, has closed (`fin`) or has reset the connection (`dead` once the error was
taken off the socket), and `ready`, the edge that epoll has not reported yet. A
buffer is the sequence of units to be sent, each named by its send, so that the
kernel may cut it anywhere (`TrySend`). `Wait` takes all edges with the state of
each socket at that moment and sorts them as `SocketSelector::wait` does;
`ServeRead`, `ServeWrite` and the two `ServeClose` follow, while the peer goes on.
All the controller has to say to a channel it posts; `RunTask` enters user code
(`pc = "user"`), where the user connects, sends, receives, cancels and closes any
channel, and `Return` leaves it. `style`, chosen initially, says what user code
does: its receive handlers read all there is, or leave some, or it sets its
handlers late (`SetReceiveHandler`, `SetCloseHandler`); `MaxLate` bounds the
connections in that case. `missed` is the history of what came before a handler.
`Connect` stands for a connection however it came about. `SendNow`, a send without a
handler, takes room but puts no units on `wire`: what `SendOrder` says is about sends
with a handler. Both kinds share one line of units in `WsChannel`.

**TcpServerWorker.** Each turn of `nextWorker` is a step (`ScanFull`,
`ScanFinds`, `ScanGivesUp`), because the workers' counters change meanwhile.
`place` says where a connection is, `netWorker` is what `close()` will compare
with the current thread. A worker may stop, end, or use sockets of its own. The server's
thread is the parent of the workers' threads: `ChildFinished` deletes one that has ended,
with the events in its queue, while the pool keeps the pointer. A turn of the loop that comes upon
it (`ScanDangles`) sets `wild`, and the server is not followed any further. `keeps` says that
the user has set a childFinished handler that keeps the workers instead.

**TcpConnect, Listeners, Connections.** A descriptor is a small number and the
kernel gives out the smallest that is free, so that one owner's closed descriptor
becomes another's. `items` is `mTcpClients`, keyed by the descriptor of the attempt;
an item has the addresses left and its timer. An attempt fails at once, succeeds at
once or is left to the selector (`TryAddress`), and the timer may run out at any
moment, before and after the event that ends the attempt was taken.
`tasks` is what `onConnect` has posted. `Exit` is `SocketController::onExit` with
`closeAllItems`. `status` becomes `dead` where the code dereferences a null pointer.
`withdrawn` and `answers` are history, and are mapped to the variables of `Connect`.

**HttpContent, HttpExchange.** A message is a sequence of units: one for the head, one for
each unit of data, and those of a chunk's size line; `OnReceive` takes as many as
there are. `setup` is what a behaviour asks for: a site of two pages, each final or
a redirect, how it is sent, whether the connection closes behind it, the method, and
whether the caller waits, with a timeout or not. `client` is the `HttpClient` with its
channel: `conn`, `unsent` (the request in the send buffer), `temp` (`mResponseTempBuffer`),
the receiver, `response`, the redirect hashes, and `tasks`, the events of its
thread. `RunReceive` takes any number of units, and the end of the connection may be
found before, after or later. A synchronous request is a caller with a temporary
thread (`RunStop`, `StopWaiting`); what it returns is `result`.

**WsChannel.** A frame is units: two for each field that can be cut, see `Field`. `Capacity` is
the number of units the kernel holds for each side. A frame sent with a handler waits in the
controller's buffer: `queue` has the frames of which nothing is written, `rest` counts the units that are
missing of the last one in `sent`, and `Flush` is a turn of the loop in `tryTcpSend`, which the call of send
(`Enqueue`) or the selector (`Writable`) has started (`flushing`). A frame sent without one (`how = "direct"`: the
user's default, `close()`, the pong and the reply to a close frame) is written at once (`Write`), past what waits,
and what the kernel does not take is lost. `lost` has the kinds of frames of which it took nothing. `torn` says
that a frame was cut short so, or cut into: its peer then reads frames that nobody has sent, and they
are not followed. `WsSpec` is the two channels by themselves (`AloneNext` in `Web`).
`Receive` hands any number of units to `onTcpReceive`; `buffer` and `position`
are the cache. Frames that a call has found are handed over one by one from
`batch`, with user code between them, which may send or close.

**Text, HttpUrl, HttpFields, HttpMessages, Codecs.** A text is a sequence of tokens, in which
separators, blanks and line ends are tokens of their own and a word is one token;
`Lower` knows which words are equal but for case. Percent encoding and Base64
work on numbers. The three lists of fields (parameters, header, cookie) are the same
operations three times in the code, and one set of operators here. Sha1's words
are pairs of halves; `Round` is one of the 80 lines of `transform`, with the same
rotation of registers and the same reuse of the sixteen words.

**Forms.** An initial state is a sample: a URL, a text to encode, up to three calls that
change a list of fields, a query, a head with its header and body, a cookie, a
handshake over what an earlier request left in the header, up to three calls of
`setRequestHandler`, bytes, a length to be padded, a message to be digested. Beside each
stands what the form is, written without the parser's means: the grammar of RFC 3986,
the last call that counts, every proper prefix of a head, bits, FIPS 180. Only
digests have steps, `OneRound` and `NextBlock`.

**Upgrade, Web.** The upgrade gives the connection of `HttpExchange` to the two sides of
`WsChannel`; frames that the server sends before the client has upgraded are read
by the `HttpClient` and dropped (`DropFrames`). `Upgrade` is the composition that is proved about;
`Web` is the one that is run: in its behaviours whose `input` is a sample
of `Forms` nothing else moves, and in those whose `input` is `FramesAlone` two
`WsChannel`s have the connection to themselves, with more frames of their users (`AloneSends`), of which the data is the client's.

Definitions named `Bug...` stand before the definition they are a broken
variant of. No specification uses them. They document which mistake each
property would catch: put in the definition's place, each makes TLC report the
property paired with it in `PROJECT.json`.

## 3. Runs

| Run | Bounds | States | Shows |
|---|---|---|---|
| `event_loop` | 5 calls of push, startTimer, cancelTimer | 88 thousand | safety, liveness, `Mailbox` |
| `timer_manager` | 2 timers, 0 to 2 ms, 5 user calls | 218 thousand | the lists agree, sorted, nothing dangling, on time |
| `timer_long_wait` | an interval above `IntMax` | | violation, finding 1 |
| `thread_tree` | application and 2 threads, any tree | 199 thousand | no use after free, all joined, shutdown ends |
| `thread_slow_init` | the same | | violation, finding 2 |
| `channel_data` | 1 connection, 2 sends of 2 units, 1 unit from the peer | 281 thousand | order, truthful answers, every send answered |
| `channel_lifecycle` | 1 channel opened twice, 2 descriptors, or once with late handlers | 179 thousand | one owner per socket, the end is told, closing ends |
| `channel_cancel_send` | 2 sends | | violation, finding 4 |
| `accept_pool` | 3 connections, 0 to 2 workers, limits 1 and 4 | 387 thousand | one owner, even shares, all settle |
| `connections` | 2 calls of connect, 2 addresses, 3 descriptors | 300 thousand | one holder per descriptor, `Connect` |
| `web` | 2 requests, 1 redirect, pages of 2 units, 1 frame of the users behind an upgrade, room for 8 units per side; 2 frames without one, room for 6; 16 thousand samples | 908 thousand | one whole answer, frames intact, closing, forms |
| `accept_pool_of_one` | 2 connections, 1 worker | | violation, finding 3 |

*Why the bounds are enough.* Five calls suffice for two user events, a stop,
an event behind it, and a timer call, before, during and after the loop's life;
the proofs lift the bound. Two timers make a list with an order, one of them
expired while the other is started, and an address used again; with ticks of
half a millisecond the truncation in `nextTimeout` happens; with a modulus of 8
the semaphore's product wraps. Three threads give a chain and a fan, a parent
that stops while a child starts a grandchild, and two children that end at the
same time. Two sends of two units are cut at every place, before, between and after each
other, and both kinds of send meet; one unit from the peer makes the difference
between an end with and without data before it. One channel that is opened a
second time while its first socket is still closing, on the same descriptor or
another one, brings every task and timer of the first connection together with the
second; sends play no part there. Handlers that are set late go wrong on one connection
already. Two calls of `connect()` are one over another, or one after it; two addresses are a
failure with and without a next one; with three descriptors the client's item, its
socket, and one more owner exist at once, and each descriptor is used again. Two
requests are an earlier and a later one, each of which may be redirected once, twice
or in a circle; a body of two units is cut before, in and behind it, with a length, in two chunks, or without one up to the end of the connection.
Two frames of the users, a pong and two close frames can stand in any order, wait or be
written past what waits, and be cut anywhere; a message has one fragment or two. The kernel has room for as many
units as the longest frame has, eight, or six without a length of its own: one frame fills it, the next one waits, is cut, or is lost.
Behind an upgrade one frame is enough for what a WebSocket does to the exchange it came from. The samples of `Forms` hold every
separator at every place that matters, repeated names, names equal but for case, values that need
trimming, all ways to cut a head, data of every length modulo 3, and the lengths around
Sha1's 56 and 64 bytes. Two workers and three connections give every wrap of the index,
a full and a free worker, and a batch longer than the pool. Deadlock is not
checked: all of these systems come to an end (a loop, an application, or
connections that are all closed), and the liveness properties say that they
do not stop before.

*Fairness.* Weak fairness of a thread's own steps says that the operating system
schedules it and that handlers return, without which no event loop can promise
anything. Strong fairness of `WaitToken` (of `RunTask` in `TimerManager`) says
that a wait is not ended every single time by something else when a token is
there (and the same of `CloseTimeout` in `TcpChannel`), in the code by a signal or, for `RunTask`, by a leftover token; each of these
is finite in practice. In `TcpChannel` a peer that is sent data makes room for more
(`RoomBack`). In `connections` the client's steps and its timer are fair: a connect
without an end in the kernel ends by its timer. `web` assumes no fairness: its properties look at states where
nothing is left to do. Nothing else is assumed of posts, stops, user code's choices,
peers, failures of a wait, or signals.

*What `TcpChannel` shows with conditions.* `EofTold` needs handlers that read all
there is: with data left unread the controller puts the close off, and the
edge-triggered selector does not report it again. A receive handler that is set
after the event of the first data is not called for it (`tcp.inl:553`), and the end behind
that data is not found. `CloseNotToldAfterClose` does not hold when `setCloseHandler` came
between, which forgets the canceller (`tcp.inl:538`). TLC reports both properties without these
exceptions. `SendOrder` lets a message follow
a part of an earlier one that was answered with an error: that happens when the
peer closes its side with data unread and the user goes on sending. After a `cancelSend()`
that error may have gone to the handler of another send (`GivenUp`): three sends are
needed, so that the run with two cannot show it, but the theorem `SentInOrder`, which covers
any number, needs the exception. A
`SendsAnswered` whose channel is closed first may stay without a call of its
handler (`onTcpReceiveEof`, `close()`). `AnswersTruthful` holds as long as
`cancelSend()` is not used, see finding 4.

*What `accept_pool` shows with conditions.* `EveryConnectionSettles` leaves out a server that
has used a deleted worker (`wild`), a kept worker whose queue nobody reads, and the first search over workers
that are full with sockets of their own (`FirstScanSpins`). The safety properties
hold up to the moment at which a deleted worker is used.

*What `web` shows of WebSocket with conditions.* `FramesIntact` leaves out torn and garbled frames for what arrives in
the end, and promises the order of the calls only among frames sent alike. `CloseHandshake`
leaves out, beside these, a close frame that was lost and one behind a message without its end. TLC
reports either without these exceptions, but for `torn`: a side with a torn frame always has something left to write,
so that its peer is `Quiet` only when it has closed.

## 4. Findings

1. `socket_selector_linux.inl:130`: the timeout is cast to `int`, so with
   more than `INT_MAX` milliseconds to the next deadline `epoll_wait` waits for
   ever, and the timer is not called (`TimerManagerLong.cfg`).
2. `semaphore.inl:72`: the product wraps in `uint32_t`, a "wait for ever" is
   4.3 seconds, and `Thread::start` then joins a thread that is still in onInit
   as if it had failed (`ThreadSlowInit.cfg`).
3. `tcp_server_worker.inl:145`: the worker chosen last is never considered; a pool
   of one refuses every connection but the first (`TcpServerWorkerOne.cfg`).
4. `socket_controller.inl:714`: `cancelSend()` throws messages away and leaves
   their handlers in the channel's list; the next message sent calls the first of
   them with success (`TcpChannelCancel.cfg`).

### What the models do that a user may not expect

These were met while modelling; the properties name those they have to leave out.

*Connections.*
* A second `connect()` over an unfinished one (`tcp.inl:643`) is let through. The first
  socket to be connected is deleted when the second is, while its channel item stays
  with the controller; `createSocket` of a client that is connected meanwhile, and
  `closeAllItems`, dereference a null pointer (`status = "dead"`).
* A failed `listen()` leaks the new socket (`tcp.inl:94`), a second
  `UdpSender::create` the first one (`udp.inl:186`). When the registration fails
  `TcpServer::open` returns false, but the server counts as open.
* The `SocketOption` of a client points at a deleted socket after the thread's
  exit. Its copy constructor reads `mStore` before it is initialized.

*Server.*
* A worker whose thread ends by itself (`stop()`, a failed wait) is deleted by the server's thread
  (`thread.inl:242`), while `mWorkerPool` keeps its pointer: the next search that comes to it reads the counters of a
  deleted object (`tcp_server_worker.inl:150`), and may hand it a channel (`wild`, excepted in `EveryConnectionSettles`).

*HTTP exchange.*
* A send error that arrives after an early answer, or after a redirect, is
  taken for one of the present request, which is answered twice (`http_client.inl:412`; excepted in `OneAnswer`).
* The handler of a synchronous request moves the response away; when the server then
  closes, the request returns -1 after a success (`http_client.inl:136`, `:450`; excepted in `OneAnswer`).
  When the line end of a last chunk comes after the answer, it is taken for the beginning of another one, and the
  request returns -8501 (`http.inl:1427`; excepted in `OneAnswer`).
* A 303 turns a POST into a GET and empties the body, but keeps its Content-Length
  (`http_client.inl:333`); the server waits for a body (excepted in `RequestsAnswered`).
* `sendHttpResponse` without a handler to a full socket buffer sends a part
  (excepted in `RequestsAnswered`).
* A body that ends with the connection is lost (`AnswerIntact` expects it to be empty).
* A chunk whose size line is cut, or whose data ends where a reception ends, is
  answered with -8502, which is not success.
* `HttpChannel` does not clear its content receiver between requests, and drops bytes
  behind a complete request: requests sent without waiting are not served.
* When an `HttpClient` is used again, `Host` and Content-Length of the earlier request
  stay in its header, and an open connection is used for whatever URL is next
  (`http_client.inl:166`). `Host` has no port. A Location that is relative is parsed as an URL
  without a host.

*WebSocket.*
* A frame sent without a handler is written to the socket at once and the result is passed on at best (`tcp.inl:412`).
  It overtakes frames that wait in the controller's buffer, and lands in the middle of one that is partly
  written. With little room a frame is cut short, with none it is lost (`torn`, excepted in
  `FramesIntact`). All this applies to every pong and close frame.
* `close()` and the reply to a close frame set `mSent` also when nothing was written (`ws.inl:267`, `:542`): the
  peer is never told, and nothing more is sent (`lost`, excepted in `CloseHandshake`).
* Input is put behind what is cached only if a frame was taken from the cache before
  (`ws.inl:353`): a first frame that arrives in two parts loses its first part. So does
  a frame that is cut behind its length or its key, when the reader has come to the
  end of the cache. What follows is read as garbage (`garbled`, excepted in
  `FramesIntact` and `CloseHandshake`).
* Frames that arrive right behind the 101 are dropped with the rest of that reception
  (`garbled`, excepted in `FramesIntact`).
* A channel that is upgraded when its close task has run is never told of the end.
* A close frame that comes behind fragments without a final one is held
  for ever (excepted in `CloseHandshake`). `WsCloseFrame::serializePayload` does not mask.

*Forms.*
* `readBytes` compares behind the end of its buffer (`byte_io.hpp:96`): a head without
  its very last byte may be taken as whole, and that byte then counts as body.
* The last `?` divides path from query, the first `@` in path or host ends the user, an
  IPv6 address is cut at its colon (`Misread`); `compose()` leaves out 80 and 443
  whatever the scheme, and a user without password (`Lossy`).
* `find()` of `HttpParams` and `HttpCookie` returns names. A parameter without `=` takes the
  next one into its name. Cookie attributes named like one of the fixed ones become those,
  and `Secure=x` counts as `Secure`.
* An empty header value makes the whole head incomplete for ever, as does a request
  line without a blank; a response without a reason phrase and its blank throws.
* The table of `Base64::decode` has 128 entries written out: a byte from 128 on
  decodes like an `A`. Padding is passed over anywhere.

## 5. Proofs

Each theorem holds for every value of the constants that the assumptions of its module allow:
any number of timers and any tick, any tree of threads, any finite set of connections and any pool,
any number of addresses, descriptors and calls, any number of requests and size of their bodies, any number of frames in any cuts, any channels over finitely many descriptors with any number and size of sends. Where an invariant is not inductive, `IInv`
of the module strengthens it by named parts. TLC was run on `IInv` of each module before it was proved.
All are laid out alike: facts about the lists and tables involved, one lemma or step
per action and part, then `IInv` at first, `IInv` kept by every step, and the theorems.

| Module | Theorems | State |
|---|---|---|
| `EventLoopProofs` | `TypeCorrect`, `WakeupsSuffice`, `FifoDelivery`, `GracefulStop`, `Refinement` | `TypeOK`, `NoLostWakeup`, `FifoExactlyOnce`, `GracefulStopDropsNothing`, `ImplementsMailbox` |
| `TimerManagerProofs` | `TypeCorrect`, `RunningIsScheduled`, `NothingDangles`, `ListSorted`, `FiredWhenDue` | `TypeOK`, `RunningIffScheduled`, `NoDanglingTimer`, `SortedByEnd`, the action property `FiresWhenDue` |
| `TcpServerWorkerProofs` | `TypeCorrect`, `OwnedOnce`, `DealtEvenly`, `ServerClosesItsOwn` | `TypeOK`, `OneOwner`, `EvenShares`, the action property `ClosedByOwner` |
| `TcpChannelProofs` | `TypeCorrect`, `OneOwnerEach`, `NotToldAfterClose`, `EndsClean`, `SentInOrder`, `AnswersAreTrue`, `AnsweredOnce` | `TypeOK`, `SocketOwners`, `CloseNotToldAfterClose`, that a thread that ended left nothing behind, `SendOrder`, `AnswersTruthful`, and that no send handler is called twice |
| `ConnectionsProofs` | `TypeCorrect`, `HeldOnce`, `KeepsPromise` | `TypeOK`, `SocketHeldOnce`, the safety half of `ImplementsConnect` |
| `ThreadProofs` | `TypeCorrect`, `NothingUsedAfterFree` | `TypeOK`, `NoUseAfterFree` |
| `UpgradeProofs` | `Invariant`, `AnswersOnce`, `ExchangeTypes`, `FramesInvariant`, `MessagesIntact`, `ClosedTogether`, `TypeCorrect` | `OneAnswer`, the types of the exchange (`HttpTypes`), `FramesIntact`, `CloseHandshake`, `TypeOK` |
| `SequenceLemmas` | lemmas only | what `Min`, `Max`, `ToSet`, `InsertAt`, `RemoveAt`, `RemoveFirst`, `Reverse` return, the parts of a list, and steps that are repeated |

**EventLoop.** `Counting`: no more events were accepted than calls made, so that a new
event's number is in its type. `HandShape`: there is an event in the loop's hand exactly
in the handler, on which the FIFO equation depends at each hand-over. `StopIsLast`: a stop in
the queue is the last event there, nothing is queued behind one in the hand, and the flag is up
meanwhile. `LivingLoop` and `StoppedLoop`: before the exit nothing was discarded and no
stop dispatched; after an exit by a stop the flag stays up and the queue empty until `clear()`. The
refinement maps `push()` to Accept, the return of a handler to HandOver, the drain to Discard,
`clear()` to Leave, and everything else to a stutter; that HandOver never follows a stop
needs `LivingLoop`.

**TimerManager.** `Core` says that the list is sorted, holds a timer once and ends each item at its
timer's deadline, and that a timer runs exactly when it is in the list or among the expired, never both;
that a running timer exists, an expired one has reached its deadline, and none runs after the end.
The three invariants follow from it, and none of them is inductive alone: that `Expire` takes all timers that are due
needs the order, that it takes each once needs `Distinct`. `SortedByEnd` rests on `Insert`,
which looks for the last entry that is not later; what remains of a sorted list is `RemoveAtIs` and `RemoveFirstIs`.
`FiresWhenDue` is read off the part about expired timers.

**TcpServerWorker.** `OneOwner` is kept by every hand-over as it stands, given `ScanShape`:
while the server looks for a worker it has a connection at hand, and the indices are in the pool. `EvenShares` needs
`Balanced`: as long as nobody was full or stopped, the workers up to `workerIndex` have had one
connection more than those behind it (`Lap`), and the search ends at its first turn, so that it is
still at `startIndex`. Counting the connections of a worker after one more was given to it
is `FS_AddElement`; this is why the connections are assumed to be finite (`ChannelsAssumption`).

**TcpChannel.** Tasks, handlers and the channel's numbers meet in `Telling`: a connection is numbered once, has at most one
close task, and is told only when none is left in the queue; while a channel is open its connection has no
close task and was neither told nor closed. A close task of a closed channel is held: by the canceller, so that a
`close()` will take it back, by `taken` when one has, or by `missed` when `setCloseHandler()` forgot
it. `CloseNotToldAfterClose` needs exactly this at the moment `RunClosed` calls the handler. Two kinds
of steps do all the work: those that leave owners and connections alone (`SameOwners`, `SameTelling`, lemma
`QuietKeeps`), and those that close a channel and let its socket go (`Frees`, `Closes`, lemma
`ClosingKeeps`), whoever found the end: a receive, the peek after a receive handler, or an event.
`connect` and `close` are proved by themselves. `LoopShape` has what the types of these steps need:
user code runs in a task or an event, a wait that took the queue's token left it a task, no
socket has more unread than came, and an item left to end a socket has nothing to send, so that no answer
goes to a channel that is gone. `Stopped` (in the drain no channel is open) makes the drain's timeout
leave nothing a channel still holds, and with `SocketOwners` gives `EndsClean`. That the descriptors
are finite (`DescriptorsAssumption`) is what makes the list of ready sockets a list.

*What a channel sends* has an invariant of its own, `SInv`, beside `IInv`. Neither `SendOrder` nor
`AnswersTruthful` is inductive: the controller keeps units and the channel keeps handlers, in two lists
that nothing but their order connects, and an answer takes whichever handler is first. `Queued` relates the two for an open
channel: the buffer is in order, what it holds of a message and what the wire has add up to
the whole message, nothing of a later message of the connection is on the wire, and every message of the
connection that is not in the buffer is settled, that is, out or given up. As long as nothing was cancelled, the handlers
are exactly those of the messages in the buffer; after `cancelSend()` there may be more.
`Handling`: the handlers are in order, none has been called, and no queued task will call it;
with `Answering` (tasks are for different sends, and for none that was answered) no handler
is called twice. `Truth` says of the tasks what `AnswersTruthful` says of the answers. `Begun` is the
last conjunct of `SendOrder`, which has to be kept for closed channels as well. Nearly all
steps send nothing (`SameSending`, lemma `SameSendingKeeps`) or move nothing but answers
(`QuietSendingKeeps`). The rest is one case: a call of `tryTcpSend` cuts the buffer in what the kernel
takes and what stays (`MoveKeeps`, `TrySendSends`), whether a send or an edge of the selector led to it.
`EnqueueSends` adds a message at the end of the buffer first.

**Connections.** `SocketHeldOnce` says that the holders of descriptors are disjoint. A
descriptor that the kernel gives out is held by nobody, and each step moves one from one holder
to another: `Table` is the whole table of descriptors, for the client's items and channel, the servers,
receivers and senders. `Single`: unless calls of `connect()` overlapped there is at most one item,
and no socket beside it. `Options`: a copied `SocketOption` points at its owner's socket or at
none. `Owed`: a stored handler and each queued answer belong to calls that are neither answered nor
withdrawn, each call to one of them; from it follows the refinement of `Connect`, where `Connect`,
`RunAnswer` and `Close` map to Ask, Answer and Withdraw and every other step to a stutter. That calls
overlap is part of the model and of the theorems.

**Thread.** What makes `NoUseAfterFree` hold is who holds a thread: its parent's list
(`Family`), then the join that took it out of there (`Joins`), until it is deleted (`Gone`). `Held`
says that a thread that runs is in one of the two, `Childless` that a thread has no children left
when it comes to its end, so that a parent outlives them. `Targets`: nobody but
its parent has ever started or joined a thread, so that nobody else can be about to when it is deleted.
`Events`: a ChildFinishedEvent is the only one of its child, which is
dead, was up, and is in the list while the loop takes events; hence no deletion twice, once for the event and
once from onExit. `Opened`: the parent of a thread that is not up yet waits in `start()`
for it, with the semaphore on its stack. This part needs `~SlowInit`, the
theorem's hypothesis: with an onInit that outlasts `Semaphore::wait` (finding 2) the parent may be
anywhere, and the statement is not true. `TypeCorrect` has no hypothesis.

**Upgrade.** `OneAnswer` is about calls of a handler, each made by a task that was posted by a request that
ended; `Once` says the same of tasks and answers together, and that a request that runs has none.
So all depends on a request that has ended not ending again, and every way to end one is a task (connected, sent, receive, close) that may be older than the
connection there is. `Turn` is the order of the tasks that tell of one connection, `Linked` what they say of
the socket: none of them is left of an earlier connection, which is what the canceller in `close()` is for.
`Over`: when a request has ended with its connection open,
nothing of it is still to be sent, and its answer is complete, so that data and the end of the connection
are not taken for more (or the handler of a synchronous request took the answer: the exception). That nothing is to be sent has
a reason at the other end. `Asking` counts the request's units in the server, on the wire and in the send buffer: they
add up to head and body, the server announces none and the client hears none before it has them all. With a server that answers early (`Bad`)
they do not, and the sending that fails afterwards is the second answer: so it is an exception. `Heads` says that
of one connection there comes one head, so that units which are left when the answer was taken away are not
another answer. The steps of `WsChannel` leave all this alone; that `SeesFrames` and `DropFrames`, whose tasks the
`HttpClient` still runs, do so too is part of the proof. That the loop over chunks keeps its receiver whole for any
number of turns is `ReceiveChunksIs`, by the first turn that would not (lemmas `Stays`, `Repeats`).

**WsChannel.** The second invariant of `UpgradeProofs`, `WInv`, joins two counts at one number n. Of the frames that
a side has begun to write, its peer has taken the first n: `Accounts` says that what it has handed over, what the running
`onTcpReceive` still hands over (`batch`) and the fragments of a message without its end are those frames, whole messages in order, none
left out. The other frames are on the side's line, cache and wire together, unit by unit (`Lined`), the last one up to the `rest` units that
are not written: the cache counts only when its position is not 0,
since otherwise the next units replace it, and then it ends inside a frame. `Hears` says that both speak of the
same n, unless a cut garbled a frame or the connection broke: then only the first part is kept. `FramesIntact` alone
is not inductive, for it knows nothing of the line: that the frames found by
`onTcpReceive` begin with number n + 1 is `LineBegins`, that they are the ones before the incomplete frame `IncompleteIs`
and `WholeFramesIs`, that the rest is a line again, with the cache cleared or kept, `Rests`. However many frames
there are, they are taken one after the other (`TakeAllIs`, by `TakeIs` and the first turn that would not).

The side that writes has `Writes`: a frame that is not the last is whole, something is missing of a torn one, and the loop of
`tryTcpSend` has something to do and nothing torn before it. `InTurn` puts the calls in order: what waits was called after
everything that went through the buffer, so that the frames sent alike keep the order of their calls while the others
overtake them. For `CloseHandshake`,
`Says`: behind a close frame are only frames that had waited, `mSent` is set, and the other way round while
the connection is open there is a close frame, or it was lost or torn; `HoldsBack`: a close frame that was taken has closed the channel or is held back;
`Waits`: one that is held back waits for the end of a message, or is the last frame that the batch
hands over. When all is quiet n is the number of all frames (`AllTaken`), so nothing of it remains but a message without
its end, which is the exception. A step of one side that reads nothing changes nothing for the other but units at the end of its line
(`ActsKeep`); `DropFrames` and the end of the connection are steps of the composition. The theorems are about
`UpgradeSpec \/ WsSpec`: two channels by themselves, which `Web` runs as well, and those that an upgrade has made. `Web`
takes the steps of `Upgrade`, or those of `WsSpec`, or leaves their variables alone, so that the theorems hold for its behaviours too.

*Only model-checked*, and why:

* liveness and fairness (`EveryEventDispatched`, `EveryTimerFires`, `ShutdownCompletes` and the
  others), with the fairness half of `ImplementsConnect`: out of the prover's reach;
* `AnswerIntact`, `RequestsAnswered`: that a body is whole after any cuts needs the chunks' arithmetic on every
  unit from the server to the handler. Not attempted;
* `Web` and `Forms`: `Text`, `HttpUrl`, `HttpFields`, `Codecs` use `RECURSIVE` operators and `Bitwise`; what a
  parser does with every text is induction over data in any case.

## 6. Not modelled

* Steps of the system clock: `TimerManager` has an even clock.
* The event loop's map of handlers (that of `HttpServer` is in `HttpMessages`), names, exit codes, processor affinity.
* Threads without a parent; `setChildFinishedHandler` in `Thread` (`keeps` in `TcpServerWorker` is such a handler).
  `EventLoop` begins behind a successful onInit; one that fails is in `Thread`.
* What a server does after it has used a deleted worker; what a `SocketOption` does whose socket was
  deleted when calls of `connect()` overlapped.
* The Windows and macOS branches: selectors, the semaphore, `TcpServer::accept`
  within one thread (which registers directly).
* TLS, on a channel and in the client; sockets beyond what their owners hold;
  addresses; bytes and operators of `byte_io` and `net_byte_io`; the examples.
* In `HttpExchange`: the limit of 10240 bytes for a line, `allowRedirect = FALSE`, a second request while the first connects,
  `outputFileName` (which appends to what an earlier response left), requests behind one another without
  waiting. The server's thread and that of a foreign server are one process.
* In `WsChannel`: what masking does to a payload, what follows a garbled or torn frame,
  a user's own handlers for control frames (without `onControlFrame` a close frame is
  handed over again with every reception).
* In the forms: what a failed parse leaves in the object, authentication fields, copies,
  moves and setters; blanks behind a `%`.
## 7. Plan

1. Done: everything under "Modules".
2. An abstract `Connection` (messages in order, one answer per send, one close) as a
   specification of `TcpChannel`.
3. Runs of their own for the exceptions above, as findings, in place of the exceptions.
4. Proofs: `AnswerIntact` and `RequestsAnswered` of `HttpExchange`.
