----------------------------- MODULE TcpChannel -----------------------------
(***************************************************************************)
(* The TCP channels of one thread: TcpChannel and the channel items of its *)
(* SocketController, over kernel sockets watched by an edge-triggered      *)
(* epoll, with a peer that sends, closes and resets as it likes.  What the *)
(* controller has to tell a channel it posts as a task, so that no user    *)
(* code runs while the events of a wait are served, and a task may find    *)
(* its channel closed, or open again.  The thread's event queue is a       *)
(* mailbox (module EventLoop shows that it is); timers fire at most once   *)
(* and never after their deletion (module TimerManager).                   *)
(***************************************************************************)
EXTENDS Naturals, Sequences, FiniteSets, SequencesExt

CONSTANTS
    Channels,      \* TcpChannel objects
    Fds,           \* descriptors the kernel gives out
    MaxConns,      \* connections made
    MaxSends,      \* sends made, of both kinds
    MaxIn,         \* units of data the peer sends
    Size,          \* units in a message
    Styles,        \* of user code: its receive handlers read all there is,
                   \* or leave some, or read all but are set late
    MaxLate,       \* connections whose handlers are set late
    None           \* a null pointer

ASSUME BoundsAssumption ==
    /\ {MaxConns, MaxSends, MaxIn, MaxLate} \subseteq Nat /\ Size \in Nat \ {0}
    /\ MaxLate <= MaxConns
ASSUME DescriptorsAssumption == IsFiniteSet(Fds)
ASSUME StylesAssumption == Styles \subseteq {"reads", "leaves", "late"}

VARIABLES
    style,         \* of the user
    chan,          \* the channel objects
    item,          \* mTcpChannels, by descriptor
    registered,    \* descriptors in the epoll set
    timers,        \* descriptors whose close timer exists
    kernel,        \* the sockets, by descriptor
    pc,            \* where the thread is
    batch,         \* events of the last wait still to be served
    cancelled,     \* the last wait also took the eventfd's token
    queue,         \* tasks
    current,       \* the task whose user code runs, if its end matters
    stopPosted,    \* a StopEvent was accepted
    conns,         \* connections made so far; they are numbered
    taken,         \* connections whose close task was cancelled
    told,          \* connections whose close handler was called
    closedFirst,   \* connections the user closed before that
    missed,        \* <<connection, what came before its handler was set>>
    sends,         \* asynchronous sends made so far, each by its connection
    syncs,         \* synchronous sends made so far
    wire,          \* units of asynchronous sends the kernel took, each by
                   \* its send's place in sends
    answered,      \* what each send handler was called with
    dropped,       \* sends whose data cancelSend() threw away
    arrived        \* units of data the peer sent

loopVars == <<pc, batch, cancelled, current>>
sendVars == <<sends, syncs, wire, answered, dropped>>
closeVars == <<taken, told, closedFirst, missed>>
vars == <<style, chan, item, registered, timers, kernel, pc, batch,
          cancelled, queue, current, stopPosted, conns, taken, told,
          closedFirst, missed, sends, syncs, wire, answered, dropped, arrived>>

Sends == 1..MaxSends
Conns == 1..MaxConns

\* A channel object, an item of mTcpChannels and a socket
ChannelState == [fd: Fds \cup {None}, conn: Conns \cup {0},
                 receiver: BOOLEAN, closer: BOOLEAN, handlers: Seq(Sends),
                 canceller: Conns \cup {0}]
ItemState    == [channel: Channels \cup {None}, blocked: BOOLEAN,
                 buffer: Seq(Sends)]
SocketState  == [unread: 0..MaxIn, peer: {"open", "fin", "reset", "dead"},
                 room: {"free", "full", "wanted"}, ready: BOOLEAN]

ASSUME NoneAssumption ==
    None \notin Channels \cup Fds \cup ItemState \cup SocketState \cup {"ok", "error"}

Received(c)         == [is |-> "receive", channel |-> c]
Sent(c, s, outcome) == [is |-> "sent", channel |-> c, send |-> s,
                        outcome |-> outcome]
Closed(c, n)        == [is |-> "close", channel |-> c, conn |-> n]
Stop                == [is |-> "stop"]
Other               == [is |-> "other"]

(* Variants with a planted bug, named Bug..., stand before the definition  *)
(* they break; the specification does not use them.                        *)

Task == {Received(c) : c \in Channels}
        \cup {Sent(c, s, o) : c \in Channels, s \in Sends,
                              o \in {"ok", "error"}}
        \cup {Closed(c, n) : c \in Channels, n \in Conns}

\* A channel as onClose() and close() leave it, without socket and handlers
ClosedChannel(conn, canceller) ==
    [fd |-> None, conn |-> conn, receiver |-> FALSE, closer |-> FALSE,
     handlers |-> <<>>, canceller |-> canceller]

NewChannel == ClosedChannel(0, 0)

\* An item that is left to end a socket
ClosedItem(it) == [channel |-> None, blocked |-> it.blocked, buffer |-> <<>>]

Init ==
    /\ style \in Styles
    /\ chan = [c \in Channels |-> NewChannel]
    /\ item = [fd \in Fds |-> None]
    /\ registered = {}
    /\ timers = {}
    /\ kernel = [fd \in Fds |-> None]
    /\ pc = "wait"
    /\ batch = <<>>
    /\ cancelled = FALSE
    /\ queue = <<>>
    /\ current = None
    /\ stopPosted = FALSE
    /\ conns = 0
    /\ taken = {}
    /\ told = {}
    /\ closedFirst = {}
    /\ missed = {}
    /\ sends = <<>>
    /\ syncs = 0
    /\ wire = <<>>
    /\ answered = [s \in Sends |-> None]
    /\ dropped = {}
    /\ arrived = 0

\* postTask to a queue q is refused behind a StopEvent.
Posted(q, tasks) == IF stopPosted THEN q ELSE q \o tasks

-----------------------------------------------------------------------------
(* The kernel.  A socket has data unread, room to send or somebody waiting *)
(* for room, a peer, and is ready when its next event has not been taken.  *)

NewSocket == [unread |-> 0, peer |-> "open", room |-> "free", ready |-> TRUE]

Live      == {fd \in Fds : kernel[fd] # None}
Broken(k) == k.peer \in {"reset", "dead"}
ReadyFds  == {fd \in registered \cap Live : kernel[fd].ready}

\* The first call to meet a reset takes the error off the socket.
TakeError(k) == [k EXCEPT !.peer = IF @ = "reset" THEN "dead" ELSE @]

\* Receive and peek return 0
AtEof(k) == k.unread = 0 /\ k.peer \in {"fin", "dead"}

Edge(k) == [k EXCEPT !.ready = TRUE]

PeerSends(fd) ==
    /\ fd \in Live
    /\ kernel[fd].peer = "open"
    /\ arrived < MaxIn
    /\ arrived' = arrived + 1
    /\ LET k == kernel[fd] IN
       kernel' = [kernel EXCEPT ![fd] = Edge([k EXCEPT !.unread = k.unread + 1])]
    /\ UNCHANGED <<style, chan, item, registered, timers, loopVars, queue,
                   stopPosted, conns, closeVars, sendVars>>

PeerEnds(fd, how) ==
    /\ fd \in Live
    /\ \/ kernel[fd].peer = "open"
       \/ kernel[fd].peer = "fin" /\ how = "reset"
    /\ kernel' = [kernel EXCEPT ![fd] = Edge([@ EXCEPT !.peer = how])]
    /\ UNCHANGED <<style, chan, item, registered, timers, loopVars, queue,
                   stopPosted, conns, closeVars, sendVars, arrived>>

\* Room comes back; whoever found none is told.
RoomBack(fd) ==
    /\ fd \in Live
    /\ kernel[fd].room # "free"
    /\ kernel' = [kernel EXCEPT ![fd] =
           IF @.room = "wanted" THEN Edge([@ EXCEPT !.room = "free"])
                                ELSE [@ EXCEPT !.room = "free"]]
    /\ UNCHANGED <<style, chan, item, registered, timers, loopVars, queue,
                   stopPosted, conns, closeVars, sendVars, arrived>>

UnitsOut(s) == Cardinality({i \in DOMAIN wire : wire[i] = s})

-----------------------------------------------------------------------------
(* What the controller and the channel do, whoever calls them.             *)

\* TcpChannel::onClose, posting to the queue q: the socket is deleted, the
\* close handler given away once.
OnClose(c, q) ==
    LET ch == chan[c] IN
    /\ chan' = [chan EXCEPT ![c] =
           ClosedChannel(ch.conn, IF ~ch.closer THEN ch.canceller
                                  ELSE IF stopPosted THEN 0 ELSE ch.conn)]
    /\ queue' = Posted(q, IF ch.closer THEN <<Closed(c, ch.conn)>> ELSE <<>>)

\* the item, its registration and its socket go
Release(fds) ==
    /\ registered' = registered \ fds
    /\ item' = [fd \in Fds |-> IF fd \in fds THEN None ELSE item[fd]]
    /\ kernel' = [fd \in Fds |-> IF fd \in fds THEN None ELSE kernel[fd]]

OnTcpReceiveEof(c, q) == Release({chan[c].fd}) /\ OnClose(c, q)

Messages(b) == Cardinality(ToSet(b))

\* a message sent in part counts as sent
BugWholeInPart(b, n) == Messages(SubSeq(b, 1, n))

\* How many messages the first n units of a buffer bring to their end.
Whole(b, n) == Messages(b) - Messages(SubSeq(b, n + 1, Len(b)))

Takes(room, n) == IF room = "free" THEN 1..n ELSE {0}

RoomAfter(n, total) == IF n < total THEN {"wanted"} ELSE {"free", "full"}

\* onSend, n times, for a channel with the handlers hs: each takes the next
\* handler, if there is one, whatever send it came with.
Answers(c, hs, n, outcome) ==
    [i \in 1..Min({n, Len(hs)}) |-> Sent(c, hs[i], outcome)]

Answer(c, hs, n, outcome) ==
    /\ chan' = [chan EXCEPT ![c].handlers = SubSeq(hs, n + 1, Len(hs))]
    /\ queue' = Posted(queue, Answers(c, hs, n, outcome))

\* tryTcpSend for the item it of fd, whose channel just got the handlers
\* more.  A message the kernel takes in part ends the loop without marking
\* the item blocked; EAGAIN marks it.
TrySend(fd, it, more) ==
    LET b  == it.buffer
        c  == it.channel
        hs == chan[c].handlers \o more
        After(rest, blocked) ==
            item' = [item EXCEPT ![fd] =
                        [channel |-> c, blocked |-> blocked, buffer |-> rest]]
    IN  IF b = <<>> THEN
            /\ After(b, it.blocked)
            /\ UNCHANGED <<kernel, chan, queue, wire>>
        ELSE IF Broken(kernel[fd]) THEN
            /\ After(<<>>, it.blocked)
            /\ kernel' = [kernel EXCEPT ![fd] = TakeError(@)]
            /\ Answer(c, hs, Messages(b), "error")
            /\ UNCHANGED wire
        ELSE \E n \in Takes(kernel[fd].room, Len(b)) :
            /\ After(SubSeq(b, n + 1, Len(b)),
                     n < Len(b) /\ (n = 0 \/ b[n] # b[n + 1]))
            /\ \E room \in RoomAfter(n, Len(b)) :
                  kernel' = [kernel EXCEPT ![fd].room = room]
            /\ Answer(c, hs, Whole(b, n), "ok")
            /\ wire' = wire \o SubSeq(b, 1, n)

-----------------------------------------------------------------------------
(* The wait, and the events it brought: first all that can be read, then   *)
(* all that can be written, then what has hung up.                         *)

Readable(k) == k.unread > 0 \/ k.peer # "open"
Writable(k) == k.room = "free" \/ Broken(k)
HungUp(k)   == k.peer # "open"

\* epoll_wait waits for room where it finds none, and wait() asks for the
\* error if there is one.
Polled(k) ==
    TakeError([k EXCEPT !.ready = FALSE,
                        !.room = IF @ = "full" THEN "wanted" ELSE @])

\* The events of one kind, in the order in which epoll_wait has the sockets
InOrder(s, fds) ==
    \A i, j \in DOMAIN s :
       i < j => \E k, l \in DOMAIN fds : k < l /\ s[i] = fds[k] /\ s[j] = fds[l]

Events(kind, fds, these) ==
    {[i \in DOMAIN s |-> <<kind, s[i]>>] :
        s \in {t \in SetToSeqs(these) : InOrder(t, fds)}}

Wait ==
    /\ pc \in {"wait", "drain"}
    /\ batch = <<>>
    /\ ReadyFds # {} \/ queue # <<>>
    /\ \E fds \in SetToSeqs(ReadyFds) :
       \E reads  \in Events("read", fds, {fd \in ReadyFds : Readable(kernel[fd])}),
          writes \in Events("write", fds, {fd \in ReadyFds : Writable(kernel[fd])}),
          closes \in Events("close", fds, {fd \in ReadyFds : HungUp(kernel[fd])}) :
             batch' = reads \o writes \o closes
    /\ kernel' = [fd \in Fds |->
           IF fd \in ReadyFds THEN Polled(kernel[fd]) ELSE kernel[fd]]
    /\ cancelled' = (queue # <<>>)
    /\ pc' = IF pc = "wait" THEN "serve" ELSE pc
    /\ UNCHANGED <<style, chan, item, registered, timers, queue, current,
                   stopPosted, conns, closeVars, sendVars, arrived>>

Serve(kind, fd) ==
    /\ batch # <<>>
    /\ Head(batch) = <<kind, fd>>
    /\ batch' = Tail(batch)
    /\ UNCHANGED <<style, pc, cancelled, current, stopPosted, conns,
                   taken, told, closedFirst, sends, syncs, answered, dropped, arrived>>

\* The channel object, if any, whose active item the descriptor has
Active(fd)  == item[fd] # None /\ item[fd].channel # None
Closing(fd) == item[fd] # None /\ item[fd].channel = None

ServeRead(fd) ==
    /\ Serve("read", fd)
    /\ queue' = IF Active(fd) /\ chan[item[fd].channel].receiver
                THEN Posted(queue, <<Received(item[fd].channel)>>)
                ELSE queue
    /\ missed' = IF Active(fd) /\ ~chan[item[fd].channel].receiver /\ kernel[fd].unread > 0
                 THEN missed \cup {<<chan[item[fd].channel].conn, "receive">>}
                 ELSE missed
    /\ UNCHANGED <<chan, item, registered, timers, kernel, wire>>

\* sendBlocked is not reset
BugServeWriteBlocked(fd) ==
    /\ Serve("write", fd)
    /\ IF item[fd] # None
       THEN TrySend(fd, item[fd], <<>>)
       ELSE UNCHANGED <<item, kernel, chan, queue, wire>>
    /\ UNCHANGED <<registered, timers, missed>>

ServeWrite(fd) ==
    /\ Serve("write", fd)
    /\ IF item[fd] # None
       THEN TrySend(fd, [item[fd] EXCEPT !.blocked = FALSE], <<>>)
       ELSE UNCHANGED <<item, kernel, chan, queue, wire>>
    /\ UNCHANGED <<registered, timers, missed>>

\* The peer has closed.  What waits to be sent is answered, and if nothing
\* is left to read the channel is closed, otherwise that is put off.
ServeCloseActive(fd) ==
    /\ Serve("close", fd)
    /\ Active(fd)
    /\ LET c  == item[fd].channel
           hs == chan[c].handlers
           n  == Messages(item[fd].buffer)
       IN  IF kernel[fd].unread = 0
           THEN /\ Release({fd})
                /\ OnClose(c, Posted(queue, Answers(c, hs, n, "error")))
           ELSE /\ item' = [item EXCEPT ![fd].buffer = <<>>]
                /\ Answer(c, hs, n, "error")
                /\ UNCHANGED <<registered, kernel>>
    /\ UNCHANGED <<timers, wire, missed>>

\* the close timer is left behind
BugServeCloseKeepsTimer(fd) ==
    /\ Serve("close", fd)
    /\ Closing(fd)
    /\ Release({fd})
    /\ UNCHANGED <<chan, timers, queue, wire, missed>>

ServeCloseClosing(fd) ==
    /\ Serve("close", fd)
    /\ Closing(fd)
    /\ Release({fd})
    /\ timers' = timers \ {fd}
    /\ UNCHANGED <<chan, queue, wire, missed>>

-----------------------------------------------------------------------------
(* Tasks and timers.                                                       *)

\* Nothing but its StopEvent, or another event, wakes the thread.
Quiet == pc = "wait" /\ ReadyFds = {} /\ queue = <<>>

Served == pc = "serve" /\ batch = <<>>

\* The wait brought sockets only.
WaitAgain ==
    /\ Served
    /\ ~cancelled
    /\ pc' = "wait"
    /\ UNCHANGED <<style, chan, item, registered, timers, kernel, batch,
                   cancelled, queue, current, stopPosted, conns, closeVars,
                   sendVars, arrived>>

Take(is) ==
    /\ Served
    /\ cancelled
    /\ Head(queue).is = is
    /\ UNCHANGED <<style, batch, stopPosted, conns, taken, closedFirst,
                   missed, sends, syncs, wire, dropped, arrived>>

Enter(task) ==
    /\ pc' = "user"
    /\ current' = task
    /\ cancelled' = FALSE

BackToWait ==
    /\ pc' = "wait"
    /\ current' = None
    /\ cancelled' = FALSE

\* An event or a timer of the user
OtherEvent ==
    /\ Served \/ Quiet
    /\ Enter(Other)
    /\ UNCHANGED <<style, chan, item, registered, timers, kernel, batch,
                   queue, stopPosted, conns, closeVars, sendVars, arrived>>

\* The channel's receive handler begins with receiveAll(), or takes the data
\* there is without meeting the end, or does not read.
ReceiveAll(c, q) ==
    LET k == kernel[chan[c].fd] IN
    IF AtEof([k EXCEPT !.unread = 0])
    THEN OnTcpReceiveEof(c, q)
    ELSE /\ kernel' = [kernel EXCEPT ![chan[c].fd] =
                          TakeError([@ EXCEPT !.unread = 0])]
         /\ queue' = q
         /\ UNCHANGED <<chan, item, registered>>

ReceiveData(c, q) ==
    /\ kernel' = [kernel EXCEPT ![chan[c].fd].unread = 0]
    /\ queue' = q
    /\ UNCHANGED <<chan, item, registered>>

RunReceive ==
    /\ Take("receive")
    /\ Enter(Head(queue))
    /\ LET c == Head(queue).channel
           q == Tail(queue)
       IN  \/ chan[c].fd # None /\ ReceiveAll(c, q)
           \/ chan[c].fd # None /\ ReceiveData(c, q)
           \/ /\ chan[c].fd = None \/ style = "leaves"
              /\ queue' = q
              /\ UNCHANGED <<chan, item, registered, kernel>>
    /\ UNCHANGED <<timers, told, answered>>

RunSent ==
    /\ Take("sent")
    /\ Enter(Other)
    /\ answered' = [answered EXCEPT ![Head(queue).send] =
                        Head(queue).outcome]
    /\ queue' = Tail(queue)
    /\ UNCHANGED <<chan, item, registered, timers, kernel, told>>

RunClosed ==
    /\ Take("close")
    /\ IF Head(queue).conn \in taken
       THEN BackToWait /\ UNCHANGED told
       ELSE Enter(Other) /\ told' = told \cup {Head(queue).conn}
    /\ queue' = Tail(queue)
    /\ UNCHANGED <<chan, item, registered, timers, kernel, answered>>

\* closeAllItems; what is left in the queue is deleted.
RunStop ==
    /\ Take("stop")
    /\ pc' = "drain"
    /\ current' = None
    /\ cancelled' = FALSE
    /\ queue' = <<>>
    /\ chan' = [c \in Channels |-> [chan[c] EXCEPT !.fd = None]]
    /\ item' = [fd \in Fds |->
           IF Active(fd) THEN ClosedItem(item[fd]) ELSE item[fd]]
    /\ kernel' = [fd \in Fds |->
           IF Active(fd) THEN Edge(kernel[fd]) ELSE kernel[fd]]
    /\ UNCHANGED <<registered, timers, told, answered>>

\* startTcpChannelCloseTimer's handler finds its item by descriptor.
CloseTimeout(fd) ==
    /\ Served \/ Quiet
    /\ fd \in timers
    /\ BackToWait
    /\ timers' = timers \ {fd}
    /\ Release({fd})
    /\ UNCHANGED <<style, chan, batch, queue, stopPosted, conns,
                   closeVars, sendVars, arrived>>

\* nobody looks for the end behind the data
BugNoPeek(c) == UNCHANGED <<chan, item, registered, kernel, queue>>

\* After a receive handler the channel is asked whether it is at its end.
PeekEof(c) ==
    LET fd == chan[c].fd IN
    IF AtEof(kernel[fd])
    THEN OnTcpReceiveEof(c, queue)
    ELSE /\ kernel' = [kernel EXCEPT ![fd] =
                IF @.unread = 0 THEN TakeError(@) ELSE @]
         /\ UNCHANGED <<chan, item, registered, queue>>

\* The end of user code
Return ==
    /\ pc = "user"
    /\ BackToWait
    /\ IF current.is = "receive" /\ chan[current.channel].fd # None
       THEN PeekEof(current.channel)
       ELSE UNCHANGED <<chan, item, registered, kernel, queue>>
    /\ UNCHANGED <<style, timers, batch, stopPosted, conns, closeVars,
                   sendVars, arrived>>

-----------------------------------------------------------------------------
(* The drain of SocketController::onExit.                                  *)
Drained == pc = "drain" /\ batch = <<>>

Items == {fd \in Fds : item[fd] # None}

DrainTimeout ==
    /\ Drained
    /\ Items # {}
    /\ ReadyFds = {}
    /\ Release(Items)
    /\ timers' = timers \ Items
    /\ UNCHANGED <<style, chan, loopVars, queue, stopPosted, conns,
                   closeVars, sendVars, arrived>>

DrainDone ==
    /\ Drained
    /\ Items = {}
    /\ pc' = "end"
    /\ UNCHANGED <<style, chan, item, registered, timers, kernel, batch,
                   cancelled, queue, current, stopPosted, conns, closeVars,
                   sendVars, arrived>>

-----------------------------------------------------------------------------
(* User code, in a task or an event of the thread.                         *)
InUserCode == pc = "user" /\ UNCHANGED <<style, loopVars, stopPosted>>
Open(c)    == chan[c].fd # None

\* A connection is made and registered, its handlers set, or not yet.
Connect(c, fd) ==
    /\ InUserCode
    /\ ~Open(c)
    /\ kernel[fd] = None
    /\ conns < IF style = "late" THEN MaxLate ELSE MaxConns
    /\ conns' = conns + 1
    /\ kernel' = [kernel EXCEPT ![fd] = NewSocket]
    /\ registered' = registered \cup {fd}
    /\ item' = [item EXCEPT ![fd] =
                   [channel |-> c, blocked |-> TRUE, buffer |-> <<>>]]
    /\ chan' = [chan EXCEPT ![c] =
                   [fd |-> fd, conn |-> conns + 1,
                    receiver |-> chan[c].receiver \/ style # "late",
                    closer |-> chan[c].closer \/ style # "late",
                    handlers |-> chan[c].handlers,
                    canceller |-> IF style = "late" THEN chan[c].canceller
                                  ELSE 0]]
    /\ UNCHANGED <<timers, queue, closeVars, sendVars, arrived>>

\* ahead of what waits
BugEnqueueFirst(b, s) == [i \in 1..Size |-> s] \o b

Enqueue(b, s) == b \o [i \in 1..Size |-> s]

\* send with a handler: requestTcpSend
Send(c) ==
    /\ InUserCode
    /\ Open(c)
    /\ Len(sends) + syncs < MaxSends
    /\ sends' = Append(sends, chan[c].conn)
    /\ LET fd == chan[c].fd
           s  == Len(sends) + 1
           it == [item[fd] EXCEPT !.buffer = Enqueue(@, s)]
       IN  IF it.blocked
           THEN /\ item' = [item EXCEPT ![fd] = it]
                /\ chan' = [chan EXCEPT ![c].handlers = Append(@, s)]
                /\ UNCHANGED <<kernel, queue, wire>>
           ELSE TrySend(fd, it, <<s>>)
    /\ UNCHANGED <<registered, timers, conns, closeVars, syncs, answered,
                   dropped, arrived>>

\* send without a handler, past what waits in the buffer; how much of it the
\* kernel took is the caller's business, all that stays is the room left
SendNow(c) ==
    /\ InUserCode
    /\ Open(c)
    /\ Len(sends) + syncs < MaxSends
    /\ syncs' = syncs + 1
    /\ LET fd == chan[c].fd
           k  == kernel[fd]
       IN  IF Broken(k)
           THEN kernel' = [kernel EXCEPT ![fd] = TakeError(@)]
           ELSE \E n \in Takes(k.room, Size) : \E room \in RoomAfter(n, Size) :
                   kernel' = [kernel EXCEPT ![fd].room = room]
    /\ UNCHANGED <<chan, item, registered, timers, queue, conns, closeVars,
                   sends, wire, answered, dropped, arrived>>

CancelSend(c) ==
    /\ InUserCode
    /\ Open(c)
    /\ LET fd == chan[c].fd IN
       /\ item[fd].buffer # <<>>
       /\ dropped' = dropped \cup ToSet(item[fd].buffer)
       /\ item' = [item EXCEPT ![fd].buffer = <<>>]
    /\ UNCHANGED <<chan, registered, timers, kernel, queue, conns, closeVars,
                   sends, syncs, wire, answered, arrived>>

\* the end of the data is read as data
BugReceiveEnd(c) ==
    /\ InUserCode
    /\ Open(c)
    /\ LET k == kernel[chan[c].fd] IN
       kernel' = [kernel EXCEPT ![chan[c].fd] =
           IF k.unread = 0 /\ k.peer = "open" THEN @
                                              ELSE [@ EXCEPT !.unread = @ - 1]]
    /\ UNCHANGED <<chan, item, registered, timers, queue, conns, closeVars,
                   sendVars, arrived>>

\* receive, for one unit
Receive(c) ==
    /\ InUserCode
    /\ Open(c)
    /\ LET k == kernel[chan[c].fd] IN
       IF AtEof(k)
       THEN OnTcpReceiveEof(c, queue)
       ELSE /\ kernel' = [kernel EXCEPT ![chan[c].fd] =
                   IF k.unread = 0 THEN TakeError(k)
                                   ELSE [k EXCEPT !.unread = k.unread - 1]]
            /\ UNCHANGED <<chan, item, registered, queue>>
    /\ UNCHANGED <<timers, conns, closeVars, sendVars, arrived>>

\* no timer is started
BugStartNoTimer(fd) == timers

StartCloseTimer(fd) == timers \cup {fd}

\* the queued close task is left alone
BugCancelNothing(c) == taken

CancelCloseTask(c) == taken \cup ({chan[c].canceller} \ {0})

\* close.  An open channel gives its socket to its item, which waits for the
\* peer or for its timer; of a closed one the queued close task is cancelled.
Close(c) ==
    /\ InUserCode
    /\ IF Open(c)
       THEN LET fd == chan[c].fd IN
            /\ chan' = [chan EXCEPT ![c] = ClosedChannel(chan[c].conn, 0)]
            /\ item' = [item EXCEPT ![fd] = ClosedItem(item[fd])]
            /\ kernel' = [kernel EXCEPT ![fd] = Edge(@)]
            /\ timers' = StartCloseTimer(fd)
            /\ UNCHANGED taken
       ELSE /\ taken' = CancelCloseTask(c)
            /\ UNCHANGED <<chan, item, kernel, timers>>
    /\ closedFirst' = closedFirst \cup ({chan[c].conn} \ ({0} \cup told))
    /\ UNCHANGED <<registered, queue, conns, told, missed, sendVars, arrived>>

\* An event of data that came before is not repeated.
SetReceiveHandler(c) ==
    /\ InUserCode
    /\ style = "late"
    /\ chan' = [chan EXCEPT ![c].receiver = TRUE]
    /\ UNCHANGED <<item, registered, timers, kernel, queue, conns, closeVars,
                   sendVars, arrived>>

\* A close task that is queued can no longer be cancelled.
SetCloseHandler(c) ==
    /\ InUserCode
    /\ style = "late"
    /\ chan' = [chan EXCEPT ![c].closer = TRUE, ![c].canceller = 0]
    /\ missed' = missed \cup {<<n, "close">> : n \in {chan[c].canceller} \ {0}}
    /\ UNCHANGED <<item, registered, timers, kernel, queue, conns, taken, told,
                   closedFirst, sendVars, arrived>>

\* stop(), on any thread
PostStop ==
    /\ ~stopPosted
    /\ stopPosted' = TRUE
    /\ queue' = Append(queue, Stop)
    /\ UNCHANGED <<style, chan, item, registered, timers, kernel, loopVars,
                   conns, closeVars, sendVars, arrived>>

-----------------------------------------------------------------------------
RunTask == RunReceive \/ RunSent \/ RunClosed \/ RunStop

LoopStep ==
    \/ Wait \/ WaitAgain \/ RunTask \/ Return \/ DrainTimeout \/ DrainDone
    \/ \E fd \in Fds : \/ ServeRead(fd) \/ ServeWrite(fd)
                       \/ ServeCloseActive(fd) \/ ServeCloseClosing(fd)

UserStep ==
    \/ OtherEvent \/ PostStop
    \/ \E c \in Channels : \/ Send(c) \/ SendNow(c) \/ CancelSend(c)
                           \/ Receive(c) \/ Close(c)
                           \/ SetReceiveHandler(c) \/ SetCloseHandler(c)
                           \/ \E fd \in Fds : Connect(c, fd)

PeerStep ==
    \E fd \in Fds : \/ PeerSends(fd) \/ RoomBack(fd)
                    \/ \E how \in {"fin", "reset"} : PeerEnds(fd, how)

Next == LoopStep \/ UserStep \/ PeerStep
        \/ \E fd \in Fds : CloseTimeout(fd)

(* The thread runs and its handlers return.  Events of the user do not     *)
(* come in so fast that the thread's own tasks and timers never run.  A    *)
(* peer that is sent data makes room for more.                             *)
Fairness ==
    /\ WF_vars(LoopStep)
    /\ SF_vars(RunTask)
    /\ \A fd \in Fds : SF_vars(CloseTimeout(fd)) /\ WF_vars(RoomBack(fd))

Spec == Init /\ [][Next]_vars
FairSpec == Spec /\ Fairness

-----------------------------------------------------------------------------
(* Properties.                                                             *)

TypeOK ==
    /\ style \in Styles
    /\ chan \in [Channels -> ChannelState]
    /\ item \in [Fds -> ItemState \cup {None}]
    /\ registered \subseteq Fds
    /\ timers \subseteq Fds
    /\ kernel \in [Fds -> SocketState \cup {None}]
    /\ pc \in {"wait", "serve", "user", "drain", "end"}
    /\ batch \in Seq({"read", "write", "close"} \X Fds)
    /\ cancelled \in BOOLEAN
    /\ queue \in Seq(Task \cup {Stop})
    /\ current \in {Received(c) : c \in Channels} \cup {Other, None}
    /\ stopPosted \in BOOLEAN
    /\ conns \in 0..MaxConns
    /\ taken \cup told \cup closedFirst \subseteq Conns
    /\ missed \subseteq Conns \X {"receive", "close"}
    /\ sends \in Seq(Conns)
    /\ Len(sends) + syncs <= MaxSends
    /\ syncs \in 0..MaxSends
    /\ wire \in Seq(Sends)
    /\ answered \in [Sends -> {None, "ok", "error"}]
    /\ dropped \subseteq Sends
    /\ arrived \in 0..MaxIn

Refused(s) == \/ answered[s] = "error"
              \/ \E i \in 1..Len(queue) : /\ queue[i].is = "sent"
                                          /\ queue[i].send = s
                                          /\ queue[i].outcome = "error"

SameConn(s, t) == sends[s] = sends[t]

\* What the handler of s, or of a send before it that cancelSend() threw
\* away, is told tells it that s does not go out.
GivenUp(s) ==
    \/ s \in dropped
    \/ Refused(s)
    \/ /\ \E r \in dropped : r < s /\ SameConn(r, s)
       /\ \E r \in 1..s : Refused(r) /\ SameConn(r, s)

(* What is sent with a handler reaches the wire of its connection in the   *)
(* order of the calls and no unit twice, and a message begins only when    *)
(* every earlier one is out to its end; or the earlier one was thrown away *)
(* by cancelSend() or is answered with an error, perhaps with a part of it *)
(* out.  The error may have gone to the handler of a send before it, when  *)
(* a cancelSend() left that one waiting.                                   *)
SendOrder ==
    /\ \A s \in Sends : UnitsOut(s) <= Size
    /\ \A i, j \in DOMAIN wire :
          i < j /\ SameConn(wire[i], wire[j]) => wire[i] <= wire[j]
    /\ ~stopPosted =>
          \A s, t \in DOMAIN sends :
             s < t /\ SameConn(s, t) /\ UnitsOut(t) > 0 =>
                 UnitsOut(s) = Size \/ GivenUp(s)

(* A send handler is told the truth about its own message: success if and  *)
(* only if the kernel has all of it.  This holds as long as nothing is     *)
(* cancelled.                                                              *)
AnswersTruthful ==
    dropped = {} =>
        \A s \in Sends : answered[s] # None =>
            (answered[s] = "ok" <=> UnitsOut(s) = Size)

(* "success": a handler called without an error has had its message sent,  *)
(* with or without cancelSend().                                           *)
SuccessMeansSent ==
    \A s \in Sends : answered[s] = "ok" => UnitsOut(s) = Size

(* Every asynchronous send is answered, unless the channel is closed, the  *)
(* thread stops or a cancelSend() comes first.                             *)
SendsAnswered ==
    \A s \in Sends :
        (Len(sends) >= s) ~> \/ answered[s] # None
                        \/ dropped # {} \/ stopPosted
                        \/ \A c \in Channels : ~Open(c)

(* Every open socket is in the epoll set and has one item, which has the   *)
(* socket itself and, until the thread stops, a timer to end it, or else   *)
(* leaves it to its channel; and no timer outlives its item.               *)
SocketOwners ==
    /\ Live = Items
    /\ registered = Items
    /\ \A fd \in Fds : Active(fd) => chan[item[fd].channel].fd = fd
    /\ \A c \in Channels :
          Open(c) => Active(chan[c].fd) /\ item[chan[c].fd].channel = c
    /\ timers \subseteq {fd \in Fds : Closing(fd)}
    /\ pc # "drain" => timers = {fd \in Fds : Closing(fd)}

(* close() takes the queued call of the close handler back: once the user  *)
(* has closed a connection, its close handler is not called, unless a      *)
(* setCloseHandler() came between, which forgets the queued call.          *)
CloseNotToldAfterClose ==
    \A n \in closedFirst \cap told : <<n, "close">> \in missed

(* The peer's end of a connection is told to a channel that has a close    *)
(* handler and whose receive handler reads all there is, unless the user   *)
(* closes it or the thread stops, although the edge-triggered selector     *)
(* reports it once.  A receive handler set after the event of the first    *)
(* data is not called for it, and the end behind that data is not found.   *)
EofTold ==
    \A n \in Conns :
        (/\ style # "leaves"
         /\ \E c \in Channels : /\ Open(c)
                               /\ chan[c].conn = n /\ chan[c].closer
                               /\ HungUp(kernel[chan[c].fd])) ~>
            n \in told \cup closedFirst \/ stopPosted \/ <<n, "receive">> \in missed

(* A socket that is being closed is closed in the end, whatever the peer   *)
(* does and even when the thread stops meanwhile.                          *)
ClosingEnds == \A fd \in Fds : Closing(fd) ~> kernel[fd] = None

=============================================================================
