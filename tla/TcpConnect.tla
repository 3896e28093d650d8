---------------------------- MODULE TcpConnect ----------------------------
(***************************************************************************)
(* TcpClient::connect and what follows: the controller tries one address   *)
(* after the other, waits for the socket to connect or for its timer,      *)
(* makes the socket the client's and registers it as a channel, and posts  *)
(* the call of the handler.  The user may cancel, close, or call connect() *)
(* again before the first call is answered, which the code lets through.   *)
(* What a connected channel does is in module TcpChannel; here it is only  *)
(* closed, by its user or its peer.                                        *)
(***************************************************************************)
EXTENDS SocketTable, Sequences, Functions

CONSTANTS
    MaxAddresses,   \* addresses a name resolves to, at most
    MaxConnects     \* calls of connect()

ASSUME ConnectAssumption ==
    MaxAddresses \in Nat \ {0} /\ MaxConnects \in Nat

Calls  == 1..MaxConnects
NoCall == 0                     \* a null mConnectHandler
Errno  == 1                     \* stands for every error of a system call
Codes  == {0, Errno, -5100, -5101, -5102, -5103, -5110, -5121, -5122}

VARIABLES
    items,       \* SocketController::mTcpClients, by descriptor
    mSocket,     \* the client's socket, NoSocket while it is closed
    handler,     \* the call whose handler is mConnectHandler
    channels,    \* mTcpChannels: items of open channels
    closing,     \* mTcpChannels: items that hold a socket to its end
    tasks,       \* calls of handlers that wait in the thread's queue
    calls,       \* calls made so far
    answers,     \* how often each call was answered
    withdrawn,   \* calls cancelled, replaced, or ended with the thread
    overlapped   \* connect() was called before an earlier call had ended

clientVars == <<items, mSocket, handler, channels, closing, tasks, calls,
                answers, withdrawn, overlapped>>

\* TcpClientItem: the addresses left, the last error, the timer, and what
\* the kernel has to say of the socket
Items == [left : 0..MaxAddresses, error : Codes,
          timer : {"running", "expired", "off"}, net : {"pending", "ok", "refused"}]

ClientInit ==
    /\ items = <<>>
    /\ mSocket = NoSocket
    /\ handler = NoCall
    /\ channels = {}
    /\ closing = {}
    /\ tasks = <<>>
    /\ calls = 0
    /\ answers = [c \in Calls |-> 0]
    /\ withdrawn = {}
    /\ overlapped = FALSE

Unanswered == {c \in 1..calls : answers[c] = 0}
Drop(its, h) == Restrict(its, DOMAIN its \ {h})
Add(its, h, item) == [g \in DOMAIN its \cup {h} |-> IF g = h THEN item ELSE its[g]]

-----------------------------------------------------------------------------
(* Steps of the controller and the client that several actions share.      *)
(* They get what the action has changed before: open descriptors f, keys   *)
(* k, items its and the handler hd; they prime those and mSocket,          *)
(* channels, tasks and status.                                             *)

\* the end of TcpClient::onConnect: the handler is taken and posted
PostAnswer(hd, code) ==
    /\ handler' = NoCall
    /\ tasks' = IF hd = NoCall THEN tasks
                ELSE Append(tasks, [call |-> hd, code |-> code])

\* onConnect without a socket
OnConnectFailed(f, k, its, hd, code) ==
    /\ fds' = f
    /\ keys' = k
    /\ items' = its
    /\ PostAnswer(hd, code)
    /\ UNCHANGED <<mSocket, channels, status>>

\* onConnect with a socket: create() deletes the one it had and takes this
\* one; the handshake of a TLS socket (-5121) and the registration (-5122)
\* may fail, the latter because an item with this descriptor is left over.
OnConnected(f, k, its, hd, socket) ==
    \E outcome \in {0, -5121, -5122} :
        LET lives == IF outcome = 0 THEN {socket} ELSE {} IN
        /\ outcome = 0 => socket \notin channels \cup closing
        /\ fds' = (f \ {mSocket, socket}) \cup lives
        /\ keys' = (k \ {mSocket, socket}) \cup lives
        /\ mSocket' = IF outcome = 0 THEN socket ELSE NoSocket
        /\ channels' = channels \cup lives
        /\ items' = its
        /\ PostAnswer(hd, outcome)
        /\ UNCHANGED status

\* createSocket asks getSocketOption() for stored values; of a client that
\* has been connected meanwhile they are null, and are read all the same.
Crash(f, k, its, hd) ==
    /\ status' = "dead"
    /\ fds' = f
    /\ keys' = k
    /\ items' = its
    /\ handler' = hd
    /\ UNCHANGED <<mSocket, channels, tasks>>

\* one address more than there are
BugTryAddress(f, k, its, hd, item) ==
    \E failing \in 0..item.left :
        /\ Free(f) # {}
        /\ LET h == NewHandle(f) IN
             /\ items' = Add(its, h, [item EXCEPT !.left = @ - failing - 1,
                                                  !.net = "pending"])
             /\ fds' = f \cup {h}
             /\ keys' = k \cup {h}
             /\ handler' = hd
             /\ UNCHANGED <<mSocket, channels, tasks, status>>

\* Some addresses fail at once; the next one's socket is not registered, or
\* connects at once, or is left to the selector.
TryAddress(f, k, its, hd, item) ==
    \E failing \in 0..(item.left - 1) :
        /\ Free(f) # {}
        /\ \/ OnConnectFailed(f, k, its, hd, -5103)
           \/ LET h == NewHandle(f) IN
                \/ OnConnected(f \cup {h}, k, its, hd, h)
                \/ /\ items' = Add(its, h, [item EXCEPT !.left = @ - failing - 1,
                                                         !.net = "pending"])
                   /\ fds' = f \cup {h}
                   /\ keys' = k \cup {h}
                   /\ handler' = hd
                   /\ UNCHANGED <<mSocket, channels, tasks, status>>

\* the last address is refused, and nobody is told
BugGiveUp(f, k, its, hd, item) ==
    /\ fds' = f
    /\ keys' = k
    /\ items' = its
    /\ handler' = hd
    /\ UNCHANGED <<mSocket, channels, tasks, status>>

\* No socket can be made, or no address is left.
GiveUp(f, k, its, hd, item) ==
    OnConnectFailed(f, k, its, hd,
                    IF item.left > 0 THEN Errno ELSE item.error)

\* SocketController::tryTcpConnect
TryTcpConnect(f, k, its, hd, item) ==
    \/ GiveUp(f, k, its, hd, item)
    \/ IF mSocket # NoSocket /\ item.left > 0
       THEN Crash(f, k, its, hd)
       ELSE TryAddress(f, k, its, hd, item)

-----------------------------------------------------------------------------
(* The client's user.                                                      *)

\* Both connect(): an unspecified endpoint (-5101) and a name that is not
\* resolved (-5110) are answered at once; with addresses the controller
\* makes an item and starts its timer.
Connect ==
    /\ Running
    /\ mSocket = NoSocket
    /\ calls < MaxConnects
    /\ calls' = calls + 1
    /\ overlapped' = (overlapped \/ handler # NoCall \/ items # <<>>)
    /\ \/ \E code \in {-5101, -5110} :
            OnConnectFailed(fds, keys, items, calls', code)
       \/ \E n \in 1..MaxAddresses :
            TryTcpConnect(fds, keys, items, calls',
                          [left |-> n, error |-> -5100,
                           timer |-> "running", net |-> "pending"])
    /\ withdrawn' = withdrawn \cup ({handler} \ {NoCall})
    /\ UNCHANGED <<closing, answers, option>>

\* cancelTcpConnect ends the first item of the client that it finds.
FirstItem == CHOOSE h \in DOMAIN items : \A g \in DOMAIN items : h <= g
CloseSocketOf(h) == fds' = fds \ {h} /\ keys' = keys \ {h}

\* the item goes, its socket stays open
BugCancelConnect ==
    /\ Running
    /\ handler # NoCall \/ items # <<>>
    /\ items' = <<>>
    /\ keys' = keys \ DOMAIN items
    /\ handler' = NoCall
    /\ withdrawn' = withdrawn \cup ({handler} \ {NoCall})
    /\ UNCHANGED <<fds, mSocket, channels, closing, tasks, calls, answers,
                   overlapped, option, status>>

CancelConnect ==
    /\ Running
    /\ handler # NoCall \/ items # <<>>
    /\ IF items = <<>> THEN UNCHANGED <<items, fds, keys>>
       ELSE items' = Drop(items, FirstItem) /\ CloseSocketOf(FirstItem)
    /\ handler' = NoCall
    /\ withdrawn' = withdrawn \cup ({handler} \ {NoCall})
    /\ UNCHANGED <<mSocket, channels, closing, tasks, calls, answers,
                   overlapped, option, status>>

\* close() of the connected channel: the controller keeps the socket until
\* the peer closes, or gives it up at once when the peer already has.
Close ==
    /\ Running
    /\ mSocket # NoSocket
    /\ channels' = channels \ {mSocket}
    /\ \/ closing' = closing \cup {mSocket} /\ UNCHANGED <<fds, keys>>
       \/ /\ fds' = fds \ {mSocket}
          /\ keys' = keys \ {mSocket}
          /\ UNCHANGED closing
    /\ mSocket' = NoSocket
    /\ ClearOption("client")
    /\ UNCHANGED <<items, handler, tasks, calls, answers, withdrawn,
                   overlapped, status>>

-----------------------------------------------------------------------------
(* The thread's loop, the kernel and the timer.                            *)

\* TcpChannel::onClose, when the peer closes
PeerCloses ==
    /\ Running
    /\ mSocket # NoSocket
    /\ channels' = channels \ {mSocket}
    /\ fds' = fds \ {mSocket}
    /\ keys' = keys \ {mSocket}
    /\ mSocket' = NoSocket
    /\ ClearOption("client")
    /\ UNCHANGED <<items, handler, closing, tasks, calls, answers, withdrawn,
                   overlapped, status>>

\* a closing socket comes to its end: also in the loop of onExit
CloseEnds(h) ==
    /\ status # "dead"
    /\ h \in closing
    /\ closing' = closing \ {h}
    /\ fds' = fds \ {h}
    /\ keys' = keys \ {h}
    /\ UNCHANGED <<items, mSocket, handler, channels, tasks, calls, answers,
                   withdrawn, overlapped, option, status>>

KernelConnects(h, result) ==
    /\ h \in DOMAIN items
    /\ items[h].net = "pending"
    /\ items' = [items EXCEPT ![h].net = result]
    /\ UNCHANGED <<fds, keys, option, status, mSocket, handler, channels,
                   closing, tasks, calls, answers, withdrawn, overlapped>>

\* onSelectTcpConnect: the item leaves the table first; after an error the
\* socket is deleted and the next address is tried, with the same timer.
SelectConnect(h) ==
    /\ Running
    /\ h \in DOMAIN items
    /\ items[h].net # "pending"
    /\ IF items[h].net = "ok"
       THEN OnConnected(fds, keys \ {h}, Drop(items, h), handler, h)
       ELSE TryTcpConnect(fds \ {h}, keys \ {h}, Drop(items, h), handler,
                          [items[h] EXCEPT !.error = Errno])
    /\ UNCHANGED <<closing, calls, answers, withdrawn, overlapped, option>>

TimeOut(h) ==
    /\ h \in DOMAIN items
    /\ items[h].timer = "running"
    /\ items' = [items EXCEPT ![h].timer = "expired"]
    /\ UNCHANGED <<fds, keys, option, status, mSocket, handler, channels,
                   closing, tasks, calls, answers, withdrawn, overlapped>>

\* The timer's handler finds an item by its client, not by its socket; the
\* item has the timer that is running, or this is one of two calls.
TimerTask(h) ==
    /\ Running
    /\ h \in DOMAIN items
    /\ items[h].timer = "expired"
    /\ LET first == FirstItem IN
         /\ items' = [g \in DOMAIN items \ {first} |->
                        IF g = h THEN [items[h] EXCEPT !.timer = "off"]
                        ELSE items[g]]
         /\ CloseSocketOf(first)
    /\ PostAnswer(handler, -5102)
    /\ UNCHANGED <<mSocket, channels, closing, calls, answers, withdrawn,
                   overlapped, option, status>>

RunAnswer ==
    /\ Running
    /\ tasks # <<>>
    /\ answers' = [answers EXCEPT ![Head(tasks).call] = @ + 1]
    /\ tasks' = Tail(tasks)
    /\ UNCHANGED <<fds, keys, option, status, items, mSocket, handler,
                   channels, closing, calls, withdrawn, overlapped>>

\* closeAllItems: a socket that is connecting is deleted, one that is open
\* is shut down and taken from its channel, whose option still points at
\* it.
ExitClients ==
    /\ items' = <<>>
    /\ closing' = closing \cup channels
    /\ channels' = {}
    /\ mSocket' = NoSocket
    /\ tasks' = <<>>
    /\ withdrawn' = withdrawn \cup Unanswered
    /\ UNCHANGED <<handler, calls, answers, overlapped>>

ClientNext ==
    \/ Connect \/ CancelConnect \/ Close \/ PeerCloses \/ RunAnswer
    \/ \E h \in Handles :
          \/ KernelConnects(h, "ok") \/ KernelConnects(h, "refused")
          \/ SelectConnect(h) \/ TimeOut(h) \/ TimerTask(h) \/ CloseEnds(h)

\* The thread's loop runs, and a timer runs out.
ClientFairness ==
    /\ WF_clientVars(RunAnswer)
    /\ \A h \in Handles :
          /\ WF_clientVars(SelectConnect(h))
          /\ WF_clientVars(TimeOut(h))
          /\ WF_clientVars(TimerTask(h))
=============================================================================
