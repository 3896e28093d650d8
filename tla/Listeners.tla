----------------------------- MODULE Listeners -----------------------------
(***************************************************************************)
(* The classes that open a socket of their own and keep it: TcpServer,     *)
(* UdpReceiver and UdpSender.  The first two are registered with the       *)
(* controller, in mTcpServers and mUdpReceivers.                           *)
(***************************************************************************)
EXTENDS SocketTable

VARIABLES
    socket,   \* mSocket of each of the three
    listed,   \* those in a table of the controller
    leaked    \* descriptors whose Socket nobody points at any more

listenerVars == <<socket, listed, leaked>>

Listener  == {"server", "receiver", "sender"}
Listable  == {"server", "receiver"}

ListenerInit ==
    /\ socket = [o \in Listener |-> NoSocket]
    /\ listed = {}
    /\ leaked = {}

ListenerTypeOK ==
    /\ socket \in [Listener -> Handles \cup {NoSocket}]
    /\ listed \subseteq Listable
    /\ leaked \subseteq Handles

\* A new socket of owner o, in its table or not
Take(o, h, inTable) ==
    /\ socket' = [socket EXCEPT ![o] = h]
    /\ listed' = IF inTable THEN listed \cup {o} ELSE listed
    /\ fds' = fds \cup {h}
    /\ keys' = IF inTable THEN keys \cup {h} ELSE keys

\* TcpServer::open.  When the socket cannot be made or bound nothing is
\* left behind; when listen() fails the old, null mSocket is deleted and
\* the new socket stays open; when the registration fails open() says so,
\* but the server keeps the socket and counts as open.
OpenServer ==
    /\ Running
    /\ socket["server"] = NoSocket
    /\ Free(fds) # {}
    /\ LET h == NewHandle(fds) IN
         \/ /\ leaked' = leaked \cup {h}
            /\ fds' = fds \cup {h}
            /\ UNCHANGED <<socket, listed, keys>>
         \/ \E registered \in BOOLEAN :
              Take("server", h, registered) /\ UNCHANGED leaked
    /\ UNCHANGED <<option, status>>

OpenReceiver ==
    /\ Running
    /\ socket["receiver"] = NoSocket
    /\ Free(fds) # {}
    /\ \E registered \in BOOLEAN :
          Take("receiver", NewHandle(fds), registered)
    /\ UNCHANGED <<leaked, option, status>>

\* UdpSender::create does not ask whether the sender is open: the socket it
\* had is lost, and when its option points at that socket there are no
\* stored values to give to the new one.
CreateSender ==
    /\ Running
    /\ Free(fds) # {}
    /\ IF option["sender"] # NoSocket
       THEN status' = "dead" /\ UNCHANGED <<listenerVars, fds, keys>>
       ELSE /\ Take("sender", NewHandle(fds), FALSE)
            /\ leaked' = leaked \cup ({socket["sender"]} \ {NoSocket})
            /\ UNCHANGED status
    /\ UNCHANGED option

\* close() of the three, with unregisterTcpServer and unregisterUdpReceiver
CloseListener(o) ==
    /\ Running
    /\ socket[o] # NoSocket
    /\ socket' = [socket EXCEPT ![o] = NoSocket]
    /\ listed' = listed \ {o}
    /\ fds' = fds \ {socket[o]}
    /\ keys' = keys \ {socket[o]}
    /\ ClearOption(o)
    /\ UNCHANGED <<leaked, status>>

\* The last pointer to the object goes, which the controller's table has
\* one of; the user makes a new object.
DestroyListener(o) ==
    /\ status # "dead"
    /\ socket[o] # NoSocket
    /\ o \notin listed
    /\ socket' = [socket EXCEPT ![o] = NoSocket]
    /\ fds' = fds \ {socket[o]}
    /\ ClearOption(o)
    /\ UNCHANGED <<keys, listed, leaked, status>>

\* closeAllItems takes servers and receivers out of their tables; their
\* sockets stay with them.
ExitListeners == listed' = {} /\ UNCHANGED <<socket, leaked>>

ListenerNext ==
    \/ OpenServer \/ OpenReceiver \/ CreateSender
    \/ \E o \in Listener : CloseListener(o) \/ DestroyListener(o)
=============================================================================
