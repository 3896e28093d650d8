---------------------------- MODULE Connections ----------------------------
(***************************************************************************)
(* One thread with a TCP client, a TCP server, a UDP receiver and a UDP    *)
(* sender on one controller: they share the descriptors, which the kernel  *)
(* gives to the one what another has closed, and the tables are keyed by   *)
(* them.                                                                   *)
(***************************************************************************)
EXTENDS TcpConnect, Listeners

vars == <<tableVars, clientVars, listenerVars>>

Init == TableInit /\ ClientInit /\ ListenerInit

SocketOf(o) == IF o = "client" THEN mSocket ELSE socket[o]

GetSocketOption(o) ==
    /\ Running
    /\ Point(o, SocketOf(o))
    /\ UNCHANGED <<fds, keys, status, clientVars, listenerVars>>

\* SocketController::onExit, up to the loop that waits for the closes.  An
\* item that overlapping calls left behind has a channel without a socket,
\* which is used all the same.
Exit ==
    /\ Running
    /\ IF channels = {mSocket} \ {NoSocket}
       THEN /\ status' = "exited"
            /\ ExitClients
            /\ ExitListeners
            /\ fds' = fds \ DOMAIN items
            /\ keys' = keys \ (DOMAIN items \cup {socket[o] : o \in listed})
       ELSE /\ status' = "dead"
            /\ UNCHANGED <<fds, keys, clientVars, listenerVars>>
    /\ UNCHANGED option

Next ==
    \/ ClientNext /\ UNCHANGED listenerVars
    \/ ListenerNext /\ UNCHANGED clientVars
    \/ \E o \in Owners : GetSocketOption(o)
    \/ Exit

Spec == Init /\ [][Next]_vars
FairSpec == Spec /\ ClientFairness

-----------------------------------------------------------------------------
\* Every variable keeps its type.
TypeOK ==
    /\ TableTypeOK
    /\ ListenerTypeOK
    /\ DOMAIN items \subseteq Handles
    /\ \A h \in DOMAIN items : items[h] \in Items
    /\ mSocket \in Handles \cup {NoSocket}
    /\ handler \in Calls \cup {NoCall}
    /\ channels \cup closing \subseteq Handles
    /\ tasks \in Seq([call : Calls, code : Codes])
    /\ calls \in 0..MaxConnects
    /\ answers \in [Calls -> Nat]
    /\ withdrawn \subseteq Calls
    /\ overlapped \in BOOLEAN

\* Who holds each open socket
HeldBy == [client    |-> {mSocket} \ {NoSocket},
           items     |-> DOMAIN items,
           closing   |-> closing,
           server    |-> {socket["server"]} \ {NoSocket},
           receiver  |-> {socket["receiver"]} \ {NoSocket},
           sender    |-> {socket["sender"]} \ {NoSocket},
           nobody    |-> leaked]

\* Every open descriptor has one holder and no other is held: none is
\* closed twice, under another's feet, or left open, but for those that
\* the failed listen() of a server and the second create() of a sender
\* leak.  What is registered is what the tables list.  Unless connect() was
\* called over an unfinished call, the one channel item is the client's,
\* and while the thread runs a SocketOption points at its owner's socket.
SocketHeldOnce ==
    /\ \A o, p \in DOMAIN HeldBy : o # p => HeldBy[o] \cap HeldBy[p] = {}
    /\ fds = UNION {HeldBy[o] : o \in DOMAIN HeldBy}
    /\ \A o \in listed : socket[o] # NoSocket
    /\ ~overlapped =>
         /\ channels = HeldBy["client"]
         /\ keys = channels \cup closing \cup DOMAIN items
                     \cup {socket[o] : o \in listed}
         /\ Running => \A o \in Owners : option[o] \in {NoSocket, SocketOf(o)}

\* connect() as its caller sees it: each call answered once, never after it
\* was withdrawn, and not left open, whatever the addresses, the timer, the
\* kernel and the other owners of descriptors do.
Promise == INSTANCE Connect WITH
    asked     <- 1..calls,
    withdrawn <- IF status = "dead" THEN withdrawn \cup Unanswered
                 ELSE withdrawn
ImplementsConnect == Promise!ConnectSpec
=============================================================================
