---------------------------- MODULE SocketTable ----------------------------
(***************************************************************************)
(* What the network classes of one thread share: descriptors, which the    *)
(* kernel gives out again as soon as they are closed, the keys of the      *)
(* epoll set, and the SocketOption that each class keeps.  A SocketOption  *)
(* stores values while its owner is closed and points at the owner's       *)
(* socket after getSocketOption() of an open one.                          *)
(***************************************************************************)
EXTENDS Integers, FiniteSets

CONSTANT MaxHandles   \* descriptors the process may have open at once

ASSUME HandlesAssumption == MaxHandles \in Nat \ {0}

Handles  == 1..MaxHandles
NoSocket == 0                  \* a null Socket pointer
Owners   == {"client", "server", "receiver", "sender"}

VARIABLES
    fds,      \* open descriptors, each of them in one Socket
    keys,     \* descriptors in the epoll set
    option,   \* mSockOption of each owner: NoSocket when it stores values
    status    \* of the thread: "running", "exited" or "dead"

tableVars == <<fds, keys, option, status>>

TableInit ==
    /\ fds = {}
    /\ keys = {}
    /\ option = [o \in Owners |-> NoSocket]
    /\ status = "running"

TableTypeOK ==
    /\ fds \subseteq Handles
    /\ keys \subseteq fds
    /\ option \in [Owners -> Handles \cup {NoSocket}]
    /\ status \in {"running", "exited", "dead"}

Running == status = "running"

\* Socket::create gets the smallest descriptor that is free.
Free(f)      == Handles \ f
NewHandle(f) == CHOOSE h \in Free(f) : \A g \in Free(f) : h <= g

\* getSocketOption(), called by the user
Point(o, socket) ==
    option' = IF socket = NoSocket THEN option
              ELSE [option EXCEPT ![o] = socket]

\* SocketOption::clear, when the owner closes
ClearOption(o) == option' = [option EXCEPT ![o] = NoSocket]
=============================================================================
