------------------------------ MODULE Connect ------------------------------
(***************************************************************************)
(* What TcpClient::connect promises its caller: each call is answered by   *)
(* one call of its handler, and by none at all once it was withdrawn, by   *)
(* cancelConnect(), by another connect() or by the end of the thread; and  *)
(* no call is left open for ever.                                          *)
(***************************************************************************)
EXTENDS Naturals

CONSTANT Calls        \* the numbers of the calls of connect()

VARIABLES asked,      \* calls made
          answers,    \* how often each call's handler was called
          withdrawn   \* calls that nobody waits for any more

connectVars == <<asked, answers, withdrawn>>

ConnectInit ==
    /\ asked = {}
    /\ answers = [c \in Calls |-> 0]
    /\ withdrawn = {}

Waiting(c) == c \in asked /\ answers[c] = 0 /\ c \notin withdrawn

\* A call may come to nothing in the step that makes it: connect() of a
\* client whose socket was opened meanwhile brings the thread down.
Ask(c) ==
    /\ c \notin asked
    /\ asked' = asked \cup {c}
    /\ \E w \in SUBSET asked' : withdrawn' = withdrawn \cup w
    /\ UNCHANGED answers

Answer(c) ==
    /\ Waiting(c)
    /\ answers' = [answers EXCEPT ![c] = 1]
    /\ UNCHANGED <<asked, withdrawn>>

Withdraw(c) ==
    /\ Waiting(c)
    /\ \E w \in SUBSET asked : c \in w /\ withdrawn' = withdrawn \cup w
    /\ UNCHANGED <<asked, answers>>

ConnectNext == \E c \in Calls : Ask(c) \/ Answer(c) \/ Withdraw(c)

ConnectSpec ==
    /\ ConnectInit
    /\ [][ConnectNext]_connectVars
    /\ \A c \in Calls : WF_connectVars(Answer(c) \/ Withdraw(c))
=============================================================================
