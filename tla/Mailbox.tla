------------------------------ MODULE Mailbox ------------------------------
(***************************************************************************)
(* What the event queue of a subevent thread promises to the threads that  *)
(* post to it, whatever wakes the owner up: messages are handed over one   *)
(* at a time, in the order they were accepted, each at most once; nothing  *)
(* is accepted behind a stop message while the owner lives, and nothing is *)
(* handed over after a stop message.  When the owner exits, what is left   *)
(* is thrown away and the box is open again, for nobody.                   *)
(***************************************************************************)
EXTENDS Naturals, Sequences

CONSTANTS Message,  \* what can be posted
          Stops     \* the messages that end the owner

VARIABLES box,      \* accepted and not handed over
          got,      \* handed over, in order
          closed,   \* a stop message was accepted
          gone      \* the owner has exited

mailboxVars == <<box, got, closed, gone>>

MailboxInit ==
    /\ box = <<>>
    /\ got = <<>>
    /\ closed = FALSE
    /\ gone = FALSE

Accept(m) ==
    /\ ~closed
    /\ box' = Append(box, m)
    /\ closed' = (m \in Stops)
    /\ UNCHANGED <<got, gone>>

HandOver ==
    /\ ~gone
    /\ box # <<>>
    /\ got = <<>> \/ got[Len(got)] \notin Stops
    /\ got' = Append(got, Head(box))
    /\ box' = Tail(box)
    /\ UNCHANGED <<closed, gone>>

\* The owner's last cleaning may take several steps; the last one reopens
\* the box.
Discard ==
    /\ ~gone
    /\ box # <<>>
    /\ box' = Tail(box)
    /\ UNCHANGED <<got, closed, gone>>

Leave ==
    /\ ~gone
    /\ box' = <<>>
    /\ closed' = FALSE
    /\ gone' = TRUE
    /\ UNCHANGED got

MailboxNext == (\E m \in Message : Accept(m)) \/ HandOver \/ Discard \/ Leave

MailboxSpec == MailboxInit /\ [][MailboxNext]_mailboxVars
=============================================================================
