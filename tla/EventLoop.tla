----------------------------- MODULE EventLoop -----------------------------
(***************************************************************************)
(* The event loop of one subevent thread: EventController (the queue under *)
(* its mutex, the stop flag, the wakeup tokens of its Semaphore), the      *)
(* SocketController::wait that replaces the semaphore by an eventfd in an  *)
(* epoll set, and EventLoop::run.  Any thread may post at any moment; a    *)
(* step of the loop ends where the code takes or releases the mutex,       *)
(* blocks, or calls a handler.                                             *)
(*                                                                         *)
(* Timers are only counted here (module TimerManager has them in full):    *)
(* what matters to the loop is that starting or cancelling one leaves a    *)
(* wakeup token behind, and that a due one makes the loop post to itself.  *)
(***************************************************************************)
EXTENDS Integers, Sequences

CONSTANT MaxCalls  \* bound on the calls of push, startTimer, cancelTimer

ASSUME MaxCallsAssumption == MaxCalls \in Nat

VARIABLES
    selector,    \* mController is a SocketController, not EventController;
                 \*   setController is called before the loop starts
    queue,       \* EventController::mQueue
    stopPosted,  \* EventController::mStopPosted
    tokens,      \* count of EventController::mSem, or of the eventfd
    pc,          \* where EventLoop::run and the exit that follows it are
    hand,        \* the popped event, as a sequence of length 0 or 1
    armed,       \* number of timers in TimerManager::mItems
    failed,      \* the result of run() is false
    calls,       \* calls made so far, for MaxCalls
    accepted,    \* history: every event push() took, in order
    delivered,   \* history: every event that was dispatched, in order
    discarded    \* history: every event deleted without being dispatched

queueVars   == <<queue, stopPosted, accepted>>
historyVars == <<delivered, discarded>>
vars == <<selector, queue, stopPosted, tokens, pc, hand, armed, failed, calls,
          accepted, delivered, discarded>>

(* An event object: its number in the order of acceptance and its class.   *)
Kind  == {"user", "stop", "task"}
Event == [id : 1..MaxCalls, kind : Kind]
IsStop(e) == e.kind = "stop"

PCs == {"init", "top", "wait", "sockets", "socketsCancel", "pop", "handler",
        "due", "expire", "exit", "drain", "drainPop", "end"}

-----------------------------------------------------------------------------
(* Variants with a planted bug, named Bug..., stand before the definition  *)
(* they break; the specification does not use them.                        *)

\* the loop is only woken for the first event in the queue
BugPushWakesOnce(kind) ==
    IF stopPosted
    THEN UNCHANGED <<queueVars, tokens>>
    ELSE LET e == [id |-> Len(accepted) + 1, kind |-> kind]
         IN  /\ queue' = Append(queue, e)
             /\ accepted' = Append(accepted, e)
             /\ stopPosted' = (kind = "stop")
             /\ tokens' = IF queue = <<>> THEN tokens + 1 ELSE tokens

\* mStopPosted is not looked at
BugPushBehindStop(kind) ==
    LET e == [id |-> Len(accepted) + 1, kind |-> kind]
    IN  /\ queue' = Append(queue, e)
        /\ accepted' = Append(accepted, e)
        /\ stopPosted' = (stopPosted \/ kind = "stop")
        /\ tokens' = tokens + 1

(* EventController::push: the flag, the queue and the wakeup change under  *)
(* the mutex that pop() and clear() take too.                              *)
PushEvent(kind) ==
    IF stopPosted
    THEN UNCHANGED <<queueVars, tokens>>
    ELSE LET e == [id |-> Len(accepted) + 1, kind |-> kind]
         IN  /\ queue' = Append(queue, e)
             /\ accepted' = Append(accepted, e)
             /\ stopPosted' = (kind = "stop")
             /\ tokens' = tokens + 1

\* the newest event is taken
BugPopNewest ==
    /\ hand' = IF queue = <<>> THEN <<>> ELSE <<queue[Len(queue)]>>
    /\ queue' = IF queue = <<>> THEN <<>> ELSE SubSeq(queue, 1, Len(queue) - 1)

\* EventController::pop, the event to be given to the loop
PopEvent ==
    /\ hand' = IF queue = <<>> THEN <<>> ELSE <<Head(queue)>>
    /\ queue' = IF queue = <<>> THEN <<>> ELSE Tail(queue)

Init ==
    /\ selector \in BOOLEAN
    /\ queue = <<>>
    /\ stopPosted = FALSE
    /\ tokens = 0
    /\ pc = "init"
    /\ hand = <<>>
    /\ armed = 0
    /\ failed = FALSE
    /\ calls = 0
    /\ accepted = <<>>
    /\ delivered = <<>>
    /\ discarded = <<>>

Call == calls < MaxCalls /\ calls' = calls + 1

(* Thread::post or Thread::stop, called by any thread, the loop's own      *)
(* handlers included, before, during and after the loop's life.            *)
Post(kind) ==
    /\ Call
    /\ PushEvent(kind)
    /\ UNCHANGED <<selector, pc, hand, armed, failed, delivered, discarded>>

(* User code on the loop's thread: onInit, an event handler, or a socket   *)
(* callback inside SocketController::wait.                                 *)
InUserCode == pc \in {"init", "sockets", "socketsCancel", "handler"}

StartTimer ==
    /\ InUserCode
    /\ Call
    /\ armed' = armed + 1
    /\ tokens' = tokens + 1
    /\ UNCHANGED <<selector, queueVars, historyVars, pc, hand, failed>>

\* The timer is in mItems, or it has expired and its task is queued.
CancelTimer ==
    /\ InUserCode
    /\ Call
    /\ \/ armed > 0 /\ armed' = armed - 1
       \/ UNCHANGED armed
    /\ tokens' = tokens + 1
    /\ UNCHANGED <<selector, queueVars, historyVars, pc, hand, failed>>

\* The task of a repeating timer starts it again, without a wakeup.
RepeatTimer ==
    /\ pc = "handler"
    /\ hand[1].kind = "task"
    /\ Call
    /\ armed' = armed + 1
    /\ UNCHANGED <<selector, queueVars, historyVars, tokens, pc, hand, failed>>

-----------------------------------------------------------------------------
(* EventLoop::run, one action for each way through an iteration.           *)
Run ==
    /\ pc = "init"
    /\ pc' = "top"
    /\ UNCHANGED <<selector, queueVars, historyVars, tokens, hand, armed,
                   failed, calls>>

\* nextTimeout() = 0: a timer is due and the wait is skipped.
TimerDue ==
    /\ pc = "top"
    /\ armed > 0
    /\ pc' = "due"
    /\ UNCHANGED <<selector, queueVars, historyVars, tokens, hand, armed,
                   failed, calls>>

EnterWait ==
    /\ pc = "top"
    /\ pc' = "wait"
    /\ UNCHANGED <<selector, queueVars, historyVars, tokens, hand, armed,
                   failed, calls>>

\* the wait returns Success without a token
BugWaitUnchecked ==
    /\ pc = "wait"
    /\ tokens' = tokens - 1
    /\ pc' \in IF selector THEN {"pop", "socketsCancel"} ELSE {"pop"}
    /\ UNCHANGED <<selector, queueVars, historyVars, hand, armed, failed,
                   calls>>

\* Semaphore::wait or SocketSelector::wait takes one token.  The selector
\* may report sockets in the same return: their callbacks run before pop().
WaitToken ==
    /\ pc = "wait"
    /\ tokens > 0
    /\ tokens' = tokens - 1
    /\ pc' \in IF selector THEN {"pop", "socketsCancel"} ELSE {"pop"}
    /\ UNCHANGED <<selector, queueVars, historyVars, hand, armed, failed,
                   calls>>

\* epoll_wait reports sockets only.  The eventfd is level-triggered, so it
\* holds no token.
WaitSockets ==
    /\ pc = "wait"
    /\ selector
    /\ tokens = 0
    /\ pc' = "sockets"
    /\ UNCHANGED <<selector, queueVars, historyVars, tokens, hand, armed,
                   failed, calls>>

\* a cancelled wait with socket events does not pop
BugSocketsWithoutPop ==
    /\ pc \in {"sockets", "socketsCancel"}
    /\ pc' = "top"
    /\ UNCHANGED <<selector, queueVars, historyVars, tokens, hand, armed,
                   failed, calls>>

\* onSelectEvent returns: to pop() when the wait was cancelled as well,
\* with Success and no event otherwise.
SocketsDone ==
    /\ \/ pc = "socketsCancel" /\ pc' = "pop"
       \/ pc = "sockets" /\ pc' = "top"
    /\ UNCHANGED <<selector, queueVars, historyVars, tokens, hand, armed,
                   failed, calls>>

\* epoll_wait fails with EINTR: Success, without events.
WaitInterrupted ==
    /\ pc = "wait"
    /\ selector
    /\ pc' = "top"
    /\ UNCHANGED <<selector, queueVars, historyVars, tokens, hand, armed,
                   failed, calls>>

\* With no timer the selector is given -1 and waits for ever; the
\* semaphore's longest wait is 4.3 s.
WaitTimeout ==
    /\ pc = "wait"
    /\ tokens = 0
    /\ armed > 0 \/ ~selector
    /\ pc' = "expire"
    /\ UNCHANGED <<selector, queueVars, historyVars, tokens, hand, armed,
                   failed, calls>>

WaitError ==
    /\ pc = "wait"
    /\ failed' = TRUE
    /\ pc' = "exit"
    /\ UNCHANGED <<selector, queueVars, historyVars, tokens, hand, armed,
                   calls>>

\* pop(), and dispatch() up to the call of the handler.  A token left by a
\* timer call finds the queue empty.
Pop ==
    /\ pc = "pop"
    /\ PopEvent
    /\ pc' = IF queue = <<>> THEN "top" ELSE "handler"
    /\ UNCHANGED <<selector, stopPosted, accepted, historyVars, tokens, armed,
                   failed, calls>>

\* dispatch() returns true for a StopEvent, too
BugDispatchGoesOn ==
    /\ pc = "handler"
    /\ delivered' = delivered \o hand
    /\ hand' = <<>>
    /\ pc' = "top"
    /\ UNCHANGED <<selector, queueVars, discarded, tokens, armed, failed,
                   calls>>

\* The handler returns and dispatch() deletes the event.
Dispatched ==
    /\ pc = "handler"
    /\ delivered' = delivered \o hand
    /\ hand' = <<>>
    /\ pc' = IF IsStop(hand[1]) THEN "exit" ELSE "top"
    /\ UNCHANGED <<selector, queueVars, discarded, tokens, armed, failed,
                   calls>>

\* One turn of TimerManager::expire: other threads may post between two.
Expire ==
    /\ pc \in {"due", "expire"}
    /\ armed > 0
    /\ armed' = armed - 1
    /\ PushEvent("task")
    /\ pc' = "expire"
    /\ UNCHANGED <<selector, historyVars, hand, failed, calls>>

ExpireDone ==
    /\ pc = "expire"
    /\ pc' = "top"
    /\ UNCHANGED <<selector, queueVars, historyVars, tokens, hand, armed,
                   failed, calls>>

-----------------------------------------------------------------------------
(* Thread::onExit after the loop has returned: cancelAllTimer, the drain   *)
(* of SocketController::onExit, EventController::clear.                    *)
CancelAllTimer ==
    /\ pc = "exit"
    /\ armed' = 0
    /\ tokens' = tokens + 1
    /\ pc' = "drain"
    /\ UNCHANGED <<selector, queueVars, historyVars, hand, failed, calls>>

\* While a socket is still open SocketController::onExit waits and deletes
\* the events it meets.
DrainWait ==
    /\ pc = "drain"
    /\ selector
    /\ tokens > 0
    /\ tokens' = tokens - 1
    /\ pc' = "drainPop"
    /\ UNCHANGED <<selector, queueVars, historyVars, hand, armed, failed,
                   calls>>

DrainPop ==
    /\ pc = "drainPop"
    /\ queue' = IF queue = <<>> THEN <<>> ELSE Tail(queue)
    /\ discarded' = IF queue = <<>> THEN discarded
                    ELSE Append(discarded, Head(queue))
    /\ pc' = "drain"
    /\ UNCHANGED <<selector, stopPosted, accepted, delivered, tokens, hand,
                   armed, failed, calls>>

\* clear() leaves mStopPosted set
BugClearStaysClosed ==
    /\ pc = "drain"
    /\ queue' = <<>>
    /\ discarded' = discarded \o queue
    /\ pc' = "end"
    /\ UNCHANGED <<selector, stopPosted, accepted, delivered, tokens, hand,
                   armed, failed, calls>>

Clear ==
    /\ pc = "drain"
    /\ queue' = <<>>
    /\ discarded' = discarded \o queue
    /\ stopPosted' = FALSE
    /\ pc' = "end"
    /\ UNCHANGED <<selector, accepted, delivered, tokens, hand, armed, failed,
                   calls>>

LoopStep ==
    \/ Run \/ TimerDue \/ EnterWait \/ WaitToken \/ WaitSockets \/ SocketsDone
    \/ WaitTimeout \/ Pop \/ Dispatched \/ Expire \/ ExpireDone
    \/ CancelAllTimer \/ DrainWait \/ DrainPop \/ Clear

Next ==
    \/ \E kind \in {"user", "stop"} : Post(kind)
    \/ StartTimer \/ CancelTimer \/ RepeatTimer
    \/ LoopStep \/ WaitInterrupted \/ WaitError

(* The loop's thread keeps running, handlers return, and a wait is not     *)
(* interrupted by a signal every single time.                              *)
Fairness == WF_vars(LoopStep) /\ SF_vars(WaitToken)

Spec == Init /\ [][Next]_vars
FairSpec == Spec /\ Fairness

-----------------------------------------------------------------------------
(* Properties.                                                             *)

TypeOK ==
    /\ selector \in BOOLEAN
    /\ queue \in Seq(Event)
    /\ stopPosted \in BOOLEAN
    /\ tokens \in Nat
    /\ pc \in PCs
    /\ hand \in Seq(Event)
    /\ armed \in Nat
    /\ failed \in BOOLEAN
    /\ calls \in 0..MaxCalls
    /\ accepted \in Seq(Event)
    /\ delivered \in Seq(Event)
    /\ discarded \in Seq(Event)

HoldsToken == pc \in {"pop", "socketsCancel", "drainPop"}

(* There is a wakeup token for every queued event, the one the loop has    *)
(* taken and not yet used included: the loop cannot go to sleep for ever   *)
(* on a queue that is not empty (push and wakeup against wait and pop).    *)
NoLostWakeup ==
    pc # "end" => \/ Len(queue) <= tokens
                  \/ HoldsToken /\ Len(queue) <= tokens + 1

(* Events are dispatched in the order push() accepted them, each once,     *)
(* and none gets lost between the queue, the loop's hand and clear().      *)
FifoExactlyOnce == accepted = delivered \o discarded \o hand \o queue

(* A loop that ends by a StopEvent has dispatched every event it accepted  *)
(* while it lived: clear() finds the queue empty, because push() takes     *)
(* nothing behind a StopEvent (mStopPosted).                               *)
GracefulStopDropsNothing ==
    pc \in {"exit", "drain", "drainPop", "end"} /\ ~failed =>
        /\ discarded = <<>>
        /\ pc # "end" => queue = <<>>

(* Every event accepted while the loop lives is dispatched in the end,     *)
(* unless the wait itself fails: no wakeup is lost, no timer starves the   *)
(* queue.                                                                  *)
Alive == pc \notin {"exit", "drain", "drainPop", "end"}
EveryEventDispatched ==
    \A n \in 1..MaxCalls :
        (Alive /\ Len(accepted) >= n) ~> (Len(delivered) >= n \/ failed)

(* A StopEvent ends the loop, from whichever state it is posted in.        *)
StopEndsLoop == stopPosted ~> (pc = "end")

-----------------------------------------------------------------------------
(* The loop implements the mailbox.  An event is handed over when its      *)
(* handler has run.                                                        *)
M == INSTANCE Mailbox WITH
        Message <- Event,
        Stops   <- {e \in Event : IsStop(e)},
        box     <- hand \o queue,
        got     <- delivered,
        closed  <- stopPosted,
        gone    <- (pc = "end")

\* The loop is a mailbox: FIFO, at most once, nothing behind a stop.
ImplementsMailbox == M!MailboxSpec
=============================================================================
