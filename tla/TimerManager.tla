---------------------------- MODULE TimerManager ----------------------------
(***************************************************************************)
(* The timers of one thread: class Timer, class TimerManager (the sorted   *)
(* list mItems, the set mExpired, the expiry tasks it posts) and the part  *)
(* of EventLoop::run that turns the next deadline into a bounded wait.     *)
(*                                                                         *)
(* Time is counted in ticks, TicksPerMs to the millisecond, because the    *)
(* code truncates what remains to milliseconds before it waits.  Instants  *)
(* are kept as the ticks left until then, 0 once they are reached, so time *)
(* needs no bound: the code only compares instants that are yet to come,   *)
(* and one that has passed with now.  The widths of the integers the wait  *)
(* goes through are constants, so that TLC can meet their limits: Modulus  *)
(* for uint32_t, IntMax for int, NsPerMs for the factor of Semaphore::wait.*)
(*                                                                         *)
(* The queue is reduced to what concerns timers: their expiry tasks and    *)
(* the stop event.  Every other event only lends the thread to user code.  *)
(***************************************************************************)
EXTENDS Integers, Sequences, FiniteSets, SequencesExt

CONSTANTS
    Timers,      \* addresses of Timer objects
    Intervals,   \* the milliseconds given to Timer::start
    TicksPerMs,  \* clock ticks in a millisecond
    NsPerMs,     \* the nanoseconds Semaphore::wait takes for one
    Modulus,     \* 2^32: the arithmetic of uint32_t
    IntMax,      \* largest value of int
    MaxCalls     \* bound on the calls user code makes

ASSUME WidthAssumption ==
    /\ TicksPerMs \in Nat \ {0} /\ NsPerMs \in Nat \ {0}
    /\ Modulus \in Nat \ {0} /\ IntMax \in Nat /\ IntMax < Modulus
    /\ NsPerMs % TicksPerMs = 0
    /\ Intervals \subseteq 0..(Modulus - 1)
ASSUME BoundAssumption == MaxCalls \in Nat

ASSUME TimersAssumption == {"stop", "none"} \cap Timers = {}

NoTimer == "none"
Forever == -1

VARIABLES
    selector,    \* the thread waits in epoll_wait, not in Semaphore::wait
    items,       \* TimerManager::mItems, a sequence of [timer, left], with
                 \*   the ticks left until the item's end
    expired,     \* TimerManager::mExpired
    alive,       \* Timer objects that exist
    running,     \* Timer::mRunning
    interval,    \* Timer::mInterval
    repeat,      \* Timer::mRepeat
    queue,       \* expiry tasks (their timer) and the stop event, in order
    stopPosted,  \* EventController::mStopPosted
    pc,          \* where the thread is
    wake,        \* ticks left of the current wait, or Forever
    current,     \* the timer whose handler runs, or NoTimer
    calls,       \* calls made so far, for MaxCalls
    due          \* history: ticks left to the deadline of each timer's
                 \*   latest start

objectVars == <<alive, running, interval, repeat>>
vars == <<selector, items, expired, alive, running, interval, repeat, queue,
          stopPosted, pc, wake, current, calls, due>>

PCs == {"handler", "top", "wait", "expire", "exit", "end"}

Init ==
    /\ selector \in BOOLEAN
    /\ items = <<>>
    /\ expired = {}
    /\ alive = {}
    /\ running = [t \in Timers |-> FALSE]
    /\ interval = [t \in Timers |-> 0]
    /\ repeat = [t \in Timers |-> FALSE]
    /\ queue = <<>>
    /\ stopPosted = FALSE
    /\ pc = "handler"                   \* onInit
    /\ wake = Forever
    /\ current = NoTimer
    /\ calls = 0
    /\ due = [t \in Timers |-> 0]

-----------------------------------------------------------------------------
(* TimerManager::start and TimerManager::cancel, on the list alone.        *)

(* Variants with a planted bug, named Bug..., stand before the definition  *)
(* they break; the specification does not use them.                        *)

\* the list is not kept sorted
BugInsertLast(list, item) == Append(list, item)

\* The new item goes before the first one that ends later.
Insert(list, item) ==
    LET later == {i \in DOMAIN list : list[i].left > item.left}
    IN  InsertAt(list, IF later = {} THEN Len(list) + 1 ELSE Min(later), item)

Schedule(t, msec) ==
    LET left == msec * TicksPerMs
    IN  /\ items' = Insert(items, [timer |-> t, left |-> left])
        /\ due' = [due EXCEPT ![t] = left]

Listed(t) == \E i \in DOMAIN items : items[i].timer = t

\* an expired timer is not taken out of mExpired
BugUnscheduleListed(t) ==
    /\ items' = RemoveFirstMatch(items, LAMBDA item : item.timer = t)
    /\ UNCHANGED expired

Unschedule(t) ==
    /\ items' = RemoveFirstMatch(items, LAMBDA item : item.timer = t)
    /\ expired' = IF Listed(t) THEN expired ELSE expired \ {t}

-----------------------------------------------------------------------------
(* What user code may do while it has the thread.                          *)
Call == pc = "handler" /\ calls < MaxCalls /\ calls' = calls + 1

\* Timer::Timer, maybe at the address of a deleted one
New(t) ==
    /\ Call
    /\ t \notin alive
    /\ alive' = alive \cup {t}
    /\ running' = [running EXCEPT ![t] = FALSE]
    /\ interval' = [interval EXCEPT ![t] = 0]
    /\ repeat' = [repeat EXCEPT ![t] = FALSE]
    /\ UNCHANGED <<selector, items, expired, queue, stopPosted, pc, wake,
                   current, due>>

\* Timer::start; on a running timer it returns at once.
Start(t, msec, again) ==
    /\ Call
    /\ t \in alive
    /\ ~running[t]
    /\ interval' = [interval EXCEPT ![t] = msec]
    /\ repeat' = [repeat EXCEPT ![t] = again]
    /\ running' = [running EXCEPT ![t] = TRUE]
    /\ Schedule(t, msec)
    /\ UNCHANGED <<selector, expired, alive, queue, stopPosted, pc, wake,
                   current>>

\* Timer::cancel; on a timer that is not running it returns at once.
Cancel(t) ==
    /\ Call
    /\ t \in alive
    /\ running[t]
    /\ running' = [running EXCEPT ![t] = FALSE]
    /\ Unschedule(t)
    /\ UNCHANGED <<selector, alive, interval, repeat, queue, stopPosted, pc,
                   wake, current, due>>

\* the destructor does not cancel
BugDeleteRunning(t) ==
    /\ Call
    /\ t \in alive
    /\ alive' = alive \ {t}
    /\ UNCHANGED <<selector, items, expired, running, interval, repeat, queue,
                   stopPosted, pc, wake, current, due>>

\* Timer::~Timer, which cancels
Delete(t) ==
    /\ Call
    /\ t \in alive
    /\ alive' = alive \ {t}
    /\ IF running[t]
       THEN /\ running' = [running EXCEPT ![t] = FALSE]
            /\ Unschedule(t)
       ELSE UNCHANGED <<running, items, expired>>
    /\ UNCHANGED <<selector, interval, repeat, queue, stopPosted, pc, wake,
                   current, due>>

\* The handler returns to the loop.
HandlerDone ==
    /\ pc = "handler"
    /\ pc' = "top"
    /\ current' = NoTimer
    /\ UNCHANGED <<selector, items, expired, objectVars, queue, stopPosted,
                   wake, calls, due>>

\* Thread::stop, by any thread
Stop ==
    /\ ~stopPosted
    /\ pc # "end"
    /\ stopPosted' = TRUE
    /\ queue' = Append(queue, "stop")
    /\ UNCHANGED <<selector, items, expired, objectVars, pc, wake, current,
                   calls, due>>

-----------------------------------------------------------------------------
(* From nextTimeout() to the wait.                                         *)

Uint(n) == n % Modulus

\* TimerManager::nextTimeout, in milliseconds
NextTimeout ==
    IF items = <<>> THEN Modulus - 1
                    ELSE Uint(Head(items).left \div TicksPerMs)

\* How long the wait lasts when nothing happens: epoll_wait takes an int,
\* negative for ever; Semaphore::wait multiplies in uint32_t.
WaitTicks(msec) ==
    IF selector
    THEN IF msec > IntMax THEN Forever ELSE msec * TicksPerMs
    ELSE Uint(msec * NsPerMs) \div (NsPerMs \div TicksPerMs)

\* the wait does not end for a timer
BugWaitForever ==
    /\ pc = "top"
    /\ NextTimeout > 0
    /\ wake' = Forever
    /\ pc' = "wait"
    /\ UNCHANGED <<selector, items, expired, objectVars, queue, stopPosted,
                   current, calls, due>>

EnterWait ==
    /\ pc = "top"
    /\ NextTimeout > 0
    /\ wake' = WaitTicks(NextTimeout)
    /\ pc' = "wait"
    /\ UNCHANGED <<selector, items, expired, objectVars, queue, stopPosted,
                   current, calls, due>>

SkipWait ==
    /\ pc = "top"
    /\ NextTimeout = 0
    /\ pc' = "expire"
    /\ UNCHANGED <<selector, items, expired, objectVars, queue, stopPosted,
                   wake, current, calls, due>>

WaitTimeout ==
    /\ pc = "wait"
    /\ queue = <<>>
    /\ wake = 0
    /\ pc' = "expire"
    /\ UNCHANGED <<selector, items, expired, objectVars, queue, stopPosted,
                   wake, current, calls, due>>

\* A leftover wakeup token, a signal, a socket event.
SpuriousWakeup ==
    /\ pc = "wait"
    /\ pc' = "top"
    /\ UNCHANGED <<selector, items, expired, objectVars, queue, stopPosted,
                   wake, current, calls, due>>

\* Any other event or socket callback is given the thread.
OtherEvent ==
    /\ pc = "wait"
    /\ calls < MaxCalls
    /\ pc' = "handler"
    /\ UNCHANGED <<selector, items, expired, objectVars, queue, stopPosted,
                   wake, current, calls, due>>

-----------------------------------------------------------------------------
(* TimerManager::expire and the tasks it posts.                            *)

\* Every item at the front of the list that is due leaves it; for each of
\* them whose timer runs, in their order, a task is posted, unless the thread
\* has been told to stop, maybe between two of the posts.
Expire ==
    /\ pc = "expire"
    /\ LET front == CHOOSE n \in 0..Len(items) :
                        /\ \A i \in 1..n : items[i].left = 0
                        /\ n < Len(items) => items[n + 1].left > 0
           kept   == {i \in 1..front : running[items[i].timer]}
           nth    == CHOOSE f \in [1..Cardinality(kept) -> kept] :
                        \A i, j \in DOMAIN f : i < j => f[i] < f[j]
           fired  == [i \in DOMAIN nth |-> items[nth[i]].timer]
       IN  /\ items' = SubSeq(items, front + 1, Len(items))
           /\ expired' = expired \cup {items[i].timer : i \in kept}
           /\ \/ /\ queue' = IF stopPosted THEN queue ELSE queue \o fired
                 /\ UNCHANGED stopPosted
              \/ /\ ~stopPosted
                 /\ \E n \in 1..(Len(fired) - 1) :
                        queue' = queue \o SubSeq(fired, 1, n) \o <<"stop">>
                 /\ stopPosted' = TRUE
    /\ pc' = "top"
    /\ UNCHANGED <<selector, objectVars, wake, current, calls, due>>

\* The task of a timer that was cancelled after it had expired.
StaleTask ==
    /\ pc = "wait"
    /\ queue # <<>>
    /\ Head(queue) \in Timers \ expired
    /\ queue' = Tail(queue)
    /\ pc' = "top"
    /\ UNCHANGED <<selector, items, expired, objectVars, stopPosted, wake,
                   current, calls, due>>

\* the task does not look the timer up in mExpired
BugFireUnlisted(t) ==
    /\ pc = "wait"
    /\ queue # <<>>
    /\ Head(queue) = t
    /\ queue' = Tail(queue)
    /\ expired' = expired \ {t}
    /\ IF running[t]
       THEN /\ running' = [running EXCEPT ![t] = repeat[t]]
            /\ IF repeat[t] THEN Schedule(t, interval[t])
                            ELSE UNCHANGED <<items, due>>
            /\ current' = t
            /\ pc' = "handler"
       ELSE /\ pc' = "top"
            /\ UNCHANGED <<running, items, due, current>>
    /\ UNCHANGED <<selector, alive, interval, repeat, stopPosted, wake, calls>>

\* The task calls the handler; a repeating timer is started again first.
Fire(t) ==
    /\ pc = "wait"
    /\ queue # <<>>
    /\ Head(queue) = t
    /\ t \in expired
    /\ queue' = Tail(queue)
    /\ expired' = expired \ {t}
    /\ IF running[t]
       THEN /\ running' = [running EXCEPT ![t] = repeat[t]]
            /\ IF repeat[t] THEN Schedule(t, interval[t])
                            ELSE UNCHANGED <<items, due>>
            /\ current' = t
            /\ pc' = "handler"
       ELSE /\ pc' = "top"
            /\ UNCHANGED <<running, items, due, current>>
    /\ UNCHANGED <<selector, alive, interval, repeat, stopPosted, wake, calls>>

TakeStop ==
    /\ pc = "wait"
    /\ queue # <<>>
    /\ Head(queue) = "stop"
    /\ queue' = Tail(queue)
    /\ pc' = "exit"
    /\ UNCHANGED <<selector, items, expired, objectVars, stopPosted, wake,
                   current, calls, due>>

\* only the timers of mItems are cancelled
BugCancelListed ==
    /\ pc = "exit"
    /\ running' = [t \in Timers |-> running[t] /\ ~Listed(t)]
    /\ items' = <<>>
    /\ expired' = {}
    /\ pc' = "end"
    /\ UNCHANGED <<selector, alive, interval, repeat, queue, stopPosted, wake,
                   current, calls, due>>

\* Thread::onExit calls TimerManager::cancelAll first.
CancelAll ==
    /\ pc = "exit"
    /\ running' = [t \in Timers |->
                     running[t] /\ ~Listed(t) /\ t \notin expired]
    /\ items' = <<>>
    /\ expired' = {}
    /\ pc' = "end"
    /\ UNCHANGED <<selector, alive, interval, repeat, queue, stopPosted, wake,
                   current, calls, due>>

\* an instant that has passed is not held at 0
BugLess(n) == n - 1

Less(n) == IF n > 0 THEN n - 1 ELSE n

Tick ==
    /\ items' = [i \in DOMAIN items |-> [items[i] EXCEPT !.left = Less(@)]]
    /\ due' = [t \in Timers |-> Less(due[t])]
    /\ wake' = Less(wake)
    /\ UNCHANGED <<selector, expired, objectVars, queue, stopPosted, pc,
                   current, calls>>

-----------------------------------------------------------------------------
UserStep ==
    \E t \in Timers :
        \/ New(t) \/ Cancel(t) \/ Delete(t)
        \/ \E msec \in Intervals, again \in BOOLEAN : Start(t, msec, again)

RunTask == StaleTask \/ TakeStop \/ \E t \in Timers : Fire(t)

LoopStep ==
    \/ HandlerDone \/ EnterWait \/ SkipWait \/ WaitTimeout \/ Expire
    \/ RunTask \/ CancelAll

Next ==
    \/ UserStep \/ LoopStep \/ Stop \/ SpuriousWakeup \/ OtherEvent \/ Tick

(* Time passes, handlers return, the loop runs, and the thread is not      *)
(* woken in vain every single time.                                        *)
Fairness == WF_vars(Tick) /\ WF_vars(LoopStep) /\ SF_vars(RunTask)

Spec == Init /\ [][Next]_vars
FairSpec == Spec /\ Fairness

-----------------------------------------------------------------------------
(* Properties.                                                             *)

Ticks == 0..(Max(Intervals \cup {0}) * TicksPerMs)

TypeOK ==
    /\ selector \in BOOLEAN
    /\ items \in Seq([timer : Timers, left : Ticks])
    /\ expired \subseteq Timers
    /\ alive \subseteq Timers
    /\ running \in [Timers -> BOOLEAN]
    /\ interval \in [Timers -> Intervals \cup {0}]
    /\ repeat \in [Timers -> BOOLEAN]
    /\ queue \in Seq(Timers \cup {"stop"})
    /\ stopPosted \in BOOLEAN
    /\ pc \in PCs
    /\ wake \in Nat \cup {Forever}
    /\ current \in Timers \cup {NoTimer}
    /\ calls \in 0..MaxCalls
    /\ due \in [Timers -> Ticks]

(* A timer is running exactly when the manager knows it, in one place and  *)
(* once: in mItems until it expires, in mExpired until its task runs, and  *)
(* a timer that has been deleted in neither.  (mRunning, mItems, mExpired) *)
RunningIffScheduled ==
    /\ \A i, j \in DOMAIN items : items[i].timer = items[j].timer => i = j
    /\ \A t \in Timers :
          /\ running[t] <=> Listed(t) \/ t \in expired
          /\ ~(Listed(t) /\ t \in expired)

(* The manager holds no pointer to a deleted timer, so expire() and the    *)
(* expiry tasks never touch freed memory, whatever user code deletes and   *)
(* whenever (mItems, mExpired; the tasks carry addresses too, and look     *)
(* them up in mExpired before they use them).  When onExit is over no      *)
(* timer is running, so the destructor of a thread object, run by another  *)
(* thread, cancels none of its member timers there.                        *)
NoDanglingTimer ==
    \A t \in Timers :
        /\ Listed(t) \/ t \in expired => t \in alive
        /\ pc = "end" => ~running[t]

(* mItems is sorted by end, so nextTimeout() and expire() may look at the  *)
(* front alone.                                                            *)
SortedByEnd ==
    \A i, j \in DOMAIN items : i < j => items[i].left <= items[j].left

(* A handler is only called for a timer that is alive and running, and     *)
(* never before the deadline of its latest start: cancelling, deleting or  *)
(* starting it again between expire() and the task may leave a stale task  *)
(* in the queue, which must not fire early (expire, mExpired).             *)
FiresWhenDue ==
    [][\A t \in Timers :
         pc = "wait" /\ current' = t =>
            t \in alive /\ running[t] /\ due[t] = 0]_vars

(* A running timer is fired or cancelled in the end, unless the thread is  *)
(* told to stop (TimerManager with EventLoop::run and the wait of the      *)
(* controller).                                                            *)
EveryTimerFires ==
    \A t \in Timers :
        running[t] ~> (current = t \/ ~running[t] \/ stopPosted)

(* README.md: the handler of timer->start is "Called from the same thread  *)
(* when time out", for any uint32_t of milliseconds.                       *)
CalledWhenTimeOut == EveryTimerFires
=============================================================================
