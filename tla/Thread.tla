------------------------------- MODULE Thread -------------------------------
(***************************************************************************)
(* The tree of threads of an application: classes Thread and Application,  *)
(* from the constructor through start(), onInit(), the event loop and      *)
(* onExit() to the join and the deletion by the parent.  Each thread's     *)
(* event queue is a mailbox (module EventLoop shows that it is); the       *)
(* events that matter here are StopEvent and ChildFinishedEvent, and every *)
(* other event only gives the thread to user code.                         *)
(***************************************************************************)
EXTENDS Integers, Sequences, FiniteSets, SequencesExt

CONSTANTS
    Threads,    \* Thread objects, the Application included
    App,        \* the Application, whose run() is called by main
    SlowInit    \* TRUE: an onInit may outlast Semaphore::wait's 4.3 s

ASSUME ThreadsAssumption ==
    /\ App \in Threads
    /\ "none" \notin Threads
ASSUME SlowInitAssumption == SlowInit \in BOOLEAN

NoThread == "none"

VARIABLES
    obj,         \* "unborn", "alive" or "deleted"
    pc,          \* where each operating-system thread is
    back,        \* where it returns to after a blocking start()
    target,      \* the child it starts or joins
    childs,      \* Thread::mChilds
    parent,      \* Thread::mParent
    initResult,  \* Thread::mInitResult
    status,      \* EventLoop::mStatus: "Init", "Running" (Waiting
                 \*   included: nobody tells them apart) or "Exit"
    queue,       \* the thread's events
    stopPosted,  \* EventController::mStopPosted
    toStop,      \* children onExit has still to stop
    sem,         \* ThreadParam::sem of the start of a thread was posted
    param        \* the ThreadParam on the starter's stack: "unborn",
                 \*   "alive" or "deleted"

treeVars  == <<obj, childs, parent>>
startVars == <<initResult, sem, param>>
queueVars == <<queue, stopPosted>>
vars == <<obj, pc, back, target, childs, parent, initResult, status, queue,
          stopPosted, toStop, sem, param>>

PCs == {"unborn", "init", "initDone", "enterRun", "run", "handler",
        "starting", "joinStart", "reap", "exit", "exitReap", "exitJoin",
        "loopExit", "notify", "notifyPost", "failPost", "dead"}

Stop        == [kind |-> "stop", child |-> NoThread]
Finished(c) == [kind |-> "finished", child |-> c]
Event       == {Stop} \cup {Finished(c) : c \in Threads}

Init ==
    /\ obj = [t \in Threads |-> IF t = App THEN "alive" ELSE "unborn"]
    /\ pc = [t \in Threads |-> IF t = App THEN "init" ELSE "unborn"]
    /\ back = [t \in Threads |-> "init"]
    /\ target = [t \in Threads |-> NoThread]
    /\ childs = [t \in Threads |-> <<>>]
    /\ parent = [t \in Threads |-> NoThread]
    /\ initResult = [t \in Threads |-> FALSE]
    /\ status = [t \in Threads |-> "Init"]
    /\ queue = [t \in Threads |-> <<>>]
    /\ stopPosted = [t \in Threads |-> FALSE]
    /\ toStop = [t \in Threads |-> <<>>]
    /\ sem = [t \in Threads |-> FALSE]
    /\ param = [t \in Threads |-> "unborn"]

Goto(t, where) == pc' = [pc EXCEPT ![t] = where]

(* Thread::post: nothing is accepted behind a StopEvent.                   *)
Push(t, event) ==
    IF stopPosted[t]
    THEN UNCHANGED queueVars
    ELSE /\ queue' = [queue EXCEPT ![t] = Append(@, event)]
         /\ stopPosted' = [stopPosted EXCEPT ![t] = (event = Stop)]

-----------------------------------------------------------------------------
(* User code: onInit and event handlers of thread p.                       *)
InUserCode(p) == pc[p] \in {"init", "handler"}

\* Thread::Thread(parent): the tree takes whatever shape user code gives it.
New(p, c) ==
    /\ InUserCode(p)
    /\ obj[c] = "unborn"
    /\ obj' = [obj EXCEPT ![c] = "alive"]
    /\ parent' = [parent EXCEPT ![c] = p]
    /\ childs' = [childs EXCEPT ![p] = Append(@, c)]
    /\ UNCHANGED <<pc, back, target, startVars, status, queueVars, toStop>>

(* Variants with a planted bug, named Bug..., stand before the definition  *)
(* they break; the specification does not use them.                        *)

\* start() returns to the loop, whoever called it
BugStartFromLoop(p, c) ==
    /\ InUserCode(p)
    /\ c \in ToSet(childs[p])
    /\ pc[c] = "unborn"
    /\ pc' = [pc EXCEPT ![c] = "init", ![p] = "starting"]
    /\ back' = [back EXCEPT ![p] = "run"]
    /\ target' = [target EXCEPT ![p] = c]
    /\ param' = [param EXCEPT ![c] = "alive"]
    /\ UNCHANGED <<treeVars, initResult, sem, status, queueVars, toStop>>

\* Thread::start up to the wait for the new thread's onInit
Start(p, c) ==
    /\ InUserCode(p)
    /\ c \in ToSet(childs[p])
    /\ pc[c] = "unborn"
    /\ pc' = [pc EXCEPT ![c] = "init", ![p] = "starting"]
    /\ back' = [back EXCEPT ![p] = pc[p]]
    /\ target' = [target EXCEPT ![p] = c]
    /\ param' = [param EXCEPT ![c] = "alive"]
    /\ UNCHANGED <<treeVars, initResult, sem, status, queueVars, toStop>>

\* start() polls mInitResult instead of waiting for the semaphore
BugStartPolls(p) ==
    LET c == target[p] IN
    /\ pc[p] = "starting"
    /\ IF initResult[c]
       THEN /\ Goto(p, back[p])
            /\ param' = [param EXCEPT ![c] = "deleted"]
       ELSE /\ sem[c]
            /\ Goto(p, "joinStart")
            /\ UNCHANGED param
    /\ UNCHANGED <<back, target, treeVars, initResult, sem, status, queueVars,
                   toStop>>

\* The semaphore is posted, or its timed wait is over.  mInitResult is read
\* without looking at which it was.
StartWaited(p) ==
    LET c == target[p] IN
    /\ pc[p] = "starting"
    /\ sem[c] \/ SlowInit
    /\ IF initResult[c]
       THEN /\ Goto(p, back[p])
            /\ param' = [param EXCEPT ![c] = "deleted"]
       ELSE /\ Goto(p, "joinStart")
            /\ UNCHANGED param
    /\ UNCHANGED <<back, target, treeVars, initResult, sem, status, queueVars,
                   toStop>>

\* Thread::wait in start(), and start() returns mInitResult
StartJoined(p) ==
    LET c == target[p] IN
    /\ pc[p] = "joinStart"
    /\ pc[c] = "dead"
    /\ Goto(p, back[p])
    /\ param' = [param EXCEPT ![c] = "deleted"]
    /\ UNCHANGED <<back, target, treeVars, initResult, sem, status, queueVars,
                   toStop>>

\* User code deletes a thread when start() has returned false.
DeleteFailed(p, c) ==
    /\ InUserCode(p)
    /\ target[p] = c
    /\ obj[c] = "alive"
    /\ pc[c] = "dead"
    /\ ~initResult[c]
    /\ obj' = [obj EXCEPT ![c] = "deleted"]
    /\ UNCHANGED <<pc, back, target, childs, parent, startVars, status,
                   queueVars, toStop>>

HandlerDone(t) ==
    /\ pc[t] = "handler"
    /\ Goto(t, "run")
    /\ UNCHANGED <<back, target, treeVars, startVars, status, queueVars,
                   toStop>>

\* Thread::stop, called by anyone who knows the thread to live
StopThread(t) ==
    /\ obj[t] = "alive"
    /\ pc[t] # "dead"
    /\ ~stopPosted[t]
    /\ Push(t, Stop)
    /\ UNCHANGED <<pc, back, target, treeVars, startVars, status, toStop>>

-----------------------------------------------------------------------------
(* Thread::main and Application::run.                                      *)

\* onInit has returned; on failure onExit follows at once.
InitReturns(t, ok) ==
    /\ pc[t] = "init"
    /\ initResult' = [initResult EXCEPT ![t] = ok /\ t # App]
    /\ IF ~ok THEN /\ Goto(t, "exit")
                   /\ toStop' = [toStop EXCEPT ![t] = Reverse(childs[t])]
       ELSE /\ Goto(t, IF t = App THEN "enterRun" ELSE "initDone")
            /\ UNCHANGED toStop
    /\ UNCHANGED <<back, target, treeVars, sem, param, status, queueVars>>

\* threadParam->sem.post(), after onInit or after the failed thread's onExit
SemPost(t) ==
    /\ pc[t] \in {"initDone", "failPost"}
    /\ sem' = [sem EXCEPT ![t] = TRUE]
    /\ Goto(t, IF pc[t] = "initDone" THEN "enterRun" ELSE "dead")
    /\ UNCHANGED <<back, target, treeVars, initResult, param, status,
                   queueVars, toStop>>

EnterRun(t) ==
    /\ pc[t] = "enterRun"
    /\ status' = [status EXCEPT ![t] = "Running"]
    /\ Goto(t, "run")
    /\ UNCHANGED <<back, target, treeVars, startVars, queueVars, toStop>>

\* An event of the user.  It was posted before the thread's next event, so
\* it may as well be taken when there is no other.
UserEvent(t) ==
    /\ pc[t] = "run"
    /\ queue[t] = <<>>
    /\ Goto(t, "handler")
    /\ UNCHANGED <<back, target, treeVars, startVars, status, queueVars,
                   toStop>>

\* onExit stops the last child only
BugLeaveLoopStopsLast(t) ==
    /\ status' = [status EXCEPT ![t] = "Exit"]
    /\ toStop' = [toStop EXCEPT ![t] = IF childs[t] = <<>> THEN <<>>
                                       ELSE <<Last(childs[t])>>]
    /\ Goto(t, "exit")

LeaveLoop(t) ==
    /\ status' = [status EXCEPT ![t] = "Exit"]
    /\ toStop' = [toStop EXCEPT ![t] = Reverse(childs[t])]
    /\ Goto(t, "exit")

TakeStop(t) ==
    /\ pc[t] = "run"
    /\ queue[t] # <<>>
    /\ Head(queue[t]) = Stop
    /\ queue' = [queue EXCEPT ![t] = Tail(@)]
    /\ LeaveLoop(t)
    /\ UNCHANGED <<back, target, treeVars, startVars, stopPosted>>

\* The wait of the loop fails: run() returns false.
LoopFails(t) ==
    /\ pc[t] = "run"
    /\ LeaveLoop(t)
    /\ UNCHANGED <<back, target, treeVars, startVars, queueVars>>

\* the child stays in mChilds
BugTakeFinishedKeeps(t) ==
    /\ pc[t] = "run"
    /\ queue[t] # <<>>
    /\ Head(queue[t]).kind = "finished"
    /\ target' = [target EXCEPT ![t] = Head(queue[t]).child]
    /\ queue' = [queue EXCEPT ![t] = Tail(@)]
    /\ Goto(t, "reap")
    /\ UNCHANGED <<back, treeVars, startVars, status, stopPosted, toStop>>

\* onChildFinished, up to the join in childFinished
TakeFinished(t) ==
    /\ pc[t] = "run"
    /\ queue[t] # <<>>
    /\ Head(queue[t]).kind = "finished"
    /\ LET c == Head(queue[t]).child IN
       /\ childs' = [childs EXCEPT ![t] = RemoveFirst(@, c)]
       /\ target' = [target EXCEPT ![t] = c]
    /\ queue' = [queue EXCEPT ![t] = Tail(@)]
    /\ Goto(t, "reap")
    /\ UNCHANGED <<back, obj, parent, startVars, status, stopPosted, toStop>>

\* childFinished: join a thread that was started, then delete the object.
Joinable(c) == pc[c] # "unborn"
Reap(t, where) ==
    LET c == target[t] IN
    /\ Joinable(c) => pc[c] = "dead"
    /\ obj' = [obj EXCEPT ![c] = "deleted"]
    /\ Goto(t, where)
    /\ UNCHANGED <<back, target, childs, parent, startVars, status, queueVars,
                   toStop>>

ReapFinished(t) == pc[t] = "reap" /\ Reap(t, "run")

-----------------------------------------------------------------------------
(* Thread::onExit.                                                         *)

\* stop() on one child after the other, the last first
ExitStopChild(t) ==
    /\ pc[t] = "exit"
    /\ toStop[t] # <<>>
    /\ Push(Head(toStop[t]), Stop)
    /\ toStop' = [toStop EXCEPT ![t] = Tail(@)]
    /\ UNCHANGED <<pc, back, target, treeVars, startVars, status>>

ExitStopped(t) ==
    /\ pc[t] = "exit"
    /\ toStop[t] = <<>>
    /\ Goto(t, "exitReap")
    /\ UNCHANGED <<back, target, treeVars, startVars, status, queueVars,
                   toStop>>

\* mChilds.back() leaves the list, and childFinished joins it.
ExitTakeChild(t) ==
    /\ pc[t] = "exitReap"
    /\ childs[t] # <<>>
    /\ target' = [target EXCEPT ![t] = Last(childs[t])]
    /\ childs' = [childs EXCEPT ![t] = Front(@)]
    /\ Goto(t, "exitJoin")
    /\ UNCHANGED <<back, obj, parent, startVars, status, queueVars, toStop>>

ExitReapChild(t) == pc[t] = "exitJoin" /\ Reap(t, "exitReap")

ExitReaped(t) ==
    /\ pc[t] = "exitReap"
    /\ childs[t] = <<>>
    /\ Goto(t, "loopExit")
    /\ UNCHANGED <<back, target, treeVars, startVars, status, queueVars,
                   toStop>>

\* EventLoop::onExit: EventController::clear
LoopExit(t) ==
    /\ pc[t] = "loopExit"
    /\ queue' = [queue EXCEPT ![t] = <<>>]
    /\ stopPosted' = [stopPosted EXCEPT ![t] = FALSE]
    /\ Goto(t, IF parent[t] = NoThread THEN "dead" ELSE "notify")
    /\ UNCHANGED <<back, target, treeVars, startVars, status, toStop>>

\* the parent is only told while its loop runs
BugNotifyRunning(t) ==
    /\ pc[t] = "notify"
    /\ initResult[t]
    /\ Goto(t, IF status[parent[t]] = "Running" THEN "notifyPost" ELSE "dead")
    /\ UNCHANGED <<back, target, treeVars, startVars, status, queueVars,
                   toStop>>

\* The parent of a thread that ran is told, if its loop has not ended; a
\* thread that failed to start takes itself out of its parent's list.
NotifyParent(t) ==
    /\ pc[t] = "notify"
    /\ initResult[t]
    /\ Goto(t, IF status[parent[t]] = "Exit" THEN "dead" ELSE "notifyPost")
    /\ UNCHANGED <<back, target, treeVars, startVars, status, queueVars,
                   toStop>>

NotifyPost(t) ==
    /\ pc[t] = "notifyPost"
    /\ Push(parent[t], Finished(t))
    /\ Goto(t, "dead")
    /\ UNCHANGED <<back, target, treeVars, startVars, status, toStop>>

LeaveParent(t) ==
    /\ pc[t] = "notify"
    /\ ~initResult[t]
    /\ childs' = [childs EXCEPT ![parent[t]] = RemoveFirst(@, t)]
    /\ parent' = [parent EXCEPT ![t] = NoThread]
    /\ Goto(t, "failPost")
    /\ UNCHANGED <<back, target, obj, startVars, status, queueVars, toStop>>

-----------------------------------------------------------------------------
Step(t) ==
    \/ StartWaited(t) \/ StartJoined(t) \/ HandlerDone(t)
    \/ \E ok \in BOOLEAN : InitReturns(t, ok)
    \/ SemPost(t) \/ EnterRun(t)
    \/ TakeStop(t) \/ TakeFinished(t) \/ ReapFinished(t)
    \/ ExitStopChild(t) \/ ExitStopped(t) \/ ExitTakeChild(t)
    \/ ExitReapChild(t) \/ ExitReaped(t) \/ LoopExit(t)
    \/ NotifyParent(t) \/ NotifyPost(t) \/ LeaveParent(t)

UserStep(t) ==
    \/ UserEvent(t) \/ LoopFails(t) \/ StopThread(t)
    \/ \E c \in Threads \ {App} :
           New(t, c) \/ Start(t, c) \/ DeleteFailed(t, c)

Next == \E t \in Threads : Step(t) \/ UserStep(t)

(* Every thread is scheduled, and user code returns.                       *)
Fairness == \A t \in Threads : WF_vars(Step(t))

Spec == Init /\ [][Next]_vars
FairSpec == Spec /\ Fairness

-----------------------------------------------------------------------------
(* Properties.                                                             *)

TypeOK ==
    /\ obj \in [Threads -> {"unborn", "alive", "deleted"}]
    /\ pc \in [Threads -> PCs]
    /\ back \in [Threads -> {"init", "handler"}]
    /\ target \in [Threads -> Threads \cup {NoThread}]
    /\ childs \in [Threads -> Seq(Threads)]
    /\ parent \in [Threads -> Threads \cup {NoThread}]
    /\ initResult \in [Threads -> BOOLEAN]
    /\ status \in [Threads -> {"Init", "Running", "Exit"}]
    /\ queue \in [Threads -> Seq(Event)]
    /\ stopPosted \in [Threads -> BOOLEAN]
    /\ toStop \in [Threads -> Seq(Threads)]
    /\ sem \in [Threads -> BOOLEAN]
    /\ param \in [Threads -> {"unborn", "alive", "deleted"}]

Ended(t) == pc[t] \in {"unborn", "dead"}

\* from here on the thread's loop takes no event any more
Ending(t) == pc[t] \in {"exit", "exitReap", "exitJoin", "loopExit", "notify",
                        "notifyPost", "failPost", "dead"}

(* A Thread object outlives its own execution and that of its children,    *)
(* and whatever onExit, onChildFinished and start() will dereference or    *)
(* delete is still there: the threads in mChilds, the child being joined   *)
(* or stopped, the child named by a ChildFinishedEvent the loop will take, *)
(* and the parent of a thread that has not ended.  So no thread is deleted *)
(* twice, once for its event and once from onExit.  And the new thread     *)
(* posts the semaphore on the stack of the thread that started it while    *)
(* start() is still there.                                                 *)
NoUseAfterFree ==
    \A t \in Threads :
        /\ obj[t] = "deleted" => Ended(t) /\ childs[t] = <<>>
        /\ \A c \in ToSet(childs[t]) \cup ToSet(toStop[t]) : obj[c] = "alive"
        /\ pc[t] \in {"starting", "joinStart", "reap", "exitJoin"} =>
              obj[target[t]] = "alive"
        /\ ~Ending(t) =>
              \A i \in 1..Len(queue[t]) :
                  queue[t][i].kind = "finished" =>
                      queue[t][i].child \in ToSet(childs[t])
        /\ ~Ended(t) /\ parent[t] # NoThread => ~Ended(parent[t])
        /\ pc[t] \in {"initDone", "failPost"} /\ t # App => param[t] = "alive"

(* A thread that ran to its end is joined and deleted by its parent in the *)
(* end, be it through ChildFinishedEvent or through the parent's onExit:   *)
(* the check of the parent's status loses none.                            *)
EveryThreadReaped ==
    \A t \in Threads \ {App} :
        (pc[t] = "dead" /\ initResult[t]) ~> (obj[t] = "deleted")

(* Stopping the application ends run(), with every thread of the tree      *)
(* joined and deleted, wherever in start(), onInit or onExit it was; only  *)
(* threads whose start() failed are left to their owner.                   *)
ShutdownCompletes ==
    stopPosted[App] ~>
        /\ pc[App] = "dead"
        /\ \A t \in Threads \ {App} : obj[t] = "alive" =>
              pc[t] = "dead" /\ ~initResult[t]

(* start() in thread.inl joins the new thread under the comment            *)
(* "init error": only when its onInit has failed.                          *)
JoinOnlyOnInitError ==
    \A p \in Threads :
        pc[p] = "joinStart" =>
            pc[target[p]] # "init" /\ ~initResult[target[p]]
=============================================================================
