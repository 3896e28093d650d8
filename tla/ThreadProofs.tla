---------------------------- MODULE ThreadProofs ----------------------------
(***************************************************************************)
(* Proofs about Thread, for any number of threads in any tree: the types,  *)
(* and that no thread uses what another has deleted.                       *)
(*                                                                         *)
(* NoUseAfterFree is a statement about pointers, and what makes it hold is *)
(* where each thread and its parent are.  The invariant says who holds a   *)
(* thread: its parent's mChilds (Family), then the join that took it out   *)
(* of there (Joins), until it is deleted (Gone); that a thread that runs   *)
(* is held by its parent (Held), which has no children left once it gets   *)
(* to its end (Childless); and that a thread which is not up yet has a     *)
(* parent that waits in start() for it (Opened).                           *)
(***************************************************************************)
EXTENDS Thread, SequenceLemmas

Once(s) == \A i, j \in 1..Len(s) : s[i] = s[j] => i = j

(* A list of children names live threads of that parent, each once.        *)
Family ==
    \A p \in Threads :
        /\ Once(childs[p])
        /\ \A c \in ToSet(childs[p]) : parent[c] = p /\ obj[c] = "alive" /\ c # App

(* An object that has not been made is not known to anybody.               *)
Unborn ==
    \A c \in Threads : obj[c] = "unborn" =>
        pc[c] = "unborn" /\ parent[c] = NoThread /\ \A t \in Threads : target[t] # c

(* Only its parent has ever started or joined a thread.                    *)
Targets ==
    \A t \in Threads : target[t] # NoThread =>
        /\ target[t] # App /\ parent[target[t]] \in {t, NoThread}
        /\ \A u \in Threads : target[u] = target[t] => u = t

(* A thread that has not begun or has reaped its children has none, and    *)
(* onExit stops those that are left.                                       *)
Childless ==
    \A t \in Threads :
        /\ pc[t] \in {"unborn", "loopExit", "notify", "notifyPost", "failPost", "dead"} =>
              childs[t] = <<>>
        /\ pc[t] # "exit" => toStop[t] = <<>>
        /\ ToSet(toStop[t]) \subseteq ToSet(childs[t])

(* A thread that runs is in its parent's list, or onExit joins it.         *)
Held ==
    \A c \in Threads : ~Ended(c) /\ parent[c] # NoThread =>
        \/ c \in ToSet(childs[parent[c]])
        \/ pc[parent[c]] = "exitJoin" /\ target[parent[c]] = c

(* What initResult and the parent are at some places.                      *)
Stages ==
    \A c \in Threads :
        /\ pc[c] \in {"unborn", "init", "failPost"} => ~initResult[c]
        /\ pc[c] \in {"starting", "joinStart"} /\ back[c] = "init" => ~initResult[c]
        /\ pc[c] \in {"initDone", "notifyPost"} => initResult[c]
        /\ pc[c] = "unborn" => ~sem[c]
        /\ c = App => parent[c] = NoThread /\ pc[c] # "unborn" /\ pc[c] # "failPost"
                      /\ ~initResult[c]
        /\ pc[c] \in {"notify", "notifyPost"} => parent[c] # NoThread
        /\ c # App /\ ~Ended(c) /\ pc[c] # "failPost" => parent[c] # NoThread
        /\ pc[c] = "failPost" => parent[c] = NoThread
        /\ c # App /\ pc[c] = "dead" /\ ~initResult[c] => parent[c] = NoThread

(* From its start to the end of its onInit, or of its onExit when that has *)
(* failed                                                                  *)
Opening(c) == pc[c] = "initDone" \/ (~initResult[c] /\ ~Ended(c))

(* The parent of a thread that is not up yet waits in start() for it, with *)
(* the ThreadParam on its stack.                                           *)
Opened ==
    \A c \in Threads : c # App /\ Opening(c) =>
        /\ ~sem[c] /\ param[c] = "alive"
        /\ pc[c] # "failPost" => pc[parent[c]] = "starting" /\ target[parent[c]] = c

(* The child that a thread starts or joins is there, and the one that it   *)
(* is about to delete is not in its list.                                  *)
Joins ==
    \A t \in Threads :
        /\ pc[t] \in {"starting", "joinStart", "reap", "exitJoin"} =>
              target[t] # NoThread /\ obj[target[t]] = "alive"
        /\ pc[t] \in {"reap", "exitJoin"} =>
              parent[target[t]] = t /\ target[t] \notin ToSet(childs[t])
        /\ pc[t] = "reap" => pc[target[t]] = "dead"

(* The threads a ChildFinishedEvent for t may name: those that ran and are  *)
(* dead, and that t has in its list while its loop takes events.            *)
Awaited(t) ==
    {c \in Threads : /\ pc[c] = "dead" /\ initResult[c]
                     /\ ~Ending(t) => c \in ToSet(childs[t])}

(* A queue has at most one ChildFinishedEvent of a thread, each of A.       *)
Told(q, A) ==
    \A i \in 1..Len(q) : q[i].kind = "finished" =>
        /\ q[i].child \in A
        /\ \A j \in 1..Len(q) : q[j].kind = "finished" /\ q[j].child = q[i].child => j = i

Events == \A t \in Threads : Told(queue[t], Awaited(t))

(* What is deleted does not run.                                           *)
Gone == \A t \in Threads : obj[t] = "deleted" => Ended(t)

Tree == /\ Family /\ Unborn /\ Targets /\ Childless /\ Held /\ Stages /\ Opened
        /\ Joins /\ Gone

Core == Tree /\ Events

IInv == TypeOK /\ Core

-----------------------------------------------------------------------------
(* Lists of children and queues.                                           *)

(* The empty list names nobody.                                            *)
LEMMA EmptyIs == <<>> \in Seq(Threads) /\ Once(<<>>) /\ ToSet(<<>>) = {}
<1>1. <<>> \in Seq(Threads) /\ Len(<<>>) = 0
  BY EmptySeq
<1>2. \A i \in 1..Len(<<>>) : FALSE
  BY <1>1
<1>3. ToSet(<<>>) = {}
  <2>1. \A x : x \in ToSet(<<>>) <=> \E i \in 1..Len(<<>>) : <<>>[i] = x
    BY <1>1, ToSetIs
  <2> QED
    BY <1>2, <2>1
<1> QED
  BY <1>1, <1>2, <1>3 DEF Once

(* A child is added to a list that does not name it.                       *)
LEMMA AddedIs ==
    ASSUME NEW s \in Seq(Threads), NEW c \in Threads, Once(s), c \notin ToSet(s)
    PROVE  /\ Append(s, c) \in Seq(Threads) /\ Once(Append(s, c))
           /\ ToSet(Append(s, c)) = ToSet(s) \cup {c}
<1>1. /\ Len(s) \in Nat /\ Append(s, c) \in Seq(Threads) /\ Len(Append(s, c)) = Len(s) + 1
      /\ \A i \in 1..Len(s) : Append(s, c)[i] = s[i]
      /\ Append(s, c)[Len(s) + 1] = c
  BY LenProperties, AppendProperties
<1>2. \A i \in 1..Len(s) : s[i] # c
  BY ToSetIs
<1>3. \A i \in 1..(Len(s) + 1) : i \in 1..Len(s) \/ i = Len(s) + 1
  BY <1>1
<1>4. Once(Append(s, c))
  BY <1>1, <1>2, <1>3 DEF Once
<1> QED
  BY <1>1, <1>4, ToSetAppend

(* A child is taken out of a list.                                         *)
LEMMA RemovedIs ==
    ASSUME NEW s \in Seq(Threads), NEW c, Once(s)
    PROVE  /\ RemoveFirst(s, c) \in Seq(Threads) /\ Once(RemoveFirst(s, c))
           /\ ToSet(RemoveFirst(s, c)) = ToSet(s) \ {c}
<1> QED
  BY RemoveFirstOnce DEF Once

(* The last element leaves a list.                                         *)
LEMMA FrontTyped ==
    ASSUME NEW s \in Seq(Threads), s # <<>>
    PROVE  /\ Front(s) \in Seq(Threads) /\ Last(s) \in Threads
           /\ Len(s) \in Nat /\ Len(s) # 0 /\ Len(Front(s)) = Len(s) - 1
           /\ Last(s) = s[Len(s)] /\ \A i \in 1..(Len(s) - 1) : Front(s)[i] = s[i]
<1>1. /\ Len(s) \in Nat /\ Len(s) # 0 /\ \A i \in 1..Len(s) : s[i] \in Threads
  BY EmptySeq, LenProperties, ElementOfSeq
<1>2. Len(s) - 1 \in Nat /\ Len(s) \in 1..Len(s)
  BY <1>1
<1>3. Front(s) = [i \in 1..(Len(s) - 1) |-> s[i]] /\ Last(s) = s[Len(s)]
  <2>1. \A i \in 1..(Len(s) - 1) : 1 + i - 1 = i
    BY <1>2
  <2>2. /\ SubSeq(s, 1, Len(s) - 1) \in Seq(Threads) /\ Len(SubSeq(s, 1, Len(s) - 1)) = Len(s) - 1
        /\ \A i \in 1..(Len(s) - 1) : SubSeq(s, 1, Len(s) - 1)[i] = s[i]
    <3>1. 1 \in Int /\ Len(s) - 1 \in Int /\ \A i \in 1..(Len(s) - 1) : s[i] \in Threads
      BY <1>1, <1>2
    <3>2. /\ SubSeq(s, 1, Len(s) - 1) \in Seq(Threads)
          /\ Len(SubSeq(s, 1, Len(s) - 1))
                = IF 1 <= Len(s) - 1 THEN Len(s) - 1 - 1 + 1 ELSE 0
          /\ \A i \in 1..(Len(s) - 1 - 1 + 1) :
                SubSeq(s, 1, Len(s) - 1)[i] = s[1 + i - 1]
      BY ONLY <3>1, SubSeqProperties
    <3>3. Len(s) - 1 - 1 + 1 = Len(s) - 1 /\ (~(1 <= Len(s) - 1) => Len(s) - 1 = 0)
      <4>1. \A n \in Nat : n # 0 => n - 1 - 1 + 1 = n - 1 /\ (~(1 <= n - 1) => n - 1 = 0)
        OBVIOUS
      <4> QED
        BY ONLY <1>1, <4>1
    <3>4. Len(SubSeq(s, 1, Len(s) - 1)) = Len(s) - 1
      BY ONLY <3>2, <3>3
    <3>5. ASSUME NEW i \in 1..(Len(s) - 1) PROVE SubSeq(s, 1, Len(s) - 1)[i] = s[i]
      <4>1. SubSeq(s, 1, Len(s) - 1)[i] = s[1 + i - 1]
        BY ONLY <3>2, <3>3, i \in 1..(Len(s) - 1)
      <4> QED
        BY <2>1, <4>1
    <3> QED
      BY <3>2, <3>4, <3>5
  <2>3. SubSeq(s, 1, Len(s) - 1) = [i \in 1..(Len(s) - 1) |-> s[i]]
    BY <2>2, LenProperties
  <2> QED
    BY <2>3 DEF Front, Last
<1>4. Front(s) \in Seq(Threads) /\ Len(Front(s)) = Len(s) - 1
  <2>1. Front(s) \in [1..(Len(s) - 1) -> Threads]
    BY <1>1, <1>2, <1>3
  <2> QED
    BY <1>2, <2>1, LenProperties
<1> QED
  BY <1>1, <1>2, <1>3, <1>4

(* The last child leaves a list.                                           *)
LEMMA FrontIs ==
    ASSUME NEW s \in Seq(Threads), s # <<>>, Once(s)
    PROVE  /\ Front(s) \in Seq(Threads) /\ Once(Front(s))
           /\ Last(s) \in ToSet(s) /\ ToSet(Front(s)) = ToSet(s) \ {Last(s)}
<1>1. Len(s) \in Nat /\ Len(s) # 0
  BY FrontTyped
<1>2. Len(s) - 1 \in Nat /\ Len(s) \in 1..Len(s)
  BY <1>1
<1>3. Last(s) = s[Len(s)] /\ \A i \in 1..(Len(s) - 1) : Front(s)[i] = s[i]
  BY FrontTyped
<1>4. Front(s) \in Seq(Threads) /\ Len(Front(s)) = Len(s) - 1
  BY FrontTyped
<1>5. \A i \in 1..(Len(s) - 1) : i \in 1..Len(s) /\ i # Len(s) /\ Front(s)[i] = s[i]
  BY <1>1, <1>3
<1>6. \A i \in 1..Len(s) : i \in 1..(Len(s) - 1) \/ i = Len(s)
  BY <1>1
<1>7. Once(Front(s))
  BY <1>4, <1>5 DEF Once
<1>8. ToSet(Front(s)) = ToSet(s) \ {Last(s)}
  <2>1. \A x : x \in ToSet(Front(s)) <=> \E i \in 1..(Len(s) - 1) : Front(s)[i] = x
    BY <1>4, ToSetIs
  <2>2. \A x : x \in ToSet(s) <=> \E i \in 1..Len(s) : s[i] = x
    BY ToSetIs
  <2>3. \A i \in 1..(Len(s) - 1) : s[i] # s[Len(s)]
    BY <1>2, <1>5 DEF Once
  <2>4. ASSUME NEW x PROVE x \in ToSet(Front(s)) <=> x \in ToSet(s) /\ x # Last(s)
    BY <1>3, <1>5, <1>6, <2>1, <2>2, <2>3
  <2> QED
    BY <2>4
<1>9. Last(s) \in ToSet(s)
  BY <1>2, <1>3, ToSetIs
<1> QED
  BY <1>4, <1>7, <1>8, <1>9

(* The first child leaves a list of children to stop.                      *)
LEMMA TailIs ==
    ASSUME NEW S, NEW s \in Seq(S), s # <<>>
    PROVE  /\ Tail(s) \in Seq(S) /\ Head(s) \in S /\ ToSet(Tail(s)) \subseteq ToSet(s)
           /\ Len(s) \in Nat /\ Len(s) # 0 /\ Len(Tail(s)) = Len(s) - 1 /\ Head(s) = s[1]
           /\ \A i \in 1..(Len(s) - 1) : i + 1 \in 1..Len(s) /\ Tail(s)[i] = s[i + 1]
<1>1. /\ Len(s) \in Nat /\ Len(s) # 0 /\ Head(s) \in S /\ Tail(s) \in Seq(S)
      /\ Len(Tail(s)) = Len(s) - 1
      /\ \A i \in 1..(Len(s) - 1) : Tail(s)[i] = s[i + 1]
  BY HeadTailProperties, LenProperties, EmptySeq
<1>2. \A i \in 1..(Len(s) - 1) : i + 1 \in 1..Len(s)
  BY <1>1
<1>3. ToSet(Tail(s)) \subseteq ToSet(s)
  <2>1. \A x : x \in ToSet(Tail(s)) <=> \E i \in 1..(Len(s) - 1) : Tail(s)[i] = x
    BY <1>1, ToSetIs
  <2>2. \A x : x \in ToSet(s) <=> \E i \in 1..Len(s) : s[i] = x
    BY ToSetIs
  <2> QED
    BY <1>1, <1>2, <2>1, <2>2
<1>4. Head(s) = s[1]
  BY <1>1
<1> QED
  BY <1>1, <1>2, <1>3, <1>4

(* The invariant says what the run checks.                                 *)
LEMMA IInvMeans == IInv => NoUseAfterFree
<1> SUFFICES ASSUME IInv, NEW t \in Threads
             PROVE  /\ obj[t] = "deleted" => Ended(t) /\ childs[t] = <<>>
                    /\ \A c \in ToSet(childs[t]) \cup ToSet(toStop[t]) : obj[c] = "alive"
                    /\ pc[t] \in {"starting", "joinStart", "reap", "exitJoin"} =>
                          obj[target[t]] = "alive"
                    /\ ~Ending(t) => \A i \in 1..Len(queue[t]) :
                          queue[t][i].kind = "finished" =>
                              queue[t][i].child \in ToSet(childs[t])
                    /\ ~Ended(t) /\ parent[t] # NoThread => ~Ended(parent[t])
                    /\ pc[t] \in {"initDone", "failPost"} /\ t # App => param[t] = "alive"
  BY DEF NoUseAfterFree
<1>1. obj[t] = "deleted" => Ended(t) /\ childs[t] = <<>>
  BY DEF IInv, Core, Tree, Gone, Childless, Ended
<1>2. \A c \in ToSet(childs[t]) \cup ToSet(toStop[t]) : obj[c] = "alive"
  BY DEF IInv, Core, Tree, Family, Childless
<1>3. pc[t] \in {"starting", "joinStart", "reap", "exitJoin"} => obj[target[t]] = "alive"
  BY DEF IInv, Core, Tree, Joins
<1>4. ~Ending(t) => \A i \in 1..Len(queue[t]) :
                       queue[t][i].kind = "finished" => queue[t][i].child \in ToSet(childs[t])
  BY DEF IInv, Core, Events, Told, Awaited
<1>5. ~Ended(t) /\ parent[t] # NoThread => ~Ended(parent[t])
  <2>1. parent[t] # NoThread => parent[t] \in Threads
    BY DEF IInv, TypeOK
  <2> QED
    BY <2>1, EmptyIs DEF IInv, Core, Tree, Held, Childless, Ended
<1>6. pc[t] \in {"initDone", "failPost"} /\ t # App => param[t] = "alive"
  BY DEF IInv, Core, Tree, Opened, Opening, Stages, Ended
<1> QED
  BY <1>1, <1>2, <1>3, <1>4, <1>5, <1>6

(* At first the variables are in their types.                              *)
LEMMA InitTyped == Init => TypeOK
<1>1. <<>> \in Seq(Threads) /\ <<>> \in Seq(Event)
  OBVIOUS
<1> QED
  BY <1>1, ThreadsAssumption DEF Init, TypeOK, PCs

(* The invariant holds at first.                                           *)
LEMMA InitInv == Init => IInv
<1> SUFFICES ASSUME Init PROVE IInv
  OBVIOUS
<1> USE DEF Init
<1>1. TypeOK
  BY InitTyped
<1>2. \A t \in Threads : childs[t] = <<>> /\ toStop[t] = <<>> /\ Len(queue[t]) = 0
  BY EmptySeq
<1>3. Family /\ Childless
  BY <1>2, EmptyIs DEF Family, Childless
<1>4. Unborn /\ Targets
  BY ThreadsAssumption DEF Unborn, Targets, NoThread
<1>5. Held
  BY DEF Held
<1>6. Stages
  BY DEF Stages, Ended
<1>7. Opened
  BY DEF Opened, Opening, Ended
<1>8. Joins /\ Gone
  BY DEF Joins, Gone
<1>9. Events
  BY <1>2 DEF Events, Told
<1> QED
  BY <1>1, <1>3, <1>4, <1>5, <1>6, <1>7, <1>8, <1>9 DEF IInv, Core, Tree

-----------------------------------------------------------------------------
(* Types.                                                                  *)

(* An event put into a queue is one more element of a sequence.            *)
LEMMA PushTyped ==
    ASSUME TypeOK, NEW t, NEW e \in Event, Push(t, e)
    PROVE  queue' \in [Threads -> Seq(Event)] /\ stopPosted' \in [Threads -> BOOLEAN]
<1>1. CASE stopPosted[t]
  BY <1>1 DEF Push, TypeOK, queueVars
<1>2. CASE ~stopPosted[t]
  <2>1. ASSUME t \in Threads PROVE Append(queue[t], e) \in Seq(Event)
    BY <2>1, AppendProperties DEF TypeOK
  <2> QED
    BY ZenonT(40), <1>2, <2>1 DEF Push, TypeOK
<1> QED
  BY <1>1, <1>2

(* Every step keeps the variables in their types.                          *)
LEMMA TypeNext == TypeOK /\ [Next]_vars => TypeOK'
<1> SUFFICES ASSUME TypeOK, [Next]_vars PROVE TypeOK'
  OBVIOUS
<1> USE DEF Goto, PCs
<1>1. CASE UNCHANGED vars
  BY <1>1 DEF TypeOK, vars
<1>2. CASE Next
  <2>1. PICK t \in Threads : Step(t) \/ UserStep(t)
    BY <1>2 DEF Next
  <2>2. childs[t] \in Seq(Threads) /\ queue[t] \in Seq(Event) /\ toStop[t] \in Seq(Threads)
    BY DEF TypeOK
  <2>3. Stop \in Event /\ Finished(t) \in Event
    BY DEF Event
  <2>4. Reverse(childs[t]) \in Seq(Threads)
    BY <2>2, ReverseIs
  <2>5. queue[t] # <<>> => Tail(queue[t]) \in Seq(Event) /\ Head(queue[t]) \in Event
    BY <2>2, HeadTailProperties
  <2>6. toStop[t] # <<>> => Tail(toStop[t]) \in Seq(Threads) /\ Head(toStop[t]) \in Threads
    BY <2>2, HeadTailProperties
  <2>7. back[t] \in PCs /\ pc[t] \in PCs
    BY DEF TypeOK
  <2>10. CASE \E c \in Threads \ {App} : New(t, c)
    <3>1. PICK c \in Threads : New(t, c)
      BY <2>10
    <3>2. Append(childs[t], c) \in Seq(Threads)
      BY <2>2, AppendProperties
    <3> QED
      BY <3>1, <3>2 DEF New, TypeOK, startVars, queueVars
  <2>11. CASE \E c \in Threads \ {App} : Start(t, c)
    <3>1. PICK c \in Threads : Start(t, c)
      BY <2>11
    <3>2. pc[t] \in {"init", "handler"}
      BY <3>1 DEF Start, InUserCode
    <3>3. pc' \in [Threads -> PCs]
      BY <3>1 DEF Start, TypeOK
    <3> QED
      BY <3>1, <3>2, <3>3 DEF Start, TypeOK, treeVars, queueVars
  <2>12. CASE StartWaited(t)
    BY ZenonT(40), <2>7, <2>12 DEF StartWaited, TypeOK, treeVars, queueVars
  <2>13. CASE StartJoined(t)
    BY <2>7, <2>13 DEF StartJoined, TypeOK, treeVars, queueVars
  <2>14. CASE \E c \in Threads \ {App} : DeleteFailed(t, c)
    BY <2>14 DEF DeleteFailed, TypeOK, startVars, queueVars
  <2>15. CASE HandlerDone(t)
    BY <2>15 DEF HandlerDone, TypeOK, treeVars, startVars, queueVars
  <2>16. CASE StopThread(t)
    BY <2>3, <2>16, PushTyped DEF StopThread, TypeOK, treeVars, startVars
  <2>17. CASE \E ok \in BOOLEAN : InitReturns(t, ok)
    <3>1. PICK ok \in BOOLEAN : InitReturns(t, ok)
      BY <2>17
    <3>2. (ok /\ t # App) \in BOOLEAN
      OBVIOUS
    <3>3. initResult' \in [Threads -> BOOLEAN]
      BY <3>1, <3>2 DEF InitReturns, TypeOK
    <3>4. pc' \in [Threads -> PCs] /\ toStop' \in [Threads -> Seq(Threads)]
      BY ZenonT(40), <2>4, <3>1 DEF InitReturns, TypeOK
    <3> QED
      BY <3>1, <3>3, <3>4 DEF InitReturns, TypeOK, treeVars, queueVars
  <2>18. CASE SemPost(t)
    BY <2>18 DEF SemPost, TypeOK, treeVars, queueVars
  <2>19. CASE EnterRun(t)
    BY <2>19 DEF EnterRun, TypeOK, treeVars, startVars, queueVars
  <2>20. CASE UserEvent(t)
    BY <2>20 DEF UserEvent, TypeOK, treeVars, startVars, queueVars
  <2>21. CASE TakeStop(t)
    BY <2>4, <2>5, <2>21 DEF TakeStop, LeaveLoop, TypeOK, treeVars, startVars
  <2>22. CASE LoopFails(t)
    BY <2>4, <2>22 DEF LoopFails, LeaveLoop, TypeOK, treeVars, startVars, queueVars
  <2>23. CASE TakeFinished(t)
    <3>1. Head(queue[t]).child \in Threads
      BY <2>5, <2>23 DEF TakeFinished, Event, Stop, Finished
    <3>2. RemoveFirst(childs[t], Head(queue[t]).child) \in Seq(Threads)
      BY <2>2, RemoveFirstIs
    <3> QED
      BY <2>5, <2>23, <3>1, <3>2 DEF TakeFinished, TypeOK, startVars
  <2>24. CASE ReapFinished(t) \/ ExitReapChild(t)
    <3>1. PICK w \in {"run", "exitReap"} : Reap(t, w)
      BY <2>24 DEF ReapFinished, ExitReapChild
    <3>2. pc' \in [Threads -> PCs] /\ obj' \in [Threads -> {"unborn", "alive", "deleted"}]
      BY <3>1 DEF Reap, TypeOK
    <3> QED
      BY <3>1, <3>2 DEF Reap, TypeOK, startVars, queueVars
  <2>25. CASE ExitStopChild(t)
    BY <2>3, <2>6, <2>25, PushTyped DEF ExitStopChild, TypeOK, treeVars, startVars
  <2>26. CASE ExitStopped(t)
    BY <2>26 DEF ExitStopped, TypeOK, treeVars, startVars, queueVars
  <2>27. CASE ExitTakeChild(t)
    <3>1. Front(childs[t]) \in Seq(Threads) /\ Last(childs[t]) \in Threads
      BY <2>2, <2>27, FrontTyped DEF ExitTakeChild
    <3> QED
      BY <2>27, <3>1 DEF ExitTakeChild, TypeOK, startVars, queueVars
  <2>28. CASE ExitReaped(t)
    BY <2>28 DEF ExitReaped, TypeOK, treeVars, startVars, queueVars
  <2>29. CASE LoopExit(t)
    BY <2>29 DEF LoopExit, TypeOK, treeVars, startVars
  <2>30. CASE NotifyParent(t)
    BY <2>30 DEF NotifyParent, TypeOK, treeVars, startVars, queueVars
  <2>31. CASE NotifyPost(t)
    BY <2>3, <2>31, PushTyped DEF NotifyPost, TypeOK, treeVars, startVars
  <2>32. CASE LeaveParent(t)
    <3>1. parent[t] \in Threads => RemoveFirst(childs[parent[t]], t) \in Seq(Threads)
      BY RemoveFirstIs DEF TypeOK
    <3> QED
      BY <2>32, <3>1 DEF LeaveParent, TypeOK, startVars, queueVars
  <2> QED
    BY <2>1, <2>10, <2>11, <2>12, <2>13, <2>14, <2>15, <2>16, <2>17, <2>18, <2>19,
       <2>20, <2>21, <2>22, <2>23, <2>24, <2>25, <2>26, <2>27, <2>28, <2>29, <2>30,
       <2>31, <2>32 DEF Step, UserStep
<1> QED
  BY <1>1, <1>2

(* The variables stay in their types, in every build and with every        *)
(* semaphore.                                                              *)
THEOREM TypeCorrect == Spec => []TypeOK
<1>1. Init => TypeOK
  BY InitTyped
<1> QED
  BY <1>1, TypeNext, PTL DEF Spec

-----------------------------------------------------------------------------
(* The events in the queues.                                               *)

(* What may be named may also be named when more may be.                   *)
LEMMA ToldMore ==
    ASSUME NEW q, NEW A, NEW B, Told(q, A), \A c \in A : c \in B
    PROVE  Told(q, B)
<1> QED
  BY DEF Told

(* The first event leaves a queue, and with it the only one of its child.  *)
LEMMA ToldTail ==
    ASSUME NEW A, NEW q \in Seq(Event), q # <<>>, Told(q, A)
    PROVE  /\ Told(Tail(q), A)
           /\ Head(q).kind = "finished" =>
                 Head(q).child \in A /\ Told(Tail(q), A \ {Head(q).child})
<1>1. /\ Len(q) \in Nat /\ Len(q) # 0 /\ Len(Tail(q)) = Len(q) - 1 /\ Head(q) = q[1]
      /\ \A i \in 1..(Len(q) - 1) : i + 1 \in 1..Len(q) /\ Tail(q)[i] = q[i + 1]
  BY TailIs
<1>2. 1 \in 1..Len(q)
  BY <1>1
<1>3. ASSUME NEW i \in 1..Len(Tail(q)), Tail(q)[i].kind = "finished"
      PROVE  /\ Tail(q)[i].child \in A
             /\ Head(q).kind = "finished" => Tail(q)[i].child # Head(q).child
             /\ \A j \in 1..Len(Tail(q)) :
                   Tail(q)[j].kind = "finished" /\ Tail(q)[j].child = Tail(q)[i].child => j = i
  <2>1. i \in 1..(Len(q) - 1) /\ i + 1 \in 1..Len(q) /\ Tail(q)[i] = q[i + 1] /\ i + 1 # 1
    BY <1>1
  <2>2. q[i + 1].child \in A
    BY <1>3, <2>1 DEF Told
  <2>3. Head(q).kind = "finished" => q[i + 1].child # Head(q).child
    BY <1>1, <1>2, <1>3, <2>1 DEF Told
  <2>4. ASSUME NEW j \in 1..Len(Tail(q)), Tail(q)[j].kind = "finished",
               Tail(q)[j].child = Tail(q)[i].child
        PROVE  j = i
    <3>1. j \in 1..(Len(q) - 1) /\ j + 1 \in 1..Len(q) /\ Tail(q)[j] = q[j + 1]
      BY <1>1
    <3>2. j + 1 = i + 1
      BY <1>3, <2>1, <2>4, <3>1 DEF Told
    <3> QED
      BY <2>1, <3>1, <3>2
  <2> QED
    BY <2>1, <2>2, <2>3, <2>4
<1>4. Head(q).kind = "finished" => Head(q).child \in A
  BY <1>1, <1>2 DEF Told
<1>5. Told(Tail(q), A)
  BY <1>3 DEF Told
<1>6. Head(q).kind = "finished" => Told(Tail(q), A \ {Head(q).child})
  BY <1>3 DEF Told
<1> QED
  BY <1>4, <1>5, <1>6

(* A StopEvent names nobody.                                               *)
LEMMA ToldStop ==
    ASSUME NEW A, NEW q \in Seq(Event), Told(q, A)
    PROVE  Told(Append(q, Stop), A)
<1> DEFINE r == Append(q, Stop)
<1>1. /\ Len(q) \in Nat /\ Len(r) = Len(q) + 1
      /\ \A i \in 1..Len(q) : r[i] = q[i]
      /\ r[Len(q) + 1] = Stop
  BY LenProperties, AppendProperties DEF Event
<1>2. Stop.kind # "finished"
  BY DEF Stop
<1> HIDE DEF r
<1>3. \A i \in 1..Len(r) : i \in 1..Len(q) \/ i = Len(q) + 1
  BY <1>1
<1>4. \A i \in 1..Len(r) : r[i].kind = "finished" => i \in 1..Len(q) /\ r[i] = q[i]
  BY <1>1, <1>2, <1>3
<1>5. Told(r, A)
  BY <1>4 DEF Told
<1> QED
  BY <1>5 DEF r

(* A child is announced that was not yet.                                  *)
LEMMA ToldFinished ==
    ASSUME NEW A, NEW B, NEW q \in Seq(Event), NEW c \in Threads, Told(q, A), c \notin A,
           c \in B, \A d \in A : d \in B
    PROVE  Told(Append(q, Finished(c)), B)
<1> DEFINE r == Append(q, Finished(c))
<1>1. /\ Len(q) \in Nat /\ Len(r) = Len(q) + 1
      /\ \A i \in 1..Len(q) : r[i] = q[i]
      /\ r[Len(q) + 1] = Finished(c)
  BY LenProperties, AppendProperties DEF Event
<1>2. Finished(c).child = c
  BY DEF Finished
<1> HIDE DEF r
<1>3. \A i \in 1..Len(r) : i \in 1..Len(q) \/ i = Len(q) + 1
  BY <1>1
<1>4. \A i \in 1..Len(q) : r[i].kind = "finished" => r[i].child \in A
  BY <1>1 DEF Told
<1>5. \A i \in 1..Len(r) : r[i].kind = "finished" => r[i].child \in B
  BY <1>1, <1>2, <1>3, <1>4
<1>6. ASSUME NEW i \in 1..Len(r), r[i].kind = "finished",
             NEW j \in 1..Len(r), r[j].kind = "finished", r[j].child = r[i].child
      PROVE  j = i
  <2>1. CASE i \in 1..Len(q) /\ j \in 1..Len(q)
    BY <1>1, <1>6, <2>1 DEF Told
  <2>2. CASE i = Len(q) + 1 \/ j = Len(q) + 1
    BY <1>1, <1>2, <1>3, <1>4, <1>6, <2>2
  <2> QED
    BY <1>3, <2>1, <2>2
<1>7. Told(r, B)
  BY <1>5, <1>6 DEF Told
<1> QED
  BY <1>7 DEF r

(* The empty queue tells nothing.                                          *)
LEMMA ToldNothing == ASSUME NEW A PROVE Told(<<>>, A)
<1>1. \A i \in 1..Len(<<>>) : FALSE
  BY EmptySeq
<1> QED
  BY <1>1 DEF Told

(* A StopEvent, or none, goes into a queue.                                *)
LEMMA PushStopTold ==
    ASSUME TypeOK, Events, NEW t, Push(t, Stop), UNCHANGED <<pc, initResult, childs>>
    PROVE  Events'
<1>1. ASSUME NEW u \in Threads PROVE Told(queue'[u], Awaited(u)')
  <2>1. Awaited(u)' = Awaited(u)
    BY DEF Awaited, Ending
  <2>2. Told(queue[u], Awaited(u)) /\ queue[u] \in Seq(Event)
    BY DEF Events, TypeOK
  <2>3. queue'[u] = queue[u] \/ queue'[u] = Append(queue[u], Stop)
    BY DEF Push, TypeOK, queueVars
  <2>4. Told(queue'[u], Awaited(u))
    BY <2>2, <2>3, ToldStop
  <2> QED
    BY <2>1, <2>4
<1> QED
  BY <1>1 DEF Events

-----------------------------------------------------------------------------
(* Steps that touch nothing but where a thread is.                         *)

(* Queues that lose events, or none, while no thread of the tree changes   *)
(* but one that goes on, are as good as before.                            *)
LEMMA QuietEvents ==
    ASSUME TypeOK, Events, NEW t \in Threads,
           UNCHANGED childs,
           \A u \in Threads : \/ queue'[u] \in {queue[u], <<>>}
                              \/ (queue[u] # <<>> /\ queue'[u] = Tail(queue[u])),
           \A c \in Threads : pc[c] = "dead" /\ initResult[c]
                                 => pc'[c] = "dead" /\ initResult'[c],
           \A u \in Threads : Ending(u) => Ending(u)'
    PROVE  Events'
<1>1. ASSUME NEW u \in Threads PROVE Told(queue'[u], Awaited(u)')
  <2>1. \A c \in Awaited(u) : c \in Awaited(u)'
    BY DEF Awaited
  <2>2. Told(queue[u], Awaited(u)) /\ queue[u] \in Seq(Event)
    BY DEF Events, TypeOK
  <2>3. Told(queue'[u], Awaited(u))
    BY <2>2, ToldTail, ToldNothing
  <2> QED
    BY <2>1, <2>3, ToldMore
<1> QED
  BY <1>1 DEF Events

(* A thread that waits for nobody goes on to a place where it waits for    *)
(* nobody.                                                                 *)
Waits == {"unborn", "initDone", "starting", "joinStart", "reap", "exitJoin", "failPost"}

LEMMA Moved ==
    ASSUME TypeOK, Tree, NEW t \in Threads, NEW b \in PCs,
           pc' = [pc EXCEPT ![t] = b],
           UNCHANGED <<obj, back, target, childs, parent, initResult, sem, param>>,
           pc[t] \notin Waits \cup {"dead"},
           b \notin Waits \cup {"init"},
           b \in {"loopExit", "notify", "notifyPost", "dead"} => childs[t] = <<>>,
           b \in {"notify", "notifyPost"} => parent[t] # NoThread,
           b = "dead" => initResult[t] \/ t = App,
           b = "notifyPost" => initResult[t],
           \A u \in Threads : /\ pc'[u] # "exit" => toStop'[u] = <<>>
                              /\ ToSet(toStop'[u]) \subseteq ToSet(childs[u])
    PROVE  Tree'
<1> USE DEF Waits
<1>0. \A u \in Threads : pc'[u] = IF u = t THEN b ELSE pc[u]
  BY DEF TypeOK
<1>1. Family'
  BY DEF Tree, Family
<1>2. Unborn'
  BY <1>0 DEF Tree, Unborn
<1>3. Targets'
  BY DEF Tree, Targets
<1>4. Childless'
  <2> SUFFICES ASSUME NEW u \in Threads
               PROVE  /\ pc'[u] \in {"unborn", "loopExit", "notify", "notifyPost",
                                      "failPost", "dead"} => childs'[u] = <<>>
                      /\ pc'[u] # "exit" => toStop'[u] = <<>>
                      /\ ToSet(toStop'[u]) \subseteq ToSet(childs'[u])
    BY DEF Childless
  <2>1. childs'[u] = childs[u]
    OBVIOUS
  <2>2. pc'[u] \in {"unborn", "loopExit", "notify", "notifyPost", "failPost", "dead"}
           => childs[u] = <<>>
    BY <1>0 DEF Tree, Childless
  <2> QED
    BY <2>1, <2>2
<1>5. Held'
  <2> SUFFICES ASSUME NEW c \in Threads, ~Ended(c)', parent[c] # NoThread
               PROVE  \/ c \in ToSet(childs[parent[c]])
                      \/ pc'[parent[c]] = "exitJoin" /\ target[parent[c]] = c
    BY DEF Held
  <2>1. ~Ended(c) /\ parent[c] \in Threads
    BY <1>0 DEF Ended, TypeOK
  <2>2. \/ c \in ToSet(childs[parent[c]])
        \/ pc[parent[c]] = "exitJoin" /\ target[parent[c]] = c
    BY <2>1 DEF Tree, Held
  <2> QED
    BY <1>0, <2>1, <2>2
<1>6. Stages'
  BY <1>0 DEF Tree, Stages, Ended
<1>7. Opened'
  <2> SUFFICES ASSUME NEW c \in Threads, c # App, Opening(c)'
               PROVE  /\ ~sem[c] /\ param[c] = "alive"
                      /\ pc'[c] # "failPost" =>
                            pc'[parent[c]] = "starting" /\ target[parent[c]] = c
    BY DEF Opened
  <2>1. Opening(c) /\ (pc'[c] = "failPost" <=> pc[c] = "failPost")
    BY <1>0 DEF Opening, Ended
  <2>2. /\ ~sem[c] /\ param[c] = "alive"
        /\ pc[c] # "failPost" => pc[parent[c]] = "starting" /\ target[parent[c]] = c
    BY <2>1 DEF Tree, Opened
  <2>3. pc[c] # "failPost" => parent[c] \in Threads
    BY <2>1 DEF Tree, Stages, Opening, Ended, TypeOK
  <2> QED
    BY <1>0, <2>1, <2>2, <2>3
<1>8. Joins'
  BY <1>0 DEF Tree, Joins, TypeOK
<1>9. Gone'
  BY <1>0 DEF Tree, Gone, Ended
<1> QED
  BY <1>1, <1>2, <1>3, <1>4, <1>5, <1>6, <1>7, <1>8, <1>9 DEF Tree

(* No thread moves.                                                        *)
LEMMA Still ==
    ASSUME Tree, UNCHANGED <<obj, pc, back, target, childs, parent, initResult, sem, param>>,
           \A u \in Threads : /\ pc[u] # "exit" => toStop'[u] = <<>>
                              /\ ToSet(toStop'[u]) \subseteq ToSet(childs[u])
    PROVE  Tree'
<1>1. Childless'
  <2> SUFFICES ASSUME NEW u \in Threads
               PROVE  /\ pc'[u] \in {"unborn", "loopExit", "notify", "notifyPost",
                                      "failPost", "dead"} => childs'[u] = <<>>
                      /\ pc'[u] # "exit" => toStop'[u] = <<>>
                      /\ ToSet(toStop'[u]) \subseteq ToSet(childs'[u])
    BY DEF Childless
  <2> QED
    BY DEF Tree, Childless
<1>2. Family' /\ Unborn' /\ Targets' /\ Held' /\ Gone'
  BY DEF Tree, Family, Unborn, Targets, Held, Gone, Ended
<1>3. Stages' /\ Opened' /\ Joins'
  BY DEF Tree, Stages, Opened, Opening, Joins, Ended
<1> QED
  BY <1>1, <1>2, <1>3 DEF Tree

-----------------------------------------------------------------------------
(* Steps that change the tree, or what start() and its thread know of each *)
(* other.                                                                  *)

(* A new object, which nobody has known, is the last of its parent's list. *)
LEMMA NewTree ==
    ASSUME TypeOK, Tree, NEW p \in Threads, NEW c \in Threads \ {App}, New(p, c)
    PROVE  Tree'
<1>1. /\ pc[p] \in {"init", "handler"} /\ obj[c] = "unborn" /\ pc[c] = "unborn" /\ p # c
      /\ parent[c] = NoThread /\ \A u \in Threads : target[u] # c
  BY DEF Tree, Unborn, New, InUserCode
<1>2. \A u \in Threads : /\ obj'[u] = IF u = c THEN "alive" ELSE obj[u]
                         /\ parent'[u] = IF u = c THEN p ELSE parent[u]
  BY DEF TypeOK, New
<1>3. \A u \in Threads : c \notin ToSet(childs[u]) /\ Once(childs[u]) /\ childs[u] \in Seq(Threads)
  BY <1>1 DEF Tree, Family, TypeOK
<1>4. Once(Append(childs[p], c)) /\ ToSet(Append(childs[p], c)) = ToSet(childs[p]) \cup {c}
  BY <1>3, AddedIs
<1>5. /\ childs'[p] = Append(childs[p], c) /\ \A u \in Threads : u # p => childs'[u] = childs[u]
      /\ pc' = pc /\ back' = back /\ target' = target /\ initResult' = initResult
      /\ sem' = sem /\ param' = param /\ toStop' = toStop
  BY DEF TypeOK, New, startVars
<1>6. /\ ToSet(childs'[p]) = ToSet(childs[p]) \cup {c}
      /\ \A u \in Threads : u # p => ToSet(childs'[u]) = ToSet(childs[u])
  BY <1>4, <1>5
<1>7. \A u \in Threads : target[u] # NoThread => target[u] \in Threads
  BY DEF TypeOK
<1>8. p # NoThread
  BY ThreadsAssumption DEF NoThread
<1>11. Family'
  <2>1. \A u \in Threads : Once(childs'[u])
    BY <1>3, <1>4, <1>5
  <2>2. ASSUME NEW u \in Threads, NEW d \in ToSet(childs'[u])
        PROVE  parent'[d] = u /\ obj'[d] = "alive" /\ d # App
    <3>1. CASE d \in ToSet(childs[u])
      <4>1. parent[d] = u /\ obj[d] = "alive" /\ d # App /\ d \in Threads /\ d # c
        BY <1>3, <3>1, ToSetIs DEF Tree, Family
      <4> QED
        BY <1>2, <4>1
    <3>2. CASE d \notin ToSet(childs[u])
      <4>1. u = p /\ d = c
        BY <1>6, <2>2, <3>2
      <4> QED
        BY <1>2, <4>1
    <3> QED
      BY <3>1, <3>2
  <2> QED
    BY <2>1, <2>2 DEF Family
<1>12. Unborn'
  BY <1>2, <1>5 DEF Tree, Unborn
<1>13. Targets'
  BY <1>1, <1>2, <1>5, <1>7 DEF Tree, Targets
<1>14. Childless'
  BY <1>1, <1>5, <1>6 DEF Tree, Childless
<1>15. Held'
  <2> SUFFICES ASSUME NEW d \in Threads, ~Ended(d)', parent'[d] # NoThread
               PROVE  \/ d \in ToSet(childs'[parent'[d]])
                      \/ pc'[parent'[d]] = "exitJoin" /\ target'[parent'[d]] = d
    BY DEF Held
  <2>1. ~Ended(d) /\ d # c
    BY <1>1, <1>5 DEF Ended
  <2>2. parent'[d] = parent[d] /\ parent[d] \in Threads
    BY <1>2, <2>1 DEF TypeOK
  <2>3. \/ d \in ToSet(childs[parent[d]])
        \/ pc[parent[d]] = "exitJoin" /\ target[parent[d]] = d
    BY <2>1, <2>2 DEF Tree, Held
  <2>4. d \in ToSet(childs[parent[d]]) => d \in ToSet(childs'[parent[d]])
    BY <1>6, <2>2
  <2> QED
    BY <1>5, <2>2, <2>3, <2>4
<1>16. Stages'
  BY <1>1, <1>2, <1>5, <1>8 DEF Tree, Stages, Ended
<1>17. Opened'
  BY <1>1, <1>2, <1>5 DEF Tree, Opened, Opening, Ended
<1>18. Joins'
  BY <1>1, <1>2, <1>5, <1>6, <1>7 DEF Tree, Joins
<1>19. Gone'
  BY <1>1, <1>2, <1>5 DEF Tree, Gone, Ended
<1> QED
  BY <1>11, <1>12, <1>13, <1>14, <1>15, <1>16, <1>17, <1>18, <1>19 DEF Tree

(* The new thread opens, and its parent waits for it.                      *)
LEMMA StartTree ==
    ASSUME TypeOK, Tree, NEW p \in Threads, NEW c \in Threads \ {App}, Start(p, c)
    PROVE  Tree'
<1>1. /\ pc[p] \in {"init", "handler"} /\ c \in ToSet(childs[p]) /\ pc[c] = "unborn" /\ p # c
      /\ parent[c] = p /\ obj[c] = "alive" /\ ~sem[c] /\ ~initResult[c] /\ toStop[c] = <<>>
      /\ toStop[p] = <<>>
  <2>1. pc[p] \in {"init", "handler"} /\ c \in ToSet(childs[p]) /\ pc[c] = "unborn"
    BY DEF Start, InUserCode
  <2> QED
    BY <2>1 DEF Tree, Family, Stages, Childless
<1>2. \A u \in Threads :
        /\ pc'[u] = IF u = c THEN "init" ELSE IF u = p THEN "starting" ELSE pc[u]
        /\ back'[u] = IF u = p THEN pc[p] ELSE back[u]
        /\ target'[u] = IF u = p THEN c ELSE target[u]
        /\ param'[u] = IF u = c THEN "alive" ELSE param[u]
  BY <1>1 DEF TypeOK, Start
<1>3. /\ obj' = obj /\ childs' = childs /\ parent' = parent
      /\ initResult' = initResult /\ sem' = sem /\ toStop' = toStop
  BY DEF Start, treeVars
<1>4. \A u \in Threads : target[u] = c => u = p
  BY <1>1, ThreadsAssumption DEF Tree, Targets, NoThread
<1>5. p # NoThread /\ c # NoThread /\ c # App
  BY ThreadsAssumption DEF NoThread
<1>11. Family'
  BY <1>3 DEF Tree, Family
<1>12. Unborn'
  BY <1>1, <1>2, <1>3 DEF Tree, Unborn
<1>13. Targets'
  BY <1>1, <1>2, <1>3, <1>4 DEF Tree, Targets
<1>14. Childless'
  BY <1>1, <1>2, <1>3 DEF Tree, Childless
<1>15. Held'
  <2> SUFFICES ASSUME NEW d \in Threads, ~Ended(d)', parent[d] # NoThread
               PROVE  \/ d \in ToSet(childs[parent[d]])
                      \/ pc'[parent[d]] = "exitJoin" /\ target'[parent[d]] = d
    BY <1>3 DEF Held
  <2>1. parent[d] \in Threads
    BY DEF TypeOK
  <2>2. CASE d = c
    BY <1>1, <2>2
  <2>3. CASE d # c
    <3>1. ~Ended(d)
      BY <1>1, <1>2, <2>3 DEF Ended
    <3> QED
      BY <1>1, <1>2, <2>1, <3>1 DEF Tree, Held
  <2> QED
    BY <2>2, <2>3
<1>16. Stages'
  BY <1>1, <1>2, <1>3, <1>5 DEF Tree, Stages, Ended
<1>17. Opened'
  <2> SUFFICES ASSUME NEW d \in Threads, d # App, Opening(d)'
               PROVE  /\ ~sem[d] /\ param'[d] = "alive"
                      /\ pc'[d] # "failPost" =>
                            pc'[parent[d]] = "starting" /\ target'[parent[d]] = d
    BY <1>3 DEF Opened
  <2>1. CASE d = c
    BY <1>1, <1>2, <2>1
  <2>2. CASE d # c
    <3>1. Opening(d) /\ (pc'[d] = "failPost" <=> pc[d] = "failPost")
      BY <1>1, <1>2, <1>3, <2>2 DEF Opening, Ended
    <3>2. /\ ~sem[d] /\ param[d] = "alive"
          /\ pc[d] # "failPost" => pc[parent[d]] = "starting" /\ target[parent[d]] = d
      BY <3>1 DEF Tree, Opened
    <3>3. pc[d] # "failPost" => parent[d] \in Threads
      BY <3>1 DEF Tree, Stages, Opening, Ended, TypeOK
    <3> QED
      BY <1>1, <1>2, <2>2, <3>1, <3>2, <3>3
  <2> QED
    BY <2>1, <2>2
<1>18. Joins'
  <2> SUFFICES ASSUME NEW u \in Threads
               PROVE  /\ pc'[u] \in {"starting", "joinStart", "reap", "exitJoin"} =>
                            target'[u] # NoThread /\ obj[target'[u]] = "alive"
                      /\ pc'[u] \in {"reap", "exitJoin"} =>
                            parent[target'[u]] = u /\ target'[u] \notin ToSet(childs[u])
                      /\ pc'[u] = "reap" => pc'[target'[u]] = "dead"
    BY <1>3 DEF Joins
  <2>1. CASE u = p
    BY <1>1, <1>2, <1>5, <2>1
  <2>2. CASE u = c
    BY <1>1, <1>2, <2>2
  <2>3. CASE u # p /\ u # c
    <3>1. pc'[u] = pc[u] /\ target'[u] = target[u]
      BY <1>2, <2>3
    <3>2. pc[u] = "reap" => pc[target[u]] = "dead" /\ target[u] \in Threads
      BY DEF Tree, Joins, TypeOK
    <3>3. pc[u] = "reap" => pc'[target[u]] = "dead"
      BY <1>1, <1>2, <3>2
    <3> QED
      BY <3>1, <3>3 DEF Tree, Joins
  <2> QED
    BY <2>1, <2>2, <2>3
<1>19. Gone'
  BY <1>1, <1>2, <1>3 DEF Tree, Gone, Ended
<1> QED
  BY <1>11, <1>12, <1>13, <1>14, <1>15, <1>16, <1>17, <1>18, <1>19 DEF Tree

(* A thread moves, from where it waits for no child in onExit, and the     *)
(* tree stays.                                                             *)
LEMMA TreeKept ==
    ASSUME TypeOK, Tree, NEW t \in Threads,
           \A u \in Threads : u # t => pc'[u] = pc[u],
           pc[t] \notin {"unborn", "dead", "exitJoin"},
           obj' = obj, target' = target, childs' = childs, parent' = parent
    PROVE  Family' /\ Unborn' /\ Targets' /\ Held' /\ Gone'
<1>1. Family' /\ Targets'
  BY DEF Tree, Family, Targets
<1>2. Unborn' /\ Gone'
  BY DEF Tree, Unborn, Gone, Ended
<1>3. Held'
  <2> SUFFICES ASSUME NEW c \in Threads, ~Ended(c)', parent[c] # NoThread
               PROVE  \/ c \in ToSet(childs[parent[c]])
                      \/ pc'[parent[c]] = "exitJoin" /\ target[parent[c]] = c
    BY DEF Held
  <2>1. ~Ended(c) /\ parent[c] \in Threads
    BY DEF Ended, TypeOK
  <2> QED
    BY <2>1 DEF Tree, Held
<1> QED
  BY <1>1, <1>2, <1>3

(* start() goes on: the thread it waits for is up, or has ended.           *)
LEMMA ReturnsTree ==
    ASSUME TypeOK, Tree, NEW p \in Threads, NEW w \in {back[p], "joinStart"},
           pc[p] \in {"starting", "joinStart"}, pc' = [pc EXCEPT ![p] = w],
           ~Opening(target[p]),
           \A c \in Threads : param'[c] = param[c] \/ c = target[p],
           obj' = obj, back' = back, target' = target, childs' = childs, parent' = parent,
           initResult' = initResult, sem' = sem, toStop' = toStop
    PROVE  Tree'
<1>1. pc'[p] = w /\ (\A u \in Threads : u # p => pc'[u] = pc[u])
      /\ w \in {"init", "handler", "joinStart"} /\ (w = "init" => back[p] = "init")
  BY DEF TypeOK
<1>2. Family' /\ Unborn' /\ Targets' /\ Held' /\ Gone'
  BY <1>1, TreeKept
<1>3. Childless'
  BY <1>1 DEF Tree, Childless
<1>4. Stages'
  BY <1>1 DEF Tree, Stages, Ended
<1>5. Opened'
  <2> SUFFICES ASSUME NEW d \in Threads, d # App, Opening(d)'
               PROVE  /\ ~sem[d] /\ param'[d] = "alive"
                      /\ pc'[d] # "failPost" =>
                            pc'[parent[d]] = "starting" /\ target[parent[d]] = d
    BY DEF Opened
  <2>1. Opening(d) /\ (pc'[d] = "failPost" <=> pc[d] = "failPost")
    BY <1>1 DEF Opening, Ended
  <2>2. /\ ~sem[d] /\ param[d] = "alive"
        /\ pc[d] # "failPost" => pc[parent[d]] = "starting" /\ target[parent[d]] = d
    BY <2>1 DEF Tree, Opened
  <2>3. pc[d] # "failPost" => parent[d] \in Threads
    BY <2>1 DEF Tree, Stages, Opening, Ended, TypeOK
  <2>4. target[p] # d
    BY <2>1
  <2> QED
    BY <1>1, <2>1, <2>2, <2>3, <2>4
<1>6. Joins'
  <2> SUFFICES ASSUME NEW u \in Threads
               PROVE  /\ pc'[u] \in {"starting", "joinStart", "reap", "exitJoin"} =>
                            target[u] # NoThread /\ obj[target[u]] = "alive"
                      /\ pc'[u] \in {"reap", "exitJoin"} =>
                            parent[target[u]] = u /\ target[u] \notin ToSet(childs[u])
                      /\ pc'[u] = "reap" => pc'[target[u]] = "dead"
    BY DEF Joins
  <2>1. CASE u = p
    BY <1>1, <2>1 DEF Tree, Joins
  <2>2. CASE u # p
    <3>1. pc[u] = "reap" => pc[target[u]] = "dead" /\ target[u] \in Threads
      BY DEF Tree, Joins, TypeOK
    <3> QED
      BY <1>1, <2>2, <3>1 DEF Tree, Joins
  <2> QED
    BY <2>1, <2>2
<1> QED
  BY <1>2, <1>3, <1>4, <1>5, <1>6 DEF Tree

(* A thread ends its part in start(): it is up, or it is dead.             *)
LEMMA PostTree ==
    ASSUME TypeOK, Tree, NEW t \in Threads, SemPost(t)
    PROVE  Tree'
<1> DEFINE w == IF pc[t] = "initDone" THEN "enterRun" ELSE "dead"
<1>1. /\ pc[t] \in {"initDone", "failPost"} /\ pc'[t] = w
      /\ \A u \in Threads : u # t => pc'[u] = pc[u] /\ sem'[u] = sem[u]
  BY DEF SemPost, Goto, TypeOK
<1>2. /\ obj' = obj /\ back' = back /\ target' = target /\ childs' = childs /\ parent' = parent
      /\ initResult' = initResult /\ param' = param /\ toStop' = toStop
  BY DEF SemPost, treeVars
<1>3. /\ t # App
      /\ pc[t] = "initDone" => w = "enterRun" /\ initResult[t]
      /\ pc[t] = "failPost" => w = "dead" /\ ~initResult[t] /\ parent[t] = NoThread
                               /\ childs[t] = <<>>
  BY <1>1 DEF Tree, Stages, Childless
<1> HIDE DEF w
<1>4. w \in {"enterRun", "dead"} /\ (w = "dead" => pc[t] = "failPost")
  BY <1>1, <1>3
<1>5. Family' /\ Unborn' /\ Targets' /\ Held' /\ Gone'
  BY <1>1, <1>2, TreeKept
<1>6. Childless'
  BY <1>1, <1>2, <1>3, <1>4 DEF Tree, Childless
<1>7. Stages'
  BY <1>1, <1>2, <1>3, <1>4 DEF Tree, Stages, Ended
<1>8. Opened'
  <2> SUFFICES ASSUME NEW d \in Threads, d # App, Opening(d)'
               PROVE  /\ ~sem'[d] /\ param[d] = "alive"
                      /\ pc'[d] # "failPost" =>
                            pc'[parent[d]] = "starting" /\ target[parent[d]] = d
    BY <1>2 DEF Opened
  <2>0. d # t
    BY <1>1, <1>2, <1>3, <1>4 DEF Opening, Ended
  <2>1. Opening(d) /\ pc'[d] = pc[d]
    BY <1>1, <1>2, <2>0 DEF Opening, Ended
  <2>2. /\ ~sem[d] /\ param[d] = "alive"
        /\ pc[d] # "failPost" => pc[parent[d]] = "starting" /\ target[parent[d]] = d
    BY <2>1 DEF Tree, Opened
  <2>3. pc[d] # "failPost" => parent[d] \in Threads
    BY <2>1 DEF Tree, Stages, Opening, Ended, TypeOK
  <2> QED
    BY <1>1, <2>0, <2>1, <2>2, <2>3
<1>9. Joins'
  <2> SUFFICES ASSUME NEW u \in Threads
               PROVE  /\ pc'[u] \in {"starting", "joinStart", "reap", "exitJoin"} =>
                            target[u] # NoThread /\ obj[target[u]] = "alive"
                      /\ pc'[u] \in {"reap", "exitJoin"} =>
                            parent[target[u]] = u /\ target[u] \notin ToSet(childs[u])
                      /\ pc'[u] = "reap" => pc'[target[u]] = "dead"
    BY <1>2 DEF Joins
  <2>1. CASE u = t
    BY <1>1, <1>4, <2>1
  <2>2. CASE u # t
    <3>1. pc[u] = "reap" => pc[target[u]] = "dead" /\ target[u] \in Threads
      BY DEF Tree, Joins, TypeOK
    <3> QED
      BY <1>1, <2>2, <3>1 DEF Tree, Joins
  <2> QED
    BY <2>1, <2>2
<1> QED
  BY <1>5, <1>6, <1>7, <1>8, <1>9 DEF Tree

(* onInit of a thread that is not the Application has succeeded.           *)
LEMMA UpTree ==
    ASSUME TypeOK, Tree, NEW t \in Threads \ {App}, InitReturns(t, TRUE)
    PROVE  Tree'
<1>1. /\ pc[t] = "init" /\ pc'[t] = "initDone" /\ initResult'[t] = TRUE
      /\ \A u \in Threads : u # t => pc'[u] = pc[u] /\ initResult'[u] = initResult[u]
  BY DEF InitReturns, Goto, TypeOK
<1>2. /\ obj' = obj /\ back' = back /\ target' = target /\ childs' = childs /\ parent' = parent
      /\ sem' = sem /\ param' = param /\ toStop' = toStop
  BY DEF InitReturns, treeVars
<1>3. Family' /\ Unborn' /\ Targets' /\ Held' /\ Gone'
  BY <1>1, <1>2, TreeKept
<1>4. Childless'
  BY <1>1, <1>2 DEF Tree, Childless
<1>5. Stages'
  BY <1>1, <1>2 DEF Tree, Stages, Ended
<1>6. Opened'
  <2> SUFFICES ASSUME NEW d \in Threads, d # App, Opening(d)'
               PROVE  /\ ~sem[d] /\ param[d] = "alive"
                      /\ pc'[d] # "failPost" =>
                            pc'[parent[d]] = "starting" /\ target[parent[d]] = d
    BY <1>2 DEF Opened
  <2>0. ~initResult[t]
    BY <1>1 DEF Tree, Stages
  <2>1. Opening(d) /\ (pc'[d] = "failPost" <=> pc[d] = "failPost")
    BY <1>1, <2>0 DEF Opening, Ended
  <2>2. /\ ~sem[d] /\ param[d] = "alive"
        /\ pc[d] # "failPost" => pc[parent[d]] = "starting" /\ target[parent[d]] = d
    BY <2>1 DEF Tree, Opened
  <2>3. pc[d] # "failPost" => parent[d] \in Threads
    BY <2>1 DEF Tree, Stages, Opening, Ended, TypeOK
  <2> QED
    BY <1>1, <2>1, <2>2, <2>3
<1>7. Joins'
  <2> SUFFICES ASSUME NEW u \in Threads
               PROVE  /\ pc'[u] \in {"starting", "joinStart", "reap", "exitJoin"} =>
                            target[u] # NoThread /\ obj[target[u]] = "alive"
                      /\ pc'[u] \in {"reap", "exitJoin"} =>
                            parent[target[u]] = u /\ target[u] \notin ToSet(childs[u])
                      /\ pc'[u] = "reap" => pc'[target[u]] = "dead"
    BY <1>2 DEF Joins
  <2>1. pc[u] = "reap" => pc[target[u]] = "dead" /\ target[u] \in Threads
    BY DEF Tree, Joins, TypeOK
  <2> QED
    BY <1>1, <2>1 DEF Tree, Joins
<1> QED
  BY <1>3, <1>4, <1>5, <1>6, <1>7 DEF Tree

(* A child is taken out of its parent's list, to be joined.                *)
LEMMA TakenTree ==
    ASSUME TypeOK, Tree, NEW t \in Threads, NEW c \in Threads, NEW s, NEW b \in {"reap", "exitJoin"},
           c \in ToSet(childs[t]), Once(s), ToSet(s) = ToSet(childs[t]) \ {c},
           pc[t] \in {"run", "exitReap"}, b = "reap" => pc[c] = "dead",
           pc' = [pc EXCEPT ![t] = b], target' = [target EXCEPT ![t] = c],
           childs' = [childs EXCEPT ![t] = s],
           obj' = obj, back' = back, parent' = parent, initResult' = initResult, sem' = sem,
           param' = param, toStop' = toStop
    PROVE  Tree'
<1>1. /\ pc'[t] = b /\ target'[t] = c /\ childs'[t] = s
      /\ \A u \in Threads : u # t => /\ pc'[u] = pc[u] /\ target'[u] = target[u]
                                     /\ childs'[u] = childs[u]
  BY DEF TypeOK
<1>2. /\ parent[c] = t /\ obj[c] = "alive" /\ c # App /\ c # NoThread /\ toStop[t] = <<>>
      /\ c \notin ToSet(s) /\ ToSet(s) \subseteq ToSet(childs[t])
  BY ThreadsAssumption DEF Tree, Family, Childless, NoThread
<1>3. \A u \in Threads : target[u] = c => u = t
  BY <1>2, ThreadsAssumption DEF Tree, Targets, NoThread
<1>4. Family'
  <2>1. ASSUME NEW u \in Threads PROVE Once(childs'[u]) /\ ToSet(childs'[u]) \subseteq ToSet(childs[u])
    BY <1>1, <1>2 DEF Tree, Family
  <2> QED
    BY <2>1 DEF Tree, Family
<1>5. Unborn'
  BY <1>1, <1>2 DEF Tree, Unborn
<1>6. Targets'
  BY <1>1, <1>2, <1>3 DEF Tree, Targets
<1>7. Childless'
  <2>1. ToSet(toStop[t]) = {}
    BY <1>2, EmptyIs
  <2> QED
    BY <1>1, <1>2, <2>1 DEF Tree, Childless
<1>8. Held'
  <2> SUFFICES ASSUME NEW d \in Threads, ~Ended(d)', parent[d] # NoThread
               PROVE  \/ d \in ToSet(childs'[parent[d]])
                      \/ pc'[parent[d]] = "exitJoin" /\ target'[parent[d]] = d
    BY DEF Held
  <2>1. ~Ended(d) /\ parent[d] \in Threads
    BY <1>1 DEF Ended, TypeOK
  <2>2. \/ d \in ToSet(childs[parent[d]])
        \/ pc[parent[d]] = "exitJoin" /\ target[parent[d]] = d
    BY <2>1 DEF Tree, Held
  <2>3. CASE parent[d] = t
    <3>1. d \in ToSet(childs[t])
      BY <2>2, <2>3
    <3>2. d # c => d \in ToSet(childs'[t])
      BY <1>1, <3>1
    <3>3. d = c => b = "exitJoin"
      BY <2>1 DEF Ended
    <3> QED
      BY <1>1, <2>3, <3>2, <3>3
  <2>4. CASE parent[d] # t
    BY <1>1, <2>1, <2>2, <2>4
  <2> QED
    BY <2>3, <2>4
<1>9. Stages'
  BY <1>1 DEF Tree, Stages, Ended
<1>10. Opened'
  <2> SUFFICES ASSUME NEW d \in Threads, d # App, Opening(d)'
               PROVE  /\ ~sem[d] /\ param[d] = "alive"
                      /\ pc'[d] # "failPost" =>
                            pc'[parent[d]] = "starting" /\ target'[parent[d]] = d
    BY DEF Opened
  <2>1. Opening(d) /\ (pc'[d] = "failPost" <=> pc[d] = "failPost")
    BY <1>1 DEF Opening, Ended
  <2>2. /\ ~sem[d] /\ param[d] = "alive"
        /\ pc[d] # "failPost" => pc[parent[d]] = "starting" /\ target[parent[d]] = d
    BY <2>1 DEF Tree, Opened
  <2>3. pc[d] # "failPost" => parent[d] \in Threads
    BY <2>1 DEF Tree, Stages, Opening, Ended, TypeOK
  <2> QED
    BY <1>1, <2>1, <2>2, <2>3
<1>11. Joins'
  <2> SUFFICES ASSUME NEW u \in Threads
               PROVE  /\ pc'[u] \in {"starting", "joinStart", "reap", "exitJoin"} =>
                            target'[u] # NoThread /\ obj[target'[u]] = "alive"
                      /\ pc'[u] \in {"reap", "exitJoin"} =>
                            parent[target'[u]] = u /\ target'[u] \notin ToSet(childs'[u])
                      /\ pc'[u] = "reap" => pc'[target'[u]] = "dead"
    BY DEF Joins
  <2>1. CASE u = t
    BY <1>1, <1>2, <2>1
  <2>2. CASE u # t
    <3>1. pc[u] = "reap" => pc[target[u]] = "dead" /\ target[u] \in Threads
      BY DEF Tree, Joins, TypeOK
    <3> QED
      BY <1>1, <2>2, <3>1 DEF Tree, Joins
  <2> QED
    BY <2>1, <2>2
<1>12. Gone'
  BY <1>1 DEF Tree, Gone, Ended
<1> QED
  BY <1>4, <1>5, <1>6, <1>7, <1>8, <1>9, <1>10, <1>11, <1>12 DEF Tree

(* The child that was joined is deleted.                                   *)
LEMMA ReapTree ==
    ASSUME TypeOK, Tree, NEW t \in Threads, NEW b \in {"run", "exitReap"},
           pc[t] \in {"reap", "exitJoin"}, Reap(t, b)
    PROVE  Tree'
<1> DEFINE c == target[t]
<1>1. /\ c \in Threads /\ c # NoThread /\ parent[c] = t /\ c \notin ToSet(childs[t])
      /\ Ended(c) /\ obj[c] = "alive"
  BY DEF Reap, Joinable, Ended, Tree, Joins, TypeOK
<1>2. \A u \in Threads : target[u] = c => u = t
  BY <1>1 DEF Tree, Targets
<1>3. /\ pc'[t] = b /\ obj'[c] = "deleted"
      /\ \A u \in Threads : u # t => pc'[u] = pc[u]
      /\ \A u \in Threads : u # c => obj'[u] = obj[u]
  BY <1>1 DEF Reap, Goto, TypeOK
<1>4. /\ back' = back /\ target' = target /\ childs' = childs /\ parent' = parent
      /\ initResult' = initResult /\ sem' = sem /\ param' = param /\ toStop' = toStop
  BY DEF Reap, startVars
<1>5. t # c
  BY <1>1 DEF Ended
<1> HIDE DEF c
<1>6. Family'
  <2>1. ASSUME NEW u \in Threads, NEW d \in ToSet(childs[u])
        PROVE  parent[d] = u /\ obj'[d] = "alive" /\ d # App
    <3>1. parent[d] = u /\ obj[d] = "alive" /\ d # App /\ d \in Threads
      BY <2>1, ToSetIs DEF Tree, Family, TypeOK
    <3>2. d # c
      BY <1>1, <2>1, <3>1
    <3> QED
      BY <1>3, <3>1, <3>2
  <2> QED
    BY <1>4, <2>1 DEF Tree, Family
<1>7. Unborn'
  BY <1>3, <1>4 DEF Tree, Unborn
<1>8. Targets'
  BY <1>4 DEF Tree, Targets
<1>9. Childless'
  BY <1>3, <1>4 DEF Tree, Childless
<1>10. Held'
  <2> SUFFICES ASSUME NEW d \in Threads, ~Ended(d)', parent[d] # NoThread
               PROVE  \/ d \in ToSet(childs[parent[d]])
                      \/ pc'[parent[d]] = "exitJoin" /\ target[parent[d]] = d
    BY <1>4 DEF Held
  <2>1. ~Ended(d) /\ parent[d] \in Threads
    BY <1>3 DEF Ended, TypeOK
  <2>2. \/ d \in ToSet(childs[parent[d]])
        \/ pc[parent[d]] = "exitJoin" /\ target[parent[d]] = d
    BY <2>1 DEF Tree, Held
  <2>3. d # c
    BY <1>1, <2>1
  <2>4. CASE parent[d] = t
    BY <2>2, <2>3, <2>4 DEF c
  <2>5. CASE parent[d] # t
    BY <1>3, <2>1, <2>2, <2>5
  <2> QED
    BY <2>4, <2>5
<1>11. Stages'
  BY <1>3, <1>4 DEF Tree, Stages, Ended
<1>12. Opened'
  <2> SUFFICES ASSUME NEW d \in Threads, d # App, Opening(d)'
               PROVE  /\ ~sem[d] /\ param[d] = "alive"
                      /\ pc'[d] # "failPost" =>
                            pc'[parent[d]] = "starting" /\ target[parent[d]] = d
    BY <1>4 DEF Opened
  <2>1. Opening(d) /\ (pc'[d] = "failPost" <=> pc[d] = "failPost")
    BY <1>3, <1>4 DEF Opening, Ended
  <2>2. /\ ~sem[d] /\ param[d] = "alive"
        /\ pc[d] # "failPost" => pc[parent[d]] = "starting" /\ target[parent[d]] = d
    BY <2>1 DEF Tree, Opened
  <2>3. pc[d] # "failPost" => parent[d] \in Threads
    BY <2>1 DEF Tree, Stages, Opening, Ended, TypeOK
  <2> QED
    BY <1>3, <2>1, <2>2, <2>3
<1>13. Joins'
  <2> SUFFICES ASSUME NEW u \in Threads
               PROVE  /\ pc'[u] \in {"starting", "joinStart", "reap", "exitJoin"} =>
                            target[u] # NoThread /\ obj'[target[u]] = "alive"
                      /\ pc'[u] \in {"reap", "exitJoin"} =>
                            parent[target[u]] = u /\ target[u] \notin ToSet(childs[u])
                      /\ pc'[u] = "reap" => pc'[target[u]] = "dead"
    BY <1>4 DEF Joins
  <2>1. CASE u = t
    BY <1>3, <2>1
  <2>2. CASE u # t
    <3>1. pc'[u] = pc[u] /\ target[u] # c
      BY <1>2, <1>3, <2>2
    <3>2. pc[u] \in {"starting", "joinStart", "reap", "exitJoin"} =>
             target[u] \in Threads /\ target[u] # NoThread /\ obj[target[u]] = "alive"
      BY DEF Tree, Joins, TypeOK
    <3>3. pc[u] = "reap" => pc[target[u]] = "dead" /\ target[u] \in Threads
      BY <3>2 DEF Tree, Joins
    <3>4. pc[u] = "reap" => pc'[target[u]] = "dead"
      BY <1>3, <3>3
    <3> QED
      BY <1>3, <3>1, <3>2, <3>4 DEF Tree, Joins
  <2> QED
    BY <2>1, <2>2
<1>14. Gone'
  BY <1>1, <1>3, <1>5 DEF Tree, Gone, Ended
<1> QED
  BY <1>6, <1>7, <1>8, <1>9, <1>10, <1>11, <1>12, <1>13, <1>14 DEF Tree

(* The owner deletes a thread whose start() has failed, which is in no     *)
(* list any more.                                                          *)
LEMMA DeleteTree ==
    ASSUME TypeOK, Tree, NEW p \in Threads, NEW c \in Threads \ {App}, DeleteFailed(p, c)
    PROVE  Tree'
<1>1. /\ pc[p] \in {"init", "handler"} /\ target[p] = c /\ pc[c] = "dead" /\ obj[c] = "alive"
      /\ ~initResult[c]
  BY DEF DeleteFailed, InUserCode
<1>2. parent[c] = NoThread /\ c # NoThread
  BY <1>1, ThreadsAssumption DEF Tree, Stages, NoThread
<1>3. \A u \in Threads : target[u] = c => u = p
  BY <1>1, <1>2 DEF Tree, Targets
<1>4. obj'[c] = "deleted" /\ \A u \in Threads : u # c => obj'[u] = obj[u]
  BY DEF DeleteFailed, TypeOK
<1>5. /\ pc' = pc /\ back' = back /\ target' = target /\ childs' = childs /\ parent' = parent
      /\ initResult' = initResult /\ sem' = sem /\ param' = param /\ toStop' = toStop
  BY DEF DeleteFailed, startVars
<1>6. Family'
  <2>1. ASSUME NEW u \in Threads, NEW d \in ToSet(childs[u])
        PROVE  parent[d] = u /\ obj'[d] = "alive" /\ d # App
    <3>1. parent[d] = u /\ obj[d] = "alive" /\ d # App /\ d \in Threads
      BY <2>1, ToSetIs DEF Tree, Family, TypeOK
    <3>2. d # c
      BY <1>2, <3>1, ThreadsAssumption DEF NoThread
    <3> QED
      BY <1>4, <3>1, <3>2
  <2> QED
    BY <1>5, <2>1 DEF Tree, Family
<1>7. Unborn'
  BY <1>4, <1>5 DEF Tree, Unborn
<1>8. Targets' /\ Childless' /\ Held'
  BY <1>5 DEF Tree, Targets, Childless, Held, Ended
<1>9. Stages' /\ Opened'
  BY <1>5 DEF Tree, Stages, Opened, Opening, Ended
<1>10. Joins'
  <2>1. \A u \in Threads : pc[u] \in {"starting", "joinStart", "reap", "exitJoin"} =>
           target[u] # c /\ target[u] \in Threads
    BY <1>1, <1>3 DEF Tree, Joins, TypeOK
  <2> QED
    BY <1>4, <1>5, <2>1 DEF Tree, Joins
<1>11. Gone'
  BY <1>1, <1>4, <1>5 DEF Tree, Gone, Ended
<1> QED
  BY <1>6, <1>7, <1>8, <1>9, <1>10, <1>11 DEF Tree

(* A thread whose onInit has failed takes itself out of the list of its    *)
(* parent, which waits for it in start().                                  *)
LEMMA LeaveTree ==
    ASSUME TypeOK, Tree, NEW t \in Threads, LeaveParent(t)
    PROVE  Tree'
<1> DEFINE p == parent[t]
<1>1. /\ pc[t] = "notify" /\ ~initResult[t] /\ p \in Threads /\ p # NoThread /\ t # App
      /\ childs[t] = <<>> /\ toStop[t] = <<>>
  BY DEF LeaveParent, Tree, Stages, Childless, TypeOK
<1>2. pc[p] = "starting" /\ target[p] = t /\ ~sem[t] /\ param[t] = "alive" /\ p # t
  BY <1>1 DEF Tree, Opened, Opening, Ended
<1>3. \A u \in Threads : target[u] = t => u = p
  BY <1>1, <1>2, ThreadsAssumption DEF Tree, Targets, NoThread
<1>4. toStop[p] = <<>>
  BY <1>1, <1>2 DEF Tree, Childless
<1> DEFINE s == RemoveFirst(childs[p], t)
<1>5. Once(s) /\ ToSet(s) = ToSet(childs[p]) \ {t}
  BY <1>1, RemovedIs DEF Tree, Family, TypeOK
<1>6. /\ pc'[t] = "failPost" /\ parent'[t] = NoThread /\ childs'[p] = s
      /\ \A u \in Threads : u # t => pc'[u] = pc[u] /\ parent'[u] = parent[u]
      /\ \A u \in Threads : u # p => childs'[u] = childs[u]
  BY <1>1 DEF LeaveParent, Goto, TypeOK
<1>7. /\ obj' = obj /\ back' = back /\ target' = target
      /\ initResult' = initResult /\ sem' = sem /\ param' = param /\ toStop' = toStop
  BY DEF LeaveParent, startVars
<1> HIDE DEF p, s
<1>11. Family'
  <2>1. ASSUME NEW u \in Threads
        PROVE  /\ Once(childs'[u]) /\ ToSet(childs'[u]) \subseteq ToSet(childs[u])
               /\ t \notin ToSet(childs'[u])
    <3>1. CASE u = p
      BY <1>5, <1>6, <3>1
    <3>2. CASE u # p
      <4>1. t \notin ToSet(childs[u])
        BY <3>2 DEF Tree, Family, p
      <4> QED
        BY <1>6, <3>2, <4>1 DEF Tree, Family
    <3> QED
      BY <3>1, <3>2
  <2>2. ASSUME NEW u \in Threads, NEW d \in ToSet(childs'[u])
        PROVE  parent'[d] = u /\ obj[d] = "alive" /\ d # App
    <3>1. d # t /\ d \in ToSet(childs[u])
      BY <2>1, <2>2
    <3>2. parent[d] = u /\ obj[d] = "alive" /\ d # App /\ d \in Threads
      BY <3>1, ToSetIs DEF Tree, Family, TypeOK
    <3> QED
      BY <1>6, <3>1, <3>2
  <2> QED
    BY <1>7, <2>1, <2>2 DEF Family
<1>12. Unborn'
  BY <1>1, <1>6, <1>7 DEF Tree, Unborn
<1>13. Targets'
  <2>1. \A u \in Threads : target[u] # NoThread => target[u] \in Threads
    BY DEF TypeOK
  <2> QED
    BY <1>6, <1>7, <2>1 DEF Tree, Targets
<1>14. Childless'
  <2>1. ToSet(toStop[p]) = {}
    BY <1>4, EmptyIs
  <2> SUFFICES ASSUME NEW u \in Threads
               PROVE  /\ pc'[u] \in {"unborn", "loopExit", "notify", "notifyPost",
                                      "failPost", "dead"} => childs'[u] = <<>>
                      /\ pc'[u] # "exit" => toStop[u] = <<>>
                      /\ ToSet(toStop[u]) \subseteq ToSet(childs'[u])
    BY <1>7 DEF Childless
  <2>2. CASE u = p
    BY <1>2, <1>4, <1>6, <2>1, <2>2
  <2>3. CASE u # p
    BY <1>1, <1>6, <2>3 DEF Tree, Childless
  <2> QED
    BY <2>2, <2>3
<1>15. Held'
  <2> SUFFICES ASSUME NEW d \in Threads, ~Ended(d)', parent'[d] # NoThread
               PROVE  \/ d \in ToSet(childs'[parent'[d]])
                      \/ pc'[parent'[d]] = "exitJoin" /\ target[parent'[d]] = d
    BY <1>7 DEF Held
  <2>1. d # t /\ parent'[d] = parent[d] /\ ~Ended(d) /\ parent[d] \in Threads
    BY <1>6 DEF Ended, TypeOK
  <2>2. \/ d \in ToSet(childs[parent[d]])
        \/ pc[parent[d]] = "exitJoin" /\ target[parent[d]] = d
    BY <2>1 DEF Tree, Held
  <2>3. d \in ToSet(childs[parent[d]]) => d \in ToSet(childs'[parent[d]])
    BY <1>5, <1>6, <2>1
  <2>4. pc[parent[d]] = "exitJoin" => pc'[parent[d]] = "exitJoin"
    BY <1>1, <1>6, <2>1
  <2> QED
    BY <2>1, <2>2, <2>3, <2>4
<1>16. Stages'
  BY <1>1, <1>6, <1>7 DEF Tree, Stages, Ended
<1>17. Opened'
  <2> SUFFICES ASSUME NEW d \in Threads, d # App, Opening(d)'
               PROVE  /\ ~sem[d] /\ param[d] = "alive"
                      /\ pc'[d] # "failPost" =>
                            pc'[parent'[d]] = "starting" /\ target[parent'[d]] = d
    BY <1>7 DEF Opened
  <2>1. CASE d = t
    BY <1>2, <1>6, <2>1
  <2>2. CASE d # t
    <3>1. Opening(d) /\ pc'[d] = pc[d] /\ parent'[d] = parent[d]
      BY <1>6, <1>7, <2>2 DEF Opening, Ended
    <3>2. /\ ~sem[d] /\ param[d] = "alive"
          /\ pc[d] # "failPost" => pc[parent[d]] = "starting" /\ target[parent[d]] = d
      BY <3>1 DEF Tree, Opened
    <3>3. pc[d] # "failPost" => parent[d] \in Threads
      BY <3>1 DEF Tree, Stages, Opening, Ended, TypeOK
    <3> QED
      BY <1>1, <1>6, <3>1, <3>2, <3>3
  <2> QED
    BY <2>1, <2>2
<1>18. Joins'
  <2> SUFFICES ASSUME NEW u \in Threads
               PROVE  /\ pc'[u] \in {"starting", "joinStart", "reap", "exitJoin"} =>
                            target[u] # NoThread /\ obj[target[u]] = "alive"
                      /\ pc'[u] \in {"reap", "exitJoin"} =>
                            parent'[target[u]] = u /\ target[u] \notin ToSet(childs'[u])
                      /\ pc'[u] = "reap" => pc'[target[u]] = "dead"
    BY <1>7 DEF Joins
  <2>1. CASE u = t \/ u = p
    BY <1>2, <1>6, <2>1 DEF Tree, Joins
  <2>2. CASE u # t /\ u # p
    <3>1. pc'[u] = pc[u] /\ target[u] # t /\ childs'[u] = childs[u]
      BY <1>3, <1>6, <2>2
    <3>2. pc[u] \in {"starting", "joinStart", "reap", "exitJoin"} =>
             target[u] \in Threads /\ target[u] # NoThread /\ obj[target[u]] = "alive"
      BY DEF Tree, Joins, TypeOK
    <3> QED
      BY <1>6, <3>1, <3>2 DEF Tree, Joins
  <2> QED
    BY <2>1, <2>2
<1>19. Gone'
  BY <1>1, <1>6, <1>7 DEF Tree, Gone, Ended
<1> QED
  BY <1>11, <1>12, <1>13, <1>14, <1>15, <1>16, <1>17, <1>18, <1>19 DEF Tree

-----------------------------------------------------------------------------
(* What the steps that change lists of children or announce one do to the  *)
(* events.                                                                 *)

(* A list of children grows.                                               *)
LEMMA NewEvents ==
    ASSUME TypeOK, Core, NEW p \in Threads, NEW c \in Threads \ {App}, New(p, c)
    PROVE  Events'
<1>1. /\ childs'[p] = Append(childs[p], c) /\ \A u \in Threads : u # p => childs'[u] = childs[u]
      /\ pc' = pc /\ initResult' = initResult /\ queue' = queue
  BY DEF New, startVars, queueVars, TypeOK
<1>2. ToSet(childs[p]) \subseteq ToSet(childs'[p])
  BY <1>1, ToSetAppend DEF TypeOK
<1>3. ASSUME NEW u \in Threads PROVE Told(queue'[u], Awaited(u)')
  <2>1. ToSet(childs[u]) \subseteq ToSet(childs'[u])
    BY <1>1, <1>2
  <2>2. \A d \in Awaited(u) : d \in Awaited(u)'
    BY <1>1, <2>1 DEF Awaited, Ending
  <2>3. Told(queue[u], Awaited(u))
    BY DEF Core, Events
  <2> QED
    BY <1>1, <2>2, <2>3, ToldMore
<1> QED
  BY <1>3 DEF Events

(* The child that is joined leaves its parent's list and had no other      *)
(* event there.                                                            *)
LEMMA TakeFinishedEvents ==
    ASSUME TypeOK, Core, NEW t \in Threads, TakeFinished(t)
    PROVE  Events'
<1> DEFINE c == Head(queue[t]).child
           s == RemoveFirst(childs[t], c)
<1>1. /\ pc[t] = "run" /\ queue[t] # <<>> /\ Head(queue[t]).kind = "finished"
      /\ pc'[t] = "reap" /\ queue'[t] = Tail(queue[t]) /\ childs'[t] = s
      /\ initResult' = initResult
      /\ \A u \in Threads : u # t => pc'[u] = pc[u] /\ queue'[u] = queue[u] /\ childs'[u] = childs[u]
  BY DEF TakeFinished, startVars, Goto, TypeOK
<1>2. ToSet(s) = ToSet(childs[t]) \ {c}
  BY RemovedIs DEF Core, Tree, Family, TypeOK
<1>3. Told(Tail(queue[t]), Awaited(t) \ {c})
  BY <1>1, ToldTail DEF Core, Events, TypeOK
<1> HIDE DEF c, s
<1>4. ASSUME NEW u \in Threads PROVE Told(queue'[u], Awaited(u)')
  <2>1. CASE u = t
    <3>1. \A d \in Awaited(t) \ {c} : d \in Awaited(t)'
      BY <1>1, <1>2 DEF Awaited, Ending
    <3> QED
      BY <1>1, <1>3, <2>1, <3>1, ToldMore
  <2>2. CASE u # t
    <3>1. \A d \in Awaited(u) : d \in Awaited(u)'
      BY <1>1, <2>2 DEF Awaited, Ending
    <3>2. Told(queue[u], Awaited(u))
      BY DEF Core, Events
    <3> QED
      BY <1>1, <2>2, <3>1, <3>2, ToldMore
  <2> QED
    BY <2>1, <2>2
<1> QED
  BY <1>4 DEF Events

(* Only a thread whose loop has ended takes children without an event.     *)
LEMMA TakeChildEvents ==
    ASSUME TypeOK, Core, NEW t \in Threads, ExitTakeChild(t)
    PROVE  Events'
<1>1. /\ pc[t] = "exitReap" /\ pc'[t] = "exitJoin"
      /\ initResult' = initResult /\ queue' = queue
      /\ \A u \in Threads : u # t => pc'[u] = pc[u] /\ childs'[u] = childs[u]
  BY DEF ExitTakeChild, startVars, queueVars, Goto, TypeOK
<1>2. ASSUME NEW u \in Threads PROVE Told(queue'[u], Awaited(u)')
  <2>1. \A d \in Awaited(u) : d \in Awaited(u)'
    BY <1>1 DEF Awaited, Ending
  <2>2. Told(queue[u], Awaited(u))
    BY DEF Core, Events
  <2> QED
    BY <1>1, <2>1, <2>2, ToldMore
<1> QED
  BY <1>2 DEF Events

(* A thread that leaves its parent's list has not been announced: it is    *)
(* not dead.                                                               *)
LEMMA LeaveEvents ==
    ASSUME TypeOK, Core, NEW t \in Threads, LeaveParent(t)
    PROVE  Events'
<1> DEFINE p == parent[t]
           s == RemoveFirst(childs[p], t)
<1>1. /\ pc[t] = "notify" /\ pc'[t] = "failPost" /\ p \in Threads
      /\ initResult' = initResult /\ queue' = queue /\ childs'[p] = s
      /\ \A u \in Threads : u # t => pc'[u] = pc[u]
      /\ \A u \in Threads : u # p => childs'[u] = childs[u]
  BY DEF LeaveParent, startVars, queueVars, Goto, TypeOK, Core, Tree, Stages
<1>2. ToSet(s) = ToSet(childs[p]) \ {t}
  BY <1>1, RemovedIs DEF Core, Tree, Family, TypeOK
<1> HIDE DEF p, s
<1>3. ASSUME NEW u \in Threads PROVE Told(queue'[u], Awaited(u)')
  <2>1. \A d \in ToSet(childs[u]) : d # t => d \in ToSet(childs'[u])
    BY <1>1, <1>2
  <2>2. \A d \in Awaited(u) : d \in Awaited(u)'
    BY <1>1, <2>1 DEF Awaited, Ending
  <2>3. Told(queue[u], Awaited(u))
    BY DEF Core, Events
  <2> QED
    BY <1>1, <2>2, <2>3, ToldMore
<1> QED
  BY <1>3 DEF Events

(* A thread is announced once, when it ends, and is then in the list of    *)
(* its parent or joined by it.                                             *)
LEMMA NotifyEvents ==
    ASSUME TypeOK, Core, NEW t \in Threads, NotifyPost(t)
    PROVE  Events'
<1>0. pc[t] = "notifyPost" /\ initResult[t] /\ parent[t] \in Threads
  BY DEF NotifyPost, TypeOK, Core, Tree, Stages
<1>p. PICK p \in Threads : p = parent[t]
  BY <1>0
<1>1. pc[t] = "notifyPost" /\ initResult[t] /\ p = parent[t] /\ p # NoThread
  BY <1>0, <1>p, ThreadsAssumption DEF NoThread
<1>2. /\ pc'[t] = "dead" /\ initResult' = initResult /\ childs' = childs
      /\ \A u \in Threads : u # t => pc'[u] = pc[u]
  BY DEF NotifyPost, startVars, treeVars, Goto, TypeOK
<1>3. t \in ToSet(childs[p]) \/ pc[p] = "exitJoin"
  BY <1>1 DEF Core, Tree, Held, Ended
<1>4. /\ queue'[p] = queue[p] \/ queue'[p] = Append(queue[p], Finished(t))
      /\ \A u \in Threads : u # p => queue'[u] = queue[u]
  BY <1>1 DEF NotifyPost, Push, queueVars, TypeOK
<1>5. ASSUME NEW u \in Threads PROVE Told(queue'[u], Awaited(u)')
  <2>1. \A d \in Awaited(u) : d \in Awaited(u)'
    BY <1>1, <1>2 DEF Awaited, Ending
  <2>2. Told(queue[u], Awaited(u)) /\ queue[u] \in Seq(Event)
    BY DEF Core, Events, TypeOK
  <2>3. t \notin Awaited(u)
    BY <1>1 DEF Awaited
  <2>4. t \in Awaited(p)'
    BY <1>1, <1>2, <1>3 DEF Awaited, Ending
  <2>5. CASE queue'[u] = queue[u]
    BY <2>1, <2>2, <2>5, ToldMore
  <2>6. CASE queue'[u] # queue[u]
    <3>1. u = p /\ queue'[u] = Append(queue[u], Finished(t))
      BY <1>4, <2>6
    <3> QED
      BY <2>1, <2>2, <2>3, <2>4, <3>1, ToldFinished
  <2> QED
    BY <2>5, <2>6
<1> QED
  BY <1>5 DEF Events

-----------------------------------------------------------------------------
(* The invariant is kept by every step.                                    *)

(* A thread only moves.                                                    *)
LEMMA MovedCore ==
    ASSUME TypeOK, Core, NEW t \in Threads, NEW b \in PCs,
           pc' = [pc EXCEPT ![t] = b],
           obj' = obj, back' = back, target' = target, childs' = childs, parent' = parent,
           initResult' = initResult, sem' = sem, param' = param,
           pc[t] \notin Waits \cup {"dead"},
           b \notin Waits \cup {"init"},
           b \in {"loopExit", "notify", "notifyPost", "dead"} => childs[t] = <<>>,
           b \in {"notify", "notifyPost"} => parent[t] # NoThread,
           b = "dead" => initResult[t] \/ t = App,
           b = "notifyPost" => initResult[t],
           toStop' = toStop \/ (b = "exit" /\ toStop' = [toStop EXCEPT ![t] = Reverse(childs[t])]),
           pc[t] = "exit" => toStop[t] = <<>>
    PROVE  Tree'
<1>1. \A u \in Threads : pc'[u] = IF u = t THEN b ELSE pc[u]
  BY DEF TypeOK
<1>2. ToSet(Reverse(childs[t])) = ToSet(childs[t])
  BY ReverseIs DEF TypeOK
<1>3. \A u \in Threads : toStop'[u] = toStop[u]
                          \/ (u = t /\ b = "exit" /\ toStop'[u] = Reverse(childs[t]))
  BY DEF TypeOK
<1>4. ASSUME NEW u \in Threads
      PROVE  /\ pc'[u] # "exit" => toStop'[u] = <<>>
             /\ ToSet(toStop'[u]) \subseteq ToSet(childs[u])
  BY <1>1, <1>2, <1>3 DEF Core, Tree, Childless
<1> QED
  BY <1>4, Moved DEF Core

(* Every step keeps the invariant.                                         *)
LEMMA CoreNext ==
    ASSUME ~SlowInit, TypeOK, Core, [Next]_vars
    PROVE  Core'
<1>0. Tree /\ Events
  BY DEF Core
<1>1. CASE UNCHANGED vars
  <2>1. /\ obj' = obj /\ pc' = pc /\ back' = back /\ target' = target /\ childs' = childs
        /\ parent' = parent /\ initResult' = initResult /\ sem' = sem /\ param' = param
        /\ toStop' = toStop /\ queue' = queue
    BY <1>1 DEF vars
  <2>2. Tree'
    BY <1>0, <2>1, Still DEF Tree, Childless
  <2>3. Events'
    BY <1>0, <2>1 DEF Events, Told, Awaited, Ending
  <2> QED
    BY <2>2, <2>3 DEF Core
<1>2. CASE Next
  <2>1. PICK t \in Threads : Step(t) \/ UserStep(t)
    BY <1>2 DEF Next
  <2>2. ASSUME childs' = childs,
               \A u \in Threads : \/ queue'[u] \in {queue[u], <<>>}
                                   \/ (queue[u] # <<>> /\ queue'[u] = Tail(queue[u])),
               \A c \in Threads : pc[c] = "dead" /\ initResult[c]
                                     => pc'[c] = "dead" /\ initResult'[c],
               \A u \in Threads : Ending(u) => Ending(u)'
        PROVE  Events'
    BY <1>0, <2>2, QuietEvents
  <2>10. CASE \E c \in Threads \ {App} : New(t, c)
    <3>1. PICK c \in Threads \ {App} : New(t, c)
      BY <2>10
    <3>t. Tree'
      BY <1>0, <3>1, NewTree
    <3>e. Events'
      BY <3>1, NewEvents
    <3> QED
      BY <3>t, <3>e DEF Core
  <2>11. CASE \E c \in Threads \ {App} : Start(t, c)
    <3>1. PICK c \in Threads \ {App} : Start(t, c)
      BY <2>11
    <3>t. Tree'
      BY <1>0, <3>1, StartTree
    <3>2. \A u \in Threads : pc'[u] = pc[u] \/ pc[u] \in {"unborn", "init", "handler"}
      BY <3>1 DEF Start, InUserCode, TypeOK
    <3>e. Events'
      BY <2>2, <3>1, <3>2 DEF Start, treeVars, queueVars, Ending
    <3> QED
      BY <3>t, <3>e DEF Core
  <2>12. CASE \E c \in Threads \ {App} : DeleteFailed(t, c)
    <3>1. PICK c \in Threads \ {App} : DeleteFailed(t, c)
      BY <2>12
    <3>t. Tree'
      BY <1>0, <3>1, DeleteTree
    <3>e. Events'
      BY <2>2, <3>1 DEF DeleteFailed, startVars, queueVars, Ending
    <3> QED
      BY <3>t, <3>e DEF Core
  <2>13. CASE StartWaited(t) \/ StartJoined(t)
    <3>1. target[t] \in Threads /\ target[t] # App
      BY <1>0, <2>13, ThreadsAssumption DEF StartWaited, StartJoined, Tree, Joins, Targets, TypeOK
    <3>2. pc[t] \in {"starting", "joinStart"} /\ ~Opening(target[t])
      <4>1. sem[target[t]] \/ pc[target[t]] = "dead"
        BY <2>13 DEF StartWaited, StartJoined
      <4>2. ~Opening(target[t])
        BY <1>0, <3>1, <4>1 DEF Tree, Opened, Opening, Ended
      <4> QED
        BY <4>2, <2>13 DEF StartWaited, StartJoined
    <3>3. PICK w \in {back[t], "joinStart"} : pc' = [pc EXCEPT ![t] = w]
      BY <2>13 DEF StartWaited, StartJoined, Goto
    <3>4. /\ obj' = obj /\ back' = back /\ target' = target /\ childs' = childs
          /\ parent' = parent /\ initResult' = initResult /\ sem' = sem
          /\ toStop' = toStop /\ queue' = queue
      BY <2>13 DEF StartWaited, StartJoined, treeVars, queueVars
    <3>5. \A c \in Threads : param'[c] = param[c] \/ c = target[t]
      BY <2>13 DEF StartWaited, StartJoined, TypeOK
    <3>t. Tree'
      BY <1>0, <3>2, <3>3, <3>4, <3>5, ReturnsTree
    <3>6. \A u \in Threads : pc'[u] = pc[u] \/ pc[u] \in {"starting", "joinStart"}
      BY <3>2, <3>3 DEF TypeOK
    <3>e. Events'
      BY <2>2, <3>4, <3>6 DEF Ending
    <3> QED
      BY <3>t, <3>e DEF Core
  <2>14. CASE HandlerDone(t)
    <3>1. /\ pc' = [pc EXCEPT ![t] = "run"]
          /\ obj' = obj /\ back' = back /\ target' = target /\ childs' = childs
          /\ parent' = parent /\ initResult' = initResult /\ sem' = sem
          /\ param' = param
      BY <2>14 DEF HandlerDone, Goto, treeVars, startVars, queueVars
    <3>t. Tree'
      BY <3>1, <2>14, MovedCore DEF HandlerDone, Waits, PCs
    <3>2. \A u \in Threads : \/ queue'[u] \in {queue[u], <<>>}
                              \/ (queue[u] # <<>> /\ queue'[u] = Tail(queue[u]))
      BY <2>14 DEF HandlerDone, queueVars, TypeOK
    <3>3. \A u \in Threads : pc'[u] = pc[u] \/ (u = t /\ pc'[u] = "run")
      BY <3>1 DEF TypeOK
    <3>e. Events'
      BY <2>2, <3>1, <3>2, <3>3, <2>14 DEF HandlerDone, Ending
    <3> QED
      BY <3>t, <3>e DEF Core
  <2>15. CASE EnterRun(t)
    <3>1. /\ pc' = [pc EXCEPT ![t] = "run"]
          /\ obj' = obj /\ back' = back /\ target' = target /\ childs' = childs
          /\ parent' = parent /\ initResult' = initResult /\ sem' = sem
          /\ param' = param
      BY <2>15 DEF EnterRun, Goto, treeVars, startVars, queueVars
    <3>t. Tree'
      BY <3>1, <2>15, MovedCore DEF EnterRun, Waits, PCs
    <3>2. \A u \in Threads : \/ queue'[u] \in {queue[u], <<>>}
                              \/ (queue[u] # <<>> /\ queue'[u] = Tail(queue[u]))
      BY <2>15 DEF EnterRun, queueVars, TypeOK
    <3>3. \A u \in Threads : pc'[u] = pc[u] \/ (u = t /\ pc'[u] = "run")
      BY <3>1 DEF TypeOK
    <3>e. Events'
      BY <2>2, <3>1, <3>2, <3>3, <2>15 DEF EnterRun, Ending
    <3> QED
      BY <3>t, <3>e DEF Core
  <2>16. CASE UserEvent(t)
    <3>1. /\ pc' = [pc EXCEPT ![t] = "handler"]
          /\ obj' = obj /\ back' = back /\ target' = target /\ childs' = childs
          /\ parent' = parent /\ initResult' = initResult /\ sem' = sem
          /\ param' = param
      BY <2>16 DEF UserEvent, Goto, treeVars, startVars, queueVars
    <3>t. Tree'
      BY <3>1, <2>16, MovedCore DEF UserEvent, Waits, PCs
    <3>2. \A u \in Threads : \/ queue'[u] \in {queue[u], <<>>}
                              \/ (queue[u] # <<>> /\ queue'[u] = Tail(queue[u]))
      BY <2>16 DEF UserEvent, queueVars, TypeOK
    <3>3. \A u \in Threads : pc'[u] = pc[u] \/ (u = t /\ pc'[u] = "handler")
      BY <3>1 DEF TypeOK
    <3>e. Events'
      BY <2>2, <3>1, <3>2, <3>3, <2>16 DEF UserEvent, Ending
    <3> QED
      BY <3>t, <3>e DEF Core
  <2>17. CASE TakeStop(t)
    <3>1. /\ pc' = [pc EXCEPT ![t] = "exit"]
          /\ obj' = obj /\ back' = back /\ target' = target /\ childs' = childs
          /\ parent' = parent /\ initResult' = initResult /\ sem' = sem
          /\ param' = param
      BY <2>17 DEF TakeStop, LeaveLoop, Goto, treeVars, startVars, queueVars
    <3>t. Tree'
      BY <3>1, <2>17, MovedCore DEF TakeStop, LeaveLoop, Waits, PCs
    <3>2. \A u \in Threads : \/ queue'[u] \in {queue[u], <<>>}
                              \/ (queue[u] # <<>> /\ queue'[u] = Tail(queue[u]))
      BY <2>17 DEF TakeStop, LeaveLoop, queueVars, TypeOK
    <3>3. \A u \in Threads : pc'[u] = pc[u] \/ (u = t /\ pc'[u] = "exit")
      BY <3>1 DEF TypeOK
    <3>e. Events'
      BY <2>2, <3>1, <3>2, <3>3, <2>17 DEF TakeStop, LeaveLoop, Ending
    <3> QED
      BY <3>t, <3>e DEF Core
  <2>18. CASE LoopFails(t)
    <3>1. /\ pc' = [pc EXCEPT ![t] = "exit"]
          /\ obj' = obj /\ back' = back /\ target' = target /\ childs' = childs
          /\ parent' = parent /\ initResult' = initResult /\ sem' = sem
          /\ param' = param
      BY <2>18 DEF LoopFails, LeaveLoop, Goto, treeVars, startVars, queueVars
    <3>t. Tree'
      BY <3>1, <2>18, MovedCore DEF LoopFails, LeaveLoop, Waits, PCs
    <3>2. \A u \in Threads : \/ queue'[u] \in {queue[u], <<>>}
                              \/ (queue[u] # <<>> /\ queue'[u] = Tail(queue[u]))
      BY <2>18 DEF LoopFails, LeaveLoop, queueVars, TypeOK
    <3>3. \A u \in Threads : pc'[u] = pc[u] \/ (u = t /\ pc'[u] = "exit")
      BY <3>1 DEF TypeOK
    <3>e. Events'
      BY <2>2, <3>1, <3>2, <3>3, <2>18 DEF LoopFails, LeaveLoop, Ending
    <3> QED
      BY <3>t, <3>e DEF Core
  <2>19. CASE ExitStopped(t)
    <3>1. /\ pc' = [pc EXCEPT ![t] = "exitReap"]
          /\ obj' = obj /\ back' = back /\ target' = target /\ childs' = childs
          /\ parent' = parent /\ initResult' = initResult /\ sem' = sem
          /\ param' = param
      BY <2>19 DEF ExitStopped, Goto, treeVars, startVars, queueVars
    <3>t. Tree'
      BY <3>1, <2>19, MovedCore DEF ExitStopped, Waits, PCs
    <3>2. \A u \in Threads : \/ queue'[u] \in {queue[u], <<>>}
                              \/ (queue[u] # <<>> /\ queue'[u] = Tail(queue[u]))
      BY <2>19 DEF ExitStopped, queueVars, TypeOK
    <3>3. \A u \in Threads : pc'[u] = pc[u] \/ (u = t /\ pc'[u] = "exitReap")
      BY <3>1 DEF TypeOK
    <3>e. Events'
      BY <2>2, <3>1, <3>2, <3>3, <2>19 DEF ExitStopped, Ending
    <3> QED
      BY <3>t, <3>e DEF Core
  <2>20. CASE ExitReaped(t)
    <3>1. /\ pc' = [pc EXCEPT ![t] = "loopExit"]
          /\ obj' = obj /\ back' = back /\ target' = target /\ childs' = childs
          /\ parent' = parent /\ initResult' = initResult /\ sem' = sem
          /\ param' = param
      BY <2>20 DEF ExitReaped, Goto, treeVars, startVars, queueVars
    <3>t. Tree'
      BY <3>1, <2>20, MovedCore DEF ExitReaped, Waits, PCs
    <3>2. \A u \in Threads : \/ queue'[u] \in {queue[u], <<>>}
                              \/ (queue[u] # <<>> /\ queue'[u] = Tail(queue[u]))
      BY <2>20 DEF ExitReaped, queueVars, TypeOK
    <3>3. \A u \in Threads : pc'[u] = pc[u] \/ (u = t /\ pc'[u] = "loopExit")
      BY <3>1 DEF TypeOK
    <3>e. Events'
      BY <2>2, <3>1, <3>2, <3>3, <2>20 DEF ExitReaped, Ending
    <3> QED
      BY <3>t, <3>e DEF Core
  <2>21. CASE InitReturns(t, TRUE) /\ t # App
    <3>t. Tree'
      BY <1>0, <2>21, UpTree
    <3>1. /\ childs' = childs /\ queue' = queue
          /\ \A u \in Threads : \/ (pc'[u] = pc[u] /\ initResult'[u] = initResult[u])
                                \/ pc[u] = "init"
      BY <2>21 DEF InitReturns, Goto, treeVars, queueVars, TypeOK
    <3>e. Events'
      BY <2>2, <3>1 DEF Ending
    <3> QED
      BY <3>t, <3>e DEF Core
  <2>22. CASE (InitReturns(t, TRUE) /\ t = App) \/ InitReturns(t, FALSE)
    <3>0. pc[t] = "init" /\ ~initResult[t]
      BY <1>0, <2>22 DEF InitReturns, Tree, Stages
    <3>1. PICK b \in {"enterRun", "exit"} :
             /\ pc' = [pc EXCEPT ![t] = b]
             /\ toStop' = toStop
                \/ (b = "exit" /\ toStop' = [toStop EXCEPT ![t] = Reverse(childs[t])])
      BY <2>22 DEF InitReturns, Goto
    <3>2. initResult' = initResult
      BY <3>0, <2>22 DEF InitReturns, TypeOK
    <3>3. /\ obj' = obj /\ back' = back /\ target' = target /\ childs' = childs
          /\ parent' = parent /\ sem' = sem /\ param' = param /\ queue' = queue
      BY <2>22 DEF InitReturns, treeVars, queueVars
    <3>t. Tree'
      BY <3>0, <3>1, <3>2, <3>3, MovedCore DEF Waits, PCs
    <3>4. \A u \in Threads : pc'[u] = pc[u] \/ pc[u] = "init"
      BY <3>0, <3>1 DEF TypeOK
    <3>e. Events'
      BY <2>2, <3>2, <3>3, <3>4 DEF Ending
    <3> QED
      BY <3>t, <3>e DEF Core
  <2>23. CASE SemPost(t)
    <3>t. Tree'
      BY <1>0, <2>23, PostTree
    <3>1. /\ childs' = childs /\ queue' = queue /\ initResult' = initResult
          /\ \A u \in Threads : \/ pc'[u] = pc[u] \/ pc[u] = "initDone"
                                \/ (pc[u] = "failPost" /\ pc'[u] = "dead")
      BY <2>23 DEF SemPost, Goto, treeVars, queueVars, TypeOK
    <3>e. Events'
      BY <2>2, <3>1 DEF Ending
    <3> QED
      BY <3>t, <3>e DEF Core
  <2>24. CASE TakeFinished(t)
    <3> DEFINE c == Head(queue[t]).child
    <3>1. c \in Awaited(t) /\ pc[t] = "run"
      BY <1>0, <2>24, ToldTail DEF TakeFinished, Events, TypeOK
    <3>2. c \in Threads /\ pc[c] = "dead" /\ c \in ToSet(childs[t])
      BY <3>1 DEF Awaited, Ending
    <3>3. /\ pc' = [pc EXCEPT ![t] = "reap"] /\ target' = [target EXCEPT ![t] = c]
          /\ childs' = [childs EXCEPT ![t] = RemoveFirst(childs[t], c)]
          /\ obj' = obj /\ back' = back /\ parent' = parent /\ initResult' = initResult
          /\ sem' = sem /\ param' = param /\ toStop' = toStop
      BY <2>24 DEF TakeFinished, Goto, startVars
    <3> HIDE DEF c
    <3>4. Once(RemoveFirst(childs[t], c))
          /\ ToSet(RemoveFirst(childs[t], c)) = ToSet(childs[t]) \ {c}
      BY <1>0, RemovedIs DEF Tree, Family, TypeOK
    <3>t. Tree'
      BY <1>0, <3>1, <3>2, <3>3, <3>4, TakenTree
    <3>e. Events'
      BY <2>24, TakeFinishedEvents
    <3> QED
      BY <3>t, <3>e DEF Core
  <2>25. CASE ExitTakeChild(t)
    <3> DEFINE c == Last(childs[t])
    <3>1. /\ Once(Front(childs[t])) /\ c \in ToSet(childs[t])
          /\ ToSet(Front(childs[t])) = ToSet(childs[t]) \ {c}
      BY <1>0, <2>25, FrontIs DEF ExitTakeChild, Tree, Family, TypeOK
    <3>2. c \in Threads
      BY <3>1, ToSetIs DEF TypeOK
    <3>3. /\ pc' = [pc EXCEPT ![t] = "exitJoin"] /\ target' = [target EXCEPT ![t] = c]
          /\ childs' = [childs EXCEPT ![t] = Front(childs[t])] /\ pc[t] = "exitReap"
          /\ obj' = obj /\ back' = back /\ parent' = parent /\ initResult' = initResult
          /\ sem' = sem /\ param' = param /\ toStop' = toStop
      BY <2>25 DEF ExitTakeChild, Goto, startVars
    <3> HIDE DEF c
    <3>t. Tree'
      BY <1>0, <3>1, <3>2, <3>3, TakenTree
    <3>e. Events'
      BY <2>25, TakeChildEvents
    <3> QED
      BY <3>t, <3>e DEF Core
  <2>26. CASE ReapFinished(t) \/ ExitReapChild(t)
    <3>1. PICK b \in {"run", "exitReap"} :
             Reap(t, b) /\ (pc[t] = "reap" \/ (pc[t] = "exitJoin" /\ b = "exitReap"))
      BY <2>26 DEF ReapFinished, ExitReapChild
    <3>t. Tree'
      BY <1>0, <3>1, ReapTree
    <3>2. /\ childs' = childs /\ queue' = queue /\ initResult' = initResult
          /\ \A u \in Threads : \/ pc'[u] = pc[u] \/ pc[u] = "reap"
                                \/ (pc[u] = "exitJoin" /\ pc'[u] = "exitReap")
      BY <3>1 DEF Reap, Goto, startVars, queueVars, TypeOK
    <3>e. Events'
      BY <2>2, <3>2 DEF Ending
    <3> QED
      BY <3>t, <3>e DEF Core
  <2>27. CASE StopThread(t)
    <3>1. /\ obj' = obj /\ pc' = pc /\ back' = back /\ target' = target /\ childs' = childs
          /\ parent' = parent /\ initResult' = initResult /\ sem' = sem /\ param' = param
          /\ toStop' = toStop /\ Push(t, Stop)
      BY <2>27 DEF StopThread, treeVars, startVars
    <3>t. Tree'
      BY <1>0, <3>1, Still DEF Tree, Childless
    <3>e. Events'
      BY <1>0, <3>1, PushStopTold
    <3> QED
      BY <3>t, <3>e DEF Core
  <2>28. CASE ExitStopChild(t)
    <3>1. /\ obj' = obj /\ pc' = pc /\ back' = back /\ target' = target /\ childs' = childs
          /\ parent' = parent /\ initResult' = initResult /\ sem' = sem /\ param' = param
          /\ Push(Head(toStop[t]), Stop)
      BY <2>28 DEF ExitStopChild, treeVars, startVars
    <3>2. ToSet(Tail(toStop[t])) \subseteq ToSet(toStop[t])
      BY <2>28, TailIs DEF ExitStopChild, TypeOK
    <3>3. \A u \in Threads : \/ toStop'[u] = toStop[u]
                              \/ (u = t /\ pc[u] = "exit" /\ toStop'[u] = Tail(toStop[t]))
      BY <2>28 DEF ExitStopChild, TypeOK
    <3>t. Tree'
      <4>1. ASSUME NEW u \in Threads
            PROVE  /\ pc[u] # "exit" => toStop'[u] = <<>>
                   /\ ToSet(toStop'[u]) \subseteq ToSet(childs[u])
        BY <1>0, <3>2, <3>3 DEF Tree, Childless
      <4> QED
        BY <1>0, <3>1, <4>1, Still
    <3>e. Events'
      BY <1>0, <3>1, PushStopTold
    <3> QED
      BY <3>t, <3>e DEF Core
  <2>29. CASE LoopExit(t)
    <3>0. /\ pc[t] = "loopExit" /\ childs[t] = <<>>
          /\ parent[t] = NoThread => initResult[t] \/ t = App
      BY <1>0, <2>29 DEF LoopExit, Tree, Childless, Stages, Ended
    <3>1. /\ pc' = [pc EXCEPT ![t] = (IF parent[t] = NoThread THEN "dead" ELSE "notify")]
          /\ obj' = obj /\ back' = back /\ target' = target /\ childs' = childs
          /\ parent' = parent /\ initResult' = initResult /\ sem' = sem
          /\ param' = param
      BY <2>29 DEF LoopExit, Goto, treeVars, startVars, queueVars
    <3>t. Tree'
      BY <3>1, <2>29, <3>0, MovedCore DEF LoopExit, Waits, PCs
    <3>2. \A u \in Threads : \/ queue'[u] \in {queue[u], <<>>}
                              \/ (queue[u] # <<>> /\ queue'[u] = Tail(queue[u]))
      BY <2>29 DEF LoopExit, queueVars, TypeOK
    <3>3. \A u \in Threads : pc'[u] = pc[u] \/ (u = t /\ pc'[u] = (IF parent[t] = NoThread THEN "dead" ELSE "notify"))
      BY <3>1 DEF TypeOK
    <3>e. Events'
      BY <2>2, <3>1, <3>2, <3>3, <2>29 DEF LoopExit, Ending
    <3> QED
      BY <3>t, <3>e DEF Core
  <2>30. CASE NotifyParent(t)
    <3>0. pc[t] = "notify" /\ childs[t] = <<>> /\ parent[t] # NoThread /\ initResult[t]
      BY <1>0, <2>30 DEF NotifyParent, Tree, Childless, Stages
    <3>1. /\ pc' = [pc EXCEPT ![t] = (IF status[parent[t]] = "Exit" THEN "dead" ELSE "notifyPost")]
          /\ obj' = obj /\ back' = back /\ target' = target /\ childs' = childs
          /\ parent' = parent /\ initResult' = initResult /\ sem' = sem
          /\ param' = param
      BY <2>30 DEF NotifyParent, Goto, treeVars, startVars, queueVars
    <3>t. Tree'
      BY <3>1, <2>30, <3>0, MovedCore DEF NotifyParent, Waits, PCs
    <3>2. \A u \in Threads : \/ queue'[u] \in {queue[u], <<>>}
                              \/ (queue[u] # <<>> /\ queue'[u] = Tail(queue[u]))
      BY <2>30 DEF NotifyParent, queueVars, TypeOK
    <3>3. \A u \in Threads : pc'[u] = pc[u] \/ (u = t /\ pc'[u] = (IF status[parent[t]] = "Exit" THEN "dead" ELSE "notifyPost"))
      BY <3>1 DEF TypeOK
    <3>e. Events'
      BY <2>2, <3>1, <3>2, <3>3, <2>30 DEF NotifyParent, Ending
    <3> QED
      BY <3>t, <3>e DEF Core
  <2>31. CASE NotifyPost(t)
    <3>0. pc[t] = "notifyPost" /\ childs[t] = <<>> /\ initResult[t]
      BY <1>0, <2>31 DEF NotifyPost, Tree, Childless, Stages
    <3>1. /\ pc' = [pc EXCEPT ![t] = "dead"]
          /\ obj' = obj /\ back' = back /\ target' = target /\ childs' = childs
          /\ parent' = parent /\ initResult' = initResult /\ sem' = sem
          /\ param' = param /\ toStop' = toStop
      BY <2>31 DEF NotifyPost, Goto, treeVars, startVars
    <3>t. Tree'
      BY <3>0, <3>1, MovedCore DEF Waits, PCs
    <3>e. Events'
      BY <2>31, NotifyEvents
    <3> QED
      BY <3>t, <3>e DEF Core
  <2>32. CASE LeaveParent(t)
    <3>t. Tree'
      BY <1>0, <2>32, LeaveTree
    <3>e. Events'
      BY <2>32, LeaveEvents
    <3> QED
      BY <3>t, <3>e DEF Core
  <2> QED
    BY <2>1, <2>10, <2>11, <2>12, <2>13, <2>14, <2>15, <2>16, <2>17, <2>18,
       <2>19, <2>20, <2>21, <2>22, <2>23, <2>24, <2>25, <2>26, <2>27, <2>28,
       <2>29, <2>30, <2>31, <2>32
       DEF Step, UserStep
<1> QED
  BY <1>1, <1>2

(* No thread uses what another has deleted: neither the children it stops, *)
(* joins or hears of, nor its parent, nor the semaphore on the stack of    *)
(* start().  An onInit that outlasts the wait in start() is excluded; with *)
(* one the statement is not true.                                          *)
THEOREM NothingUsedAfterFree == ASSUME ~SlowInit PROVE Spec => []NoUseAfterFree
<1>1. Init => IInv
  BY InitInv
<1>2. IInv /\ [Next]_vars => IInv'
  BY TypeNext, CoreNext DEF IInv
<1>3. IInv => NoUseAfterFree
  BY IInvMeans
<1> QED
  BY <1>1, <1>2, <1>3, PTL DEF Spec
=============================================================================
