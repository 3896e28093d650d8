------------------------ MODULE TcpServerWorkerProofs ------------------------
(***************************************************************************)
(* Proofs about module TcpServerWorker, for any set of connections, any    *)
(* pool and any limit: every connection has one owner, is closed by a      *)
(* thread that may close it, and the pool is dealt out evenly.             *)
(***************************************************************************)
EXTENDS TcpServerWorker, TLAPS, SequenceTheorems, FiniteSetTheorems

-----------------------------------------------------------------------------
(* Facts about lists.                                                      *)

(* A list of channels is without repetition when no two places agree.      *)
LEMMA InjectiveSeq ==
    ASSUME NEW S, NEW s \in Seq(S)
    PROVE  IsInjective(s) <=> \A i, j \in 1..Len(s) : s[i] = s[j] => i = j
  BY LenProperties DEF IsInjective

(* What taking the head off a list without repetition leaves in it.        *)
LEMMA HoldsTail ==
    ASSUME NEW S, NEW s \in Seq(S), s # <<>>,
           \A i, j \in 1..Len(s) : s[i] = s[j] => i = j
    PROVE  /\ \A c : Holds(Tail(s), c) <=> Holds(s, c) /\ c # Head(s)
           /\ \A i, j \in 1..Len(Tail(s)) : Tail(s)[i] = Tail(s)[j] => i = j
           /\ Holds(s, Head(s))
<1>1. /\ Len(s) \in Nat \ {0} /\ Head(s) = s[1] /\ Len(Tail(s)) = Len(s) - 1
      /\ \A i \in 1..Len(Tail(s)) : Tail(s)[i] = s[i + 1]
  BY EmptySeq, HeadTailProperties
<1>2. ASSUME NEW c, Holds(Tail(s), c) PROVE Holds(s, c) /\ c # Head(s)
  BY <1>1, <1>2 DEF Holds
<1>3. ASSUME NEW c, Holds(s, c), c # Head(s) PROVE Holds(Tail(s), c)
  <2>1. PICK i \in 1..Len(s) : s[i] = c
    BY <1>3 DEF Holds
  <2>2. i # 1 /\ i - 1 \in 1..Len(Tail(s)) /\ Tail(s)[i - 1] = c
    BY <1>1, <1>3, <2>1
  <2> QED
    BY <2>2 DEF Holds
<1>4. \A i, j \in 1..Len(Tail(s)) : Tail(s)[i] = Tail(s)[j] => i = j
  BY <1>1
<1>5. Holds(s, Head(s))
  BY <1>1 DEF Holds
<1> QED
  BY <1>2, <1>3, <1>4, <1>5

(* What a list holds with one element more, and when it is still without   *)
(* repetition.                                                             *)
LEMMA HoldsAppend ==
    ASSUME NEW S, NEW s \in Seq(S), NEW x \in S
    PROVE  /\ \A c : Holds(Append(s, x), c) <=> Holds(s, c) \/ c = x
           /\ (/\ \A i, j \in 1..Len(s) : s[i] = s[j] => i = j
               /\ ~Holds(s, x))
              => \A i, j \in 1..Len(Append(s, x)) :
                    Append(s, x)[i] = Append(s, x)[j] => i = j
<1>1. /\ Len(s) \in Nat /\ Len(Append(s, x)) = Len(s) + 1
      /\ \A i \in 1..Len(s) : Append(s, x)[i] = s[i]
      /\ Append(s, x)[Len(s) + 1] = x
  BY LenProperties, AppendProperties
<1> QED
  BY <1>1 DEF Holds

(* The lists before the server: the one at hand, then those of the tasks.  *)
LEMMA WaitingIs ==
    ASSUME NEW b \in Seq(Channels), NEW t \in Seq(Seq(Channels))
    PROVE  /\ <<b>> \o t \in Seq(Seq(Channels))
           /\ Len(<<b>> \o t) = Len(t) + 1 /\ Len(t) \in Nat
           /\ (<<b>> \o t)[1] = b
           /\ \A k \in 1..Len(t) : (<<b>> \o t)[k + 1] = t[k]
           /\ \A k \in 2..(Len(t) + 1) : (<<b>> \o t)[k] = t[k - 1]
<1>1. <<b>> \in Seq(Seq(Channels)) /\ Len(<<b>>) = 1 /\ <<b>>[1] = b
  OBVIOUS
<1>2. Len(t) \in Nat
  BY LenProperties
<1>3. /\ <<b>> \o t \in Seq(Seq(Channels))
      /\ Len(<<b>> \o t) = 1 + Len(t)
      /\ \A i \in 1..(1 + Len(t)) :
            (<<b>> \o t)[i] = IF i <= 1 THEN <<b>>[i] ELSE t[i - 1]
  BY <1>1, ConcatProperties
<1> QED
  BY <1>1, <1>2, <1>3

-----------------------------------------------------------------------------
(* The inductive invariant.                                                *)

(* While nextWorker looks for a worker there is a connection to place and  *)
(* a pool to look in, and both indices stay in the pool.                   *)
ScanShape ==
    /\ scanning => batch # <<>> /\ size > 0
    /\ workerIndex \in -1..(size - 1)
    /\ startIndex \in -1..(size - 1)

Held(c) == \E k \in 1..Len(Waiting) : Holds(Waiting[k], c)

WaitsOnce ==
    \A k, l \in 1..Len(Waiting) :
       \A i \in 1..Len(Waiting[k]), j \in 1..Len(Waiting[l]) :
          Waiting[k][i] = Waiting[l][j] => k = l /\ i = j

(* The round of nextWorker has given this worker its connection already.   *)
Lap(w) == IF w <= workerIndex THEN 1 ELSE 0

(* As long as no worker was ever full or stopped, and the server is open,  *)
(* the workers of this round have one connection more than the others.     *)
Balanced ==
    Untroubled =>
        /\ \A v, w \in Pool : Assigned(v) <= Assigned(w) + 1
        /\ scanning => workerIndex = startIndex
        /\ listening =>
              \A v, w \in Pool : Assigned(v) - Lap(v) = Assigned(w) - Lap(w)

IInv == TypeOK /\ ScanShape /\ OneOwner /\ Balanced

-----------------------------------------------------------------------------
(* Type correctness.                                                       *)

LEMMA InitTyped == Init => TypeOK /\ ScanShape
<1> SUFFICES ASSUME Init PROVE TypeOK /\ ScanShape
  OBVIOUS
<1>1. MaxWorkers \in Nat /\ MaxOwn \in Nat /\ size \in 0..MaxWorkers
  BY PoolAssumption DEF Init
<1>2. TypeOK
  <2>1. -1 \in -1..(MaxWorkers - 1) /\ 0 \in 0..MaxOwn
    BY <1>1
  <2>2. <<>> \in Seq(Channels) /\ <<>> \in Seq(Seq(Channels))
    OBVIOUS
  <2>3. /\ place \in [Channels -> {"client", "server", "inbox", "open", "closed"}]
        /\ netWorker \in [Channels -> WorkerIds \cup {None, Server}]
        /\ life \in [WorkerIds -> {"running", "stopping", "ended", "deleted"}]
    BY DEF Init
  <2>4. inbox \in [WorkerIds -> Seq(Channels)] /\ own \in [WorkerIds -> 0..MaxOwn]
    BY <2>1, <2>2 DEF Init
  <2>5. /\ scanning \in BOOLEAN /\ listening \in BOOLEAN
        /\ keeps \in BOOLEAN /\ wild \in BOOLEAN
    BY DEF Init
  <2> QED
    BY <1>1, <2>1, <2>2, <2>3, <2>4, <2>5 DEF Init, TypeOK
<1>3. ScanShape
  BY <1>1 DEF Init, ScanShape
<1> QED
  BY <1>2, <1>3

(* Every index nextWorker moves on to is one of the pool.                  *)
LEMMA FollowingInPool ==
    ASSUME TypeOK, ScanShape, size > 0
    PROVE  Following(workerIndex) \in Pool /\ Pool \subseteq WorkerIds
  BY PoolAssumption DEF TypeOK, ScanShape, Following, Pool, WorkerIds

LEMMA NextTyped == TypeOK /\ ScanShape /\ [Next]_vars => TypeOK' /\ ScanShape'
<1> SUFFICES ASSUME TypeOK, ScanShape, [Next]_vars PROVE TypeOK' /\ ScanShape'
  OBVIOUS
<1> USE DEF serverVars, poolVars, workerVars, CloseChannel
<1>0. MaxWorkers \in Nat /\ MaxOwn \in Nat /\ Pool \subseteq WorkerIds
  BY PoolAssumption DEF TypeOK, Pool, WorkerIds
<1>b. ASSUME batch # <<>>
      PROVE  Head(batch) \in Channels /\ Tail(batch) \in Seq(Channels)
  BY <1>b, HeadTailProperties DEF TypeOK
<1>1. ASSUME NEW cs \in Lists, OnAccept(cs) PROVE TypeOK' /\ ScanShape'
  <2>1. cs \in Seq(Channels)
    BY DEF Lists
  <2>2. tasks' \in Seq(Seq(Channels))
    BY <1>1, <2>1, AppendProperties DEF OnAccept, TypeOK
  <2>3. place' \in [Channels -> {"client", "server", "inbox", "open", "closed"}]
    BY <1>1 DEF OnAccept, TypeOK
  <2> QED
    BY <1>1, <2>2, <2>3 DEF OnAccept, TypeOK, ScanShape
<1>2. CASE Close
  BY <1>2 DEF Close, TypeOK, ScanShape
<1>3. CASE RunTask
  <2>1. batch' \in Seq(Channels) /\ tasks' \in Seq(Seq(Channels))
    BY <1>3, HeadTailProperties DEF RunTask, TypeOK
  <2>2. ~scanning
    BY <1>3 DEF RunTask, Idle, ScanShape
  <2> QED
    BY <1>3, <2>1, <2>2 DEF RunTask, TypeOK, ScanShape
<1>s. ASSUME scanning, workerIndex' = Following(workerIndex)
      PROVE  /\ workerIndex' \in Pool /\ workerIndex' \in WorkerIds
             /\ workerIndex' \in -1..(size - 1) /\ workerIndex' \in -1..(MaxWorkers - 1)
  <2>1. size > 0
    BY <1>s DEF ScanShape
  <2>2. workerIndex' \in Pool /\ workerIndex' \in WorkerIds
    BY <1>s, <2>1, FollowingInPool
  <2> QED
    BY <1>0, <2>2 DEF Pool, WorkerIds, TypeOK
<1>4. CASE NextWorker
  <2>1. CASE size = 0
    BY <1>4, <1>b, <2>1 DEF NextWorker, TypeOK, ScanShape
  <2>2. CASE size # 0
    <3>1. size > 0
      BY <2>2 DEF TypeOK
    <3> QED
      BY <1>4, <2>2, <3>1 DEF NextWorker, TypeOK, ScanShape
  <2> QED
    BY <2>1, <2>2
<1>5. CASE ScanFull
  BY <1>5, <1>s DEF ScanFull, Looks, TypeOK, ScanShape
<1>d. CASE ScanDangles
  BY <1>d, <1>s DEF ScanDangles, Looks, TypeOK, ScanShape
<1>6. CASE ScanGivesUp
  <2>1. batch # <<>> /\ workerIndex' \in -1..(size - 1) /\ workerIndex' \in -1..(MaxWorkers - 1)
    BY <1>6, <1>s DEF ScanGivesUp, ScanShape
  <2> QED
    BY <1>6, <1>b, <2>1 DEF ScanGivesUp, TypeOK, ScanShape
<1>7. CASE ScanFinds
  <2>1. /\ batch # <<>> /\ workerIndex' \in Pool /\ workerIndex' \in WorkerIds
        /\ workerIndex' \in -1..(size - 1) /\ workerIndex' \in -1..(MaxWorkers - 1)
    BY <1>7, <1>s DEF ScanFinds, Looks, ScanShape
  <2>2. batch' \in Seq(Channels) /\ Head(batch) \in Channels
    BY <1>7, <1>b, <2>1 DEF ScanFinds
  <2>3. /\ netWorker' \in [Channels -> WorkerIds \cup {None, Server}]
        /\ place' \in [Channels -> {"client", "server", "inbox", "open", "closed"}]
        /\ inbox' \in [WorkerIds -> Seq(Channels)]
    <3>1. Accept(workerIndex', Head(batch))
      BY <1>7 DEF ScanFinds
    <3>2. Append(inbox[workerIndex'], Head(batch)) \in Seq(Channels)
      BY <2>1, <2>2, AppendProperties DEF TypeOK
    <3> QED
      BY <2>1, <2>2, <3>1, <3>2 DEF Accept, TypeOK
  <2> QED
    BY <1>7, <2>1, <2>2, <2>3 DEF ScanFinds, TypeOK, ScanShape
<1>8. ASSUME NEW w \in Pool, NEW r \in BOOLEAN, TakeAccept(w, r)
      PROVE  TypeOK' /\ ScanShape'
  <2>1. w \in WorkerIds /\ inbox[w] \in Seq(Channels) /\ inbox[w] # <<>>
    BY <1>0, <1>8 DEF TypeOK, TakeAccept
  <2>2. Head(inbox[w]) \in Channels /\ Tail(inbox[w]) \in Seq(Channels)
    BY <2>1, HeadTailProperties
  <2> QED
    BY <1>8, <2>1, <2>2 DEF TakeAccept, TypeOK, ScanShape
<1>9. ASSUME NEW w \in Pool, NEW c \in Channels, ChannelCloses(w, c)
      PROVE  TypeOK' /\ ScanShape'
  BY <1>9 DEF ChannelCloses, TypeOK, ScanShape
<1>10. ASSUME NEW w \in Pool, NEW n \in 0..MaxOwn, OwnSocket(w, n)
       PROVE  TypeOK' /\ ScanShape'
  BY <1>10, <1>0 DEF OwnSocket, TypeOK, ScanShape
<1>11. ASSUME NEW w \in Pool, StopWorker(w) PROVE TypeOK' /\ ScanShape'
  BY <1>11, <1>0 DEF StopWorker, TypeOK, ScanShape
<1>12. ASSUME NEW w \in Pool, WorkerEnds(w) PROVE TypeOK' /\ ScanShape'
  BY <1>12, <1>0 DEF WorkerEnds, TypeOK, ScanShape
<1>13. CASE UNCHANGED vars
  BY <1>13 DEF vars, TypeOK, ScanShape
<1>14. ASSUME NEW w \in Pool, ChildFinished(w) PROVE TypeOK' /\ ScanShape'
  BY <1>14, <1>0 DEF ChildFinished, TypeOK, ScanShape
<1> QED
  BY <1>1, <1>2, <1>3, <1>4, <1>5, <1>6, <1>7, <1>8, <1>9, <1>10, <1>11, <1>12, <1>13,
     <1>14, <1>d
     DEF Next, ServerStep, WorkerStep, EnvStep

-----------------------------------------------------------------------------
(* One owner.                                                              *)

InboxesOnce ==
    \A w \in WorkerIds :
       \A i, j \in 1..Len(inbox[w]) : inbox[w][i] = inbox[w][j] => i = j

(* Where a connection is says who holds it.                                *)
Placed(c) ==
    /\ Held(c) <=> place[c] = "server"
    /\ place[c] \in {"client", "server"} => netWorker[c] = None
    /\ place[c] \in {"inbox", "open"} => netWorker[c] \in Pool
    /\ \A w \in WorkerIds :
          Holds(inbox[w], c) <=> place[c] = "inbox" /\ netWorker[c] = w

LEMMA OneOwnerParts ==
    ASSUME TypeOK
    PROVE  OneOwner <=> WaitsOnce /\ InboxesOnce /\ \A c \in Channels : Placed(c)
<1>1. \A w \in WorkerIds : IsInjective(inbox[w]) <=>
         \A i, j \in 1..Len(inbox[w]) : inbox[w][i] = inbox[w][j] => i = j
  BY InjectiveSeq DEF TypeOK
<1> QED
  BY <1>1 DEF OneOwner, WaitsOnce, InboxesOnce, Placed, Held

(* onAccept adds the list of new connections at the end.                   *)
LEMMA ArriveHeld ==
    ASSUME TypeOK, WaitsOnce, NEW cs \in Seq(Channels),
           \A i, j \in 1..Len(cs) : cs[i] = cs[j] => i = j,
           \A i \in 1..Len(cs) : ~Held(cs[i]),
           tasks' = Append(tasks, cs), batch' = batch
    PROVE  /\ WaitsOnce'
           /\ \A c : Held(c)' <=> Held(c) \/ Holds(cs, c)
<1> DEFINE n == Len(Waiting)
<1>1. /\ n \in Nat /\ Len(Waiting') = n + 1
      /\ \A k \in 1..n : Waiting'[k] = Waiting[k]
      /\ Waiting'[n + 1] = cs
  <2>1. /\ tasks' \in Seq(Seq(Channels)) /\ Len(tasks') = Len(tasks) + 1
        /\ \A k \in 1..Len(tasks) : tasks'[k] = tasks[k]
        /\ tasks'[Len(tasks) + 1] = cs
    BY AppendProperties DEF TypeOK
  <2> QED
    BY <2>1, WaitingIs DEF TypeOK, Waiting
<1>2. \A c : Held(c)' <=> Held(c) \/ Holds(cs, c)
  <2>1. ASSUME NEW c, Held(c)' PROVE Held(c) \/ Holds(cs, c)
    <3>1. PICK k \in 1..(n + 1) : Holds(Waiting'[k], c)
      BY <1>1, <2>1 DEF Held, Holds
    <3>2. CASE k \in 1..n
      BY <1>1, <3>1, <3>2 DEF Held
    <3>3. CASE k = n + 1
      BY <1>1, <3>1, <3>3
    <3> QED
      BY <1>1, <3>2, <3>3
  <2>2. ASSUME NEW c, Held(c) PROVE Held(c)'
    <3>1. PICK k \in 1..n : Holds(Waiting[k], c)
      BY <2>2 DEF Held
    <3>2. k \in 1..Len(Waiting') /\ Holds(Waiting'[k], c)
      BY <1>1, <3>1
    <3> QED
      BY <3>2 DEF Held, Holds
  <2>3. ASSUME NEW c, Holds(cs, c) PROVE Held(c)'
    <3>1. n + 1 \in 1..Len(Waiting') /\ Holds(Waiting'[n + 1], c)
      BY <1>1, <2>3
    <3> QED
      BY <3>1 DEF Held, Holds
  <2> QED
    BY <2>1, <2>2, <2>3
<1>3. ASSUME NEW k \in 1..n, NEW i \in 1..Len(Waiting[k]), NEW j \in 1..Len(cs)
      PROVE  Waiting[k][i] # cs[j]
  BY DEF Held, Holds
<1>4. WaitsOnce'
  <2> SUFFICES ASSUME NEW k \in 1..(n + 1), NEW l \in 1..(n + 1),
                      NEW i \in 1..Len(Waiting'[k]), NEW j \in 1..Len(Waiting'[l]),
                      Waiting'[k][i] = Waiting'[l][j]
               PROVE  k = l /\ i = j
    BY <1>1 DEF WaitsOnce
  <2>1. CASE k \in 1..n /\ l \in 1..n
    BY <1>1, <2>1 DEF WaitsOnce
  <2>2. CASE k = n + 1 /\ l = n + 1
    BY <1>1, <2>2
  <2>3. CASE k \in 1..n /\ l = n + 1
    <3>1. Waiting'[k] = Waiting[k] /\ Waiting'[l] = cs
      BY <1>1, <2>3
    <3>2. i \in 1..Len(Waiting[k]) /\ j \in 1..Len(cs) /\ Waiting[k][i] = cs[j]
      BY <3>1
    <3> QED
      BY <1>3, <2>3, <3>2
  <2>4. CASE k = n + 1 /\ l \in 1..n
    <3>1. Waiting'[l] = Waiting[l] /\ Waiting'[k] = cs
      BY <1>1, <2>4
    <3>2. j \in 1..Len(Waiting[l]) /\ i \in 1..Len(cs) /\ Waiting[l][j] = cs[i]
      BY <3>1
    <3> QED
      BY <1>3, <2>4, <3>2
  <2> QED
    BY <1>1, <2>1, <2>2, <2>3, <2>4
<1> QED
  BY <1>2, <1>4

(* The task that is begun holds what it held in the queue.                 *)
LEMMA BeginHeld ==
    ASSUME TypeOK, WaitsOnce, RunTask
    PROVE  WaitsOnce' /\ \A c : Held(c)' <=> Held(c)
<1>1. /\ batch = <<>> /\ tasks # <<>> /\ batch' = Head(tasks) /\ tasks' = Tail(tasks)
  BY DEF RunTask, Idle
<1>2. /\ Len(tasks) \in Nat \ {0} /\ batch' = tasks[1] /\ batch' \in Seq(Channels)
      /\ tasks' \in Seq(Seq(Channels)) /\ Len(tasks') = Len(tasks) - 1
      /\ \A k \in 1..Len(tasks') : tasks'[k] = tasks[k + 1]
  BY <1>1, EmptySeq, HeadTailProperties DEF TypeOK
<1>3. /\ Len(Waiting) = Len(tasks) + 1 /\ Waiting[1] = <<>>
      /\ \A k \in 1..Len(tasks) : Waiting[k + 1] = tasks[k]
  BY <1>1, WaitingIs DEF TypeOK, Waiting
<1>4. /\ Len(Waiting') = Len(tasks) /\ Waiting'[1] = tasks[1]
      /\ \A k \in 2..Len(tasks) : Waiting'[k] = tasks'[k - 1]
  BY <1>2, WaitingIs DEF TypeOK, Waiting
<1>5. \A k \in 1..Len(tasks) : Waiting'[k] = Waiting[k + 1] /\ k + 1 \in 1..Len(Waiting)
  BY <1>2, <1>3, <1>4
<1>6. WaitsOnce'
  <2> SUFFICES ASSUME NEW k \in 1..Len(tasks), NEW l \in 1..Len(tasks),
                      NEW i \in 1..Len(Waiting'[k]), NEW j \in 1..Len(Waiting'[l]),
                      Waiting'[k][i] = Waiting'[l][j]
               PROVE  k = l /\ i = j
    BY <1>4 DEF WaitsOnce
  <2>1. /\ k + 1 \in 1..Len(Waiting) /\ Waiting'[k] = Waiting[k + 1]
        /\ l + 1 \in 1..Len(Waiting) /\ Waiting'[l] = Waiting[l + 1]
    BY <1>5
  <2>2. k + 1 = l + 1 /\ i = j
    BY <2>1 DEF WaitsOnce
  <2> QED
    BY <1>2, <2>2
<1>7. \A c : ~Holds(Waiting[1], c)
  BY <1>3 DEF Holds
<1>8. ASSUME NEW c, Held(c)' PROVE Held(c)
  BY <1>4, <1>5, <1>8 DEF Held, Holds
<1>9. ASSUME NEW c, Held(c) PROVE Held(c)'
  <2>1. PICK k \in 1..Len(Waiting) : Holds(Waiting[k], c)
    BY <1>9 DEF Held
  <2>2. k # 1 /\ k - 1 \in 1..Len(tasks) /\ Waiting[k] = Waiting'[k - 1]
    BY <1>2, <1>3, <1>5, <1>7, <2>1
  <2> QED
    BY <1>4, <2>1, <2>2 DEF Held, Holds
<1> QED
  BY <1>6, <1>8, <1>9

(* The connection at hand is the only one that leaves the server.          *)
LEMMA ServedHeld ==
    ASSUME TypeOK, WaitsOnce, batch # <<>>, batch' = Tail(batch), tasks' = tasks
    PROVE  /\ WaitsOnce'
           /\ \A c : Held(c)' <=> Held(c) /\ c # Head(batch)
           /\ Held(Head(batch))
<1> DEFINE n == Len(Waiting)
<1>0. /\ n \in Nat /\ 1 \in 1..n /\ Waiting[1] = batch /\ batch \in Seq(Channels)
      /\ batch' \in Seq(Channels) /\ Head(batch) = batch[1]
      /\ 1 \in 1..Len(batch)
      /\ Len(Waiting') = n /\ Waiting'[1] = Tail(batch)
      /\ \A k \in 2..n : Waiting'[k] = Waiting[k]
  BY WaitingIs, HeadTailProperties, EmptySeq DEF TypeOK, Waiting
<1>1. \A i, j \in 1..Len(batch) : batch[i] = batch[j] => i = j
  BY <1>0 DEF WaitsOnce
<1>2. /\ \A c : Holds(Tail(batch), c) <=> Holds(batch, c) /\ c # Head(batch)
      /\ \A i, j \in 1..Len(Tail(batch)) : Tail(batch)[i] = Tail(batch)[j] => i = j
      /\ Holds(batch, Head(batch))
  BY <1>0, <1>1, HoldsTail
<1>3. Held(Head(batch))
  BY <1>0, <1>2 DEF Held
<1>4. \A k \in 2..n : ~Holds(Waiting[k], Head(batch))
  BY <1>0 DEF WaitsOnce, Holds
<1>5. ASSUME NEW c, Held(c)' PROVE Held(c) /\ c # Head(batch)
  <2>1. PICK k \in 1..n : Holds(Waiting'[k], c)
    BY <1>0, <1>5 DEF Held, Holds
  <2>2. CASE k = 1
    BY <1>0, <1>2, <2>1, <2>2 DEF Held
  <2>3. CASE k \in 2..n
    BY <1>0, <1>4, <2>1, <2>3 DEF Held
  <2> QED
    BY <1>0, <2>2, <2>3
<1>6. ASSUME NEW c, Held(c), c # Head(batch) PROVE Held(c)'
  <2>1. PICK k \in 1..n : Holds(Waiting[k], c)
    BY <1>6 DEF Held
  <2>2. Holds(Waiting'[k], c)
    <3>1. CASE k = 1
      BY <1>0, <1>2, <1>6, <2>1, <3>1
    <3>2. CASE k \in 2..n
      BY <1>0, <2>1, <3>2
    <3> QED
      BY <1>0, <3>1, <3>2
  <2> QED
    BY <1>0, <2>2 DEF Held, Holds
<1>7. WaitsOnce'
  <2> SUFFICES ASSUME NEW k \in 1..n, NEW l \in 1..n,
                      NEW i \in 1..Len(Waiting'[k]), NEW j \in 1..Len(Waiting'[l]),
                      Waiting'[k][i] = Waiting'[l][j]
               PROVE  k = l /\ i = j
    BY <1>0 DEF WaitsOnce
  <2>1. \A m \in 1..Len(Tail(batch)) : /\ Tail(batch)[m] = batch[m + 1]
                                       /\ m + 1 \in 1..Len(batch)
    BY <1>0, HeadTailProperties, LenProperties
  <2>2. CASE k = 1 /\ l = 1
    <3>1. /\ i \in 1..Len(Tail(batch)) /\ j \in 1..Len(Tail(batch))
          /\ Tail(batch)[i] = Tail(batch)[j]
      BY <1>0, <2>2
    <3> QED
      BY <1>2, <2>2, <3>1
  <2>3. CASE k = 1 /\ l \in 2..n
    <3>1. /\ i + 1 \in 1..Len(Waiting[1]) /\ Waiting'[k][i] = Waiting[1][i + 1]
          /\ j \in 1..Len(Waiting[l]) /\ Waiting'[l] = Waiting[l]
      BY <1>0, <2>1, <2>3
    <3>2. Waiting[1][i + 1] = Waiting[l][j]
      BY <3>1
    <3>3. 1 = l
      BY <1>0, <3>1, <3>2 DEF WaitsOnce
    <3> QED
      BY <2>3, <3>3
  <2>4. CASE k \in 2..n /\ l = 1
    <3>1. /\ j + 1 \in 1..Len(Waiting[1]) /\ Waiting'[l][j] = Waiting[1][j + 1]
          /\ i \in 1..Len(Waiting[k]) /\ Waiting'[k] = Waiting[k]
      BY <1>0, <2>1, <2>4
    <3>2. Waiting[1][j + 1] = Waiting[k][i]
      BY <3>1
    <3>3. 1 = k
      BY <1>0, <3>1, <3>2 DEF WaitsOnce
    <3> QED
      BY <2>4, <3>3
  <2>5. CASE k \in 2..n /\ l \in 2..n
    BY <1>0, <2>5 DEF WaitsOnce
  <2> QED
    BY <1>0, <2>2, <2>3, <2>4, <2>5
<1> QED
  BY <1>3, <1>5, <1>6, <1>7

LEMMA InitOneOwner == Init => OneOwner
<1> SUFFICES ASSUME Init PROVE OneOwner
  OBVIOUS
<1>1. TypeOK
  BY InitTyped
<1>2. Len(Waiting) = 1 /\ Waiting[1] = <<>>
  BY WaitingIs, <1>1 DEF Init, Waiting, TypeOK
<1>3. WaitsOnce /\ \A c : ~Held(c)
  BY <1>2 DEF WaitsOnce, Held, Holds
<1>4. InboxesOnce /\ \A w \in WorkerIds : \A c : ~Holds(inbox[w], c)
  BY DEF InboxesOnce, Init, Holds
<1>5. \A c \in Channels : Placed(c)
  BY <1>3, <1>4 DEF Placed, Init
<1> QED
  BY <1>1, <1>3, <1>4, <1>5, OneOwnerParts

(* A step of the server or of a worker moves a connection from one holder  *)
(* to the next.                                                            *)
LEMMA NextOneOwner ==
    TypeOK /\ ScanShape /\ OneOwner /\ [Next]_vars => OneOwner'
<1> SUFFICES ASSUME TypeOK, ScanShape, OneOwner, [Next]_vars PROVE OneOwner'
  OBVIOUS
<1> DEFINE Parts == WaitsOnce /\ InboxesOnce /\ \A c \in Channels : Placed(c)
<1>p. Parts /\ (OneOwner' <=> Parts')
  <2>1. TypeOK'
    BY NextTyped
  <2>2. \A w \in WorkerIds : IsInjective(inbox'[w]) <=>
           \A i, j \in 1..Len(inbox'[w]) : inbox'[w][i] = inbox'[w][j] => i = j
    BY SMTT(30), <2>1, InjectiveSeq DEF TypeOK
  <2>3. OneOwner' <=> Parts'
    BY <2>2 DEF OneOwner, WaitsOnce, InboxesOnce, Placed, Held
  <2> QED
    BY <2>3, OneOwnerParts
<1> SUFFICES Parts'
  BY <1>p
<1>a. /\ WaitsOnce /\ InboxesOnce /\ \A c \in Channels : Placed(c)
      /\ Pool \subseteq WorkerIds
  BY <1>p, PoolAssumption DEF TypeOK, Pool, WorkerIds
<1>u. ASSUME batch' = batch, tasks' = tasks
      PROVE  WaitsOnce' /\ \A c : Held(c)' <=> Held(c)
  <2>1. Waiting' = Waiting
    BY <1>u DEF Waiting
  <2> QED
    BY <1>a, <2>1 DEF WaitsOnce, Held
<1>v. ASSUME inbox' = inbox PROVE InboxesOnce'
  BY <1>a, <1>v DEF InboxesOnce
<1>b. ASSUME batch # <<>>
      PROVE  /\ Head(batch) \in Channels
             /\ place[Head(batch)] = "server" /\ netWorker[Head(batch)] = None
  <2>1. Head(batch) \in Channels
    BY <1>b, HeadTailProperties DEF TypeOK
  <2>2. Held(Head(batch))
    <3>1. Waiting[1] = batch /\ 1 \in 1..Len(Waiting)
      BY WaitingIs DEF TypeOK, Waiting
    <3>2. 1 \in 1..Len(batch) /\ batch[1] = Head(batch)
      BY <1>b, EmptySeq, HeadTailProperties DEF TypeOK
    <3> QED
      BY <3>1, <3>2 DEF Held, Holds
  <2> QED
    BY <1>a, <2>1, <2>2 DEF Placed
<1>1. ASSUME NEW cs \in Lists, OnAccept(cs) PROVE Parts'
  <2>1. /\ cs \in Seq(Channels) /\ \A i, j \in 1..Len(cs) : cs[i] = cs[j] => i = j
    BY DEF Lists
  <2>2. \A i \in 1..Len(cs) : cs[i] \in Channels /\ place[cs[i]] = "client"
    BY <1>1, <2>1, ElementOfSeq DEF OnAccept
  <2>3. \A i \in 1..Len(cs) : ~Held(cs[i])
    BY <1>a, <2>2 DEF Placed
  <2>4. tasks' = Append(tasks, cs) /\ batch' = batch
    BY <1>1 DEF OnAccept, serverVars, poolVars
  <2>5. WaitsOnce' /\ \A c : Held(c)' <=> Held(c) \/ Holds(cs, c)
    BY <1>a, <2>1, <2>3, <2>4, ArriveHeld
  <2>6. \A c : c \in ToSet(cs) <=> Holds(cs, c)
    BY <2>1, LenProperties DEF ToSet, Holds
  <2>7. inbox' = inbox /\ netWorker' = netWorker /\ size' = size
    BY <1>1 DEF OnAccept, poolVars, workerVars
  <2>8. ASSUME NEW c \in Channels PROVE Placed(c)'
    <3>1. CASE Holds(cs, c)
      <4>1. place[c] = "client" /\ place'[c] = "server"
        BY <1>1, <2>2, <2>6, <3>1 DEF OnAccept, Holds
      <4> QED
        BY <1>a, <2>5, <2>7, <3>1, <4>1 DEF Placed, Pool
    <3>2. CASE ~Holds(cs, c)
      <4>1. place'[c] = place[c]
        BY <1>1, <2>6, <3>2 DEF OnAccept
      <4> QED
        BY <1>a, <2>5, <2>7, <3>2, <4>1 DEF Placed, Pool
    <3> QED
      BY <3>1, <3>2
  <2> QED
    BY <1>v, <2>5, <2>7, <2>8
<1>2. ASSUME batch' = batch, tasks' = tasks, inbox' = inbox, place' = place,
             netWorker' = netWorker, size' = size
      PROVE  Parts'
  BY <1>a, <1>u, <1>v, <1>2 DEF Placed, Pool
<1>3. CASE RunTask
  <2>1. inbox' = inbox /\ place' = place /\ netWorker' = netWorker /\ size' = size
    BY <1>3 DEF RunTask, poolVars, workerVars
  <2>2. WaitsOnce' /\ \A c : Held(c)' <=> Held(c)
    BY <1>3, <1>a, BeginHeld
  <2> QED
    BY <1>a, <1>v, <2>1, <2>2 DEF Placed, Pool
\* the server closes the connection at hand
<1>4. ASSUME batch # <<>>, CloseChannel(Head(batch)), batch' = Tail(batch),
             tasks' = tasks, inbox' = inbox, size' = size,
             \A c \in Channels \ {Head(batch)} : netWorker'[c] = netWorker[c]
      PROVE  Parts'
  <2>1. /\ WaitsOnce' /\ \A c : Held(c)' <=> Held(c) /\ c # Head(batch)
    BY <1>4, <1>a, ServedHeld
  <2>2. ASSUME NEW c \in Channels PROVE Placed(c)'
    <3>1. CASE c = Head(batch)
      <4>1. place'[c] = "closed" /\ ~Held(c)' /\ \A w \in WorkerIds : ~Holds(inbox[w], c)
        BY <1>4, <1>a, <1>b, <2>1, <3>1 DEF CloseChannel, Placed, TypeOK
      <4> QED
        BY <1>4, <4>1 DEF Placed
    <3>2. CASE c # Head(batch)
      <4>1. place'[c] = place[c] /\ netWorker'[c] = netWorker[c]
        BY <1>4, <3>2 DEF CloseChannel, TypeOK
      <4> QED
        BY <1>4, <1>a, <2>1, <3>2, <4>1 DEF Placed, Pool
    <3> QED
      BY <3>1, <3>2
  <2> QED
    BY <1>4, <1>v, <2>1, <2>2
<1>5. CASE NextWorker
  <2>1. /\ batch # <<>> /\ tasks' = tasks /\ inbox' = inbox /\ netWorker' = netWorker
        /\ size' = size
    BY <1>5 DEF NextWorker, poolVars, workerVars
  <2>2. CASE size = 0
    BY <1>4, <1>5, <2>1, <2>2 DEF NextWorker
  <2>3. CASE size # 0
    <3>1. batch' = batch /\ place' = place
      BY <1>5, <2>3 DEF NextWorker
    <3> QED
      BY <1>2, <2>1, <3>1
  <2> QED
    BY <2>2, <2>3
<1>6. CASE ScanGivesUp
  <2>1. /\ batch # <<>> /\ CloseChannel(Head(batch)) /\ batch' = Tail(batch)
        /\ tasks' = tasks /\ inbox' = inbox /\ size' = size /\ netWorker' = netWorker
    BY <1>6 DEF ScanGivesUp, ScanShape, poolVars, workerVars
  <2> QED
    BY <1>4, <2>1
<1>7. CASE ScanFinds
  <2>1. /\ batch # <<>> /\ batch' = Tail(batch) /\ tasks' = tasks /\ size' = size
        /\ workerIndex' \in Pool /\ Accept(workerIndex', Head(batch))
    BY <1>7, FollowingInPool DEF ScanFinds, Looks, ScanShape, poolVars
  <2> DEFINE a == Head(batch)
             w0 == workerIndex'
  <2>2. CASE listening /\ life[w0] # "stopping"
    <3>1. /\ netWorker' = [netWorker EXCEPT ![a] = w0]
          /\ inbox' = [inbox EXCEPT ![w0] = Append(@, a)]
          /\ place' = [place EXCEPT ![a] = "inbox"]
      BY <2>1, <2>2 DEF Accept
    <3>2. /\ a \in Channels /\ place[a] = "server" /\ netWorker[a] = None
          /\ \A w \in WorkerIds : ~Holds(inbox[w], a)
      BY <1>a, <1>b, <2>1 DEF Placed
    <3>3. /\ w0 \in WorkerIds /\ inbox[w0] \in Seq(Channels)
          /\ inbox'[w0] = Append(inbox[w0], a)
          /\ \A w \in WorkerIds : w # w0 => inbox'[w] = inbox[w]
      BY <1>a, <2>1, <3>1 DEF TypeOK
    <3>4. /\ \A c : Holds(inbox'[w0], c) <=> Holds(inbox[w0], c) \/ c = a
          /\ \A i, j \in 1..Len(inbox'[w0]) : inbox'[w0][i] = inbox'[w0][j] => i = j
      BY <1>a, <3>2, <3>3, HoldsAppend DEF InboxesOnce
    <3>5. InboxesOnce'
      BY <1>a, <3>3, <3>4 DEF InboxesOnce
    <3>6. WaitsOnce' /\ \A c : Held(c)' <=> Held(c) /\ c # a
      BY <1>a, <2>1, ServedHeld
    <3>7. ASSUME NEW c \in Channels PROVE Placed(c)'
      <4>1. CASE c = a
        <5>1. place'[c] = "inbox" /\ netWorker'[c] = w0 /\ ~Held(c)'
          BY <3>1, <3>6, <4>1 DEF TypeOK
        <5>2. \A w \in WorkerIds : Holds(inbox'[w], c) <=> w = w0
          BY <3>2, <3>3, <3>4, <4>1
        <5> QED
          BY <2>1, <5>1, <5>2 DEF Placed, Pool
      <4>2. CASE c # a
        <5>1. place'[c] = place[c] /\ netWorker'[c] = netWorker[c]
          BY <3>1, <4>2 DEF TypeOK
        <5>2. \A w \in WorkerIds : Holds(inbox'[w], c) <=> Holds(inbox[w], c)
          BY <3>3, <3>4, <4>2
        <5> QED
          BY <1>a, <2>1, <3>6, <4>2, <5>1, <5>2 DEF Placed, Pool
      <4> QED
        BY <4>1, <4>2
    <3> QED
      BY <3>5, <3>6, <3>7
  <2>3. CASE ~(listening /\ life[w0] # "stopping")
    <3>1. /\ CloseChannel(a) /\ inbox' = inbox
          /\ \A c \in Channels \ {a} : netWorker'[c] = netWorker[c]
      BY <2>1, <2>3 DEF Accept, TypeOK
    <3> QED
      BY <1>4, <2>1, <3>1
  <2> QED
    BY <2>2, <2>3
<1>8. ASSUME NEW w \in Pool, NEW r \in BOOLEAN, TakeAccept(w, r) PROVE Parts'
  <2> DEFINE a == Head(inbox[w])
  <2>1. /\ w \in WorkerIds /\ inbox[w] \in Seq(Channels) /\ inbox[w] # <<>>
        /\ batch' = batch /\ tasks' = tasks /\ netWorker' = netWorker /\ size' = size
    BY <1>8, <1>a DEF TakeAccept, TypeOK, serverVars, poolVars
  <2>2. /\ \A c : Holds(Tail(inbox[w]), c) <=> Holds(inbox[w], c) /\ c # a
        /\ \A i, j \in 1..Len(Tail(inbox[w])) :
              Tail(inbox[w])[i] = Tail(inbox[w])[j] => i = j
        /\ Holds(inbox[w], a)
    BY <1>a, <2>1, HoldsTail DEF InboxesOnce
  <2>3. a \in Channels /\ place[a] = "inbox" /\ netWorker[a] = w
    BY <1>a, <2>1, <2>2, HeadTailProperties DEF Placed
  <2>4. /\ inbox'[w] = Tail(inbox[w])
        /\ \A v \in WorkerIds : v # w => inbox'[v] = inbox[v]
        /\ place'[a] \in {"open", "closed"}
        /\ \A c \in Channels : c # a => place'[c] = place[c]
    BY <1>8, <2>1, <2>3 DEF TakeAccept, TypeOK
  <2>5. InboxesOnce'
    BY <1>a, <2>2, <2>4 DEF InboxesOnce
  <2>6. ASSUME NEW c \in Channels PROVE Placed(c)'
    <3>1. CASE c = a
      <4>1. \A v \in WorkerIds : ~Holds(inbox'[v], c)
        BY <1>a, <2>2, <2>3, <2>4, <3>1 DEF Placed
      <4>2. ~Held(c)' /\ netWorker'[c] = w
        BY <1>a, <1>u, <2>1, <2>3, <3>1 DEF Placed
      <4> QED
        BY <2>1, <2>4, <3>1, <4>1, <4>2 DEF Placed, Pool
    <3>2. CASE c # a
      <4>1. \A v \in WorkerIds : Holds(inbox'[v], c) <=> Holds(inbox[v], c)
        BY <2>2, <2>4, <3>2
      <4> QED
        BY <1>a, <1>u, <2>1, <2>4, <3>2, <4>1 DEF Placed, Pool
    <3> QED
      BY <3>1, <3>2
  <2> QED
    BY <1>u, <2>1, <2>5, <2>6
<1>9. ASSUME NEW w \in Pool, NEW b \in Channels, ChannelCloses(w, b) PROVE Parts'
  <2>1. /\ batch' = batch /\ tasks' = tasks /\ netWorker' = netWorker /\ size' = size
        /\ inbox' = inbox /\ place[b] = "open" /\ place' = [place EXCEPT ![b] = "closed"]
    BY <1>9 DEF ChannelCloses, OpenOn, CloseChannel, serverVars, poolVars, workerVars
  <2>2. ASSUME NEW c \in Channels PROVE Placed(c)'
    <3>1. CASE c = b
      BY <1>a, <1>u, <2>1, <3>1 DEF Placed, TypeOK
    <3>2. CASE c # b
      BY <1>a, <1>u, <2>1, <3>2 DEF Placed, TypeOK, Pool
    <3> QED
      BY <3>1, <3>2
  <2> QED
    BY <1>u, <1>v, <2>1, <2>2
<1>10. ASSUME NEW w \in Pool, WorkerEnds(w) PROVE Parts'
  <2>1. /\ batch' = batch /\ tasks' = tasks /\ netWorker' = netWorker /\ size' = size
        /\ w \in WorkerIds
    BY <1>10, <1>a DEF WorkerEnds, serverVars, poolVars
  <2>2. inbox'[w] = <<>> /\ \A v \in WorkerIds : v # w => inbox'[v] = inbox[v]
    BY <1>10, <2>1 DEF WorkerEnds, TypeOK
  <2>3. InboxesOnce' /\ \A c : ~Holds(inbox'[w], c)
    BY <1>a, <2>2 DEF InboxesOnce, Holds
  <2>4. \A c : c \in ToSet(inbox[w]) <=> Holds(inbox[w], c)
    BY <2>1, LenProperties DEF ToSet, Holds, TypeOK
  <2>5. ASSUME NEW c \in Channels PROVE Placed(c)'
    <3>1. CASE place[c] \in {"open", "inbox"} /\ netWorker[c] = w
      <4>1. c \in OpenOn(w) \cup ToSet(inbox[w])
        BY <1>a, <2>1, <2>4, <3>1 DEF OpenOn, Placed
      <4>2. place'[c] = "closed"
        BY <1>10, <4>1 DEF WorkerEnds
      <4>3. \A v \in WorkerIds : ~Holds(inbox'[v], c)
        BY <1>a, <2>1, <2>2, <2>3, <3>1 DEF Placed
      <4> QED
        BY <1>a, <1>u, <2>1, <3>1, <4>2, <4>3 DEF Placed
    <3>2. CASE ~(place[c] \in {"open", "inbox"} /\ netWorker[c] = w)
      <4>1. c \notin OpenOn(w) \cup ToSet(inbox[w])
        BY <1>a, <2>1, <2>4, <3>2 DEF OpenOn, Placed
      <4>2. place'[c] = place[c]
        BY <1>10, <4>1 DEF WorkerEnds
      <4>3. \A v \in WorkerIds : Holds(inbox'[v], c) <=> Holds(inbox[v], c)
        BY <1>a, <2>1, <2>2, <2>3, <3>2 DEF Placed
      <4> QED
        BY <1>a, <1>u, <2>1, <4>2, <4>3 DEF Placed, Pool
    <3> QED
      BY <3>1, <3>2
  <2> QED
    BY <1>u, <2>1, <2>3, <2>5
<1>11. CASE Close \/ ScanFull \/ ScanDangles \/ UNCHANGED vars
  BY <1>2, <1>11 DEF Close, ScanFull, ScanDangles, vars, poolVars, workerVars
<1>12. ASSUME NEW w \in Pool, NEW n \in 0..MaxOwn, OwnSocket(w, n)
       PROVE  Parts'
  BY <1>2, <1>12 DEF OwnSocket, serverVars, poolVars
<1>13. ASSUME NEW w \in Pool, StopWorker(w) PROVE Parts'
  BY <1>2, <1>13 DEF StopWorker, serverVars, poolVars
\* what was in the queue of a worker is gone with it
<1>14. ASSUME NEW w \in Pool, ChildFinished(w) PROVE Parts'
  <2>1. /\ batch' = batch /\ tasks' = tasks /\ netWorker' = netWorker /\ size' = size
        /\ w \in WorkerIds
    BY <1>14, <1>a DEF ChildFinished, serverVars, poolVars
  <2>2. inbox'[w] = <<>> /\ \A v \in WorkerIds : v # w => inbox'[v] = inbox[v]
    BY <1>14, <2>1 DEF ChildFinished, TypeOK
  <2>3. InboxesOnce' /\ \A c : ~Holds(inbox'[w], c)
    BY <1>a, <2>2 DEF InboxesOnce, Holds
  <2>4. \A c : c \in ToSet(inbox[w]) <=> Holds(inbox[w], c)
    BY <2>1, LenProperties DEF ToSet, Holds, TypeOK
  <2>5. ASSUME NEW c \in Channels PROVE Placed(c)'
    <3>1. CASE Holds(inbox[w], c)
      <4>1. place[c] = "inbox" /\ netWorker[c] = w
        BY <1>a, <2>1, <3>1 DEF Placed
      <4>2. place'[c] = "closed"
        BY <1>14, <2>4, <3>1 DEF ChildFinished
      <4>3. \A v \in WorkerIds : ~Holds(inbox'[v], c)
        BY <1>a, <2>1, <2>2, <2>3, <4>1 DEF Placed
      <4> QED
        BY <1>a, <1>u, <2>1, <4>1, <4>2, <4>3 DEF Placed
    <3>2. CASE ~Holds(inbox[w], c)
      <4>1. place'[c] = place[c]
        BY <1>14, <2>4, <3>2 DEF ChildFinished
      <4>2. \A v \in WorkerIds : Holds(inbox'[v], c) <=> Holds(inbox[v], c)
        BY <2>2, <2>3, <3>2
      <4> QED
        BY <1>a, <1>u, <2>1, <4>1, <4>2 DEF Placed, Pool
    <3> QED
      BY <3>1, <3>2
  <2> QED
    BY <1>u, <2>1, <2>3, <2>5
<1> QED
  BY <1>1, <1>3, <1>5, <1>6, <1>7, <1>8, <1>9, <1>10, <1>11, <1>12, <1>13, <1>14
     DEF Next, ServerStep, WorkerStep, EnvStep

-----------------------------------------------------------------------------
(* Even shares.                                                            *)

(* The share of a worker is a number.                                      *)
LEMMA AssignedCounts == \A v : Assigned(v) \in Nat
<1> TAKE v
<1>1. IsFiniteSet({c \in Channels : netWorker[c] = v})
  BY ChannelsAssumption, FS_Subset
<1> QED
  BY <1>1, FS_CardinalityType DEF Assigned

LEMMA InitBalanced == Init => Balanced
<1> SUFFICES ASSUME Init PROVE Balanced
  OBVIOUS
<1>1. MaxWorkers \in Nat /\ size \in Nat
  BY PoolAssumption DEF Init
<1>2. ASSUME NEW v \in Pool PROVE Assigned(v) = 0 /\ Lap(v) = 0
  <2>1. v \in Int /\ v >= 0 /\ v # None
    BY <1>1, OwnerAssumption DEF Pool
  <2>2. {c \in Channels : netWorker[c] = v} = {}
    BY <2>1 DEF Init
  <2>3. Assigned(v) = 0
    BY <2>2, FS_EmptySet DEF Assigned
  <2>4. Lap(v) = 0
    BY <2>1 DEF Init, Lap
  <2> QED
    BY <2>3, <2>4
<1> QED
  BY <1>2 DEF Balanced, Init

(* The connection at hand is not among a worker's sockets, so that a limit *)
(* above all the sockets there can be is not reached.                      *)
LEMMA NoneFull ==
    ASSUME TypeOK, ScanShape, OneOwner, Untroubled, scanning, NEW w \in Pool
    PROVE  ~IsChannelFull(w)
<1>1. /\ batch # <<>> /\ w \in WorkerIds /\ MaxOwn \in Nat /\ maxChannels \in Nat
      /\ MaxOwn + Cardinality(Channels) <= maxChannels /\ own[w] \in 0..MaxOwn
  BY PoolAssumption DEF ScanShape, TypeOK, Pool, WorkerIds, Untroubled
<1>2. Head(batch) \in Channels /\ Held(Head(batch))
  <2>1. Waiting[1] = batch /\ 1 \in 1..Len(Waiting)
    BY WaitingIs DEF TypeOK, Waiting
  <2>2. /\ Head(batch) \in Channels
        /\ 1 \in 1..Len(batch) /\ batch[1] = Head(batch)
    BY <1>1, EmptySeq, HeadTailProperties DEF TypeOK
  <2> QED
    BY <2>1, <2>2 DEF Held, Holds
<1>3. place[Head(batch)] = "server"
  BY <1>2, OneOwnerParts DEF Placed
<1>4. OpenOn(w) \subseteq Channels \ {Head(batch)}
  BY <1>3 DEF OpenOn
<1>5. /\ Cardinality(Channels \ {Head(batch)}) = Cardinality(Channels) - 1
      /\ IsFiniteSet(Channels \ {Head(batch)}) /\ Cardinality(Channels) \in Nat
  BY <1>2, ChannelsAssumption, FS_RemoveElement, FS_CardinalityType
<1>6. Cardinality(OpenOn(w)) <= Cardinality(Channels) - 1
      /\ Cardinality(OpenOn(w)) \in Nat
  BY <1>4, <1>5, FS_Subset, FS_CardinalityType
<1> QED
  BY <1>1, <1>5, <1>6 DEF IsChannelFull, SocketCount

(* A round that goes on gives the next worker one connection more, and a   *)
(* round that begins again has given each of them one.                     *)
LEMMA NextBalanced ==
    TypeOK /\ ScanShape /\ OneOwner /\ Balanced /\ [Next]_vars => Balanced'
<1> SUFFICES ASSUME TypeOK, ScanShape, OneOwner, Balanced, [Next]_vars, Untroubled'
             PROVE  Balanced'
  BY DEF Balanced
<1>a. /\ Pool \subseteq WorkerIds /\ size \in Nat /\ Pool = 0..(size - 1)
      /\ workerIndex \in -1..(size - 1)
  BY PoolAssumption DEF TypeOK, ScanShape, Pool, WorkerIds
<1>u. size' = size /\ Pool' = Pool /\ Untroubled
  <2>1. size' = size /\ maxChannels' = maxChannels
    BY DEF Next, ServerStep, WorkerStep, EnvStep, OnAccept, Close, RunTask, NextWorker,
           ScanFull, ScanDangles, ScanGivesUp, ScanFinds, TakeAccept, ChannelCloses,
           OwnSocket, StopWorker, WorkerEnds, ChildFinished, vars, serverVars, poolVars
  <2>2. ASSUME NEW v \in Pool, life'[v] = "running" PROVE life[v] = "running"
    <3>1. v \in WorkerIds
      BY <1>a
    <3>2. ASSUME NEW w, StopWorker(w) \/ WorkerEnds(w) \/ ChildFinished(w)
          PROVE  life[v] = "running"
      BY <2>2, <3>1, <3>2 DEF StopWorker, WorkerEnds, ChildFinished, TypeOK
    <3>3. CASE life' = life
      BY <2>2, <3>3
    <3> QED
      BY <3>2, <3>3 DEF Next, ServerStep, WorkerStep, EnvStep, OnAccept, Close, RunTask,
           NextWorker, ScanFull, ScanDangles, ScanGivesUp, ScanFinds, TakeAccept,
           ChannelCloses, OwnSocket, vars, serverVars, poolVars, workerVars
  <2> QED
    BY <2>1, <2>2 DEF Untroubled, Pool
<1>b. /\ \A v, w \in Pool : Assigned(v) <= Assigned(w) + 1
      /\ scanning => workerIndex = startIndex
      /\ listening => \A v, w \in Pool : Assigned(v) - Lap(v) = Assigned(w) - Lap(w)
  BY <1>u DEF Balanced
<1>1. ASSUME netWorker' = netWorker, workerIndex' = workerIndex,
             listening' => listening, scanning' => workerIndex' = startIndex'
      PROVE  Balanced'
  <2>1. \A v : Assigned(v)' = Assigned(v) /\ Lap(v)' = Lap(v)
    BY <1>1 DEF Assigned, Lap
  <2> QED
    BY <1>1, <1>b, <1>u, <2>1 DEF Balanced
<1>2. CASE NextWorker
  <2>1. CASE size = 0
    BY <1>1, <1>2, <1>b, <2>1 DEF NextWorker
  <2>2. CASE size # 0
    BY <1>1, <1>2, <2>2 DEF NextWorker
  <2> QED
    BY <2>1, <2>2
<1>3. ~ScanFull
  <2>1. SUFFICES ASSUME ScanFull PROVE FALSE
    OBVIOUS
  <2>2. scanning /\ workerIndex' \in Pool /\ IsChannelFull(workerIndex')
    BY <2>1, FollowingInPool DEF ScanFull, Looks, ScanShape
  <2> QED
    BY <1>u, <2>2, NoneFull
\* no worker that was never stopped is deleted
<1>d. ~ScanDangles
  <2>1. SUFFICES ASSUME ScanDangles PROVE FALSE
    OBVIOUS
  <2>2. workerIndex' \in Pool /\ life[workerIndex'] = "deleted"
    BY <2>1, FollowingInPool DEF ScanDangles, Looks, ScanShape
  <2> QED
    BY <1>u, <2>2 DEF Untroubled
<1>4. CASE ScanGivesUp
  BY <1>1, <1>4, <1>b DEF ScanGivesUp
<1>5. CASE ScanFinds
  <2>w. PICK w0 : w0 = workerIndex'
    OBVIOUS
  <2> DEFINE a == Head(batch)
  <2>1. /\ batch # <<>> /\ size > 0 /\ workerIndex' = w0 /\ w0 \in Pool
        /\ w0 = Following(workerIndex)
        /\ ~scanning' /\ listening' = listening /\ Accept(w0, a)
        /\ life[w0] = "running"
    BY <1>5, <1>u, <2>w, FollowingInPool DEF ScanFinds, Looks, ScanShape, Untroubled
  <2>2. CASE ~listening
    <3>1. netWorker' = netWorker
      BY <2>1, <2>2 DEF Accept
    <3>2. \A v : Assigned(v)' = Assigned(v)
      BY <3>1 DEF Assigned
    <3> QED
      BY <1>b, <1>u, <2>1, <2>2, <3>2 DEF Balanced
  <2>3. CASE listening
    <3>1. netWorker' = [netWorker EXCEPT ![a] = w0]
      BY <2>1, <2>3 DEF Accept
    <3>2. a \in Channels /\ netWorker[a] = None
      <4>1. Waiting[1] = batch /\ 1 \in 1..Len(Waiting)
        BY WaitingIs DEF TypeOK, Waiting
      <4>2. a \in Channels /\ 1 \in 1..Len(batch) /\ batch[1] = a
        BY <2>1, EmptySeq, HeadTailProperties DEF TypeOK
      <4>3. Held(a)
        BY <4>1, <4>2 DEF Held, Holds
      <4> QED
        BY <4>2, <4>3, OneOwnerParts DEF Placed
    <3>3. ASSUME NEW v \in Pool, v # w0 PROVE Assigned(v)' = Assigned(v)
      <4>0. v \in Int
        BY <1>a
      <4>1. v # None
        BY <4>0, OwnerAssumption
      <4>2. \A c \in Channels : netWorker'[c] = v <=> netWorker[c] = v
        BY <3>1, <3>2, <3>3, <4>1 DEF TypeOK
      <4>3. {c \in Channels : netWorker'[c] = v} = {c \in Channels : netWorker[c] = v}
        BY <4>2
      <4> QED
        BY <4>3 DEF Assigned
    <3>4. Assigned(w0)' = Assigned(w0) + 1
      <4>1. w0 # None
        BY <1>a, <2>1, OwnerAssumption
      <4> DEFINE S == {c \in Channels : netWorker[c] = w0}
      <4>2. {c \in Channels : netWorker'[c] = w0} = S \cup {a}
        BY <3>1, <3>2 DEF TypeOK
      <4>3. a \notin S /\ IsFiniteSet(S)
        BY <3>2, <4>1, ChannelsAssumption, FS_Subset
      <4>4. Cardinality(S \cup {a}) = Cardinality(S) + 1
        BY <4>3, FS_AddElement
      <4> QED
        BY <4>2, <4>4 DEF Assigned
    <3>5. \A v \in Pool : /\ Assigned(v) \in Nat /\ Assigned(v)' \in Nat
                          /\ Lap(v) \in {0, 1} /\ Lap(v)' \in {0, 1}
      <4>1. (\A v : Assigned(v) \in Nat)'
        BY AssignedCounts, PTL
      <4> QED
        BY <4>1, AssignedCounts DEF Lap
    <3>6. ASSUME NEW v \in Pool, NEW w \in Pool
          PROVE  Assigned(v)' - Lap(v)' = Assigned(w)' - Lap(w)'
      <4>1. Assigned(v) - Lap(v) = Assigned(w) - Lap(w)
        BY <1>b, <2>3
      <4>2. CASE workerIndex + 1 < size
        <5>1. w0 = workerIndex + 1
          BY <1>a, <2>1, <4>2 DEF Following
        <5>2. \A x \in Pool : Assigned(x)' - Lap(x)' = Assigned(x) - Lap(x)
          <6> TAKE x \in Pool
          <6>1. x # w0 => Lap(x)' = Lap(x)
            BY <1>a, <2>1, <5>1 DEF Lap
          <6>2. x = w0 => Lap(x)' = 1 /\ Lap(x) = 0
            BY <1>a, <2>1, <5>1 DEF Lap
          <6> QED
            BY <3>3, <3>4, <3>5, <6>1, <6>2
        <5> QED
          BY <4>1, <5>2
      <4>3. CASE workerIndex + 1 >= size
        <5>1. w0 = 0 /\ workerIndex = size - 1
          BY <1>a, <2>1, <4>3 DEF Following
        <5>2. \A x \in Pool : Assigned(x)' - Lap(x)' = Assigned(x) - Lap(x) + 1
          <6> TAKE x \in Pool
          <6>1. Lap(x) = 1
            BY <1>a, <5>1 DEF Lap
          <6>2. x # w0 => Lap(x)' = 0
            BY <1>a, <2>1, <5>1 DEF Lap
          <6>3. x = w0 => Lap(x)' = 1
            BY <1>a, <2>1, <5>1 DEF Lap
          <6> QED
            BY <3>3, <3>4, <3>5, <6>1, <6>2, <6>3
        <5> QED
          BY <4>1, <5>2
      <4> QED
        BY <1>a, <4>2, <4>3
    <3>7. \A v, w \in Pool : Assigned(v)' <= Assigned(w)' + 1
      <4> TAKE v, w \in Pool
      <4> QED
        BY <3>5, <3>6
    <3> QED
      BY <1>u, <2>1, <3>6, <3>7 DEF Balanced
  <2> QED
    BY <2>2, <2>3
<1>6. ASSUME NEW cs, OnAccept(cs) PROVE Balanced'
  BY <1>1, <1>6, <1>b DEF OnAccept
<1>7. CASE Close \/ RunTask \/ UNCHANGED vars
  BY <1>1, <1>7, <1>b DEF Close, RunTask, vars
<1>8. ASSUME NEW w, NEW x, \/ TakeAccept(w, x) \/ ChannelCloses(w, x)
                          \/ OwnSocket(w, x) \/ StopWorker(w) \/ WorkerEnds(w)
                          \/ ChildFinished(w)
      PROVE  Balanced'
  BY <1>1, <1>8, <1>b DEF TakeAccept, ChannelCloses, OwnSocket, StopWorker, WorkerEnds,
                          ChildFinished, serverVars
<1> QED
  BY <1>2, <1>3, <1>4, <1>5, <1>6, <1>7, <1>8, <1>d DEF Next, ServerStep, WorkerStep, EnvStep

-----------------------------------------------------------------------------
(* The theorems.                                                           *)

LEMMA Inductive == Spec => []IInv
<1>1. Init => IInv
  BY InitTyped, InitOneOwner, InitBalanced DEF IInv
<1>2. IInv /\ [Next]_vars => IInv'
  BY NextTyped, NextOneOwner, NextBalanced DEF IInv
<1> QED
  BY <1>1, <1>2, PTL DEF Spec

(* The server's indices, queues and counters stay in range, for any pool.  *)
THEOREM TypeCorrect == Spec => []TypeOK
<1>1. IInv => TypeOK
  BY DEF IInv
<1> QED
  BY <1>1, Inductive, PTL

(* At every moment one list of one thread holds a connection, and its      *)
(* mNetWorker names that thread: from TcpServer::onAccept through the      *)
(* server's and a worker's queue to the worker's sockets, whatever ends    *)
(* or closes meanwhile.                                                    *)
THEOREM OwnedOnce == Spec => []OneOwner
<1>1. IInv => OneOwner
  BY DEF IInv
<1> QED
  BY <1>1, Inductive, PTL

(* The turns of nextWorker deal the connections out evenly.                *)
THEOREM DealtEvenly == Spec => []EvenShares
<1>1. IInv => EvenShares
  BY DEF IInv, Balanced, EvenShares
<1> QED
  BY <1>1, Inductive, PTL

(* A channel that the server closes names no worker then: none was set, or *)
(* TcpServer::accept put the server back, so that TcpChannel::close finds  *)
(* itself on the right thread.                                             *)
THEOREM ServerClosesItsOwn == Spec => ClosedByOwner
<1>1. ASSUME IInv, [Next]_vars, NEW c \in Channels,
             place[c] = "server", place'[c] = "closed"
      PROVE  netWorker'[c] \in {None, Server}
  <2>1. netWorker[c] = None
    BY <1>1, OneOwnerParts DEF IInv, Placed
  <2>2. CASE netWorker' = netWorker
    BY <2>1, <2>2
  <2>3. CASE ScanFinds
    <3>1. Accept(workerIndex', Head(batch))
      BY <2>3 DEF ScanFinds
    <3>2. CASE listening /\ life[workerIndex'] # "stopping"
      <4>1. place' = [place EXCEPT ![Head(batch)] = "inbox"]
        BY <3>1, <3>2 DEF Accept
      <4>2. FALSE
        BY <1>1, <4>1 DEF IInv, TypeOK
      <4> QED
        BY <4>2
    <3>3. CASE ~(listening /\ life[workerIndex'] # "stopping")
      <4>1. netWorker' = IF listening THEN [netWorker EXCEPT ![Head(batch)] = Server]
                                      ELSE netWorker
        BY <3>1, <3>3 DEF Accept
      <4> QED
        BY <1>1, <2>1, <4>1 DEF IInv, TypeOK
    <3> QED
      BY <3>2, <3>3
  <2> QED
    BY <1>1, <2>2, <2>3
       DEF Next, ServerStep, WorkerStep, EnvStep, OnAccept, Close, RunTask, NextWorker,
           ScanFull, ScanDangles, ScanGivesUp, TakeAccept, ChannelCloses, OwnSocket,
           StopWorker, WorkerEnds, ChildFinished, vars, serverVars
<1>2. IInv /\ [Next]_vars =>
        [\A c \in Channels : place[c] = "server" /\ place'[c] = "closed" =>
            netWorker'[c] \in {None, Server}]_vars
  BY <1>1
<1> QED
  BY <1>2, Inductive, PTL DEF Spec, ClosedByOwner

=============================================================================
