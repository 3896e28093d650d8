--------------------------- MODULE TcpServerWorker ---------------------------
(***************************************************************************)
(* A server thread that hands each accepted connection to one of a pool of *)
(* worker threads: TcpServerWorker::onTcpAccept and nextWorker on the      *)
(* server's thread, the TcpAcceptEvent of TcpServer::accept on its way,    *)
(* and TcpServer::accept(event) on the worker's thread.  The server reads  *)
(* the workers' socket counters, which are atomic, while the workers run.  *)
(* The server's thread is the parent of the workers' threads: it deletes   *)
(* one that has ended, and the pool keeps the pointer.                     *)
(* Event queues are mailboxes (module EventLoop shows that they are).      *)
(***************************************************************************)
EXTENDS Integers, Sequences, FiniteSets, SequencesExt

CONSTANTS
    Channels,      \* connections that clients make
    MaxWorkers,    \* the argument of createThread
    Limits,        \* values getMaxChannels, which is virtual, may return
    MaxOwn,        \* sockets a worker may open for itself, at most
    None, Server   \* values of mNetWorker beside the workers

ASSUME PoolAssumption ==
    MaxWorkers \in Nat /\ Limits \subseteq Nat /\ MaxOwn \in Nat
ASSUME ChannelsAssumption == IsFiniteSet(Channels)
ASSUME OwnerAssumption == None # Server /\ {None, Server} \cap Int = {}

VARIABLES
    size,          \* mWorkerPool.size()
    maxChannels,   \* TcpChannelWorker::getMaxChannels
    keeps,         \* mChildFinishedHandler is set, and keeps the workers
    workerIndex,   \* mWorkerIndex
    startIndex,    \* nextWorker's local of that name
    scanning,      \* the server's thread is inside nextWorker
    batch,         \* channels left to the accept task that is running
    tasks,         \* accept tasks in the server's queue: lists of channels
    listening,     \* TcpServer is open
    place,         \* where each connection is
    netWorker,     \* TcpChannel::mNetWorker
    inbox,         \* TcpAcceptEvents in each worker's queue
    life,          \* the worker: "running", "stopping", "ended" or "deleted"
    own,           \* sockets each worker opened for itself
    wild           \* the server has used a deleted worker

poolVars   == <<size, maxChannels, keeps>>
serverVars == <<poolVars, workerIndex, startIndex, scanning, batch, tasks,
                listening, wild>>
workerVars == <<inbox, life, own>>
vars == <<size, maxChannels, keeps, workerIndex, startIndex, scanning, batch,
          tasks, listening, place, netWorker, inbox, life, own, wild>>

WorkerIds == 0..(MaxWorkers - 1)
Pool      == 0..(size - 1)

(* Variants with a planted bug, named Bug..., stand before the definition  *)
(* they break; the specification does not use them.                        *)

\* createThread makes one thread too many
BugInitOneMore ==
    /\ size \in 0..(MaxWorkers + 1)
    /\ maxChannels \in Limits
    /\ keeps \in BOOLEAN
    /\ workerIndex = -1
    /\ startIndex = -1
    /\ scanning = FALSE
    /\ batch = <<>>
    /\ tasks = <<>>
    /\ listening = TRUE
    /\ place = [c \in Channels |-> "client"]
    /\ netWorker = [c \in Channels |-> None]
    /\ inbox = [w \in WorkerIds |-> <<>>]
    /\ life = [w \in WorkerIds |-> "running"]
    /\ own = [w \in WorkerIds |-> 0]
    /\ wild = FALSE

\* createThread stops at the first thread that fails to start.
Init ==
    /\ size \in 0..MaxWorkers
    /\ maxChannels \in Limits
    /\ keeps \in BOOLEAN
    /\ workerIndex = -1
    /\ startIndex = -1
    /\ scanning = FALSE
    /\ batch = <<>>
    /\ tasks = <<>>
    /\ listening = TRUE
    /\ place = [c \in Channels |-> "client"]
    /\ netWorker = [c \in Channels |-> None]
    /\ inbox = [w \in WorkerIds |-> <<>>]
    /\ life = [w \in WorkerIds |-> "running"]
    /\ own = [w \in WorkerIds |-> 0]
    /\ wild = FALSE

OpenOn(w)      == {c \in Channels : place[c] = "open" /\ netWorker[c] = w}
SocketCount(w) == own[w] + Cardinality(OpenOn(w))

\* isSocketFull adds nothing: getMaxChannels never exceeds UINT16_MAX.
IsChannelFull(w) == SocketCount(w) >= maxChannels

-----------------------------------------------------------------------------
(* The server's thread.                                                    *)
Idle == batch = <<>>

\* The end of a worker's thread, whose ChildFinishedEvent is handled here:
\* the worker is deleted with the events that its queue has.
ChildFinished(w) ==
    /\ Idle
    /\ ~keeps
    /\ life[w] = "ended"
    /\ life' = [life EXCEPT ![w] = "deleted"]
    /\ inbox' = [inbox EXCEPT ![w] = <<>>]
    /\ place' = [c \in Channels |->
                    IF c \in ToSet(inbox[w]) THEN "closed" ELSE place[c]]
    /\ UNCHANGED <<serverVars, netWorker, own>>

\* TcpServer::onAccept takes every pending connection and posts one task.
OnAccept(cs) ==
    /\ Idle
    /\ listening
    /\ cs # <<>>
    /\ \A i \in 1..Len(cs) : place[cs[i]] = "client"
    /\ tasks' = Append(tasks, cs)
    /\ place' = [c \in Channels |->
                    IF c \in ToSet(cs) THEN "server" ELSE place[c]]
    /\ UNCHANGED <<poolVars, workerIndex, startIndex, scanning, batch,
                   listening, wild, netWorker, workerVars>>

\* TcpServerWorker::close, from another handler of the thread
Close ==
    /\ Idle
    /\ listening
    /\ listening' = FALSE
    /\ UNCHANGED <<poolVars, workerIndex, startIndex, scanning, batch, tasks,
                   wild, place, netWorker, workerVars>>

RunTask ==
    /\ Idle
    /\ tasks # <<>>
    /\ batch' = Head(tasks)
    /\ tasks' = Tail(tasks)
    /\ UNCHANGED <<poolVars, workerIndex, startIndex, scanning, listening,
                   wild, place, netWorker, workerVars>>

CloseChannel(c) == place' = [place EXCEPT ![c] = "closed"]

\* every search begins at the first worker
BugNextWorkerRestarts ==
    /\ batch # <<>>
    /\ ~scanning
    /\ size > 0
    /\ scanning' = TRUE
    /\ startIndex' = -1
    /\ workerIndex' = -1
    /\ UNCHANGED <<poolVars, batch, place, tasks, listening, wild, netWorker,
                   workerVars>>

\* onTcpAccept for the next channel: nextWorker begins.  With an empty pool
\* there is no worker, and the channel is closed.
NextWorker ==
    /\ batch # <<>>
    /\ ~scanning
    /\ IF size = 0
       THEN /\ CloseChannel(Head(batch))
            /\ batch' = Tail(batch)
            /\ UNCHANGED <<scanning, startIndex>>
       ELSE /\ scanning' = TRUE
            /\ startIndex' = workerIndex
            /\ UNCHANGED <<batch, place>>
    /\ UNCHANGED <<poolVars, workerIndex, tasks, listening, wild, netWorker,
                   workerVars>>

Following(i) == IF i + 1 >= size THEN 0 ELSE i + 1

\* One turn of nextWorker's loop.  The turn that is back at the start ends
\* the loop before that worker's counter is read.
Looks ==
    /\ scanning
    /\ ~wild
    /\ workerIndex' = Following(workerIndex)
    /\ workerIndex' # startIndex

ScanFull ==
    /\ Looks
    /\ life[workerIndex'] # "deleted"
    /\ IsChannelFull(workerIndex')
    /\ UNCHANGED <<poolVars, startIndex, scanning, batch, tasks, listening,
                   wild, place, netWorker, workerVars>>

\* The counter of a deleted worker is read.  Anything may follow, and
\* nothing the server does from then on is.
ScanDangles ==
    /\ Looks
    /\ life[workerIndex'] = "deleted"
    /\ wild' = TRUE
    /\ UNCHANGED <<poolVars, startIndex, scanning, batch, tasks, listening,
                   place, netWorker, workerVars>>

\* without a worker the connection is forgotten, not closed
BugScanForgets ==
    /\ scanning
    /\ ~wild
    /\ workerIndex' = Following(workerIndex)
    /\ workerIndex' = startIndex
    /\ scanning' = FALSE
    /\ batch' = Tail(batch)
    /\ UNCHANGED <<poolVars, startIndex, tasks, listening, wild, place,
                   netWorker, workerVars>>

ScanGivesUp ==
    /\ scanning
    /\ ~wild
    /\ workerIndex' = Following(workerIndex)
    /\ workerIndex' = startIndex
    /\ scanning' = FALSE
    /\ CloseChannel(Head(batch))
    /\ batch' = Tail(batch)
    /\ UNCHANGED <<poolVars, startIndex, tasks, listening, wild, netWorker,
                   workerVars>>

\* mNetWorker is only set by the worker
BugAcceptUnowned(w, c) ==
    IF listening /\ life[w] # "stopping"
    THEN /\ UNCHANGED netWorker
         /\ inbox' = [inbox EXCEPT ![w] = Append(@, c)]
         /\ place' = [place EXCEPT ![c] = "inbox"]
    ELSE /\ CloseChannel(c)
         /\ UNCHANGED <<netWorker, inbox>>

\* mNetWorker is not put back when the worker refuses
BugAcceptRefused(w, c) ==
    /\ netWorker' = [netWorker EXCEPT ![c] = IF listening THEN w ELSE @]
    /\ IF listening /\ life[w] # "stopping"
       THEN /\ inbox' = [inbox EXCEPT ![w] = Append(@, c)]
            /\ place' = [place EXCEPT ![c] = "inbox"]
       ELSE /\ CloseChannel(c)
            /\ UNCHANGED inbox

\* TcpServer::accept: the channel goes to the worker w unless the server is
\* closed or the worker's queue, behind a StopEvent, refuses it.
Accept(w, c) ==
    IF listening /\ life[w] # "stopping"
    THEN /\ netWorker' = [netWorker EXCEPT ![c] = w]
         /\ inbox' = [inbox EXCEPT ![w] = Append(@, c)]
         /\ place' = [place EXCEPT ![c] = "inbox"]
    ELSE /\ netWorker' = IF listening THEN [netWorker EXCEPT ![c] = Server]
                                      ELSE netWorker
         /\ CloseChannel(c)
         /\ UNCHANGED inbox

ScanFinds ==
    /\ Looks
    /\ life[workerIndex'] # "deleted"
    /\ ~IsChannelFull(workerIndex')
    /\ scanning' = FALSE
    /\ Accept(workerIndex', Head(batch))
    /\ batch' = Tail(batch)
    /\ UNCHANGED <<poolVars, startIndex, tasks, listening, wild, life, own>>

-----------------------------------------------------------------------------
(* The workers' threads.                                                   *)
Lives(w) == life[w] \in {"running", "stopping"}

\* The handler of TcpEventId::Accept.  registerTcpChannel may fail; then
\* the channel goes with the last reference to it.
TakeAccept(w, registered) ==
    /\ Lives(w)
    /\ inbox[w] # <<>>
    /\ inbox' = [inbox EXCEPT ![w] = Tail(@)]
    /\ place' = [place EXCEPT ![Head(inbox[w])] =
                    IF registered THEN "open" ELSE "closed"]
    /\ UNCHANGED <<serverVars, netWorker, life, own>>

\* The channel is closed by the peer or by the worker.
ChannelCloses(w, c) ==
    /\ Lives(w)
    /\ c \in OpenOn(w)
    /\ CloseChannel(c)
    /\ UNCHANGED <<serverVars, netWorker, workerVars>>

OwnSocket(w, n) ==
    /\ Lives(w)
    /\ n \in {own[w] - 1, own[w] + 1} \cap 0..MaxOwn
    /\ own' = [own EXCEPT ![w] = n]
    /\ UNCHANGED <<serverVars, place, netWorker, inbox, life>>

StopWorker(w) ==
    /\ life[w] = "running"
    /\ life' = [life EXCEPT ![w] = "stopping"]
    /\ UNCHANGED <<serverVars, place, netWorker, inbox, own>>

\* The loop is over, by its StopEvent or by a failed wait, and onExit closes
\* the sockets and clears the queue, which then takes events again, until
\* the worker is deleted.
WorkerEnds(w) ==
    /\ Lives(w)
    /\ life[w] = "stopping" => inbox[w] = <<>>
    /\ life' = [life EXCEPT ![w] = "ended"]
    /\ inbox' = [inbox EXCEPT ![w] = <<>>]
    /\ own' = [own EXCEPT ![w] = 0]
    /\ place' = [c \in Channels |->
                    IF c \in OpenOn(w) \cup ToSet(inbox[w]) THEN "closed"
                                                            ELSE place[c]]
    /\ UNCHANGED <<serverVars, netWorker>>

-----------------------------------------------------------------------------
Lists == {s \in UNION {[1..n -> Channels] : n \in 1..Cardinality(Channels)} :
             \A i, j \in DOMAIN s : s[i] = s[j] => i = j}

ServerStep ==
    \/ RunTask \/ NextWorker
    \/ ScanFull \/ ScanGivesUp \/ ScanFinds \/ ScanDangles

WorkerStep(w) == \E registered \in BOOLEAN : TakeAccept(w, registered)

EnvStep ==
    \/ \E cs \in Lists : OnAccept(cs)
    \/ Close
    \/ \E w \in Pool : \/ \E c \in Channels : ChannelCloses(w, c)
                       \/ \E n \in 0..MaxOwn : OwnSocket(w, n)
                       \/ StopWorker(w) \/ WorkerEnds(w)

Next ==
    \/ ServerStep \/ EnvStep
    \/ \E w \in Pool : WorkerStep(w) \/ ChildFinished(w)

(* Both loops take their next event as long as they have not ended.        *)
Fairness ==
    /\ WF_vars(ServerStep)
    /\ \A w \in WorkerIds : WF_vars(ChildFinished(w))
    /\ \A w \in WorkerIds : WF_vars(w \in Pool /\ WorkerStep(w))

Spec == Init /\ [][Next]_vars
FairSpec == Spec /\ Fairness

-----------------------------------------------------------------------------
(* Properties.                                                             *)

TypeOK ==
    /\ size \in 0..MaxWorkers
    /\ maxChannels \in Limits
    /\ workerIndex \in -1..(MaxWorkers - 1)
    /\ startIndex \in -1..(MaxWorkers - 1)
    /\ scanning \in BOOLEAN
    /\ batch \in Seq(Channels)
    /\ tasks \in Seq(Seq(Channels))
    /\ listening \in BOOLEAN
    /\ place \in [Channels -> {"client", "server", "inbox", "open", "closed"}]
    /\ netWorker \in [Channels -> WorkerIds \cup {None, Server}]
    /\ inbox \in [WorkerIds -> Seq(Channels)]
    /\ life \in [WorkerIds -> {"running", "stopping", "ended", "deleted"}]
    /\ own \in [WorkerIds -> 0..MaxOwn]
    /\ keeps \in BOOLEAN
    /\ wild \in BOOLEAN

Holds(s, c) == \E i \in 1..Len(s) : s[i] = c

\* the lists of channels the server has before it, the one at hand first
Waiting == <<batch>> \o tasks

(* A connection is in one pair of hands: it waits in one accept task of    *)
(* the server, once, or in the queue of the one worker its mNetWorker      *)
(* names, once, or is registered with that worker, or is in no list.       *)
OneOwner ==
    /\ \A k, l \in 1..Len(Waiting) :
          \A i \in 1..Len(Waiting[k]), j \in 1..Len(Waiting[l]) :
             Waiting[k][i] = Waiting[l][j] => k = l /\ i = j
    /\ \A w \in WorkerIds : IsInjective(inbox[w])
    /\ \A c \in Channels :
        /\ (\E k \in 1..Len(Waiting) : Holds(Waiting[k], c)) <=> place[c] = "server"
        /\ place[c] \in {"client", "server"} => netWorker[c] = None
        /\ place[c] \in {"inbox", "open"} => netWorker[c] \in Pool
        /\ \A w \in WorkerIds :
              Holds(inbox[w], c) <=> place[c] = "inbox" /\ netWorker[c] = w

(* TcpChannel::close asserts that the channel's mNetWorker, if any, is the *)
(* current one.  A channel the server closes because no worker takes it is *)
(* not left with the worker that refused it.                               *)
ClosedByOwner ==
    [][\A c \in Channels :
         place[c] = "server" /\ place'[c] = "closed" =>
             netWorker'[c] \in {None, Server}]_vars

Assigned(w) == Cardinality({c \in Channels : netWorker[c] = w})

\* no worker was ever full or stopped
Untroubled == /\ \A w \in Pool : life[w] = "running"
              /\ MaxOwn + Cardinality(Channels) <= maxChannels

(* While no worker was ever full or stopped, the connections are dealt out *)
(* evenly: no worker is given two more than another.                       *)
EvenShares ==
    Untroubled => \A v, w \in Pool : Assigned(v) <= Assigned(w) + 1

(* nextWorker on its first call has no worker to stop at: as long as every *)
(* worker is full with sockets of its own it goes on looking.              *)
FirstScanSpins ==
    scanning /\ startIndex = -1 /\ \E w \in Pool : own[w] >= maxChannels

(* A connection taken off the listen queue is registered with a worker or  *)
(* closed in the end, also when its worker ends before it has taken it:    *)
(* then it goes with the worker's queue.  That is not so when the user's   *)
(* childFinished handler keeps the worker, whose queue nobody reads, or    *)
(* when the server has used a worker that was deleted.                     *)
EveryConnectionSettles ==
    \A c \in Channels :
        place[c] = "server" ~>
            \/ place[c] \in {"open", "closed"}
            \/ keeps /\ place[c] = "inbox" /\ life[netWorker[c]] = "ended"
            \/ wild
            \/ FirstScanSpins

(* nextWorker looks for a worker by "round robin": it gives a connection   *)
(* up only if every worker in the pool is full.                            *)
RoundRobin ==
    [][ScanGivesUp => \A w \in Pool : IsChannelFull(w)]_vars
=============================================================================
