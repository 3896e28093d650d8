-------------------------- MODULE TcpChannelProofs --------------------------
(***************************************************************************)
(* Proofs about module TcpChannel, for any set of channels and any numbers *)
(* of descriptors, connections, sends and data: every socket has one       *)
(* owner, a close handler is not called for a connection its user has      *)
(* closed, what is sent goes out in order, and every send is answered once *)
(* and, as long as nothing is cancelled, with the truth.                   *)
(***************************************************************************)
EXTENDS TcpChannel, SequenceLemmas

-----------------------------------------------------------------------------
(* The inductive invariant.                                                *)

(* User code runs in a task or an event; a wait that took the token of the *)
(* queue left it its tasks; a socket has no more unread than came; and     *)
(* what is only to be closed has nothing to send.                          *)
LoopShape ==
    /\ pc = "user" => current \in {Received(c) : c \in Channels} \cup {Other}
    /\ cancelled => queue # <<>>
    /\ \A fd \in Fds : kernel[fd] # None => kernel[fd].unread <= arrived
    /\ \A fd \in Fds : Closing(fd) => item[fd].buffer = <<>>

(* The connections with a close task in the queue q                        *)
Pending(q) == {n \in Conns : \E i \in 1..Len(q) : q[i].is = "close" /\ q[i].conn = n}

Once(q) == \A i, j \in 1..Len(q) :
              q[i].is = "close" /\ q[j].is = "close" /\ q[i].conn = q[j].conn => i = j

(* The user can still take back the close task of c, or has, or has set    *)
(* the handler anew.                                                       *)
Held(c) == LET n == chan[c].conn IN
           chan[c].canceller = n \/ n \in taken \/ <<n, "close">> \in missed

(* A connection is numbered once and is told to be closed once, when its   *)
(* channel is closed already and none of its close tasks is left.          *)
Telling ==
    /\ Once(queue)
    /\ Pending(queue) \cap told = {}
    /\ Pending(queue) \cup told \cup closedFirst \subseteq 1..conns
    /\ \A n \in Pending(queue) \cap closedFirst :
          n \in taken \/ <<n, "close">> \in missed
    /\ \A c \in Channels :
          /\ chan[c].conn <= conns
          /\ Open(c) => chan[c].conn \notin Pending(queue) \cup told \cup closedFirst \cup {0}
          /\ ~Open(c) /\ chan[c].conn \in Pending(queue) => Held(c)
    /\ \A c, d \in Channels : chan[c].conn = chan[d].conn => c = d \/ chan[c].conn = 0

IInv == TypeOK /\ LoopShape /\ SocketOwners /\ Telling /\ CloseNotToldAfterClose

-----------------------------------------------------------------------------
(* Lists of units and of tasks.                                            *)

(* The end of a list is a list.                                            *)
LEMMA DropIs ==
    ASSUME NEW S, NEW s \in Seq(S), NEW n \in Nat
    PROVE  SubSeq(s, n + 1, Len(s)) \in Seq(S)
<1>1. Len(s) \in Nat
  BY LenProperties
<1>2. CASE n <= Len(s)
  BY <1>1, <1>2, SubSeqProperties
<1>3. CASE n > Len(s)
  BY <1>1, <1>3, EmptySeq
<1> QED
  BY <1>1, <1>2, <1>3

(* A buffer holds a number of messages, and no more in a part of it.       *)
LEMMA WholeNat ==
    ASSUME NEW b \in Seq(Sends), NEW n \in Nat
    PROVE  Messages(b) \in Nat /\ Whole(b, n) \in Nat
<1> DEFINE rest == SubSeq(b, n + 1, Len(b))
<1>1. rest \in Seq(Sends)
  BY DropIs
<1>2. ToSet(b) \subseteq Sends /\ IsFiniteSet(Sends)
  <2>1. MaxSends \in Nat
    BY BoundsAssumption
  <2>2. IsFiniteSet(1..MaxSends)
    BY <2>1, FS_Interval
  <2> QED
    BY <2>2, ToSetIs DEF Sends
<1>3. IsFiniteSet(ToSet(b))
  BY <1>2, FS_Subset
<1>4. ToSet(rest) \subseteq ToSet(b)
  <2>1. ASSUME NEW x \in ToSet(rest) PROVE x \in ToSet(b)
    <3>0. Len(b) \in Nat
      BY LenProperties
    <3>1. PICK i \in 1..Len(rest) : rest[i] = x
      BY <1>1, ToSetIs
    <3>2. CASE n <= Len(b)
      <4>1. Len(rest) = Len(b) - n /\ \A j \in 1..(Len(b) - n) : rest[j] = b[j + n]
        BY <3>0, <3>2, SubSeqProperties
      <4>2. i + n \in 1..Len(b) /\ b[i + n] = x
        BY <3>0, <3>1, <3>2, <4>1
      <4> QED
        BY <4>2, ToSetIs
    <3>3. CASE n > Len(b)
      <4>1. Len(rest) = 0
        BY <3>0, <3>3
      <4> QED
        BY <3>1, <4>1
    <3> QED
      BY <3>0, <3>2, <3>3
  <2> QED
    BY <2>1
<1>5. /\ Cardinality(ToSet(b)) \in Nat /\ Cardinality(ToSet(rest)) \in Nat
      /\ Cardinality(ToSet(rest)) <= Cardinality(ToSet(b))
  BY <1>3, <1>4, FS_Subset, FS_CardinalityType
<1> QED
  BY <1>5 DEF Whole, Messages

(* The answers to a number of sends.                                       *)
LEMMA AnswersAre ==
    ASSUME NEW c \in Channels, NEW hs \in Seq(Sends), NEW n \in Nat,
           NEW o \in {"ok", "error"}
    PROVE  /\ Answers(c, hs, n, o) \in Seq(Task)
           /\ \A i \in 1..Len(Answers(c, hs, n, o)) : Answers(c, hs, n, o)[i].is = "sent"
<1> DEFINE m == Min({n, Len(hs)})
<1>1. Len(hs) \in Nat /\ \A i \in 1..Len(hs) : hs[i] \in Sends
  BY LenProperties, ElementOfSeq
<1>2. {n, Len(hs)} \in SUBSET Nat
  BY <1>1
<1>3. m \in {n, Len(hs)} /\ m <= Len(hs)
  BY <1>2, MinNat
<1> HIDE DEF m
<1>4. m \in Nat /\ \A i \in 1..m : i \in 1..Len(hs)
  BY <1>1, <1>3
<1>5. \A i \in 1..m : Sent(c, hs[i], o) \in Task /\ Sent(c, hs[i], o).is = "sent"
  BY <1>1, <1>4 DEF Sent, Task
<1>6. Answers(c, hs, n, o) = [i \in 1..m |-> Sent(c, hs[i], o)]
  BY DEF Answers, m
<1>7. [i \in 1..m |-> Sent(c, hs[i], o)] \in [1..m -> Task]
  BY <1>5
<1> QED
  BY <1>4, <1>5, <1>6, <1>7

Tasks == Task \cup {Stop}

(* What a task of each kind carries.                                       *)
LEMMA TaskKinds ==
    ASSUME NEW t \in Tasks
    PROVE  /\ t.is = "receive" => t.channel \in Channels /\ t = Received(t.channel)
           /\ t.is = "sent" => t.send \in Sends /\ t.outcome \in {"ok", "error"}
           /\ t.is = "close" => t.conn \in Conns
           /\ t.is \in {"receive", "sent", "close", "stop"}
<1>1. CASE t \in {Received(c) : c \in Channels}
  BY <1>1 DEF Received
<1>2. CASE t \in {Sent(c, s, o) : c \in Channels, s \in Sends, o \in {"ok", "error"}}
  BY <1>2 DEF Sent
<1>3. CASE t \in {Closed(c, n) : c \in Channels, n \in Conns}
  BY <1>3 DEF Closed
<1>4. CASE t = Stop
  BY <1>4 DEF Stop
<1> QED
  BY <1>1, <1>2, <1>3, <1>4 DEF Tasks, Task

Mute(ts) == \A i \in 1..Len(ts) : ts[i].is # "close"

(* One queue after another.                                                *)
LEMMA PendingConcat ==
    ASSUME NEW q \in Seq(Tasks), NEW ts \in Seq(Tasks)
    PROVE  /\ q \o ts \in Seq(Tasks)
           /\ Pending(q \o ts) = Pending(q) \cup Pending(ts)
           /\ Once(q) /\ Once(ts) /\ Pending(q) \cap Pending(ts) = {} => Once(q \o ts)
           /\ q # <<>> => q \o ts # <<>>
<1>1. /\ q \o ts \in Seq(Tasks) /\ Len(q) \in Nat /\ Len(ts) \in Nat
      /\ Len(q \o ts) = Len(q) + Len(ts)
      /\ \A i \in 1..Len(q) : (q \o ts)[i] = q[i]
      /\ \A i \in 1..Len(ts) : (q \o ts)[i + Len(q)] = ts[i]
  <2>1. /\ q \o ts \in Seq(Tasks) /\ Len(q) \in Nat /\ Len(ts) \in Nat
        /\ Len(q \o ts) = Len(q) + Len(ts)
        /\ \A i \in 1..(Len(q) + Len(ts)) :
              (q \o ts)[i] = IF i <= Len(q) THEN q[i] ELSE ts[i - Len(q)]
    BY LenProperties, ConcatProperties
  <2> QED
    BY <2>1
<1> DEFINE r == q \o ts
<1>2. \A i \in 1..Len(r) : \/ i \in 1..Len(q) /\ r[i] = q[i]
                           \/ i - Len(q) \in 1..Len(ts) /\ r[i] = ts[i - Len(q)]
  <2> TAKE i \in 1..Len(r)
  <2>1. CASE i <= Len(q)
    BY <1>1, <2>1
  <2>2. CASE i > Len(q)
    <3>1. i - Len(q) \in 1..Len(ts) /\ (i - Len(q)) + Len(q) = i
      BY <1>1, <2>2
    <3> QED
      BY <1>1, <3>1
  <2> QED
    BY <1>1, <2>1, <2>2
<1>3. \A i \in 1..Len(ts) : i + Len(q) \in 1..Len(r)
  BY <1>1
<1>4. \A i \in 1..Len(q) : i \in 1..Len(r)
  BY <1>1
<1>5. Pending(r) = Pending(q) \cup Pending(ts)
  <2>1. ASSUME NEW n \in Pending(r) PROVE n \in Pending(q) \cup Pending(ts)
    BY <1>2 DEF Pending
  <2>2. ASSUME NEW n \in Pending(q) \cup Pending(ts) PROVE n \in Pending(r)
    <3> HIDE DEF r
    <3> QED
      BY <1>1, <1>3, <1>4 DEF Pending, r
  <2> QED
    BY <2>1, <2>2
<1>6. ASSUME Once(q), Once(ts), Pending(q) \cap Pending(ts) = {} PROVE Once(r)
  <2> SUFFICES ASSUME NEW i \in 1..Len(r), NEW j \in 1..Len(r),
                      r[i].is = "close", r[j].is = "close", r[i].conn = r[j].conn
               PROVE  i = j
    BY DEF Once
  <2>1. CASE i \in 1..Len(q) /\ r[i] = q[i] /\ j \in 1..Len(q) /\ r[j] = q[j]
    BY <1>6, <2>1 DEF Once
  <2>2. CASE /\ i - Len(q) \in 1..Len(ts) /\ r[i] = ts[i - Len(q)]
             /\ j - Len(q) \in 1..Len(ts) /\ r[j] = ts[j - Len(q)]
    <3>1. i - Len(q) = j - Len(q)
      BY <1>6, <2>2 DEF Once
    <3> QED
      BY <1>1, <3>1
  <2>3. CASE \/ /\ i \in 1..Len(q) /\ r[i] = q[i]
                /\ j - Len(q) \in 1..Len(ts) /\ r[j] = ts[j - Len(q)]
             \/ /\ j \in 1..Len(q) /\ r[j] = q[j]
                /\ i - Len(q) \in 1..Len(ts) /\ r[i] = ts[i - Len(q)]
    <3>1. r[i] \in Tasks /\ r[i].conn \in Conns
      <4>1. r[i] \in Tasks
        BY <1>1, ElementOfSeq
      <4> QED
        BY <2>3, <4>1, TaskKinds
    <3>2. r[i].conn \in Pending(q) /\ r[i].conn \in Pending(ts)
      BY <2>3, <3>1 DEF Pending
    <3> QED
      BY <1>6, <3>2
  <2> QED
    BY <1>2, <2>1, <2>2, <2>3
<1>7. q # <<>> => r # <<>>
  BY <1>1, EmptySeq
<1> QED
  BY <1>1, <1>5, <1>6, <1>7

(* A queue without its first task.                                         *)
LEMMA PendingTail ==
    ASSUME NEW q \in Seq(Tasks), q # <<>>, Once(q)
    PROVE  /\ Head(q) \in Tasks /\ Tail(q) \in Seq(Tasks) /\ Once(Tail(q))
           /\ Head(q).is # "close" => Pending(Tail(q)) = Pending(q)
           /\ Head(q).is = "close" => /\ Head(q).conn \in Pending(q)
                                      /\ Pending(Tail(q)) = Pending(q) \ {Head(q).conn}
<1>1. /\ Len(q) \in Nat \ {0} /\ Head(q) = q[1] /\ Head(q) \in Tasks
      /\ Tail(q) \in Seq(Tasks) /\ Len(Tail(q)) = Len(q) - 1
      /\ \A i \in 1..Len(Tail(q)) : Tail(q)[i] = q[i + 1]
  BY EmptySeq, HeadTailProperties
<1> DEFINE t == Tail(q)
<1> HIDE DEF t
<1>2. \A i \in 1..Len(t) : i + 1 \in 1..Len(q) /\ t[i] = q[i + 1]
  BY <1>1 DEF t
<1>3. \A i \in 1..Len(q) : i = 1 \/ (i - 1 \in 1..Len(t) /\ t[i - 1] = q[i])
  BY <1>1 DEF t
<1>4. Once(t)
  BY <1>1, <1>2 DEF Once, t
<1>5. 1 \in 1..Len(q)
  BY <1>1
<1>6. CASE q[1].is # "close"
  <2>1. Pending(t) = Pending(q)
    <3>1. ASSUME NEW n \in Pending(t) PROVE n \in Pending(q)
      BY <1>2, <3>1 DEF Pending
    <3>2. ASSUME NEW n \in Pending(q) PROVE n \in Pending(t)
      <4>1. PICK i \in 1..Len(q) : q[i].is = "close" /\ q[i].conn = n
        BY DEF Pending
      <4>2. i - 1 \in 1..Len(t) /\ t[i - 1] = q[i]
        BY <1>3, <1>6, <4>1
      <4> QED
        BY <4>1, <4>2 DEF Pending
    <3> QED
      BY <3>1, <3>2
  <2> QED
    BY <1>1, <1>4, <1>6, <2>1 DEF t
<1>7. CASE q[1].is = "close"
  <2>1. q[1].conn \in Conns
    BY <1>1, <1>7, TaskKinds
  <2>2. q[1].conn \in Pending(q)
    BY <1>5, <1>7, <2>1 DEF Pending
  <2>3. ASSUME NEW n \in Pending(t) PROVE n \in Pending(q) \ {q[1].conn}
    <3>1. PICK i \in 1..Len(t) : t[i].is = "close" /\ t[i].conn = n
      BY DEF Pending
    <3>2. n \in Pending(q)
      BY <1>2, <3>1 DEF Pending
    <3>3. i + 1 # 1
      BY <3>1
    <3>4. n # q[1].conn
      BY <1>2, <1>5, <1>7, <3>1, <3>3 DEF Once
    <3> QED
      BY <3>2, <3>4
  <2>4. ASSUME NEW n \in Pending(q), n # q[1].conn PROVE n \in Pending(t)
    BY <1>3, <2>4 DEF Pending
  <2> QED
    BY <1>1, <1>4, <1>7, <2>2, <2>3, <2>4 DEF t
<1> QED
  BY <1>6, <1>7

(* Tasks of other kinds are posted.                                        *)
LEMMA PostedMute ==
    ASSUME NEW q \in Seq(Tasks), NEW ts \in Seq(Tasks), Mute(ts)
    PROVE  /\ Posted(q, ts) \in Seq(Tasks)
           /\ Pending(Posted(q, ts)) = Pending(q)
           /\ Once(q) => Once(Posted(q, ts))
           /\ q # <<>> => Posted(q, ts) # <<>>
<1>1. Pending(ts) = {} /\ Once(ts)
  BY DEF Mute, Pending, Once
<1>2. /\ q \o ts \in Seq(Tasks)
      /\ Pending(q \o ts) = Pending(q)
      /\ Once(q) => Once(q \o ts)
      /\ q # <<>> => q \o ts # <<>>
  <2>1. Pending(q) \cap Pending(ts) = {} /\ Pending(q) \cup Pending(ts) = Pending(q)
    BY <1>1
  <2> QED
    BY <1>1, <2>1, PendingConcat
<1> QED
  BY <1>2 DEF Posted

(* The close task of a connection that has none is posted.                 *)
LEMMA PostedClosed ==
    ASSUME NEW q \in Seq(Tasks), NEW c \in Channels, NEW n \in Conns,
           n \notin Pending(q)
    PROVE  LET p == Posted(q, <<Closed(c, n)>>) IN
           /\ p \in Seq(Tasks)
           /\ Pending(p) = Pending(q) \cup (IF stopPosted THEN {} ELSE {n})
           /\ Once(q) => Once(p)
           /\ q # <<>> => p # <<>>
<1> DEFINE t == <<Closed(c, n)>>
<1>1. t \in Seq(Tasks) /\ Len(t) = 1 /\ t[1] = Closed(c, n)
  BY DEF Tasks, Task
<1>2. Closed(c, n).is = "close" /\ Closed(c, n).conn = n
  BY DEF Closed
<1>3. Pending(t) = {n} /\ Once(t)
  BY <1>1, <1>2 DEF Pending, Once
<1> HIDE DEF t
<1>4. Pending(q) \cap Pending(t) = {}
  BY <1>3
<1>5. /\ q \o t \in Seq(Tasks)
      /\ Pending(q \o t) = Pending(q) \cup Pending(t)
      /\ Once(q) => Once(q \o t)
      /\ q # <<>> => q \o t # <<>>
  BY <1>1, <1>3, <1>4, PendingConcat
<1> QED
  BY <1>3, <1>5 DEF Posted, t

(* A StopEvent is posted.                                                  *)
LEMMA PostedStop ==
    ASSUME NEW q \in Seq(Tasks)
    PROVE  /\ Append(q, Stop) \in Seq(Tasks) /\ Append(q, Stop) # <<>>
           /\ Pending(Append(q, Stop)) = Pending(q)
           /\ Once(q) => Once(Append(q, Stop))
<1>1. /\ Len(q) \in Nat /\ Append(q, Stop) \in Seq(Tasks)
      /\ Len(Append(q, Stop)) = Len(q) + 1
      /\ \A i \in 1..Len(q) : Append(q, Stop)[i] = q[i]
      /\ Append(q, Stop)[Len(q) + 1] = Stop
  BY LenProperties, AppendProperties DEF Tasks
<1>2. Stop.is # "close"
  BY DEF Stop
<1>3. \A i \in 1..Len(Append(q, Stop)) :
         i \in 1..Len(q) \/ (i = Len(q) + 1 /\ Append(q, Stop)[i].is # "close")
  BY <1>1, <1>2
<1>4. Pending(Append(q, Stop)) = Pending(q)
  <2>1. \A i \in 1..Len(q) : i \in 1..Len(Append(q, Stop))
    BY <1>1
  <2> QED
    BY <1>1, <1>3, <2>1 DEF Pending
<1>5. Once(q) => Once(Append(q, Stop))
  BY <1>1, <1>3 DEF Once
<1>6. Append(q, Stop) # <<>>
  BY <1>1, EmptySeq
<1> QED
  BY <1>1, <1>4, <1>5, <1>6

-----------------------------------------------------------------------------
(* Steps, seen from the owners of sockets.                                 *)

SameOwners ==
    /\ \A fd \in Fds : /\ item'[fd] = None <=> item[fd] = None
                       /\ item[fd] # None => item'[fd].channel = item[fd].channel
                       /\ kernel'[fd] = None <=> kernel[fd] = None
    /\ \A c \in Channels : chan'[c].fd = chan[c].fd
    /\ registered' = registered
    /\ timers' = timers
    /\ pc' # "drain" => pc # "drain" \/ Items = {}

(* A step that leaves every socket, item and channel where it is           *)
LEMMA OwnersKept ==
    ASSUME TypeOK, SocketOwners, SameOwners
    PROVE  SocketOwners'
<1>1. \A fd \in Fds : (Active(fd) <=> Active(fd)') /\ (Closing(fd) <=> Closing(fd)')
  BY DEF SameOwners, Active, Closing
<1>2. Items' = Items /\ Live' = Live
  BY DEF SameOwners, Items, Live
<1>3. \A c \in Channels : Open(c)' <=> Open(c)
  BY DEF SameOwners, Open
<1>4. /\ \A fd \in Fds : Active(fd)' => item[fd] # None /\ item'[fd].channel = item[fd].channel
                                        /\ item[fd].channel \in Channels
      /\ \A c \in Channels : Open(c)' => chan[c].fd \in Fds
  BY <1>1, <1>3 DEF SameOwners, Active, TypeOK, ItemState, ChannelState, Open
<1>5. \A fd \in Fds : Active(fd)' => chan'[item'[fd].channel].fd = fd
  BY <1>1, <1>4 DEF SocketOwners, SameOwners
<1>6. \A c \in Channels :
         Open(c)' => (Active(chan[c].fd) /\ item[chan[c].fd].channel = c)'
  <2> SUFFICES ASSUME NEW c \in Channels, Open(c)'
               PROVE  (Active(chan[c].fd) /\ item[chan[c].fd].channel = c)'
    OBVIOUS
  <2>1. PICK fd \in Fds : fd = chan[c].fd
    BY <1>4
  <2>2. Active(fd) /\ item[fd].channel = c
    BY <1>3, <2>1 DEF SocketOwners
  <2>3. Active(fd)' /\ item'[fd].channel = c
    BY <1>1, <2>2 DEF SameOwners, Active
  <2>4. chan'[c].fd = fd
    BY <2>1 DEF SameOwners
  <2> QED
    BY <2>3, <2>4 DEF Active
<1>7. {fd \in Fds : Closing(fd)'} = {fd \in Fds : Closing(fd)}
  BY <1>1
<1>8. timers' \subseteq {fd \in Fds : Closing(fd)'}
  BY <1>7 DEF SocketOwners, SameOwners
<1>9. pc' # "drain" => timers' = {fd \in Fds : Closing(fd)'}
  <2>1. CASE pc # "drain"
    BY <1>7, <2>1 DEF SocketOwners, SameOwners
  <2>2. CASE Items = {}
    <3>1. {fd \in Fds : Closing(fd)} = {}
      BY <2>2 DEF Items, Closing
    <3> QED
      BY <1>7, <3>1 DEF SocketOwners, SameOwners
  <2> QED
    BY <2>1, <2>2 DEF SameOwners
<1>10. Live' = Items' /\ registered' = Items'
  BY <1>2 DEF SocketOwners, SameOwners
<1> QED
  BY <1>5, <1>6, <1>8, <1>9, <1>10 DEF SocketOwners

(* What Release does to the descriptors it is given, and to the others     *)
LEMMA ReleaseIs ==
    ASSUME TypeOK, NEW fds \in SUBSET Fds, Release(fds)
    PROVE  /\ registered' = registered \ fds /\ registered' \subseteq Fds
           /\ item' \in [Fds -> ItemState \cup {None}]
           /\ kernel' \in [Fds -> SocketState \cup {None}]
           /\ \A fd \in fds : item'[fd] = None /\ kernel'[fd] = None
           /\ \A fd \in Fds \ fds : item'[fd] = item[fd] /\ kernel'[fd] = kernel[fd]
  BY DEF Release, TypeOK

(* A step that lets a descriptor go, with the channel that had it, if any  *)
Frees(fd) ==
    /\ Release({fd})
    /\ timers' = timers \ {fd}
    /\ \A c \in Channels :
          chan'[c].fd = IF Active(fd) /\ item[fd].channel = c THEN None ELSE chan[c].fd
    /\ pc' # "drain" => pc # "drain"

(* A step that lets the socket of a descriptor go, its item and its timer. *)
LEMMA OwnersFreed ==
    ASSUME TypeOK, SocketOwners, NEW fd \in Fds, Frees(fd)
    PROVE  SocketOwners'
<1>1. /\ registered' = registered \ {fd}
      /\ item'[fd] = None /\ kernel'[fd] = None
      /\ \A f \in Fds \ {fd} : item'[f] = item[f] /\ kernel'[f] = kernel[f]
  BY ReleaseIs DEF Frees
<1>2. /\ \A f \in Fds : /\ Active(f)' <=> Active(f) /\ f # fd
                        /\ Closing(f)' <=> Closing(f) /\ f # fd
  BY <1>1 DEF Active, Closing
<1>3. Items' = Items \ {fd} /\ Live' = Live \ {fd}
  BY <1>1 DEF Items, Live
<1>4. \A c \in Channels : chan[c].fd = fd => Active(fd) /\ item[fd].channel = c
  <2> SUFFICES ASSUME NEW c \in Channels, chan[c].fd = fd
               PROVE  Active(fd) /\ item[fd].channel = c
    OBVIOUS
  <2>1. Open(c)
    BY NoneAssumption DEF Open
  <2> QED
    BY <2>1 DEF SocketOwners
<1>5. \A f \in Fds : Active(f)' => chan'[item'[f].channel].fd = f
  <2> SUFFICES ASSUME NEW f \in Fds, Active(f)' PROVE chan'[item'[f].channel].fd = f
    OBVIOUS
  <2>1. Active(f) /\ f # fd /\ item'[f] = item[f] /\ item[f].channel \in Channels
    BY <1>1, <1>2 DEF Active, TypeOK, ItemState
  <2>2. PICK c \in Channels : c = item[f].channel
    BY <2>1
  <2>3. chan[c].fd = f
    BY <2>1, <2>2 DEF SocketOwners
  <2>4. ~(Active(fd) /\ item[fd].channel = c)
    BY <2>1, <2>2, <2>3 DEF SocketOwners
  <2>5. chan'[c].fd = f
    BY <2>3, <2>4 DEF Frees
  <2> QED
    BY <2>1, <2>2, <2>5
<1>6. \A c \in Channels :
         Open(c)' => (Active(chan[c].fd) /\ item[chan[c].fd].channel = c)'
  <2> SUFFICES ASSUME NEW c \in Channels, Open(c)'
               PROVE  (Active(chan[c].fd) /\ item[chan[c].fd].channel = c)'
    OBVIOUS
  <2>1. Open(c) /\ chan'[c].fd = chan[c].fd /\ chan[c].fd # fd
    BY <1>4 DEF Frees, Open
  <2>2. PICK f \in Fds : f = chan[c].fd
    BY <2>1 DEF Open, TypeOK, ChannelState
  <2>3. Active(f) /\ item[f].channel = c /\ f # fd
    BY <2>1, <2>2 DEF SocketOwners
  <2>4. Active(f)' /\ item'[f].channel = c
    BY <1>1, <1>2, <2>3
  <2> QED
    BY <2>1, <2>2, <2>4 DEF Active
<1>7. {f \in Fds : Closing(f)'} = {f \in Fds : Closing(f)} \ {fd}
  BY <1>2
<1>8. timers' \subseteq {f \in Fds : Closing(f)'}
  BY <1>7 DEF SocketOwners, Frees
<1>9. pc' # "drain" => timers' = {f \in Fds : Closing(f)'}
  BY <1>7 DEF SocketOwners, Frees
<1>10. Live' = Items' /\ registered' = Items'
  BY <1>1, <1>3 DEF SocketOwners
<1> QED
  BY <1>5, <1>6, <1>8, <1>9, <1>10 DEF SocketOwners

-----------------------------------------------------------------------------
(* Steps, seen from the connections.                                       *)

SameTelling ==
    /\ \A c \in Channels : /\ chan'[c].fd = chan[c].fd
                           /\ chan'[c].conn = chan[c].conn
                           /\ chan'[c].canceller = chan[c].canceller
    /\ Pending(queue') = Pending(queue)
    /\ Once(queue')
    /\ UNCHANGED <<conns, taken, told, closedFirst>>
    /\ missed \subseteq missed'

(* A step that opens, closes and tells nothing                             *)
LEMMA TellingKept ==
    ASSUME Telling, CloseNotToldAfterClose, SameTelling
    PROVE  Telling' /\ CloseNotToldAfterClose'
  BY DEF Telling, CloseNotToldAfterClose, SameTelling, Held, Open

(* A step that closes an open channel and posts its close task, if there   *)
(* is one                                                                  *)
Closes(c) ==
    /\ Open(c)
    /\ chan'[c].fd = None /\ chan'[c].conn = chan[c].conn
    /\ \/ Pending(queue') = Pending(queue)
       \/ /\ Pending(queue') = Pending(queue) \cup {chan[c].conn}
          /\ chan'[c].canceller = chan[c].conn
    /\ \A d \in Channels \ {c} : /\ chan'[d].fd = chan[d].fd
                                 /\ chan'[d].conn = chan[d].conn
                                 /\ chan'[d].canceller = chan[d].canceller
    /\ Once(queue')
    /\ UNCHANGED <<conns, taken, told, closedFirst>>
    /\ missed \subseteq missed'

(* Closing a connection leaves it at most one close task, that of its end. *)
LEMMA TellingClosed ==
    ASSUME TypeOK, Telling, CloseNotToldAfterClose, NEW c \in Channels, Closes(c)
    PROVE  Telling' /\ CloseNotToldAfterClose'
<1> DEFINE n == chan[c].conn
<1>1. /\ n \in Conns /\ n \in 1..conns
      /\ n \notin Pending(queue) \cup told \cup closedFirst
  <2>1. n \in Nat /\ n # 0 /\ n <= conns /\ conns \in Nat /\ n \in Conns
    BY BoundsAssumption DEF Telling, Closes, TypeOK, ChannelState, Conns
  <2> QED
    BY <2>1 DEF Telling, Closes
<1>2. /\ chan'[c].fd = None /\ chan'[c].conn = n
      /\ Pending(queue') \ {n} = Pending(queue)
      /\ n \in Pending(queue') => chan'[c].canceller = n
      /\ \A d \in Channels \ {c} : /\ chan'[d].fd = chan[d].fd
                                   /\ chan'[d].conn = chan[d].conn
                                   /\ chan'[d].canceller = chan[d].canceller
      /\ conns' = conns /\ taken' = taken /\ told' = told /\ closedFirst' = closedFirst
      /\ missed \subseteq missed'
      /\ Once(queue')
  BY <1>1 DEF Closes
<1> HIDE DEF n
<1>3. \A d \in Channels : chan'[d].conn = chan[d].conn
  BY <1>2 DEF n
<1>4. \A d \in Channels \ {c} : chan[d].conn # n
  BY <1>1 DEF Telling, n
<1>5. /\ Pending(queue') \cap told' = {}
      /\ Pending(queue') \cup told' \cup closedFirst' \subseteq 1..conns'
      /\ \A m \in Pending(queue') \cap closedFirst' :
            m \in taken' \/ <<m, "close">> \in missed'
  BY <1>1, <1>2 DEF Telling
<1>6. ASSUME NEW d \in Channels
      PROVE  /\ chan'[d].conn <= conns'
             /\ Open(d)' => chan'[d].conn \notin Pending(queue') \cup told'
                                                        \cup closedFirst' \cup {0}
             /\ ~Open(d)' /\ chan'[d].conn \in Pending(queue') => Held(d)'
  <2>1. CASE d = c
    BY <1>2, <2>1 DEF Open, Held, Telling, n
  <2>2. CASE d # c
    BY <1>2, <1>4, <2>2 DEF Open, Held, Telling
  <2> QED
    BY <2>1, <2>2
<1>7. \A d, e \in Channels : chan'[d].conn = chan'[e].conn => d = e \/ chan'[d].conn = 0
  BY <1>3 DEF Telling
<1>8. CloseNotToldAfterClose'
  BY <1>2 DEF CloseNotToldAfterClose
<1> QED
  BY <1>2, <1>5, <1>6, <1>7, <1>8 DEF Telling

-----------------------------------------------------------------------------
(* What the steps are made of.                                             *)

(* A channel whose handlers are set stays what it is; so does one that     *)
(* loses its socket, otherwise.                                            *)
LEMMA ChannelOps ==
    ASSUME NEW ch \in ChannelState, NEW b \in BOOLEAN, NEW hs \in Seq(Sends)
    PROVE  /\ \A r \in {[ch EXCEPT !.receiver = b], [ch EXCEPT !.closer = b],
                       [ch EXCEPT !.handlers = hs]} :
                 /\ r \in ChannelState
                 /\ r.fd = ch.fd /\ r.conn = ch.conn /\ r.canceller = ch.canceller
           /\ [ch EXCEPT !.fd = None] \in ChannelState
           /\ [ch EXCEPT !.fd = None].fd = None
           /\ [ch EXCEPT !.fd = None].conn = ch.conn
           /\ [ch EXCEPT !.fd = None].canceller = ch.canceller
<1>1. /\ [ch EXCEPT !.receiver = b] \in ChannelState
      /\ [ch EXCEPT !.receiver = b].fd = ch.fd
      /\ [ch EXCEPT !.receiver = b].conn = ch.conn
      /\ [ch EXCEPT !.receiver = b].canceller = ch.canceller
  BY DEF ChannelState
<1>2. /\ [ch EXCEPT !.closer = b] \in ChannelState
      /\ [ch EXCEPT !.closer = b].fd = ch.fd
      /\ [ch EXCEPT !.closer = b].conn = ch.conn
      /\ [ch EXCEPT !.closer = b].canceller = ch.canceller
  BY DEF ChannelState
<1>3. /\ [ch EXCEPT !.handlers = hs] \in ChannelState
      /\ [ch EXCEPT !.handlers = hs].fd = ch.fd
      /\ [ch EXCEPT !.handlers = hs].conn = ch.conn
      /\ [ch EXCEPT !.handlers = hs].canceller = ch.canceller
  BY DEF ChannelState
<1>4. /\ [ch EXCEPT !.fd = None] \in ChannelState
      /\ [ch EXCEPT !.fd = None].fd = None
      /\ [ch EXCEPT !.fd = None].conn = ch.conn
      /\ [ch EXCEPT !.fd = None].canceller = ch.canceller
  BY DEF ChannelState
<1> QED
  BY <1>1, <1>2, <1>3, <1>4

(* A change of one channel that its socket and connection do not see       *)
LEMMA ChannelChanged ==
    ASSUME TypeOK, NEW c \in Channels, NEW r \in ChannelState,
           r.fd = chan[c].fd, r.conn = chan[c].conn, r.canceller = chan[c].canceller,
           chan' = [chan EXCEPT ![c] = r]
    PROVE  /\ chan' \in [Channels -> ChannelState]
           /\ \A d \in Channels : /\ chan'[d].fd = chan[d].fd
                                  /\ chan'[d].conn = chan[d].conn
                                  /\ chan'[d].canceller = chan[d].canceller
<1>1. chan \in [Channels -> ChannelState]
  BY DEF TypeOK
<1>2. chan' \in [Channels -> ChannelState]
  BY <1>1
<1>3. \A d \in Channels : chan'[d] = IF d = c THEN r ELSE chan[d]
  BY <1>1
<1> QED
  BY <1>2, <1>3

(* Sends answered in part or in whole: nothing but handlers and tasks       *)
LEMMA AnswerIs ==
    ASSUME TypeOK, NEW c \in Channels, NEW hs \in Seq(Sends), NEW n \in Nat,
           NEW o \in {"ok", "error"}, Once(queue), Answer(c, hs, n, o)
    PROVE  /\ chan' \in [Channels -> ChannelState]
           /\ \A d \in Channels : /\ chan'[d].fd = chan[d].fd
                                  /\ chan'[d].conn = chan[d].conn
                                  /\ chan'[d].canceller = chan[d].canceller
           /\ queue' \in Seq(Tasks) /\ Once(queue') /\ Pending(queue') = Pending(queue)
           /\ queue # <<>> => queue' # <<>>
<1>1. SubSeq(hs, n + 1, Len(hs)) \in Seq(Sends)
  BY DropIs
<1>2. chan' = [chan EXCEPT ![c].handlers = SubSeq(hs, n + 1, Len(hs))]
  BY DEF Answer
<1>3. /\ Answers(c, hs, n, o) \in Seq(Tasks) /\ Mute(Answers(c, hs, n, o))
      /\ queue \in Seq(Tasks)
  <2>1. Answers(c, hs, n, o) \in Seq(Task) /\ Mute(Answers(c, hs, n, o))
    BY AnswersAre DEF Mute
  <2> QED
    BY <2>1 DEF Tasks, TypeOK
<1>4. queue' = Posted(queue, Answers(c, hs, n, o))
  BY DEF Answer
<1> QED
  <2>0. chan[c] \in ChannelState
    BY DEF TypeOK
  <2> DEFINE r == [chan[c] EXCEPT !.handlers = SubSeq(hs, n + 1, Len(hs))]
  <2>r. r \in ChannelState /\ r.fd = chan[c].fd /\ r.conn = chan[c].conn
        /\ r.canceller = chan[c].canceller
    BY <1>1, <2>0, ChannelOps
  <2>c. chan' = [chan EXCEPT ![c] = r]
    BY <1>2
  <2> HIDE DEF r
  <2>1. /\ chan' \in [Channels -> ChannelState]
        /\ \A d \in Channels : /\ chan'[d].fd = chan[d].fd
                               /\ chan'[d].conn = chan[d].conn
                               /\ chan'[d].canceller = chan[d].canceller
    BY <2>r, <2>c, ChannelChanged
  <2> QED
    BY <1>3, <1>4, <2>1, PostedMute

(* An open channel closed by its peer, after tasks of other kinds were     *)
(* posted or taken                                                         *)
LEMMA OnCloseIs ==
    ASSUME TypeOK, Telling, NEW c \in Channels, Open(c), NEW q \in Seq(Tasks),
           Once(q), Pending(q) = Pending(queue), OnClose(c, q),
           UNCHANGED <<conns, taken, told, closedFirst>>, missed \subseteq missed'
    PROVE  /\ chan' \in [Channels -> ChannelState]
           /\ queue' \in Seq(Tasks)
           /\ q # <<>> => queue' # <<>>
           /\ Closes(c)
<1> DEFINE n == chan[c].conn
           m == IF ~chan[c].closer THEN chan[c].canceller
                ELSE IF stopPosted THEN 0 ELSE chan[c].conn
<1>1. /\ chan[c] \in ChannelState /\ n \in Conns /\ n \notin Pending(q)
      /\ m \in Conns \cup {0}
  BY DEF TypeOK, Telling, ChannelState
<1>2. chan' = [chan EXCEPT ![c] = ClosedChannel(n, m)]
  BY Zenon DEF OnClose
<1> HIDE DEF m
<1>3. chan' \in [Channels -> ChannelState]
  <2>1. ClosedChannel(n, m) \in ChannelState
    BY <1>1 DEF ChannelState, ClosedChannel
  <2> QED
    BY <1>2, <2>1 DEF TypeOK
<1>4. /\ chan'[c].fd = None /\ chan'[c].conn = n /\ chan'[c].canceller = m
      /\ \A d \in Channels \ {c} : chan'[d] = chan[d]
  <2>1. chan'[c] = ClosedChannel(n, m)
    BY <1>2 DEF TypeOK
  <2> QED
    BY <1>2, <2>1 DEF ClosedChannel, TypeOK
<1> USE DEF m
<1>5. CASE chan[c].closer
  <2>1. queue' = Posted(q, <<Closed(c, n)>>)
    BY <1>5 DEF OnClose
  <2>2. /\ queue' \in Seq(Tasks) /\ Once(queue')
        /\ Pending(queue') = Pending(queue) \cup (IF stopPosted THEN {} ELSE {n})
        /\ q # <<>> => queue' # <<>>
    BY <1>1, <2>1, PostedClosed
  <2> QED
    BY <1>3, <1>4, <1>5, <2>2 DEF Closes
<1>6. CASE ~chan[c].closer
  <2>1. queue' = Posted(q, <<>>)
    BY <1>6 DEF OnClose
  <2>2. <<>> \in Seq(Tasks) /\ Mute(<<>>)
    BY DEF Mute
  <2>3. /\ queue' \in Seq(Tasks) /\ Once(queue') /\ Pending(queue') = Pending(queue)
        /\ q # <<>> => queue' # <<>>
    BY <2>1, <2>2, PostedMute
  <2> QED
    BY <1>1, <1>3, <1>4, <1>6, <2>3 DEF Closes
<1> QED
  BY <1>5, <1>6

(* What is done to a socket leaves a socket, with as much unread unless it *)
(* is read.                                                                *)
LEMMA SocketOps ==
    ASSUME NEW k \in SocketState
    PROVE  /\ k # None /\ k.unread \in 0..MaxIn
           /\ Edge(k) \in SocketState /\ Edge(k).unread = k.unread
           /\ TakeError(k) \in SocketState /\ TakeError(k).unread = k.unread
           /\ Polled(k) \in SocketState /\ Polled(k).unread = k.unread
           /\ \A r \in {"free", "full", "wanted"} :
                 /\ [k EXCEPT !.room = r] \in SocketState
                 /\ [k EXCEPT !.room = r].unread = k.unread
           /\ \A p \in {"fin", "reset"} :
                 /\ [k EXCEPT !.peer = p] \in SocketState
                 /\ [k EXCEPT !.peer = p].unread = k.unread
           /\ \A n \in 0..MaxIn : /\ [k EXCEPT !.unread = n] \in SocketState
                                  /\ [k EXCEPT !.unread = n].unread = n
<1>1. k # None /\ k.unread \in 0..MaxIn
  BY NoneAssumption DEF SocketState
<1>2. Edge(k) \in SocketState /\ Edge(k).unread = k.unread
  BY DEF Edge, SocketState
<1>3. \A j \in SocketState :
         TakeError(j) \in SocketState /\ TakeError(j).unread = j.unread
  BY DEF TakeError, SocketState
<1>4. Polled(k) \in SocketState /\ Polled(k).unread = k.unread
  <2> DEFINE j == [k EXCEPT !.ready = FALSE,
                            !.room = IF @ = "full" THEN "wanted" ELSE @]
  <2>1. j \in SocketState /\ j.unread = k.unread
    BY DEF SocketState
  <2> HIDE DEF j
  <2>2. TakeError(j) \in SocketState /\ TakeError(j).unread = k.unread
    BY <1>3, <2>1
  <2> QED
    BY <2>2 DEF Polled, j
<1>5. \A r \in {"free", "full", "wanted"} :
         /\ [k EXCEPT !.room = r] \in SocketState
         /\ [k EXCEPT !.room = r].unread = k.unread
  BY DEF SocketState
<1>6. \A p \in {"fin", "reset"} :
         /\ [k EXCEPT !.peer = p] \in SocketState
         /\ [k EXCEPT !.peer = p].unread = k.unread
  BY DEF SocketState
<1>7. \A n \in 0..MaxIn : /\ [k EXCEPT !.unread = n] \in SocketState
                          /\ [k EXCEPT !.unread = n].unread = n
  BY DEF SocketState
<1> QED
  BY <1>1, <1>2, <1>3, <1>4, <1>5, <1>6, <1>7

(* The kernel's side of a socket changes, by what may have arrived.        *)
LEMMA SocketTouched ==
    ASSUME TypeOK, LoopShape, NEW fd \in Fds, kernel[fd] # None,
           NEW k \in SocketState, kernel' = [kernel EXCEPT ![fd] = k],
           arrived' \in 0..MaxIn, arrived <= arrived', k.unread <= arrived'
    PROVE  /\ kernel' \in [Fds -> SocketState \cup {None}]
           /\ \A f \in Fds : kernel'[f] = None <=> kernel[f] = None
           /\ \A f \in Fds : kernel'[f] # None => kernel'[f].unread <= arrived'
<1>1. k # None /\ arrived \in Nat /\ arrived' \in Nat
  <2>1. MaxIn \in Nat /\ arrived \in 0..MaxIn
    BY BoundsAssumption DEF TypeOK
  <2>2. k # None
    BY SocketOps
  <2> QED
    BY <2>1, <2>2
<1>2. kernel'[fd] = k /\ \A f \in Fds \ {fd} : kernel'[f] = kernel[f]
  BY DEF TypeOK
<1>3. ASSUME NEW f \in Fds, kernel'[f] # None PROVE kernel'[f].unread <= arrived'
  <2>1. CASE f = fd
    BY <1>2, <2>1
  <2>2. CASE f # fd
    <3>1. kernel'[f] = kernel[f] /\ kernel[f] # None /\ kernel[f] \in SocketState
      BY <1>2, <1>3, <2>2 DEF TypeOK
    <3>2. kernel[f].unread \in 0..MaxIn /\ kernel[f].unread <= arrived
      BY <3>1, SocketOps DEF LoopShape
    <3> QED
      BY <1>1, <3>1, <3>2
  <2> QED
    BY <2>1, <2>2
<1> QED
  BY <1>1, <1>2, <1>3 DEF TypeOK

(* What a live socket is                                                   *)
LEMMA SocketIs ==
    ASSUME TypeOK, LoopShape, NEW fd \in Fds, kernel[fd] # None
    PROVE  /\ kernel[fd] \in SocketState /\ MaxIn \in Nat
           /\ arrived \in 0..MaxIn
           /\ kernel[fd].unread \in 0..MaxIn /\ kernel[fd].unread <= arrived
<1>1. kernel[fd] \in SocketState /\ arrived \in 0..MaxIn /\ kernel[fd].unread <= arrived
  BY DEF TypeOK, LoopShape
<1>2. kernel[fd].unread \in 0..MaxIn /\ MaxIn \in Nat
  BY <1>1, SocketOps, BoundsAssumption
<1> QED
  BY <1>1, <1>2

-----------------------------------------------------------------------------
(* The steps of the kernel and those that only use a socket.               *)

UsesSocket ==
    /\ UNCHANGED <<style, chan, item, registered, timers, pc, batch, cancelled,
                   queue, current, stopPosted, conns, taken, told, closedFirst,
                   missed, sends, wire, answered, dropped>>
    /\ syncs' \in 0..MaxSends /\ Len(sends) + syncs' <= MaxSends
    /\ arrived' \in 0..MaxIn /\ arrived <= arrived'

(* A step that changes no more than that keeps the invariant.              *)
LEMMA UsesSocketKeeps ==
    ASSUME IInv, UsesSocket, NEW fd \in Fds, kernel[fd] # None,
           NEW k \in SocketState, kernel' = [kernel EXCEPT ![fd] = k],
           k.unread <= arrived'
    PROVE  IInv'
<1>1. /\ chan' = chan /\ item' = item /\ registered' = registered /\ timers' = timers
      /\ pc' = pc /\ queue' = queue /\ current' = current /\ cancelled' = cancelled
      /\ conns' = conns /\ taken' = taken /\ told' = told /\ closedFirst' = closedFirst
      /\ missed' = missed
  BY DEF UsesSocket
<1>2. /\ kernel' \in [Fds -> SocketState \cup {None}]
      /\ \A f \in Fds : kernel'[f] = None <=> kernel[f] = None
      /\ \A f \in Fds : kernel'[f] # None => kernel'[f].unread <= arrived'
  BY SocketTouched DEF IInv, UsesSocket
<1>3. TypeOK'
  BY <1>2 DEF IInv, TypeOK, UsesSocket
<1>4. SocketOwners'
  <2>1. SameOwners
    BY <1>1, <1>2 DEF SameOwners
  <2> QED
    BY <2>1, OwnersKept DEF IInv
<1>5. Telling' /\ CloseNotToldAfterClose'
  <2>1. SameTelling
    BY <1>1 DEF SameTelling, IInv, Telling
  <2> QED
    BY <2>1, TellingKept DEF IInv
<1>6. LoopShape'
  BY <1>1, <1>2 DEF IInv, LoopShape, Closing
<1> QED
  BY <1>3, <1>4, <1>5, <1>6 DEF IInv

(* The peer sends: the kernel holds no more than has arrived.              *)
LEMMA PeerSendsKeeps ==
    ASSUME IInv, NEW fd \in Fds, PeerSends(fd)
    PROVE  IInv'
<1> DEFINE n == kernel[fd].unread + 1
           j == [kernel[fd] EXCEPT !.unread = n]
<1>1. kernel[fd] # None /\ arrived < MaxIn /\ arrived' = arrived + 1
  BY DEF PeerSends, Live
<1>2. /\ kernel[fd] \in SocketState /\ MaxIn \in Nat /\ arrived \in 0..MaxIn
      /\ kernel[fd].unread \in 0..MaxIn /\ kernel[fd].unread <= arrived
  BY <1>1, SocketIs DEF IInv
<1>3. n \in 0..MaxIn /\ n <= arrived' /\ arrived' \in 0..MaxIn /\ arrived <= arrived'
  BY <1>1, <1>2
<1>4. kernel' = [kernel EXCEPT ![fd] = Edge(j)]
  <2>1. kernel' = [kernel EXCEPT ![fd] =
                      Edge([kernel[fd] EXCEPT !.unread = kernel[fd].unread + 1])]
    BY DEF PeerSends
  <2> QED
    BY Zenon, <2>1
<1> HIDE DEF n
<1>5. j \in SocketState /\ j.unread = n
  BY <1>2, <1>3, SocketOps
<1> HIDE DEF j
<1>6. Edge(j) \in SocketState /\ Edge(j).unread = n
  BY <1>5, SocketOps
<1>7. UsesSocket
  BY <1>3 DEF PeerSends, UsesSocket, IInv, TypeOK, loopVars, closeVars, sendVars
<1> QED
  BY <1>1, <1>3, <1>4, <1>6, <1>7, UsesSocketKeeps

(* The peer closes or resets the connection.                               *)
LEMMA PeerEndsKeeps ==
    ASSUME IInv, NEW fd \in Fds, NEW how \in {"fin", "reset"}, PeerEnds(fd, how)
    PROVE  IInv'
<1> DEFINE j == [kernel[fd] EXCEPT !.peer = how]
<1>1. kernel[fd] # None
  BY DEF PeerEnds, Live
<1>2. /\ kernel[fd] \in SocketState /\ MaxIn \in Nat /\ arrived \in 0..MaxIn
      /\ kernel[fd].unread \in 0..MaxIn /\ kernel[fd].unread <= arrived
  BY <1>1, SocketIs DEF IInv
<1>3. kernel' = [kernel EXCEPT ![fd] = Edge(j)] /\ arrived' = arrived
  BY DEF PeerEnds
<1>5. j \in SocketState /\ j.unread = kernel[fd].unread
  BY <1>2, SocketOps
<1> HIDE DEF j
<1>6. Edge(j) \in SocketState /\ Edge(j).unread = kernel[fd].unread
  BY <1>5, SocketOps
<1>7. UsesSocket
  BY <1>2, <1>3 DEF PeerEnds, UsesSocket, IInv, TypeOK, loopVars, closeVars, sendVars
<1> QED
  BY <1>1, <1>2, <1>3, <1>6, <1>7, UsesSocketKeeps

(* The kernel has room to send again.                                      *)
LEMMA RoomBackKeeps ==
    ASSUME IInv, NEW fd \in Fds, RoomBack(fd)
    PROVE  IInv'
<1> DEFINE j == [kernel[fd] EXCEPT !.room = "free"]
           k == IF kernel[fd].room = "wanted" THEN Edge(j) ELSE j
<1>1. kernel[fd] # None
  BY DEF RoomBack, Live
<1>2. /\ kernel[fd] \in SocketState /\ MaxIn \in Nat /\ arrived \in 0..MaxIn
      /\ kernel[fd].unread \in 0..MaxIn /\ kernel[fd].unread <= arrived
  BY <1>1, SocketIs DEF IInv
<1>3. kernel' = [kernel EXCEPT ![fd] = k] /\ arrived' = arrived
  BY DEF RoomBack
<1>5. j \in SocketState /\ j.unread = kernel[fd].unread
  BY <1>2, SocketOps
<1> HIDE DEF j
<1>6. k \in SocketState /\ k.unread = kernel[fd].unread
  BY <1>5, SocketOps
<1> HIDE DEF k
<1>7. UsesSocket
  BY <1>2, <1>3 DEF RoomBack, UsesSocket, IInv, TypeOK, loopVars, closeVars, sendVars
<1> QED
  BY <1>1, <1>2, <1>3, <1>6, <1>7, UsesSocketKeeps

(* A synchronous send touches the socket only.                             *)
LEMMA SendNowKeeps ==
    ASSUME IInv, NEW c \in Channels, SendNow(c)
    PROVE  IInv'
<1>1. PICK fd \in Fds : fd = chan[c].fd /\ kernel[fd] # None
  <2>1. Open(c) /\ Active(chan[c].fd)
    BY DEF SendNow, IInv, SocketOwners
  <2>2. chan[c].fd \in Fds
    BY <2>1 DEF Open, IInv, TypeOK, ChannelState
  <2> QED
    BY <2>1, <2>2 DEF Active, IInv, SocketOwners, Live, Items
<1>2. /\ kernel[fd] \in SocketState /\ MaxIn \in Nat /\ arrived \in 0..MaxIn
      /\ kernel[fd].unread \in 0..MaxIn /\ kernel[fd].unread <= arrived
  BY <1>1, SocketIs DEF IInv
<1>3. UsesSocket /\ arrived' = arrived
  <2>1. syncs' \in 0..MaxSends /\ Len(sends) + syncs' <= MaxSends
    <3>1. MaxSends \in Nat /\ Len(sends) \in Nat /\ syncs \in 0..MaxSends
      BY BoundsAssumption, LenProperties DEF IInv, TypeOK
    <3>2. Len(sends) + syncs < MaxSends /\ syncs' = syncs + 1
      BY DEF SendNow
    <3> QED
      BY <3>1, <3>2
  <2> QED
    BY <1>2, <2>1 DEF SendNow, InUserCode, UsesSocket, loopVars, closeVars
<1>4. CASE Broken(kernel[fd])
  <2>1. kernel' = [kernel EXCEPT ![fd] = TakeError(kernel[fd])]
    BY <1>1, <1>4 DEF SendNow
  <2> QED
    BY <1>1, <1>2, <1>3, <2>1, SocketOps, UsesSocketKeeps
<1>5. CASE ~Broken(kernel[fd])
  <2>1. PICK room \in {"free", "full", "wanted"} :
           kernel' = [kernel EXCEPT ![fd] = [kernel[fd] EXCEPT !.room = room]]
    BY <1>1, <1>5 DEF SendNow, RoomAfter
  <2> DEFINE k == [kernel[fd] EXCEPT !.room = room]
  <2>2. k \in SocketState /\ k.unread = kernel[fd].unread
    BY <1>2, SocketOps
  <2>3. kernel' = [kernel EXCEPT ![fd] = k]
    BY <2>1
  <2> HIDE DEF k
  <2> QED
    BY <1>1, <1>2, <1>3, <2>2, <2>3, UsesSocketKeeps
<1> QED
  BY <1>4, <1>5

-----------------------------------------------------------------------------
(* Two kinds of steps.                                                     *)

(* What holds of each descriptor by itself.                                *)
FdShape ==
    \A fd \in Fds : /\ kernel[fd] # None => kernel[fd].unread <= arrived
                    /\ Closing(fd) => item[fd].buffer = <<>>

(* A step that opens, closes and tells nothing keeps the invariant.        *)
LEMMA QuietKeeps ==
    ASSUME IInv, SameOwners, SameTelling, TypeOK', LoopShape'
    PROVE  IInv'
  BY OwnersKept, TellingKept DEF IInv

(* So does one that closes a channel and lets its socket go.               *)
LEMMA ClosingKeeps ==
    ASSUME IInv, NEW c \in Channels, NEW fd \in Fds, Frees(fd), Closes(c),
           TypeOK', LoopShape'
    PROVE  IInv'
  BY OwnersFreed, TellingClosed DEF IInv

(* What is left when some descriptors are let go has its shape.            *)
LEMMA ReleaseShape ==
    ASSUME IInv, NEW fds \in SUBSET Fds, Release(fds), arrived' = arrived
    PROVE  FdShape'
<1>1. /\ \A fd \in fds : item'[fd] = None /\ kernel'[fd] = None
      /\ \A fd \in Fds \ fds : item'[fd] = item[fd] /\ kernel'[fd] = kernel[fd]
  BY ReleaseIs DEF IInv
<1> QED
  BY <1>1 DEF FdShape, IInv, LoopShape, Closing

(* An open channel has an item and a socket.                               *)
LEMMA OpenIs ==
    ASSUME IInv, NEW c \in Channels, Open(c)
    PROVE  /\ chan[c].fd \in Fds /\ kernel[chan[c].fd] # None
           /\ item[chan[c].fd] # None /\ item[chan[c].fd] \in ItemState
           /\ item[chan[c].fd].channel = c
           /\ Active(chan[c].fd) /\ chan[c].fd \notin timers
<1>1. chan[c].fd \in Fds
  BY DEF Open, IInv, TypeOK, ChannelState
<1>2. Active(chan[c].fd) /\ item[chan[c].fd].channel = c
  BY DEF IInv, SocketOwners
<1>3. item[chan[c].fd] # None /\ ~Closing(chan[c].fd)
  BY <1>2 DEF Active, Closing
<1>4. kernel[chan[c].fd] # None
  BY <1>1, <1>3 DEF IInv, SocketOwners, Live, Items
<1> QED
  BY <1>1, <1>2, <1>3, <1>4 DEF IInv, SocketOwners, TypeOK

(* onTcpReceiveEof, with tasks of other kinds posted or taken before       *)
LEMMA EofIs ==
    ASSUME IInv, NEW c \in Channels, Open(c), NEW q \in Seq(Tasks),
           Once(q), Pending(q) = Pending(queue), Release({chan[c].fd}), OnClose(c, q),
           UNCHANGED <<timers, conns, taken, told, closedFirst, arrived>>,
           missed \subseteq missed', pc' # "drain" => pc # "drain"
    PROVE  /\ chan' \in [Channels -> ChannelState]
           /\ item' \in [Fds -> ItemState \cup {None}]
           /\ kernel' \in [Fds -> SocketState \cup {None}]
           /\ registered' \subseteq Fds
           /\ queue' \in Seq(Tasks)
           /\ q # <<>> => queue' # <<>>
           /\ Closes(c) /\ Frees(chan[c].fd) /\ FdShape'
<1> DEFINE fd == chan[c].fd
<1>1. /\ fd \in Fds /\ item[fd].channel = c /\ Active(fd) /\ fd \notin timers
  BY OpenIs
<1>2. /\ chan' \in [Channels -> ChannelState] /\ queue' \in Seq(Tasks)
      /\ q # <<>> => queue' # <<>>
      /\ Closes(c)
  BY OnCloseIs DEF IInv
<1> HIDE DEF fd
<1>3. Release({fd})
  BY DEF fd
<1>4. /\ item' \in [Fds -> ItemState \cup {None}]
      /\ kernel' \in [Fds -> SocketState \cup {None}]
      /\ registered' \subseteq Fds
  BY <1>1, <1>3, ReleaseIs DEF IInv
<1>5. FdShape'
  BY <1>1, <1>3, ReleaseShape
<1>6. Frees(fd)
  <2>1. \A d \in Channels :
           chan'[d].fd = IF Active(fd) /\ item[fd].channel = d THEN None ELSE chan[d].fd
    BY <1>1, <1>2 DEF Closes
  <2> QED
    BY <1>1, <1>3, <2>1 DEF Frees
<1> QED
  BY <1>2, <1>4, <1>5, <1>6 DEF fd

-----------------------------------------------------------------------------
(* The steps of user code.                                                 *)

(* receive() takes a unit, an error, or finds the end and closes.          *)
LEMMA ReceiveKeeps ==
    ASSUME IInv, NEW c \in Channels, Receive(c)
    PROVE  IInv'
<1>0. Open(c)
  BY DEF Receive
<1>1. PICK fd \in Fds : fd = chan[c].fd /\ kernel[fd] # None
  BY <1>0, OpenIs
<1>2. /\ kernel[fd] \in SocketState /\ MaxIn \in Nat /\ arrived \in 0..MaxIn
      /\ kernel[fd].unread \in 0..MaxIn /\ kernel[fd].unread <= arrived
  BY <1>1, SocketIs DEF IInv
<1>3. /\ style' = style /\ timers' = timers /\ pc' = pc /\ batch' = batch
      /\ cancelled' = cancelled /\ current' = current /\ stopPosted' = stopPosted
      /\ conns' = conns /\ taken' = taken /\ told' = told /\ closedFirst' = closedFirst
      /\ missed' = missed /\ sends' = sends /\ syncs' = syncs /\ wire' = wire
      /\ answered' = answered /\ dropped' = dropped /\ arrived' = arrived
  BY DEF Receive, InUserCode, loopVars, closeVars, sendVars
<1>4. CASE AtEof(kernel[fd])
  <2>1. Release({chan[c].fd}) /\ OnClose(c, queue)
    BY <1>1, <1>4 DEF Receive, OnTcpReceiveEof
  <2>2. queue \in Seq(Tasks) /\ Once(queue)
    BY DEF IInv, TypeOK, Telling, Tasks
  <2>3. /\ chan' \in [Channels -> ChannelState]
        /\ item' \in [Fds -> ItemState \cup {None}]
        /\ kernel' \in [Fds -> SocketState \cup {None}]
        /\ registered' \subseteq Fds
        /\ queue' \in Seq(Tasks)
        /\ queue # <<>> => queue' # <<>>
        /\ Closes(c) /\ Frees(chan[c].fd) /\ FdShape'
    BY <1>0, <1>3, <2>1, <2>2, EofIs
  <2>4. TypeOK'
    BY <1>3, <2>3 DEF IInv, TypeOK, Tasks
  <2>5. LoopShape'
    BY <1>3, <2>3 DEF IInv, LoopShape, FdShape
  <2> QED
    BY <1>1, <2>3, <2>4, <2>5, ClosingKeeps
<1>5. CASE ~AtEof(kernel[fd])
  <2>1. UsesSocket
    BY <1>1, <1>2, <1>3, <1>5 DEF Receive, UsesSocket, IInv, TypeOK
  <2>2. CASE kernel[fd].unread = 0
    <3>1. kernel' = [kernel EXCEPT ![fd] = TakeError(kernel[fd])]
      BY <1>1, <1>5, <2>2 DEF Receive
    <3> QED
      BY <1>1, <1>2, <1>3, <2>1, <3>1, SocketOps, UsesSocketKeeps
  <2>3. CASE kernel[fd].unread # 0
    <3> DEFINE n == kernel[fd].unread - 1
               k == [kernel[fd] EXCEPT !.unread = n]
    <3>1. kernel' = [kernel EXCEPT ![fd] = k]
      BY <1>1, <1>5, <2>3 DEF Receive
    <3>2. n \in 0..MaxIn /\ n <= arrived'
      BY <1>2, <1>3, <2>3
    <3> HIDE DEF n
    <3>3. k \in SocketState /\ k.unread = n
      BY <1>2, <3>2, SocketOps
    <3> HIDE DEF k
    <3> QED
      BY <1>1, <2>1, <3>1, <3>2, <3>3, UsesSocketKeeps
  <2> QED
    BY <2>2, <2>3
<1> QED
  BY <1>4, <1>5

(* cancelSend() empties the buffer of an item.                             *)
LEMMA CancelSendKeeps ==
    ASSUME IInv, NEW c \in Channels, CancelSend(c)
    PROVE  IInv'
<1>0. Open(c)
  BY DEF CancelSend
<1>1. PICK fd \in Fds : /\ fd = chan[c].fd /\ item[fd] # None /\ item[fd] \in ItemState
                        /\ item[fd].channel = c
  BY <1>0, OpenIs
<1>2. /\ item' = [item EXCEPT ![fd].buffer = <<>>]
      /\ dropped' = dropped \cup ToSet(item[fd].buffer)
  BY <1>1 DEF CancelSend
<1>3. /\ style' = style /\ timers' = timers /\ pc' = pc /\ batch' = batch
      /\ cancelled' = cancelled /\ current' = current /\ stopPosted' = stopPosted
      /\ conns' = conns /\ taken' = taken /\ told' = told /\ closedFirst' = closedFirst
      /\ missed' = missed /\ sends' = sends /\ syncs' = syncs /\ wire' = wire
      /\ answered' = answered /\ arrived' = arrived /\ chan' = chan
      /\ registered' = registered /\ kernel' = kernel /\ queue' = queue
  BY DEF CancelSend, InUserCode, loopVars, closeVars
<1>4. [item[fd] EXCEPT !.buffer = <<>>] \in ItemState
  <2>1. \A b \in Seq(Sends) : [item[fd] EXCEPT !.buffer = b] \in ItemState
    BY <1>1 DEF ItemState
  <2>2. <<>> \in Seq(Sends)
    OBVIOUS
  <2> QED
    BY Zenon, <2>1, <2>2
<1>5. /\ item' \in [Fds -> ItemState \cup {None}]
      /\ item'[fd] # None /\ item'[fd].channel = item[fd].channel
      /\ \A f \in Fds \ {fd} : item'[f] = item[f]
      /\ item'[fd].buffer = <<>>
  <2>1. item \in [Fds -> ItemState \cup {None}]
    BY DEF IInv, TypeOK
  <2>2. item' \in [Fds -> ItemState \cup {None}]
        /\ item'[fd] = [item[fd] EXCEPT !.buffer = <<>>]
        /\ \A f \in Fds \ {fd} : item'[f] = item[f]
    BY <1>1, <1>2, <1>4, <2>1
  <2>3. item'[fd].channel = item[fd].channel /\ item'[fd].buffer = <<>>
    BY <1>1, <2>2 DEF ItemState
  <2>4. item'[fd] # None
    BY <1>4, <2>2, NoneAssumption
  <2> QED
    BY <2>2, <2>3, <2>4
<1>6. dropped' \subseteq Sends
  <2>1. item[fd].buffer \in Seq(Sends)
    BY <1>1 DEF ItemState
  <2> QED
    BY <1>2, <2>1, ToSetIs DEF IInv, TypeOK
<1>7. TypeOK'
  BY <1>3, <1>5, <1>6 DEF IInv, TypeOK
<1>8. LoopShape'
  BY <1>3, <1>5 DEF IInv, LoopShape, Closing
<1>9. SameOwners /\ SameTelling
  BY <1>1, <1>3, <1>5 DEF SameOwners, SameTelling, IInv, Telling
<1> QED
  BY <1>7, <1>8, <1>9, QuietKeeps

(* tryTcpSend moves units to the wire and handlers to the queue.           *)
LEMMA TrySendIs ==
    ASSUME IInv, NEW fd \in Fds, item[fd] # None, NEW it \in ItemState,
           it.channel = item[fd].channel,
           it.channel = None => it.buffer = <<>>,
           NEW more \in Seq(Sends), TrySend(fd, it, more), arrived' = arrived
    PROVE  /\ chan' \in [Channels -> ChannelState]
           /\ item' \in [Fds -> ItemState \cup {None}]
           /\ kernel' \in [Fds -> SocketState \cup {None}]
           /\ queue' \in Seq(Tasks) /\ wire' \in Seq(Sends)
           /\ \A f \in Fds : /\ item'[f] = None <=> item[f] = None
                             /\ item[f] # None => item'[f].channel = item[f].channel
                             /\ kernel'[f] = None <=> kernel[f] = None
           /\ \A c \in Channels : /\ chan'[c].fd = chan[c].fd
                                  /\ chan'[c].conn = chan[c].conn
                                  /\ chan'[c].canceller = chan[c].canceller
           /\ Once(queue') /\ Pending(queue') = Pending(queue)
           /\ queue # <<>> => queue' # <<>>
           /\ FdShape'
<1> DEFINE b == it.buffer
           c == it.channel
           hs == chan[c].handlers \o more
           After(rest, blocked) ==
               item' = [item EXCEPT ![fd] =
                           [channel |-> c, blocked |-> blocked, buffer |-> rest]]
<1>1. /\ b \in Seq(Sends) /\ c \in Channels \cup {None} /\ it.blocked \in BOOLEAN
      /\ Len(b) \in Nat
  BY LenProperties DEF ItemState
<1>2. kernel[fd] # None /\ queue \in Seq(Tasks) /\ Once(queue)
  BY DEF IInv, SocketOwners, Live, Items, TypeOK, Telling, Tasks
<1>3. /\ kernel[fd] \in SocketState /\ MaxIn \in Nat /\ arrived \in 0..MaxIn
      /\ kernel[fd].unread \in 0..MaxIn /\ kernel[fd].unread <= arrived
  BY <1>2, SocketIs DEF IInv
<1>4. ASSUME NEW rest \in Seq(Sends), NEW blocked \in BOOLEAN, After(rest, blocked),
             c = None => rest = <<>>
      PROVE  /\ item' \in [Fds -> ItemState \cup {None}]
             /\ \A f \in Fds : /\ item'[f] = None <=> item[f] = None
                               /\ item[f] # None => item'[f].channel = item[f].channel
                               /\ Closing(f)' => item'[f].buffer = <<>>
  <2> DEFINE new == [channel |-> c, blocked |-> blocked, buffer |-> rest]
  <2>1. new \in ItemState /\ new # None /\ new.channel = c /\ new.buffer = rest
    <3>1. new \in ItemState /\ new.channel = c /\ new.buffer = rest
      BY <1>1 DEF ItemState
    <3> QED
      BY <3>1, NoneAssumption
  <2>2. item' = [item EXCEPT ![fd] = new]
    BY <1>4
  <2> HIDE DEF new, After
  <2>3. item'[fd] = new /\ \A f \in Fds \ {fd} : item'[f] = item[f]
    BY <2>2 DEF IInv, TypeOK
  <2>4. item' \in [Fds -> ItemState \cup {None}]
    BY <2>1, <2>2 DEF IInv, TypeOK
  <2>5. ASSUME NEW f \in Fds
        PROVE  /\ item'[f] = None <=> item[f] = None
               /\ item[f] # None => item'[f].channel = item[f].channel
               /\ Closing(f)' => item'[f].buffer = <<>>
    <3>1. CASE f = fd
      BY <1>4, <2>1, <2>3, <3>1 DEF Closing
    <3>2. CASE f # fd
      BY <2>3, <3>2 DEF IInv, LoopShape, Closing
    <3> QED
      BY <3>1, <3>2
  <2> QED
    BY <2>4, <2>5
<1>5. ASSUME c # None PROVE c \in Channels /\ hs \in Seq(Sends)
  <2>1. c \in Channels
    BY <1>1, <1>5
  <2>2. chan[c].handlers \in Seq(Sends)
    BY <2>1 DEF IInv, TypeOK, ChannelState
  <2> QED
    BY <2>1, <2>2, ConcatProperties
<1>6. ASSUME NEW k \in SocketState, kernel' = [kernel EXCEPT ![fd] = k],
             k.unread = kernel[fd].unread
      PROVE  /\ kernel' \in [Fds -> SocketState \cup {None}]
             /\ \A f \in Fds : kernel'[f] = None <=> kernel[f] = None
             /\ \A f \in Fds : kernel'[f] # None => kernel'[f].unread <= arrived'
  <2>1. TypeOK /\ LoopShape
    BY DEF IInv
  <2>2. /\ arrived' \in 0..MaxIn /\ arrived <= arrived' /\ k.unread <= arrived'
        /\ kernel[fd] # None
    BY <1>2, <1>3, <1>6
  <2> QED
    BY <1>6, <2>1, <2>2, SocketTouched
<1>7. CASE b = <<>>
  <2>1. After(b, it.blocked) /\ UNCHANGED <<kernel, chan, queue, wire>>
    BY Zenon, <1>7 DEF TrySend
  <2>2. /\ item' \in [Fds -> ItemState \cup {None}]
        /\ \A f \in Fds : /\ item'[f] = None <=> item[f] = None
                          /\ item[f] # None => item'[f].channel = item[f].channel
                          /\ Closing(f)' => item'[f].buffer = <<>>
    BY <1>1, <1>4, <1>7, <2>1
  <2> HIDE DEF After, b, c, hs
  <2> QED
    BY <1>2, <2>1, <2>2 DEF IInv, TypeOK, LoopShape, FdShape
<1>8. CASE b # <<>> /\ Broken(kernel[fd])
  <2>1. /\ After(<<>>, it.blocked)
        /\ kernel' = [kernel EXCEPT ![fd] = TakeError(kernel[fd])]
        /\ Answer(c, hs, Messages(b), "error")
        /\ wire' = wire
    BY Zenon, <1>8 DEF TrySend
  <2>2. c \in Channels /\ hs \in Seq(Sends) /\ Messages(b) \in Nat
    BY <1>1, <1>5, <1>8, WholeNat
  <2>3. /\ item' \in [Fds -> ItemState \cup {None}]
        /\ \A f \in Fds : /\ item'[f] = None <=> item[f] = None
                          /\ item[f] # None => item'[f].channel = item[f].channel
                          /\ Closing(f)' => item'[f].buffer = <<>>
    <3>1. <<>> \in Seq(Sends)
      OBVIOUS
    <3> QED
      BY <1>1, <1>4, <2>1, <3>1
  <2> HIDE DEF After, b, c, hs
  <2>4. /\ kernel' \in [Fds -> SocketState \cup {None}]
        /\ \A f \in Fds : kernel'[f] = None <=> kernel[f] = None
        /\ \A f \in Fds : kernel'[f] # None => kernel'[f].unread <= arrived'
    <3>1. /\ TakeError(kernel[fd]) \in SocketState
          /\ TakeError(kernel[fd]).unread = kernel[fd].unread
      BY <1>3, SocketOps
    <3> QED
      BY <1>6, <2>1, <3>1
  <2>5. /\ chan' \in [Channels -> ChannelState]
        /\ \A d \in Channels : /\ chan'[d].fd = chan[d].fd
                               /\ chan'[d].conn = chan[d].conn
                               /\ chan'[d].canceller = chan[d].canceller
        /\ queue' \in Seq(Tasks) /\ Once(queue') /\ Pending(queue') = Pending(queue)
        /\ queue # <<>> => queue' # <<>>
    BY <1>2, <2>1, <2>2, AnswerIs DEF IInv
  <2>6. wire' \in Seq(Sends)
    BY <2>1 DEF IInv, TypeOK
  <2> QED
    BY <2>3, <2>4, <2>5, <2>6 DEF FdShape
<1>9. CASE b # <<>> /\ ~Broken(kernel[fd])
  <2>1. PICK n \in Takes(kernel[fd].room, Len(b)) :
           /\ After(SubSeq(b, n + 1, Len(b)),
                    n < Len(b) /\ (n = 0 \/ b[n] # b[n + 1]))
           /\ \E room \in RoomAfter(n, Len(b)) :
                 kernel' = [kernel EXCEPT ![fd].room = room]
           /\ Answer(c, hs, Whole(b, n), "ok")
           /\ wire' = wire \o SubSeq(b, 1, n)
    BY Zenon, <1>9 DEF TrySend
  <2>2. n \in 0..Len(b)
    <3>1. n \in 1..Len(b) \/ n = 0
      BY DEF Takes
    <3> QED
      BY <1>1, <3>1
  <2>3. c \in Channels /\ hs \in Seq(Sends) /\ Whole(b, n) \in Nat
    <3>1. n \in Nat
      BY <1>1, <2>2
    <3> QED
      BY <1>1, <1>5, <1>9, <3>1, WholeNat
  <2>4. /\ item' \in [Fds -> ItemState \cup {None}]
        /\ \A f \in Fds : /\ item'[f] = None <=> item[f] = None
                          /\ item[f] # None => item'[f].channel = item[f].channel
                          /\ Closing(f)' => item'[f].buffer = <<>>
    <3> DEFINE rest == SubSeq(b, n + 1, Len(b))
               blocked == n < Len(b) /\ (n = 0 \/ b[n] # b[n + 1])
    <3>1. rest \in Seq(Sends)
      <4>1. n \in Nat
        BY <1>1, <2>2
      <4> QED
        BY <1>1, <4>1, DropIs
    <3>2. blocked \in BOOLEAN
      OBVIOUS
    <3>3. After(rest, blocked) /\ c # None
      BY <1>9, <2>1
    <3> HIDE DEF rest, blocked, b, After
    <3> QED
      BY <1>4, <3>1, <3>2, <3>3
  <2>5. wire' \in Seq(Sends)
    <3>1. SubSeq(b, 1, n) \in Seq(Sends)
      BY <1>1, <2>2, SubSeqProperties
    <3>2. wire \in Seq(Sends)
      BY DEF IInv, TypeOK
    <3> QED
      BY <2>1, <3>1, <3>2, ConcatProperties
  <2> HIDE DEF After, b, c, hs
  <2>6. /\ kernel' \in [Fds -> SocketState \cup {None}]
        /\ \A f \in Fds : kernel'[f] = None <=> kernel[f] = None
        /\ \A f \in Fds : kernel'[f] # None => kernel'[f].unread <= arrived'
    <3>1. PICK room \in {"free", "full", "wanted"} :
             kernel' = [kernel EXCEPT ![fd] = [kernel[fd] EXCEPT !.room = room]]
      BY <2>1 DEF RoomAfter
    <3> DEFINE k == [kernel[fd] EXCEPT !.room = room]
    <3>2. k \in SocketState /\ k.unread = kernel[fd].unread
      BY <1>3, SocketOps
    <3>3. kernel' = [kernel EXCEPT ![fd] = k]
      BY <3>1
    <3> HIDE DEF k
    <3> QED
      BY <1>6, <3>2, <3>3
  <2>7. /\ chan' \in [Channels -> ChannelState]
        /\ \A d \in Channels : /\ chan'[d].fd = chan[d].fd
                               /\ chan'[d].conn = chan[d].conn
                               /\ chan'[d].canceller = chan[d].canceller
        /\ queue' \in Seq(Tasks) /\ Once(queue') /\ Pending(queue') = Pending(queue)
        /\ queue # <<>> => queue' # <<>>
    BY <1>2, <2>1, <2>3, AnswerIs DEF IInv
  <2> QED
    BY <2>4, <2>5, <2>6, <2>7 DEF FdShape
<1> QED
  BY <1>7, <1>8, <1>9

(* A new send gets the next number, and belongs to a connection.           *)
LEMMA NextSend ==
    ASSUME IInv, NEW c \in Channels, Send(c)
    PROVE  /\ Len(sends) + 1 \in Sends /\ Len(sends) \in Nat
           /\ sends' = Append(sends, chan[c].conn) /\ sends' \in Seq(Conns)
           /\ Len(sends') = Len(sends) + 1 /\ Len(sends') + syncs <= MaxSends
           /\ chan[c].conn \in Conns
<1>1. /\ MaxSends \in Nat /\ Len(sends) \in Nat /\ syncs \in 0..MaxSends
      /\ sends \in Seq(Conns)
  BY BoundsAssumption, LenProperties DEF IInv, TypeOK
<1>2. /\ Len(sends) + syncs < MaxSends /\ sends' = Append(sends, chan[c].conn)
      /\ Open(c)
  BY DEF Send
<1>3. chan[c].conn \in Conns
  <2>1. chan[c] \in ChannelState /\ chan[c].conn # 0
    BY <1>2 DEF IInv, TypeOK, Telling
  <2> QED
    BY <2>1 DEF ChannelState
<1>4. sends' \in Seq(Conns) /\ Len(sends') = Len(sends) + 1
  BY <1>1, <1>2, <1>3, AppendProperties
<1> QED
  BY <1>1, <1>2, <1>3, <1>4 DEF Sends

(* send() puts a message into the buffer and perhaps on its way.           *)
LEMMA SendKeeps ==
    ASSUME IInv, NEW c \in Channels, Send(c)
    PROVE  IInv'
<1> DEFINE s == Len(sends) + 1
<1>0. Open(c)
  BY DEF Send
<1>1. PICK fd \in Fds : /\ fd = chan[c].fd /\ item[fd] # None /\ item[fd] \in ItemState
                        /\ item[fd].channel = c
  BY <1>0, OpenIs
<1>2. s \in Sends /\ sends' \in Seq(Conns) /\ Len(sends') + syncs <= MaxSends
  BY <1>0, NextSend
<1> HIDE DEF s
<1> DEFINE buf == Enqueue(item[fd].buffer, s)
           it  == [item[fd] EXCEPT !.buffer = buf]
<1>3. buf \in Seq(Sends) /\ <<s>> \in Seq(Sends)
  <2>1. item[fd].buffer \in Seq(Sends) /\ Size \in Nat
    BY <1>1, BoundsAssumption DEF ItemState
  <2>2. [i \in 1..Size |-> s] \in Seq(Sends)
    BY <1>2, <2>1
  <2> QED
    BY <1>2, <2>1, <2>2, ConcatProperties DEF Enqueue
<1> HIDE DEF buf
<1>4. it \in ItemState /\ it.channel = c /\ it # None
  <2>1. it \in ItemState /\ it.channel = c
    BY <1>1, <1>3 DEF ItemState
  <2> QED
    BY <2>1, NoneAssumption
<1>5. /\ style' = style /\ timers' = timers /\ pc' = pc /\ batch' = batch
      /\ cancelled' = cancelled /\ current' = current /\ stopPosted' = stopPosted
      /\ conns' = conns /\ taken' = taken /\ told' = told /\ closedFirst' = closedFirst
      /\ missed' = missed /\ syncs' = syncs /\ answered' = answered
      /\ dropped' = dropped /\ arrived' = arrived /\ registered' = registered
  BY DEF Send, InUserCode, loopVars, closeVars
<1>6. /\ it.blocked => /\ item' = [item EXCEPT ![fd] = it]
                       /\ chan' = [chan EXCEPT ![c].handlers = Append(@, s)]
                       /\ UNCHANGED <<kernel, queue, wire>>
      /\ ~it.blocked => TrySend(fd, it, <<s>>)
  BY <1>1 DEF Send, buf, s
<1> HIDE DEF it
<1>7. /\ chan' \in [Channels -> ChannelState]
      /\ item' \in [Fds -> ItemState \cup {None}]
      /\ kernel' \in [Fds -> SocketState \cup {None}]
      /\ queue' \in Seq(Tasks) /\ wire' \in Seq(Sends)
      /\ \A f \in Fds : /\ item'[f] = None <=> item[f] = None
                        /\ item[f] # None => item'[f].channel = item[f].channel
                        /\ kernel'[f] = None <=> kernel[f] = None
      /\ \A d \in Channels : /\ chan'[d].fd = chan[d].fd
                             /\ chan'[d].conn = chan[d].conn
                             /\ chan'[d].canceller = chan[d].canceller
      /\ Once(queue') /\ Pending(queue') = Pending(queue)
      /\ queue # <<>> => queue' # <<>>
      /\ FdShape'
  <2>1. CASE it.blocked
    <3>1. /\ \A f \in Fds \ {fd} : item'[f] = item[f]
          /\ item'[fd] = it /\ item' \in [Fds -> ItemState \cup {None}]
      <4>1. item \in [Fds -> ItemState \cup {None}]
        BY DEF IInv, TypeOK
      <4> QED
        BY <1>4, <1>6, <2>1, <4>1
    <3> DEFINE hs == Append(chan[c].handlers, s)
    <3>2. hs \in Seq(Sends)
      BY <1>2, AppendProperties DEF IInv, TypeOK, ChannelState
    <3>c. chan' = [chan EXCEPT ![c].handlers = hs]
      BY <1>6, <2>1
    <3> HIDE DEF hs
    <3>3. /\ chan' \in [Channels -> ChannelState]
          /\ \A d \in Channels : /\ chan'[d].fd = chan[d].fd
                                 /\ chan'[d].conn = chan[d].conn
                                 /\ chan'[d].canceller = chan[d].canceller
      <4>1. chan \in [Channels -> ChannelState]
        BY DEF IInv, TypeOK
      <4>2. chan' \in [Channels -> ChannelState]
        BY <3>2, <3>c, <4>1 DEF ChannelState
      <4>3. \A d \in Channels : /\ chan'[d].fd = chan[d].fd
                                /\ chan'[d].conn = chan[d].conn
                                /\ chan'[d].canceller = chan[d].canceller
        BY <3>2, <3>c, <4>1 DEF ChannelState
      <4> QED
        BY <4>2, <4>3
    <3>4. kernel' = kernel /\ queue' = queue /\ wire' = wire
      BY <1>6, <2>1
    <3>5. /\ item'[fd] # None /\ item'[fd].channel = item[fd].channel /\ c # None
      BY <1>1, <1>4, <3>1, NoneAssumption
    <3>6. FdShape'
      BY <1>1, <1>5, <3>1, <3>4, <3>5 DEF FdShape, IInv, LoopShape, Closing
    <3>7. /\ queue' \in Seq(Tasks) /\ wire' \in Seq(Sends) /\ Once(queue')
          /\ kernel' \in [Fds -> SocketState \cup {None}]
      BY <3>4 DEF IInv, TypeOK, Telling, Tasks
    <3> QED
      BY <1>1, <3>1, <3>3, <3>4, <3>5, <3>6, <3>7
  <2>2. CASE ~it.blocked
    <3>1. TrySend(fd, it, <<s>>) /\ it.channel = item[fd].channel /\ it.channel # None
      BY <1>1, <1>4, <1>6, <2>2, NoneAssumption
    <3> QED
      BY <1>1, <1>3, <1>4, <1>5, <3>1, TrySendIs
  <2> QED
    BY <2>1, <2>2
<1>8. TypeOK'
  BY <1>2, <1>5, <1>7 DEF IInv, TypeOK, Tasks
<1>9. LoopShape'
  BY <1>5, <1>7 DEF IInv, LoopShape, FdShape
<1>10. SameOwners /\ SameTelling
  BY <1>5, <1>7 DEF SameOwners, SameTelling
<1> QED
  BY <1>8, <1>9, <1>10, QuietKeeps

(* A receive handler set late changes nothing else.                        *)
LEMMA SetReceiveHandlerKeeps ==
    ASSUME IInv, NEW c \in Channels, SetReceiveHandler(c)
    PROVE  IInv'
<1>1. /\ style' = style /\ timers' = timers /\ pc' = pc /\ batch' = batch
      /\ cancelled' = cancelled /\ current' = current /\ stopPosted' = stopPosted
      /\ conns' = conns /\ taken' = taken /\ told' = told /\ closedFirst' = closedFirst
      /\ missed' = missed /\ sends' = sends /\ syncs' = syncs /\ wire' = wire
      /\ answered' = answered /\ dropped' = dropped /\ arrived' = arrived
      /\ item' = item /\ registered' = registered /\ kernel' = kernel /\ queue' = queue
      /\ chan' = [chan EXCEPT ![c].receiver = TRUE]
  BY DEF SetReceiveHandler, InUserCode, loopVars, closeVars, sendVars
<1>2. /\ chan' \in [Channels -> ChannelState]
      /\ \A d \in Channels : /\ chan'[d].fd = chan[d].fd
                             /\ chan'[d].conn = chan[d].conn
                             /\ chan'[d].canceller = chan[d].canceller
  <2> DEFINE r == [chan[c] EXCEPT !.receiver = TRUE]
  <2>0. TypeOK /\ chan[c] \in ChannelState
    BY DEF IInv, TypeOK
  <2>1. <<>> \in Seq(Sends)
    OBVIOUS
  <2>2. r \in ChannelState /\ r.fd = chan[c].fd /\ r.conn = chan[c].conn
        /\ r.canceller = chan[c].canceller
    BY <2>0, <2>1, ChannelOps
  <2>3. chan' = [chan EXCEPT ![c] = r]
    BY <1>1
  <2> HIDE DEF r
  <2> QED
    BY <2>0, <2>2, <2>3, ChannelChanged
<1>3. TypeOK'
  BY <1>1, <1>2 DEF IInv, TypeOK
<1>4. LoopShape'
  BY <1>1 DEF IInv, LoopShape, Closing
<1>5. SameOwners /\ SameTelling
  BY <1>1, <1>2 DEF SameOwners, SameTelling, IInv, Telling
<1> QED
  BY <1>3, <1>4, <1>5, QuietKeeps

(* A close handler set late forgets the queued close task, which is noted. *)
LEMMA SetCloseHandlerKeeps ==
    ASSUME IInv, NEW c \in Channels, SetCloseHandler(c)
    PROVE  IInv'
<1>1. /\ style' = style /\ timers' = timers /\ pc' = pc /\ batch' = batch
      /\ cancelled' = cancelled /\ current' = current /\ stopPosted' = stopPosted
      /\ conns' = conns /\ taken' = taken /\ told' = told /\ closedFirst' = closedFirst
      /\ sends' = sends /\ syncs' = syncs /\ wire' = wire
      /\ answered' = answered /\ dropped' = dropped /\ arrived' = arrived
      /\ item' = item /\ registered' = registered /\ kernel' = kernel /\ queue' = queue
      /\ chan' = [chan EXCEPT ![c].closer = TRUE, ![c].canceller = 0]
      /\ missed' = missed \cup {<<n, "close">> : n \in {chan[c].canceller} \ {0}}
  BY DEF SetCloseHandler, InUserCode, loopVars, sendVars
<1>2. /\ \A d \in Channels : /\ chan'[d].fd = chan[d].fd
                             /\ chan'[d].conn = chan[d].conn
      /\ chan'[c].canceller = 0
      /\ \A d \in Channels \ {c} : chan'[d] = chan[d]
  BY <1>1 DEF IInv, TypeOK, ChannelState
<1>3. chan' \in [Channels -> ChannelState]
  <2>0. [chan[c] EXCEPT !.closer = TRUE] \in ChannelState
    <3>1. chan[c] \in ChannelState /\ <<>> \in Seq(Sends)
      BY DEF IInv, TypeOK
    <3> QED
      BY <3>1, ChannelOps
  <2>1. PICK f \in [Channels -> ChannelState] : f = [chan EXCEPT ![c].closer = TRUE]
    BY <2>0 DEF IInv, TypeOK
  <2>2. \A n \in Conns \cup {0} :
           [f EXCEPT ![c].canceller = n] \in [Channels -> ChannelState]
    BY DEF ChannelState
  <2>3. [f EXCEPT ![c].canceller = 0] \in [Channels -> ChannelState]
    BY <2>2
  <2>4. chan' = [f EXCEPT ![c].canceller = 0]
    BY <1>1, <2>1
  <2> QED
    BY <2>3, <2>4
<1>m. missed \subseteq missed'
  BY <1>1
<1>4. chan[c].canceller \in Conns \cup {0}
  BY DEF IInv, TypeOK, ChannelState
<1>5. TypeOK'
  BY <1>1, <1>3, <1>4 DEF IInv, TypeOK
<1>6. LoopShape'
  BY <1>1 DEF IInv, LoopShape, Closing
<1>7. SocketOwners'
  <2>1. SameOwners
    BY <1>1, <1>2 DEF SameOwners
  <2> QED
    BY <2>1, OwnersKept DEF IInv
<1>8. CloseNotToldAfterClose'
  BY <1>1 DEF IInv, CloseNotToldAfterClose
<1>9. Telling'
  <2>1. ASSUME NEW d \in Channels
        PROVE  /\ chan'[d].conn <= conns'
               /\ Open(d)' => chan'[d].conn \notin Pending(queue') \cup told'
                                                          \cup closedFirst' \cup {0}
               /\ ~Open(d)' /\ chan'[d].conn \in Pending(queue') => Held(d)'
    <3>1. CASE d # c
      <4>1. /\ chan'[d] = chan[d] /\ conns' = conns /\ queue' = queue /\ told' = told
            /\ closedFirst' = closedFirst /\ taken' = taken
        BY <1>1, <1>2, <3>1
      <4> QED
        BY <1>m, <4>1 DEF IInv, Telling, Open, Held
    <3>2. CASE d = c
      <4>1. ASSUME ~Open(d)', chan'[d].conn \in Pending(queue') PROVE Held(d)'
        <5>1. ~Open(c) /\ chan[c].conn \in Pending(queue) /\ chan[c].conn \in Conns
          BY <1>1, <1>2, <3>2, <4>1 DEF Open, Pending
        <5>2. Held(c) /\ chan[c].conn # 0
          BY <5>1 DEF IInv, Telling, Conns
        <5>3. CASE chan[c].canceller = chan[c].conn
          <6>1. <<chan[c].conn, "close">> \in missed'
            BY <1>1, <5>2, <5>3
          <6> QED
            BY <1>2, <3>2, <6>1 DEF Held
        <5>4. CASE chan[c].canceller # chan[c].conn
          <6>1. chan'[c].conn = chan[c].conn /\ taken' = taken
            BY <1>1, <1>2
          <6> QED
            BY <1>m, <3>2, <5>2, <5>4, <6>1 DEF Held
        <5> QED
          BY <5>3, <5>4
      <4> QED
        BY <1>1, <1>2, <3>2, <4>1 DEF IInv, Telling, Open
    <3> QED
      BY <3>1, <3>2
  <2>2. \A d, e \in Channels : chan'[d].conn = chan'[e].conn => d = e \/ chan'[d].conn = 0
    BY <1>2 DEF IInv, Telling
  <2>3. /\ Once(queue')
        /\ Pending(queue') \cap told' = {}
        /\ Pending(queue') \cup told' \cup closedFirst' \subseteq 1..conns'
        /\ \A n \in Pending(queue') \cap closedFirst' :
              n \in taken' \/ <<n, "close">> \in missed'
    BY <1>1 DEF IInv, Telling
  <2> QED
    BY <2>1, <2>2, <2>3 DEF Telling
<1> QED
  BY <1>5, <1>6, <1>7, <1>8, <1>9 DEF IInv

(* A new connection has a descriptor, an item and a number nobody has.     *)
LEMMA ConnectKeeps ==
    ASSUME IInv, NEW c \in Channels, NEW fd \in Fds, Connect(c, fd)
    PROVE  IInv'
<1> DEFINE n == conns + 1
           new == [fd |-> fd, conn |-> n,
                   receiver |-> chan[c].receiver \/ style # "late",
                   closer |-> chan[c].closer \/ style # "late",
                   handlers |-> chan[c].handlers,
                   canceller |-> IF style = "late" THEN chan[c].canceller ELSE 0]
           it == [channel |-> c, blocked |-> TRUE, buffer |-> <<>>]
<1>0. ~Open(c) /\ kernel[fd] = None
  BY DEF Connect
<1>1. /\ style' = style /\ timers' = timers /\ pc' = pc /\ batch' = batch
      /\ cancelled' = cancelled /\ current' = current /\ stopPosted' = stopPosted
      /\ taken' = taken /\ told' = told /\ closedFirst' = closedFirst
      /\ sends' = sends /\ syncs' = syncs /\ wire' = wire
      /\ answered' = answered /\ dropped' = dropped /\ arrived' = arrived
      /\ queue' = queue /\ missed' = missed
      /\ conns' = n /\ pc = "user"
  BY DEF Connect, InUserCode, loopVars, closeVars, sendVars
<1>2. /\ chan' = [chan EXCEPT ![c] = new]
      /\ item' = [item EXCEPT ![fd] = it]
      /\ kernel' = [kernel EXCEPT ![fd] = NewSocket]
      /\ registered' = registered \cup {fd}
  BY DEF Connect
<1>3. n \in Conns /\ n \in 0..MaxConns /\ conns \in Nat /\ n = conns + 1
  <2>1. conns \in 0..MaxConns /\ MaxConns \in Nat /\ MaxLate \in Nat /\ MaxLate <= MaxConns
    BY BoundsAssumption DEF IInv, TypeOK
  <2>2. conns < MaxLate \/ conns < MaxConns
    BY DEF Connect
  <2> QED
    BY <2>1, <2>2 DEF Conns
<1> HIDE DEF n
<1>4. /\ new \in ChannelState /\ new.fd = fd /\ new.conn = n
  BY <1>3 DEF IInv, TypeOK, ChannelState
<1>5. it \in ItemState /\ it.channel = c /\ it # None /\ c # None
  <2>1. it \in ItemState /\ it.channel = c
    BY DEF ItemState
  <2> QED
    BY <2>1, NoneAssumption
<1>6. NewSocket \in SocketState /\ NewSocket.unread = 0 /\ NewSocket # None
  <2>1. NewSocket \in SocketState /\ NewSocket.unread = 0
    BY BoundsAssumption DEF NewSocket, SocketState
  <2> QED
    BY <2>1, NoneAssumption
<1> HIDE DEF new, it
<1>7. /\ chan' \in [Channels -> ChannelState] /\ chan'[c] = new
      /\ \A d \in Channels \ {c} : chan'[d] = chan[d]
  BY <1>2, <1>4 DEF IInv, TypeOK
<1>8. /\ item' \in [Fds -> ItemState \cup {None}] /\ item'[fd] = it
      /\ \A f \in Fds \ {fd} : item'[f] = item[f]
  BY <1>2, <1>5 DEF IInv, TypeOK
<1>9. /\ kernel' \in [Fds -> SocketState \cup {None}] /\ kernel'[fd] = NewSocket
      /\ \A f \in Fds \ {fd} : kernel'[f] = kernel[f]
  BY <1>2, <1>6 DEF IInv, TypeOK
<1>10. TypeOK'
  BY <1>1, <1>2, <1>3, <1>7, <1>8, <1>9 DEF IInv, TypeOK
<1>11. LoopShape'
  <2>1. \A f \in Fds : kernel'[f] # None => kernel'[f].unread <= arrived'
    <3>1. 0 <= arrived
      BY BoundsAssumption DEF IInv, TypeOK
    <3> QED
      BY <1>1, <1>6, <1>9, <3>1 DEF IInv, LoopShape
  <2>2. \A f \in Fds : Closing(f)' => item'[f].buffer = <<>>
    BY <1>5, <1>8 DEF IInv, LoopShape, Closing
  <2> QED
    BY <1>1, <2>1, <2>2 DEF IInv, LoopShape
<1>12. SocketOwners'
  <2>1. item[fd] = None
    BY <1>0 DEF IInv, SocketOwners, Live, Items
  <2>2. \A f \in Fds : /\ Active(f)' <=> Active(f) \/ f = fd
                       /\ Closing(f)' <=> Closing(f)
    BY <1>5, <1>8, <2>1 DEF Active, Closing
  <2>3. Items' = Items \cup {fd} /\ Live' = Live \cup {fd}
    BY <1>5, <1>6, <1>8, <1>9 DEF Items, Live
  <2>4. ASSUME NEW f \in Fds, Active(f)' PROVE chan'[item'[f].channel].fd = f
    <3>1. CASE f = fd
      BY <1>4, <1>5, <1>7, <1>8, <3>1
    <3>2. CASE f # fd
      <4>1. Active(f) /\ item'[f] = item[f]
        BY <1>8, <2>2, <2>4, <3>2
      <4>2. item[f].channel \in Channels /\ chan[item[f].channel].fd = f
        BY <4>1 DEF IInv, SocketOwners, TypeOK, ItemState, Active
      <4>3. item[f].channel # c
        BY <1>0, <4>2, NoneAssumption DEF Open
      <4> QED
        BY <1>7, <4>1, <4>2, <4>3
    <3> QED
      BY <3>1, <3>2
  <2>5. ASSUME NEW d \in Channels, Open(d)'
        PROVE  (Active(chan[d].fd) /\ item[chan[d].fd].channel = d)'
    <3>1. CASE d = c
      BY <1>4, <1>5, <1>7, <1>8, <3>1 DEF Active
    <3>2. CASE d # c
      <4>1. Open(d) /\ chan'[d].fd = chan[d].fd
        BY <1>7, <2>5, <3>2 DEF Open
      <4>2. PICK f \in Fds : f = chan[d].fd
        BY <4>1, OpenIs
      <4>3. Active(f) /\ item[f].channel = d /\ f # fd
        BY <2>1, <4>1, <4>2, OpenIs DEF Active
      <4>4. item'[f] = item[f]
        BY <1>8, <4>3
      <4> QED
        BY <4>1, <4>2, <4>3, <4>4 DEF Active
    <3> QED
      BY <3>1, <3>2
  <2>6. {f \in Fds : Closing(f)'} = {f \in Fds : Closing(f)}
    BY <2>2
  <2>7. timers' \subseteq {f \in Fds : Closing(f)'}
    BY <1>1, <2>6 DEF IInv, SocketOwners
  <2>8. pc' # "drain" => timers' = {f \in Fds : Closing(f)'}
    BY <1>1, <2>6 DEF IInv, SocketOwners
  <2>9. Live' = Items' /\ registered' = Items'
    BY <1>2, <2>3 DEF IInv, SocketOwners
  <2> QED
    BY <2>4, <2>5, <2>7, <2>8, <2>9 DEF SocketOwners
<1>13. CloseNotToldAfterClose'
  BY <1>1 DEF IInv, CloseNotToldAfterClose
<1>14. Telling'
  <2>1. \A m \in Pending(queue) \cup told \cup closedFirst : m # n /\ m \in 1..conns'
    <3>1. Pending(queue) \cup told \cup closedFirst \subseteq 1..conns
      BY DEF IInv, Telling
    <3> QED
      BY <1>1, <1>3, <3>1
  <2>2. \A d \in Channels : chan[d].conn # n /\ chan[d].conn <= conns'
    <3>1. \A d \in Channels : chan[d].conn <= conns /\ chan[d].conn \in Nat
      <4>1. \A d \in Channels : chan[d].conn <= conns
        BY DEF IInv, Telling
      <4>2. \A d \in Channels : chan[d] \in ChannelState
        BY DEF IInv, TypeOK
      <4> QED
        BY <4>1, <4>2, BoundsAssumption DEF ChannelState, Conns
    <3> QED
      BY <1>1, <1>3, <3>1
  <2>3. ASSUME NEW d \in Channels
        PROVE  /\ chan'[d].conn <= conns'
               /\ Open(d)' => chan'[d].conn \notin Pending(queue') \cup told'
                                                          \cup closedFirst' \cup {0}
               /\ ~Open(d)' /\ chan'[d].conn \in Pending(queue') => Held(d)'
    <3>1. CASE d # c
      BY <1>1, <1>7, <2>2, <3>1 DEF IInv, Telling, Open, Held
    <3>2. CASE d = c
      <4>1. chan'[d].conn = n /\ Open(d)'
        BY <1>4, <1>7, <3>2, NoneAssumption DEF Open
      <4>2. n <= conns' /\ n # 0
        BY <1>1, <1>3
      <4>3. n \notin Pending(queue') \cup told' \cup closedFirst'
        BY <1>1, <2>1
      <4> QED
        BY <4>1, <4>2, <4>3
    <3> QED
      BY <3>1, <3>2
  <2>4. \A d, e \in Channels : chan'[d].conn = chan'[e].conn => d = e \/ chan'[d].conn = 0
    BY <1>4, <1>7, <2>2 DEF IInv, Telling
  <2>5. /\ Once(queue')
        /\ Pending(queue') \cap told' = {}
        /\ Pending(queue') \cup told' \cup closedFirst' \subseteq 1..conns'
        /\ \A m \in Pending(queue') \cap closedFirst' :
              m \in taken' \/ <<m, "close">> \in missed'
    BY <1>1, <2>1 DEF IInv, Telling
  <2> QED
    BY <2>3, <2>4, <2>5 DEF Telling
<1> QED
  BY <1>10, <1>11, <1>12, <1>13, <1>14 DEF IInv

(* A connection its user closes is not told to be closed afterwards:       *)
(* either it has no close task, or that is taken back.                     *)
LEMMA CloseTelling ==
    ASSUME IInv, NEW c \in Channels,
           \/ /\ Open(c)
              /\ chan' = [chan EXCEPT ![c] = ClosedChannel(chan[c].conn, 0)]
              /\ taken' = taken
           \/ /\ ~Open(c)
              /\ chan' = chan
              /\ taken' = taken \cup ({chan[c].canceller} \ {0}),
           closedFirst' = closedFirst \cup ({chan[c].conn} \ ({0} \cup told)),
           UNCHANGED <<queue, conns, told, missed>>
    PROVE  Telling' /\ CloseNotToldAfterClose'
<1> DEFINE n == chan[c].conn
<1>1. /\ queue' = queue /\ conns' = conns /\ told' = told /\ missed' = missed
      /\ closedFirst' = closedFirst \cup ({n} \ ({0} \cup told))
      /\ taken \subseteq taken'
  OBVIOUS
<1>2. /\ n \in Conns \cup {0} /\ n <= conns /\ conns \in Nat
      /\ n # 0 => n \in 1..conns
  <2>1. MaxConns \in Nat /\ conns \in 0..MaxConns /\ n \in Conns \cup {0} /\ n <= conns
    BY BoundsAssumption DEF IInv, TypeOK, ChannelState, Telling
  <2> QED
    BY <2>1 DEF Conns
<1>3. /\ \A d \in Channels \ {c} : chan'[d] = chan[d]
      /\ chan'[c].conn = n /\ ~Open(c)'
  <2>1. CASE Open(c)
    <3>1. chan'[c] = ClosedChannel(n, 0) /\ \A d \in Channels \ {c} : chan'[d] = chan[d]
      BY <2>1 DEF IInv, TypeOK
    <3> QED
      BY <3>1 DEF ClosedChannel, Open
  <2>2. CASE ~Open(c)
    BY <2>2 DEF IInv, Telling, Open
  <2> QED
    BY <2>1, <2>2
<1>4. n \in Pending(queue) => n \in taken' \/ <<n, "close">> \in missed'
  <2> SUFFICES ASSUME n \in Pending(queue)
               PROVE  n \in taken' \/ <<n, "close">> \in missed'
    OBVIOUS
  <2>1. ~Open(c) /\ Held(c)
    BY DEF IInv, Telling
  <2>2. n # 0
    BY DEF Pending, Conns
  <2>3. CASE chan[c].canceller = n
    BY <2>1, <2>2, <2>3
  <2>4. CASE n \in taken \/ <<n, "close">> \in missed
    BY <1>1, <2>4
  <2> QED
    BY <2>1, <2>3, <2>4 DEF Held
<1> HIDE DEF n
<1>5. ASSUME NEW d \in Channels
      PROVE  /\ chan'[d].conn <= conns'
             /\ Open(d)' => chan'[d].conn \notin Pending(queue') \cup told'
                                                        \cup closedFirst' \cup {0}
             /\ ~Open(d)' /\ chan'[d].conn \in Pending(queue') => Held(d)'
  <2>1. CASE d = c
    BY <1>1, <1>2, <1>3, <1>4, <2>1 DEF Held
  <2>2. CASE d # c
    <3>1. chan'[d] = chan[d] /\ (chan[d].conn = n => n = 0)
      BY <1>3, <2>2 DEF IInv, Telling, n
    <3>2. /\ chan[d].conn <= conns
          /\ Open(d) => chan[d].conn \notin Pending(queue) \cup told
                                                    \cup closedFirst \cup {0}
          /\ ~Open(d) /\ chan[d].conn \in Pending(queue) => Held(d)
      BY DEF IInv, Telling
    <3>3. (Open(d)' <=> Open(d)) /\ (Held(d) => Held(d)')
      BY <1>1, <3>1 DEF Open, Held
    <3>4. Open(d)' => chan'[d].conn \notin closedFirst'
      BY <1>1, <3>1, <3>2, <3>3
    <3> QED
      BY <1>1, <3>1, <3>2, <3>3, <3>4
  <2> QED
    BY <2>1, <2>2
<1>6. \A d, e \in Channels : chan'[d].conn = chan'[e].conn => d = e \/ chan'[d].conn = 0
  <2>1. \A d \in Channels : chan'[d].conn = chan[d].conn
    BY <1>3 DEF n
  <2> QED
    BY <2>1 DEF IInv, Telling
<1>7. /\ Once(queue')
      /\ Pending(queue') \cap told' = {}
      /\ Pending(queue') \cup told' \cup closedFirst' \subseteq 1..conns'
      /\ \A m \in Pending(queue') \cap closedFirst' :
            m \in taken' \/ <<m, "close">> \in missed'
  BY <1>1, <1>2, <1>4 DEF IInv, Telling
<1>8. CloseNotToldAfterClose'
  BY <1>1 DEF IInv, CloseNotToldAfterClose
<1> QED
  BY <1>5, <1>6, <1>7, <1>8 DEF Telling

(* The socket of a closed channel passes to its item and its timer.        *)
LEMMA CloseOwners ==
    ASSUME IInv, NEW c \in Channels, Open(c), NEW fd \in Fds, fd = chan[c].fd,
           chan'[c].fd = None, \A d \in Channels \ {c} : chan'[d] = chan[d],
           item'[fd] = ClosedItem(item[fd]),
           \A f \in Fds \ {fd} : item'[f] = item[f],
           \A f \in Fds : kernel'[f] = None <=> kernel[f] = None,
           timers' = timers \cup {fd}, UNCHANGED <<registered, pc>>
    PROVE  SocketOwners'
<1>1. /\ item[fd] # None /\ item[fd] \in ItemState /\ item[fd].channel = c /\ Active(fd)
  BY OpenIs
<1>2. item'[fd] # None /\ item'[fd].channel = None
  <2>1. ClosedItem(item[fd]) \in ItemState /\ ClosedItem(item[fd]).channel = None
    BY <1>1 DEF ClosedItem, ItemState
  <2> QED
    BY <2>1, NoneAssumption
<1>3. \A f \in Fds : /\ Active(f)' <=> Active(f) /\ f # fd
                     /\ Closing(f)' <=> Closing(f) \/ f = fd
  BY <1>1, <1>2 DEF Active, Closing
<1>4. Items' = Items /\ Live' = Live
  BY <1>1, <1>2 DEF Items, Live
<1>5. ASSUME NEW f \in Fds, Active(f)' PROVE chan'[item'[f].channel].fd = f
  <2>1. Active(f) /\ f # fd /\ item'[f] = item[f]
    BY <1>3, <1>5
  <2>2. item[f].channel \in Channels /\ chan[item[f].channel].fd = f
    BY <2>1 DEF IInv, SocketOwners, TypeOK, ItemState, Active
  <2>3. item[f].channel # c
    BY <2>1, <2>2
  <2> QED
    BY <2>1, <2>2, <2>3
<1>6. ASSUME NEW d \in Channels, Open(d)'
      PROVE  (Active(chan[d].fd) /\ item[chan[d].fd].channel = d)'
  <2>1. d # c /\ chan'[d] = chan[d] /\ Open(d)
    BY <1>6 DEF Open
  <2>2. PICK f \in Fds : f = chan[d].fd
    BY <2>1, OpenIs
  <2>3. Active(f) /\ item[f].channel = d /\ f # fd
    BY <1>1, <2>1, <2>2, OpenIs
  <2>4. item'[f] = item[f]
    BY <2>3
  <2> QED
    BY <2>1, <2>2, <2>3, <2>4 DEF Active
<1>7. {f \in Fds : Closing(f)'} = {f \in Fds : Closing(f)} \cup {fd}
  BY <1>3
<1>8. timers' \subseteq {f \in Fds : Closing(f)'}
  BY <1>7 DEF IInv, SocketOwners
<1>9. pc' # "drain" => timers' = {f \in Fds : Closing(f)'}
  BY <1>7 DEF IInv, SocketOwners
<1>10. Live' = Items' /\ registered' = Items'
  BY <1>4 DEF IInv, SocketOwners
<1> QED
  BY <1>5, <1>6, <1>8, <1>9, <1>10 DEF SocketOwners

(* close() gives the socket to its item, or takes a close task back.       *)
LEMMA CloseKeeps ==
    ASSUME IInv, NEW c \in Channels, Close(c)
    PROVE  IInv'
<1>1. /\ style' = style /\ pc' = pc /\ batch' = batch
      /\ cancelled' = cancelled /\ current' = current /\ stopPosted' = stopPosted
      /\ conns' = conns /\ told' = told /\ missed' = missed
      /\ sends' = sends /\ syncs' = syncs /\ wire' = wire
      /\ answered' = answered /\ dropped' = dropped /\ arrived' = arrived
      /\ queue' = queue /\ registered' = registered
      /\ closedFirst' = closedFirst \cup ({chan[c].conn} \ ({0} \cup told))
  BY DEF Close, InUserCode, loopVars, sendVars
<1>2. chan[c].conn \in Conns \cup {0} /\ chan[c].canceller \in Conns \cup {0}
  BY DEF IInv, TypeOK, ChannelState
<1>3. closedFirst' \subseteq Conns
  BY <1>1, <1>2 DEF IInv, TypeOK
<1>4. CASE Open(c)
  <2>1. PICK fd \in Fds : /\ fd = chan[c].fd /\ kernel[fd] # None
                          /\ item[fd] # None /\ item[fd] \in ItemState
    BY <1>4, OpenIs
  <2>2. /\ chan' = [chan EXCEPT ![c] = ClosedChannel(chan[c].conn, 0)]
        /\ item' = [item EXCEPT ![fd] = ClosedItem(item[fd])]
        /\ kernel' = [kernel EXCEPT ![fd] = Edge(kernel[fd])]
        /\ timers' = timers \cup {fd}
        /\ taken' = taken
    BY <1>4, <2>1 DEF Close, StartCloseTimer
  <2>3. /\ kernel[fd] \in SocketState
        /\ Edge(kernel[fd]) \in SocketState /\ Edge(kernel[fd]).unread = kernel[fd].unread
        /\ kernel[fd].unread <= arrived /\ arrived \in 0..MaxIn /\ arrived <= arrived
    <3>1. /\ kernel[fd] \in SocketState /\ MaxIn \in Nat /\ arrived \in 0..MaxIn
          /\ kernel[fd].unread <= arrived
      BY <2>1, SocketIs DEF IInv
    <3>2. arrived <= arrived
      BY <3>1
    <3> QED
      BY <3>1, <3>2, SocketOps
  <2>4. /\ kernel' \in [Fds -> SocketState \cup {None}]
        /\ \A f \in Fds : kernel'[f] = None <=> kernel[f] = None
        /\ \A f \in Fds : kernel'[f] # None => kernel'[f].unread <= arrived'
    <3>1. TypeOK /\ LoopShape
      BY DEF IInv
    <3> QED
      BY <1>1, <2>1, <2>2, <2>3, <3>1, SocketTouched
  <2>5. /\ ClosedItem(item[fd]) \in ItemState /\ ClosedItem(item[fd]).buffer = <<>>
    BY <2>1 DEF ClosedItem, ItemState
  <2>6. /\ item' \in [Fds -> ItemState \cup {None}]
        /\ item'[fd] = ClosedItem(item[fd])
        /\ \A f \in Fds \ {fd} : item'[f] = item[f]
    BY <2>2, <2>5 DEF IInv, TypeOK
  <2>7. ClosedChannel(chan[c].conn, 0) \in ChannelState
    BY <1>2 DEF ClosedChannel, ChannelState
  <2>8. /\ chan' \in [Channels -> ChannelState]
        /\ chan'[c] = ClosedChannel(chan[c].conn, 0)
        /\ \A d \in Channels \ {c} : chan'[d] = chan[d]
    BY <2>2, <2>7 DEF IInv, TypeOK
  <2>9. TypeOK'
    BY <1>1, <1>3, <2>2, <2>4, <2>6, <2>8 DEF IInv, TypeOK
  <2>10. LoopShape'
    BY <1>1, <2>4, <2>5, <2>6 DEF IInv, LoopShape, Closing
  <2>11. SocketOwners'
    <3>1. chan'[c].fd = None
      BY <2>8 DEF ClosedChannel
    <3> QED
      BY <1>1, <1>4, <2>1, <2>2, <2>4, <2>6, <2>8, <3>1, CloseOwners
  <2>12. Telling' /\ CloseNotToldAfterClose'
    BY <1>1, <1>4, <2>2, CloseTelling
  <2> QED
    BY <2>9, <2>10, <2>11, <2>12 DEF IInv
<1>5. CASE ~Open(c)
  <2>1. /\ chan' = chan /\ item' = item /\ kernel' = kernel /\ timers' = timers
        /\ taken' = taken \cup ({chan[c].canceller} \ {0})
    BY <1>5 DEF Close, CancelCloseTask
  <2>2. TypeOK'
    BY <1>1, <1>2, <1>3, <2>1 DEF IInv, TypeOK
  <2>3. LoopShape'
    BY <1>1, <2>1 DEF IInv, LoopShape, Closing
  <2>4. SocketOwners'
    <3>1. SameOwners
      BY <1>1, <2>1 DEF SameOwners
    <3> QED
      BY <3>1, OwnersKept DEF IInv
  <2>5. Telling' /\ CloseNotToldAfterClose'
    BY <1>1, <1>5, <2>1, CloseTelling
  <2> QED
    BY <2>2, <2>3, <2>4, <2>5 DEF IInv
<1> QED
  BY <1>4, <1>5

-----------------------------------------------------------------------------
(* The steps of the wait.                                                  *)

(* The loop goes on, with tasks of other kinds taken or posted, and        *)
(* handlers called, set or answered.                                       *)
LoopGoesOn ==
    /\ UNCHANGED <<style, chan, item, registered, timers, kernel, stopPosted,
                   conns, taken, told, closedFirst, sends, syncs, wire, dropped,
                   arrived>>
    /\ missed \subseteq missed'
    /\ Once(queue') /\ Pending(queue') = Pending(queue)
    /\ pc' # "drain" => pc # "drain" \/ Items = {}
    /\ cancelled' => queue' # <<>>
    /\ pc' = "user" => current' \in {Received(c) : c \in Channels} \cup {Other}

(* A step of the loop alone keeps the invariant.                           *)
LEMMA LoopGoesOnKeeps ==
    ASSUME IInv, LoopGoesOn, TypeOK'
    PROVE  IInv'
<1>1. /\ chan' = chan /\ item' = item /\ registered' = registered /\ timers' = timers
      /\ kernel' = kernel /\ arrived' = arrived /\ conns' = conns /\ taken' = taken
      /\ told' = told /\ closedFirst' = closedFirst
  BY DEF LoopGoesOn
<1>2. SameOwners /\ SameTelling
  BY <1>1 DEF SameOwners, SameTelling, LoopGoesOn
<1>3. LoopShape'
  BY <1>1 DEF IInv, LoopShape, Closing, LoopGoesOn
<1> QED
  BY <1>2, <1>3, QuietKeeps

(* So do the steps that only move the loop on, and the request to stop.    *)
LEMMA LoopOnlyKeeps ==
    ASSUME IInv, WaitAgain \/ OtherEvent \/ DrainDone \/ PostStop
    PROVE  IInv'
<1>0. queue \in Seq(Tasks) /\ Once(queue)
  BY DEF IInv, TypeOK, Telling, Tasks
<1>1. CASE WaitAgain
  <2>1. /\ pc' = "wait" /\ cancelled' = cancelled /\ queue' = queue /\ missed' = missed
        /\ current' = current /\ batch' = batch /\ answered' = answered /\ pc = "serve"
        /\ UNCHANGED <<style, chan, item, registered, timers, kernel, stopPosted,
                       conns, taken, told, closedFirst, sends, syncs, wire, dropped,
                       arrived>>
    BY <1>1 DEF WaitAgain, Served, closeVars, sendVars
  <2>2. LoopGoesOn
    BY <1>0, <2>1 DEF LoopGoesOn, IInv, LoopShape
  <2>3. TypeOK'
    BY <2>1 DEF IInv, TypeOK
  <2> QED
    BY <2>2, <2>3, LoopGoesOnKeeps
<1>2. CASE OtherEvent
  <2>1. /\ pc' = "user" /\ cancelled' = FALSE /\ queue' = queue /\ missed' = missed
        /\ current' = Other /\ batch' = batch /\ answered' = answered /\ pc # "drain"
        /\ UNCHANGED <<style, chan, item, registered, timers, kernel, stopPosted,
                       conns, taken, told, closedFirst, sends, syncs, wire, dropped,
                       arrived>>
    BY <1>2 DEF OtherEvent, Enter, Served, Quiet, closeVars, sendVars
  <2>2. LoopGoesOn
    BY <1>0, <2>1 DEF LoopGoesOn
  <2>3. TypeOK'
    BY <2>1 DEF IInv, TypeOK
  <2> QED
    BY <2>2, <2>3, LoopGoesOnKeeps
<1>3. CASE DrainDone
  <2>1. /\ pc' = "end" /\ cancelled' = cancelled /\ queue' = queue /\ missed' = missed
        /\ current' = current /\ batch' = batch /\ answered' = answered /\ Items = {}
        /\ UNCHANGED <<style, chan, item, registered, timers, kernel, stopPosted,
                       conns, taken, told, closedFirst, sends, syncs, wire, dropped,
                       arrived>>
    BY <1>3 DEF DrainDone, closeVars, sendVars
  <2>2. LoopGoesOn
    BY <1>0, <2>1 DEF LoopGoesOn, IInv, LoopShape
  <2>3. TypeOK'
    BY <2>1 DEF IInv, TypeOK
  <2> QED
    BY <2>2, <2>3, LoopGoesOnKeeps
<1>4. CASE PostStop
  <2>1. /\ style' = style /\ chan' = chan /\ item' = item /\ registered' = registered
        /\ timers' = timers /\ kernel' = kernel /\ pc' = pc /\ batch' = batch
        /\ cancelled' = cancelled /\ current' = current
        /\ conns' = conns /\ taken' = taken /\ told' = told /\ closedFirst' = closedFirst
        /\ missed' = missed /\ sends' = sends /\ syncs' = syncs /\ wire' = wire
        /\ answered' = answered /\ dropped' = dropped /\ arrived' = arrived
        /\ stopPosted' = TRUE /\ queue' = Append(queue, Stop)
    BY <1>4 DEF PostStop, loopVars, closeVars, sendVars
  <2>2. /\ queue' \in Seq(Tasks) /\ queue' # <<>>
        /\ Pending(queue') = Pending(queue) /\ Once(queue')
    BY <1>0, <2>1, PostedStop
  <2>3. TypeOK'
    BY <2>1, <2>2 DEF IInv, TypeOK, Tasks
  <2>4. LoopShape'
    BY <2>1, <2>2 DEF IInv, LoopShape, Closing
  <2>5. SameOwners /\ SameTelling
    BY <2>1, <2>2 DEF SameOwners, SameTelling
  <2> QED
    BY <2>3, <2>4, <2>5, QuietKeeps
<1> QED
  BY <1>1, <1>2, <1>3, <1>4

BatchEvents == {"read", "write", "close"} \X Fds

(* The events of one kind are a list of events.                            *)
LEMMA EventsAre ==
    ASSUME NEW kind \in {"read", "write", "close"}, NEW these \in SUBSET Fds, NEW fds,
           NEW e \in Events(kind, fds, these)
    PROVE  e \in Seq(BatchEvents)
<1> DEFINE n == Cardinality(these)
<1>1. n \in Nat
  BY DescriptorsAssumption, FS_Subset, FS_CardinalityType
<1>2. PICK s \in SetToSeqs(these) : e = [i \in DOMAIN s |-> <<kind, s[i]>>]
  BY DEF Events
<1>3. s \in [1..n -> these]
  BY DEF SetToSeqs
<1> HIDE DEF n
<1>4. e \in [1..n -> BatchEvents]
  BY <1>2, <1>3 DEF BatchEvents
<1> QED
  BY <1>1, <1>4

(* The wait takes the readiness of the sockets and the token of the queue. *)
LEMMA WaitKeeps ==
    ASSUME IInv, Wait
    PROVE  IInv'
<1>1. /\ style' = style /\ chan' = chan /\ item' = item /\ registered' = registered
      /\ timers' = timers /\ queue' = queue /\ current' = current
      /\ stopPosted' = stopPosted
      /\ conns' = conns /\ taken' = taken /\ told' = told /\ closedFirst' = closedFirst
      /\ missed' = missed /\ sends' = sends /\ syncs' = syncs /\ wire' = wire
      /\ answered' = answered /\ dropped' = dropped /\ arrived' = arrived
      /\ cancelled' = (queue # <<>>)
      /\ pc \in {"wait", "drain"} /\ pc' = IF pc = "wait" THEN "serve" ELSE pc
  BY DEF Wait, closeVars, sendVars
<1>2. batch' \in Seq(BatchEvents)
  <2>1. PICK fds \in SetToSeqs(ReadyFds) :
        \E reads  \in Events("read", fds, {fd \in ReadyFds : Readable(kernel[fd])}),
           writes \in Events("write", fds, {fd \in ReadyFds : Writable(kernel[fd])}),
           closes \in Events("close", fds, {fd \in ReadyFds : HungUp(kernel[fd])}) :
              batch' = reads \o writes \o closes
    BY DEF Wait
  <2>2. PICK reads \in Seq(BatchEvents), writes \in Seq(BatchEvents),
             closes \in Seq(BatchEvents) :
           batch' = reads \o writes \o closes
    <3>1. \A P \in SUBSET ReadyFds : P \in SUBSET Fds
      BY DEF ReadyFds, Live
    <3> QED
      BY <2>1, <3>1, EventsAre
  <2>3. reads \o writes \in Seq(BatchEvents)
    BY ConcatProperties
  <2> QED
    BY <2>2, <2>3, ConcatProperties
<1>3. \A fd \in Fds : kernel'[fd] = IF fd \in ReadyFds THEN Polled(kernel[fd]) ELSE kernel[fd]
  BY DEF Wait
<1>4. ASSUME NEW fd \in Fds
      PROVE  /\ kernel'[fd] \in SocketState \cup {None}
             /\ kernel'[fd] = None <=> kernel[fd] = None
             /\ kernel'[fd] # None => kernel'[fd].unread <= arrived
  <2>1. CASE fd \in ReadyFds
    <3>1. kernel[fd] # None
      BY <2>1 DEF ReadyFds, Live
    <3>2. kernel[fd] \in SocketState /\ kernel[fd].unread <= arrived
      BY <3>1, SocketIs DEF IInv
    <3>3. /\ Polled(kernel[fd]) \in SocketState /\ Polled(kernel[fd]) # None
          /\ Polled(kernel[fd]).unread = kernel[fd].unread
      <4>1. /\ Polled(kernel[fd]) \in SocketState
            /\ Polled(kernel[fd]).unread = kernel[fd].unread
        BY <3>2, SocketOps
      <4> QED
        BY <4>1, NoneAssumption
    <3> QED
      BY <1>3, <2>1, <3>1, <3>2, <3>3
  <2>2. CASE fd \notin ReadyFds
    <3>1. kernel'[fd] = kernel[fd]
      BY <1>3, <2>2
    <3> QED
      BY <3>1 DEF IInv, TypeOK, LoopShape
  <2> QED
    BY <2>1, <2>2
<1>5. kernel' \in [Fds -> SocketState \cup {None}]
  <2>1. kernel' = [fd \in Fds |-> kernel'[fd]]
    BY DEF Wait
  <2> QED
    BY <1>4, <2>1
<1>6. TypeOK'
  <2>1. cancelled' \in BOOLEAN /\ pc' \in {"wait", "serve", "user", "drain", "end"}
    BY <1>1
  <2> QED
    BY <1>1, <1>2, <1>5, <2>1 DEF IInv, TypeOK, BatchEvents
<1>7. LoopShape'
  BY <1>1, <1>4 DEF IInv, LoopShape, Closing
<1>8. SameOwners /\ SameTelling
  BY <1>1, <1>4 DEF SameOwners, SameTelling, IInv, Telling
<1> QED
  BY <1>6, <1>7, <1>8, QuietKeeps

-----------------------------------------------------------------------------
(* The steps that serve an event of the wait.                              *)

(* Every event that is served is taken off the batch, and no more.         *)
LEMMA ServeIs ==
    ASSUME IInv, NEW kind, NEW fd \in Fds, Serve(kind, fd)
    PROVE  /\ batch' \in Seq(BatchEvents)
           /\ style' = style /\ pc' = pc /\ cancelled' = cancelled /\ current' = current
           /\ stopPosted' = stopPosted /\ conns' = conns /\ taken' = taken
           /\ told' = told /\ closedFirst' = closedFirst /\ sends' = sends
           /\ syncs' = syncs /\ answered' = answered /\ dropped' = dropped
           /\ arrived' = arrived
           /\ queue \in Seq(Tasks) /\ Once(queue)
<1>1. batch \in Seq(BatchEvents) /\ batch # <<>> /\ batch' = Tail(batch)
  BY DEF Serve, IInv, TypeOK, BatchEvents
<1>2. batch' \in Seq(BatchEvents)
  BY <1>1, HeadTailProperties
<1> QED
  BY <1>2 DEF Serve, IInv, TypeOK, Telling, Tasks

(* An event to read posts a task or is missed.                             *)
LEMMA ServeReadKeeps ==
    ASSUME IInv, NEW fd \in Fds, ServeRead(fd)
    PROVE  IInv'
<1>1. /\ batch' \in Seq(BatchEvents)
      /\ style' = style /\ pc' = pc /\ cancelled' = cancelled /\ current' = current
      /\ stopPosted' = stopPosted /\ conns' = conns /\ taken' = taken
      /\ told' = told /\ closedFirst' = closedFirst /\ sends' = sends
      /\ syncs' = syncs /\ answered' = answered /\ dropped' = dropped
      /\ arrived' = arrived
      /\ queue \in Seq(Tasks) /\ Once(queue)
  BY ServeIs DEF ServeRead
<1>2. /\ chan' = chan /\ item' = item /\ registered' = registered /\ timers' = timers
      /\ kernel' = kernel /\ wire' = wire
  BY DEF ServeRead
<1>3. Active(fd) => item[fd].channel \in Channels
  BY DEF IInv, TypeOK, ItemState, Active
<1>4. /\ queue' \in Seq(Tasks) /\ Once(queue') /\ Pending(queue') = Pending(queue)
      /\ queue # <<>> => queue' # <<>>
  <2>1. CASE Active(fd) /\ chan[item[fd].channel].receiver
    <3> DEFINE ts == <<Received(item[fd].channel)>>
    <3>1. queue' = Posted(queue, ts)
      BY <2>1 DEF ServeRead
    <3>2. ts \in Seq(Tasks) /\ Mute(ts)
      BY <1>3, <2>1 DEF Tasks, Task, Mute, Received
    <3> HIDE DEF ts
    <3> QED
      BY <1>1, <3>1, <3>2, PostedMute
  <2>2. CASE ~(Active(fd) /\ chan[item[fd].channel].receiver)
    BY <1>1, <2>2 DEF ServeRead
  <2> QED
    BY <2>1, <2>2
<1>5. missed \subseteq missed' /\ missed' \subseteq Conns \X {"receive", "close"}
  <2>1. CASE /\ Active(fd) /\ ~chan[item[fd].channel].receiver
             /\ kernel[fd].unread > 0
    <3>1. PICK c \in Channels : c = item[fd].channel
      BY <1>3, <2>1
    <3>2. missed' = missed \cup {<<chan[c].conn, "receive">>}
      BY <2>1, <3>1 DEF ServeRead
    <3>3. Open(c)
      <4>1. chan[c].fd = fd
        BY <2>1, <3>1 DEF IInv, SocketOwners
      <4> QED
        BY <4>1, NoneAssumption DEF Open
    <3>4. chan[c].conn \in Conns
      BY <3>3 DEF IInv, TypeOK, ChannelState, Telling
    <3> QED
      BY <3>2, <3>4 DEF IInv, TypeOK
  <2>2. CASE ~(/\ Active(fd) /\ ~chan[item[fd].channel].receiver
               /\ kernel[fd].unread > 0)
    BY <2>2 DEF ServeRead, IInv, TypeOK
  <2> QED
    BY <2>1, <2>2
<1>6. TypeOK'
  BY <1>1, <1>2, <1>4, <1>5 DEF IInv, TypeOK, Tasks, BatchEvents
<1>7. LoopShape'
  BY <1>1, <1>2, <1>4 DEF IInv, LoopShape, Closing
<1>8. SameOwners /\ SameTelling
  BY <1>1, <1>2, <1>4, <1>5 DEF SameOwners, SameTelling
<1> QED
  BY <1>6, <1>7, <1>8, QuietKeeps

(* An event to write sends what waits in the buffer.                       *)
LEMMA ServeWriteKeeps ==
    ASSUME IInv, NEW fd \in Fds, ServeWrite(fd)
    PROVE  IInv'
<1>1. /\ batch' \in Seq(BatchEvents)
      /\ style' = style /\ pc' = pc /\ cancelled' = cancelled /\ current' = current
      /\ stopPosted' = stopPosted /\ conns' = conns /\ taken' = taken
      /\ told' = told /\ closedFirst' = closedFirst /\ sends' = sends
      /\ syncs' = syncs /\ answered' = answered /\ dropped' = dropped
      /\ arrived' = arrived
      /\ queue \in Seq(Tasks) /\ Once(queue)
  BY ServeIs DEF ServeWrite
<1>2. registered' = registered /\ timers' = timers /\ missed' = missed
  BY DEF ServeWrite
<1>3. CASE item[fd] # None
  <2> DEFINE it == [item[fd] EXCEPT !.blocked = FALSE]
  <2>1. /\ it \in ItemState /\ it.channel = item[fd].channel
        /\ it.buffer = item[fd].buffer
    BY <1>3 DEF IInv, TypeOK, ItemState
  <2>2. TrySend(fd, it, <<>>)
    BY <1>3 DEF ServeWrite
  <2>3. it.channel = None => it.buffer = <<>>
    BY <1>3, <2>1 DEF IInv, LoopShape, Closing
  <2>4. <<>> \in Seq(Sends)
    OBVIOUS
  <2> HIDE DEF it
  <2>5. /\ chan' \in [Channels -> ChannelState]
        /\ item' \in [Fds -> ItemState \cup {None}]
        /\ kernel' \in [Fds -> SocketState \cup {None}]
        /\ queue' \in Seq(Tasks) /\ wire' \in Seq(Sends)
        /\ \A f \in Fds : /\ item'[f] = None <=> item[f] = None
                          /\ item[f] # None => item'[f].channel = item[f].channel
                          /\ kernel'[f] = None <=> kernel[f] = None
        /\ \A c \in Channels : /\ chan'[c].fd = chan[c].fd
                               /\ chan'[c].conn = chan[c].conn
                               /\ chan'[c].canceller = chan[c].canceller
        /\ Once(queue') /\ Pending(queue') = Pending(queue)
        /\ queue # <<>> => queue' # <<>>
        /\ FdShape'
    BY <1>1, <1>3, <2>1, <2>2, <2>3, <2>4, TrySendIs
  <2>6. TypeOK'
    BY <1>1, <1>2, <2>5 DEF IInv, TypeOK, Tasks, BatchEvents
  <2>7. LoopShape'
    BY <1>1, <2>5 DEF IInv, LoopShape, FdShape
  <2>8. SameOwners /\ SameTelling
    BY <1>1, <1>2, <2>5 DEF SameOwners, SameTelling
  <2> QED
    BY <2>6, <2>7, <2>8, QuietKeeps
<1>4. CASE item[fd] = None
  <2>1. item' = item /\ kernel' = kernel /\ chan' = chan /\ queue' = queue /\ wire' = wire
    BY <1>4 DEF ServeWrite
  <2>2. TypeOK'
    BY <1>1, <1>2, <2>1 DEF IInv, TypeOK, BatchEvents
  <2>3. LoopShape'
    BY <1>1, <2>1 DEF IInv, LoopShape, Closing
  <2>4. SameOwners /\ SameTelling
    BY <1>1, <1>2, <2>1 DEF SameOwners, SameTelling
  <2> QED
    BY <2>2, <2>3, <2>4, QuietKeeps
<1> QED
  BY <1>3, <1>4

(* The peer has gone: an open channel is closed, or only its buffer        *)
(* emptied.                                                                *)
LEMMA ServeCloseActiveKeeps ==
    ASSUME IInv, NEW fd \in Fds, ServeCloseActive(fd)
    PROVE  IInv'
<1>1. /\ batch' \in Seq(BatchEvents)
      /\ style' = style /\ pc' = pc /\ cancelled' = cancelled /\ current' = current
      /\ stopPosted' = stopPosted /\ conns' = conns /\ taken' = taken
      /\ told' = told /\ closedFirst' = closedFirst /\ sends' = sends
      /\ syncs' = syncs /\ answered' = answered /\ dropped' = dropped
      /\ arrived' = arrived
      /\ queue \in Seq(Tasks) /\ Once(queue)
  BY ServeIs DEF ServeCloseActive
<1>2. timers' = timers /\ missed' = missed /\ wire' = wire /\ Active(fd)
  BY DEF ServeCloseActive
<1>3. PICK c \in Channels : c = item[fd].channel /\ chan[c].fd = fd
  <2>1. item[fd].channel \in Channels
    BY <1>2 DEF IInv, TypeOK, ItemState, Active
  <2> QED
    BY <1>2, <2>1 DEF IInv, SocketOwners
<1> DEFINE hs == chan[c].handlers
           n  == Messages(item[fd].buffer)
<1>4. hs \in Seq(Sends) /\ n \in Nat /\ item[fd] \in ItemState
  <2>1. item[fd] \in ItemState
    BY <1>2 DEF IInv, TypeOK, Active
  <2>2. item[fd].buffer \in Seq(Sends) /\ 0 \in Nat
    BY <2>1 DEF ItemState
  <2>3. n \in Nat
    BY <2>2, WholeNat
  <2> QED
    BY <2>1, <2>3 DEF IInv, TypeOK, ChannelState
<1>5. Open(c)
  BY <1>3, NoneAssumption DEF Open
<1>6. CASE kernel[fd].unread = 0
  <2> DEFINE q == Posted(queue, Answers(c, hs, n, "error"))
  <2>1. Release({fd}) /\ OnClose(c, q)
    BY <1>3, <1>6 DEF ServeCloseActive
  <2>2. /\ q \in Seq(Tasks) /\ Once(q) /\ Pending(q) = Pending(queue)
        /\ queue # <<>> => q # <<>>
    <3> DEFINE ts == Answers(c, hs, n, "error")
    <3>1. ts \in Seq(Tasks) /\ Mute(ts)
      <4>1. ts \in Seq(Task) /\ Mute(ts)
        BY <1>4, AnswersAre DEF Mute
      <4> QED
        BY <4>1 DEF Tasks
    <3> HIDE DEF ts
    <3>2. q = Posted(queue, ts)
      BY DEF ts
    <3> HIDE DEF q
    <3> QED
      BY <1>1, <3>1, <3>2, PostedMute
  <2> HIDE DEF q
  <2>3. /\ chan' \in [Channels -> ChannelState]
        /\ item' \in [Fds -> ItemState \cup {None}]
        /\ kernel' \in [Fds -> SocketState \cup {None}]
        /\ registered' \subseteq Fds
        /\ queue' \in Seq(Tasks)
        /\ q # <<>> => queue' # <<>>
        /\ Closes(c) /\ Frees(chan[c].fd) /\ FdShape'
    BY <1>1, <1>2, <1>3, <1>5, <2>1, <2>2, EofIs
  <2>4. TypeOK'
    BY <1>1, <1>2, <2>3 DEF IInv, TypeOK, Tasks, BatchEvents
  <2>5. LoopShape'
    BY <1>1, <2>2, <2>3 DEF IInv, LoopShape, FdShape
  <2> QED
    BY <1>3, <2>3, <2>4, <2>5, ClosingKeeps
<1>7. CASE kernel[fd].unread # 0
  <2>1. /\ item' = [item EXCEPT ![fd].buffer = <<>>]
        /\ Answer(c, hs, n, "error")
        /\ registered' = registered /\ kernel' = kernel
    BY <1>3, <1>7 DEF ServeCloseActive
  <2>2. [item[fd] EXCEPT !.buffer = <<>>] \in ItemState
    <3>1. \A b \in Seq(Sends) : [item[fd] EXCEPT !.buffer = b] \in ItemState
      BY <1>4 DEF ItemState
    <3>2. <<>> \in Seq(Sends)
      OBVIOUS
    <3> QED
      BY Zenon, <3>1, <3>2
  <2>3. /\ item' \in [Fds -> ItemState \cup {None}]
        /\ item'[fd] # None /\ item'[fd].channel = item[fd].channel
        /\ \A f \in Fds \ {fd} : item'[f] = item[f]
        /\ item'[fd].buffer = <<>>
    BY <1>4, <2>1, <2>2, NoneAssumption DEF IInv, TypeOK, ItemState
  <2> HIDE DEF hs, n
  <2>4. /\ chan' \in [Channels -> ChannelState]
        /\ \A d \in Channels : /\ chan'[d].fd = chan[d].fd
                               /\ chan'[d].conn = chan[d].conn
                               /\ chan'[d].canceller = chan[d].canceller
        /\ queue' \in Seq(Tasks) /\ Once(queue') /\ Pending(queue') = Pending(queue)
        /\ queue # <<>> => queue' # <<>>
    BY <1>1, <1>4, <2>1, AnswerIs DEF IInv
  <2>5. TypeOK'
    BY <1>1, <1>2, <2>1, <2>3, <2>4 DEF IInv, TypeOK, Tasks, BatchEvents
  <2>6. LoopShape'
    BY <1>1, <2>1, <2>3, <2>4 DEF IInv, LoopShape, Closing
  <2>7. SameOwners /\ SameTelling
    BY <1>1, <1>2, <2>1, <2>3, <2>4 DEF SameOwners, SameTelling, Active
  <2> QED
    BY <2>5, <2>6, <2>7, QuietKeeps
<1> QED
  BY <1>6, <1>7

(* An item that was only to be closed goes: no channel is concerned.       *)
LEMMA FreesKeeps ==
    ASSUME IInv, NEW fd \in Fds, Closing(fd), Release({fd}), timers' = timers \ {fd},
           UNCHANGED <<chan, queue, conns, taken, told, closedFirst, missed, arrived>>,
           pc' # "drain" => pc # "drain",
           batch' \in Seq(BatchEvents),
           UNCHANGED <<style, stopPosted, sends, syncs, wire, answered, dropped>>,
           \/ pc' = pc /\ cancelled' = cancelled /\ current' = current
           \/ pc' = "wait" /\ cancelled' = FALSE /\ current' = None
    PROVE  IInv'
<1>1. /\ item' \in [Fds -> ItemState \cup {None}]
      /\ kernel' \in [Fds -> SocketState \cup {None}]
      /\ registered' \subseteq Fds
  BY ReleaseIs DEF IInv
<1>2. TypeOK'
  BY <1>1 DEF IInv, TypeOK, BatchEvents
<1>3. FdShape'
  BY ReleaseShape
<1>4. LoopShape'
  BY <1>3 DEF IInv, LoopShape, FdShape
<1>5. SocketOwners'
  <2>1. ~Active(fd)
    BY DEF Active, Closing
  <2>2. Frees(fd)
    BY <2>1 DEF Frees
  <2> QED
    BY <2>2, OwnersFreed DEF IInv
<1>6. Telling' /\ CloseNotToldAfterClose'
  <2>1. SameTelling
    BY DEF SameTelling, IInv, Telling
  <2> QED
    BY <2>1, TellingKept DEF IInv
<1> QED
  BY <1>2, <1>4, <1>5, <1>6 DEF IInv

(* The peer has gone: the close that waited for it is done.                *)
LEMMA ServeCloseClosingKeeps ==
    ASSUME IInv, NEW fd \in Fds, ServeCloseClosing(fd)
    PROVE  IInv'
<1>1. /\ batch' \in Seq(BatchEvents)
      /\ style' = style /\ pc' = pc /\ cancelled' = cancelled /\ current' = current
      /\ stopPosted' = stopPosted /\ conns' = conns /\ taken' = taken
      /\ told' = told /\ closedFirst' = closedFirst /\ sends' = sends
      /\ syncs' = syncs /\ answered' = answered /\ dropped' = dropped
      /\ arrived' = arrived
  BY ServeIs DEF ServeCloseClosing
<1>2. /\ Closing(fd) /\ Release({fd}) /\ timers' = timers \ {fd}
      /\ chan' = chan /\ queue' = queue /\ wire' = wire /\ missed' = missed
  BY DEF ServeCloseClosing
<1> QED
  BY <1>1, <1>2, FreesKeeps

(* The timer of a close ends what waited for the peer.                     *)
LEMMA CloseTimeoutKeeps ==
    ASSUME IInv, NEW fd \in Fds, CloseTimeout(fd)
    PROVE  IInv'
<1>1. /\ style' = style /\ chan' = chan /\ batch' = batch /\ queue' = queue
      /\ stopPosted' = stopPosted /\ conns' = conns /\ taken' = taken
      /\ told' = told /\ closedFirst' = closedFirst /\ missed' = missed
      /\ sends' = sends /\ syncs' = syncs /\ wire' = wire /\ answered' = answered
      /\ dropped' = dropped /\ arrived' = arrived
      /\ pc' = "wait" /\ cancelled' = FALSE /\ current' = None /\ pc # "drain"
  BY DEF CloseTimeout, BackToWait, Served, Quiet, closeVars, sendVars
<1>2. Closing(fd) /\ Release({fd}) /\ timers' = timers \ {fd}
  BY DEF CloseTimeout, IInv, SocketOwners
<1>3. batch' \in Seq(BatchEvents)
  BY <1>1 DEF IInv, TypeOK, BatchEvents
<1> QED
  BY <1>1, <1>2, <1>3, FreesKeeps

-----------------------------------------------------------------------------
(* The steps that run a task.                                              *)

(* The task that runs is the first of the queue, which is not empty.       *)
LEMMA TakeIs ==
    ASSUME IInv, NEW is, Take(is)
    PROVE  /\ Head(queue) \in Tasks /\ Head(queue).is = is
           /\ Tail(queue) \in Seq(Tasks) /\ Once(Tail(queue))
           /\ is # "close" => Pending(Tail(queue)) = Pending(queue)
           /\ is = "close" =>
                 /\ Head(queue).conn \in Pending(queue)
                 /\ Pending(Tail(queue)) = Pending(queue) \ {Head(queue).conn}
           /\ style' = style /\ batch' = batch /\ stopPosted' = stopPosted
           /\ conns' = conns /\ taken' = taken /\ closedFirst' = closedFirst
           /\ missed' = missed /\ sends' = sends /\ syncs' = syncs /\ wire' = wire
           /\ dropped' = dropped /\ arrived' = arrived
           /\ pc # "drain"
<1>1. queue \in Seq(Tasks) /\ queue # <<>> /\ Once(queue)
  BY DEF Take, IInv, TypeOK, LoopShape, Telling, Tasks
<1>2. Head(queue).is = is
  BY DEF Take
<1>3. /\ style' = style /\ batch' = batch /\ stopPosted' = stopPosted
      /\ conns' = conns /\ taken' = taken /\ closedFirst' = closedFirst
      /\ missed' = missed /\ sends' = sends /\ syncs' = syncs /\ wire' = wire
      /\ dropped' = dropped /\ arrived' = arrived
      /\ pc # "drain"
  BY DEF Take, Served
<1> QED
  BY <1>1, <1>2, <1>3, PendingTail

(* A receive task may find its channel closed, or at its end.              *)
LEMMA RunReceiveKeeps ==
    ASSUME IInv, RunReceive
    PROVE  IInv'
<1> DEFINE q == Tail(queue)
<1>1. /\ Head(queue) \in Tasks /\ Head(queue).is = "receive"
      /\ q \in Seq(Tasks) /\ Once(q) /\ Pending(q) = Pending(queue)
      /\ style' = style /\ batch' = batch /\ stopPosted' = stopPosted
      /\ conns' = conns /\ taken' = taken /\ closedFirst' = closedFirst
      /\ missed' = missed /\ sends' = sends /\ syncs' = syncs /\ wire' = wire
      /\ dropped' = dropped /\ arrived' = arrived
      /\ pc # "drain"
  <2>1. Take("receive")
    BY DEF RunReceive
  <2> QED
    BY <2>1, TakeIs
<1>2. /\ timers' = timers /\ told' = told /\ answered' = answered
      /\ pc' = "user" /\ current' = Head(queue) /\ cancelled' = FALSE
  BY DEF RunReceive, Enter
<1>3. PICK c \in Channels : c = Head(queue).channel /\ Head(queue) = Received(c)
  BY <1>1, TaskKinds
<1>4. current' \in {Received(d) : d \in Channels} \cup {Other, None}
  BY <1>2, <1>3
<1> HIDE DEF q
<1>5. ASSUME chan[c].fd # None, ReceiveAll(c, q) \/ ReceiveData(c, q) PROVE IInv'
  <2>0. Open(c)
    BY <1>5 DEF Open
  <2>1. PICK fd \in Fds : fd = chan[c].fd /\ kernel[fd] # None
    BY <2>0, OpenIs
  <2>2. /\ kernel[fd] \in SocketState /\ MaxIn \in Nat /\ arrived \in 0..MaxIn
        /\ kernel[fd].unread \in 0..MaxIn /\ kernel[fd].unread <= arrived
    BY <2>1, SocketIs DEF IInv
  <2> DEFINE empty == [kernel[fd] EXCEPT !.unread = 0]
  <2>3. empty \in SocketState /\ empty.unread = 0
    <3>1. 0 \in 0..MaxIn
      BY <2>2
    <3> QED
      BY <2>2, <3>1, SocketOps
  <2>4. CASE Release({chan[c].fd}) /\ OnClose(c, q)
    <3>1. /\ chan' \in [Channels -> ChannelState]
          /\ item' \in [Fds -> ItemState \cup {None}]
          /\ kernel' \in [Fds -> SocketState \cup {None}]
          /\ registered' \subseteq Fds
          /\ queue' \in Seq(Tasks)
          /\ Closes(c) /\ Frees(chan[c].fd) /\ FdShape'
      BY <1>1, <1>2, <2>0, <2>4, EofIs
    <3>2. TypeOK'
      BY <1>1, <1>2, <1>4, <3>1 DEF IInv, TypeOK, Tasks
    <3>3. LoopShape'
      BY <1>2, <1>3, <3>1 DEF LoopShape, FdShape
    <3> QED
      BY <2>1, <3>1, <3>2, <3>3, ClosingKeeps
  <2>5. ASSUME NEW k \in SocketState, k.unread = 0, kernel' = [kernel EXCEPT ![fd] = k],
               queue' = q, UNCHANGED <<chan, item, registered>>
        PROVE  IInv'
    <3>1. /\ kernel' \in [Fds -> SocketState \cup {None}]
          /\ \A f \in Fds : kernel'[f] = None <=> kernel[f] = None
          /\ \A f \in Fds : kernel'[f] # None => kernel'[f].unread <= arrived'
      <4>1. TypeOK /\ LoopShape
        BY DEF IInv
      <4>2. arrived' \in 0..MaxIn /\ arrived <= arrived' /\ k.unread <= arrived'
        BY <1>1, <2>2, <2>5
      <4> QED
        BY <2>1, <2>5, <4>1, <4>2, SocketTouched
    <3>2. TypeOK'
      BY <1>1, <1>2, <1>4, <2>5, <3>1 DEF IInv, TypeOK, Tasks
    <3>3. LoopShape'
      BY <1>2, <1>3, <2>5, <3>1 DEF IInv, LoopShape, Closing
    <3>4. SameOwners /\ SameTelling
      BY <1>1, <1>2, <2>5, <3>1 DEF SameOwners, SameTelling
    <3> QED
      BY <3>2, <3>3, <3>4, QuietKeeps
  <2>6. CASE ReceiveAll(c, q)
    <3>1. CASE AtEof(empty)
      BY <2>1, <2>4, <2>6, <3>1 DEF ReceiveAll, OnTcpReceiveEof
    <3>2. CASE ~AtEof(empty)
      <4>1. /\ kernel' = [kernel EXCEPT ![fd] = TakeError(empty)]
            /\ queue' = q
            /\ UNCHANGED <<chan, item, registered>>
        BY <2>1, <2>6, <3>2 DEF ReceiveAll
      <4> HIDE DEF empty
      <4>2. TakeError(empty) \in SocketState /\ TakeError(empty).unread = 0
        BY <2>3, SocketOps
      <4> QED
        BY <2>5, <4>1, <4>2
    <3> QED
      BY <3>1, <3>2
  <2>7. CASE ReceiveData(c, q)
    <3>1. /\ kernel' = [kernel EXCEPT ![fd] = empty]
          /\ queue' = q
          /\ UNCHANGED <<chan, item, registered>>
      BY <2>1, <2>7 DEF ReceiveData
    <3> HIDE DEF empty
    <3> QED
      BY <2>3, <2>5, <3>1
  <2> QED
    BY <1>5, <2>6, <2>7
<1>6. ASSUME queue' = q, UNCHANGED <<chan, item, registered, kernel>> PROVE IInv'
  <2>1. TypeOK'
    BY <1>1, <1>2, <1>4, <1>6 DEF IInv, TypeOK, Tasks
  <2>2. LoopGoesOn
    BY <1>1, <1>2, <1>3, <1>6 DEF LoopGoesOn
  <2> QED
    BY <2>1, <2>2, LoopGoesOnKeeps
<1>7. \/ chan[c].fd # None /\ ReceiveAll(c, q)
      \/ chan[c].fd # None /\ ReceiveData(c, q)
      \/ queue' = q /\ UNCHANGED <<chan, item, registered, kernel>>
  BY <1>3 DEF RunReceive, q
<1> QED
  BY <1>5, <1>6, <1>7

(* A send task answers a send.                                             *)
LEMMA RunSentKeeps ==
    ASSUME IInv, RunSent
    PROVE  IInv'
<1>1. /\ Head(queue) \in Tasks /\ Head(queue).is = "sent"
      /\ Tail(queue) \in Seq(Tasks) /\ Once(Tail(queue))
      /\ Pending(Tail(queue)) = Pending(queue)
      /\ style' = style /\ batch' = batch /\ stopPosted' = stopPosted
      /\ conns' = conns /\ taken' = taken /\ closedFirst' = closedFirst
      /\ missed' = missed /\ sends' = sends /\ syncs' = syncs /\ wire' = wire
      /\ dropped' = dropped /\ arrived' = arrived
      /\ pc # "drain"
  <2>1. Take("sent")
    BY DEF RunSent
  <2> QED
    BY <2>1, TakeIs
<1>2. /\ chan' = chan /\ item' = item /\ registered' = registered /\ timers' = timers
      /\ kernel' = kernel /\ told' = told /\ queue' = Tail(queue)
      /\ pc' = "user" /\ current' = Other /\ cancelled' = FALSE
      /\ answered' = [answered EXCEPT ![Head(queue).send] = Head(queue).outcome]
  BY DEF RunSent, Enter
<1>3. answered' \in [Sends -> {None, "ok", "error"}]
  <2>1. Head(queue).send \in Sends /\ Head(queue).outcome \in {"ok", "error"}
    BY <1>1, TaskKinds
  <2> QED
    BY <1>2, <2>1 DEF IInv, TypeOK
<1>4. TypeOK'
  BY <1>1, <1>2, <1>3 DEF IInv, TypeOK, Tasks
<1>5. LoopGoesOn
  BY <1>1, <1>2 DEF LoopGoesOn
<1> QED
  BY <1>4, <1>5, LoopGoesOnKeeps

(* A close task tells its connection, unless it was taken back.            *)
LEMMA RunClosedKeeps ==
    ASSUME IInv, RunClosed
    PROVE  IInv'
<1> DEFINE n == Head(queue).conn
<1>1. /\ Head(queue) \in Tasks /\ Head(queue).is = "close"
      /\ Tail(queue) \in Seq(Tasks) /\ Once(Tail(queue))
      /\ n \in Pending(queue) /\ Pending(Tail(queue)) = Pending(queue) \ {n}
      /\ style' = style /\ batch' = batch /\ stopPosted' = stopPosted
      /\ conns' = conns /\ taken' = taken /\ closedFirst' = closedFirst
      /\ missed' = missed /\ sends' = sends /\ syncs' = syncs /\ wire' = wire
      /\ dropped' = dropped /\ arrived' = arrived
      /\ pc # "drain"
  <2>1. Take("close")
    BY DEF RunClosed
  <2> QED
    BY <2>1, TakeIs
<1>2. /\ chan' = chan /\ item' = item /\ registered' = registered /\ timers' = timers
      /\ kernel' = kernel /\ answered' = answered /\ queue' = Tail(queue)
      /\ n \in taken => told' = told
      /\ n \notin taken => told' = told \cup {n}
      /\ cancelled' = FALSE
      /\ \/ pc' = "user" /\ current' = Other
         \/ pc' = "wait" /\ current' = None
  BY DEF RunClosed, Enter, BackToWait
<1>3. n \in Conns /\ n \in 1..conns
  BY <1>1 DEF Pending, IInv, Telling
<1> HIDE DEF n
<1>4. told' \subseteq told \cup {n}
  BY <1>2
<1>5. TypeOK'
  BY <1>1, <1>2, <1>3, <1>4 DEF IInv, TypeOK, Tasks
<1>6. LoopShape'
  BY <1>1, <1>2 DEF IInv, LoopShape, Closing
<1>7. SocketOwners'
  <2>1. SameOwners
    BY <1>1, <1>2 DEF SameOwners
  <2> QED
    BY <2>1, OwnersKept DEF IInv
<1>8. CloseNotToldAfterClose'
  <2> SUFFICES ASSUME NEW m \in closedFirst \cap told' PROVE <<m, "close">> \in missed
    BY <1>1 DEF CloseNotToldAfterClose
  <2>1. CASE m \in told
    BY <2>1 DEF IInv, CloseNotToldAfterClose
  <2>2. CASE m \notin told
    <3>1. m = n /\ n \notin taken
      BY <1>2, <1>4, <2>2
    <3> QED
      BY <1>1, <3>1 DEF IInv, Telling
  <2> QED
    BY <2>1, <2>2
<1>9. Telling'
  <2>1. \A c \in Channels : (Open(c)' <=> Open(c)) /\ (Held(c)' <=> Held(c))
    BY <1>1, <1>2 DEF Open, Held
  <2> QED
    BY <1>1, <1>2, <1>3, <1>4, <2>1 DEF IInv, Telling
<1> QED
  BY <1>5, <1>6, <1>7, <1>8, <1>9 DEF IInv

(* The stop closes every channel and empties the queue.                    *)
LEMMA RunStopKeeps ==
    ASSUME IInv, RunStop
    PROVE  IInv'
<1>1. /\ style' = style /\ batch' = batch /\ stopPosted' = stopPosted
      /\ conns' = conns /\ taken' = taken /\ closedFirst' = closedFirst
      /\ missed' = missed /\ sends' = sends /\ syncs' = syncs /\ wire' = wire
      /\ dropped' = dropped /\ arrived' = arrived
  <2>1. Take("stop")
    BY DEF RunStop
  <2> QED
    BY <2>1, TakeIs
<1>2. /\ registered' = registered /\ timers' = timers /\ told' = told
      /\ answered' = answered /\ pc' = "drain" /\ current' = None
      /\ cancelled' = FALSE /\ queue' = <<>>
      /\ chan' = [c \in Channels |-> [chan[c] EXCEPT !.fd = None]]
      /\ item' = [fd \in Fds |-> IF Active(fd) THEN ClosedItem(item[fd]) ELSE item[fd]]
      /\ kernel' = [fd \in Fds |-> IF Active(fd) THEN Edge(kernel[fd]) ELSE kernel[fd]]
  BY DEF RunStop
<1>3. /\ chan' \in [Channels -> ChannelState]
      /\ \A c \in Channels : /\ chan'[c].fd = None
                             /\ chan'[c].conn = chan[c].conn
                             /\ chan'[c].canceller = chan[c].canceller
  <2>1. \A c \in Channels : /\ [chan[c] EXCEPT !.fd = None] \in ChannelState
                            /\ [chan[c] EXCEPT !.fd = None].fd = None
                            /\ [chan[c] EXCEPT !.fd = None].conn = chan[c].conn
                            /\ [chan[c] EXCEPT !.fd = None].canceller = chan[c].canceller
    <3>1. \A c \in Channels : chan[c] \in ChannelState
      BY DEF IInv, TypeOK
    <3>2. <<>> \in Seq(Sends) /\ TRUE \in BOOLEAN
      OBVIOUS
    <3> QED
      BY <3>1, <3>2, ChannelOps
  <2> QED
    BY <1>2, <2>1
<1>4. ASSUME NEW fd \in Fds
      PROVE  /\ item'[fd] \in ItemState \cup {None}
             /\ item'[fd] = None <=> item[fd] = None
             /\ ~Active(fd)'
             /\ Closing(fd)' => item'[fd].buffer = <<>>
             /\ Closing(fd) => Closing(fd)'
  <2>1. CASE Active(fd)
    <3>1. item[fd] \in ItemState /\ item[fd] # None
      BY <2>1 DEF IInv, TypeOK, Active
    <3>2. /\ ClosedItem(item[fd]) \in ItemState
          /\ ClosedItem(item[fd]).channel = None /\ ClosedItem(item[fd]).buffer = <<>>
      BY <3>1 DEF ClosedItem, ItemState
    <3>3. ClosedItem(item[fd]) # None
      BY <3>2, NoneAssumption
    <3>4. item'[fd] = ClosedItem(item[fd])
      BY <1>2, <2>1
    <3> QED
      BY <3>1, <3>2, <3>3, <3>4 DEF Active, Closing
  <2>2. CASE ~Active(fd)
    <3>1. item'[fd] = item[fd]
      BY <1>2, <2>2
    <3> QED
      BY <2>2, <3>1 DEF IInv, TypeOK, LoopShape, Active, Closing
  <2> QED
    BY <2>1, <2>2
<1>5. item' \in [Fds -> ItemState \cup {None}]
  <2>1. item' = [fd \in Fds |-> item'[fd]]
    BY <1>2
  <2> QED
    BY <1>4, <2>1
<1>6. ASSUME NEW fd \in Fds
      PROVE  /\ kernel'[fd] \in SocketState \cup {None}
             /\ kernel'[fd] = None <=> kernel[fd] = None
             /\ kernel'[fd] # None => kernel'[fd].unread <= arrived
  <2>1. CASE Active(fd)
    <3>1. kernel[fd] # None
      BY <2>1 DEF IInv, SocketOwners, Live, Items, Active
    <3>2. kernel[fd] \in SocketState /\ kernel[fd].unread <= arrived
      BY <3>1, SocketIs DEF IInv
    <3>3. Edge(kernel[fd]) \in SocketState /\ Edge(kernel[fd]).unread = kernel[fd].unread
      BY <3>2, SocketOps
    <3>4. Edge(kernel[fd]) # None
      BY <3>3, NoneAssumption
    <3>5. kernel'[fd] = Edge(kernel[fd])
      BY <1>2, <2>1
    <3> QED
      BY <3>1, <3>2, <3>3, <3>4, <3>5
  <2>2. CASE ~Active(fd)
    <3>1. kernel'[fd] = kernel[fd]
      BY <1>2, <2>2
    <3> QED
      BY <3>1 DEF IInv, TypeOK, LoopShape
  <2> QED
    BY <2>1, <2>2
<1>7. kernel' \in [Fds -> SocketState \cup {None}]
  <2>1. kernel' = [fd \in Fds |-> kernel'[fd]]
    BY <1>2
  <2> QED
    BY <1>6, <2>1
<1>8. TypeOK'
  <2>1. queue' \in Seq(Task \cup {Stop})
    BY <1>2
  <2> QED
    BY <1>1, <1>2, <1>3, <1>5, <1>7, <2>1 DEF IInv, TypeOK
<1>9. LoopShape'
  BY <1>1, <1>2, <1>4, <1>6 DEF LoopShape
<1>10. SocketOwners'
  <2>1. Items' = Items /\ Live' = Live
    BY <1>4, <1>6 DEF Items, Live
  <2>2. \A c \in Channels : ~Open(c)'
    BY <1>3 DEF Open
  <2>3. timers' \subseteq {fd \in Fds : Closing(fd)'}
    BY <1>2, <1>4 DEF IInv, SocketOwners
  <2> QED
    BY <1>2, <1>4, <2>1, <2>2, <2>3 DEF IInv, SocketOwners
<1>11. CloseNotToldAfterClose'
  BY <1>1, <1>2 DEF IInv, CloseNotToldAfterClose
<1>12. Telling'
  <2>1. Pending(queue') = {} /\ Once(queue')
    BY <1>2 DEF Pending, Once
  <2>2. \A c \in Channels : ~Open(c)'
    BY <1>3 DEF Open
  <2> QED
    BY <1>1, <1>2, <1>3, <2>1, <2>2 DEF IInv, Telling
<1> QED
  BY <1>8, <1>9, <1>10, <1>11, <1>12 DEF IInv

-----------------------------------------------------------------------------
(* The end of user code, and of the thread.                                *)

(* The channel is closed when the peek finds its end; otherwise the peek   *)
(* takes an error off the socket at most.                                  *)
LEMMA ReturnKeeps ==
    ASSUME IInv, Return
    PROVE  IInv'
<1>1. /\ style' = style /\ timers' = timers /\ batch' = batch
      /\ stopPosted' = stopPosted /\ conns' = conns /\ taken' = taken
      /\ told' = told /\ closedFirst' = closedFirst /\ missed' = missed
      /\ sends' = sends /\ syncs' = syncs /\ wire' = wire /\ answered' = answered
      /\ dropped' = dropped /\ arrived' = arrived
      /\ pc' = "wait" /\ cancelled' = FALSE /\ current' = None /\ pc = "user"
  BY DEF Return, BackToWait, closeVars, sendVars
<1>2. ASSUME NEW c \in Channels, Open(c), PeekEof(c) PROVE IInv'
  <2>1. PICK fd \in Fds : fd = chan[c].fd /\ kernel[fd] # None
    BY <1>2, OpenIs
  <2>2. /\ kernel[fd] \in SocketState /\ arrived \in 0..MaxIn /\ MaxIn \in Nat
        /\ kernel[fd].unread \in 0..MaxIn /\ kernel[fd].unread <= arrived
    BY <2>1, SocketIs DEF IInv
  <2>3. CASE AtEof(kernel[fd])
    <3>1. Release({chan[c].fd}) /\ OnClose(c, queue)
      BY <1>2, <2>1, <2>3 DEF PeekEof, OnTcpReceiveEof
    <3>2. queue \in Seq(Tasks) /\ Once(queue)
      BY DEF IInv, TypeOK, Telling, Tasks
    <3>3. /\ chan' \in [Channels -> ChannelState]
          /\ item' \in [Fds -> ItemState \cup {None}]
          /\ kernel' \in [Fds -> SocketState \cup {None}]
          /\ registered' \subseteq Fds
          /\ queue' \in Seq(Tasks)
          /\ Closes(c) /\ Frees(chan[c].fd) /\ FdShape'
      BY <1>1, <1>2, <3>1, <3>2, EofIs
    <3>4. TypeOK'
      BY <1>1, <3>3 DEF IInv, TypeOK, Tasks
    <3>5. LoopShape'
      BY <1>1, <3>3 DEF LoopShape, FdShape
    <3> QED
      BY <1>1, <2>1, <3>3, <3>4, <3>5, ClosingKeeps
  <2>4. CASE ~AtEof(kernel[fd])
    <3>1. PICK k \in SocketState : /\ k.unread = kernel[fd].unread
                                   /\ kernel' = [kernel EXCEPT ![fd] = k]
      <4>1. TakeError(kernel[fd]) \in SocketState
            /\ TakeError(kernel[fd]).unread = kernel[fd].unread
        BY <2>2, SocketOps
      <4>2. kernel' = [kernel EXCEPT ![fd] = IF kernel[fd].unread = 0
                                             THEN TakeError(kernel[fd])
                                             ELSE kernel[fd]]
        BY <1>2, <2>1, <2>4 DEF PeekEof
      <4> QED
        BY <2>2, <4>1, <4>2
    <3>2. chan' = chan /\ item' = item /\ registered' = registered /\ queue' = queue
      BY <1>2, <2>1, <2>4 DEF PeekEof
    <3>3. /\ kernel' \in [Fds -> SocketState \cup {None}]
          /\ \A f \in Fds : kernel'[f] = None <=> kernel[f] = None
          /\ \A f \in Fds : kernel'[f] # None => kernel'[f].unread <= arrived'
      <4>1. TypeOK /\ LoopShape
        BY DEF IInv
      <4>2. arrived' \in 0..MaxIn /\ arrived <= arrived' /\ k.unread <= arrived'
        BY <1>1, <2>2, <3>1
      <4> QED
        BY <2>1, <3>1, <4>1, <4>2, SocketTouched
    <3>4. TypeOK'
      BY <1>1, <3>2, <3>3 DEF IInv, TypeOK
    <3>5. LoopShape'
      BY <1>1, <3>2, <3>3 DEF IInv, LoopShape, Closing
    <3>6. SameOwners /\ SameTelling
      BY <1>1, <3>2, <3>3 DEF SameOwners, SameTelling, IInv, Telling
    <3> QED
      BY <3>4, <3>5, <3>6, QuietKeeps
  <2> QED
    BY <2>3, <2>4
<1>3. ASSUME UNCHANGED <<chan, item, registered, kernel, queue>> PROVE IInv'
  <2>1. TypeOK'
    BY <1>1, <1>3 DEF IInv, TypeOK
  <2>2. LoopGoesOn
    BY <1>1, <1>3 DEF LoopGoesOn, IInv, Telling
  <2> QED
    BY <2>1, <2>2, LoopGoesOnKeeps
<1>4. \/ UNCHANGED <<chan, item, registered, kernel, queue>>
      \/ \E c \in Channels : Open(c) /\ PeekEof(c)
  <2>1. current \in {Received(c) : c \in Channels} \cup {Other}
    BY <1>1 DEF IInv, LoopShape
  <2>2. CASE current = Other
    BY <2>2 DEF Return, Other
  <2>3. CASE current # Other
    <3>1. PICK c \in Channels : current = Received(c)
      BY <2>1, <2>3
    <3>2. current.is = "receive" /\ current.channel = c
      BY <3>1 DEF Received
    <3> QED
      BY <3>2 DEF Return, Open
  <2> QED
    BY <2>2, <2>3
<1> QED
  BY <1>2, <1>3, <1>4

(* In the drain no channel is open, each has given its socket to its item; *)
(* and the thread ends with no event to serve and no item.                 *)
Stopped ==
    /\ pc = "drain" => \A c \in Channels : ~Open(c)
    /\ pc = "end" => batch = <<>> /\ Items = {}

(* When the drain times out what is left is ended with its timers.         *)
LEMMA DrainTimeoutKeeps ==
    ASSUME IInv, Stopped, DrainTimeout
    PROVE  IInv'
<1>1. /\ style' = style /\ chan' = chan /\ pc' = pc /\ batch' = batch
      /\ cancelled' = cancelled /\ current' = current /\ queue' = queue
      /\ stopPosted' = stopPosted /\ conns' = conns /\ taken' = taken
      /\ told' = told /\ closedFirst' = closedFirst /\ missed' = missed
      /\ sends' = sends /\ syncs' = syncs /\ wire' = wire /\ answered' = answered
      /\ dropped' = dropped /\ arrived' = arrived
      /\ pc = "drain" /\ timers' = timers \ Items /\ Release(Items)
  BY DEF DrainTimeout, Drained, loopVars, closeVars, sendVars
<1>2. /\ registered' = registered \ Items
      /\ item' = [fd \in Fds |-> IF fd \in Items THEN None ELSE item[fd]]
      /\ kernel' = [fd \in Fds |-> IF fd \in Items THEN None ELSE kernel[fd]]
  BY <1>1 DEF Release
<1>3. \A fd \in Fds : item'[fd] = None /\ kernel'[fd] = None
  BY <1>2 DEF IInv, SocketOwners, Items, Live
<1>4. registered' = {} /\ timers' = {}
  BY <1>1, <1>2 DEF IInv, SocketOwners, Items, Closing
<1>5. TypeOK'
  <2>1. item' = [fd \in Fds |-> None] /\ kernel' = [fd \in Fds |-> None]
    BY <1>2, <1>3
  <2>2. item' \in [Fds -> ItemState \cup {None}]
    BY <2>1
  <2>3. kernel' \in [Fds -> SocketState \cup {None}]
    BY <2>1
  <2> QED
    BY <1>1, <1>4, <2>2, <2>3 DEF IInv, TypeOK
<1>6. LoopShape'
  BY <1>1, <1>3 DEF IInv, LoopShape, Closing
<1>7. SocketOwners'
  <2>1. Items' = {} /\ Live' = {}
    BY <1>3 DEF Items, Live
  <2>2. \A fd \in Fds : ~Active(fd)'
    BY <1>3 DEF Active
  <2>3. \A c \in Channels : ~Open(c)'
    BY <1>1 DEF Stopped, Open
  <2> QED
    BY <1>1, <1>4, <2>1, <2>2, <2>3 DEF SocketOwners
<1>8. Telling' /\ CloseNotToldAfterClose'
  <2>1. SameTelling
    BY <1>1 DEF SameTelling, IInv, Telling
  <2> QED
    BY <2>1, TellingKept DEF IInv
<1> QED
  BY <1>5, <1>6, <1>7, <1>8 DEF IInv

(* The events that a drain still serves open no channel.                   *)
LEMMA ServeStopped ==
    ASSUME IInv, Stopped, NEW fd \in Fds,
           \/ ServeRead(fd) \/ ServeWrite(fd)
           \/ ServeCloseActive(fd) \/ ServeCloseClosing(fd)
    PROVE  Stopped'
<1>1. pc' = pc /\ batch # <<>>
  BY DEF ServeRead, ServeWrite, ServeCloseActive, ServeCloseClosing, Serve
<1>2. CASE pc # "drain"
  BY <1>1, <1>2 DEF Stopped
<1>3. CASE pc = "drain"
  <2>1. ~Active(fd)
    <3>1. SUFFICES ASSUME Active(fd) PROVE FALSE
      OBVIOUS
    <3>2. item[fd].channel \in Channels
      BY <3>1 DEF Active, IInv, TypeOK, ItemState
    <3>3. Open(item[fd].channel)
      BY <3>1, NoneAssumption DEF IInv, SocketOwners, Open
    <3> QED
      BY <1>3, <3>2, <3>3 DEF Stopped
  <2>2. chan' = chan
    <3>1. CASE ServeRead(fd) \/ ServeCloseClosing(fd)
      BY <3>1 DEF ServeRead, ServeCloseClosing
    <3>2. CASE ServeWrite(fd)
      <4>1. CASE item[fd] = None
        BY <3>2, <4>1 DEF ServeWrite
      <4>2. CASE item[fd] # None
        <5> DEFINE it == [item[fd] EXCEPT !.blocked = FALSE]
        <5>1. item[fd] \in ItemState /\ item[fd].buffer = <<>>
          BY <2>1, <4>2 DEF Active, Closing, IInv, TypeOK, LoopShape
        <5>2. it.buffer = <<>>
          BY <5>1 DEF ItemState
        <5>3. TrySend(fd, it, <<>>)
          BY <3>2, <4>2 DEF ServeWrite
        <5> QED
          BY <5>2, <5>3 DEF TrySend
      <4> QED
        BY <4>1, <4>2
    <3>3. CASE ServeCloseActive(fd)
      BY <2>1, <3>3 DEF ServeCloseActive
    <3> QED
      BY <3>1, <3>2, <3>3
  <2> QED
    BY <1>1, <1>3, <2>2 DEF Stopped, Open
<1> QED
  BY <1>2, <1>3

(* Every step keeps that.                                                  *)
LEMMA StoppedKeeps ==
    ASSUME IInv, Stopped, [Next]_vars
    PROVE  Stopped'
<1>1. ASSUME pc' \notin {"drain", "end"} PROVE Stopped'
  BY <1>1 DEF Stopped
<1>2. CASE Wait
  BY <1>1, <1>2 DEF Wait, Stopped, Open
<1>3. CASE WaitAgain \/ Return \/ OtherEvent \/ \E fd \in Fds : CloseTimeout(fd)
  BY <1>1, <1>3 DEF WaitAgain, Return, OtherEvent, CloseTimeout, BackToWait, Enter
<1>4. CASE RunReceive \/ RunSent \/ RunClosed
  BY <1>1, <1>4 DEF RunReceive, RunSent, RunClosed, BackToWait, Enter
<1>5. CASE RunStop
  <2>1. pc' = "drain" /\ chan' = [c \in Channels |-> [chan[c] EXCEPT !.fd = None]]
    BY <1>5 DEF RunStop
  <2>2. \A c \in Channels : chan[c] \in ChannelState
    BY DEF IInv, TypeOK
  <2>3. \A c \in Channels : chan'[c].fd = None
    BY <2>1, <2>2 DEF ChannelState
  <2> QED
    BY <2>1, <2>3 DEF Stopped, Open
<1>6. CASE DrainTimeout
  BY <1>6 DEF DrainTimeout, Drained, loopVars, Stopped, Open
<1>7. CASE DrainDone
  BY <1>7 DEF DrainDone, Drained, Stopped, Items
<1>8. CASE \E fd \in Fds : \/ ServeRead(fd) \/ ServeWrite(fd)
                          \/ ServeCloseActive(fd) \/ ServeCloseClosing(fd)
  BY <1>8, ServeStopped
<1>9. CASE \E c \in Channels : \/ Send(c) \/ SendNow(c) \/ CancelSend(c)
                              \/ Receive(c) \/ Close(c)
                              \/ SetReceiveHandler(c) \/ SetCloseHandler(c)
                              \/ \E fd \in Fds : Connect(c, fd)
  <2>1. InUserCode
    BY <1>9 DEF Send, SendNow, CancelSend, Receive, Close, SetReceiveHandler,
                SetCloseHandler, Connect
  <2> QED
    BY <1>1, <2>1 DEF InUserCode, loopVars
<1>10. ASSUME UNCHANGED <<chan, item, pc, batch>> PROVE Stopped'
  BY <1>10 DEF Stopped, Open, Items
<1>11. CASE PostStop
  BY <1>10, <1>11 DEF PostStop, loopVars
<1>12. CASE PeerStep
  BY <1>10, <1>12 DEF PeerStep, PeerSends, PeerEnds, RoomBack, loopVars
<1>13. CASE UNCHANGED vars
  BY <1>10, <1>13 DEF vars
<1> QED
  BY <1>2, <1>3, <1>4, <1>5, <1>6, <1>7, <1>8, <1>9, <1>11, <1>12, <1>13
     DEF Next, LoopStep, RunTask, UserStep

-----------------------------------------------------------------------------
(* The theorems.                                                           *)

(* A new thread has no socket and has told nothing.                        *)
LEMMA InitInv ==
    ASSUME Init
    PROVE  IInv /\ Stopped
<1>1. /\ chan = [c \in Channels |-> NewChannel] /\ item = [fd \in Fds |-> None]
      /\ kernel = [fd \in Fds |-> None] /\ registered = {} /\ timers = {}
      /\ pc = "wait" /\ batch = <<>> /\ cancelled = FALSE /\ queue = <<>>
      /\ current = None /\ stopPosted = FALSE /\ conns = 0 /\ taken = {}
      /\ told = {} /\ closedFirst = {} /\ missed = {} /\ sends = <<>> /\ syncs = 0
      /\ wire = <<>> /\ answered = [s \in Sends |-> None] /\ dropped = {}
      /\ arrived = 0 /\ style \in Styles
  BY DEF Init
<1>2. /\ NewChannel \in ChannelState /\ NewChannel.fd = None /\ NewChannel.conn = 0
      /\ NewChannel.canceller = 0
  BY DEF NewChannel, ClosedChannel, ChannelState
<1> HIDE DEF NewChannel
<1>3. \A c \in Channels : /\ chan[c].fd = None /\ chan[c].conn = 0
                          /\ chan[c].canceller = 0
  BY <1>1, <1>2
<1>4. TypeOK
  <2>1. {MaxConns, MaxSends, MaxIn} \subseteq Nat
    BY BoundsAssumption
  <2>2. conns \in 0..MaxConns /\ sends \in Seq(Conns) /\ Len(sends) + syncs <= MaxSends /\ syncs \in 0..MaxSends
        /\ arrived \in 0..MaxIn
    BY <1>1, <2>1
  <2>3. chan \in [Channels -> ChannelState] /\ item \in [Fds -> ItemState \cup {None}]
        /\ kernel \in [Fds -> SocketState \cup {None}]
    BY <1>1, <1>2
  <2>4. batch \in Seq({"read", "write", "close"} \X Fds)
        /\ queue \in Seq(Task \cup {Stop}) /\ wire \in Seq(Sends)
    BY <1>1
  <2> QED
    BY <1>1, <2>2, <2>3, <2>4 DEF TypeOK
<1>5. LoopShape
  BY <1>1 DEF LoopShape, Closing
<1>6. SocketOwners
  <2>1. Live = {} /\ Items = {}
    BY <1>1 DEF Live, Items
  <2>2. \A fd \in Fds : ~Active(fd) /\ ~Closing(fd)
    BY <1>1 DEF Active, Closing
  <2> QED
    BY <1>1, <1>3, <2>1, <2>2 DEF SocketOwners, Open
<1>7. Telling
  <2>1. Pending(queue) = {} /\ Once(queue)
    BY <1>1 DEF Pending, Once
  <2> QED
    BY <1>1, <1>3, <2>1 DEF Telling, Open
<1> QED
  BY <1>1, <1>4, <1>5, <1>6, <1>7 DEF IInv, CloseNotToldAfterClose, Stopped

(* Every step of the thread, of its user and of the peers keeps the        *)
(* invariant.                                                              *)
LEMMA StepKeeps ==
    ASSUME IInv, Stopped, [Next]_vars
    PROVE  IInv'
<1>1. CASE Wait
  BY <1>1, WaitKeeps
<1>2. CASE WaitAgain \/ OtherEvent \/ DrainDone \/ PostStop
  BY <1>2, LoopOnlyKeeps
<1>3. CASE Return
  BY <1>3, ReturnKeeps
<1>4. CASE DrainTimeout
  BY <1>4, DrainTimeoutKeeps
<1>5. CASE RunTask
  BY <1>5, RunReceiveKeeps, RunSentKeeps, RunClosedKeeps, RunStopKeeps DEF RunTask
<1>6. ASSUME NEW fd \in Fds,
             \/ ServeRead(fd) \/ ServeWrite(fd)
             \/ ServeCloseActive(fd) \/ ServeCloseClosing(fd) \/ CloseTimeout(fd)
      PROVE  IInv'
  BY <1>6, ServeReadKeeps, ServeWriteKeeps, ServeCloseActiveKeeps,
     ServeCloseClosingKeeps, CloseTimeoutKeeps
<1>7. ASSUME NEW c \in Channels,
             \/ Send(c) \/ SendNow(c) \/ CancelSend(c) \/ Receive(c) \/ Close(c)
             \/ SetReceiveHandler(c) \/ SetCloseHandler(c)
      PROVE  IInv'
  BY <1>7, SendKeeps, SendNowKeeps, CancelSendKeeps, ReceiveKeeps, CloseKeeps,
     SetReceiveHandlerKeeps, SetCloseHandlerKeeps
<1>8. ASSUME NEW c \in Channels, NEW fd \in Fds, Connect(c, fd)
      PROVE  IInv'
  BY <1>8, ConnectKeeps
<1>9. ASSUME NEW fd \in Fds,
             \/ PeerSends(fd) \/ RoomBack(fd)
             \/ \E how \in {"fin", "reset"} : PeerEnds(fd, how)
      PROVE  IInv'
  BY <1>9, PeerSendsKeeps, RoomBackKeeps, PeerEndsKeeps
<1>10. CASE UNCHANGED vars
  <2>1. TypeOK'
    BY <1>10 DEF vars, IInv, TypeOK
  <2>2. LoopGoesOn
    BY <1>10 DEF vars, LoopGoesOn, IInv, LoopShape, Telling
  <2> QED
    BY <2>1, <2>2, LoopGoesOnKeeps
<1> QED
  BY <1>1, <1>2, <1>3, <1>4, <1>5, <1>6, <1>7, <1>8, <1>9, <1>10
     DEF Next, LoopStep, UserStep, PeerStep

(* The invariant holds throughout.                                         *)
LEMMA Inductive == Spec => [](IInv /\ Stopped)
<1> QED
  BY InitInv, StepKeeps, StoppedKeeps, PTL DEF Spec

(* The channels, the items, the sockets, the queue and the counters keep   *)
(* their types, whatever the user, the peers and the kernel do.            *)
THEOREM TypeCorrect == Spec => []TypeOK
<1>1. IInv /\ Stopped => TypeOK
  BY DEF IInv
<1> QED
  BY <1>1, Inductive, PTL

(* However many channels and descriptors there are and however they are    *)
(* reused, every open socket is in the epoll set and has one item, which   *)
(* belongs to its channel or has a timer to end it (mTcpChannels and the   *)
(* close timers of SocketController).                                      *)
THEOREM OneOwnerEach == Spec => []SocketOwners
<1>1. IInv /\ Stopped => SocketOwners
  BY DEF IInv
<1> QED
  BY <1>1, Inductive, PTL

(* The close handler of a connection its user has closed is not called     *)
(* any more, unless a setCloseHandler() has forgotten the queued call      *)
(* (TcpChannel::close, onClose and the canceller of the close task).       *)
THEOREM NotToldAfterClose == Spec => []CloseNotToldAfterClose
<1>1. IInv /\ Stopped => CloseNotToldAfterClose
  BY DEF IInv
<1> QED
  BY <1>1, Inductive, PTL

(* A thread that has ended has left nothing behind: no socket, no item, no *)
(* registration, no close timer and no channel that is open                *)
(* (SocketController::onExit).                                             *)
NothingLeft ==
    pc = "end" => /\ Live \cup registered \cup Items \cup timers = {}
                  /\ \A c \in Channels : ~Open(c)

(* However the drain comes to its end, by its events or by its timeout.    *)
THEOREM EndsClean == Spec => []NothingLeft
<1>1. IInv /\ Stopped => NothingLeft
  <2> SUFFICES ASSUME IInv, Stopped, pc = "end"
               PROVE  /\ Live \cup registered \cup Items \cup timers = {}
                      /\ \A c \in Channels : ~Open(c)
    BY DEF NothingLeft
  <2>1. Items = {}
    BY DEF Stopped
  <2>2. \A fd \in Fds : item[fd] = None
    BY <2>1 DEF Items
  <2>3. Live = {} /\ registered = {}
    BY <2>1 DEF IInv, SocketOwners
  <2>4. timers = {}
    BY <2>2 DEF IInv, SocketOwners, Closing
  <2>5. \A c \in Channels : ~Open(c)
    BY <2>2, OpenIs
  <2> QED
    BY <2>1, <2>3, <2>4, <2>5
<1> QED
  BY <1>1, Inductive, PTL

-----------------------------------------------------------------------------
(* What is sent with a handler, in the order of the calls, and what its    *)
(* handler is told.                                                        *)

(* How many units of a list are of the send s.                             *)
Units(w, s) == Cardinality({i \in DOMAIN w : w[i] = s})

(* A number of units, which is none if and only if s is not in the list.   *)
LEMMA UnitsNat ==
    ASSUME NEW w \in Seq(Sends), NEW s
    PROVE  /\ IsFiniteSet({i \in DOMAIN w : w[i] = s})
           /\ Units(w, s) \in Nat
           /\ Units(w, s) > 0 <=> s \in ToSet(w)
<1> DEFINE I == {i \in DOMAIN w : w[i] = s}
<1>1. DOMAIN w = 1..Len(w) /\ Len(w) \in Nat
  BY LenProperties
<1>2. IsFiniteSet(1..Len(w))
  BY <1>1, FS_Interval
<1>3. IsFiniteSet(I)
  BY <1>1, <1>2, FS_Subset
<1>4. Cardinality(I) \in Nat /\ (Cardinality(I) = 0 <=> I = {})
  BY <1>3, FS_CardinalityType, FS_EmptySet
<1>5. I # {} <=> s \in ToSet(w)
  BY <1>1, ToSetIs
<1> QED
  BY <1>3, <1>4, <1>5 DEF Units

(* The units of two lists add up.                                          *)
LEMMA UnitsConcat ==
    ASSUME NEW v \in Seq(Sends), NEW w \in Seq(Sends), NEW s
    PROVE  Units(v \o w, s) = Units(v, s) + Units(w, s)
<1> DEFINE r == v \o w
           m == Len(v)
           V == {i \in DOMAIN v : v[i] = s}
           W == {i \in DOMAIN w : w[i] = s}
           R == {i \in DOMAIN r : r[i] = s}
           T == {i \in R : i > m}
           f == [i \in W |-> i + m]
<1>1. /\ m \in Nat /\ Len(w) \in Nat
      /\ DOMAIN v = 1..m /\ DOMAIN w = 1..Len(w) /\ DOMAIN r = 1..(m + Len(w))
      /\ \A i \in 1..(m + Len(w)) : r[i] = IF i <= m THEN v[i] ELSE w[i - m]
  <2>1. r \in Seq(Sends) /\ Len(r) = m + Len(w)
        /\ \A i \in 1..(m + Len(w)) : r[i] = IF i <= m THEN v[i] ELSE w[i - m]
    BY ConcatProperties
  <2> HIDE DEF r
  <2> QED
    BY <2>1, LenProperties
<1> HIDE DEF r, m
<1>2. IsFiniteSet(V) /\ IsFiniteSet(W)
  BY UnitsNat
<1>3. \A i \in W : i + m \in T
  <2> SUFFICES ASSUME NEW i \in W PROVE i + m \in T
    OBVIOUS
  <2>1. i \in 1..Len(w) /\ w[i] = s
    BY <1>1
  <2>2. i + m \in 1..(m + Len(w)) /\ i + m > m /\ (i + m) - m = i
    BY <1>1, <2>1
  <2> QED
    BY <1>1, <2>1, <2>2
<1>4. \A j \in T : j - m \in W /\ (j - m) + m = j
  <2> SUFFICES ASSUME NEW j \in T PROVE j - m \in W /\ (j - m) + m = j
    OBVIOUS
  <2>1. j \in 1..(m + Len(w)) /\ j > m /\ r[j] = s
    BY <1>1
  <2>2. j - m \in 1..Len(w) /\ w[j - m] = s
    BY <1>1, <2>1
  <2> QED
    BY <1>1, <2>1, <2>2
<1>5. f \in Bijection(W, T)
  <2>1. f \in [W -> T]
    BY <1>3
  <2>2. \A i, j \in W : f[i] = f[j] => i = j
    BY <1>1
  <2>3. \A j \in T : \E i \in W : f[i] = j
    BY <1>4
  <2> HIDE DEF f, W, T
  <2> QED
    BY <2>1, <2>2, <2>3 DEF Bijection, Injection, Surjection, IsInjective
<1>6. IsFiniteSet(T) /\ Cardinality(T) = Cardinality(W)
  BY <1>2, <1>5, FS_Bijection DEF ExistsBijection
<1>7. R = V \cup T /\ V \cap T = {}
  <2>1. \A i : i \in V <=> i \in R /\ i <= m
    BY <1>1
  <2>2. \A i \in R : i \in Nat
    BY <1>1
  <2> QED
    BY <1>1, <2>1, <2>2
<1>8. Cardinality(R) = Cardinality(V) + Cardinality(T) - Cardinality({})
  BY <1>2, <1>6, <1>7, FS_Union, ZenonT(30)
<1>9. Cardinality({}) = 0 /\ Cardinality(V) \in Nat /\ Cardinality(T) \in Nat
  BY <1>2, <1>6, FS_EmptySet, FS_CardinalityType
<1> QED
  <2>1. Cardinality(R) = Cardinality(V) + Cardinality(W)
    <3> HIDE DEF R, V, W, T
    <3> QED
      BY <1>6, <1>8, <1>9
  <2> QED
    BY <2>1 DEF Units, r

(* The units of one message                                                *)
LEMMA UnitsMessage ==
    ASSUME NEW t \in Sends, NEW s
    PROVE  /\ [i \in 1..Size |-> t] \in Seq(Sends)
           /\ Units([i \in 1..Size |-> t], s) = IF s = t THEN Size ELSE 0
<1> DEFINE m == [i \in 1..Size |-> t]
<1>1. Size \in Nat \ {0}
  BY BoundsAssumption
<1>2. m \in Seq(Sends) /\ DOMAIN m = 1..Size /\ \A i \in 1..Size : m[i] = t
  BY <1>1
<1> HIDE DEF m
<1>3. CASE s = t
  <2>1. {i \in DOMAIN m : m[i] = s} = 1..Size
    BY <1>2, <1>3
  <2> QED
    <3>1. Cardinality(1..Size) = Size
      BY <1>1, FS_Interval
    <3> QED
      BY <1>2, <1>3, <2>1, <3>1 DEF Units, m
<1>4. CASE s # t
  <2>1. {i \in DOMAIN m : m[i] = s} = {}
    BY <1>2, <1>4
  <2> QED
    BY <1>2, <1>4, <2>1, FS_EmptySet DEF Units, m
<1> QED
  BY <1>3, <1>4

(* Lists of numbers that do not fall, and that rise                        *)
Sorted(b)  == \A i, j \in 1..Len(b) : i < j => b[i] <= b[j]
Rising(hs) == \A i, j \in 1..Len(hs) : i < j => hs[i] < hs[j]

Upper(rest, b) == /\ ToSet(rest) \subseteq ToSet(b)
                  /\ \A d \in ToSet(b) \ ToSet(rest), t \in ToSet(rest) : d < t

(* When the handlers rise, those of the messages that the buffer b no      *)
(* longer has in rest come before those it has; if the buffer's are all    *)
(* there are, then they are the first ones.                                *)
LEMMA FirstHandlers ==
    ASSUME NEW hs \in Seq(Sends), Rising(hs),
           NEW b \in Seq(Sends), NEW rest \in Seq(Sends), Upper(rest, b),
           ToSet(b) \subseteq ToSet(hs),
           NEW k, k = Messages(b) - Messages(rest)
    PROVE  /\ k \in Nat
           /\ \A i \in 1..Len(hs) : hs[i] \in ToSet(rest) => i > k
           /\ ToSet(hs) \subseteq ToSet(b) =>
                 \A i \in 1..Len(hs) : hs[i] \in ToSet(b) \ ToSet(rest) <=> i <= k
<1> DEFINE R == ToSet(rest)
           B == ToSet(b)
           D == B \ R
           P == {i \in 1..Len(hs) : hs[i] \in D}
<1>0. /\ Len(hs) \in Nat
      /\ \A i \in 1..Len(hs) : hs[i] \in Sends /\ hs[i] \in Nat
      /\ B \subseteq Sends /\ \A x \in Sends : x \in Nat
  <2>1. \A x \in Sends : x \in Nat
    BY DEF Sends
  <2> QED
    BY <2>1, LenProperties, ElementOfSeq, ToSetIs
<1>1. IsFiniteSet(B) /\ IsFiniteSet(R) /\ IsFiniteSet(D) /\ Cardinality(D) = k /\ k \in Nat
  <2>1. IsFiniteSet(Sends)
    <3>1. MaxSends \in Nat
      BY BoundsAssumption
    <3> QED
      BY <3>1, FS_Interval DEF Sends
  <2>2. IsFiniteSet(B) /\ IsFiniteSet(R)
    BY <1>0, <2>1, FS_Subset DEF Upper
  <2>3. IsFiniteSet(D) /\ Cardinality(D) = Cardinality(B) - Cardinality(B \cap R)
    BY <2>2, FS_Difference
  <2>4. B \cap R = R
    BY DEF Upper
  <2>5. Cardinality(D) = k
    BY <2>3, <2>4 DEF Messages
  <2> QED
    BY <2>2, <2>3, <2>5, FS_CardinalityType
<1>2. \A x \in B : \E i \in 1..Len(hs) : hs[i] = x
  BY ToSetIs
<1> DEFINE f == [i \in P |-> hs[i]]
<1>3. f \in Bijection(P, D)
  <2>1. f \in [P -> D]
    OBVIOUS
  <2>2. \A i, j \in P : f[i] = f[j] => i = j
    <3> SUFFICES ASSUME NEW i \in P, NEW j \in P, hs[i] = hs[j] PROVE i = j
      OBVIOUS
    <3>1. ~(i < j) /\ ~(j < i)
      BY <1>0 DEF Rising
    <3> QED
      BY <1>0, <3>1
  <2>3. \A d \in D : \E i \in P : f[i] = d
    BY <1>2
  <2> HIDE DEF f, P, D
  <2> QED
    BY <2>1, <2>2, <2>3 DEF Bijection, Injection, Surjection, IsInjective
<1>4. IsFiniteSet(P) /\ Cardinality(P) = k
  <2>1. IsFiniteSet(P)
    <3>1. IsFiniteSet(1..Len(hs))
      BY <1>0, FS_Interval
    <3>2. P \in SUBSET (1..Len(hs))
      OBVIOUS
    <3> HIDE DEF P
    <3> QED
      BY <3>1, <3>2, FS_Subset
  <2>2. Cardinality(D) = Cardinality(P)
    BY <1>3, <2>1, FS_Bijection DEF ExistsBijection
  <2> QED
    BY <1>1, <2>1, <2>2
<1> HIDE DEF f
<1>5. ASSUME NEW i \in 1..Len(hs), hs[i] \in R PROVE i > k
  <2>1. P \subseteq 1..(i - 1)
    <3> SUFFICES ASSUME NEW j \in P PROVE j \in 1..(i - 1)
      OBVIOUS
    <3>1. j \in 1..Len(hs) /\ hs[j] < hs[i]
      BY <1>5 DEF Upper
    <3>2. ~(i < j) /\ i # j
      BY <1>0, <3>1 DEF Rising
    <3> QED
      BY <1>0, <3>1, <3>2
  <2>2. IsFiniteSet(1..(i - 1)) /\ Cardinality(1..(i - 1)) = i - 1
    <3>1. i - 1 \in Int /\ 1 \in Int /\ i \in Nat /\ i >= 1
      BY <1>0
    <3>2. IsFiniteSet(1..(i - 1)) /\ Cardinality(1..(i - 1)) = IF 1 > i - 1 THEN 0 ELSE (i - 1) - 1 + 1
      BY <3>1, FS_Interval
    <3> QED
      BY <3>1, <3>2
  <2>3. Cardinality(P) <= i - 1
    BY <2>1, <2>2, FS_Subset
  <2> QED
    BY <1>0, <1>1, <1>4, <2>3
<1>6. ASSUME ToSet(hs) \subseteq B, NEW i \in 1..Len(hs)
      PROVE  hs[i] \in D <=> i <= k
  <2>1. \A j \in 1..Len(hs) : hs[j] \in B
    BY <1>6, ToSetIs
  <2>2. ASSUME i <= k PROVE hs[i] \in D
    BY <1>0, <1>1, <1>5, <2>1, <2>2
  <2>3. ASSUME i > k, hs[i] \in D PROVE FALSE
    <3>1. 1..k \subseteq P /\ i \in P
      <4> SUFFICES ASSUME NEW j \in 1..k PROVE j \in P
        BY <2>3
      <4>1. j \in 1..Len(hs)
        BY <1>0, <1>1, <2>3
      <4>2. ~(hs[j] \in R)
        BY <1>1, <1>5, <4>1
      <4> QED
        BY <2>1, <4>1, <4>2
    <3>2. IsFiniteSet(1..k) /\ Cardinality(1..k) = k /\ i \notin 1..k
      <4>1. k \in Int /\ 1 \in Int
        BY <1>1
      <4>2. IsFiniteSet(1..k) /\ Cardinality(1..k) = IF 1 > k THEN 0 ELSE k - 1 + 1
        BY <4>1, FS_Interval
      <4> QED
        BY <1>1, <2>3, <4>2
    <3>3. Cardinality((1..k) \cup {i}) = k + 1
      BY <3>2, FS_AddElement
    <3>4. Cardinality((1..k) \cup {i}) <= Cardinality(P)
      BY <1>4, <3>1, FS_Subset
    <3> QED
      BY <1>1, <1>4, <3>3, <3>4
  <2> QED
    BY <1>0, <1>1, <2>2, <2>3
<1> QED
  BY <1>1, <1>5, <1>6

(* The handler of s is to be called with o by a task of the queue q.       *)
Asked(q, s, o) == \E i \in 1..Len(q) : /\ q[i].is = "sent"
                                       /\ q[i].send = s
                                       /\ q[i].outcome = o

AskedOnce(q) == \A i, j \in 1..Len(q) :
                   q[i].is = "sent" /\ q[j].is = "sent" /\ q[i].send = q[j].send => i = j

StopIn(q) == \E i \in 1..Len(q) : q[i].is = "stop"

Outcomes == {"ok", "error"}

(* One queue after another                                                 *)
LEMMA AskedConcat ==
    ASSUME NEW q \in Seq(Tasks), NEW ts \in Seq(Tasks)
    PROVE  /\ \A s, o : Asked(q \o ts, s, o) <=> Asked(q, s, o) \/ Asked(ts, s, o)
           /\ StopIn(q \o ts) <=> StopIn(q) \/ StopIn(ts)
           /\ (/\ AskedOnce(q) /\ AskedOnce(ts)
               /\ \A s \in Sends, o, x \in Outcomes : ~(Asked(q, s, o) /\ Asked(ts, s, x)))
                 => AskedOnce(q \o ts)
<1> DEFINE r == q \o ts
           m == Len(q)
<1>1. /\ r \in Seq(Tasks)
      /\ \A i \in 1..Len(r) : \/ i \in 1..m /\ r[i] = q[i]
                              \/ i - m \in 1..Len(ts) /\ r[i] = ts[i - m]
      /\ \A i \in 1..m : i \in 1..Len(r) /\ r[i] = q[i]
      /\ \A i \in 1..Len(ts) : i + m \in 1..Len(r) /\ r[i + m] = ts[i]
  BY ConcatPlaces
<1>2. m \in Nat /\ Len(ts) \in Nat
  BY LenProperties
<1> HIDE DEF r, m
<1>3. \A s, o : Asked(r, s, o) <=> Asked(q, s, o) \/ Asked(ts, s, o)
  <2>1. ASSUME NEW s, NEW o, Asked(r, s, o) PROVE Asked(q, s, o) \/ Asked(ts, s, o)
    BY <1>1, <2>1 DEF Asked, m
  <2>2. ASSUME NEW s, NEW o, Asked(q, s, o) PROVE Asked(r, s, o)
    BY <1>1, <2>2 DEF Asked, m
  <2>3. ASSUME NEW s, NEW o, Asked(ts, s, o) PROVE Asked(r, s, o)
    BY <1>1, <2>3 DEF Asked
  <2> QED
    BY <2>1, <2>2, <2>3
<1>4. StopIn(r) <=> StopIn(q) \/ StopIn(ts)
  <2>1. ASSUME StopIn(r) PROVE StopIn(q) \/ StopIn(ts)
    BY <1>1, <2>1 DEF StopIn, m
  <2>2. ASSUME StopIn(q) PROVE StopIn(r)
    BY <1>1, <2>2 DEF StopIn, m
  <2>3. ASSUME StopIn(ts) PROVE StopIn(r)
    BY <1>1, <2>3 DEF StopIn
  <2> QED
    BY <2>1, <2>2, <2>3
<1>5. ASSUME AskedOnce(q), AskedOnce(ts),
             \A s \in Sends, o, x \in Outcomes : ~(Asked(q, s, o) /\ Asked(ts, s, x))
      PROVE  AskedOnce(r)
  <2> SUFFICES ASSUME NEW i \in 1..Len(r), NEW j \in 1..Len(r),
                      r[i].is = "sent", r[j].is = "sent", r[i].send = r[j].send
               PROVE  i = j
    BY DEF AskedOnce
  <2>1. CASE i \in 1..m /\ r[i] = q[i] /\ j \in 1..m /\ r[j] = q[j]
    BY <1>5, <2>1 DEF AskedOnce, m
  <2>2. CASE /\ i - m \in 1..Len(ts) /\ r[i] = ts[i - m]
             /\ j - m \in 1..Len(ts) /\ r[j] = ts[j - m]
    <3>1. i - m = j - m
      BY <1>5, <2>2 DEF AskedOnce
    <3> QED
      BY <1>2, <3>1
  <2>3. CASE \/ /\ i \in 1..m /\ r[i] = q[i]
                /\ j - m \in 1..Len(ts) /\ r[j] = ts[j - m]
             \/ /\ j \in 1..m /\ r[j] = q[j]
                /\ i - m \in 1..Len(ts) /\ r[i] = ts[i - m]
    <3>1. /\ r[i] \in Tasks /\ r[j] \in Tasks
      BY <1>1, ElementOfSeq
    <3>2. /\ r[i].send \in Sends /\ r[i].outcome \in Outcomes /\ r[j].outcome \in Outcomes
      BY <3>1, TaskKinds DEF Outcomes
    <3>3. \/ Asked(q, r[i].send, r[i].outcome) /\ Asked(ts, r[i].send, r[j].outcome)
          \/ Asked(q, r[i].send, r[j].outcome) /\ Asked(ts, r[i].send, r[i].outcome)
      BY <2>3 DEF Asked, m
    <3> QED
      BY <1>5, <3>2, <3>3
  <2> QED
    BY <1>1, <2>1, <2>2, <2>3
<1> QED
  BY <1>3, <1>4, <1>5 DEF r

(* A queue without its first task                                          *)
LEMMA AskedTail ==
    ASSUME NEW q \in Seq(Tasks), q # <<>>, AskedOnce(q)
    PROVE  /\ AskedOnce(Tail(q)) /\ (StopIn(Tail(q)) => StopIn(q))
           /\ Head(q).is = "stop" => StopIn(q)
           /\ Head(q).is # "sent" => \A s, o : Asked(Tail(q), s, o) <=> Asked(q, s, o)
           /\ Head(q).is = "sent" =>
                 /\ Head(q).send \in Sends /\ Head(q).outcome \in Outcomes
                 /\ Asked(q, Head(q).send, Head(q).outcome)
                 /\ \A o : ~Asked(Tail(q), Head(q).send, o)
                 /\ \A s, o : s # Head(q).send => (Asked(Tail(q), s, o) <=> Asked(q, s, o))
<1> DEFINE t == Tail(q)
<1>1. /\ Len(q) \in Nat \ {0} /\ Head(q) = q[1] /\ Head(q) \in Tasks
      /\ Len(t) = Len(q) - 1
      /\ \A i \in 1..Len(t) : t[i] = q[i + 1]
  BY EmptySeq, HeadTailProperties
<1> HIDE DEF t
<1>2. \A i \in 1..Len(t) : i + 1 \in 1..Len(q) /\ t[i] = q[i + 1] /\ i + 1 # 1
  BY <1>1
<1>3. \A i \in 1..Len(q) : i = 1 \/ (i - 1 \in 1..Len(t) /\ t[i - 1] = q[i])
  BY <1>1
<1>4. 1 \in 1..Len(q)
  BY <1>1
<1>5. AskedOnce(t)
  <2> SUFFICES ASSUME NEW i \in 1..Len(t), NEW j \in 1..Len(t),
                      t[i].is = "sent", t[j].is = "sent", t[i].send = t[j].send
               PROVE  i = j
    BY DEF AskedOnce
  <2>1. i + 1 = j + 1
    BY <1>2 DEF AskedOnce
  <2> QED
    BY <1>1, <2>1
<1>6. (StopIn(t) => StopIn(q)) /\ (Head(q).is = "stop" => StopIn(q))
  BY <1>1, <1>2, <1>4 DEF StopIn
<1>7. ASSUME NEW s, NEW o, Asked(t, s, o) PROVE Asked(q, s, o)
  BY <1>2, <1>7 DEF Asked
<1>8. ASSUME NEW s, NEW o, Asked(q, s, o), q[1].is # "sent" \/ s # q[1].send
      PROVE  Asked(t, s, o)
  BY <1>3, <1>8 DEF Asked
<1>9. ASSUME q[1].is = "sent", NEW o PROVE ~Asked(t, q[1].send, o)
  <2> SUFFICES ASSUME Asked(t, q[1].send, o) PROVE FALSE
    OBVIOUS
  <2>1. PICK i \in 1..Len(t) : t[i].is = "sent" /\ t[i].send = q[1].send
    BY DEF Asked
  <2>2. i + 1 = 1
    BY <1>2, <1>4, <1>9, <2>1 DEF AskedOnce
  <2> QED
    BY <1>2, <2>2
<1>10. ASSUME q[1].is = "sent"
       PROVE  /\ q[1].send \in Sends /\ q[1].outcome \in Outcomes
              /\ Asked(q, q[1].send, q[1].outcome)
  <2>1. q[1].send \in Sends /\ q[1].outcome \in Outcomes
    BY <1>1, <1>10, TaskKinds DEF Outcomes
  <2> QED
    BY <1>4, <1>10, <2>1 DEF Asked
<1> QED
  BY <1>1, <1>5, <1>6, <1>7, <1>8, <1>9, <1>10 DEF t

(* The tasks that answer the first k handlers ask each once.               *)
LEMMA AnswersAsk ==
    ASSUME NEW c \in Channels, NEW hs \in Seq(Sends), Rising(hs), NEW k \in Nat,
           NEW o \in Outcomes
    PROVE  LET ts == Answers(c, hs, k, o) IN
           /\ ts \in Seq(Tasks) /\ AskedOnce(ts) /\ ~StopIn(ts)
           /\ \A s, x : Asked(ts, s, x) <=>
                           x = o /\ \E i \in 1..Len(hs) : i <= k /\ hs[i] = s
<1> DEFINE ts == Answers(c, hs, k, o)
           m == Min({k, Len(hs)})
<1>1. Len(hs) \in Nat /\ \A i \in 1..Len(hs) : hs[i] \in Sends /\ hs[i] \in Nat
  <2>1. \A x \in Sends : x \in Nat
    BY DEF Sends
  <2> QED
    BY <2>1, LenProperties, ElementOfSeq
<1>2. m \in {k, Len(hs)} /\ m <= Len(hs) /\ m <= k
  <2>1. {k, Len(hs)} \in SUBSET Nat
    BY <1>1
  <2> QED
    BY <2>1, MinNat
<1>3. ts = [i \in 1..m |-> Sent(c, hs[i], o)]
  BY DEF Answers
<1> HIDE DEF m
<1>4. m \in Nat /\ \A i : i \in 1..m <=> i \in 1..Len(hs) /\ i <= k
  BY <1>1, <1>2
<1>5. ts \in Seq(Tasks)
  BY AnswersAre DEF Tasks, Outcomes
<1>6. Len(ts) = m
  BY <1>3, <1>4
<1>7. \A i \in 1..m : ts[i].is = "sent" /\ ts[i].send = hs[i] /\ ts[i].outcome = o
  BY <1>3 DEF Sent
<1> HIDE DEF ts
<1>8. AskedOnce(ts)
  <2> SUFFICES ASSUME NEW i \in 1..m, NEW j \in 1..m, hs[i] = hs[j] PROVE i = j
    BY <1>6, <1>7 DEF AskedOnce
  <2>1. ~(i < j) /\ ~(j < i)
    BY <1>1, <1>4 DEF Rising
  <2> QED
    BY <1>4, <2>1
<1>9. ~StopIn(ts)
  BY <1>6, <1>7 DEF StopIn
<1>10. \A s, x : Asked(ts, s, x) <=> x = o /\ \E i \in 1..Len(hs) : i <= k /\ hs[i] = s
  BY <1>4, <1>6, <1>7 DEF Asked
<1> QED
  BY <1>5, <1>8, <1>9, <1>10 DEF ts

(* They are posted.                                                        *)
LEMMA AnswersPosted ==
    ASSUME NEW c \in Channels, NEW hs \in Seq(Sends), Rising(hs), NEW k \in Nat,
           NEW o \in Outcomes, NEW q \in Seq(Tasks), AskedOnce(q),
           \A i \in 1..Len(hs), x \in Outcomes : ~Asked(q, hs[i], x)
    PROVE  LET p == Posted(q, Answers(c, hs, k, o)) IN
           /\ p \in Seq(Tasks) /\ AskedOnce(p) /\ (StopIn(p) => StopIn(q))
           /\ \A s, x : Asked(p, s, x) <=>
                 \/ Asked(q, s, x)
                 \/ ~stopPosted /\ x = o /\ \E i \in 1..Len(hs) : i <= k /\ hs[i] = s
<1> DEFINE ts == Answers(c, hs, k, o)
<1>1. /\ ts \in Seq(Tasks) /\ AskedOnce(ts) /\ ~StopIn(ts)
      /\ \A s, x : Asked(ts, s, x) <=>
                      x = o /\ \E i \in 1..Len(hs) : i <= k /\ hs[i] = s
  BY AnswersAsk
<1> HIDE DEF ts
<1>2. \A s \in Sends, x, y \in Outcomes : ~(Asked(q, s, x) /\ Asked(ts, s, y))
  BY <1>1
<1>3. /\ \A s, x : Asked(q \o ts, s, x) <=> Asked(q, s, x) \/ Asked(ts, s, x)
      /\ StopIn(q \o ts) => StopIn(q)
      /\ AskedOnce(q \o ts) /\ q \o ts \in Seq(Tasks)
  BY <1>1, <1>2, AskedConcat, ConcatProperties
<1> QED
  BY <1>1, <1>3 DEF Posted, ts

(* Tasks of other kinds are posted.                                        *)
LEMMA OthersPosted ==
    ASSUME NEW q \in Seq(Tasks), NEW ts \in Seq(Tasks), AskedOnce(q),
           \A i \in 1..Len(ts) : ts[i].is \notin {"sent", "stop"}
    PROVE  LET p == Posted(q, ts) IN
           /\ AskedOnce(p) /\ (StopIn(p) => StopIn(q))
           /\ \A s, x : Asked(p, s, x) <=> Asked(q, s, x)
<1>1. AskedOnce(ts) /\ ~StopIn(ts) /\ \A s, x : ~Asked(ts, s, x)
  BY DEF AskedOnce, StopIn, Asked
<1>2. /\ \A s, x : Asked(q \o ts, s, x) <=> Asked(q, s, x)
      /\ StopIn(q \o ts) => StopIn(q)
      /\ AskedOnce(q \o ts)
  BY <1>1, AskedConcat
<1> QED
  BY <1>2 DEF Posted

-----------------------------------------------------------------------------
(* What is sent: the second part of the inductive invariant.               *)

Settled(s) == UnitsOut(s) = Size \/ GivenUp(s)

(* The handler of s has not been called and no task will call it.          *)
Waits(s) == answered[s] = None /\ \A o \in Outcomes : ~Asked(queue, s, o)

(* What waits to be sent on an open channel                                *)
Buf(c) == item[chan[c].fd].buffer

(* Sends are made on connections there have been, a message goes out once, *)
(* and each connection has its own in order.                               *)
Wiring ==
    /\ \A s \in DOMAIN sends : sends[s] <= conns
    /\ ToSet(wire) \cup dropped \subseteq DOMAIN sends
    /\ \A s \in Sends : UnitsOut(s) <= Size
    /\ \A i, j \in DOMAIN wire :
          i < j /\ SameConn(wire[i], wire[j]) => wire[i] <= wire[j]

(* Handlers hs for sends on the connection n, of the sends sd              *)
HandlersFor(hs, n, sd) ==
    /\ Rising(hs)
    /\ \A s \in ToSet(hs) : s \in DOMAIN sd /\ sd[s] = n /\ Waits(s)

Handling ==
    \A c \in Channels :
       /\ HandlersFor(chan[c].handlers, chan[c].conn, sends)
       /\ chan[c].handlers # <<>> => Open(c) \/ pc \in {"drain", "end"}

(* Every handler is called once, and every outcome is the true one as long *)
(* as nothing is thrown away.                                              *)
Answering ==
    /\ AskedOnce(queue)
    /\ StopIn(queue) => stopPosted
    /\ \A s \in Sends, o \in Outcomes : Asked(queue, s, o) => answered[s] = None
    /\ \A s \in Sends : ~Waits(s) => s \in DOMAIN sends

Truth ==
    dropped = {} =>
        \A s \in Sends, o \in Outcomes :
            Asked(queue, s, o) \/ answered[s] = o => (o = "ok" <=> UnitsOut(s) = Size)

(* What waits in the buffer b, with the handlers hs, for the connection n, *)
(* of the sends sd: the last messages of the connection in their order, of *)
(* which what is not out is there, with their handlers and those of what   *)
(* was thrown away before.                                                 *)
Queued(b, hs, n, sd) ==
    /\ Sorted(b)
    /\ ToSet(b) \subseteq ToSet(hs)
    /\ (\A r \in dropped : sends[r] # n) => ToSet(hs) \subseteq ToSet(b)
    /\ \A t \in ToSet(b) :
          /\ UnitsOut(t) + Units(b, t) = Size
          /\ \A u \in ToSet(wire) : sends[u] = n => u <= t
          /\ \A r \in dropped : sends[r] = n => r < t
    /\ ~stopPosted =>
          \A s \in DOMAIN sd :
             sd[s] = n => s \in ToSet(b) \/ (s \in DOMAIN sends /\ Settled(s))

Buffers ==
    \A c \in Channels : Open(c) => Queued(Buf(c), chan[c].handlers, chan[c].conn, sends)

(* What is behind on the wire settles what was before.                     *)
Begun ==
    ~stopPosted =>
        \A s, t \in DOMAIN sends :
            s < t /\ SameConn(s, t) /\ UnitsOut(t) > 0 => Settled(s)

SInv == Wiring /\ Handling /\ Answering /\ Truth /\ Buffers /\ Begun

(* What the sends are                                                      *)
LEMMA SendsAre ==
    ASSUME TypeOK
    PROVE  /\ DOMAIN sends = 1..Len(sends) /\ Len(sends) \in Nat
           /\ \A s \in DOMAIN sends : s \in Sends /\ s \in Nat /\ sends[s] \in Conns
           /\ DOMAIN wire = 1..Len(wire) /\ Len(wire) \in Nat /\ wire \in Seq(Sends)
           /\ \A i \in DOMAIN wire : wire[i] \in Sends
           /\ \A s : UnitsOut(s) = Units(wire, s) /\ UnitsOut(s) \in Nat
           /\ \A s : UnitsOut(s) > 0 <=> s \in ToSet(wire)
           /\ \A s \in Sends : s \in Nat
           /\ queue \in Seq(Tasks)
<1>1. sends \in Seq(Conns) /\ wire \in Seq(Sends) /\ MaxSends \in Nat /\ syncs \in 0..MaxSends
      /\ Len(sends) + syncs <= MaxSends
  BY BoundsAssumption DEF TypeOK
<1>2. DOMAIN sends = 1..Len(sends) /\ Len(sends) \in Nat
      /\ DOMAIN wire = 1..Len(wire) /\ Len(wire) \in Nat
  BY <1>1, LenProperties
<1>3. \A s \in DOMAIN sends : s \in Sends /\ s \in Nat /\ sends[s] \in Conns
  <2>1. Len(sends) <= MaxSends
    BY <1>1, <1>2
  <2> QED
    BY <1>1, <1>2, <2>1, ElementOfSeq DEF Sends
<1>4. \A i \in DOMAIN wire : wire[i] \in Sends
  BY <1>1, <1>2, ElementOfSeq
<1>5. \A s : /\ UnitsOut(s) = Units(wire, s) /\ UnitsOut(s) \in Nat
             /\ UnitsOut(s) > 0 <=> s \in ToSet(wire)
  BY <1>1, UnitsNat DEF UnitsOut, Units
<1>6. \A s \in Sends : s \in Nat
  BY DEF Sends
<1> QED
  BY <1>1, <1>2, <1>3, <1>4, <1>5, <1>6 DEF TypeOK, Tasks

(* An answer with an error that came or is to come                         *)
LEMMA RefusedIs ==
    ASSUME NEW s
    PROVE  Refused(s) <=> answered[s] = "error" \/ Asked(queue, s, "error")
  BY DEF Refused, Asked

(* What is settled stays so when nothing is taken back.                    *)
Grows ==
    /\ DOMAIN sends \subseteq DOMAIN sends'
    /\ \A s \in DOMAIN sends : sends'[s] = sends[s]
    /\ dropped \subseteq dropped'
    /\ \A s \in DOMAIN sends : Refused(s) => Refused(s)'
    /\ \A s \in DOMAIN sends : UnitsOut(s) = Size => UnitsOut(s)' = Size

(* So it is.                                                               *)
LEMMA SettledStays ==
    ASSUME TypeOK, Wiring, Grows, NEW s \in DOMAIN sends, Settled(s)
    PROVE  Settled(s)'
<1>1. /\ DOMAIN sends = 1..Len(sends) /\ Len(sends) \in Nat
      /\ \A r \in 1..s : r \in DOMAIN sends
      /\ \A r \in dropped : r \in DOMAIN sends
  BY SendsAre DEF Wiring
<1>2. CASE UnitsOut(s) = Size
  BY <1>2 DEF Grows, Settled
<1>3. CASE s \in dropped \/ Refused(s)
  BY <1>3 DEF Grows, Settled, GivenUp
<1>4. CASE /\ \E r \in dropped : r < s /\ SameConn(r, s)
           /\ \E r \in 1..s : Refused(r) /\ SameConn(r, s)
  <2>1. PICK d \in dropped : d < s /\ sends[d] = sends[s]
    BY <1>4 DEF SameConn
  <2>2. PICK r \in 1..s : Refused(r) /\ sends[r] = sends[s]
    BY <1>4 DEF SameConn
  <2>3. d \in dropped' /\ d < s /\ sends'[d] = sends'[s]
    BY <1>1, <2>1 DEF Grows
  <2>4. r \in 1..s /\ Refused(r)' /\ sends'[r] = sends'[s]
    BY <1>1, <2>2 DEF Grows
  <2> QED
    BY <2>3, <2>4 DEF Settled, GivenUp, SameConn
<1> QED
  BY <1>2, <1>3, <1>4 DEF Settled, GivenUp

-----------------------------------------------------------------------------
(* A step that sends nothing and answers nothing                           *)
SameSending ==
    /\ sends' = sends /\ wire' = wire /\ answered' = answered /\ dropped' = dropped
    /\ conns' \in Nat /\ conns <= conns'
    /\ stopPosted => stopPosted'
    /\ AskedOnce(queue') /\ (StopIn(queue') => stopPosted')
    /\ \A s, o : Asked(queue', s, o) => Asked(queue, s, o)
    /\ ~stopPosted' => \A s, o : Asked(queue, s, o) => Asked(queue', s, o)
    /\ \A c \in Channels :
          \/ chan'[c].handlers = <<>>
          \/ /\ chan'[c].handlers = chan[c].handlers /\ chan'[c].conn = chan[c].conn
             /\ chan'[c].fd # None \/ pc' \in {"drain", "end"}
    /\ \A c \in Channels :
          chan'[c].fd # None =>
             \/ /\ Open(c) /\ Buf(c)' = Buf(c)
                /\ chan'[c].handlers = chan[c].handlers /\ chan'[c].conn = chan[c].conn
             \/ /\ Buf(c)' = <<>> /\ chan'[c].handlers = <<>>
                /\ \A s \in DOMAIN sends : sends[s] # chan'[c].conn

(* It keeps what is sent as it is.                                         *)
LEMMA SameSendingKeeps ==
    ASSUME IInv, SInv, SameSending
    PROVE  SInv'
<1>0. TypeOK
  BY DEF IInv
<1>1. /\ \A s : UnitsOut(s)' = UnitsOut(s)
      /\ \A s, t : SameConn(s, t)' <=> SameConn(s, t)
      /\ sends' = sends /\ wire' = wire /\ answered' = answered /\ dropped' = dropped
  BY DEF UnitsOut, SameConn, SameSending
<1>2. ~stopPosted' => ~stopPosted /\ \A s \in DOMAIN sends : Settled(s) => Settled(s)'
  <2> SUFFICES ASSUME ~stopPosted', NEW s \in DOMAIN sends, Settled(s) PROVE ~stopPosted /\ Settled(s)'
    BY DEF SameSending
  <2>1. \A r : Refused(r) => Refused(r)'
    BY RefusedIs DEF Refused, Asked, SameSending
  <2>2. Grows
    BY <1>1, <2>1 DEF Grows
  <2> QED
    BY <1>0, <2>2, SettledStays DEF SInv, SameSending
<1>3. \A s : Waits(s) => Waits(s)'
  BY <1>1 DEF Waits, SameSending
<1>4. Wiring'
  <2>1. \A s \in DOMAIN sends : sends[s] \in Nat /\ conns \in Nat
    BY <1>0, SendsAre, BoundsAssumption, SMTT(30) DEF TypeOK, Conns
  <2> QED
    BY <1>1, <2>1 DEF Wiring, SInv, SameSending
<1>5. Handling'
  <2> SUFFICES ASSUME NEW c \in Channels
               PROVE  /\ HandlersFor(chan[c].handlers, chan[c].conn, sends)'
                      /\ chan'[c].handlers # <<>> => chan'[c].fd # None \/ pc' \in {"drain", "end"}
    BY DEF Handling, Open
  <2>1. CASE chan'[c].handlers = <<>>
    <3>1. Len(<<>>) = 0 /\ ToSet(<<>>) = {}
      BY DEF ToSet
    <3> QED
      BY <2>1, <3>1 DEF HandlersFor, Rising
  <2>2. CASE /\ chan'[c].handlers = chan[c].handlers /\ chan'[c].conn = chan[c].conn
             /\ chan'[c].fd # None \/ pc' \in {"drain", "end"}
    <3>1. HandlersFor(chan[c].handlers, chan[c].conn, sends)
      BY DEF SInv, Handling
    <3> QED
      BY <1>1, <1>3, <2>2, <3>1 DEF HandlersFor
  <2> QED
    BY <2>1, <2>2 DEF SameSending
<1>6. Answering'
  <2>1. \A s \in Sends : ~Waits(s)' => ~Waits(s)
    BY <1>3
  <2> QED
    BY <1>1, <2>1 DEF Answering, SInv, SameSending
<1>7. Truth'
  BY <1>1 DEF Truth, SInv, SameSending
<1>8. Buffers'
  <2> SUFFICES ASSUME NEW c \in Channels, chan'[c].fd # None
               PROVE  Queued(Buf(c), chan[c].handlers, chan[c].conn, sends)'
    BY DEF Buffers, Open
  <2>1. CASE /\ Open(c) /\ Buf(c)' = Buf(c)
             /\ chan'[c].handlers = chan[c].handlers /\ chan'[c].conn = chan[c].conn
    <3>1. Queued(Buf(c), chan[c].handlers, chan[c].conn, sends)
      BY <2>1 DEF SInv, Buffers
    <3> QED
      BY <1>1, <1>2, <2>1, <3>1 DEF Queued
  <2>2. CASE /\ Buf(c)' = <<>> /\ chan'[c].handlers = <<>>
             /\ \A s \in DOMAIN sends : sends[s] # chan'[c].conn
    <3>1. Len(<<>>) = 0 /\ ToSet(<<>>) = {}
      BY DEF ToSet
    <3> QED
      BY <1>1, <2>2, <3>1 DEF Queued, Sorted
  <2> QED
    BY <2>1, <2>2 DEF SameSending
<1>9. Begun'
  BY <1>1, <1>2 DEF Begun, SInv
<1> QED
  BY <1>4, <1>5, <1>6, <1>7, <1>8, <1>9 DEF SInv

(* The parts of a list                                                     *)
LEMMA PartsAre ==
    ASSUME NEW b \in Seq(Sends), NEW pre \in Seq(Sends), NEW rest \in Seq(Sends),
           b = pre \o rest, Sorted(b)
    PROVE  /\ ToSet(b) = ToSet(pre) \cup ToSet(rest)
           /\ \A s : Units(b, s) = Units(pre, s) + Units(rest, s)
           /\ Sorted(pre) /\ Sorted(rest)
           /\ \A s \in ToSet(pre), t \in ToSet(rest) : s <= t
           /\ Upper(rest, b)
<1>1. /\ \A i \in 1..Len(b) : \/ i \in 1..Len(pre) /\ b[i] = pre[i]
                              \/ i - Len(pre) \in 1..Len(rest) /\ b[i] = rest[i - Len(pre)]
      /\ \A i \in 1..Len(pre) : i \in 1..Len(b) /\ b[i] = pre[i]
      /\ \A i \in 1..Len(rest) : i + Len(pre) \in 1..Len(b) /\ b[i + Len(pre)] = rest[i]
      /\ Len(pre) \in Nat /\ Len(rest) \in Nat
  BY ConcatPlaces, LenProperties
<1>2. /\ \A x : x \in ToSet(b) <=> \E i \in 1..Len(b) : b[i] = x
      /\ \A x : x \in ToSet(pre) <=> \E i \in 1..Len(pre) : pre[i] = x
      /\ \A x : x \in ToSet(rest) <=> \E i \in 1..Len(rest) : rest[i] = x
      /\ ToSet(b) \subseteq Sends
  BY ToSetIs
<1>3. \A x \in ToSet(b) : x \in Nat
  BY <1>2 DEF Sends
<1>4. ToSet(b) = ToSet(pre) \cup ToSet(rest)
  <2>1. ASSUME NEW x \in ToSet(b) PROVE x \in ToSet(pre) \cup ToSet(rest)
    BY <1>1, <1>2
  <2>2. ASSUME NEW x \in ToSet(pre) PROVE x \in ToSet(b)
    BY <1>1, <1>2
  <2>3. ASSUME NEW x \in ToSet(rest) PROVE x \in ToSet(b)
    <3>1. PICK i \in 1..Len(rest) : rest[i] = x
      BY <1>2
    <3>2. i + Len(pre) \in 1..Len(b) /\ b[i + Len(pre)] = x
      BY <1>1, <3>1
    <3> QED
      BY <1>2, <3>2
  <2> QED
    BY <2>1, <2>2, <2>3
<1>5. Sorted(pre)
  BY <1>1 DEF Sorted
<1>6. Sorted(rest)
  <2> SUFFICES ASSUME NEW i \in 1..Len(rest), NEW j \in 1..Len(rest), i < j
               PROVE  rest[i] <= rest[j]
    BY DEF Sorted
  <2>1. /\ i + Len(pre) \in 1..Len(b) /\ j + Len(pre) \in 1..Len(b)
        /\ i + Len(pre) < j + Len(pre)
        /\ b[i + Len(pre)] = rest[i] /\ b[j + Len(pre)] = rest[j]
    BY <1>1
  <2>2. b[i + Len(pre)] <= b[j + Len(pre)]
    BY <2>1 DEF Sorted
  <2> QED
    BY <2>1, <2>2
<1>7. ASSUME NEW s \in ToSet(pre), NEW t \in ToSet(rest) PROVE s <= t
  <2>1. PICK i \in 1..Len(pre) : pre[i] = s
    BY <1>2
  <2>2. PICK j \in 1..Len(rest) : rest[j] = t
    BY <1>2
  <2>3. /\ i \in 1..Len(b) /\ b[i] = s
        /\ j + Len(pre) \in 1..Len(b) /\ b[j + Len(pre)] = t
        /\ i < j + Len(pre)
    BY <1>1, <2>1, <2>2
  <2>4. b[i] <= b[j + Len(pre)]
    BY <2>3 DEF Sorted
  <2> QED
    BY <2>3, <2>4
<1>8. Upper(rest, b)
  <2>1. ASSUME NEW d \in ToSet(b) \ ToSet(rest), NEW t \in ToSet(rest) PROVE d < t
    BY <1>3, <1>4, <1>7
  <2> QED
    BY <1>4, <2>1 DEF Upper
<1> QED
  BY <1>4, <1>5, <1>6, <1>7, <1>8, UnitsConcat

(* Others than the channel c keep what they have to send.                  *)
OthersKeep(c) ==
    \A d \in Channels \ {c} :
       /\ chan'[d].fd = chan[d].fd /\ chan'[d].conn = chan[d].conn
       /\ chan'[d].handlers = chan[d].handlers
       /\ chan'[d].fd # None => Buf(d)' = Buf(d)

(* The sends may grow by some of the connection n.                         *)
MoreSends(n) ==
    /\ DOMAIN sends \subseteq DOMAIN sends'
    /\ \A s \in DOMAIN sends : sends'[s] = sends[s]
    /\ \A s \in DOMAIN sends' \ DOMAIN sends : sends'[s] = n

(* The first k of the handlers hs are called with o.                       *)
Calls(hs, k, o) ==
    /\ AskedOnce(queue') /\ (StopIn(queue') => StopIn(queue))
    /\ \A s, x : Asked(queue', s, x) <=>
          \/ Asked(queue, s, x)
          \/ ~stopPosted /\ x = o /\ \E i \in 1..Len(hs) : i <= k /\ hs[i] = s

(* A step in which the channel c, with b to send and the handlers hs,      *)
(* sends the first part of b or gives it up.                               *)
LEMMA MoveKeeps ==
    ASSUME IInv, IInv', SInv, NEW c \in Channels, Open(c),
           NEW n, n = chan[c].conn, chan'[c].conn = n,
           NEW b \in Seq(Sends), NEW hs \in Seq(Sends), NEW pre \in Seq(Sends),
           NEW rest \in Seq(Sends), NEW after \in Seq(Sends),
           NEW k, NEW o \in Outcomes,
           HandlersFor(hs, n, sends'), Queued(b, hs, n, sends'), MoreSends(n),
           b = pre \o rest, wire' = wire \o pre,
           \/ o = "ok" /\ after = rest
           \/ o = "error" /\ pre = <<>> /\ after = <<>>,
           k = Messages(b) - Messages(after),
           Calls(hs, k, o), OthersKeep(c),
           UNCHANGED <<dropped, answered, stopPosted, conns, pc>>,
           \/ chan'[c].handlers = <<>> /\ chan'[c].fd = None
           \/ /\ chan'[c].handlers = SubSeq(hs, k + 1, Len(hs))
              /\ chan'[c].fd # None /\ Buf(c)' = after
    PROVE  SInv'
<1> DEFINE tail == SubSeq(hs, k + 1, Len(hs))
           gone == ToSet(b) \ ToSet(after)
<1>1. TypeOK /\ TypeOK' /\ Wiring
  BY DEF IInv, SInv
<1>2. /\ dropped' = dropped /\ answered' = answered /\ stopPosted' = stopPosted
      /\ conns' = conns /\ pc' = pc
  OBVIOUS
(* The parts of the buffer                                                 *)
<1>3. /\ ToSet(b) = ToSet(pre) \cup ToSet(rest)
      /\ \A s : Units(b, s) = Units(pre, s) + Units(rest, s)
      /\ Sorted(pre) /\ Sorted(rest)
      /\ \A s \in ToSet(pre), t \in ToSet(rest) : s <= t
      /\ Upper(rest, b)
  <2>1. /\ b \in Seq(Sends) /\ pre \in Seq(Sends) /\ rest \in Seq(Sends)
        /\ b = pre \o rest /\ Sorted(b)
    BY DEF Queued
  <2> QED
    BY ONLY <2>1, PartsAre
<1>4. /\ \A s : Units(b, s) \in Nat /\ (Units(b, s) > 0 <=> s \in ToSet(b))
      /\ \A s : Units(pre, s) \in Nat /\ (Units(pre, s) > 0 <=> s \in ToSet(pre))
      /\ \A s : Units(rest, s) \in Nat /\ (Units(rest, s) > 0 <=> s \in ToSet(rest))
  BY UnitsNat
<1>5. \A s : UnitsOut(s)' = UnitsOut(s) + Units(pre, s) /\ UnitsOut(s) \in Nat
  <2>1. wire \in Seq(Sends)
    BY <1>1, SendsAre
  <2>2. \A s : UnitsOut(s)' = Units(wire', s) /\ UnitsOut(s) = Units(wire, s) /\ UnitsOut(s) \in Nat
    BY <1>1, SendsAre DEF UnitsOut, Units
  <2> QED
    BY <2>1, <2>2, UnitsConcat
<1>6. ToSet(<<>>) = {} /\ Len(<<>>) = 0
  BY DEF ToSet
<1>7. \A x \in ToSet(b) : /\ x \in ToSet(hs)
                          /\ UnitsOut(x) + Units(b, x) = Size
                          /\ \A u \in ToSet(wire) : sends[u] = n => u <= x
                          /\ \A r \in dropped : sends[r] = n => r < x
  BY DEF Queued
<1>8. /\ \A x : x \in ToSet(hs) <=> \E i \in 1..Len(hs) : hs[i] = x
      /\ ToSet(hs) \subseteq Sends /\ Rising(hs) /\ Len(hs) \in Nat
      /\ \A i \in 1..Len(hs) : hs[i] \in Nat \ {0}
      /\ \A x \in ToSet(hs) : x \in DOMAIN sends' /\ sends'[x] = n /\ Waits(x)
  <2>1. \A x \in Sends : x \in Nat \ {0}
    BY DEF Sends
  <2> QED
    BY <2>1, ToSetIs, LenProperties, ElementOfSeq DEF HandlersFor
(* The handlers                                                            *)
<1>9. /\ k \in Nat
      /\ \A i \in 1..Len(hs) : hs[i] \in ToSet(after) => i > k
      /\ ToSet(hs) \subseteq ToSet(b) =>
            \A i \in 1..Len(hs) : hs[i] \in gone <=> i <= k
  <2>1. Upper(after, b)
    BY <1>3, <1>6 DEF Upper
  <2>2. ToSet(b) \subseteq ToSet(hs)
    BY <1>7
  <2>3. /\ hs \in Seq(Sends) /\ b \in Seq(Sends) /\ after \in Seq(Sends)
        /\ Rising(hs) /\ k = Messages(b) - Messages(after)
    BY <1>8
  <2> HIDE DEF gone
  <2>4. /\ k \in Nat
        /\ \A i \in 1..Len(hs) : hs[i] \in ToSet(after) => i > k
        /\ ToSet(hs) \subseteq ToSet(b) =>
              \A i \in 1..Len(hs) : hs[i] \in ToSet(b) \ ToSet(after) <=> i <= k
    BY ONLY <2>1, <2>2, <2>3, FirstHandlers
  <2> QED
    BY <2>4 DEF gone
<1>10. /\ tail \in Seq(Sends) /\ Len(tail) \in Nat
       /\ \A i \in 1..Len(tail) : i + k \in 1..Len(hs) /\ i + k > k /\ tail[i] = hs[i + k]
       /\ \A i \in 1..Len(hs) : i > k => hs[i] \in ToSet(tail)
  <2>1. tail \in Seq(Sends) /\ Len(tail) \in Nat
    BY <1>9, DropIs, LenProperties
  <2>2. CASE k <= Len(hs)
    <3>0. k \in 0..Len(hs)
      BY <1>8, <1>9, <2>2
    <3>1. Len(tail) = Len(hs) - k /\ \A i \in 1..(Len(hs) - k) : tail[i] = hs[i + k]
      <4>1. hs \in Seq(Sends) /\ k \in 0..Len(hs)
        BY <3>0
      <4> QED
        BY ONLY <4>1, Halves
    <3> HIDE DEF tail
    <3>2. \A i \in 1..Len(tail) : i + k \in 1..Len(hs) /\ i + k > k /\ tail[i] = hs[i + k]
      BY <1>8, <1>9, <2>2, <3>1
    <3>3. ASSUME NEW i \in 1..Len(hs), i > k PROVE hs[i] \in ToSet(tail)
      <4>1. i - k \in 1..Len(tail) /\ (i - k) + k = i
        BY <1>8, <1>9, <2>2, <3>1, <3>3
      <4> QED
        BY <2>1, <3>2, <4>1, ToSetIs
    <3> QED
      BY <2>1, <3>2, <3>3
  <2>3. CASE k > Len(hs)
    <3>1. tail = <<>>
      BY <1>8, <1>9, <2>3, SubSeqEmpty
    <3>2. \A i \in 1..Len(hs) : ~(i > k)
      BY <1>8, <1>9, <2>3
    <3> HIDE DEF tail
    <3>3. \A i \in 1..Len(tail) : FALSE
      BY <1>6, <3>1
    <3> QED
      BY <2>1, <3>2, <3>3
  <2> QED
    BY <1>8, <1>9, <2>2, <2>3
<1> HIDE DEF tail
<1>11. /\ ToSet(tail) \subseteq ToSet(hs) /\ Rising(tail)
       /\ ToSet(after) \subseteq ToSet(tail)
       /\ ToSet(hs) \subseteq ToSet(b) => ToSet(tail) \subseteq ToSet(after)
       /\ \A x \in ToSet(tail), i \in 1..Len(hs) : i <= k => hs[i] # x
  <2>0. \A x : x \in ToSet(tail) <=> \E i \in 1..Len(tail) : tail[i] = x
    BY <1>10, ToSetIs
  <2>1. ToSet(tail) \subseteq ToSet(hs)
    <3> SUFFICES ASSUME NEW x \in ToSet(tail) PROVE x \in ToSet(hs)
      OBVIOUS
    <3>1. PICK i \in 1..Len(tail) : tail[i] = x
      BY <2>0
    <3>2. i + k \in 1..Len(hs) /\ hs[i + k] = x
      BY <1>10, <3>1
    <3> QED
      BY <1>8, <3>2
  <2>2. Rising(tail)
    <3> SUFFICES ASSUME NEW i \in 1..Len(tail), NEW j \in 1..Len(tail), i < j
                 PROVE  tail[i] < tail[j]
      BY DEF Rising
    <3>1. i + k < j + k
      BY <1>9, <1>10
    <3> QED
      <4>1. /\ \A x, y \in 1..Len(hs) : x < y => hs[x] < hs[y]
            /\ i + k \in 1..Len(hs) /\ j + k \in 1..Len(hs) /\ i + k < j + k
            /\ tail[i] = hs[i + k] /\ tail[j] = hs[j + k]
        BY <1>8, <1>10, <3>1 DEF Rising
      <4> QED
        BY ONLY <4>1
  <2>3. ToSet(after) \subseteq ToSet(tail)
    <3> SUFFICES ASSUME NEW x \in ToSet(after) PROVE x \in ToSet(tail)
      OBVIOUS
    <3>1. x \in ToSet(hs)
      BY <1>3, <1>6, <1>7
    <3>2. PICK i \in 1..Len(hs) : hs[i] = x
      BY <1>8, <3>1
    <3>3. i > k
      BY <1>9, <3>2
    <3> QED
      BY <1>10, <3>2, <3>3
  <2>4. ASSUME ToSet(hs) \subseteq ToSet(b), NEW x \in ToSet(tail) PROVE x \in ToSet(after)
    <3>1. PICK i \in 1..Len(tail) : tail[i] = x
      BY <2>0
    <3>2. i + k \in 1..Len(hs) /\ ~(i + k <= k) /\ hs[i + k] = x
      BY <1>9, <1>10, <3>1
    <3>3. x \notin gone /\ x \in ToSet(b)
      BY <1>8, <1>9, <2>4, <3>2
    <3> QED
      BY <3>3
  <2>5. ASSUME NEW x \in ToSet(tail), NEW i \in 1..Len(hs), i <= k PROVE hs[i] # x
    <3>1. PICK j \in 1..Len(tail) : tail[j] = x
      BY <2>0
    <3>2. j + k \in 1..Len(hs) /\ i < j + k /\ hs[j + k] = x
      BY <1>9, <1>10, <2>5, <3>1
    <3>3. hs[i] < hs[j + k]
      BY <1>8, <3>2 DEF Rising
    <3>4. hs[i] \in Nat
      BY <1>8
    <3> QED
      BY <3>2, <3>3, <3>4
  <2> QED
    BY <2>1, <2>2, <2>3, <2>4, <2>5
(* The other connections                                                   *)
<1>12. \A d \in Channels \ {c} : chan[d].conn # n
  <2>1. n # 0
    BY DEF IInv, Telling
  <2> QED
    BY <2>1 DEF IInv, Telling
<1>13. \A x \in ToSet(hs), d \in Channels \ {c} : x \notin ToSet(chan[d].handlers)
  <2> SUFFICES ASSUME NEW d \in Channels \ {c}, NEW x \in ToSet(chan[d].handlers), x \in ToSet(hs)
               PROVE  FALSE
    OBVIOUS
  <2>1. x \in DOMAIN sends /\ sends[x] = chan[d].conn
    BY DEF SInv, Handling, HandlersFor
  <2>2. sends'[x] = n
    BY <1>8
  <2> QED
    BY <1>12, <2>1, <2>2 DEF MoreSends
(* What is out, and what of it is settled                                  *)
<1>14. \A s : s \notin ToSet(pre) => UnitsOut(s)' = UnitsOut(s)
  BY <1>4, <1>5
<1>15. \A s \in gone : UnitsOut(s)' = IF o = "ok" THEN Size ELSE UnitsOut(s)
  <2> SUFFICES ASSUME NEW s \in gone
               PROVE  UnitsOut(s)' = IF o = "ok" THEN Size ELSE UnitsOut(s)
    OBVIOUS
  <2>1. CASE o = "ok"
    <3>1. ~(Units(rest, s) > 0) /\ Units(rest, s) \in Nat
      BY <1>4, <2>1
    <3>2. Units(b, s) = Units(pre, s) /\ UnitsOut(s) + Units(b, s) = Size
      BY <1>3, <1>4, <1>7, <3>1
    <3> QED
      BY <1>5, <2>1, <3>2
  <2>2. CASE o # "ok"
    <3>1. s \notin ToSet(pre)
      BY <1>6, <2>2
    <3> QED
      BY <1>14, <2>2, <3>1
  <2> QED
    BY <2>1, <2>2
<1>16. \A s \in Sends : UnitsOut(s)' <= Size
  <2> SUFFICES ASSUME NEW s \in Sends PROVE UnitsOut(s)' <= Size
    OBVIOUS
  <2>0. Size \in Nat
    BY BoundsAssumption
  <2>1. CASE s \in ToSet(pre)
    <3>1. UnitsOut(s) + Units(b, s) = Size /\ Units(b, s) = Units(pre, s) + Units(rest, s)
      BY <1>3, <1>7, <2>1
    <3>2. /\ UnitsOut(s) \in Nat /\ Units(pre, s) \in Nat /\ Units(rest, s) \in Nat
          /\ UnitsOut(s)' = UnitsOut(s) + Units(pre, s)
      BY <1>4, <1>5
    <3> QED
      BY <2>0, <3>1, <3>2
  <2>2. CASE s \notin ToSet(pre)
    BY <1>1, <1>14, <2>2 DEF Wiring
  <2> QED
    BY <2>1, <2>2
<1>17. \A s : Refused(s) => Refused(s)'
  <2>1. \A s : Asked(queue, s, "error") => Asked(queue', s, "error")
    BY DEF Calls
  <2> QED
    BY <1>2, <2>1, RefusedIs DEF Refused, Asked
<1>18. ASSUME NEW s \in DOMAIN sends, Settled(s) PROVE Settled(s)'
  <2>1. \A x \in DOMAIN sends : UnitsOut(x) = Size => UnitsOut(x)' = Size
    <3> SUFFICES ASSUME NEW x \in DOMAIN sends, UnitsOut(x) = Size PROVE UnitsOut(x)' = Size
      OBVIOUS
    <3>1. x \in Sends
      BY <1>1, SendsAre
    <3>2. UnitsOut(x)' <= Size /\ UnitsOut(x)' = Size + Units(pre, x) /\ Units(pre, x) \in Nat
          /\ Size \in Nat
      BY <1>4, <1>5, <1>16, <3>1, BoundsAssumption
    <3> QED
      BY <3>2
  <2>2. Grows
    BY <1>2, <1>17, <2>1 DEF Grows, MoreSends
  <2> QED
    BY <1>1, <1>18, <2>2, SettledStays
<1>19. /\ ToSet(wire') = ToSet(wire) \cup ToSet(pre)
       /\ \A u \in ToSet(pre) : u \in ToSet(b) /\ u \in DOMAIN sends' /\ sends'[u] = n
       /\ \A u \in ToSet(wire) : u \in DOMAIN sends /\ sends'[u] = sends[u]
       /\ \A u \in dropped : u \in DOMAIN sends /\ sends'[u] = sends[u]
  <2>1. \A x : x \in ToSet(wire') <=> x \in ToSet(wire) \/ x \in ToSet(pre)
    <3>1. wire \in Seq(Sends) /\ wire' \in Seq(Sends)
      BY <1>1, SendsAre DEF TypeOK
    <3>2. /\ \A i \in 1..Len(wire') : \/ i \in 1..Len(wire) /\ wire'[i] = wire[i]
                                      \/ i - Len(wire) \in 1..Len(pre) /\ wire'[i] = pre[i - Len(wire)]
          /\ \A i \in 1..Len(wire) : i \in 1..Len(wire') /\ wire'[i] = wire[i]
          /\ \A i \in 1..Len(pre) : i + Len(wire) \in 1..Len(wire') /\ wire'[i + Len(wire)] = pre[i]
      <4>1. PICK w : w = wire \o pre
        OBVIOUS
      <4>2. wire \in Seq(Sends) /\ pre \in Seq(Sends)
        BY <3>1
      <4>3. /\ \A i \in 1..Len(w) : \/ i \in 1..Len(wire) /\ w[i] = wire[i]
                                    \/ i - Len(wire) \in 1..Len(pre) /\ w[i] = pre[i - Len(wire)]
            /\ \A i \in 1..Len(wire) : i \in 1..Len(w) /\ w[i] = wire[i]
            /\ \A i \in 1..Len(pre) : i + Len(wire) \in 1..Len(w) /\ w[i + Len(wire)] = pre[i]
        BY ONLY <4>1, <4>2, Joined
      <4>4. wire' = w
        BY <4>1
      <4> QED
        BY <4>3, <4>4
    <3>3. /\ \A x : x \in ToSet(wire') <=> \E i \in 1..Len(wire') : wire'[i] = x
          /\ \A x : x \in ToSet(wire) <=> \E i \in 1..Len(wire) : wire[i] = x
          /\ \A x : x \in ToSet(pre) <=> \E i \in 1..Len(pre) : pre[i] = x
      BY <3>1, ToSetIs
    <3>4. ASSUME NEW x, x \in ToSet(wire') PROVE x \in ToSet(wire) \/ x \in ToSet(pre)
      BY <3>2, <3>3, <3>4
    <3>5. ASSUME NEW x, x \in ToSet(wire) PROVE x \in ToSet(wire')
      BY <3>2, <3>3, <3>5
    <3>6. ASSUME NEW x, x \in ToSet(pre) PROVE x \in ToSet(wire')
      <4>1. PICK i \in 1..Len(pre) : pre[i] = x
        BY <3>3, <3>6
      <4>2. i + Len(wire) \in 1..Len(wire') /\ wire'[i + Len(wire)] = x
        BY <3>2, <4>1
      <4> QED
        BY <3>3, <4>2
    <3> QED
      BY <3>4, <3>5, <3>6
  <2>2. \A u \in ToSet(pre) : u \in ToSet(b) /\ u \in DOMAIN sends' /\ sends'[u] = n
    BY <1>3, <1>7, <1>8
  <2>3. \A u \in ToSet(wire) \cup dropped : u \in DOMAIN sends /\ sends'[u] = sends[u]
    BY <1>1 DEF Wiring, MoreSends
  <2> QED
    BY <2>1, <2>2, <2>3
(* The parts of the invariant                                              *)
<1>20. Wiring'
  <2>1. \A s \in DOMAIN sends' : sends'[s] <= conns'
    <3>1. n <= conns
      BY DEF IInv, Telling
    <3> QED
      BY <1>1, <1>2, <3>1 DEF Wiring, MoreSends
  <2>2. ToSet(wire') \cup dropped' \subseteq DOMAIN sends'
    BY <1>2, <1>19 DEF MoreSends
  <2>3. ASSUME NEW i \in DOMAIN wire', NEW j \in DOMAIN wire', i < j,
               sends'[wire'[i]] = sends'[wire'[j]]
        PROVE  wire'[i] <= wire'[j]
    <3>1. wire \in Seq(Sends) /\ wire' \in Seq(Sends) /\ Len(wire) \in Nat
          /\ DOMAIN wire' = 1..Len(wire') /\ DOMAIN wire = 1..Len(wire)
      BY <1>1, SendsAre, LenProperties DEF TypeOK
    <3>2. \A m \in 1..Len(wire') : \/ m \in 1..Len(wire) /\ wire'[m] = wire[m]
                                   \/ m - Len(wire) \in 1..Len(pre) /\ wire'[m] = pre[m - Len(wire)]
      <4>1. PICK w : w = wire \o pre
        OBVIOUS
      <4>2. wire \in Seq(Sends) /\ pre \in Seq(Sends) /\ wire' = w
        BY <3>1, <4>1
      <4>3. \A m \in 1..Len(w) : \/ m \in 1..Len(wire) /\ w[m] = wire[m]
                                 \/ m - Len(wire) \in 1..Len(pre) /\ w[m] = pre[m - Len(wire)]
        BY ONLY <4>1, <4>2, Joined
      <4> QED
        BY <4>2, <4>3
    <3>3. /\ \A m \in 1..Len(wire) : wire[m] \in ToSet(wire)
          /\ \A m \in 1..Len(pre) : pre[m] \in ToSet(pre)
      BY <3>1, ToSetIs
    <3>4. CASE i \in 1..Len(wire) /\ wire'[i] = wire[i] /\ j \in 1..Len(wire) /\ wire'[j] = wire[j]
      <4>1. sends[wire[i]] = sends[wire[j]]
        BY <1>19, <2>3, <3>3, <3>4
      <4> QED
        BY <1>1, <2>3, <3>1, <3>4, <4>1 DEF Wiring, SameConn
    <3>5. CASE /\ i \in 1..Len(wire) /\ wire'[i] = wire[i]
               /\ j - Len(wire) \in 1..Len(pre) /\ wire'[j] = pre[j - Len(wire)]
      <4>1. /\ wire[i] \in ToSet(wire) /\ pre[j - Len(wire)] \in ToSet(pre)
            /\ sends'[pre[j - Len(wire)]] = n
        BY <1>19, <3>3, <3>5
      <4>2. sends[wire[i]] = n
        BY <1>19, <2>3, <3>5, <4>1
      <4> QED
        BY <1>7, <1>19, <3>5, <4>1, <4>2
    <3>6. CASE /\ i - Len(wire) \in 1..Len(pre) /\ wire'[i] = pre[i - Len(wire)]
               /\ j - Len(wire) \in 1..Len(pre) /\ wire'[j] = pre[j - Len(wire)]
      <4>1. i - Len(wire) < j - Len(wire)
        BY <2>3, <3>1
      <4> QED
        BY <1>3, <3>6, <4>1 DEF Sorted
    <3>7. ~(i - Len(wire) \in 1..Len(pre) /\ j \in 1..Len(wire))
      BY <2>3, <3>1
    <3> QED
      BY <3>1, <3>2, <3>4, <3>5, <3>6, <3>7
  <2> QED
    BY <1>16, <2>1, <2>2, <2>3 DEF Wiring, SameConn
<1>21. /\ \A s \in ToSet(hs) : s \in ToSet(tail) => Waits(s)'
       /\ \A s : s \notin ToSet(hs) /\ Waits(s) => Waits(s)'
       /\ \A s : ~Waits(s)' => ~Waits(s) \/ s \in ToSet(hs)
  <2>1. ASSUME NEW s, s \in ToSet(tail) \/ s \notin ToSet(hs), Waits(s) PROVE Waits(s)'
    <3>1. \A i \in 1..Len(hs) : i <= k => hs[i] # s
      BY <1>8, <1>11, <2>1
    <3> QED
      BY <1>2, <2>1, <3>1 DEF Waits, Calls
  <2> QED
    BY <1>8, <2>1
<1>22. Handling'
  <2> SUFFICES ASSUME NEW d \in Channels
               PROVE  /\ HandlersFor(chan[d].handlers, chan[d].conn, sends)'
                      /\ chan'[d].handlers # <<>> => chan'[d].fd # None \/ pc' \in {"drain", "end"}
    BY DEF Handling, Open
  <2>1. CASE d # c
    <3>1. /\ HandlersFor(chan[d].handlers, chan[d].conn, sends)
          /\ chan[d].handlers # <<>> => chan[d].fd # None \/ pc \in {"drain", "end"}
      BY DEF SInv, Handling, Open
    <3>2. /\ chan'[d].fd = chan[d].fd /\ chan'[d].conn = chan[d].conn
          /\ chan'[d].handlers = chan[d].handlers
      BY <2>1 DEF OthersKeep
    <3>3. ASSUME NEW s \in ToSet(chan[d].handlers)
          PROVE  s \in DOMAIN sends' /\ sends'[s] = chan[d].conn /\ Waits(s)'
      <4>1. s \in DOMAIN sends /\ sends[s] = chan[d].conn /\ Waits(s)
        BY <3>1 DEF HandlersFor
      <4>2. s \notin ToSet(hs)
        BY <1>13, <2>1
      <4> QED
        BY <1>21, <4>1, <4>2 DEF MoreSends
    <3> QED
      BY <1>2, <3>1, <3>2, <3>3 DEF HandlersFor
  <2>2. CASE d = c
    <3>1. CASE chan'[c].handlers = <<>>
      BY <1>6, <2>2, <3>1 DEF HandlersFor, Rising
    <3>2. CASE chan'[c].handlers = tail /\ chan'[c].fd # None
      <4>1. \A s \in ToSet(tail) : s \in DOMAIN sends' /\ sends'[s] = n /\ Waits(s)'
        BY <1>8, <1>11, <1>21
      <4> QED
        BY <1>11, <2>2, <3>2, <4>1 DEF HandlersFor
    <3> QED
      BY <3>1, <3>2 DEF tail
  <2> QED
    BY <2>1, <2>2
<1>23. Answering'
  <2>1. AskedOnce(queue') /\ (StopIn(queue') => stopPosted')
    BY <1>2 DEF Calls, SInv, Answering
  <2>2. \A s \in Sends, x \in Outcomes : Asked(queue', s, x) => answered'[s] = None
    <3>1. \A i \in 1..Len(hs) : answered[hs[i]] = None
      BY <1>8 DEF Waits
    <3> QED
      BY <1>2, <3>1 DEF Calls, SInv, Answering
  <2>3. \A s \in Sends : ~Waits(s)' => s \in DOMAIN sends'
    BY <1>8, <1>21 DEF SInv, Answering, MoreSends
  <2> QED
    BY <2>1, <2>2, <2>3 DEF Answering
<1>24. Truth'
  <2> SUFFICES ASSUME dropped = {}, NEW s \in Sends, NEW x \in Outcomes,
                      Asked(queue', s, x) \/ answered[s] = x
               PROVE  x = "ok" <=> UnitsOut(s)' = Size
    BY <1>2 DEF Truth
  <2>1. CASE Asked(queue, s, x) \/ answered[s] = x
    <3>0. None # x
      BY NoneAssumption DEF Outcomes
    <3>1. ~Waits(s)
      BY <2>1, <3>0 DEF Waits
    <3>2. s \notin ToSet(pre)
      BY <1>8, <1>7, <1>19, <3>1
    <3>3. x = "ok" <=> UnitsOut(s) = Size
      BY <2>1 DEF SInv, Truth
    <3> QED
      BY <1>14, <3>2, <3>3
  <2>2. CASE x = o /\ \E i \in 1..Len(hs) : i <= k /\ hs[i] = s
    <3>1. ToSet(hs) \subseteq ToSet(b)
      BY DEF Queued
    <3>2. s \in gone
      BY <1>9, <2>2, <3>1
    <3>3. UnitsOut(s) + Units(b, s) = Size /\ Units(b, s) > 0
      BY <1>4, <1>7, <3>2
    <3>4. UnitsOut(s) # Size
      BY <1>4, <1>5, <3>3
    <3> QED
      BY <1>15, <2>2, <3>2, <3>4
  <2> QED
    BY <2>1, <2>2 DEF Calls
<1>25. ASSUME NEW s \in gone, ~stopPosted PROVE Settled(s)'
  <2>0. s \in DOMAIN sends' /\ sends'[s] = n /\ s \in ToSet(hs) /\ s \in Nat
    BY <1>1, <1>7, <1>8 DEF Sends
  <2>1. CASE o = "ok"
    BY <1>15, <1>25, <2>1 DEF Settled
  <2>2. CASE o = "error"
    <3>1. ASSUME NEW i \in 1..Len(hs), i <= k PROVE Refused(hs[i])'
      <4>1. Asked(queue', hs[i], "error")
        BY <1>25, <2>2, <3>1 DEF Calls
      <4> QED
        BY <4>1 DEF Refused, Asked
    <3>2. CASE \A r \in dropped : sends[r] # n
      <4>1. ToSet(hs) \subseteq ToSet(b)
        BY <3>2 DEF Queued
      <4>2. PICK i \in 1..Len(hs) : hs[i] = s
        BY <1>8, <2>0
      <4>3. i <= k
        BY <1>9, <1>25, <4>1, <4>2
      <4> QED
        BY <3>1, <4>2, <4>3 DEF Settled, GivenUp
    <3>3. ASSUME NEW r \in dropped, sends[r] = n PROVE Settled(s)'
      <4>1. r < s /\ sends'[r] = sends'[s] /\ r \in dropped'
        BY <1>2, <1>7, <1>19, <2>0, <3>3
      <4>2. PICK i \in 1..Len(hs) : hs[i] = s
        BY <1>8, <2>0
      <4>3. 1 \in 1..Len(hs) /\ hs[1] \in Nat \ {0} /\ hs[1] <= s
        <5>1. 1 \in 1..Len(hs) /\ (i = 1 \/ 1 < i)
          BY <1>8, <4>2
        <5>2. hs[1] \in Nat \ {0}
          BY <1>8, <5>1
        <5> QED
          <6>1. CASE i = 1
            BY <4>2, <5>2, <6>1
          <6>2. CASE 1 < i
            <7>1. hs[1] < hs[i]
              BY <1>8, <5>1, <6>2 DEF Rising
            <7> QED
              BY <2>0, <4>2, <5>2, <7>1
          <6> QED
            BY <5>1, <5>2, <6>1, <6>2
      <4>4. 1 <= k
        <5>1. k = Messages(b)
          <6>1. Messages(after) = 0
            BY <1>6, <2>2, FS_EmptySet DEF Messages
          <6>2. Messages(b) \in Nat
            BY WholeNat
          <6> QED
            BY <6>1, <6>2
        <5>2. Messages(b) # 0
          <6>1. IsFiniteSet(ToSet(b)) /\ ToSet(b) # {}
            <7>1. ToSet(b) \subseteq Sends
              BY ToSetIs
            <7>2. IsFiniteSet(Sends)
              <8>1. MaxSends \in Nat
                BY BoundsAssumption
              <8> QED
                BY <8>1, FS_Interval DEF Sends
            <7> QED
              BY <1>25, <7>1, <7>2, FS_Subset
          <6> QED
            BY <6>1, FS_EmptySet DEF Messages
        <5> QED
          BY <1>9, <5>1, <5>2
      <4>5. Refused(hs[1])'
        BY <3>1, <4>3, <4>4
      <4>6. hs[1] \in 1..s
        BY <2>0, <4>3
      <4>7. sends'[hs[1]] = sends'[s]
        <5>1. hs[1] \in ToSet(hs)
          BY <1>8, <4>3
        <5> QED
          BY <1>8, <2>0, <5>1
      <4> QED
        BY <4>1, <4>5, <4>6, <4>7 DEF Settled, GivenUp, SameConn
    <3> QED
      BY <3>2, <3>3
  <2> QED
    BY <2>1, <2>2 DEF Outcomes
<1>26. Buffers'
  <2> SUFFICES ASSUME NEW d \in Channels, chan'[d].fd # None
               PROVE  Queued(Buf(d), chan[d].handlers, chan[d].conn, sends)'
    BY DEF Buffers, Open
  <2>1. CASE d # c
    <3> DEFINE m == chan[d].conn
               bd == Buf(d)
               hd == chan[d].handlers
    <3>0. /\ chan'[d].conn = m /\ chan'[d].handlers = hd /\ Buf(d)' = bd /\ Open(d)
      BY <2>1 DEF OthersKeep, Open
    <3>1. Queued(bd, hd, m, sends)
      BY <3>0 DEF SInv, Buffers
    <3>2. m # n
      BY <1>12, <2>1
    <3>3. HandlersFor(hd, m, sends)
      BY DEF SInv, Handling
    <3> HIDE DEF m, bd, hd
    <3>4. Sorted(bd) /\ ToSet(bd) \subseteq ToSet(hd)
          /\ ((\A r \in dropped' : sends'[r] # m) => ToSet(hd) \subseteq ToSet(bd))
      BY <1>2, <1>19, <3>1 DEF Queued
    <3>5. ASSUME NEW t \in ToSet(bd)
          PROVE  /\ UnitsOut(t)' + Units(bd, t) = Size
                 /\ \A u \in ToSet(wire') : sends'[u] = m => u <= t
                 /\ \A r \in dropped' : sends'[r] = m => r < t
      <4>1. /\ UnitsOut(t) + Units(bd, t) = Size
            /\ \A u \in ToSet(wire) : sends[u] = m => u <= t
            /\ \A r \in dropped : sends[r] = m => r < t
        BY <3>1 DEF Queued
      <4>2. t \in DOMAIN sends /\ sends'[t] = m
        BY <3>3, <3>4 DEF HandlersFor, MoreSends
      <4>3. t \notin ToSet(pre)
        BY <1>19, <3>2, <4>2
      <4> QED
        BY <1>2, <1>14, <1>19, <3>2, <4>1, <4>3
    <3>6. ~stopPosted' =>
             \A s \in DOMAIN sends' :
                sends'[s] = m => s \in ToSet(bd) \/ (s \in DOMAIN sends' /\ Settled(s)')
      <4> SUFFICES ASSUME ~stopPosted, NEW s \in DOMAIN sends', sends'[s] = m
                   PROVE  s \in ToSet(bd) \/ Settled(s)'
        BY <1>2
      <4>1. s \in DOMAIN sends /\ sends[s] = m
        BY <3>2 DEF MoreSends
      <4>2. s \in ToSet(bd) \/ Settled(s)
        BY <3>1, <4>1 DEF Queued
      <4> QED
        BY <1>18, <4>1, <4>2
    <3> QED
      BY <3>0, <3>4, <3>5, <3>6 DEF Queued, Units
  <2>2. CASE d = c
    <3>0. chan'[c].handlers = tail /\ Buf(c)' = after /\ chan'[c].conn = n
      BY <2>2 DEF tail
    <3>1. Sorted(after) /\ ToSet(after) \subseteq ToSet(b)
      BY <1>3, <1>6 DEF Sorted
    <3>2. /\ ToSet(after) \subseteq ToSet(tail)
          /\ (\A r \in dropped' : sends'[r] # n) => ToSet(tail) \subseteq ToSet(after)
      <4>1. (\A r \in dropped : sends[r] # n) => ToSet(hs) \subseteq ToSet(b)
        BY DEF Queued
      <4> QED
        BY <1>2, <1>11, <1>19, <4>1
    <3>3. ASSUME NEW t \in ToSet(after)
          PROVE  /\ UnitsOut(t)' + Units(after, t) = Size
                 /\ \A u \in ToSet(wire') : sends'[u] = n => u <= t
                 /\ \A r \in dropped' : sends'[r] = n => r < t
      <4>1. after = rest
        BY <1>6, <3>3
      <4>2. UnitsOut(t)' + Units(after, t) = Size
        <5>1. /\ UnitsOut(t)' = UnitsOut(t) + Units(pre, t)
              /\ UnitsOut(t) + Units(b, t) = Size /\ Units(b, t) = Units(pre, t) + Units(rest, t)
              /\ UnitsOut(t) \in Nat /\ Units(pre, t) \in Nat /\ Units(rest, t) \in Nat
          BY <1>3, <1>4, <1>5, <1>7, <3>1
        <5> QED
          BY <4>1, <5>1
      <4> QED
        BY <1>2, <1>3, <1>7, <1>19, <3>1, <4>1, <4>2
    <3>4. ~stopPosted' =>
             \A s \in DOMAIN sends' :
                sends'[s] = n => s \in ToSet(after) \/ (s \in DOMAIN sends' /\ Settled(s)')
      <4> SUFFICES ASSUME ~stopPosted, NEW s \in DOMAIN sends', sends'[s] = n
                   PROVE  s \in ToSet(after) \/ Settled(s)'
        BY <1>2
      <4>1. s \in ToSet(b) \/ (s \in DOMAIN sends /\ Settled(s))
        BY DEF Queued
      <4> QED
        BY <1>18, <1>25, <4>1
    <3> QED
      BY <2>2, <3>0, <3>1, <3>2, <3>3, <3>4, ZenonT(30) DEF Queued, Units
  <2> QED
    BY <2>1, <2>2
<1>27. Begun'
  <2> SUFFICES ASSUME ~stopPosted, NEW s \in DOMAIN sends', NEW t \in DOMAIN sends',
                      s < t, sends'[s] = sends'[t], UnitsOut(t)' > 0
               PROVE  Settled(s)'
    BY <1>2 DEF Begun, SameConn
  <2>0. /\ DOMAIN sends' = 1..Len(sends') /\ DOMAIN sends = 1..Len(sends)
        /\ Len(sends) \in Nat /\ Len(sends') \in Nat /\ s \in Nat /\ t \in Nat
    <3>1. sends \in Seq(Conns) /\ sends' \in Seq(Conns)
      BY <1>1 DEF TypeOK
    <3>2. /\ DOMAIN sends' = 1..Len(sends') /\ DOMAIN sends = 1..Len(sends)
          /\ Len(sends) \in Nat /\ Len(sends') \in Nat
      BY <3>1, LenProperties
    <3> QED
      BY <3>2
  <2>1. CASE t \in ToSet(pre)
    <3>1. sends'[s] = n /\ t \in ToSet(b)
      BY <1>19, <2>1
    <3>2. s \in ToSet(b) \/ (s \in DOMAIN sends /\ Settled(s))
      BY <3>1 DEF Queued
    <3>3. CASE s \in ToSet(b)
      <4>1. o = "ok"
        BY <1>6, <2>1
      <4>2. s \notin ToSet(rest)
        BY <1>3, <2>0, <2>1
      <4> QED
        BY <1>25, <3>3, <4>1, <4>2
    <3> QED
      BY <1>18, <3>2, <3>3
  <2>2. CASE t \notin ToSet(pre)
    <3>1. UnitsOut(t) > 0
      BY <1>14, <2>2
    <3>2. t \in DOMAIN sends
      BY <1>1, <3>1, SendsAre DEF Wiring
    <3>3. s \in DOMAIN sends
      BY <2>0, <3>2
    <3>4. sends[s] = sends[t]
      BY <3>2, <3>3 DEF MoreSends
    <3>5. Settled(s)
      BY <3>1, <3>2, <3>3, <3>4 DEF SInv, Begun, SameConn
    <3> QED
      BY <1>18, <3>3, <3>5
  <2> QED
    BY <2>1, <2>2
<1> QED
  BY <1>20, <1>22, <1>23, <1>24, <1>26, <1>27 DEF SInv

(* A step that leaves what the channels have to send, or closes them       *)
QuietSending ==
    /\ sends' = sends /\ wire' = wire /\ answered' = answered /\ dropped' = dropped
    /\ conns' = conns /\ stopPosted' = stopPosted
    /\ pc \in {"drain", "end"} => pc' \in {"drain", "end"}
    /\ AskedOnce(queue') /\ (StopIn(queue') => StopIn(queue))
    /\ \A s, o : Asked(queue', s, o) <=> Asked(queue, s, o)
    /\ \A c \in Channels :
          \/ chan'[c].handlers = <<>> /\ chan'[c].fd = None
          \/ /\ chan'[c].handlers = chan[c].handlers /\ chan'[c].conn = chan[c].conn
             /\ chan'[c].fd = chan[c].fd
             /\ Open(c) => Buf(c)' = Buf(c)

(* It keeps what is sent as it is.                                         *)
LEMMA QuietSendingKeeps ==
    ASSUME IInv, SInv, QuietSending
    PROVE  SInv'
<1>1. conns' \in Nat /\ conns <= conns'
  <2>1. conns \in 0..MaxConns /\ MaxConns \in Nat
    BY BoundsAssumption DEF IInv, TypeOK
  <2> QED
    BY <2>1 DEF QuietSending
<1>2. StopIn(queue') => stopPosted'
  BY DEF QuietSending, SInv, Answering
<1>3. ASSUME NEW c \in Channels
      PROVE  \/ chan'[c].handlers = <<>>
             \/ /\ chan'[c].handlers = chan[c].handlers /\ chan'[c].conn = chan[c].conn
                /\ chan'[c].fd # None \/ pc' \in {"drain", "end"}
  BY DEF QuietSending, SInv, Handling, Open
<1>4. ASSUME NEW c \in Channels, chan'[c].fd # None
      PROVE  /\ Open(c) /\ Buf(c)' = Buf(c)
             /\ chan'[c].handlers = chan[c].handlers /\ chan'[c].conn = chan[c].conn
  BY <1>4 DEF QuietSending, Open
<1>5. SameSending
  BY <1>1, <1>2, <1>3, <1>4 DEF QuietSending, SameSending
<1> QED
  BY <1>5, SameSendingKeeps

(* What onClose() leaves of a channel, and of what its handlers are told   *)
LEMMA OnCloseSends ==
    ASSUME IInv, NEW c \in Channels, Open(c), NEW q \in Seq(Tasks), AskedOnce(q),
           OnClose(c, q)
    PROVE  /\ chan'[c].handlers = <<>> /\ chan'[c].fd = None /\ chan'[c].conn = chan[c].conn
           /\ \A d \in Channels \ {c} : chan'[d] = chan[d]
           /\ AskedOnce(queue') /\ (StopIn(queue') => StopIn(q))
           /\ \A s, o : Asked(queue', s, o) <=> Asked(q, s, o)
<1>1. /\ chan'[c].handlers = <<>> /\ chan'[c].fd = None /\ chan'[c].conn = chan[c].conn
      /\ \A d \in Channels \ {c} : chan'[d] = chan[d]
  <2>1. chan \in [Channels -> ChannelState]
    BY DEF IInv, TypeOK
  <2> QED
    BY <2>1 DEF OnClose, ClosedChannel
<1>2. chan[c].conn \in Conns
  BY DEF IInv, TypeOK, Telling, ChannelState
<1>3. PICK ts \in {<<>>, <<Closed(c, chan[c].conn)>>} : queue' = Posted(q, ts)
  BY DEF OnClose
<1>4. ts \in Seq(Tasks) /\ \A i \in 1..Len(ts) : ts[i].is \notin {"sent", "stop"}
  <2>1. CASE ts = <<>>
    BY <2>1
  <2>2. CASE ts = <<Closed(c, chan[c].conn)>>
    <3>1. Closed(c, chan[c].conn) \in Tasks /\ Closed(c, chan[c].conn).is = "close"
      BY <1>2 DEF Closed, Tasks, Task
    <3> HIDE DEF Closed
    <3> QED
      BY <2>2, <3>1
  <2> QED
    BY <2>1, <2>2
<1>5. /\ AskedOnce(queue') /\ (StopIn(queue') => StopIn(q))
      /\ \A s, o : Asked(queue', s, o) <=> Asked(q, s, o)
  <2> DEFINE p == Posted(q, ts)
  <2>1. /\ AskedOnce(p) /\ (StopIn(p) => StopIn(q))
        /\ \A s, o : Asked(p, s, o) <=> Asked(q, s, o)
    BY <1>4, OthersPosted
  <2>2. queue' = p
    BY <1>3
  <2> HIDE DEF p
  <2> QED
    BY <2>1, <2>2
<1> QED
  BY <1>1, <1>5

(* The queue as it is, and without a task that calls no send handler       *)
LEMMA QueueAsIt ==
    ASSUME IInv, SInv
    PROVE  /\ queue \in Seq(Tasks) /\ AskedOnce(queue) /\ (StopIn(queue) => stopPosted)
           /\ queue' = queue =>
                 /\ AskedOnce(queue') /\ (StopIn(queue') => StopIn(queue))
                 /\ \A s, o : Asked(queue', s, o) <=> Asked(queue, s, o)
<1>1. queue \in Seq(Tasks) /\ AskedOnce(queue) /\ (StopIn(queue) => stopPosted)
  BY DEF IInv, TypeOK, Tasks, SInv, Answering
<1> QED
  BY <1>1 DEF AskedOnce, StopIn, Asked

(* The steps that touch sockets only                                       *)
LEMMA SocketSteps ==
    ASSUME IInv, SInv,
           UNCHANGED <<chan, item, queue, stopPosted, conns, sends, wire, answered, dropped>>,
           pc \in {"drain", "end"} => pc' \in {"drain", "end"}
    PROVE  SInv'
<1>1. /\ AskedOnce(queue') /\ (StopIn(queue') => StopIn(queue))
      /\ \A s, o : Asked(queue', s, o) <=> Asked(queue, s, o)
  BY QueueAsIt
<1>2. \A c \in Channels : Buf(c)' = Buf(c)
  BY DEF Buf
<1>3. QuietSending
  BY <1>1, <1>2 DEF QuietSending
<1> QED
  BY <1>3, QuietSendingKeeps

(* PeerSends(), PeerEnds(), RoomBack(), SendNow(), Wait(), and what only   *)
(* moves the loop                                                          *)
LEMMA LoopSends ==
    ASSUME IInv, SInv,
           \/ \E fd \in Fds : \/ PeerSends(fd) \/ RoomBack(fd)
                              \/ \E how \in {"fin", "reset"} : PeerEnds(fd, how)
           \/ \E c \in Channels : SendNow(c)
           \/ Wait \/ WaitAgain \/ OtherEvent \/ DrainDone
           \/ UNCHANGED vars
    PROVE  SInv'
<1>1. ASSUME NEW fd \in Fds, PeerSends(fd) \/ RoomBack(fd) PROVE SInv'
  BY <1>1, SocketSteps DEF PeerSends, RoomBack, sendVars, loopVars
<1>2. ASSUME NEW fd \in Fds, NEW how \in {"fin", "reset"}, PeerEnds(fd, how) PROVE SInv'
  BY <1>2, SocketSteps DEF PeerEnds, sendVars, loopVars
<1>3. ASSUME NEW c \in Channels, SendNow(c) PROVE SInv'
  BY <1>3, SocketSteps DEF SendNow, InUserCode, loopVars
<1>4. CASE Wait
  BY <1>4, SocketSteps DEF Wait, sendVars
<1>5. CASE WaitAgain
  BY <1>5, SocketSteps DEF WaitAgain, Served, sendVars
<1>6. CASE OtherEvent
  BY <1>6, SocketSteps DEF OtherEvent, Served, Quiet, Enter, sendVars
<1>7. CASE DrainDone
  BY <1>7, SocketSteps DEF DrainDone, sendVars
<1>8. CASE UNCHANGED vars
  BY <1>8, SocketSteps DEF vars
<1> QED
  BY <1>1, <1>2, <1>3, <1>4, <1>5, <1>6, <1>7, <1>8

(* A channel's end: its item goes, and onClose() posts behind q, which is   *)
(* the queue without tasks that call no send handler.                      *)
LEMMA EndSends ==
    ASSUME IInv, SInv, NEW c \in Channels, Open(c), NEW q \in Seq(Tasks),
           AskedOnce(q), StopIn(q) => StopIn(queue),
           \A s, o : Asked(q, s, o) <=> Asked(queue, s, o),
           Release({chan[c].fd}), OnClose(c, q),
           UNCHANGED <<sends, wire, answered, dropped, conns, stopPosted>>,
           pc \in {"drain", "end"} => pc' \in {"drain", "end"}
    PROVE  SInv'
<1>1. /\ chan'[c].handlers = <<>> /\ chan'[c].fd = None
      /\ \A d \in Channels \ {c} : chan'[d] = chan[d]
      /\ AskedOnce(queue') /\ (StopIn(queue') => StopIn(q))
      /\ \A s, o : Asked(queue', s, o) <=> Asked(q, s, o)
  BY OnCloseSends
<1>2. ASSUME NEW d \in Channels \ {c}, Open(d) PROVE Buf(d)' = Buf(d)
  <2>1. chan[d].fd \in Fds /\ item[chan[d].fd].channel = d /\ item[chan[c].fd].channel = c
        /\ chan[c].fd \in Fds
    BY <1>2, OpenIs
  <2>2. chan[d].fd \in Fds \ {chan[c].fd}
    BY <2>1
  <2>3. item'[chan[d].fd] = item[chan[d].fd]
    BY <2>2 DEF Release
  <2> QED
    BY <1>1, <2>3 DEF Buf
<1>3. QuietSending
  BY <1>1, <1>2 DEF QuietSending
<1> QED
  BY <1>3, QuietSendingKeeps

(* receive(), which may find the end of the data                           *)
LEMMA ReceiveSends ==
    ASSUME IInv, SInv, NEW c \in Channels, Receive(c)
    PROVE  SInv'
<1>1. /\ Open(c) /\ sends' = sends /\ wire' = wire /\ answered' = answered
      /\ dropped' = dropped /\ conns' = conns /\ stopPosted' = stopPosted /\ pc' = pc
  BY DEF Receive, InUserCode, sendVars, loopVars
<1>2. CASE UNCHANGED <<chan, item, registered, queue>>
  BY <1>1, <1>2, SocketSteps
<1>3. CASE OnTcpReceiveEof(c, queue)
  <2>1. queue \in Seq(Tasks) /\ AskedOnce(queue)
    BY QueueAsIt
  <2>2. OnClose(c, queue) /\ Release({chan[c].fd})
    BY <1>3 DEF OnTcpReceiveEof
  <2> QED
    BY <1>1, <2>1, <2>2, EndSends
<1> QED
  BY <1>2, <1>3 DEF Receive

(* Return(), which may find the end of the data                            *)
LEMMA ReturnSends ==
    ASSUME IInv, SInv, Return
    PROVE  SInv'
<1>1. /\ sends' = sends /\ wire' = wire /\ answered' = answered /\ dropped' = dropped
      /\ conns' = conns /\ stopPosted' = stopPosted /\ pc = "user"
  BY DEF Return, sendVars
<1>2. CASE UNCHANGED <<chan, item, registered, queue>>
  BY <1>1, <1>2, SocketSteps
<1>3. CASE /\ current.is = "receive" /\ chan[current.channel].fd # None
           /\ OnTcpReceiveEof(current.channel, queue)
  <2> DEFINE c == current.channel
  <2>1. c \in Channels /\ Open(c)
    BY <1>1, <1>3 DEF IInv, LoopShape, Received, Other, Open
  <2>2. queue \in Seq(Tasks) /\ AskedOnce(queue)
    BY QueueAsIt
  <2>3. OnClose(c, queue) /\ Release({chan[c].fd})
    BY <1>3 DEF OnTcpReceiveEof
  <2> HIDE DEF c
  <2> QED
    BY <1>1, <2>1, <2>2, <2>3, EndSends
<1> QED
  BY <1>2, <1>3 DEF Return, PeekEof

(* The next task does not call a send handler.                             *)
LEMMA NotSentTaken ==
    ASSUME IInv, SInv, NEW is \in {"receive", "close"}, Take(is)
    PROVE  /\ Tail(queue) \in Seq(Tasks) /\ AskedOnce(Tail(queue))
           /\ StopIn(Tail(queue)) => StopIn(queue)
           /\ \A s, o : Asked(Tail(queue), s, o) <=> Asked(queue, s, o)
           /\ sends' = sends /\ wire' = wire /\ dropped' = dropped
           /\ conns' = conns /\ stopPosted' = stopPosted /\ pc = "serve"
<1>1. queue \in Seq(Tasks) /\ AskedOnce(queue)
  BY QueueAsIt
<1>2. queue # <<>> /\ Head(queue).is = is /\ is # "sent"
  BY DEF Take, IInv, LoopShape
<1>3. Tail(queue) \in Seq(Tasks)
  BY TakeIs
<1>4. /\ AskedOnce(Tail(queue))
      /\ StopIn(Tail(queue)) => StopIn(queue)
      /\ \A s, o : Asked(Tail(queue), s, o) <=> Asked(queue, s, o)
  BY <1>1, <1>2, AskedTail
<1> QED
  BY <1>3, <1>4 DEF Take, Served

(* RunReceive(), which may find the end of the data                        *)
LEMMA RunReceiveSends ==
    ASSUME IInv, SInv, RunReceive
    PROVE  SInv'
<1> DEFINE c == Head(queue).channel
           q == Tail(queue)
<1>1. /\ q \in Seq(Tasks) /\ AskedOnce(q)
      /\ StopIn(q) => StopIn(queue)
      /\ \A s, o : Asked(q, s, o) <=> Asked(queue, s, o)
      /\ sends' = sends /\ wire' = wire /\ dropped' = dropped
      /\ conns' = conns /\ stopPosted' = stopPosted /\ pc = "serve"
  BY NotSentTaken DEF RunReceive
<1>2. c \in Channels
  <2>1. Take("receive")
    BY DEF RunReceive
  <2>2. Head(queue) \in Tasks /\ Head(queue).is = "receive"
    BY <2>1, TakeIs
  <2> QED
    BY <2>2, TaskKinds
<1>3. answered' = answered
  BY DEF RunReceive
<1>4. \/ /\ chan[c].fd # None /\ OnTcpReceiveEof(c, q)
      \/ queue' = q /\ UNCHANGED <<chan, item>>
  BY DEF RunReceive, ReceiveAll, ReceiveData
<1> HIDE DEF c, q
<1>5. CASE chan[c].fd # None /\ OnTcpReceiveEof(c, q)
  <2>1. Open(c) /\ OnClose(c, q) /\ Release({chan[c].fd})
    BY <1>5 DEF OnTcpReceiveEof, Open
  <2> QED
    BY <1>1, <1>2, <1>3, <2>1, EndSends
<1>6. CASE queue' = q /\ UNCHANGED <<chan, item>>
  <2>1. QuietSending
    BY <1>1, <1>3, <1>6 DEF QuietSending, Buf
  <2> QED
    BY <2>1, QuietSendingKeeps
<1> QED
  BY <1>4, <1>5, <1>6

(* RunClosed(), which calls the close handler or not                       *)
LEMMA RunClosedSends ==
    ASSUME IInv, SInv, RunClosed
    PROVE  SInv'
<1> DEFINE q == Tail(queue)
<1>1. /\ AskedOnce(q) /\ (StopIn(q) => StopIn(queue))
      /\ \A s, o : Asked(q, s, o) <=> Asked(queue, s, o)
      /\ sends' = sends /\ wire' = wire /\ dropped' = dropped
      /\ conns' = conns /\ stopPosted' = stopPosted /\ pc = "serve"
  BY NotSentTaken DEF RunClosed
<1>2. queue' = q /\ chan' = chan /\ item' = item /\ answered' = answered
  BY DEF RunClosed
<1> HIDE DEF q
<1>3. QuietSending
  BY <1>1, <1>2 DEF QuietSending, Buf
<1> QED
  BY <1>3, QuietSendingKeeps

(* SetReceiveHandler() and SetCloseHandler()                               *)
LEMMA SetHandlerSends ==
    ASSUME IInv, SInv, NEW c \in Channels, SetReceiveHandler(c) \/ SetCloseHandler(c)
    PROVE  SInv'
<1>1. /\ sends' = sends /\ wire' = wire /\ answered' = answered /\ dropped' = dropped
      /\ conns' = conns /\ stopPosted' = stopPosted /\ pc' = pc
      /\ item' = item /\ queue' = queue
  BY DEF SetReceiveHandler, SetCloseHandler, InUserCode, sendVars, loopVars
<1>2. /\ AskedOnce(queue') /\ (StopIn(queue') => StopIn(queue))
      /\ \A s, o : Asked(queue', s, o) <=> Asked(queue, s, o)
  BY <1>1, QueueAsIt
<1>3. \A d \in Channels : /\ chan'[d].fd = chan[d].fd /\ chan'[d].conn = chan[d].conn
                          /\ chan'[d].handlers = chan[d].handlers
  <2>1. chan \in [Channels -> ChannelState]
    BY DEF IInv, TypeOK
  <2>2. chan[c] \in ChannelState
    BY <2>1
  <2>3. CASE SetReceiveHandler(c)
    <3>1. chan' = [chan EXCEPT ![c].receiver = TRUE]
      BY <2>3 DEF SetReceiveHandler
    <3> QED
      BY <2>1, <2>2, <3>1 DEF ChannelState
  <2>4. CASE SetCloseHandler(c)
    <3>1. chan' = [chan EXCEPT ![c].closer = TRUE, ![c].canceller = 0]
      BY <2>4 DEF SetCloseHandler
    <3> QED
      BY <2>1, <2>2, <3>1 DEF ChannelState
  <2> QED
    BY <2>3, <2>4
<1>4. QuietSending
  BY <1>1, <1>2, <1>3 DEF QuietSending, Buf
<1> QED
  BY <1>4, QuietSendingKeeps

(* close()                                                                 *)
LEMMA CloseSends ==
    ASSUME IInv, SInv, NEW c \in Channels, Close(c)
    PROVE  SInv'
<1>1. /\ sends' = sends /\ wire' = wire /\ answered' = answered /\ dropped' = dropped
      /\ conns' = conns /\ stopPosted' = stopPosted /\ pc' = pc /\ queue' = queue
  BY DEF Close, InUserCode, sendVars, loopVars
<1>2. CASE ~Open(c)
  <2>1. chan' = chan /\ item' = item
    BY <1>2 DEF Close
  <2> QED
    BY <1>1, <2>1, SocketSteps
<1>3. CASE Open(c)
  <2> DEFINE fd == chan[c].fd
  <2>1. /\ chan' = [chan EXCEPT ![c] = ClosedChannel(chan[c].conn, 0)]
        /\ item' = [item EXCEPT ![fd] = ClosedItem(item[fd])]
    BY <1>3 DEF Close
  <2>2. chan \in [Channels -> ChannelState] /\ item \in [Fds -> ItemState \cup {None}]
    BY DEF IInv, TypeOK
  <2>3. chan'[c].handlers = <<>> /\ chan'[c].fd = None
        /\ \A d \in Channels \ {c} : chan'[d] = chan[d]
    BY <2>1, <2>2 DEF ClosedChannel
  <2>4. ASSUME NEW d \in Channels \ {c}, Open(d) PROVE Buf(d)' = Buf(d)
    <3>1. chan[d].fd \in Fds /\ item[chan[d].fd].channel = d /\ item[fd].channel = c
      BY <1>3, <2>4, OpenIs
    <3>2. chan[d].fd # fd
      BY <3>1
    <3>3. item'[chan[d].fd] = item[chan[d].fd]
      BY <2>1, <2>2, <3>1, <3>2
    <3> QED
      BY <2>3, <3>3 DEF Buf
  <2>5. /\ AskedOnce(queue') /\ (StopIn(queue') => StopIn(queue))
        /\ \A s, o : Asked(queue', s, o) <=> Asked(queue, s, o)
    BY <1>1, QueueAsIt
  <2>6. QuietSending
    BY <1>1, <2>3, <2>4, <2>5 DEF QuietSending
  <2> QED
    BY <2>6, QuietSendingKeeps
<1> QED
  BY <1>2, <1>3

(* A new connection has nothing to send and no send before it.             *)
LEMMA ConnectSends ==
    ASSUME IInv, SInv, NEW c \in Channels, NEW fd \in Fds, Connect(c, fd)
    PROVE  SInv'
<1>1. /\ sends' = sends /\ wire' = wire /\ answered' = answered /\ dropped' = dropped
      /\ stopPosted' = stopPosted /\ pc' = pc /\ queue' = queue /\ pc = "user"
      /\ conns' = conns + 1 /\ ~Open(c)
  BY DEF Connect, InUserCode, sendVars, loopVars
<1>2. /\ chan \in [Channels -> ChannelState] /\ item \in [Fds -> ItemState \cup {None}]
      /\ conns \in Nat
  BY BoundsAssumption DEF IInv, TypeOK
<1>3. /\ item' = [item EXCEPT ![fd] = [channel |-> c, blocked |-> TRUE, buffer |-> <<>>]]
      /\ chan' = [chan EXCEPT ![c] =
                   [fd |-> fd, conn |-> conns + 1,
                    receiver |-> chan[c].receiver \/ style # "late",
                    closer |-> chan[c].closer \/ style # "late",
                    handlers |-> chan[c].handlers,
                    canceller |-> IF style = "late" THEN chan[c].canceller
                                  ELSE 0]]
  BY DEF Connect
<1>4. /\ chan'[c].fd = fd /\ chan'[c].conn = conns + 1
      /\ chan'[c].handlers = chan[c].handlers
      /\ \A d \in Channels \ {c} : chan'[d] = chan[d]
  BY <1>2, <1>3
<1>5. /\ item'[fd].buffer = <<>>
      /\ \A f \in Fds \ {fd} : item'[f] = item[f]
  BY <1>2, <1>3
<1>6. chan[c].handlers = <<>>
  BY <1>1 DEF SInv, Handling
<1>7. \A s \in DOMAIN sends : sends[s] # conns + 1
  <2>1. \A s \in DOMAIN sends : sends[s] \in Nat /\ sends[s] <= conns
    BY SendsAre DEF SInv, Wiring, IInv, Conns
  <2> QED
    BY <1>2, <2>1
<1>8. ASSUME NEW d \in Channels \ {c}, Open(d) PROVE Buf(d)' = Buf(d)
  <2>1. chan[d].fd \in Fds /\ kernel[chan[d].fd] # None
    BY <1>8, OpenIs
  <2>2. chan[d].fd # fd
    BY <2>1 DEF Connect
  <2> QED
    BY <1>4, <1>5, <2>1, <2>2 DEF Buf
<1>9. /\ AskedOnce(queue') /\ (StopIn(queue') => StopIn(queue))
      /\ \A s, o : Asked(queue', s, o) <=> Asked(queue, s, o)
  BY <1>1, QueueAsIt
<1>10. StopIn(queue') => stopPosted'
  BY <1>1, <1>9, QueueAsIt
<1>11. ASSUME NEW d \in Channels
       PROVE  \/ chan'[d].handlers = <<>>
              \/ /\ chan'[d].handlers = chan[d].handlers /\ chan'[d].conn = chan[d].conn
                 /\ chan'[d].fd # None \/ pc' \in {"drain", "end"}
  BY <1>1, <1>4, <1>6 DEF SInv, Handling, Open
<1>12. ASSUME NEW d \in Channels, chan'[d].fd # None
       PROVE  \/ /\ Open(d) /\ Buf(d)' = Buf(d)
                 /\ chan'[d].handlers = chan[d].handlers /\ chan'[d].conn = chan[d].conn
              \/ /\ Buf(d)' = <<>> /\ chan'[d].handlers = <<>>
                 /\ \A s \in DOMAIN sends : sends[s] # chan'[d].conn
  <2>1. CASE d = c
    BY <1>4, <1>5, <1>6, <1>7, <2>1 DEF Buf
  <2>2. CASE d # c
    BY <1>4, <1>8, <1>12, <2>2 DEF Open
  <2> QED
    BY <2>1, <2>2
<1>13. conns' \in Nat /\ conns <= conns'
  BY <1>1, <1>2
<1>14. SameSending
  BY <1>1, <1>9, <1>10, <1>11, <1>12, <1>13 DEF SameSending
<1> QED
  BY <1>14, SameSendingKeeps

(* stop()                                                                  *)
LEMMA PostStopSends ==
    ASSUME IInv, SInv, PostStop
    PROVE  SInv'
<1>1. /\ sends' = sends /\ wire' = wire /\ answered' = answered /\ dropped' = dropped
      /\ stopPosted' /\ pc' = pc /\ queue' = Append(queue, Stop)
      /\ conns' = conns /\ chan' = chan /\ item' = item
  BY DEF PostStop, sendVars, loopVars
<1>2. queue \in Seq(Tasks) /\ AskedOnce(queue)
  BY QueueAsIt
<1>3. /\ <<Stop>> \in Seq(Tasks) /\ AskedOnce(<<Stop>>)
      /\ \A s, o : ~Asked(<<Stop>>, s, o)
  <2>1. Stop \in Tasks /\ Stop.is # "sent"
    BY DEF Stop, Tasks
  <2> HIDE DEF Stop
  <2> QED
    BY <2>1 DEF AskedOnce, Asked
<1>4. queue' = queue \o <<Stop>>
  BY <1>1, <1>2
<1>5. AskedOnce(queue') /\ \A s, o : Asked(queue', s, o) <=> Asked(queue, s, o)
  <2> DEFINE r == queue \o <<Stop>>
  <2>1. AskedOnce(r) /\ \A s, o : Asked(r, s, o) <=> Asked(queue, s, o)
    BY <1>2, <1>3, AskedConcat
  <2> HIDE DEF r
  <2> QED
    BY <1>4, <2>1 DEF r
<1>6. conns \in Nat
  BY BoundsAssumption DEF IInv, TypeOK
<1>7. SameSending
  BY <1>1, <1>5, <1>6 DEF SameSending, SInv, Handling, Open, Buf
<1> QED
  BY <1>7, SameSendingKeeps

(* The loop is stopped: no handler is called any more.                     *)
LEMMA RunStopSends ==
    ASSUME IInv, SInv, RunStop
    PROVE  SInv'
<1>1. /\ sends' = sends /\ wire' = wire /\ answered' = answered /\ dropped' = dropped
      /\ stopPosted' = stopPosted /\ pc' = "drain" /\ queue' = <<>> /\ conns' = conns
  BY DEF RunStop, Take
<1>2. stopPosted
  <2>1. queue \in Seq(Tasks) /\ queue # <<>> /\ AskedOnce(queue) /\ Head(queue).is = "stop"
    BY QueueAsIt DEF RunStop, Take, IInv, LoopShape
  <2>2. StopIn(queue)
    BY <2>1, AskedTail
  <2> QED
    BY <2>2, QueueAsIt
<1>3. \A c \in Channels : /\ chan'[c].fd = None /\ chan'[c].conn = chan[c].conn
                          /\ chan'[c].handlers = chan[c].handlers
  <2>1. chan \in [Channels -> ChannelState]
    BY DEF IInv, TypeOK
  <2>2. chan' = [c \in Channels |-> [chan[c] EXCEPT !.fd = None]]
    BY DEF RunStop
  <2> SUFFICES ASSUME NEW c \in Channels
               PROVE  /\ chan'[c].fd = None /\ chan'[c].conn = chan[c].conn
                      /\ chan'[c].handlers = chan[c].handlers
    OBVIOUS
  <2>3. chan[c] \in ChannelState /\ chan'[c] = [chan[c] EXCEPT !.fd = None]
    BY <2>1, <2>2
  <2> QED
    BY <2>3 DEF ChannelState
<1>4. AskedOnce(queue') /\ ~StopIn(queue') /\ \A s, o : ~Asked(queue', s, o)
  <2>1. \A i \in 1..Len(queue') : FALSE
    BY <1>1
  <2> QED
    BY <2>1 DEF AskedOnce, StopIn, Asked
<1>5. conns \in Nat
  BY BoundsAssumption DEF IInv, TypeOK
<1>6. SameSending
  BY <1>1, <1>2, <1>3, <1>4, <1>5 DEF SameSending
<1> QED
  BY <1>6, SameSendingKeeps

(* A socket that only closes is ended.                                     *)
LEMMA EndedSends ==
    ASSUME IInv, SInv, NEW fds \in SUBSET Fds, \A fd \in fds : ~Active(fd), Release(fds),
           UNCHANGED <<chan, queue, sends, wire, answered, dropped, conns, stopPosted>>,
           pc \in {"drain", "end"} => pc' \in {"drain", "end"}
    PROVE  SInv'
<1>1. ASSUME NEW d \in Channels, Open(d) PROVE Buf(d)' = Buf(d)
  <2>1. chan[d].fd \in Fds /\ Active(chan[d].fd)
    BY <1>1, OpenIs
  <2>2. item'[chan[d].fd] = item[chan[d].fd]
    BY <2>1 DEF Release
  <2> QED
    BY <2>2 DEF Buf
<1>2. /\ AskedOnce(queue') /\ (StopIn(queue') => StopIn(queue))
      /\ \A s, o : Asked(queue', s, o) <=> Asked(queue, s, o)
  BY QueueAsIt
<1>3. QuietSending
  BY <1>1, <1>2 DEF QuietSending
<1> QED
  BY <1>3, QuietSendingKeeps

(* ServeCloseClosing(), CloseTimeout() and DrainTimeout()                  *)
LEMMA EndingSends ==
    ASSUME IInv, SInv, Stopped,
           \/ \E fd \in Fds : ServeCloseClosing(fd) \/ CloseTimeout(fd)
           \/ DrainTimeout
    PROVE  SInv'
<1>1. ASSUME NEW fd \in Fds, ServeCloseClosing(fd) PROVE SInv'
  <2>1. ~Active(fd) /\ Release({fd})
    BY <1>1 DEF ServeCloseClosing, Closing, Active
  <2>2. UNCHANGED <<chan, queue, sends, wire, answered, dropped, conns, stopPosted, pc>>
    BY <1>1 DEF ServeCloseClosing, Serve
  <2> QED
    BY <2>1, <2>2, EndedSends
<1>2. ASSUME NEW fd \in Fds, CloseTimeout(fd) PROVE SInv'
  <2>1. ~Active(fd) /\ Release({fd}) /\ pc \notin {"drain", "end"}
    BY <1>2 DEF CloseTimeout, IInv, SocketOwners, Closing, Active, Served, Quiet
  <2>2. UNCHANGED <<chan, queue, sends, wire, answered, dropped, conns, stopPosted>>
    BY <1>2 DEF CloseTimeout, sendVars
  <2> QED
    BY <2>1, <2>2, EndedSends
<1>3. CASE DrainTimeout
  <2>1. \A fd \in Fds : ~Active(fd)
    <3> SUFFICES ASSUME NEW fd \in Fds, Active(fd) PROVE FALSE
      OBVIOUS
    <3> DEFINE c == item[fd].channel
    <3>1. c \in Channels
      BY DEF IInv, TypeOK, Active, ItemState
    <3>2. chan[c].fd = fd /\ fd # None
      BY NoneAssumption DEF IInv, SocketOwners
    <3>3. ~Open(c)
      BY <1>3, <3>1 DEF DrainTimeout, Drained, Stopped
    <3> QED
      BY <3>2, <3>3 DEF Open
  <2>2. Release(Items) /\ Items \in SUBSET Fds
    BY <1>3 DEF DrainTimeout, Items
  <2>3. UNCHANGED <<chan, queue, sends, wire, answered, dropped, conns, stopPosted, pc>>
    BY <1>3 DEF DrainTimeout, sendVars, loopVars
  <2> QED
    BY <2>1, <2>2, <2>3, EndedSends
<1> QED
  BY <1>1, <1>2, <1>3

(* ServeRead()                                                             *)
LEMMA ServeReadSends ==
    ASSUME IInv, SInv, NEW fd \in Fds, ServeRead(fd)
    PROVE  SInv'
<1>1. UNCHANGED <<chan, item, sends, wire, answered, dropped, conns, stopPosted, pc>>
  BY DEF ServeRead, Serve
<1>2. queue \in Seq(Tasks) /\ AskedOnce(queue)
  BY QueueAsIt
<1>3. CASE queue' = queue
  BY <1>1, <1>3, SocketSteps
<1>4. CASE Active(fd) /\ queue' = Posted(queue, <<Received(item[fd].channel)>>)
  <2> DEFINE t == Received(item[fd].channel)
             p == Posted(queue, <<t>>)
  <2>1. t \in Tasks /\ t.is = "receive"
    BY <1>4 DEF IInv, TypeOK, ItemState, Active, Received, Tasks, Task
  <2> HIDE DEF t
  <2>2. <<t>> \in Seq(Tasks) /\ \A i \in 1..Len(<<t>>) : <<t>>[i].is \notin {"sent", "stop"}
    BY <2>1
  <2>3. /\ AskedOnce(p) /\ (StopIn(p) => StopIn(queue))
        /\ \A s, o : Asked(p, s, o) <=> Asked(queue, s, o)
    BY <1>2, <2>2, OthersPosted
  <2>4. queue' = p
    BY <1>4 DEF t
  <2> HIDE DEF p
  <2>5. QuietSending
    BY <1>1, <2>3, <2>4 DEF QuietSending, Buf
  <2> QED
    BY <2>5, QuietSendingKeeps
<1> QED
  BY <1>3, <1>4 DEF ServeRead

(* The open channel of an item                                             *)
LEMMA ActiveIs ==
    ASSUME IInv, NEW fd \in Fds, Active(fd)
    PROVE  /\ item[fd].channel \in Channels /\ Open(item[fd].channel)
           /\ chan[item[fd].channel].fd = fd /\ item[fd] \in ItemState
<1>1. item[fd] \in ItemState /\ item[fd].channel # None
  BY DEF IInv, TypeOK, Active
<1>2. item[fd].channel \in Channels
  BY <1>1 DEF ItemState
<1>3. chan[item[fd].channel].fd = fd
  BY DEF IInv, SocketOwners
<1>4. fd # None
  BY NoneAssumption
<1> QED
  BY <1>1, <1>2, <1>3, <1>4 DEF Open

(* What is known of an open channel                                        *)
LEMMA ChannelSends ==
    ASSUME IInv, SInv, NEW c \in Channels, Open(c)
    PROVE  /\ chan[c].handlers \in Seq(Sends) /\ Buf(c) \in Seq(Sends)
           /\ HandlersFor(chan[c].handlers, chan[c].conn, sends)
           /\ Queued(Buf(c), chan[c].handlers, chan[c].conn, sends)
<1>1. chan[c] \in ChannelState /\ item[chan[c].fd] \in ItemState
  BY OpenIs DEF IInv, TypeOK
<1> QED
  BY <1>1 DEF ChannelState, ItemState, Buf, SInv, Handling, Buffers

(* The first k handlers of a channel are called.                           *)
LEMMA AnswersCall ==
    ASSUME IInv, SInv, NEW c \in Channels, NEW hs \in Seq(Sends), NEW n, NEW sd,
           HandlersFor(hs, n, sd), NEW k \in Nat, NEW o \in Outcomes
    PROVE  LET p == Posted(queue, Answers(c, hs, k, o)) IN
           /\ p \in Seq(Tasks) /\ AskedOnce(p) /\ (StopIn(p) => StopIn(queue))
           /\ \A s, x : Asked(p, s, x) <=>
                 \/ Asked(queue, s, x)
                 \/ ~stopPosted /\ x = o /\ \E i \in 1..Len(hs) : i <= k /\ hs[i] = s
<1>1. queue \in Seq(Tasks) /\ AskedOnce(queue)
  BY QueueAsIt
<1>2. \A i \in 1..Len(hs), x \in Outcomes : ~Asked(queue, hs[i], x)
  <2>1. \A i \in 1..Len(hs) : hs[i] \in ToSet(hs)
    BY ToSetIs
  <2> QED
    BY <2>1 DEF HandlersFor, Waits
<1>3. Rising(hs)
  BY DEF HandlersFor
<1> QED
  BY <1>1, <1>2, <1>3, AnswersPosted

(* A channel without messages, and none sent                               *)
LEMMA NoMessages ==
    /\ Messages(<<>>) = 0 /\ <<>> \in Seq(Sends)
    /\ \A b \in Seq(Sends) : /\ Messages(b) \in Nat
                             /\ Messages(b) - Messages(<<>>) = Messages(b)
                             /\ b = <<>> \o b
<1>1. ToSet(<<>>) = {}
  BY DEF ToSet
<1>2. Messages(<<>>) = 0
  BY <1>1, FS_EmptySet DEF Messages
<1>3. ASSUME NEW b \in Seq(Sends) PROVE Messages(b) \in Nat
  <2>1. Messages(b) \in Nat /\ Whole(b, 0) \in Nat
    BY WholeNat
  <2> QED
    BY <2>1
<1>4. \A b \in Seq(Sends) : b = <<>> \o b
  OBVIOUS
<1> QED
  BY <1>2, <1>3, <1>4

(* Answer() for a channel, of which the others see nothing                 *)
LEMMA AnswerSends ==
    ASSUME IInv, SInv, NEW c \in Channels, NEW hs \in Seq(Sends), NEW n, NEW sd,
           HandlersFor(hs, n, sd), NEW k \in Nat, NEW o \in Outcomes,
           Answer(c, hs, k, o)
    PROVE  /\ Calls(hs, k, o)
           /\ chan'[c].handlers = SubSeq(hs, k + 1, Len(hs))
           /\ chan'[c].fd = chan[c].fd /\ chan'[c].conn = chan[c].conn
           /\ \A d \in Channels \ {c} : chan'[d] = chan[d]
<1> DEFINE p == Posted(queue, Answers(c, hs, k, o))
           rest == SubSeq(hs, k + 1, Len(hs))
<1>1. /\ AskedOnce(p) /\ (StopIn(p) => StopIn(queue))
      /\ \A s, x : Asked(p, s, x) <=>
            \/ Asked(queue, s, x)
            \/ ~stopPosted /\ x = o /\ \E i \in 1..Len(hs) : i <= k /\ hs[i] = s
  BY AnswersCall
<1>2. queue' = p /\ chan' = [chan EXCEPT ![c].handlers = rest]
  BY DEF Answer
<1> HIDE DEF p, rest
<1>3. Calls(hs, k, o)
  BY <1>1, <1>2 DEF Calls
<1>4. chan \in [Channels -> ChannelState] /\ chan[c] \in ChannelState
  BY DEF IInv, TypeOK
<1>5. /\ chan'[c].handlers = rest
      /\ chan'[c].fd = chan[c].fd /\ chan'[c].conn = chan[c].conn
      /\ \A d \in Channels \ {c} : chan'[d] = chan[d]
  BY <1>2, <1>4 DEF ChannelState
<1> QED
  BY <1>3, <1>5 DEF rest

(* The items of the other channels are other items.                        *)
LEMMA OthersKept ==
    ASSUME IInv, NEW c \in Channels, Open(c),
           \A d \in Channels \ {c} : chan'[d] = chan[d],
           \A f \in Fds \ {chan[c].fd} : item'[f] = item[f]
    PROVE  OthersKeep(c)
<1> SUFFICES ASSUME NEW d \in Channels \ {c}, Open(d) PROVE Buf(d)' = Buf(d)
  BY DEF OthersKeep, Open
<1>1. chan[d].fd \in Fds /\ item[chan[d].fd].channel = d /\ item[chan[c].fd].channel = c
  BY OpenIs
<1>2. item'[chan[d].fd] = item[chan[d].fd]
  BY <1>1
<1> QED
  BY <1>2 DEF Buf

(* tryTcpSend for a channel with something to send                         *)
LEMMA TrySendSends ==
    ASSUME IInv, IInv', SInv, NEW c \in Channels, Open(c),
           NEW it \in ItemState, it.channel = c, it.buffer # <<>>,
           NEW more \in Seq(Sends), TrySend(chan[c].fd, it, more),
           NEW hs, hs = chan[c].handlers \o more,
           HandlersFor(hs, chan[c].conn, sends'),
           Queued(it.buffer, hs, chan[c].conn, sends'),
           MoreSends(chan[c].conn),
           UNCHANGED <<dropped, answered, stopPosted, conns, pc>>
    PROVE  SInv'
<1> DEFINE fd == chan[c].fd
           b  == it.buffer
           n  == chan[c].conn
<1>1. /\ fd \in Fds /\ b \in Seq(Sends) /\ hs \in Seq(Sends) /\ Len(b) \in Nat
      /\ item \in [Fds -> ItemState \cup {None}]
  BY OpenIs, ChannelSends, LenProperties, ConcatProperties DEF ItemState, IInv, TypeOK
<1>2. ASSUME NEW after \in Seq(Sends), NEW blocked,
             item' = [item EXCEPT ![fd] =
                         [channel |-> c, blocked |-> blocked, buffer |-> after]]
      PROVE  /\ item'[fd].buffer = after
             /\ \A f \in Fds \ {fd} : item'[f] = item[f]
  BY <1>1, <1>2
<1>3. CASE Broken(kernel[fd])
  <2> DEFINE k == Messages(b)
  <2>1. k \in Nat /\ k = Messages(b) - Messages(<<>>) /\ b = <<>> \o b /\ <<>> \in Seq(Sends)
    BY <1>1, NoMessages
  <2>2. /\ item' = [item EXCEPT ![fd] =
                       [channel |-> c, blocked |-> it.blocked, buffer |-> <<>>]]
        /\ Answer(c, hs, k, "error") /\ wire' = wire
    BY <1>3 DEF TrySend
  <2> HIDE DEF k
  <2>3. item'[fd].buffer = <<>> /\ \A f \in Fds \ {fd} : item'[f] = item[f]
    BY <1>2, <2>1, <2>2
  <2>4. "error" \in Outcomes
    BY DEF Outcomes
  <2>5. /\ Calls(hs, k, "error")
        /\ chan'[c].handlers = SubSeq(hs, k + 1, Len(hs))
        /\ chan'[c].fd = chan[c].fd /\ chan'[c].conn = n
        /\ \A d \in Channels \ {c} : chan'[d] = chan[d]
    BY <1>1, <2>1, <2>2, <2>4, AnswerSends
  <2>6. OthersKeep(c)
    BY <2>3, <2>5, OthersKept
  <2>7. Buf(c)' = <<>> /\ chan'[c].fd # None
    BY <2>3, <2>5 DEF Buf, Open
  <2>8. wire' = wire \o <<>>
    <3>1. wire \in Seq(Sends)
      BY DEF IInv, TypeOK
    <3> QED
      BY <2>2, <3>1
  <2> HIDE DEF b, n, fd
  <2>9. HandlersFor(hs, n, sends') /\ Queued(b, hs, n, sends') /\ MoreSends(n) /\ n = chan[c].conn
    BY DEF b, n
  <2> QED
    BY <1>1, <2>1, <2>4, <2>5, <2>6, <2>7, <2>8, <2>9, MoveKeeps
<1>4. CASE ~Broken(kernel[fd])
  <2>1. PICK m \in Takes(kernel[fd].room, Len(b)) :
           /\ item' = [item EXCEPT ![fd] =
                          [channel |-> c,
                           blocked |-> m < Len(b) /\ (m = 0 \/ b[m] # b[m + 1]),
                           buffer  |-> SubSeq(b, m + 1, Len(b))]]
           /\ Answer(c, hs, Whole(b, m), "ok")
           /\ wire' = wire \o SubSeq(b, 1, m)
    BY <1>4 DEF TrySend
  <2> DEFINE pre  == SubSeq(b, 1, m)
             rest == SubSeq(b, m + 1, Len(b))
             k    == Whole(b, m)
  <2>2. m \in 0..Len(b) /\ m \in Nat
    BY <1>1 DEF Takes
  <2>3. pre \in Seq(Sends) /\ rest \in Seq(Sends) /\ b = pre \o rest
    BY <1>1, <2>2, Halves
  <2>4. k \in Nat /\ k = Messages(b) - Messages(rest)
    BY <1>1, <2>2, WholeNat DEF Whole
  <2> HIDE DEF pre, rest, k
  <2>5. /\ \E blocked : item' = [item EXCEPT ![fd] =
                          [channel |-> c, blocked |-> blocked, buffer |-> rest]]
        /\ Answer(c, hs, k, "ok") /\ wire' = wire \o pre
    BY <2>1 DEF pre, rest, k
  <2>6. item'[fd].buffer = rest /\ \A f \in Fds \ {fd} : item'[f] = item[f]
    BY <1>2, <2>3, <2>5
  <2>7. "ok" \in Outcomes
    BY DEF Outcomes
  <2>8. /\ Calls(hs, k, "ok")
        /\ chan'[c].handlers = SubSeq(hs, k + 1, Len(hs))
        /\ chan'[c].fd = chan[c].fd /\ chan'[c].conn = n
        /\ \A d \in Channels \ {c} : chan'[d] = chan[d]
    BY <1>1, <2>4, <2>5, <2>7, AnswerSends
  <2>9. OthersKeep(c)
    BY <2>6, <2>8, OthersKept
  <2>10. Buf(c)' = rest /\ chan'[c].fd # None
    BY <2>6, <2>8 DEF Buf, Open
  <2> HIDE DEF b, n, fd
  <2>11. HandlersFor(hs, n, sends') /\ Queued(b, hs, n, sends') /\ MoreSends(n) /\ n = chan[c].conn
    BY DEF b, n
  <2> QED
    BY <1>1, <2>3, <2>4, <2>5, <2>7, <2>8, <2>9, <2>10, <2>11, MoveKeeps
<1> QED
  BY <1>3, <1>4

(* What a send adds to the end                                             *)
LEMMA EnqueueSends ==
    ASSUME IInv, SInv, NEW c \in Channels, Open(c), Send(c),
           NEW s, s = Len(sends) + 1,
           NEW b, b = Enqueue(Buf(c), s),
           NEW hs, hs = chan[c].handlers \o <<s>>
    PROVE  /\ s \in Sends /\ b \in Seq(Sends) /\ hs \in Seq(Sends) /\ b # <<>>
           /\ HandlersFor(hs, chan[c].conn, sends')
           /\ Queued(b, hs, chan[c].conn, sends')
           /\ MoreSends(chan[c].conn)
<1> DEFINE n  == chan[c].conn
           hd == chan[c].handlers
           bf == Buf(c)
           u  == [i \in 1..Size |-> s]
<1>1. /\ hd \in Seq(Sends) /\ bf \in Seq(Sends)
      /\ HandlersFor(hd, n, sends) /\ Queued(bf, hd, n, sends)
  BY ChannelSends
<1>2. /\ s \in Sends /\ Len(sends) \in Nat /\ sends' \in Seq(Conns)
      /\ sends' = Append(sends, n) /\ Len(sends') = s
  BY NextSend
<1>3. /\ DOMAIN sends = 1..Len(sends) /\ DOMAIN sends' = 1..s
      /\ \A x \in DOMAIN sends : sends'[x] = sends[x]
      /\ sends'[s] = n /\ s \in DOMAIN sends'
      /\ \A x \in DOMAIN sends' : x = s \/ x \in DOMAIN sends
      /\ \A x \in DOMAIN sends : x \in Nat /\ x < s
  <2>1. sends \in Seq(Conns) /\ n \in Conns
    BY NextSend DEF IInv, TypeOK
  <2>2. /\ DOMAIN sends = 1..Len(sends) /\ DOMAIN sends' = 1..s
    BY <1>2, <2>1, LenProperties
  <2>3. \A x \in 1..Len(sends) : sends'[x] = sends[x]
    BY <1>2, <2>1, AppendProperties
  <2>4. sends'[s] = n
    BY <1>2, <2>1, AppendProperties
  <2> QED
    BY <1>2, <2>2, <2>3, <2>4
<1>4. /\ u \in Seq(Sends) /\ \A x : Units(u, x) = IF x = s THEN Size ELSE 0
  BY <1>2, UnitsMessage
<1>5. Size \in Nat /\ Size > 0
  BY BoundsAssumption
<1>6. b = bf \o u /\ b \in Seq(Sends)
  <2>1. b = bf \o u
    BY DEF Enqueue
  <2> HIDE DEF bf, u
  <2> QED
    BY <1>1, <1>4, <2>1, ConcatProperties
<1>7. \A x : Units(b, x) = Units(bf, x) + Units(u, x)
  <2> HIDE DEF bf, u
  <2>1. bf \in Seq(Sends) /\ u \in Seq(Sends)
    BY <1>1, <1>4
  <2>2. \A x : Units(bf \o u, x) = Units(bf, x) + Units(u, x)
    BY ONLY <2>1, UnitsConcat
  <2>3. b = bf \o u
    BY <1>6
  <2> QED
    BY ONLY <2>2, <2>3
<1>8. \A x \in Nat, w \in Seq(Sends) : Units(w, x) \in Nat /\ (Units(w, x) > 0 <=> x \in ToSet(w))
  BY UnitsNat
<1>9. \A x \in Sends : x \in Nat
  BY DEF Sends
<1>10. ToSet(b) \subseteq Sends /\ ToSet(bf) \subseteq Sends /\ ToSet(u) \subseteq Sends
  BY <1>1, <1>4, <1>6, ToSetIs
<1> HIDE DEF n, hd, bf, u
<1>11. \A x \in Sends : x \in ToSet(b) <=> x \in ToSet(bf) \/ x = s
  <2> SUFFICES ASSUME NEW x \in Sends PROVE x \in ToSet(b) <=> x \in ToSet(bf) \/ x = s
    OBVIOUS
  <2>1. /\ Units(b, x) \in Nat /\ (Units(b, x) > 0 <=> x \in ToSet(b))
        /\ Units(bf, x) \in Nat /\ (Units(bf, x) > 0 <=> x \in ToSet(bf))
    BY <1>1, <1>6, <1>8, <1>9
  <2>2. Units(b, x) = Units(bf, x) + (IF x = s THEN Size ELSE 0)
    BY <1>4, <1>7
  <2> QED
    BY ONLY <1>5, <2>1, <2>2
<1>12. /\ ToSet(b) = ToSet(bf) \cup {s}
  BY <1>2, <1>10, <1>11
<1>13. b # <<>>
  BY <1>12, SMTT(30) DEF ToSet
<1>14. /\ hs \in Seq(Sends) /\ ToSet(hs) = ToSet(hd) \cup {s}
       /\ \A i \in 1..Len(hs) : \/ i \in 1..Len(hd) /\ hs[i] = hd[i]
                                \/ i = Len(hd) + 1 /\ hs[i] = s
       /\ Len(hd) \in Nat
  <2>1. <<s>> \in Seq(Sends) /\ Len(<<s>>) = 1 /\ <<s>>[1] = s
    BY <1>2
  <2> DEFINE o == <<s>>
  <2>2. o \in Seq(Sends) /\ Len(o) = 1 /\ o[1] = s /\ hs = hd \o o
    BY <2>1 DEF hd
  <2> HIDE DEF o
  <2>3. /\ hs \in Seq(Sends)
        /\ \A i \in 1..Len(hs) :
              \/ i \in 1..Len(hd) /\ hs[i] = hd[i]
              \/ i - Len(hd) \in 1..Len(o) /\ hs[i] = o[i - Len(hd)]
        /\ \A i \in 1..Len(hd) : i \in 1..Len(hs) /\ hs[i] = hd[i]
        /\ \A i \in 1..Len(o) : /\ i + Len(hd) \in 1..Len(hs)
                                /\ hs[i + Len(hd)] = o[i]
    <3>1. hd \in Seq(Sends) /\ o \in Seq(Sends) /\ hs = hd \o o
      BY <1>1, <2>2
    <3> QED
      BY ONLY <3>1, Joined
  <2>4. Len(hd) \in Nat /\ Len(hs) \in Nat
    BY <1>1, <2>3, LenProperties
  <2>5. \A i \in 1..Len(hs) : \/ i \in 1..Len(hd) /\ hs[i] = hd[i]
                              \/ i = Len(hd) + 1 /\ hs[i] = s
    <3> SUFFICES ASSUME NEW i \in 1..Len(hs), i - Len(hd) \in 1..Len(o), hs[i] = o[i - Len(hd)]
                 PROVE  i = Len(hd) + 1 /\ hs[i] = s
      BY <2>3
    <3>1. i - Len(hd) = 1
      BY <2>2
    <3> QED
      BY <2>2, <2>4, <3>1
  <2>6. Len(hd) + 1 \in 1..Len(hs) /\ hs[Len(hd) + 1] = s
    <3>1. 1 \in 1..Len(o) /\ 1 + Len(hd) = Len(hd) + 1
      BY <2>2, <2>4
    <3> QED
      BY <2>2, <2>3, <3>1
  <2>7. /\ \A x : x \in ToSet(hs) <=> \E i \in 1..Len(hs) : hs[i] = x
        /\ \A x : x \in ToSet(hd) <=> \E i \in 1..Len(hd) : hd[i] = x
    <3>1. hd \in Seq(Sends) /\ hs \in Seq(Sends)
      BY <1>1, <2>3
    <3> QED
      BY ONLY <3>1, ToSetIs
  <2>8. \A x \in ToSet(hs) : x \in ToSet(hd) \/ x = s
    BY <2>5, <2>7, SMTT(30)
  <2>9. \A x \in ToSet(hd) : x \in ToSet(hs)
    BY <2>3, <2>7, SMTT(30)
  <2>10. s \in ToSet(hs)
    BY <2>6, <2>7
  <2> QED
    BY <2>3, <2>4, <2>5, <2>8, <2>9, <2>10
(* The handlers                                                            *)
<1>15. \A x \in ToSet(hd) : x \in DOMAIN sends /\ sends[x] = n /\ Waits(x)
  BY <1>1 DEF HandlersFor
<1>16. Rising(hs)
  <2> SUFFICES ASSUME NEW i \in 1..Len(hs), NEW j \in 1..Len(hs), i < j PROVE hs[i] < hs[j]
    BY DEF Rising
  <2>1. i \in 1..Len(hd) /\ hs[i] = hd[i]
    BY <1>14, SMTT(30)
  <2>2. CASE j \in 1..Len(hd) /\ hs[j] = hd[j]
    BY <1>1, <2>1, <2>2 DEF HandlersFor, Rising
  <2>3. CASE hs[j] = s
    <3>1. hd[i] \in ToSet(hd)
      BY <1>1, <2>1, ToSetIs
    <3> QED
      BY <1>3, <1>15, <2>1, <2>3, <3>1
  <2> QED
    BY <1>14, <2>2, <2>3
<1>17. Waits(s)
  BY <1>2, <1>3 DEF SInv, Answering
<1>18. HandlersFor(hs, n, sends')
  BY <1>3, <1>14, <1>15, <1>16, <1>17 DEF HandlersFor
<1>19. MoreSends(n)
  BY <1>3 DEF MoreSends
(* The buffer                                                              *)
<1>20. \A x \in ToSet(bf) : x \in DOMAIN sends /\ x \in ToSet(hd)
  BY <1>1, <1>15 DEF Queued
<1>21. Sorted(b)
  <2> SUFFICES ASSUME NEW i \in 1..Len(b), NEW j \in 1..Len(b), i < j PROVE b[i] <= b[j]
    BY DEF Sorted
  <2>1. /\ \A m \in 1..Len(b) : \/ m \in 1..Len(bf) /\ b[m] = bf[m]
                                \/ m - Len(bf) \in 1..Len(u) /\ b[m] = u[m - Len(bf)]
        /\ Len(bf) \in Nat /\ Len(u) = Size /\ \A m \in 1..Size : u[m] = s
    <3>1. Len(u) = Size /\ \A m \in 1..Size : u[m] = s
      BY <1>5 DEF u
    <3>2. bf \in Seq(Sends) /\ u \in Seq(Sends) /\ b = bf \o u
      BY <1>1, <1>4, <1>6
    <3>3. /\ b \in Seq(Sends)
          /\ \A m \in 1..Len(b) :
                \/ m \in 1..Len(bf) /\ b[m] = bf[m]
                \/ m - Len(bf) \in 1..Len(u) /\ b[m] = u[m - Len(bf)]
          /\ \A m \in 1..Len(bf) : m \in 1..Len(b) /\ b[m] = bf[m]
          /\ \A m \in 1..Len(u) : /\ m + Len(bf) \in 1..Len(b)
                                  /\ b[m + Len(bf)] = u[m]
      BY ONLY <3>2, Joined
    <3> QED
      BY <3>1, <3>2, <3>3, LenProperties
  <2>2. CASE j \in 1..Len(bf) /\ b[j] = bf[j]
    <3>1. i \in 1..Len(bf) /\ b[i] = bf[i]
      BY <2>1, <2>2
    <3> QED
      BY <1>1, <2>2, <3>1 DEF Queued, Sorted
  <2>3. CASE b[j] = s
    <3>1. b[i] \in ToSet(b)
      BY <1>6, ToSetIs
    <3>2. b[i] = s \/ b[i] \in DOMAIN sends
      BY <1>12, <1>20, <3>1
    <3> QED
      BY <1>2, <1>3, <1>9, <2>3, <3>2
  <2> QED
    BY <2>1, <2>2, <2>3
<1>22. /\ ToSet(wire) \subseteq DOMAIN sends /\ dropped \subseteq DOMAIN sends
       /\ \A x : UnitsOut(x) \in Nat /\ (UnitsOut(x) > 0 <=> x \in ToSet(wire))
  BY SendsAre DEF IInv, SInv, Wiring
<1>23. ASSUME NEW t \in ToSet(b)
       PROVE  /\ UnitsOut(t) + Units(b, t) = Size
              /\ \A x \in ToSet(wire) : sends[x] = n => x <= t
              /\ \A r \in dropped : sends[r] = n => r < t
  <2>1. CASE t = s
    <3>1. s \notin DOMAIN sends /\ s \notin ToSet(bf) /\ s \notin ToSet(wire)
      BY <1>3, <1>20, <1>22
    <3>2. UnitsOut(s) = 0 /\ Units(bf, s) = 0
      BY <1>1, <1>2, <1>8, <1>9, <1>22, <3>1
    <3>3. Units(b, s) = Size
      BY <1>4, <1>5, <1>7, <3>2
    <3> QED
      BY <1>2, <1>3, <1>5, <1>9, <1>22, <2>1, <3>2, <3>3
  <2>2. CASE t # s
    <3>1. t \in ToSet(bf)
      BY <1>12, <2>2
    <3>2. Units(u, t) = 0 /\ Units(b, t) = Units(bf, t) /\ UnitsOut(t) + Units(bf, t) = Size
      <4>1. Units(bf, t) \in Nat
        BY <1>1, <1>8, <1>9, <1>10, <3>1
      <4> QED
        BY <1>1, <1>4, <1>7, <2>2, <3>1, <4>1 DEF Queued
    <3> QED
      BY <1>1, <3>1, <3>2 DEF Queued
  <2> QED
    BY <2>1, <2>2
<1>24. Queued(b, hs, n, sends')
  <2>1. ToSet(b) \subseteq ToSet(hs)
    BY <1>12, <1>14, <1>20
  <2>2. (\A r \in dropped : sends[r] # n) => ToSet(hs) \subseteq ToSet(b)
    <3>1. (\A r \in dropped : sends[r] # n) => ToSet(hd) \subseteq ToSet(bf)
      BY <1>1 DEF Queued
    <3> QED
      BY <1>12, <1>14, <3>1
  <2>3. ~stopPosted =>
          \A x \in DOMAIN sends' :
             sends'[x] = n => x \in ToSet(b) \/ (x \in DOMAIN sends /\ Settled(x))
    <3> SUFFICES ASSUME ~stopPosted, NEW x \in DOMAIN sends', sends'[x] = n, x \notin ToSet(b)
                 PROVE  x \in DOMAIN sends /\ Settled(x)
      OBVIOUS
    <3>1. x \in DOMAIN sends /\ sends[x] = n /\ x \notin ToSet(bf)
      BY <1>3, <1>12
    <3> QED
      BY <1>1, <3>1 DEF Queued
  <2> QED
    BY <1>21, <1>23, <2>1, <2>2, <2>3 DEF Queued
<1> QED
  BY <1>2, <1>6, <1>13, <1>14, <1>18, <1>19, <1>24 DEF n

(* send with a handler                                                     *)
LEMMA SendSends ==
    ASSUME IInv, IInv', SInv, NEW c \in Channels, Send(c)
    PROVE  SInv'
<1> DEFINE fd == chan[c].fd
           n  == chan[c].conn
           hd == chan[c].handlers
<1>1. /\ Open(c) /\ pc' = pc /\ stopPosted' = stopPosted /\ conns' = conns
      /\ answered' = answered /\ dropped' = dropped
  BY DEF Send, InUserCode, loopVars
<1>2. PICK s : s = Len(sends) + 1
  OBVIOUS
<1>3. PICK b : b = Enqueue(Buf(c), s)
  OBVIOUS
<1>4. PICK hs : hs = hd \o <<s>>
  OBVIOUS
<1>5. /\ s \in Sends /\ b \in Seq(Sends) /\ hs \in Seq(Sends) /\ b # <<>>
      /\ HandlersFor(hs, n, sends') /\ Queued(b, hs, n, sends') /\ MoreSends(n)
  BY <1>1, <1>2, <1>3, <1>4, EnqueueSends
<1>6. /\ fd \in Fds /\ item[fd] \in ItemState /\ item[fd].channel = c
      /\ item \in [Fds -> ItemState \cup {None}]
      /\ chan \in [Channels -> ChannelState]
      /\ hd \in Seq(Sends)
  BY <1>1, OpenIs, ChannelSends DEF IInv, TypeOK
<1>7. PICK it : it = [item[fd] EXCEPT !.buffer = b]
  OBVIOUS
<1>8. it \in ItemState /\ it.channel = c /\ it.buffer = b /\ it.blocked = item[fd].blocked
  <2>1. \A x \in Seq(Sends) : [item[fd] EXCEPT !.buffer = x] \in ItemState
    BY <1>6 DEF ItemState
  <2>2. it \in ItemState
    BY <1>5, <1>7, <2>1, Zenon
  <2>3. \A x : /\ [item[fd] EXCEPT !.buffer = x].channel = item[fd].channel
               /\ [item[fd] EXCEPT !.buffer = x].buffer = x
               /\ [item[fd] EXCEPT !.buffer = x].blocked = item[fd].blocked
    BY <1>6 DEF ItemState
  <2> QED
    BY <1>6, <1>7, <2>2, <2>3
<1>9. IF it.blocked
      THEN /\ item' = [item EXCEPT ![fd] = it]
           /\ chan' = [chan EXCEPT ![c].handlers = Append(hd, s)]
           /\ UNCHANGED <<kernel, queue, wire>>
      ELSE TrySend(fd, it, <<s>>)
  BY <1>2, <1>3, <1>7 DEF Send, Buf
<1>10. CASE ~it.blocked
  <2>1. TrySend(fd, it, <<s>>) /\ <<s>> \in Seq(Sends)
    BY <1>5, <1>9, <1>10
  <2>2. it.buffer # <<>> /\ Queued(it.buffer, hs, n, sends')
    BY <1>5, <1>8
  <2> QED
    BY <1>1, <1>4, <1>5, <1>8, <2>1, <2>2, TrySendSends
<1>11. CASE it.blocked
  <2>1. /\ item' = [item EXCEPT ![fd] = it]
        /\ chan' = [chan EXCEPT ![c].handlers = Append(hd, s)]
        /\ queue' = queue /\ wire' = wire
    BY <1>9, <1>11
  <2>2. Append(hd, s) = hs
    BY <1>4, <1>5, <1>6
  <2>3. /\ item'[fd] = it /\ \A f \in Fds \ {fd} : item'[f] = item[f]
        /\ chan'[c].handlers = hs /\ chan'[c].fd = fd /\ chan'[c].conn = n
        /\ \A d \in Channels \ {c} : chan'[d] = chan[d]
    <3>1. chan[c] \in ChannelState /\ chan' = [chan EXCEPT ![c].handlers = hs]
      BY <1>6, <2>1, <2>2
    <3> QED
      BY <1>6, <2>1, <3>1 DEF ChannelState
  <2>4. OthersKeep(c)
    BY <1>1, <2>3, OthersKept
  <2>5. Buf(c)' = b /\ chan'[c].fd # None
    BY <1>1, <1>8, <2>3 DEF Buf, Open
  <2>6. b = <<>> \o b /\ <<>> \in Seq(Sends) /\ 0 = Messages(b) - Messages(b)
    BY <1>5, NoMessages
  <2>7. wire' = wire \o <<>>
    <3>1. wire \in Seq(Sends)
      BY DEF IInv, TypeOK
    <3> QED
      BY <2>1, <3>1
  <2>8. Calls(hs, 0, "ok")
    <3>1. \A i \in 1..Len(hs) : ~(i <= 0)
      BY <1>5, LenProperties
    <3>2. /\ AskedOnce(queue') /\ (StopIn(queue') => StopIn(queue))
          /\ \A x, o : Asked(queue', x, o) <=> Asked(queue, x, o)
      BY <2>1, QueueAsIt
    <3> QED
      BY <3>1, <3>2 DEF Calls
  <2>9. "ok" \in Outcomes
    BY DEF Outcomes
  <2>10. chan'[c].handlers = SubSeq(hs, 0 + 1, Len(hs))
    <3>1. SubSeq(hs, 0 + 1, Len(hs)) = hs
      BY <1>5
    <3> QED
      BY <2>3, <3>1
  <2>11. chan'[c].conn = n /\ n = chan[c].conn
    BY <2>3
  <2> HIDE DEF n, fd, hd
  <2> QED
    BY <1>1, <1>5, <2>4, <2>5, <2>6, <2>7, <2>8, <2>9, <2>10, <2>11, MoveKeeps
<1> QED
  BY <1>10, <1>11

(* A step that makes no send changes nothing in what is known of them.     *)
LEMMA NoMoreSends ==
    ASSUME NEW n, sends' = sends
    PROVE  /\ MoreSends(n)
           /\ \A hs : HandlersFor(hs, n, sends) => HandlersFor(hs, n, sends')
           /\ \A b, hs : Queued(b, hs, n, sends) => Queued(b, hs, n, sends')
  BY DEF MoreSends

(* The socket has room.                                                    *)
LEMMA ServeWriteSends ==
    ASSUME IInv, IInv', SInv, NEW fd \in Fds, ServeWrite(fd)
    PROVE  SInv'
<1>1. /\ sends' = sends /\ answered' = answered /\ dropped' = dropped
      /\ conns' = conns /\ stopPosted' = stopPosted /\ pc' = pc
  BY DEF ServeWrite, Serve
<1>2. CASE item[fd] = None
  <2>1. UNCHANGED <<item, kernel, chan, queue, wire>>
    BY <1>2 DEF ServeWrite
  <2> QED
    BY <1>1, <2>1, SocketSteps
<1>3. CASE item[fd] # None
  <2>1. item[fd] \in ItemState /\ item \in [Fds -> ItemState \cup {None}]
    BY <1>3 DEF IInv, TypeOK
  <2>2. PICK it : it = [item[fd] EXCEPT !.blocked = FALSE]
    OBVIOUS
  <2>3. it \in ItemState /\ it.channel = item[fd].channel /\ it.buffer = item[fd].buffer
    BY <2>1, <2>2 DEF ItemState
  <2>4. TrySend(fd, it, <<>>)
    BY <1>3, <2>2 DEF ServeWrite
  <2>5. CASE it.buffer = <<>>
    <3>1. /\ \E x : item' = [item EXCEPT ![fd] =
                                [channel |-> it.channel, blocked |-> x, buffer |-> <<>>]]
          /\ UNCHANGED <<chan, queue, wire>>
      BY <2>4, <2>5 DEF TrySend
    <3>2. ASSUME NEW d \in Channels, Open(d) PROVE Buf(d)' = Buf(d)
      <4>1. chan[d].fd \in Fds /\ chan'[d].fd = chan[d].fd
        BY <3>1, <3>2, OpenIs
      <4>2. item'[chan[d].fd].buffer = item[chan[d].fd].buffer
        <5>1. PICK x : item' = [item EXCEPT ![fd] =
                           [channel |-> it.channel, blocked |-> x, buffer |-> <<>>]]
          BY <3>1
        <5>2. CASE chan[d].fd = fd
          <6>1. item'[fd] = [channel |-> it.channel, blocked |-> x, buffer |-> <<>>]
            BY <2>1, <5>1
          <6>2. item'[fd].buffer = <<>>
            BY <6>1
          <6> QED
            BY <2>3, <2>5, <5>2, <6>2
        <5>3. CASE chan[d].fd # fd
          BY <2>1, <4>1, <5>1, <5>3
        <5> QED
          BY <5>2, <5>3
      <4> QED
        BY <4>1, <4>2 DEF Buf
    <3>3. /\ AskedOnce(queue') /\ (StopIn(queue') => StopIn(queue))
          /\ \A s, o : Asked(queue', s, o) <=> Asked(queue, s, o)
      BY <3>1, QueueAsIt
    <3>4. QuietSending
      BY <1>1, <3>1, <3>2, <3>3 DEF QuietSending
    <3> QED
      BY <3>4, QuietSendingKeeps
  <2>6. CASE it.buffer # <<>>
    <3>1. Active(fd)
      BY <1>3, <2>3, <2>6 DEF IInv, LoopShape, Closing, Active
    <3>2. PICK c \in Channels : c = item[fd].channel /\ Open(c) /\ chan[c].fd = fd
      BY <3>1, ActiveIs
    <3>3. /\ chan[c].handlers \in Seq(Sends)
          /\ HandlersFor(chan[c].handlers, chan[c].conn, sends)
          /\ Queued(it.buffer, chan[c].handlers, chan[c].conn, sends)
      BY <2>3, <3>2, ChannelSends DEF Buf
    <3>4. /\ HandlersFor(chan[c].handlers, chan[c].conn, sends')
          /\ Queued(it.buffer, chan[c].handlers, chan[c].conn, sends')
          /\ MoreSends(chan[c].conn)
      BY <1>1, <3>3, NoMoreSends
    <3>5. PICK hs : hs = chan[c].handlers
      OBVIOUS
    <3>6. hs = chan[c].handlers \o <<>> /\ <<>> \in Seq(Sends)
      BY <3>3, <3>5
    <3>7. HandlersFor(hs, chan[c].conn, sends') /\ Queued(it.buffer, hs, chan[c].conn, sends')
      BY <3>4, <3>5
    <3>8. it.channel = c /\ TrySend(chan[c].fd, it, <<>>)
      BY <2>3, <2>4, <3>2
    <3> QED
      BY <1>1, <2>3, <2>6, <3>2, <3>4, <3>6, <3>7, <3>8, TrySendSends
  <2> QED
    BY <2>5, <2>6
<1> QED
  BY <1>2, <1>3

(* The peer has closed: what waits is answered with an error.              *)
LEMMA ServeCloseActiveSends ==
    ASSUME IInv, IInv', SInv, NEW fd \in Fds, ServeCloseActive(fd)
    PROVE  SInv'
<1>1. /\ sends' = sends /\ answered' = answered /\ dropped' = dropped /\ wire' = wire
      /\ conns' = conns /\ stopPosted' = stopPosted /\ pc' = pc
  BY DEF ServeCloseActive, Serve
<1>2. PICK c \in Channels : c = item[fd].channel /\ Open(c) /\ chan[c].fd = fd
  BY ActiveIs DEF ServeCloseActive
<1>3. PICK b, hs, n, k : /\ b = item[fd].buffer /\ hs = chan[c].handlers
                         /\ n = chan[c].conn /\ k = Messages(b)
  OBVIOUS
<1>4. /\ b \in Seq(Sends) /\ hs \in Seq(Sends)
      /\ HandlersFor(hs, n, sends) /\ Queued(b, hs, n, sends)
  BY <1>2, <1>3, ChannelSends DEF Buf
<1>5. HandlersFor(hs, n, sends') /\ Queued(b, hs, n, sends') /\ MoreSends(n)
  BY <1>1, <1>4, NoMoreSends
<1>6. /\ k \in Nat /\ k = Messages(b) - Messages(<<>>) /\ b = <<>> \o b /\ <<>> \in Seq(Sends)
      /\ "error" \in Outcomes /\ wire' = wire \o <<>>
  <2>1. wire \in Seq(Sends)
    BY DEF IInv, TypeOK
  <2> QED
    BY <1>1, <1>3, <1>4, <2>1, NoMessages DEF Outcomes
<1>7. IF kernel[fd].unread = 0
      THEN /\ Release({fd})
           /\ OnClose(c, Posted(queue, Answers(c, hs, k, "error")))
      ELSE /\ item' = [item EXCEPT ![fd].buffer = <<>>]
           /\ Answer(c, hs, k, "error")
  BY <1>2, <1>3 DEF ServeCloseActive
<1>8. CASE kernel[fd].unread = 0
  <2> DEFINE p == Posted(queue, Answers(c, hs, k, "error"))
  <2>1. /\ p \in Seq(Tasks) /\ AskedOnce(p) /\ (StopIn(p) => StopIn(queue))
        /\ \A s, x : Asked(p, s, x) <=>
              \/ Asked(queue, s, x)
              \/ ~stopPosted /\ x = "error" /\ \E i \in 1..Len(hs) : i <= k /\ hs[i] = s
    BY <1>4, <1>6, AnswersCall
  <2>2. OnClose(c, p) /\ Release({fd})
    BY <1>7, <1>8
  <2> HIDE DEF p
  <2>3. /\ chan'[c].handlers = <<>> /\ chan'[c].fd = None /\ chan'[c].conn = n
        /\ \A d \in Channels \ {c} : chan'[d] = chan[d]
        /\ AskedOnce(queue') /\ (StopIn(queue') => StopIn(p))
        /\ \A s, o : Asked(queue', s, o) <=> Asked(p, s, o)
    BY <1>2, <1>3, <2>1, <2>2, OnCloseSends
  <2>4. Calls(hs, k, "error")
    BY <2>1, <2>3 DEF Calls
  <2>5. \A f \in Fds \ {chan[c].fd} : item'[f] = item[f]
    BY <1>2, <2>2 DEF Release
  <2>6. OthersKeep(c)
    BY <1>2, <2>3, <2>5, OthersKept
  <2>7. /\ chan'[c].handlers = <<>> /\ chan'[c].fd = None
        /\ chan'[c].conn = n /\ n = chan[c].conn
    BY <1>3, <2>3
  <2>8. UNCHANGED <<dropped, answered, stopPosted, conns, pc>>
    BY <1>1
  <2> QED
    BY <1>2, <1>4, <1>5, <1>6, <2>4, <2>6, <2>7, <2>8, MoveKeeps
<1>9. CASE kernel[fd].unread # 0
  <2>1. item' = [item EXCEPT ![fd].buffer = <<>>] /\ Answer(c, hs, k, "error")
    BY <1>7, <1>9
  <2>2. /\ item \in [Fds -> ItemState \cup {None}] /\ item[fd] \in ItemState
    BY <1>2, OpenIs DEF IInv, TypeOK
  <2>3. item'[fd].buffer = <<>> /\ \A f \in Fds \ {fd} : item'[f] = item[f]
    <3>1. \A x : /\ [item EXCEPT ![fd].buffer = x][fd].buffer = x
                 /\ \A f \in Fds \ {fd} : [item EXCEPT ![fd].buffer = x][f] = item[f]
      BY <2>2 DEF ItemState
    <3> QED
      BY <2>1, <3>1, Zenon
  <2>4. /\ Calls(hs, k, "error")
        /\ chan'[c].handlers = SubSeq(hs, k + 1, Len(hs))
        /\ chan'[c].fd = chan[c].fd /\ chan'[c].conn = n
        /\ \A d \in Channels \ {c} : chan'[d] = chan[d]
    BY <1>3, <1>4, <1>6, <2>1, AnswerSends
  <2>5. OthersKeep(c)
    BY <1>2, <2>3, <2>4, OthersKept
  <2>6. Buf(c)' = <<>> /\ chan'[c].fd # None
    BY <1>2, <2>3, <2>4 DEF Buf, Open
  <2> QED
    BY <1>1, <1>2, <1>3, <1>4, <1>5, <1>6, <2>4, <2>5, <2>6, MoveKeeps, ZenonT(30)
<1> QED
  BY <1>8, <1>9

(* A send handler is called.                                               *)
LEMMA RunSentSends ==
    ASSUME IInv, SInv, RunSent
    PROVE  SInv'
<1> DEFINE s == Head(queue).send
           o == Head(queue).outcome
           q == Tail(queue)
<1>1. /\ sends' = sends /\ wire' = wire /\ dropped' = dropped /\ chan' = chan /\ item' = item
      /\ conns' = conns /\ stopPosted' = stopPosted /\ pc = "serve"
      /\ answered' = [answered EXCEPT ![s] = o] /\ queue' = q
  BY DEF RunSent, Take, Served
<1>2. queue \in Seq(Tasks) /\ AskedOnce(queue) /\ queue # <<>> /\ Head(queue).is = "sent"
  BY QueueAsIt DEF RunSent, Take, IInv, LoopShape
<1>3. /\ AskedOnce(q) /\ (StopIn(q) => StopIn(queue))
      /\ s \in Sends /\ o \in Outcomes /\ Asked(queue, s, o)
      /\ \A x : ~Asked(q, s, x)
      /\ \A t, x : t # s => (Asked(q, t, x) <=> Asked(queue, t, x))
  BY <1>2, AskedTail
<1>4. \A x : Asked(queue, s, x) => x = o
  <2> SUFFICES ASSUME NEW x, Asked(queue, s, x) PROVE x = o
    OBVIOUS
  <2>1. PICK i \in 1..Len(queue) : /\ queue[i].is = "sent" /\ queue[i].send = s
                                   /\ queue[i].outcome = x
    BY DEF Asked
  <2>2. Head(queue) = queue[1] /\ 1 \in 1..Len(queue)
    BY <1>2, EmptySeq, HeadTailProperties
  <2>3. i = 1
    BY <1>2, <2>1, <2>2 DEF AskedOnce
  <2> QED
    BY <2>1, <2>2, <2>3
<1> HIDE DEF s, o, q
<1>5. /\ answered'[s] = o /\ \A t \in Sends \ {s} : answered'[t] = answered[t]
      /\ answered[s] = None
  <2>1. answered \in [Sends -> {None, "ok", "error"}]
    BY DEF IInv, TypeOK
  <2>2. answered[s] = None
    BY <1>3 DEF SInv, Answering
  <2> QED
    BY <1>1, <1>3, <2>1, <2>2
<1>6. o # None /\ \A x \in Outcomes : x # None
  BY <1>3, NoneAssumption DEF Outcomes
<1>7. \A t \in Sends : Waits(t)' <=> Waits(t)
  <2> SUFFICES ASSUME NEW t \in Sends PROVE Waits(t)' <=> Waits(t)
    OBVIOUS
  <2>1. CASE t = s
    BY <1>3, <1>5, <1>6, <2>1 DEF Waits
  <2>2. CASE t # s
    BY <1>1, <1>3, <1>5, <2>2 DEF Waits
  <2> QED
    BY <2>1, <2>2
<1>8. \A t \in Sends : Refused(t) => Refused(t)'
  <2> SUFFICES ASSUME NEW t \in Sends, Refused(t) PROVE Refused(t)'
    OBVIOUS
  <2>1. answered[t] = "error" \/ Asked(queue, t, "error")
    BY RefusedIs
  <2>2. answered'[t] = "error" \/ Asked(queue', t, "error")
    <3>1. CASE t = s
      BY <1>4, <1>5, <2>1, <3>1, NoneAssumption
    <3>2. CASE t # s
      BY <1>1, <1>3, <1>5, <2>1, <3>2
    <3> QED
      BY <3>1, <3>2
  <2> QED
    BY <2>2 DEF Refused, Asked
<1>9. /\ \A t : UnitsOut(t)' = UnitsOut(t)
      /\ \A t \in DOMAIN sends : t \in Sends
  BY <1>1, SendsAre DEF UnitsOut, IInv
<1>10. ASSUME NEW t \in DOMAIN sends, Settled(t) PROVE Settled(t)'
  <2>1. Grows
    BY <1>1, <1>8, <1>9 DEF Grows
  <2> QED
    BY <1>10, <2>1, SettledStays DEF IInv, SInv
<1>11. Wiring'
  BY <1>1, <1>9 DEF Wiring, SInv, SameConn
<1>12. Handling'
  <2> SUFFICES ASSUME NEW c \in Channels
               PROVE  /\ HandlersFor(chan[c].handlers, chan[c].conn, sends)'
                      /\ chan'[c].handlers # <<>> => chan'[c].fd # None \/ pc' \in {"drain", "end"}
    BY DEF Handling, Open
  <2>1. /\ HandlersFor(chan[c].handlers, chan[c].conn, sends)
        /\ chan[c].handlers # <<>> => chan[c].fd # None
    BY <1>1 DEF SInv, Handling, Open
  <2>2. \A t \in ToSet(chan[c].handlers) : Waits(t)'
    BY <1>7, <1>9, <2>1 DEF HandlersFor
  <2> QED
    BY <1>1, <2>1, <2>2 DEF HandlersFor
<1>13. Answering'
  <2>1. \A t \in Sends, x \in Outcomes : Asked(q, t, x) => answered'[t] = None
    BY <1>3, <1>5 DEF SInv, Answering
  <2>2. AskedOnce(q) /\ (StopIn(q) => stopPosted)
    BY <1>3 DEF SInv, Answering
  <2>3. \A t \in Sends : ~Waits(t)' => t \in DOMAIN sends
    BY <1>7 DEF SInv, Answering
  <2> QED
    BY <1>1, <2>1, <2>2, <2>3 DEF Answering
<1>14. Truth'
  <2> SUFFICES ASSUME dropped = {}, NEW t \in Sends, NEW x \in Outcomes,
                      Asked(q, t, x) \/ answered'[t] = x
               PROVE  x = "ok" <=> UnitsOut(t) = Size
    BY <1>1, <1>9 DEF Truth
  <2>1. Asked(queue, t, x) \/ answered[t] = x
    BY <1>3, <1>5
  <2> QED
    BY <2>1 DEF SInv, Truth
<1>15. Buffers'
  <2> SUFFICES ASSUME NEW c \in Channels, chan[c].fd # None
               PROVE  Queued(Buf(c), chan[c].handlers, chan[c].conn, sends)'
    BY <1>1 DEF Buffers, Open
  <2>1. Queued(Buf(c), chan[c].handlers, chan[c].conn, sends) /\ Buf(c)' = Buf(c)
    BY <1>1 DEF SInv, Buffers, Open, Buf
  <2> QED
    BY <1>1, <1>9, <1>10, <2>1 DEF Queued
<1>16. Begun'
  BY <1>1, <1>9, <1>10 DEF Begun, SInv, SameConn
<1> QED
  BY <1>11, <1>12, <1>13, <1>14, <1>15, <1>16 DEF SInv

(* What waits is thrown away; its handlers stay.                           *)
LEMMA CancelSendSends ==
    ASSUME IInv, SInv, NEW c \in Channels, CancelSend(c)
    PROVE  SInv'
<1> DEFINE fd == chan[c].fd
           n  == chan[c].conn
           b  == Buf(c)
           hd == chan[c].handlers
<1>1. /\ sends' = sends /\ wire' = wire /\ answered' = answered /\ chan' = chan
      /\ queue' = queue /\ conns' = conns /\ stopPosted' = stopPosted /\ pc' = pc
      /\ Open(c) /\ b # <<>> /\ dropped' = dropped \cup ToSet(b)
      /\ item' = [item EXCEPT ![fd].buffer = <<>>]
  BY DEF CancelSend, InUserCode, loopVars, Buf
<1>2. /\ fd \in Fds /\ item[fd] \in ItemState /\ item \in [Fds -> ItemState \cup {None}]
  BY <1>1, OpenIs DEF IInv, TypeOK
<1>3. item'[fd].buffer = <<>> /\ \A f \in Fds \ {fd} : item'[f] = item[f]
  <2>1. \A x : /\ [item EXCEPT ![fd].buffer = x][fd].buffer = x
               /\ \A f \in Fds \ {fd} : [item EXCEPT ![fd].buffer = x][f] = item[f]
    BY <1>2 DEF ItemState
  <2> QED
    BY <1>1, <2>1, Zenon
<1>4. /\ b \in Seq(Sends) /\ HandlersFor(hd, n, sends) /\ Queued(b, hd, n, sends)
  BY <1>1, ChannelSends
<1>5. \A t \in ToSet(b) : t \in DOMAIN sends /\ sends[t] = n
  BY <1>4 DEF HandlersFor, Queued
<1>6. PICK t \in ToSet(b) : TRUE
  <2>1. 1 \in 1..Len(b)
    BY <1>1, <1>4, EmptySeq, LenProperties
  <2>2. b[1] \in ToSet(b)
    BY <1>4, <2>1, ToSetIs
  <2> QED
    BY <2>2
<1> HIDE DEF fd, n, b, hd
<1>7. /\ \A s : UnitsOut(s)' = UnitsOut(s)
      /\ \A s : Waits(s)' <=> Waits(s)
      /\ \A s : Refused(s)' <=> Refused(s)
  BY <1>1 DEF UnitsOut, Waits, Asked, Refused
<1>8. ASSUME NEW s \in DOMAIN sends, Settled(s) PROVE Settled(s)'
  <2>1. Grows
    BY <1>1, <1>7 DEF Grows
  <2> QED
    BY <1>8, <2>1, SettledStays DEF IInv, SInv
<1>9. Wiring'
  BY <1>1, <1>5, <1>7 DEF Wiring, SInv, SameConn
<1>10. Handling'
  BY <1>1, <1>7 DEF Handling, SInv, HandlersFor, Open
<1>11. Answering'
  BY <1>1, <1>7 DEF Answering, SInv
<1>12. Truth'
  BY <1>1, <1>6 DEF Truth
<1>13. Begun'
  BY <1>1, <1>7, <1>8 DEF Begun, SInv, SameConn
<1>14. Buffers'
  <2> SUFFICES ASSUME NEW d \in Channels, Open(d)
               PROVE  Queued(Buf(d), chan[d].handlers, chan[d].conn, sends)'
    BY <1>1 DEF Buffers, Open
  <2>1. CASE d = c
    <3>1. Buf(d)' = <<>> /\ chan'[d].conn = n /\ chan'[d].handlers = hd
      BY <1>1, <1>3, <2>1 DEF Buf, fd, n, hd
    <3>2. Len(<<>>) = 0 /\ ToSet(<<>>) = {}
      BY DEF ToSet
    <3>3. ~(\A r \in dropped' : sends'[r] # n)
      BY <1>1, <1>5, <1>6
    <3>4. ~stopPosted' =>
             \A s \in DOMAIN sends' :
                sends'[s] = n => (s \in DOMAIN sends' /\ Settled(s)')
      <4> SUFFICES ASSUME ~stopPosted, NEW s \in DOMAIN sends, sends[s] = n PROVE Settled(s)'
        BY <1>1
      <4>1. CASE s \in ToSet(b)
        BY <1>1, <4>1 DEF Settled, GivenUp
      <4>2. CASE s \notin ToSet(b)
        <5>1. Settled(s)
          BY <1>4, <4>2 DEF Queued
        <5> QED
          BY <1>8, <5>1
      <4> QED
        BY <4>1, <4>2
    <3> QED
      BY <3>1, <3>2, <3>3, <3>4 DEF Queued, Sorted
  <2>2. CASE d # c
    <3> DEFINE m  == chan[d].conn
               bd == Buf(d)
               hs == chan[d].handlers
    <3>1. Queued(bd, hs, m, sends) /\ HandlersFor(hs, m, sends)
      BY ChannelSends
    <3>2. Buf(d)' = bd /\ chan'[d].conn = m /\ chan'[d].handlers = hs
      <4>1. chan[d].fd \in Fds /\ item[chan[d].fd].channel = d /\ item[fd].channel = c
        BY <1>1, OpenIs DEF fd
      <4>2. item'[chan[d].fd] = item[chan[d].fd]
        BY <1>3, <2>2, <4>1
      <4> QED
        BY <1>1, <4>2 DEF Buf
    <3>3. m # n
      <4>1. n # 0
        BY <1>1 DEF IInv, Telling, n
      <4> QED
        BY <2>2, <4>1 DEF IInv, Telling, n
    <3> HIDE DEF m, bd, hs
    <3>4. \A r \in dropped' : sends[r] = m => r \in dropped
      BY <1>1, <1>5, <3>3
    <3>5. \A r \in dropped : r \in dropped'
      BY <1>1
    <3> QED
      BY <1>1, <1>7, <1>8, <3>1, <3>2, <3>4, <3>5 DEF Queued
  <2> QED
    BY <2>1, <2>2
<1> QED
  BY <1>9, <1>10, <1>11, <1>12, <1>13, <1>14 DEF SInv

(* Nothing is sent at first.                                               *)
LEMMA InitSends ==
    ASSUME Init
    PROVE  SInv
<1>1. /\ sends = <<>> /\ wire = <<>> /\ dropped = {} /\ queue = <<>> /\ ~stopPosted
      /\ answered = [s \in Sends |-> None]
      /\ \A c \in Channels : /\ chan[c].handlers = <<>> /\ ~Open(c)
  BY DEF Init, NewChannel, ClosedChannel, Open
<1>2. DOMAIN <<>> = {} /\ Len(<<>>) = 0 /\ ToSet(<<>>) = {}
  BY DEF ToSet
<1>3. \A s : UnitsOut(s) = 0
  <2>1. \A s : {i \in DOMAIN wire : wire[i] = s} = {}
    BY <1>1, <1>2
  <2> QED
    BY <2>1, FS_EmptySet DEF UnitsOut
<1>4. \A s, o : ~Asked(queue, s, o)
  BY <1>1, <1>2 DEF Asked
<1>5. Size \in Nat
  BY BoundsAssumption
<1>6. Wiring
  BY <1>1, <1>2, <1>3, <1>5 DEF Wiring
<1>7. Handling
  BY <1>1, <1>2 DEF Handling, HandlersFor, Rising
<1>8. Answering
  BY <1>1, <1>2, <1>4 DEF Answering, AskedOnce, StopIn, Waits
<1>9. Truth
  BY <1>1, <1>4, NoneAssumption DEF Truth, Outcomes
<1>10. Buffers /\ Begun
  BY <1>1, <1>2 DEF Buffers, Begun
<1> QED
  BY <1>6, <1>7, <1>8, <1>9, <1>10 DEF SInv

(* Every step keeps what is sent in order and answers truthful.            *)
LEMMA StepSends ==
    ASSUME IInv, IInv', SInv, Stopped, [Next]_vars
    PROVE  SInv'
<1>1. CASE Wait \/ WaitAgain \/ DrainDone \/ OtherEvent \/ UNCHANGED vars
  BY <1>1, LoopSends
<1>2. CASE RunTask
  BY <1>2, RunReceiveSends, RunSentSends, RunClosedSends, RunStopSends DEF RunTask
<1>3. CASE Return
  BY <1>3, ReturnSends
<1>4. CASE DrainTimeout
  BY <1>4, EndingSends
<1>5. ASSUME NEW fd \in Fds,
             \/ ServeRead(fd) \/ ServeWrite(fd)
             \/ ServeCloseActive(fd) \/ ServeCloseClosing(fd)
      PROVE  SInv'
  BY <1>5, ServeReadSends, ServeWriteSends, ServeCloseActiveSends, EndingSends
<1>6. CASE PostStop
  BY <1>6, PostStopSends
<1>7. ASSUME NEW c \in Channels,
             \/ Send(c) \/ SendNow(c) \/ CancelSend(c) \/ Receive(c) \/ Close(c)
             \/ SetReceiveHandler(c) \/ SetCloseHandler(c)
             \/ \E fd \in Fds : Connect(c, fd)
      PROVE  SInv'
  BY <1>7, SendSends, LoopSends, CancelSendSends, ReceiveSends, CloseSends,
     SetHandlerSends, ConnectSends
<1>8. CASE PeerStep
  BY <1>8, LoopSends DEF PeerStep
<1>9. ASSUME NEW fd \in Fds, CloseTimeout(fd) PROVE SInv'
  BY <1>9, EndingSends
<1> QED
  BY <1>1, <1>2, <1>3, <1>4, <1>5, <1>6, <1>7, <1>8, <1>9 DEF Next, LoopStep, UserStep

(* The sending part of the invariant holds in every state.                 *)
LEMMA SendingInductive == Spec => []SInv
<1>1. Init => SInv
  BY InitSends
<1>2. IInv /\ Stopped /\ (IInv /\ Stopped)' /\ SInv /\ [Next]_vars => SInv'
  BY StepSends
<1> QED
  BY <1>1, <1>2, Inductive, PTL DEF Spec

(* What is sent with a handler reaches the wire of its connection in the   *)
(* order of the calls and no unit twice, and no message begins before the  *)
(* earlier ones are out or given up: for any number of connections and of  *)
(* sends, of any size (requestTcpSend, tryTcpSend, cancelSend, and the     *)
(* edges of epoll between them).                                           *)
THEOREM SentInOrder == Spec => []SendOrder
<1>1. TypeOK /\ SInv => SendOrder
  <2> SUFFICES ASSUME TypeOK, SInv PROVE SendOrder
    OBVIOUS
  <2>1. /\ \A s \in Sends : UnitsOut(s) <= Size
        /\ \A i, j \in DOMAIN wire :
              i < j /\ SameConn(wire[i], wire[j]) => wire[i] <= wire[j]
    BY DEF SInv, Wiring
  <2>2. ~stopPosted =>
           \A s, t \in DOMAIN sends :
              s < t /\ SameConn(s, t) /\ UnitsOut(t) > 0 => UnitsOut(s) = Size \/ GivenUp(s)
    BY DEF SInv, Begun, Settled
  <2> QED
    BY <2>1, <2>2 DEF SendOrder
<1> QED
  BY <1>1, SendingInductive, TypeCorrect, PTL

(* As long as nothing is cancelled, a send handler is called with success  *)
(* if and only if the kernel took the whole of its own message, although   *)
(* each answer just takes the next handler (SocketController::onSend).     *)
THEOREM AnswersAreTrue == Spec => []AnswersTruthful
<1>1. TypeOK /\ SInv => AnswersTruthful
  <2> SUFFICES ASSUME TypeOK, SInv, dropped = {}, NEW s \in Sends, answered[s] # None
               PROVE  answered[s] = "ok" <=> UnitsOut(s) = Size
    BY DEF AnswersTruthful
  <2>1. answered[s] \in Outcomes
    BY DEF TypeOK, Outcomes
  <2> QED
    BY <2>1 DEF SInv, Truth
<1> QED
  BY <1>1, SendingInductive, TypeCorrect, PTL

(* No send handler is called twice.                                        *)
NoSecondAnswer == \A s \in Sends : answered[s] # None => answered'[s] = answered[s]

(* Only a task calls send handlers, each task the handler of one send.     *)
LEMMA AnswerStep ==
    ASSUME IInv, SInv, Stopped, [Next]_vars
    PROVE  NoSecondAnswer
<1>1. CASE RunSent
  <2>1. queue \in Seq(Tasks) /\ AskedOnce(queue) /\ queue # <<>> /\ Head(queue).is = "sent"
    BY <1>1, QueueAsIt DEF RunSent, Take, IInv, LoopShape
  <2>2. /\ Head(queue).send \in Sends /\ Head(queue).outcome \in Outcomes
        /\ Asked(queue, Head(queue).send, Head(queue).outcome)
    BY <2>1, AskedTail
  <2>3. answered[Head(queue).send] = None
    BY <2>2 DEF SInv, Answering
  <2>4. /\ answered \in [Sends -> {None, "ok", "error"}]
        /\ answered' = [answered EXCEPT ![Head(queue).send] = Head(queue).outcome]
    BY <1>1 DEF RunSent, IInv, TypeOK
  <2> QED
    BY <2>2, <2>3, <2>4 DEF NoSecondAnswer
<1>2. CASE \/ Wait \/ WaitAgain \/ DrainDone \/ OtherEvent \/ UNCHANGED vars
           \/ Return \/ DrainTimeout \/ PostStop
           \/ RunReceive \/ RunClosed \/ RunStop
  BY <1>2 DEF Wait, WaitAgain, DrainDone, OtherEvent, vars, Return, DrainTimeout, PostStop,
     RunReceive, RunClosed, RunStop, sendVars, NoSecondAnswer
<1>3. ASSUME NEW fd \in Fds,
             \/ ServeRead(fd) \/ ServeWrite(fd)
             \/ ServeCloseActive(fd) \/ ServeCloseClosing(fd) \/ CloseTimeout(fd)
      PROVE  NoSecondAnswer
  BY <1>3 DEF ServeRead, ServeWrite, ServeCloseActive, ServeCloseClosing, CloseTimeout, Serve,
     sendVars, NoSecondAnswer
<1>4. ASSUME NEW c \in Channels,
             \/ Send(c) \/ SendNow(c) \/ CancelSend(c) \/ Receive(c) \/ Close(c)
             \/ SetReceiveHandler(c) \/ SetCloseHandler(c)
             \/ \E fd \in Fds : Connect(c, fd)
      PROVE  NoSecondAnswer
  BY <1>4 DEF Send, SendNow, CancelSend, Receive, Close, SetReceiveHandler, SetCloseHandler,
     Connect, sendVars, NoSecondAnswer
<1>5. CASE PeerStep
  BY <1>5 DEF PeerStep, PeerSends, RoomBack, PeerEnds, sendVars, NoSecondAnswer
<1> QED
  BY <1>1, <1>2, <1>3, <1>4, <1>5 DEF Next, LoopStep, UserStep, RunTask

(* A send handler is called at most once, whatever is sent, cancelled,     *)
(* closed and reset meanwhile: each call comes from a task, no two tasks   *)
(* are for one send, and what was answered has no task left (onSend).      *)
THEOREM AnsweredOnce == Spec => [][NoSecondAnswer]_vars
<1>1. IInv /\ Stopped /\ SInv /\ [Next]_vars => [NoSecondAnswer]_vars
  BY AnswerStep
<1> QED
  BY <1>1, SendingInductive, Inductive, PTL DEF Spec
=============================================================================
