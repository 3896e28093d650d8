------------------------- MODULE ConnectionsProofs -------------------------
(***************************************************************************)
(* Proofs about Connections, for any number of descriptors, addresses and  *)
(* calls: the types, that every open descriptor has one holder, and that   *)
(* every step of the thread is a step of Connect or changes nothing in it. *)
(*                                                                         *)
(* SocketHeldOnce is not inductive: what is registered must be known for   *)
(* overlapping calls too (Watched), and without overlapping calls there is *)
(* one item at most, and none beside an open socket (Single).  For the     *)
(* promise, the handlers that are stored or queued must belong to calls    *)
(* that are neither answered nor withdrawn (Owed).                         *)
(***************************************************************************)
EXTENDS Connections, SequenceLemmas

(* The holders of descriptors m, D, cl, s and lk (the client's socket, the *)
(* connecting, the closing, the listeners' and the leaked ones) share none.*)
Apart(m, D, cl, s, lk) ==
    /\ m \notin D \cup cl \cup lk
    /\ D \cap cl = {} /\ D \cap lk = {} /\ cl \cap lk = {}
    /\ \A o \in Listener :
          /\ s[o] \notin D \cup cl \cup lk
          /\ s[o] # NoSocket => s[o] # m
          /\ \A p \in Listener : s[o] = s[p] /\ s[o] # NoSocket => o = p

AllHeld(m, D, cl, s, lk) ==
    (({m} \cup {s[o] : o \in Listener}) \ {NoSocket}) \cup D \cup cl \cup lk

Watched(m, D, cl, s, l) == ({m} \ {NoSocket}) \cup D \cup cl \cup {s[o] : o \in l}

(* Descriptors f are open and k registered, with these holders.            *)
Sound(f, k, m, D, cl, s, l, lk) ==
    /\ Apart(m, D, cl, s, lk)
    /\ f = AllHeld(m, D, cl, s, lk)
    /\ k = Watched(m, D, cl, s, l)
    /\ \A o \in l : s[o] # NoSocket
    /\ m \in Handles \cup {NoSocket}
    /\ D \cup cl \cup lk \subseteq Handles
    /\ s \in [Listener -> Handles \cup {NoSocket}]
    /\ l \subseteq Listable

Table == Sound(fds, keys, mSocket, DOMAIN items, closing, socket, listed, leaked)

ItemsTyped == items \in [DOMAIN items -> Items]

Single ==
    ~overlapped => /\ \A g, h \in DOMAIN items : g = h
                   /\ DOMAIN items # {} => mSocket = NoSocket
                   /\ channels = {mSocket} \ {NoSocket}

Options ==
    ~overlapped /\ Running => \A o \in Owners : option[o] \in {NoSocket, SocketOf(o)}

(* A call whose handler is stored (hd) or queued (in ts) is waited for.    *)
IsOwed(c, n, ans, wd) == c \in 1..n /\ ans[c] = 0 /\ c \notin wd

OwedBy(hd, ts, n, ans, wd, run) ==
    /\ run /\ hd # NoCall => IsOwed(hd, n, ans, wd)
    /\ \A i \in 1..Len(ts) : /\ IsOwed(ts[i].call, n, ans, wd)
                             /\ run => ts[i].call # hd
    /\ \A i, j \in 1..Len(ts) : ts[i].call = ts[j].call => i = j
    /\ wd \subseteq 1..n
    /\ \A c \in Calls : c > n => ans[c] = 0

Owed == OwedBy(handler, tasks, calls, answers, withdrawn, Running)

Others ==
    /\ option \in [Owners -> Handles \cup {NoSocket}]
    /\ status \in {"running", "exited", "dead"}
    /\ handler \in Calls \cup {NoCall}
    /\ channels \subseteq Handles
    /\ tasks \in Seq([call : Calls, code : Codes])
    /\ calls \in 0..MaxConnects
    /\ answers \in [Calls -> Nat]
    /\ overlapped \in BOOLEAN

IInv == Table /\ ItemsTyped /\ Others /\ Single /\ Options /\ Owed

-----------------------------------------------------------------------------
(* The table of descriptors, for any holders.                              *)

(* No descriptor is 0.                                                     *)
LEMMA HandlesTyped == Handles \subseteq Nat /\ NoSocket \notin Handles
<1> QED
  BY HandlesAssumption DEF Handles, NoSocket

(* A new socket's descriptor is free.                                      *)
LEMMA NewHandleIs ==
    ASSUME NEW f, Free(f) # {}
    PROVE  NewHandle(f) \in Handles \ f
<1>1. Free(f) \in SUBSET Nat
  BY HandlesTyped DEF Free
<1>2. \E h \in Free(f) : \A g \in Free(f) : h <= g
  BY <1>1, MinNat
<1> QED
  BY <1>2 DEF NewHandle, Free

(* A socket that begins to connect                                         *)
LEMMA SoundAdd ==
    ASSUME NEW f, NEW k, NEW m, NEW D, NEW cl, NEW s, NEW l, NEW lk, NEW h \in Handles \ f,
           Sound(f, k, m, D, cl, s, l, lk)
    PROVE  Sound(f \cup {h}, k \cup {h}, m, D \cup {h}, cl, s, l, lk)
<1>1. h # NoSocket /\ h \notin AllHeld(m, D, cl, s, lk)
  BY HandlesTyped DEF Sound
<1>2. Apart(m, D \cup {h}, cl, s, lk)
  BY <1>1 DEF Sound, Apart, AllHeld
<1> QED
  BY <1>1, <1>2 DEF Sound, AllHeld, Watched

(* A socket that connects no longer, closed or made the client's           *)
LEMMA SoundDrop ==
    ASSUME NEW f, NEW k, NEW m, NEW D, NEW cl, NEW s, NEW l, NEW lk, NEW h \in D,
           Sound(f, k, m, D, cl, s, l, lk)
    PROVE  Sound(f \ {h}, k \ {h}, m, D \ {h}, cl, s, l, lk)
<1>0. h \in Handles /\ h # NoSocket
  BY HandlesTyped DEF Sound
<1>1. h # m /\ h \notin cl \cup lk /\ \A o \in Listener : s[o] # h
  BY <1>0 DEF Sound, Apart
<1>2. Apart(m, D \ {h}, cl, s, lk)
  BY DEF Sound, Apart
<1>3. f \ {h} = AllHeld(m, D \ {h}, cl, s, lk)
  BY <1>1 DEF Sound, AllHeld
<1>4. k \ {h} = Watched(m, D \ {h}, cl, s, l)
  <2>1. \A o \in l : s[o] # h
    BY <1>1 DEF Sound, Listable, Listener
  <2> QED
    BY <1>1, <2>1 DEF Sound, Watched
<1> QED
  BY <1>2, <1>3, <1>4 DEF Sound

(* The client's socket is closed, or there was none.                       *)
LEMMA SoundLose ==
    ASSUME NEW f, NEW k, NEW m, NEW D, NEW cl, NEW s, NEW l, NEW lk,
           Sound(f, k, m, D, cl, s, l, lk)
    PROVE  Sound(f \ {m}, k \ {m}, NoSocket, D, cl, s, l, lk)
<1>0. NoSocket \notin D \cup cl \cup lk
  BY HandlesTyped DEF Sound
<1>1. m \notin D \cup cl \cup lk /\ \A o \in Listener : s[o] # NoSocket => s[o] # m
  BY DEF Sound, Apart
<1>2. Apart(NoSocket, D, cl, s, lk)
  BY <1>0 DEF Sound, Apart
<1>3. f \ {m} = AllHeld(NoSocket, D, cl, s, lk)
  BY <1>1 DEF Sound, AllHeld
<1>4. k \ {m} = Watched(NoSocket, D, cl, s, l)
  <2>1. \A o \in l : s[o] # m
    BY <1>1 DEF Sound, Listable, Listener
  <2> QED
    BY <1>1, <2>1 DEF Sound, Watched
<1> QED
  BY <1>2, <1>3, <1>4 DEF Sound

(* An open socket that nobody holds becomes the client's, which has none.  *)
LEMMA SoundTake ==
    ASSUME NEW f, NEW k, NEW D, NEW cl, NEW s, NEW l, NEW lk, NEW h \in Handles \ f,
           Sound(f, k, NoSocket, D, cl, s, l, lk)
    PROVE  Sound(f \cup {h}, k \cup {h}, h, D, cl, s, l, lk)
<1>1. h # NoSocket /\ h \notin AllHeld(NoSocket, D, cl, s, lk)
  BY HandlesTyped DEF Sound
<1>2. Apart(h, D, cl, s, lk)
  BY <1>1 DEF Sound, Apart, AllHeld
<1> QED
  BY <1>1, <1>2 DEF Sound, AllHeld, Watched

(* The client's socket is left to the controller until it ends.            *)
LEMMA SoundClose ==
    ASSUME NEW f, NEW k, NEW m, NEW D, NEW cl, NEW s, NEW l, NEW lk, m # NoSocket,
           Sound(f, k, m, D, cl, s, l, lk)
    PROVE  Sound(f, k, NoSocket, D, cl \cup {m}, s, l, lk)
<1>0. NoSocket \notin D \cup cl \cup lk /\ m \in Handles
  BY HandlesTyped DEF Sound
<1>1. Apart(NoSocket, D, cl \cup {m}, s, lk)
  BY <1>0 DEF Sound, Apart
<1> QED
  BY <1>0, <1>1 DEF Sound, AllHeld, Watched

(* A closing socket comes to its end.                                      *)
LEMMA SoundEnd ==
    ASSUME NEW f, NEW k, NEW m, NEW D, NEW cl, NEW s, NEW l, NEW lk, NEW h \in cl,
           Sound(f, k, m, D, cl, s, l, lk)
    PROVE  Sound(f \ {h}, k \ {h}, m, D, cl \ {h}, s, l, lk)
<1>0. h \in Handles /\ h # NoSocket
  BY HandlesTyped DEF Sound
<1>1. h # m /\ h \notin D \cup lk /\ \A o \in Listener : s[o] # h
  BY <1>0 DEF Sound, Apart
<1>2. Apart(m, D, cl \ {h}, s, lk)
  BY DEF Sound, Apart
<1>3. f \ {h} = AllHeld(m, D, cl \ {h}, s, lk)
  BY <1>1 DEF Sound, AllHeld
<1>4. k \ {h} = Watched(m, D, cl \ {h}, s, l)
  <2>1. \A o \in l : s[o] # h
    BY <1>1 DEF Sound, Listable, Listener
  <2> QED
    BY <1>1, <2>1 DEF Sound, Watched
<1> QED
  BY <1>2, <1>3, <1>4 DEF Sound

(* A listener opens a socket, listed or not; a sender may have had one,    *)
(* which is leaked.                                                        *)
LEMMA SoundOpen ==
    ASSUME NEW f, NEW k, NEW m, NEW D, NEW cl, NEW s, NEW l, NEW lk, NEW h \in Handles \ f,
           NEW o \in Listener, NEW inTable \in BOOLEAN,
           o \notin l, inTable => o \in Listable,
           Sound(f, k, m, D, cl, s, l, lk)
    PROVE  Sound(f \cup {h}, IF inTable THEN k \cup {h} ELSE k, m, D, cl,
                 [s EXCEPT ![o] = h], IF inTable THEN l \cup {o} ELSE l,
                 lk \cup ({s[o]} \ {NoSocket}))
<1> DEFINE z  == [s EXCEPT ![o] = h]
           l1 == IF inTable THEN l \cup {o} ELSE l
           k1 == IF inTable THEN k \cup {h} ELSE k
           lk1 == lk \cup ({s[o]} \ {NoSocket})
<1>1. h # NoSocket /\ h \notin AllHeld(m, D, cl, s, lk) /\ NoSocket \notin D \cup cl \cup lk
  BY HandlesTyped DEF Sound
<1>2. /\ z \in [Listener -> Handles \cup {NoSocket}] /\ z[o] = h
      /\ \A p \in Listener : p # o => z[p] = s[p]
      /\ s[o] \in Handles \cup {NoSocket}
  BY DEF Sound
<1> HIDE DEF z
<1>3. \A p \in Listener : s[p] # NoSocket => h # s[p]
  BY <1>1 DEF AllHeld
<1>4. h # m /\ h \notin D \cup cl \cup lk
  BY <1>1 DEF AllHeld
<1>5. Apart(m, D, cl, z, lk1)
  <2>1. m \notin D \cup cl \cup lk1 /\ D \cap cl = {} /\ D \cap lk1 = {} /\ cl \cap lk1 = {}
    BY DEF Sound, Apart
  <2>2. ASSUME NEW p \in Listener
        PROVE  /\ z[p] \notin D \cup cl \cup lk1
               /\ z[p] # NoSocket => z[p] # m
               /\ \A q \in Listener : z[p] = z[q] /\ z[p] # NoSocket => p = q
    <3>1. CASE p = o
      BY <1>2, <1>3, <1>4, <3>1
    <3>2. CASE p # o
      <4>1. s[p] \notin D \cup cl \cup lk /\ (s[p] # NoSocket => s[p] # m)
        BY DEF Sound, Apart
      <4>2. s[p] \notin {s[o]} \ {NoSocket}
        BY <3>2 DEF Sound, Apart
      <4>3. \A q \in Listener : s[p] = s[q] /\ s[p] # NoSocket => p = q
        BY DEF Sound, Apart
      <4> QED
        BY <1>2, <1>3, <3>2, <4>1, <4>2, <4>3
    <3> QED
      BY <3>1, <3>2
  <2> QED
    BY <2>1, <2>2 DEF Apart
<1>6. f \cup {h} = AllHeld(m, D, cl, z, lk1)
  BY <1>1, <1>2 DEF Sound, AllHeld
<1>7. k1 = Watched(m, D, cl, z, l1)
  <2>1. \A p \in l : p \in Listener /\ p # o /\ z[p] = s[p]
    BY <1>2 DEF Sound, Listable, Listener
  <2> QED
    BY <1>2, <2>1 DEF Sound, Watched
<1>8. \A p \in l1 : z[p] # NoSocket
  BY <1>1, <1>2 DEF Sound, Listable, Listener
<1>9. lk1 \subseteq Handles /\ l1 \subseteq Listable
  BY <1>2 DEF Sound
<1>10. D \cup cl \cup lk1 \subseteq Handles /\ m \in Handles \cup {NoSocket}
  BY <1>9 DEF Sound
<1> HIDE DEF l1, k1, lk1
<1>11. Sound(f \cup {h}, k1, m, D, cl, z, l1, lk1)
  BY <1>2, <1>5, <1>6, <1>7, <1>8, <1>9, <1>10 DEF Sound
<1> QED
  BY <1>11 DEF z, l1, k1, lk1

(* A socket is left open by everybody.                                     *)
LEMMA SoundLeak ==
    ASSUME NEW f, NEW k, NEW m, NEW D, NEW cl, NEW s, NEW l, NEW lk, NEW h \in Handles \ f,
           Sound(f, k, m, D, cl, s, l, lk)
    PROVE  Sound(f \cup {h}, k, m, D, cl, s, l, lk \cup {h})
<1>1. h # NoSocket /\ h \notin AllHeld(m, D, cl, s, lk)
  BY HandlesTyped DEF Sound
<1>2. Apart(m, D, cl, s, lk \cup {h})
  BY <1>1 DEF Sound, Apart, AllHeld
<1> QED
  BY <1>1, <1>2 DEF Sound, AllHeld

(* A listener closes its socket, or is destroyed with it.                  *)
Shut(o, f, k, s, l, f1, k1, s1, l1) ==
    /\ o \in Listener /\ s[o] # NoSocket
    /\ s1 \in [Listener -> Handles \cup {NoSocket}] /\ s1[o] = NoSocket
    /\ \A p \in Listener : p # o => s1[p] = s[p]
    /\ f1 = f \ {s[o]} /\ l1 = l \ {o}
    /\ k1 = k \ {s[o]} \/ (o \notin l /\ k1 = k)

LEMMA SoundShut ==
    ASSUME NEW f, NEW k, NEW m, NEW D, NEW cl, NEW s, NEW l, NEW lk,
           NEW o, NEW f1, NEW k1, NEW s1, NEW l1, Shut(o, f, k, s, l, f1, k1, s1, l1),
           Sound(f, k, m, D, cl, s, l, lk)
    PROVE  Sound(f1, k1, m, D, cl, s1, l1, lk)
<1>0. /\ o \in Listener /\ s[o] # NoSocket
      /\ s1 \in [Listener -> Handles \cup {NoSocket}] /\ s1[o] = NoSocket
      /\ \A p \in Listener : p # o => s1[p] = s[p]
      /\ f1 = f \ {s[o]} /\ l1 = l \ {o}
      /\ k1 = k \ {s[o]} \/ (o \notin l /\ k1 = k)
  BY DEF Shut
<1>1. NoSocket \notin D \cup cl \cup lk
  BY HandlesTyped DEF Sound
<1>3. /\ s[o] # m /\ s[o] \notin D \cup cl \cup lk
      /\ \A p \in Listener : p # o => s[p] # s[o]
  BY <1>0 DEF Sound, Apart
<1>4. Apart(m, D, cl, s1, lk)
  BY <1>0, <1>1 DEF Sound, Apart
<1>5. f1 = AllHeld(m, D, cl, s1, lk)
  BY <1>0, <1>3 DEF Sound, AllHeld
<1>6. \A p \in l : p \in Listener
  BY DEF Sound, Listable, Listener
<1>7. o \notin l => s[o] \notin k
  BY <1>0, <1>3, <1>6 DEF Sound, Watched
<1>8. k1 = Watched(m, D, cl, s1, l1)
  <2>1. {s1[p] : p \in l \ {o}} = {s[p] : p \in l} \ {s[o]}
    BY <1>0, <1>3, <1>6
  <2>2. k1 = k \ {s[o]}
    BY <1>0, <1>7
  <2> QED
    BY <1>0, <1>3, <2>1, <2>2 DEF Sound, Watched
<1>9. l1 \subseteq Listable /\ \A p \in l1 : s1[p] # NoSocket
  BY <1>0, <1>6 DEF Sound
<1> QED
  BY <1>0, <1>4, <1>5, <1>8, <1>9 DEF Sound

(* What is registered is open.                                             *)
LEMMA SoundWatched ==
    ASSUME NEW f, NEW k, NEW m, NEW D, NEW cl, NEW s, NEW l, NEW lk,
           Sound(f, k, m, D, cl, s, l, lk)
    PROVE  k \subseteq f /\ f \subseteq Handles
<1>1. \A o \in l : o \in Listener /\ s[o] # NoSocket
  BY DEF Sound, Listable, Listener
<1>2. k \subseteq f
  BY <1>1 DEF Sound, Watched, AllHeld
<1>3. f \subseteq Handles
  BY DEF Sound, AllHeld
<1> QED
  BY <1>2, <1>3

(* The invariant says what the runs check.                                 *)
LEMMA IInvMeans == IInv => TypeOK /\ SocketHeldOnce
<1> SUFFICES ASSUME IInv PROVE TypeOK /\ SocketHeldOnce
  OBVIOUS
<1>1. Sound(fds, keys, mSocket, DOMAIN items, closing, socket, listed, leaked)
  BY DEF IInv, Table
<1>2. keys \subseteq fds /\ fds \subseteq Handles
  BY <1>1, SoundWatched
<1>3. TypeOK
  <2>1. withdrawn \subseteq Calls
    BY ConnectAssumption DEF IInv, Owed, OwedBy, Others, Calls
  <2>2. \A h \in DOMAIN items : items[h] \in Items
    BY DEF IInv, ItemsTyped
  <2>3. TableTypeOK /\ ListenerTypeOK
    BY <1>1, <1>2 DEF IInv, Others, Sound, TableTypeOK, ListenerTypeOK
  <2> QED
    BY <1>1, <2>1, <2>2, <2>3 DEF IInv, Others, Sound, TypeOK
<1>4. DOMAIN HeldBy = {"client", "items", "closing", "server", "receiver", "sender", "nobody"}
  BY DEF HeldBy
<1>5. /\ HeldBy["client"] = {mSocket} \ {NoSocket} /\ HeldBy["items"] = DOMAIN items
      /\ HeldBy["closing"] = closing /\ HeldBy["nobody"] = leaked
      /\ HeldBy["server"] = {socket["server"]} \ {NoSocket}
      /\ HeldBy["receiver"] = {socket["receiver"]} \ {NoSocket}
      /\ HeldBy["sender"] = {socket["sender"]} \ {NoSocket}
  BY DEF HeldBy
<1> DEFINE F == <<socket["server"], socket["receiver"], socket["sender"]>>
<1>6. /\ mSocket \notin DOMAIN items \cup closing \cup leaked
      /\ DOMAIN items \cap closing = {} /\ DOMAIN items \cap leaked = {}
      /\ closing \cap leaked = {}
      /\ \A o \in Listener :
            /\ socket[o] \notin DOMAIN items \cup closing \cup leaked
            /\ socket[o] # NoSocket => socket[o] # mSocket
            /\ \A p \in Listener : socket[o] = socket[p] /\ socket[o] # NoSocket => o = p
  BY <1>1 DEF Sound, Apart
<1>7. \A o, p \in DOMAIN HeldBy : o # p => HeldBy[o] \cap HeldBy[p] = {}
  <2>1. /\ "server" \in Listener /\ "receiver" \in Listener /\ "sender" \in Listener
        /\ "server" # "receiver" /\ "server" # "sender" /\ "receiver" # "sender"
    BY DEF Listener
  <2>2. /\ HeldBy["server"] \cap HeldBy["receiver"] = {}
        /\ HeldBy["server"] \cap HeldBy["sender"] = {}
        /\ HeldBy["receiver"] \cap HeldBy["sender"] = {}
    BY <1>5, <1>6, <2>1
  <2>3. \A o \in Listener : /\ HeldBy[o] \cap HeldBy["client"] = {}
                            /\ HeldBy[o] \cap HeldBy["items"] = {}
                            /\ HeldBy[o] \cap HeldBy["closing"] = {}
                            /\ HeldBy[o] \cap HeldBy["nobody"] = {}
    BY <1>5, <1>6 DEF Listener
  <2>4. /\ HeldBy["client"] \cap HeldBy["items"] = {} /\ HeldBy["client"] \cap HeldBy["closing"] = {}
        /\ HeldBy["client"] \cap HeldBy["nobody"] = {} /\ HeldBy["items"] \cap HeldBy["closing"] = {}
        /\ HeldBy["items"] \cap HeldBy["nobody"] = {} /\ HeldBy["closing"] \cap HeldBy["nobody"] = {}
    BY <1>5, <1>6
  <2> HIDE DEF HeldBy
  <2> QED
    BY <1>4, <2>1, <2>2, <2>3, <2>4
<1>8. fds = UNION {HeldBy[o] : o \in DOMAIN HeldBy}
  <2>1. UNION {HeldBy[o] : o \in DOMAIN HeldBy} =
          HeldBy["client"] \cup HeldBy["items"] \cup HeldBy["closing"] \cup HeldBy["server"]
            \cup HeldBy["receiver"] \cup HeldBy["sender"] \cup HeldBy["nobody"]
    BY <1>4
  <2>2. fds = AllHeld(mSocket, DOMAIN items, closing, socket, leaked)
    BY <1>1 DEF Sound
  <2>3. {socket[o] : o \in Listener} = {socket["server"], socket["receiver"], socket["sender"]}
    BY DEF Listener
  <2> QED
    BY <1>5, <2>1, <2>2, <2>3 DEF AllHeld
<1>9. ASSUME ~overlapped
      PROVE  /\ channels = HeldBy["client"]
             /\ keys = channels \cup closing \cup DOMAIN items \cup {socket[o] : o \in listed}
             /\ Running => \A o \in Owners : option[o] \in {NoSocket, SocketOf(o)}
  <2>1. channels = {mSocket} \ {NoSocket}
    BY <1>9 DEF IInv, Single
  <2>2. keys = Watched(mSocket, DOMAIN items, closing, socket, listed)
    BY <1>1 DEF Sound
  <2>3. Running => \A o \in Owners : option[o] \in {NoSocket, SocketOf(o)}
    BY <1>9 DEF IInv, Options
  <2> QED
    BY <1>5, <2>1, <2>2, <2>3 DEF Watched
<1>10. \A o \in listed : socket[o] # NoSocket
  BY <1>1 DEF Sound
<1> QED
  BY <1>3, <1>7, <1>8, <1>9, <1>10 DEF SocketHeldOnce

-----------------------------------------------------------------------------
(* What the steps of connecting leave behind.                              *)

(* The handler that is stored is posted, if there is one.                  *)
LEMMA PostKeeps ==
    ASSUME NEW hd \in Calls \cup {NoCall}, NEW code \in Codes,
           NEW n, NEW ans, NEW wd, NEW run \in BOOLEAN,
           tasks \in Seq([call : Calls, code : Codes]),
           OwedBy(hd, tasks, n, ans, wd, TRUE), PostAnswer(hd, code)
    PROVE  /\ OwedBy(handler', tasks', n, ans, wd, run)
           /\ handler' = NoCall /\ tasks' \in Seq([call : Calls, code : Codes])
<1>1. handler' = NoCall
  BY DEF PostAnswer
<1>2. CASE hd = NoCall
  BY <1>1, <1>2 DEF PostAnswer, OwedBy, IsOwed, Calls, NoCall
<1>3. CASE hd # NoCall
  <2> DEFINE task == [call |-> hd, code |-> code]
  <2>1. tasks' = Append(tasks, task) /\ task \in [call : Calls, code : Codes] /\ task.call = hd
    BY <1>3 DEF PostAnswer
  <2> HIDE DEF task
  <2>2. /\ tasks' \in Seq([call : Calls, code : Codes]) /\ Len(tasks) \in Nat
        /\ Len(tasks') = Len(tasks) + 1 /\ tasks'[Len(tasks) + 1] = task
        /\ \A i \in 1..Len(tasks) : tasks'[i] = tasks[i]
    BY <2>1, AppendProperties, LenProperties
  <2>3. \A i \in 1..Len(tasks') : i \in 1..Len(tasks) \/ i = Len(tasks) + 1
    BY <2>2
  <2>4. hd # NoCall /\ IsOwed(hd, n, ans, wd) /\ NoCall \notin 1..n
    BY <1>3 DEF OwedBy, IsOwed, NoCall
  <2>5. \A i \in 1..Len(tasks) : IsOwed(tasks[i].call, n, ans, wd) /\ tasks[i].call # hd
    BY DEF OwedBy
  <2>6. \A i \in 1..Len(tasks') : IsOwed(tasks'[i].call, n, ans, wd)
    BY <2>1, <2>2, <2>3, <2>4, <2>5
  <2>7. \A i \in 1..Len(tasks') : tasks'[i].call # NoCall
    BY <2>4, <2>6 DEF IsOwed
  <2>8. ASSUME NEW i \in 1..Len(tasks'), NEW j \in 1..Len(tasks'),
               tasks'[i].call = tasks'[j].call
        PROVE  i = j
    <3>1. CASE i \in 1..Len(tasks) /\ j \in 1..Len(tasks)
      BY <2>2, <2>8, <3>1 DEF OwedBy
    <3> QED
      BY <2>1, <2>2, <2>3, <2>5, <2>8, <3>1
  <2>9. wd \subseteq 1..n /\ \A c \in Calls : c > n => ans[c] = 0
    BY DEF OwedBy
  <2> QED
    BY <1>1, <2>2, <2>6, <2>7, <2>8, <2>9 DEF OwedBy
<1> QED
  BY <1>2, <1>3

(* The part of the state that a step of connecting changes: descriptors,   *)
(* items and channels, when f, k and its are sound without the new socket. *)
Connected(its) ==
    /\ Table'
    /\ items' \in [DOMAIN items' -> Items]
    /\ channels' \subseteq Handles
    /\ DOMAIN its = {} /\ mSocket = NoSocket /\ channels = {} =>
          /\ channels' = {mSocket'} \ {NoSocket}
          /\ \A g, h \in DOMAIN items' : g = h
          /\ DOMAIN items' # {} => mSocket' = NoSocket

\* the handler hd is posted, or stored
Settled(hd) == \/ \E code \in Codes : PostAnswer(hd, code)
               \/ handler' = hd /\ tasks' = tasks

Others2 == UNCHANGED <<closing, socket, listed, leaked>>

(* A socket h that has connected, open and held by nobody                  *)
LEMMA OnConnectedKeeps ==
    ASSUME NEW f, NEW k, NEW its, NEW hd, NEW h \in Handles \ f,
           Sound(f, k, mSocket, DOMAIN its, closing, socket, listed, leaked),
           its \in [DOMAIN its -> Items], channels \subseteq Handles, Others2,
           OnConnected(f \cup {h}, k, its, hd, h)
    PROVE  Connected(its) /\ status' = status /\ Settled(hd)
<1>1. PICK outcome \in {0, -5121, -5122} :
         LET lives == IF outcome = 0 THEN {h} ELSE {} IN
         /\ fds' = ((f \cup {h}) \ {mSocket, h}) \cup lives
         /\ keys' = (k \ {mSocket, h}) \cup lives
         /\ mSocket' = IF outcome = 0 THEN h ELSE NoSocket
         /\ channels' = channels \cup lives
         /\ items' = its
         /\ PostAnswer(hd, outcome)
         /\ UNCHANGED status
  BY DEF OnConnected
<1>2. Settled(hd)
  BY <1>1 DEF Settled, Codes
<1>3. h \notin k /\ k \subseteq f
  BY SoundWatched
<1>4. Sound(f \ {mSocket}, k \ {mSocket}, NoSocket, DOMAIN its, closing, socket, listed, leaked)
  BY SoundLose
<1>5. CASE outcome = 0
  <2>1. h \in Handles \ (f \ {mSocket})
    OBVIOUS
  <2>2. Sound((f \ {mSocket}) \cup {h}, (k \ {mSocket}) \cup {h}, h, DOMAIN its, closing,
              socket, listed, leaked)
    BY <1>4, <2>1, SoundTake
  <2>3. /\ fds' = (f \ {mSocket}) \cup {h} /\ keys' = (k \ {mSocket}) \cup {h}
        /\ mSocket' = h /\ items' = its /\ channels' = channels \cup {h}
    BY <1>1, <1>3, <1>5
  <2>4. Table'
    BY <2>2, <2>3 DEF Table, Others2
  <2>5. h # NoSocket
    BY HandlesTyped
  <2> QED
    BY <1>1, <1>2, <2>3, <2>4, <2>5 DEF Connected
<1>6. CASE outcome # 0
  <2>3. /\ fds' = f \ {mSocket} /\ keys' = k \ {mSocket}
        /\ mSocket' = NoSocket /\ items' = its /\ channels' = channels
    BY <1>1, <1>3, <1>6
  <2>4. Table'
    BY <1>4, <2>3 DEF Table, Others2
  <2> QED
    BY <1>1, <1>2, <2>3, <2>4 DEF Connected
<1> QED
  BY <1>5, <1>6

(* An item enters the table.                                               *)
LEMMA AddedIs ==
    ASSUME NEW its, its \in [DOMAIN its -> Items], NEW h, NEW item \in Items
    PROVE  /\ DOMAIN Add(its, h, item) = DOMAIN its \cup {h}
           /\ Add(its, h, item) \in [DOMAIN its \cup {h} -> Items]
<1> QED
  BY DEF Add

(* tryTcpConnect, whatever becomes of it                                   *)
LEMMA TryKeeps ==
    ASSUME NEW f, NEW k, NEW its, NEW hd, NEW item \in Items,
           Sound(f, k, mSocket, DOMAIN its, closing, socket, listed, leaked),
           its \in [DOMAIN its -> Items], channels \subseteq Handles, Others2,
           TryTcpConnect(f, k, its, hd, item)
    PROVE  /\ Connected(its) /\ Settled(hd)
           /\ status' = status \/ status' = "dead"
<1>0. /\ item.left \in 0..MaxAddresses /\ item.error \in Codes /\ Errno \in Codes /\ -5103 \in Codes
      /\ 0 \in Int /\ MaxAddresses \in Nat
  BY ConnectAssumption DEF Items, Codes, Errno
<1>1. ASSUME items' = its, fds' = f, keys' = k, UNCHANGED <<mSocket, channels>>
      PROVE  Connected(its)
  <2>1. Table'
    BY <1>1 DEF Table, Others2
  <2> QED
    BY <1>1, <2>1 DEF Connected
<1>2. CASE Crash(f, k, its, hd)
  BY <1>1, <1>2 DEF Crash, Settled
<1>3. ASSUME NEW code \in Codes, OnConnectFailed(f, k, its, hd, code)
      PROVE  Connected(its) /\ Settled(hd) /\ status' = status
  BY <1>1, <1>3 DEF OnConnectFailed, Settled
<1>4. CASE GiveUp(f, k, its, hd, item)
  BY <1>0, <1>3, <1>4 DEF GiveUp
<1>5. CASE TryAddress(f, k, its, hd, item)
  <2> DEFINE h == NewHandle(f)
             next(n) == [item EXCEPT !.left = @ - n - 1, !.net = "pending"]
  <2>1. PICK failing \in 0..(item.left - 1) :
          /\ Free(f) # {}
          /\ \/ OnConnectFailed(f, k, its, hd, -5103)
             \/ OnConnected(f \cup {h}, k, its, hd, h)
             \/ /\ items' = Add(its, h, next(failing))
                /\ fds' = f \cup {h}
                /\ keys' = k \cup {h}
                /\ handler' = hd
                /\ UNCHANGED <<mSocket, channels, tasks, status>>
    BY <1>5 DEF TryAddress
  <2>2. h \in Handles \ f
    BY <2>1, NewHandleIs
  <2>3. next(failing) \in Items
    <3>1. item.left - failing - 1 \in 0..MaxAddresses
      BY <1>0
    <3> QED
      BY <3>1 DEF Items
  <2> DEFINE it == next(failing)
  <2> HIDE DEF h, next
  <2>4. CASE OnConnectFailed(f, k, its, hd, -5103)
    BY <1>0, <1>3, <2>4
  <2>5. CASE OnConnected(f \cup {h}, k, its, hd, h)
    BY <2>2, <2>5, OnConnectedKeeps
  <2>6. CASE /\ items' = Add(its, h, it) /\ fds' = f \cup {h} /\ keys' = k \cup {h}
             /\ handler' = hd /\ UNCHANGED <<mSocket, channels, tasks, status>>
    <3>1. DOMAIN items' = DOMAIN its \cup {h} /\ items' \in [DOMAIN its \cup {h} -> Items]
      BY <2>3, <2>6, AddedIs
    <3>2. Sound(f \cup {h}, k \cup {h}, mSocket, DOMAIN its \cup {h}, closing, socket, listed,
                leaked)
      BY <2>2, SoundAdd
    <3>3. Table'
      BY <2>6, <3>1, <3>2 DEF Table, Others2
    <3> QED
      BY <2>6, <3>1, <3>3 DEF Connected, Settled
  <2> QED
    BY <2>1, <2>4, <2>5, <2>6
<1> QED
  BY <1>2, <1>4, <1>5 DEF TryTcpConnect

(* onConnect without a socket                                              *)
LEMMA FailedKeeps ==
    ASSUME NEW f, NEW k, NEW its, NEW hd, NEW code \in Codes,
           Sound(f, k, mSocket, DOMAIN its, closing, socket, listed, leaked),
           its \in [DOMAIN its -> Items], channels \subseteq Handles, Others2,
           OnConnectFailed(f, k, its, hd, code)
    PROVE  Connected(its) /\ Settled(hd) /\ status' = status
<1>1. Table'
  BY DEF OnConnectFailed, Table, Others2
<1> QED
  BY <1>1 DEF OnConnectFailed, Connected, Settled

(* Whether the handler is posted or stored, its call is owed.              *)
LEMMA SettledKeeps ==
    ASSUME NEW hd \in Calls \cup {NoCall}, NEW n, NEW ans, NEW wd,
           tasks \in Seq([call : Calls, code : Codes]),
           OwedBy(hd, tasks, n, ans, wd, TRUE), Settled(hd)
    PROVE  /\ OwedBy(handler', tasks', n, ans, wd, Running')
           /\ handler' \in Calls \cup {NoCall}
           /\ tasks' \in Seq([call : Calls, code : Codes])
<1>0. Running' \in BOOLEAN
  BY DEF Running
<1>1. CASE handler' = hd /\ tasks' = tasks
  BY <1>1 DEF OwedBy
<1>2. CASE \E code \in Codes : PostAnswer(hd, code)
  <2>1. PICK code \in Codes : PostAnswer(hd, code)
    BY <1>2
  <2> QED
    BY <1>0, <2>1, PostKeeps DEF NoCall
<1> QED
  BY <1>1, <1>2 DEF Settled

(* The first of the client's items is one of them.                         *)
LEMMA FirstItemIs ==
    ASSUME DOMAIN items \subseteq Handles, DOMAIN items # {}
    PROVE  FirstItem \in DOMAIN items
<1>1. DOMAIN items \in SUBSET Nat
  BY HandlesTyped
<1>2. \E h \in DOMAIN items : \A g \in DOMAIN items : h <= g
  BY <1>1, MinNat
<1> QED
  BY <1>2 DEF FirstItem

(* The table is empty, or it is not.                                       *)
LEMMA NoItems ==
    ASSUME ItemsTyped
    PROVE  items = <<>> <=> DOMAIN items = {}
<1>1. <<>> \in Seq(Items) /\ Len(<<>>) = 0 /\ DOMAIN <<>> = 1..Len(<<>>)
  BY EmptySeq, LenProperties
<1>2. DOMAIN <<>> = {}
  BY <1>1
<1>3. ASSUME DOMAIN items = {} PROVE items = <<>>
  BY <1>2, <1>3, <1>1 DEF ItemsTyped
<1> QED
  BY <1>2, <1>3

(* An item leaves the table.                                               *)
LEMMA DroppedIs ==
    ASSUME NEW its, its \in [DOMAIN its -> Items], NEW h \in DOMAIN its
    PROVE  /\ DOMAIN Drop(its, h) = DOMAIN its \ {h}
           /\ Drop(its, h) \in [DOMAIN Drop(its, h) -> Items]
<1> QED
  BY DEF Drop, Restrict

-----------------------------------------------------------------------------
(* The invariant holds at first.                                           *)
LEMMA InitInv == Init => IInv
<1> SUFFICES ASSUME Init PROVE IInv
  OBVIOUS
<1> USE DEF Init, TableInit, ClientInit, ListenerInit
<1>1. DOMAIN items = {} /\ ItemsTyped
  <2>1. <<>> \in Seq(Items) /\ Len(<<>>) = 0 /\ DOMAIN <<>> = 1..Len(<<>>)
    BY EmptySeq, LenProperties
  <2>2. DOMAIN <<>> = {} /\ <<>> \in [DOMAIN <<>> -> Items]
    BY <2>1
  <2> QED
    BY <2>2 DEF ItemsTyped
<1>2. Table
  <2>1. Apart(mSocket, DOMAIN items, closing, socket, leaked)
    BY <1>1 DEF Apart
  <2>2. fds = AllHeld(mSocket, DOMAIN items, closing, socket, leaked)
    BY <1>1 DEF AllHeld
  <2>3. keys = Watched(mSocket, DOMAIN items, closing, socket, listed)
    BY <1>1 DEF Watched
  <2> QED
    BY <1>1, <2>1, <2>2, <2>3 DEF Table, Sound
<1>3. Others
  <2>1. tasks \in Seq([call : Calls, code : Codes]) /\ 0 \in 0..MaxConnects
    BY ConnectAssumption
  <2> QED
    BY <2>1 DEF Others
<1>4. Single /\ Options
  BY <1>1 DEF Single, Options
<1>5. Owed
  BY ConnectAssumption DEF Owed, OwedBy, IsOwed, Calls
<1> QED
  BY <1>1, <1>2, <1>3, <1>4, <1>5 DEF IInv

(* The invariant is inductive.                                             *)
LEMMA NextInv == IInv /\ [Next]_vars => IInv'
<1> SUFFICES ASSUME IInv, [Next]_vars PROVE IInv'
  OBVIOUS
<1>a. /\ Sound(fds, keys, mSocket, DOMAIN items, closing, socket, listed, leaked)
      /\ items \in [DOMAIN items -> Items] /\ channels \subseteq Handles
      /\ DOMAIN items \subseteq Handles /\ mSocket \in Handles \cup {NoSocket}
      /\ tasks \in Seq([call : Calls, code : Codes])
      /\ socket \in [Listener -> Handles \cup {NoSocket}]
      /\ NoSocket \notin Handles
      /\ option \in [Owners -> Handles \cup {NoSocket}]
      /\ "client" \notin Listener /\ Owners = {"client"} \cup Listener
  BY HandlesTyped DEF IInv, Table, Sound, ItemsTyped, Others, Owners, Listener
\* the calls and what is owed stay as they are
<1>b. ASSUME UNCHANGED <<handler, tasks, calls, answers, withdrawn>>,
             status' = status \/ status' # "running"
      PROVE  Owed'
  <2>1. Running' => Running
    BY <1>b DEF Running
  <2> QED
    BY <1>b, <2>1 DEF IInv, Owed, OwedBy
\* only the client's part of the table changes, and no call is made
<1>c. ASSUME NEW its, Connected(its), Settled(handler), Running,
             status' = status \/ status' = "dead",
             ~overlapped => DOMAIN its = {} /\ mSocket = NoSocket /\ channels = {},
             UNCHANGED <<calls, answers, withdrawn, overlapped, option, listenerVars>>
      PROVE  IInv'
  <2>1. OwedBy(handler, tasks, calls, answers, withdrawn, TRUE)
    BY <1>c DEF IInv, Owed
  <2>2. /\ OwedBy(handler', tasks', calls, answers, withdrawn, Running')
        /\ handler' \in Calls \cup {NoCall} /\ tasks' \in Seq([call : Calls, code : Codes])
    BY <1>a, <1>c, <2>1, SettledKeeps DEF IInv, Others
  <2>3. Owed'
    BY <1>c, <2>2 DEF Owed
  <2>4. Others'
    BY <1>c, <2>2 DEF IInv, Others, Connected
  <2>5. Single'
    BY <1>c DEF Connected, Single
  <2>6. Options'
    <3>1. ~overlapped => option["client"] \in {NoSocket, mSocket} /\ mSocket = NoSocket
      BY <1>a, <1>c DEF IInv, Options, SocketOf
    <3>2. ~overlapped => \A o \in Listener : option[o] \in {NoSocket, socket[o]}
      BY <1>a, <1>c DEF IInv, Options, SocketOf
    <3> QED
      BY <1>a, <1>c, <3>1, <3>2 DEF Options, SocketOf, listenerVars
  <2> QED
    BY <1>c, <2>3, <2>4, <2>5, <2>6 DEF IInv, Connected, ItemsTyped
\* the listeners are left alone, and so are the options of theirs
<1>d. ASSUME UNCHANGED <<socket, status>>, overlapped' = overlapped,
             option'["client"] \in {NoSocket, mSocket'} \/ overlapped \/ ~Running,
             \A o \in Listener : option'[o] = option[o]
      PROVE  Options'
  <2>1. ~overlapped /\ Running => \A o \in Listener : option[o] \in {NoSocket, socket[o]}
    BY <1>a DEF IInv, Options, SocketOf
  <2> QED
    BY <1>a, <1>d, <2>1 DEF Options, SocketOf, Running
<1>1. CASE Connect /\ UNCHANGED listenerVars
  <2>0. /\ Running /\ mSocket = NoSocket /\ calls < MaxConnects /\ calls' = calls + 1
        /\ overlapped' = (overlapped \/ handler # NoCall \/ items # <<>>)
        /\ withdrawn' = withdrawn \cup ({handler} \ {NoCall})
        /\ UNCHANGED <<closing, answers, option, socket, listed, leaked>>
    BY <1>1 DEF Connect, listenerVars
  <2>1. calls \in Nat /\ calls' \in 1..MaxConnects /\ calls' \in Calls
    BY <2>0, ConnectAssumption DEF IInv, Others, Calls
  <2>2. Connected(items) /\ Settled(calls') /\ (status' = status \/ status' = "dead")
    <3>1. CASE \E code \in {-5101, -5110} : OnConnectFailed(fds, keys, items, calls', code)
      <4>1. PICK code \in {-5101, -5110} : OnConnectFailed(fds, keys, items, calls', code)
        BY <3>1
      <4>2. code \in Codes
        BY DEF Codes
      <4> QED
        BY <1>a, <2>0, <4>1, <4>2, FailedKeeps DEF Others2
    <3>2. CASE \E n \in 1..MaxAddresses :
                 TryTcpConnect(fds, keys, items, calls',
                               [left |-> n, error |-> -5100, timer |-> "running",
                                net |-> "pending"])
      <4>1. PICK n \in 1..MaxAddresses :
              TryTcpConnect(fds, keys, items, calls',
                            [left |-> n, error |-> -5100, timer |-> "running",
                             net |-> "pending"])
        BY <3>2
      <4>2. [left |-> n, error |-> -5100, timer |-> "running", net |-> "pending"] \in Items
        BY ConnectAssumption DEF Items, Codes
      <4> QED
        BY <1>a, <2>0, <4>1, <4>2, TryKeeps DEF Others2
    <3> QED
      BY <1>1, <3>1, <3>2 DEF Connect
  <2>3. OwedBy(calls', tasks, calls', answers, withdrawn', TRUE)
    <3>1. /\ \A c : IsOwed(c, calls, answers, withdrawn) =>
                      c \in 1..calls /\ answers[c] = 0 /\ c \notin withdrawn
          /\ handler # NoCall => handler \in 1..calls
          /\ \A i \in 1..Len(tasks) : /\ IsOwed(tasks[i].call, calls, answers, withdrawn)
                                      /\ tasks[i].call # handler
          /\ \A i, j \in 1..Len(tasks) : tasks[i].call = tasks[j].call => i = j
          /\ withdrawn \subseteq 1..calls
          /\ \A c \in Calls : c > calls => answers[c] = 0
      BY <2>0 DEF IInv, Owed, OwedBy, IsOwed
    <3>2. /\ \A c \in 1..calls : c \in 1..calls' /\ c # calls'
          /\ calls' > calls /\ calls' \in 1..calls' /\ calls' \notin 1..calls
          /\ \A c \in Calls : c > calls' => c > calls
      BY <2>0, <2>1 DEF Calls
    <3>3. IsOwed(calls', calls', answers, withdrawn')
      BY <2>0, <2>1, <3>1, <3>2 DEF IsOwed
    <3>4. \A i \in 1..Len(tasks) : /\ IsOwed(tasks[i].call, calls', answers, withdrawn')
                                   /\ tasks[i].call # calls'
      BY <2>0, <3>1, <3>2 DEF IsOwed
    <3>5. withdrawn' \subseteq 1..calls' /\ \A c \in Calls : c > calls' => answers[c] = 0
      BY ZenonT(40), <2>0, <3>1, <3>2
    <3> QED
      BY <3>1, <3>3, <3>4, <3>5 DEF OwedBy
  <2>4. /\ OwedBy(handler', tasks', calls', answers, withdrawn', Running')
        /\ handler' \in Calls \cup {NoCall} /\ tasks' \in Seq([call : Calls, code : Codes])
    BY <1>a, <2>1, <2>2, <2>3, SettledKeeps
  <2>5. Owed'
    BY <2>0, <2>4 DEF Owed
  <2>6. Others'
    <3>1. calls' \in 0..MaxConnects /\ overlapped' \in BOOLEAN
      BY <2>0, <2>1 DEF IInv, Others
    <3> QED
      BY <2>0, <2>2, <2>4, <3>1 DEF IInv, Others, Connected
  <2>7. ~overlapped' => DOMAIN items = {} /\ mSocket = NoSocket /\ channels = {} /\ ~overlapped
    BY <2>0, NoItems DEF IInv, Single
  <2>8. Single'
    BY <2>2, <2>7 DEF Connected, Single
  <2>9. Options'
    <3>1. ~overlapped => option["client"] \in {NoSocket, mSocket} /\ mSocket = NoSocket
      BY <1>a, <2>0 DEF IInv, Options, SocketOf
    <3>2. ~overlapped => \A o \in Listener : option[o] \in {NoSocket, socket[o]}
      BY <1>a, <2>0 DEF IInv, Options, SocketOf
    <3> QED
      BY <1>a, <2>0, <2>7, <3>1, <3>2 DEF Options, SocketOf
  <2> QED
    BY <2>2, <2>5, <2>6, <2>8, <2>9 DEF IInv, Connected, ItemsTyped
<1>2. CASE CancelConnect /\ UNCHANGED listenerVars
  <2>0. /\ Running /\ handler' = NoCall
        /\ withdrawn' = withdrawn \cup ({handler} \ {NoCall})
        /\ UNCHANGED <<mSocket, channels, closing, tasks, calls, answers, overlapped, option,
                       status, socket, listed, leaked>>
    BY <1>2 DEF CancelConnect, listenerVars
  <2>1. /\ Table' /\ ItemsTyped' /\ DOMAIN items' \subseteq DOMAIN items
    <3>1. CASE items = <<>>
      BY <1>2, <2>0, <3>1 DEF CancelConnect, IInv, Table, ItemsTyped
    <3>2. CASE items # <<>>
      <4>1. FirstItem \in DOMAIN items
        BY <1>a, <3>2, FirstItemIs, NoItems DEF IInv
      <4>2. /\ items' = Drop(items, FirstItem)
            /\ fds' = fds \ {FirstItem} /\ keys' = keys \ {FirstItem}
        BY <1>2, <3>2 DEF CancelConnect, CloseSocketOf
      <4>3. Sound(fds \ {FirstItem}, keys \ {FirstItem}, mSocket, DOMAIN items \ {FirstItem},
                  closing, socket, listed, leaked)
        BY <1>a, <4>1, SoundDrop
      <4>4. DOMAIN items' = DOMAIN items \ {FirstItem} /\ items' \in [DOMAIN items' -> Items]
        BY <1>a, <4>1, <4>2, DroppedIs
      <4> QED
        BY <2>0, <4>2, <4>3, <4>4 DEF Table, ItemsTyped
    <3> QED
      BY <3>1, <3>2
  <2>2. Owed'
    <3>1. /\ \A i \in 1..Len(tasks) : /\ IsOwed(tasks[i].call, calls, answers, withdrawn)
                                      /\ tasks[i].call # handler
          /\ handler # NoCall => handler \in 1..calls
          /\ \A i, j \in 1..Len(tasks) : tasks[i].call = tasks[j].call => i = j
          /\ withdrawn \subseteq 1..calls /\ \A c \in Calls : c > calls => answers[c] = 0
      BY <2>0 DEF IInv, Owed, OwedBy, IsOwed
    <3>2. \A i \in 1..Len(tasks) : /\ IsOwed(tasks[i].call, calls, answers, withdrawn')
                                   /\ tasks[i].call # NoCall
      BY <2>0, <3>1 DEF IsOwed, NoCall
    <3> QED
      BY <2>0, <3>1, <3>2 DEF Owed, OwedBy
  <2>3. Others'
    BY <2>0 DEF IInv, Others
  <2>4. Single' /\ Options'
    <3>1. Single'
      BY <2>0, <2>1 DEF IInv, Single
    <3>2. Options'
      BY <2>0 DEF IInv, Options, Running, SocketOf
    <3> QED
      BY <3>1, <3>2
  <2> QED
    BY <2>1, <2>2, <2>3, <2>4 DEF IInv
<1>3. CASE Close /\ UNCHANGED listenerVars
  <2>0. /\ Running /\ mSocket # NoSocket /\ channels' = channels \ {mSocket}
        /\ mSocket' = NoSocket /\ option' = [option EXCEPT !["client"] = NoSocket]
        /\ \/ closing' = closing \cup {mSocket} /\ UNCHANGED <<fds, keys>>
           \/ /\ fds' = fds \ {mSocket} /\ keys' = keys \ {mSocket} /\ UNCHANGED closing
        /\ UNCHANGED <<items, handler, tasks, calls, answers, withdrawn, overlapped, status,
                       socket, listed, leaked>>
    BY <1>3 DEF Close, listenerVars, ClearOption
  <2>1. Sound(fds', keys', NoSocket, DOMAIN items, closing', socket, listed, leaked)
    <3>1. CASE closing' = closing \cup {mSocket} /\ UNCHANGED <<fds, keys>>
      BY <1>a, <2>0, <3>1, SoundClose
    <3>2. CASE fds' = fds \ {mSocket} /\ keys' = keys \ {mSocket} /\ UNCHANGED closing
      BY <1>a, <3>2, SoundLose
    <3> QED
      BY <2>0, <3>1, <3>2
  <2>2. Table' /\ ItemsTyped'
    BY <2>0, <2>1 DEF Table, IInv, ItemsTyped
  <2>3. /\ option' \in [Owners -> Handles \cup {NoSocket}] /\ option'["client"] = NoSocket
        /\ \A o \in Listener : option'[o] = option[o]
    BY <1>a, <2>0
  <2>4. Others' /\ Single'
    BY <2>0, <2>3 DEF IInv, Others, Single
  <2> QED
    BY <1>b, <1>d, <2>0, <2>2, <2>3, <2>4 DEF IInv
<1>4. CASE PeerCloses /\ UNCHANGED listenerVars
  <2>0. /\ Running /\ mSocket # NoSocket /\ channels' = channels \ {mSocket}
        /\ mSocket' = NoSocket /\ option' = [option EXCEPT !["client"] = NoSocket]
        /\ fds' = fds \ {mSocket} /\ keys' = keys \ {mSocket}
        /\ UNCHANGED <<closing, items, handler, tasks, calls, answers, withdrawn, overlapped,
                       status, socket, listed, leaked>>
    BY <1>4 DEF PeerCloses, listenerVars, ClearOption
  <2>1. Sound(fds', keys', NoSocket, DOMAIN items, closing', socket, listed, leaked)
    BY <1>a, <2>0, SoundLose
  <2>2. Table' /\ ItemsTyped'
    BY <2>0, <2>1 DEF Table, IInv, ItemsTyped
  <2>3. /\ option' \in [Owners -> Handles \cup {NoSocket}] /\ option'["client"] = NoSocket
        /\ \A o \in Listener : option'[o] = option[o]
    BY <1>a, <2>0
  <2>4. Others' /\ Single'
    BY <2>0, <2>3 DEF IInv, Others, Single
  <2> QED
    BY <1>b, <1>d, <2>0, <2>2, <2>3, <2>4 DEF IInv
<1>5. ASSUME NEW h \in Handles, CloseEnds(h), UNCHANGED listenerVars PROVE IInv'
  <2>0. /\ h \in closing /\ closing' = closing \ {h} /\ fds' = fds \ {h} /\ keys' = keys \ {h}
        /\ UNCHANGED <<items, mSocket, handler, channels, tasks, calls, answers, withdrawn,
                       overlapped, option, status, socket, listed, leaked>>
    BY <1>5 DEF CloseEnds, listenerVars
  <2>1. Sound(fds', keys', mSocket, DOMAIN items, closing', socket, listed, leaked)
    BY <1>a, <2>0, SoundEnd
  <2>2. Table' /\ ItemsTyped' /\ Others' /\ Single'
    BY <2>0, <2>1 DEF Table, IInv, ItemsTyped, Others, Single
  <2>3. Options'
    BY <2>0 DEF IInv, Options, Running, SocketOf
  <2> QED
    BY <1>b, <2>0, <2>2, <2>3 DEF IInv
\* an item changes
<1>6. ASSUME NEW h \in DOMAIN items, NEW item \in Items, items' = [items EXCEPT ![h] = item],
             UNCHANGED <<tableVars, mSocket, handler, channels, closing, tasks, calls, answers,
                         withdrawn, overlapped, listenerVars>>
      PROVE  IInv'
  <2>1. DOMAIN items' = DOMAIN items /\ items' \in [DOMAIN items' -> Items]
    BY <1>a, <1>6
  <2>2. Table' /\ ItemsTyped' /\ Others' /\ Single'
    BY <1>6, <2>1 DEF Table, IInv, ItemsTyped, Others, Single, tableVars, listenerVars
  <2>3. Options'
    BY <1>6 DEF IInv, Options, Running, SocketOf, tableVars, listenerVars
  <2> QED
    BY <1>b, <1>6, <2>2, <2>3 DEF IInv, tableVars
<1>7. ASSUME NEW h \in Handles, NEW result \in {"ok", "refused"}, KernelConnects(h, result),
             UNCHANGED listenerVars
      PROVE  IInv'
  <2>1. h \in DOMAIN items /\ items[h] \in Items
    BY <1>a, <1>7 DEF KernelConnects
  <2>2. [items[h] EXCEPT !.net = result] \in Items
    BY <2>1 DEF Items
  <2>3. items' = [items EXCEPT ![h] = [items[h] EXCEPT !.net = result]]
    BY <1>7 DEF KernelConnects
  <2> QED
    BY <1>6, <1>7, <2>1, <2>2, <2>3 DEF KernelConnects, tableVars
<1>8. ASSUME NEW h \in Handles, TimeOut(h), UNCHANGED listenerVars PROVE IInv'
  <2>1. h \in DOMAIN items /\ items[h] \in Items
    BY <1>a, <1>8 DEF TimeOut
  <2>2. [items[h] EXCEPT !.timer = "expired"] \in Items
    BY <2>1 DEF Items
  <2>3. items' = [items EXCEPT ![h] = [items[h] EXCEPT !.timer = "expired"]]
    BY <1>8 DEF TimeOut
  <2> QED
    BY <1>6, <1>8, <2>1, <2>2, <2>3 DEF TimeOut, tableVars
<1>9. ASSUME NEW h \in Handles, SelectConnect(h), UNCHANGED listenerVars PROVE IInv'
  <2> DEFINE its == Drop(items, h)
  <2>0. /\ Running /\ h \in DOMAIN items /\ items[h] \in Items
        /\ UNCHANGED <<closing, calls, answers, withdrawn, overlapped, option, socket, listed,
                       leaked>>
    BY <1>a, <1>9 DEF SelectConnect, listenerVars
  <2>1. DOMAIN its = DOMAIN items \ {h} /\ its \in [DOMAIN its -> Items]
    BY <1>a, <2>0, DroppedIs
  <2>2. Sound(fds \ {h}, keys \ {h}, mSocket, DOMAIN its, closing, socket, listed, leaked)
    BY <1>a, <2>0, <2>1, SoundDrop
  <2>3. h \in fds
    BY <1>a, <2>0 DEF Sound, AllHeld
  <2> HIDE DEF its
  <2>4. Connected(its) /\ Settled(handler) /\ (status' = status \/ status' = "dead")
    <3>1. CASE items[h].net = "ok"
      <4>1. OnConnected(fds, keys \ {h}, its, handler, h)
        BY <1>9, <3>1 DEF SelectConnect, its
      <4>2. (fds \ {h}) \cup {h} = fds /\ h \in Handles \ (fds \ {h})
        BY <2>3
      <4>3. OnConnected((fds \ {h}) \cup {h}, keys \ {h}, its, handler, h)
        BY <4>1, <4>2
      <4> QED
        BY <1>a, <2>0, <2>1, <2>2, <4>2, <4>3, OnConnectedKeeps DEF Others2
    <3>2. CASE items[h].net # "ok"
      <4>1. TryTcpConnect(fds \ {h}, keys \ {h}, its, handler, [items[h] EXCEPT !.error = Errno])
        BY <1>9, <3>2 DEF SelectConnect, its
      <4>2. [items[h] EXCEPT !.error = Errno] \in Items
        BY <2>0 DEF Items, Codes, Errno
      <4> QED
        BY <1>a, <2>0, <2>1, <2>2, <4>1, <4>2, TryKeeps DEF Others2
    <3> QED
      BY <3>1, <3>2
  <2>5. ~overlapped => DOMAIN its = {} /\ mSocket = NoSocket /\ channels = {}
    BY <2>0, <2>1 DEF IInv, Single
  <2> QED
    BY <1>c, <1>9, <2>0, <2>4, <2>5
<1>10. ASSUME NEW h \in Handles, TimerTask(h), UNCHANGED listenerVars PROVE IInv'
  <2>0. /\ Running /\ h \in DOMAIN items /\ PostAnswer(handler, -5102)
        /\ items' = [g \in DOMAIN items \ {FirstItem} |->
                       IF g = h THEN [items[h] EXCEPT !.timer = "off"] ELSE items[g]]
        /\ fds' = fds \ {FirstItem} /\ keys' = keys \ {FirstItem}
        /\ UNCHANGED <<mSocket, channels, closing, calls, answers, withdrawn, overlapped,
                       option, status, socket, listed, leaked>>
    BY <1>10 DEF TimerTask, CloseSocketOf, listenerVars
  <2>1. FirstItem \in DOMAIN items
    BY <1>a, <2>0, FirstItemIs
  <2>2. [items[h] EXCEPT !.timer = "off"] \in Items
    <3>1. items[h] \in Items
      BY <1>a, <2>0
    <3> QED
      BY <3>1 DEF Items
  <2>3. DOMAIN items' = DOMAIN items \ {FirstItem} /\ items' \in [DOMAIN items' -> Items]
    BY <1>a, <2>0, <2>2
  <2>4. Sound(fds \ {FirstItem}, keys \ {FirstItem}, mSocket, DOMAIN items \ {FirstItem},
              closing, socket, listed, leaked)
    BY <1>a, <2>1, SoundDrop
  <2>5. Table'
    BY <2>0, <2>3, <2>4 DEF Table
  <2>6. Settled(handler)
    BY <2>0 DEF Settled, Codes
  <2>7. ~overlapped => DOMAIN items' = {} /\ mSocket = NoSocket /\ channels = {}
    BY <2>0, <2>1, <2>3 DEF IInv, Single
  <2>8. Connected(items')
    BY <1>a, <2>0, <2>3, <2>5, <2>7 DEF Connected, IInv, Single
  <2>9. PICK its : its = items'
    OBVIOUS
  <2>10. Connected(its) /\ (~overlapped => DOMAIN its = {} /\ mSocket = NoSocket /\ channels = {})
    BY <2>7, <2>8, <2>9 DEF Connected
  <2> QED
    BY <1>c, <1>10, <2>0, <2>6, <2>10
<1>11. CASE RunAnswer /\ UNCHANGED listenerVars
  <2>0. /\ Running /\ tasks # <<>> /\ tasks' = Tail(tasks)
        /\ answers' = [answers EXCEPT ![Head(tasks).call] = @ + 1]
        /\ UNCHANGED <<fds, keys, option, status, items, mSocket, handler, channels, closing,
                       calls, withdrawn, overlapped, socket, listed, leaked>>
    BY <1>11 DEF RunAnswer, listenerVars
  <2> DEFINE c == Head(tasks).call
  <2>1. /\ Len(tasks) \in Nat /\ 1 \in 1..Len(tasks) /\ Head(tasks) = tasks[1]
        /\ Tail(tasks) \in Seq([call : Calls, code : Codes])
        /\ Len(Tail(tasks)) = Len(tasks) - 1
        /\ \A i \in 1..(Len(tasks) - 1) : Tail(tasks)[i] = tasks[i + 1]
    BY <1>a, <2>0, HeadTailProperties, LenProperties
  <2>2. c \in Calls /\ c = tasks[1].call
    <3>1. tasks[1] \in [call : Calls, code : Codes]
      BY <1>a, <2>1, ElementOfSeq
    <3> QED
      BY <2>1, <3>1
  <2> HIDE DEF c
  <2>3. answers' \in [Calls -> Nat] /\ \A d \in Calls : d # c => answers'[d] = answers[d]
    BY <2>0, <2>2 DEF IInv, Others, c
  <2>4. Others'
    BY <2>0, <2>1, <2>3 DEF IInv, Others
  <2>5. Owed'
    <3>1. /\ \A i \in 1..Len(tasks) : /\ IsOwed(tasks[i].call, calls, answers, withdrawn)
                                      /\ tasks[i].call # handler
          /\ handler # NoCall => IsOwed(handler, calls, answers, withdrawn)
          /\ \A i, j \in 1..Len(tasks) : tasks[i].call = tasks[j].call => i = j
          /\ withdrawn \subseteq 1..calls /\ \A d \in Calls : d > calls => answers[d] = 0
      BY <2>0 DEF IInv, Owed, OwedBy
    <3>2. calls \in Nat /\ \A d \in 1..calls : d \in Calls /\ ~(d > calls)
      BY ConnectAssumption DEF IInv, Others, Calls
    <3>3. \A d : d # c /\ IsOwed(d, calls, answers, withdrawn)
                  => IsOwed(d, calls, answers', withdrawn)
      BY <2>3, <3>2 DEF IsOwed
    <3>4. c # handler /\ c \in 1..calls
      BY <2>1, <2>2, <3>1 DEF IsOwed
    <3>5. \A i \in 1..(Len(tasks) - 1) : /\ i + 1 \in 1..Len(tasks) /\ i + 1 # 1
                                         /\ Tail(tasks)[i] = tasks[i + 1]
      BY <2>1
    <3>6. \A i \in 1..(Len(tasks) - 1) :
             /\ IsOwed(Tail(tasks)[i].call, calls, answers', withdrawn)
             /\ Tail(tasks)[i].call # handler
      BY <2>1, <2>2, <3>1, <3>3, <3>5
    <3>7. \A i, j \in 1..(Len(tasks) - 1) : Tail(tasks)[i].call = Tail(tasks)[j].call => i = j
      <4>1. ASSUME NEW i \in 1..(Len(tasks) - 1), NEW j \in 1..(Len(tasks) - 1),
                   Tail(tasks)[i].call = Tail(tasks)[j].call
            PROVE  i = j
        <5>1. i + 1 = j + 1
          BY <3>1, <3>5, <4>1
        <5> QED
          BY <2>1, <5>1
      <4> QED
        BY <4>1
    <3>8. \A d \in Calls : d > calls => answers'[d] = 0
      BY <2>3, <3>1, <3>2, <3>4
    <3> QED
      BY <2>0, <2>1, <3>1, <3>3, <3>4, <3>6, <3>7, <3>8 DEF Owed, OwedBy
  <2>6. Table' /\ ItemsTyped' /\ Single'
    BY <2>0 DEF IInv, Table, ItemsTyped, Single
  <2>7. Options'
    BY <2>0 DEF IInv, Options, Running, SocketOf
  <2> QED
    BY <2>4, <2>5, <2>6, <2>7 DEF IInv
\* a listener's step: the client and what is owed stay as they are
<1>e. ASSUME NEW f, NEW k, NEW s, NEW l, NEW lk,
             fds' = f, keys' = k, socket' = s, listed' = l, leaked' = lk,
             Sound(f, k, mSocket, DOMAIN items, closing, s, l, lk),
             option' \in [Owners -> Handles \cup {NoSocket}],
             option'["client"] = option["client"],
             \A o \in Listener : /\ option'[o] = NoSocket \/ option'[o] = option[o]
                                 /\ s[o] # socket[o] => option'[o] = NoSocket
                                                        \/ socket[o] = NoSocket,
             UNCHANGED <<status, clientVars>>
      PROVE  IInv'
  <2>1. Table' /\ ItemsTyped' /\ Others' /\ Single'
    BY <1>e DEF IInv, Table, ItemsTyped, Others, Single, clientVars
  <2>2. Options'
    <3>1. ~overlapped /\ Running => \A o \in Owners : option[o] \in {NoSocket, SocketOf(o)}
      BY DEF IInv, Options
    <3>2. ~overlapped /\ Running => option'["client"] \in {NoSocket, mSocket}
      BY <1>a, <1>e, <3>1 DEF SocketOf
    <3>3. ~overlapped /\ Running => \A o \in Listener : option'[o] \in {NoSocket, s[o]}
      BY <1>a, <1>e, <3>1 DEF SocketOf
    <3> QED
      BY <1>a, <1>e, <3>2, <3>3 DEF Options, SocketOf, Running, clientVars
  <2> QED
    BY <1>b, <1>e, <2>1, <2>2 DEF IInv, clientVars
<1>f. \A o \in listed : o \in Listable /\ socket[o] # NoSocket
  BY <1>a DEF Sound
\* a listener without a socket opens one
<1>g. ASSUME NEW o \in Listener, NEW inTable \in BOOLEAN, inTable => o \in Listable,
             o \notin listed, Free(fds) # {}, Take(o, NewHandle(fds), inTable),
             leaked' = leaked \cup ({socket[o]} \ {NoSocket}),
             socket[o] = NoSocket \/ option[o] = NoSocket,
             UNCHANGED <<option, status, clientVars>>
      PROVE  IInv'
  <2> DEFINE h == NewHandle(fds)
  <2>1. h \in Handles \ fds
    BY <1>g, NewHandleIs
  <2> HIDE DEF h
  <2>2. Take(o, h, inTable)
    BY <1>g DEF h
  <2>3. Sound(fds \cup {h}, IF inTable THEN keys \cup {h} ELSE keys, mSocket, DOMAIN items,
              closing, [socket EXCEPT ![o] = h], IF inTable THEN listed \cup {o} ELSE listed,
              leaked \cup ({socket[o]} \ {NoSocket}))
    BY <1>a, <1>g, <2>1, SoundOpen
  <2>4. /\ fds' = fds \cup {h} /\ keys' = IF inTable THEN keys \cup {h} ELSE keys
        /\ socket' = [socket EXCEPT ![o] = h]
        /\ listed' = IF inTable THEN listed \cup {o} ELSE listed
    BY <2>2 DEF Take
  <2>5. \A p \in Listener : p # o => [socket EXCEPT ![o] = h][p] = socket[p]
    BY <1>a
  <2>6. option' = option
    BY <1>g
  <2>7. \A p \in Listener : [socket EXCEPT ![o] = h][p] # socket[p] =>
                              option'[p] = NoSocket \/ socket[p] = NoSocket
    BY <1>g, <2>5, <2>6
  <2> QED
    BY <1>a, <1>e, <1>g, <2>3, <2>4, <2>6, <2>7
<1>12. CASE OpenServer /\ UNCHANGED clientVars
  <2>0. /\ socket["server"] = NoSocket /\ Free(fds) # {} /\ UNCHANGED <<option, status>>
        /\ "server" \in Listener /\ "server" \in Listable /\ "server" \notin listed
    BY <1>12, <1>f DEF OpenServer, Listener, Listable
  <2> DEFINE h == NewHandle(fds)
  <2>1. CASE leaked' = leaked \cup {h} /\ fds' = fds \cup {h} /\ UNCHANGED <<socket, listed, keys>>
    <3>1. h \in Handles \ fds
      BY <2>0, NewHandleIs
    <3> HIDE DEF h
    <3>2. Sound(fds \cup {h}, keys, mSocket, DOMAIN items, closing, socket, listed, leaked \cup {h})
      BY <1>a, <3>1, SoundLeak
    <3> QED
      BY <1>12, <1>a, <1>e, <2>0, <2>1, <3>2
  <2>2. CASE \E registered \in BOOLEAN : Take("server", h, registered) /\ UNCHANGED leaked
    <3>1. leaked' = leaked \cup ({socket["server"]} \ {NoSocket})
      BY <2>0, <2>2
    <3> QED
      BY <1>12, <1>g, <2>0, <2>2, <3>1
  <2> QED
    BY <1>12, <2>1, <2>2 DEF OpenServer
<1>13. CASE OpenReceiver /\ UNCHANGED clientVars
  <2>0. /\ socket["receiver"] = NoSocket /\ Free(fds) # {} /\ UNCHANGED <<leaked, option, status>>
        /\ "receiver" \in Listener /\ "receiver" \in Listable /\ "receiver" \notin listed
        /\ \E registered \in BOOLEAN : Take("receiver", NewHandle(fds), registered)
    BY <1>13, <1>f DEF OpenReceiver, Listener, Listable
  <2>1. leaked' = leaked \cup ({socket["receiver"]} \ {NoSocket})
    BY <2>0
  <2> QED
    BY <1>13, <1>g, <2>0, <2>1
\* the thread ends where it stands
<1>h. ASSUME status' = "dead", UNCHANGED <<fds, keys, option, clientVars, listenerVars>>
      PROVE  IInv'
  <2>1. Table' /\ ItemsTyped' /\ Others' /\ Single' /\ Options'
    BY <1>h DEF IInv, Table, ItemsTyped, Others, Single, Options, Running, clientVars, listenerVars
  <2> QED
    BY <1>b, <1>h, <2>1 DEF IInv, clientVars
<1>14. CASE CreateSender /\ UNCHANGED clientVars
  <2>0. "sender" \in Listener /\ "sender" \notin listed /\ Free(fds) # {} /\ option' = option
    BY <1>14, <1>f DEF CreateSender, Listener, Listable
  <2>1. CASE option["sender"] # NoSocket
    BY <1>14, <1>h, <2>0, <2>1 DEF CreateSender
  <2>2. CASE option["sender"] = NoSocket
    <3>1. /\ Take("sender", NewHandle(fds), FALSE) /\ status' = status
          /\ leaked' = leaked \cup ({socket["sender"]} \ {NoSocket})
      BY <1>14, <2>2 DEF CreateSender
    <3> QED
      BY <1>14, <1>g, <2>0, <2>2, <3>1
  <2> QED
    BY <2>1, <2>2
<1>15. ASSUME NEW o \in Listener, CloseListener(o) \/ DestroyListener(o), UNCHANGED clientVars
       PROVE  IInv'
  <2>0. /\ socket[o] # NoSocket /\ socket' = [socket EXCEPT ![o] = NoSocket]
        /\ listed' = listed \ {o} /\ fds' = fds \ {socket[o]}
        /\ option' = [option EXCEPT ![o] = NoSocket]
        /\ keys' = keys \ {socket[o]} \/ (o \notin listed /\ keys' = keys)
        /\ UNCHANGED <<leaked, status>>
    BY <1>15 DEF CloseListener, DestroyListener, ClearOption
  <2>1. PICK f, k, z, l : f = fds' /\ k = keys' /\ z = socket' /\ l = listed'
    OBVIOUS
  <2>2. /\ z \in [Listener -> Handles \cup {NoSocket}] /\ z[o] = NoSocket
        /\ \A p \in Listener : p # o => z[p] = socket[p]
    BY <1>a, <2>0, <2>1
  <2>3. Shut(o, fds, keys, socket, listed, f, k, z, l)
    BY <2>0, <2>1, <2>2 DEF Shut
  <2>4. Sound(f, k, mSocket, DOMAIN items, closing, z, l, leaked)
    BY <1>a, <2>3, SoundShut
  <2>5. /\ option' \in [Owners -> Handles \cup {NoSocket}] /\ option'["client"] = option["client"]
        /\ option'[o] = NoSocket /\ \A p \in Listener : p # o => option'[p] = option[p]
    BY <1>a, <2>0
  <2>6. \A p \in Listener : /\ option'[p] = NoSocket \/ option'[p] = option[p]
                            /\ z[p] # socket[p] =>
                                  option'[p] = NoSocket \/ socket[p] = NoSocket
    BY <2>2, <2>5
  <2>7. fds' = f /\ keys' = k /\ socket' = z /\ listed' = l /\ leaked' = leaked /\ status' = status
    BY <2>0, <2>1
  <2> QED
    BY <1>15, <1>e, <2>4, <2>5, <2>6, <2>7
<1>16. ASSUME NEW o \in Owners, GetSocketOption(o) PROVE IInv'
  <2>0. /\ Running /\ UNCHANGED <<fds, keys, status, clientVars, listenerVars>>
        /\ option' = IF SocketOf(o) = NoSocket THEN option
                     ELSE [option EXCEPT ![o] = SocketOf(o)]
    BY <1>16 DEF GetSocketOption, Point
  <2>1. SocketOf(o) \in Handles \cup {NoSocket}
    BY <1>a DEF SocketOf
  <2>2. option' \in [Owners -> Handles \cup {NoSocket}]
    BY <1>a, <2>0, <2>1
  <2>3. \A p \in Owners : option'[p] \in {option[p], SocketOf(p)}
    BY <1>a, <2>0
  <2>4. Options'
    <3>1. ~overlapped /\ Running => \A p \in Owners : option'[p] \in {NoSocket, SocketOf(p)}
      BY <2>3 DEF IInv, Options
    <3> QED
      BY <2>0, <3>1 DEF Options, Running, SocketOf, clientVars, listenerVars
  <2>5. Table' /\ ItemsTyped' /\ Others' /\ Single'
    BY <2>0, <2>2 DEF IInv, Table, ItemsTyped, Others, Single, clientVars, listenerVars
  <2> QED
    BY <1>b, <2>0, <2>4, <2>5 DEF IInv, clientVars
<1>17. CASE Exit
  <2>1. CASE channels = {mSocket} \ {NoSocket}
    <3>0. /\ status' = "exited" /\ items' = <<>> /\ closing' = closing \cup channels
          /\ channels' = {} /\ mSocket' = NoSocket /\ tasks' = <<>>
          /\ withdrawn' = withdrawn \cup Unanswered
          /\ listed' = {} /\ fds' = fds \ DOMAIN items
          /\ keys' = keys \ (DOMAIN items \cup {socket[o] : o \in listed})
          /\ UNCHANGED <<handler, calls, answers, overlapped, option, socket, leaked>>
      BY <1>17, <2>1 DEF Exit, ExitClients, ExitListeners
    <3>1. DOMAIN items' = {} /\ ItemsTyped'
      <4>1. <<>> \in Seq(Items) /\ Len(<<>>) = 0 /\ DOMAIN <<>> = 1..Len(<<>>)
        BY EmptySeq, LenProperties
      <4>2. DOMAIN <<>> = {} /\ <<>> \in [DOMAIN <<>> -> Items]
        BY <4>1
      <4> QED
        BY <3>0, <4>2 DEF ItemsTyped
    <3>2. Table'
      <4>1. /\ mSocket \notin DOMAIN items \cup closing \cup leaked
            /\ DOMAIN items \cap closing = {} /\ DOMAIN items \cap leaked = {}
            /\ closing \cap leaked = {}
            /\ \A o \in Listener :
                  /\ socket[o] \notin DOMAIN items \cup closing \cup leaked
                  /\ socket[o] # NoSocket => socket[o] # mSocket
                  /\ \A p \in Listener : socket[o] = socket[p] /\ socket[o] # NoSocket => o = p
            /\ NoSocket \notin DOMAIN items \cup closing \cup leaked
        BY <1>a DEF Sound, Apart
      <4>2. Apart(NoSocket, {}, closing \cup channels, socket, leaked)
        BY <2>1, <4>1 DEF Apart
      <4>3. fds' = AllHeld(NoSocket, {}, closing \cup channels, socket, leaked)
        BY <1>a, <2>1, <3>0, <4>1 DEF Sound, AllHeld
      <4>4. keys' = Watched(NoSocket, {}, closing \cup channels, socket, {})
        <5>1. \A o \in listed : socket[o] \notin closing \cup ({mSocket} \ {NoSocket})
          BY <1>f, <4>1 DEF Listable, Listener
        <5> QED
          BY <1>a, <2>1, <3>0, <4>1, <5>1 DEF Sound, Watched
      <4> QED
        BY <1>a, <3>0, <3>1, <4>2, <4>3, <4>4 DEF Table, Sound
    <3>3. Others'
      BY <3>0 DEF IInv, Others
    <3>4. Single' /\ Options'
      BY <3>0, <3>1 DEF Single, Options, Running
    <3>5. Owed'
      <4>1. withdrawn' \subseteq 1..calls
        BY <3>0 DEF IInv, Owed, OwedBy, Unanswered
      <4>2. Len(tasks') = 0 /\ ~Running'
        BY <3>0 DEF Running
      <4> QED
        BY <3>0, <4>1, <4>2 DEF IInv, Owed, OwedBy
    <3> QED
      BY <3>1, <3>2, <3>3, <3>4, <3>5 DEF IInv
  <2>2. CASE channels # {mSocket} \ {NoSocket}
    BY <1>17, <1>h, <2>2 DEF Exit
  <2> QED
    BY <2>1, <2>2
<1>18. CASE UNCHANGED vars
  <2>1. Table' /\ ItemsTyped' /\ Others' /\ Single' /\ Options'
    BY <1>18 DEF IInv, Table, ItemsTyped, Others, Single, Options, Running, SocketOf, vars,
                 clientVars, listenerVars, tableVars
  <2> QED
    BY <1>18, <1>b, <2>1 DEF IInv, vars, tableVars, clientVars
<1>19. CASE ClientNext /\ UNCHANGED listenerVars
  BY <1>1, <1>2, <1>3, <1>4, <1>5, <1>7, <1>8, <1>9, <1>10, <1>11, <1>19 DEF ClientNext
<1>20. CASE ListenerNext /\ UNCHANGED clientVars
  BY <1>12, <1>13, <1>14, <1>15, <1>20 DEF ListenerNext
<1> QED
  BY <1>16, <1>17, <1>18, <1>19, <1>20 DEF Next

-----------------------------------------------------------------------------
(* The promise.                                                            *)

Withdrawn == IF status = "dead" THEN withdrawn \cup Unanswered ELSE withdrawn

(* A step that makes no call and answers none: what it withdraws was not   *)
(* answered, so it is a Withdraw of Connect or changes nothing there.      *)
LEMMA WithdrawsOnly ==
    ASSUME IInv, IInv', UNCHANGED <<calls, answers>>,
           \/ UNCHANGED <<status, withdrawn>>
           \/ /\ Running /\ withdrawn \subseteq withdrawn'
              /\ withdrawn' \subseteq withdrawn \cup Unanswered
    PROVE  [Promise!ConnectNext]_(Promise!connectVars)
<1>1. /\ withdrawn \subseteq 1..calls /\ calls \in 0..MaxConnects
      /\ withdrawn' \subseteq 1..calls'
  BY DEF IInv, Owed, OwedBy, Others
<1>2. Unanswered' = Unanswered /\ Unanswered \subseteq 1..calls
  BY DEF Unanswered
<1>3. Withdrawn \subseteq Withdrawn' /\ Withdrawn' \subseteq Withdrawn \cup Unanswered
  BY <1>2 DEF Withdrawn, Running
<1>4. Withdrawn' \subseteq 1..calls
  BY <1>1, <1>2 DEF Withdrawn
<1>5. CASE Withdrawn' = Withdrawn
  BY <1>5 DEF Promise!connectVars, Withdrawn
<1>6. CASE Withdrawn' # Withdrawn
  <2>1. PICK c : c \in Withdrawn' /\ c \notin Withdrawn
    BY <1>3, <1>6
  <2>2. c \in 1..calls /\ answers[c] = 0 /\ c \in Calls
    BY <1>1, <1>3, <2>1, ConnectAssumption DEF Unanswered, Calls
  <2>3. Promise!Waiting(c)
    BY <2>1, <2>2 DEF Promise!Waiting, Withdrawn
  <2>4. Withdrawn' \in SUBSET (1..calls) /\ Withdrawn' = Withdrawn \cup Withdrawn'
    BY <1>3, <1>4
  <2>5. Promise!Withdraw(c)
    BY <2>1, <2>3, <2>4 DEF Promise!Withdraw, Withdrawn
  <2> QED
    BY <2>2, <2>5 DEF Promise!ConnectNext
<1> QED
  BY <1>5, <1>6

(* A step that makes a call is Ask of Connect.                             *)
LEMMA AsksOne ==
    ASSUME IInv, IInv', Connect
    PROVE  Promise!ConnectNext
<1>0. /\ Running /\ calls' = calls + 1 /\ calls < MaxConnects /\ answers' = answers
      /\ withdrawn' = withdrawn \cup ({handler} \ {NoCall})
  BY DEF Connect
<1>1. calls' \in Calls /\ calls' \notin 1..calls /\ 1..calls' = 1..calls \cup {calls'}
  BY <1>0, ConnectAssumption DEF IInv, Others, Calls
<1>2. Withdrawn' \in SUBSET (1..calls')
  BY DEF IInv, Owed, OwedBy, Withdrawn, Unanswered
<1>3. Withdrawn' = Withdrawn \cup Withdrawn'
  BY <1>0 DEF Withdrawn, Running
<1>4. Promise!Ask(calls')
  BY <1>0, <1>1, <1>2, <1>3 DEF Promise!Ask, Withdrawn
<1> QED
  BY <1>1, <1>4 DEF Promise!ConnectNext

(* A step that runs a handler's task is Answer of Connect.                 *)
LEMMA AnswersOne ==
    ASSUME IInv, RunAnswer
    PROVE  Promise!ConnectNext
<1>0. /\ Running /\ tasks # <<>> /\ answers' = [answers EXCEPT ![Head(tasks).call] = @ + 1]
      /\ UNCHANGED <<status, calls, withdrawn>>
  BY DEF RunAnswer
<1> DEFINE c == Head(tasks).call
<1>1. /\ tasks \in Seq([call : Calls, code : Codes]) /\ answers \in [Calls -> Nat]
  BY DEF IInv, Others
<1>2. 1 \in 1..Len(tasks) /\ Head(tasks) = tasks[1]
  BY <1>0, <1>1, HeadTailProperties, LenProperties
<1>3. tasks[1] \in [call : Calls, code : Codes]
  BY <1>1, <1>2, ElementOfSeq
<1>4. c \in Calls /\ IsOwed(c, calls, answers, withdrawn)
  BY <1>2, <1>3 DEF IInv, Owed, OwedBy
<1> HIDE DEF c
<1>5. answers' = [answers EXCEPT ![c] = 1]
  BY <1>0, <1>1, <1>4 DEF IsOwed, c
<1>6. status # "dead" /\ status' # "dead"
  BY <1>0 DEF Running
<1>7. Promise!Waiting(c)
  BY <1>4, <1>6 DEF Promise!Waiting, IsOwed
<1>8. Promise!Answer(c)
  BY <1>0, <1>5, <1>6, <1>7 DEF Promise!Answer
<1> QED
  BY <1>4, <1>8 DEF Promise!ConnectNext

(* Every step of the thread is a step of Connect or stutters there.        *)
LEMMA StepKeepsPromise ==
    IInv /\ IInv' /\ [Next]_vars => [Promise!ConnectNext]_(Promise!connectVars)
<1> SUFFICES ASSUME IInv, IInv', [Next]_vars
             PROVE  [Promise!ConnectNext]_(Promise!connectVars)
  OBVIOUS
<1>1. ASSUME UNCHANGED <<calls, answers, status, withdrawn>>
      PROVE  [Promise!ConnectNext]_(Promise!connectVars)
  BY <1>1, WithdrawsOnly
<1>2. ASSUME Running, UNCHANGED <<calls, answers, withdrawn>>
      PROVE  [Promise!ConnectNext]_(Promise!connectVars)
  BY <1>2, WithdrawsOnly
<1>3. CASE Connect
  BY <1>3, AsksOne
<1>4. CASE RunAnswer
  BY <1>4, AnswersOne
<1>5. CASE CancelConnect
  <2>1. /\ Running /\ UNCHANGED <<calls, answers>>
        /\ withdrawn' = withdrawn \cup ({handler} \ {NoCall})
    BY <1>5 DEF CancelConnect
  <2>2. handler # NoCall => handler \in Unanswered
    BY <2>1 DEF IInv, Owed, OwedBy, IsOwed, Unanswered
  <2> QED
    BY <2>1, <2>2, WithdrawsOnly
<1>6. CASE Close \/ PeerCloses
  BY <1>2, <1>6 DEF Close, PeerCloses
<1>7. ASSUME NEW h \in Handles,
             \/ KernelConnects(h, "ok") \/ KernelConnects(h, "refused")
             \/ TimeOut(h) \/ CloseEnds(h)
      PROVE  [Promise!ConnectNext]_(Promise!connectVars)
  BY <1>1, <1>7 DEF KernelConnects, TimeOut, CloseEnds
<1>8. ASSUME NEW h \in Handles, SelectConnect(h) \/ TimerTask(h)
      PROVE  [Promise!ConnectNext]_(Promise!connectVars)
  BY <1>2, <1>8 DEF SelectConnect, TimerTask
<1>9. CASE ListenerNext /\ UNCHANGED clientVars
  <2>1. UNCHANGED <<calls, answers, withdrawn>>
    BY <1>9 DEF clientVars
  <2>2. CASE OpenServer \/ OpenReceiver \/ CreateSender \/ \E o \in Listener : CloseListener(o)
    BY <1>2, <2>1, <2>2 DEF OpenServer, OpenReceiver, CreateSender, CloseListener
  <2>3. CASE \E o \in Listener : DestroyListener(o)
    BY <1>1, <2>1, <2>3 DEF DestroyListener
  <2> QED
    BY <1>9, <2>2, <2>3 DEF ListenerNext
<1>10. ASSUME NEW o \in Owners, GetSocketOption(o)
       PROVE  [Promise!ConnectNext]_(Promise!connectVars)
  BY <1>2, <1>10 DEF GetSocketOption, clientVars
<1>11. CASE Exit
  <2>1. CASE channels = {mSocket} \ {NoSocket}
    <3>1. /\ Running /\ UNCHANGED <<calls, answers>>
          /\ withdrawn' = withdrawn \cup Unanswered
      BY <1>11, <2>1 DEF Exit, ExitClients
    <3> QED
      BY <3>1, WithdrawsOnly
  <2>2. CASE channels # {mSocket} \ {NoSocket}
    BY <1>2, <1>11, <2>2 DEF Exit, clientVars
  <2> QED
    BY <2>1, <2>2
<1>12. CASE UNCHANGED vars
  BY <1>1, <1>12 DEF vars, tableVars, clientVars
<1> QED
  BY <1>3, <1>4, <1>5, <1>6, <1>7, <1>8, <1>9, <1>10, <1>11, <1>12 DEF Next, ClientNext

-----------------------------------------------------------------------------
(* The theorems.                                                           *)

(* The invariant holds throughout.                                         *)
LEMMA Inductive == Spec => []IInv
<1> QED
  BY InitInv, NextInv, PTL DEF Spec

(* The tables, the queue and the counters of the thread keep their types.  *)
THEOREM TypeCorrect == Spec => []TypeOK
<1> QED
  BY IInvMeans, Inductive, PTL

(* However many descriptors there are and however they are reused, each    *)
(* has one holder (mTcpClients, mTcpChannels, the Socket of each class).   *)
THEOREM HeldOnce == Spec => []SocketHeldOnce
<1> QED
  BY IInvMeans, Inductive, PTL

(* The safety half of ImplementsConnect: a call is answered at most once   *)
(* and never after it was withdrawn (TcpClient::connect, onConnect).       *)
THEOREM KeepsPromise ==
    Spec => Promise!ConnectInit /\ [][Promise!ConnectNext]_(Promise!connectVars)
<1>1. Init => Promise!ConnectInit
  <2> SUFFICES ASSUME Init PROVE Promise!ConnectInit
    OBVIOUS
  <2>1. 1..calls = {} /\ withdrawn = {} /\ status # "dead" /\ answers = [c \in Calls |-> 0]
    BY DEF Init, ClientInit, TableInit
  <2> QED
    BY <2>1 DEF Promise!ConnectInit
<1> QED
  BY <1>1, Inductive, StepKeepsPromise, PTL DEF Spec
=============================================================================
