----------------------------- MODULE WsChannel -----------------------------
(***************************************************************************)
(* Two WsChannels over one TCP connection.  A frame sent with a handler    *)
(* waits in the controller's buffer for room in the kernel; one sent       *)
(* without is written at once, past what waits, as far as there is room,   *)
(* and nobody looks at how far that was.  Units arrive cut anywhere;       *)
(* onTcpReceive takes out the frames that are complete and keeps the rest  *)
(* in a cache, puts fragments together, holds a close frame back until the *)
(* message it interrupts is complete, and hands the frames over one after  *)
(* the other, to handlers that may send or close.  Control frames go to    *)
(* the default handler, onControlFrame.                                    *)
(***************************************************************************)
EXTENDS Integers, Sequences, FiniteSets, SequencesExt

CONSTANTS
    MaxSends,    \* frames the two users send between them
    Capacity,    \* units the kernel holds for each side
    Extended     \* whether a payload's length needs its own field: BOOLEANs

ASSUME WsAssumption ==
    {MaxSends, Capacity} \subseteq Nat /\ Extended \subseteq BOOLEAN

Sides == {"client", "server"}
Peer(s) == IF s = "client" THEN "server" ELSE "client"

VARIABLES
    talker,      \* the side whose user sends data
    calls,       \* frames the user of each side has sent
    queue,       \* sendBuffer: frames of which nothing is written yet
    flushing,    \* the side is in the loop of tryTcpSend
    sent,        \* frames each side has begun to write, in that order
    rest,        \* units of the last of them that are not written
    torn,        \* they never follow: what comes next is not what they are
    lost,        \* kinds of frames of which the kernel took nothing
    wire,        \* units on their way to each side: <<frame, unit>>
    buffer,      \* mReceiveCache.mBuffer
    position,    \* mReceiveCache.mPosition
    fragments,   \* mContinuationFrame: the numbers of its frames
    closeFrame,  \* mCloseState.mFrame: its number, 0 for none
    sentClose,   \* mCloseState.mSent
    closed,      \* mCloseState.mClosed
    attached,    \* the receive handler of the TcpChannel is the WsChannel's
    batch,       \* frames that the running onTcpReceive still hands over
    got,         \* messages handed to the data frame handler
    garbled,     \* units are lost: a frame has no beginning
    alive        \* the TCP connection is open

sideVars == <<buffer, position, fragments, garbled>>
stateVars == <<closeFrame, sentClose, closed, attached>>
frameVars == <<sent, rest, torn, lost, wire>>
outVars == <<frameVars, calls, queue, flushing>>
wsVars == <<outVars, sideVars, stateVars, batch, got, alive, talker>>

\* call: which of its user's frames it is, 0 for the channel's own
Frames == [op : {"data", "ping", "pong", "close"}, fin : BOOLEAN,
           extended : Extended \cup {FALSE},
           how : {"queued", "direct"}, call : Nat]

WsInit ==
    /\ talker = "client"
    /\ calls = [s \in Sides |-> 0]
    /\ queue = [s \in Sides |-> <<>>]
    /\ flushing = [s \in Sides |-> FALSE]
    /\ sent = [s \in Sides |-> <<>>]
    /\ rest = [s \in Sides |-> 0]
    /\ torn = [s \in Sides |-> FALSE]
    /\ lost = [s \in Sides |-> {}]
    /\ wire = [s \in Sides |-> <<>>]
    /\ buffer = [s \in Sides |-> <<>>]
    /\ position = [s \in Sides |-> 0]
    /\ fragments = [s \in Sides |-> <<>>]
    /\ closeFrame = [s \in Sides |-> 0]
    /\ sentClose = [s \in Sides |-> FALSE]
    /\ closed = [s \in Sides |-> FALSE]
    /\ attached = [s \in Sides |-> FALSE]
    /\ batch = [s \in Sides |-> <<>>]
    /\ got = [s \in Sides |-> <<>>]
    /\ garbled = [s \in Sides |-> FALSE]
    /\ alive = TRUE

-----------------------------------------------------------------------------
(* Frames as units: two for the two bytes every frame begins with, two for *)
(* a longer length, two for the client's masking key, two for the payload  *)
(* of data, one for a status code.  Two stand for a field of many bytes:   *)
(* it is cut or it is not.                                                 *)
Field(present) == IF present THEN 2 ELSE 0

LengthEnd(f)    == 2 + Field(f.extended)
HeaderEnd(s, f) == LengthEnd(f) + Field(s = "client")
Size(s, f) == HeaderEnd(s, f) + CASE f.op = "data"  -> 2
                                  [] f.op = "close" -> 1
                                  [] OTHER          -> 0

\* units i + 1 to j of frame n
UnitsOf(n, i, j) == [u \in 1..(j - i) |-> <<n, i + u>>]

\* What the kernel takes of k units: all, or what it has room for
Room(s)     == Capacity - Len(wire[Peer(s)])
Takes(s, k) == {n \in 0..k : n <= Room(s) /\ n \in {k, Room(s)}}

\* the first k units of a frame are written
Begin(s, f, k) ==
    /\ sent' = [sent EXCEPT ![s] = Append(@, f)]
    /\ rest' = [rest EXCEPT ![s] = Size(s, f) - k]
    /\ wire' = [wire EXCEPT ![Peer(s)] =
                    @ \o UnitsOf(Len(sent[s]) + 1, 0, k)]

\* k more of the last frame
Continue(s, k) ==
    LET n    == Len(sent[s])
        from == Size(s, sent[s][n]) - rest[s]
    IN  /\ rest' = [rest EXCEPT ![s] = @ - k]
        /\ wire' = [wire EXCEPT ![Peer(s)] = @ \o UnitsOf(n, from, from + k)]

\* TcpChannel::send without a handler.  What the kernel does not take is
\* lost, and a frame that is partly written is cut in two.  From then on
\* the peer reads frames that nobody has sent, and they are not followed.
Write(s, f) ==
    \/ ~alive /\ UNCHANGED frameVars
    \/ alive /\ \E k \in Takes(s, Size(s, f)) :
         \/ /\ k = 0
            /\ lost' = [lost EXCEPT ![s] = @ \cup {f.op}]
            /\ UNCHANGED <<sent, rest, torn, wire>>
         \/ /\ k > 0 /\ rest[s] > 0
            /\ torn' = [torn EXCEPT ![s] = TRUE]
            /\ UNCHANGED <<sent, rest, lost, wire>>
         \/ /\ k > 0 /\ rest[s] = 0
            /\ Begin(s, f, k)
            /\ torn' = [torn EXCEPT ![s] = k < Size(s, f)]
            /\ UNCHANGED lost

\* TcpChannel::send with a handler.  If something waits already, sendBlocked
\* may be set or not.
Enqueue(s, f) ==
    /\ queue' = [queue EXCEPT ![s] = Append(@, f)]
    /\ \E tries \in IF queue[s] = <<>> /\ rest[s] = 0 THEN {TRUE}
                    ELSE {FALSE, ~torn[s]} :
          flushing' = [flushing EXCEPT ![s] = tries]
    /\ UNCHANGED frameVars

Frame(op, fin, extended, how, call) ==
    [op |-> op, fin |-> fin, extended |-> extended, how |-> how, call |-> call]
OwnFrame(op) == Frame(op, TRUE, FALSE, "direct", 0)

MaySend(s) == attached[s] /\ ~closed[s] /\ ~sentClose[s]
Idle(s)    == batch[s] = <<>> /\ ~flushing[s]

\* the constructor takes over the receive handler of the TCP channel
Attach(s) ==
    /\ alive
    /\ ~attached[s] /\ ~closed[s]
    /\ attached' = [attached EXCEPT ![s] = TRUE]
    /\ talker' \in IF s = "server" THEN Sides ELSE {talker}
    /\ UNCHANGED <<outVars, sideVars, closeFrame, sentClose, closed, batch,
                   got, alive>>

\* the user's send(), of a message or a fragment of one, and sendPing()
Send(s) ==
    /\ alive /\ MaySend(s)
    /\ calls["client"] + calls["server"] < MaxSends
    /\ calls' = [calls EXCEPT ![s] = @ + 1]
    /\ \E fin \in BOOLEAN, x \in Extended, how \in {"queued", "direct"} :
       \E f \in {Frame("data", fin, x, how, calls'[s]),
                Frame("ping", TRUE, FALSE, how, calls'[s])} :
          /\ f.op = "data" => s = talker
          /\ IF how = "queued" THEN Enqueue(s, f)
             ELSE Write(s, f) /\ UNCHANGED <<queue, flushing>>

UserSends(s) ==
    /\ Idle(s)
    /\ Send(s)
    /\ UNCHANGED <<sideVars, stateVars, batch, got, alive, talker>>

\* WsChannel::close
Close(s) ==
    /\ MaySend(s)
    /\ Write(s, OwnFrame("close"))
    /\ sentClose' = [sentClose EXCEPT ![s] = TRUE]
    /\ closed' = [closed EXCEPT ![s] = closeFrame[s] # 0]
    /\ closeFrame' = [closeFrame EXCEPT ![s] = 0]
    /\ UNCHANGED <<calls, queue, flushing>>

UserCloses(s) ==
    /\ Idle(s)
    /\ Close(s)
    /\ UNCHANGED <<sideVars, attached, batch, got, alive, talker>>

-----------------------------------------------------------------------------
(* The controller.                                                         *)

\* onSelectTcpSend: the peer has made room
Writable(s) ==
    /\ alive
    /\ Idle(s)
    /\ queue[s] # <<>> \/ (rest[s] > 0 /\ ~torn[s])
    /\ Room(s) > 0
    /\ flushing' = [flushing EXCEPT ![s] = ~torn[s]]
    /\ UNCHANGED <<frameVars, calls, queue, sideVars, stateVars, batch, got,
                   alive, talker>>

\* One turn of the loop of tryTcpSend, which the kernel ends when it takes
\* a part only.
Flush(s) ==
    /\ flushing[s]
    /\ \/ /\ rest[s] > 0
          /\ \E k \in Takes(s, rest[s]) :
                /\ Continue(s, k)
                /\ flushing' = [flushing EXCEPT ![s] =
                                   k = rest[s] /\ queue[s] # <<>>]
          /\ UNCHANGED <<sent, queue>>
       \/ /\ rest[s] = 0
          /\ \E k \in Takes(s, Size(s, Head(queue[s]))) :
                IF k = 0
                THEN /\ flushing' = [flushing EXCEPT ![s] = FALSE]
                     /\ UNCHANGED <<sent, rest, wire, queue>>
                ELSE /\ Begin(s, Head(queue[s]), k)
                     /\ queue' = [queue EXCEPT ![s] = Tail(@)]
                     /\ flushing' = [flushing EXCEPT ![s] =
                            rest'[s] = 0 /\ queue'[s] # <<>>]
    /\ UNCHANGED <<torn, lost, calls, sideVars, stateVars, batch, got, alive,
                   talker>>

-----------------------------------------------------------------------------
(* onTcpReceive.  Its loop takes the frames off the buffer that are whole. *)
(* The units there are those of consecutive frames, so that only the last  *)
(* frame may be incomplete.                                                *)

\* units there are of the incomplete frame at the end of the buffer
Incomplete(s, buf) ==
    IF buf = <<>> THEN 0
    ELSE LET end == Last(buf) IN
         IF end[2] = Size(Peer(s), sent[Peer(s)][end[1]]) THEN 0 ELSE end[2]

\* the numbers of the frames that are whole, from position p on
WholeFrames(s, buf, p) ==
    IF p >= Len(buf) - Incomplete(s, buf) THEN <<>>
    ELSE LET first == buf[p + 1][1]
             last  == buf[Len(buf) - Incomplete(s, buf)][1] IN
         [i \in 1..(last - first + 1) |-> first + i - 1]

\* How far the reader has gone into an incomplete frame: the first two
\* bytes, the length and the key are read as soon as each is there.
ReadInto(s, buf) ==
    LET left == Incomplete(s, buf)
        f    == sent[Peer(s)][Last(buf)[1]]
        ends == {n \in {2, LengthEnd(f), HeaderEnd(Peer(s), f)} : n <= left}
    IN  IF left < 2 THEN 0 ELSE CHOOSE n \in ends : \A m \in ends : m <= n

\* What the frames taken do: a close frame is kept, other control frames
\* are handed over, data frames join the fragments before them.
StartState(s) == [frags |-> fragments[s], close |-> closeFrame[s], out |-> <<>>]

\* a ping between fragments is taken for one of them
BugTake(s, st, n) ==
    LET f == sent[Peer(s)][n] IN
    CASE f.op = "close" -> [st EXCEPT !.close = n]
      [] f.op = "pong" \/ (f.op = "ping" /\ st.frags = <<>>) ->
            [st EXCEPT !.out = Append(@, <<n>>)]
      [] f.op # "close" /\ f.fin ->
            [st EXCEPT !.out = Append(@, Append(st.frags, n)), !.frags = <<>>]
      [] OTHER -> [st EXCEPT !.frags = Append(@, n)]

Take(s, st, n) ==
    LET f == sent[Peer(s)][n] IN
    CASE f.op = "close" -> [st EXCEPT !.close = n]
      [] f.op \in {"ping", "pong"} -> [st EXCEPT !.out = Append(@, <<n>>)]
      [] f.op = "data" /\ f.fin ->
            [st EXCEPT !.out = Append(@, Append(st.frags, n)), !.frags = <<>>]
      [] f.op = "data" /\ ~f.fin -> [st EXCEPT !.frags = Append(@, n)]

\* the state when the frames of a list were taken
TakeAll(s, frames) ==
    LET after[i \in 0..Len(frames)] ==
            IF i = 0 THEN StartState(s) ELSE Take(s, after[i - 1], frames[i])
    IN  after[Len(frames)]

\* What is received is put behind the cache only when a frame was taken
\* from it before, else it replaces the cache.  When the reader has come to
\* its end, be it in the middle of a frame, the cache is cleared.
OnTcpReceive(s, units) ==
    LET buf   == IF position[s] > 0 THEN buffer[s] \o units ELSE units
        head  == Len(buf) - Incomplete(s, buf)
        done  == head + ReadInto(s, buf) = Len(buf)
        st    == TakeAll(s, WholeFrames(s, buf, position[s]))
    IN  IF buf[position[s] + 1][2] # 1
        THEN /\ garbled' = [garbled EXCEPT ![s] = TRUE]
             /\ UNCHANGED <<buffer, position, fragments, closeFrame, batch>>
        ELSE /\ buffer' = [buffer EXCEPT ![s] = IF done THEN <<>> ELSE buf]
             /\ position' = [position EXCEPT ![s] = IF done THEN 0 ELSE head]
             /\ fragments' = [fragments EXCEPT ![s] = st.frags]
             /\ closeFrame' = [closeFrame EXCEPT ![s] = st.close]
             /\ batch' = [batch EXCEPT ![s] =
                    IF st.close # 0 /\ st.frags = <<>>
                    THEN Append(st.out, <<st.close>>) ELSE st.out]
             /\ UNCHANGED garbled

\* The first n units have arrived.  What follows a lost beginning is read
\* as frames that nobody has sent, and is not followed here.
Receive(s, n) ==
    /\ alive
    /\ Idle(s)
    /\ attached[s]
    /\ ~garbled[s]
    /\ OnTcpReceive(s, SubSeq(wire[s], 1, n))
    /\ wire' = [wire EXCEPT ![s] = SubSeq(@, n + 1, Len(@))]
    /\ UNCHANGED <<sent, rest, torn, lost, calls, queue, flushing, sentClose,
                   closed, attached, got, alive, talker>>

-----------------------------------------------------------------------------
(* onReceiveFrame, for the frames of the batch in turn.                    *)
HandsOver(s) == batch[s] # <<>> /\ ~flushing[s]
Current(s)   == sent[Peer(s)][batch[s][1][1]]

\* the data frame handler, which may call send() or close()
HandOverData(s) ==
    /\ HandsOver(s)
    /\ Current(s).op = "data"
    /\ got' = [got EXCEPT ![s] = Append(@, Head(batch[s]))]
    /\ batch' = [batch EXCEPT ![s] = Tail(@)]
    /\ \/ Close(s)
       \/ Send(s) /\ UNCHANGED <<sentClose, closed, closeFrame>>
       \/ UNCHANGED <<outVars, sentClose, closed, closeFrame>>
    /\ UNCHANGED <<sideVars, attached, alive, talker>>

\* onControlFrame for a ping, which is answered, and a pong
HandOverPing(s) ==
    /\ HandsOver(s)
    /\ Current(s).op \in {"ping", "pong"}
    /\ batch' = [batch EXCEPT ![s] = Tail(@)]
    /\ IF Current(s).op = "ping" /\ MaySend(s)
       THEN Write(s, OwnFrame("pong")) ELSE UNCHANGED frameVars
    /\ UNCHANGED <<calls, queue, flushing, sideVars, stateVars, got, alive,
                   talker>>

\* the state is set, the frame is not sent
BugReplyClose(s) ==
    /\ sentClose' = [sentClose EXCEPT ![s] = TRUE]
    /\ closeFrame' = [closeFrame EXCEPT ![s] = 0]
    /\ UNCHANGED frameVars

\* A close frame is answered unless this side has sent one.
ReplyClose(s) ==
    IF sentClose[s] THEN UNCHANGED <<frameVars, sentClose, closeFrame>>
    ELSE /\ Write(s, OwnFrame("close"))
         /\ sentClose' = [sentClose EXCEPT ![s] = TRUE]
         /\ closeFrame' = [closeFrame EXCEPT ![s] = 0]

\* onControlFrame for a close frame: the TCP channel gets its old receive
\* handler back.
HandOverClose(s) ==
    /\ HandsOver(s)
    /\ Current(s).op = "close"
    /\ batch' = [batch EXCEPT ![s] = Tail(@)]
    /\ IF closed[s] THEN UNCHANGED <<frameVars, stateVars>>
       ELSE /\ ReplyClose(s)
            /\ closed' = [closed EXCEPT ![s] = TRUE]
            /\ attached' = [attached EXCEPT ![s] = FALSE]
    /\ UNCHANGED <<calls, queue, flushing, sideVars, got, alive, talker>>

\* the connection breaks: what is on its way or waits is lost
Break ==
    /\ alive
    /\ alive' = FALSE
    /\ wire' = [s \in Sides |-> <<>>]
    /\ queue' = [s \in Sides |-> <<>>]
    /\ flushing' = [s \in Sides |-> FALSE]
    /\ UNCHANGED <<sent, rest, torn, lost, calls, sideVars, stateVars, batch,
                   got, talker>>

WsNext ==
    \/ Break
    \/ \E s \in Sides :
          \/ UserSends(s) \/ UserCloses(s) \/ Writable(s) \/ Flush(s)
          \/ \E n \in 1..Len(wire[s]) : Receive(s, n)
          \/ HandOverData(s) \/ HandOverPing(s) \/ HandOverClose(s)

\* two WsChannels by themselves
WsSpec == WsInit /\ [][WsNext \/ \E s \in Sides : Attach(s)]_wsVars

-----------------------------------------------------------------------------
WsTypeOK ==
    /\ \A s \in Sides :
         /\ \A n \in DOMAIN sent[s] : sent[s][n] \in Frames
         /\ \A n \in DOMAIN queue[s] : queue[s][n] \in Frames
         /\ position[s] \in 0..Len(buffer[s])
         /\ closeFrame[s] \in 0..Len(sent[Peer(s)])
         /\ lost[s] \subseteq {"data", "ping", "pong", "close"}
    /\ {sentClose, closed, attached, garbled, flushing, torn} \subseteq [Sides -> BOOLEAN]
    /\ {rest, calls} \subseteq [Sides -> Nat]
    /\ alive \in BOOLEAN

IsData(s, n) == sent[s][n].op = "data"
Delivered(s) == UNION {ToSet(got[s][m]) : m \in DOMAIN got[s]}

\* Side s has nothing to read or to hand over, and its peer nothing to write.
Quiet(s) ==
    /\ Idle(s)
    /\ \/ closed[s] /\ ~attached[s]
       \/ wire[s] = <<>> /\ queue[Peer(s)] = <<>> /\ rest[Peer(s)] = 0

\* The units that side s gets are the frames of its peer, one after the
\* other: no frame was cut, and none has lost its beginning.
Clear(s) == alive /\ ~garbled[s] /\ ~torn[Peer(s)]

InCallOrder(s, m, n) ==
    sent[s][m].how = sent[s][n].how => sent[s][m].call < sent[s][n].call

\* However the units are cut, the messages handed over are the data frames
\* that were written, in order, none left out and none twice, put together
\* up to each final fragment; a control frame between fragments is in none.
\* That is the order of the calls for frames that are sent alike, with a
\* handler or without.  When all is quiet they are all of them up to a close
\* frame.  Behind a close frame go only frames that were waiting.  A write
\* that the kernel cut short, or that cut into a waiting frame, is excepted.
FramesIntact ==
    \A s \in Sides :
        LET p == Peer(s)
            messages == Append(got[s], fragments[s]) IN
        /\ \A l, m \in DOMAIN messages :
              \A i \in DOMAIN messages[l], j \in DOMAIN messages[m] :
                 l < m \/ (l = m /\ i < j) =>
                    /\ messages[l][i] < messages[m][j]
                    /\ InCallOrder(p, messages[l][i], messages[m][j])
        /\ \A m \in DOMAIN messages : \A i \in DOMAIN messages[m] :
              IsData(p, messages[m][i])
        /\ \A m \in DOMAIN got[s] : \A i \in DOMAIN got[s][m] :
              /\ sent[p][got[s][m][i]].fin <=> i = Len(got[s][m])
              /\ \A n \in 1..got[s][m][i] : IsData(p, n) => n \in Delivered(s)
        /\ Quiet(s) /\ Clear(s) =>
              \A n \in DOMAIN sent[p] :
                 /\ IsData(p, n)
                 /\ \A m \in 1..n : sent[p][m].op # "close"
                 => n \in Delivered(s) \cup ToSet(fragments[s])
        /\ \A m, n \in DOMAIN sent[s] :
              sent[s][m].op = "close" /\ m < n => sent[s][n].how = "queued"

\* A side that has closed, or got a close frame, brings the other with it:
\* when that is quiet it is closed, too, and has closed in its turn.  That
\* is not so when the kernel had no room for the close frame, when frames
\* were cut or garbled, or when the close frame came behind a message
\* without its end, which is waited for.
CloseHandshake ==
    \A s \in Sides :
        /\ closed[s] => sentClose[s]
        /\ Quiet(s) /\ Clear(s) /\ fragments[s] = <<>>
              /\ sentClose[Peer(s)] /\ "close" \notin lost[Peer(s)]
           => closed[s]
=============================================================================
