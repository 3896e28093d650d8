---------------------------- MODULE HttpContent ----------------------------
(***************************************************************************)
(* HttpContentReceiver: the body of a message, taken from the units of the *)
(* wire as they come, by its length or in chunks.                          *)
(*                                                                         *)
(* A unit is <<kind, number>>: a part of the "head" (the number is its     *)
(* Content-Length), the "end" of the head, "data", the "size" of a chunk   *)
(* and the "eol" behind it, the "cr" and the "lf" behind a chunk.          *)
(***************************************************************************)
EXTENDS Integers, Sequences, SequencesExt

MessageHead(length) == <<<<"head", length>>, <<"end", 0>>>>
Data(from, to) == [i \in 1..(to - from + 1) |-> <<"data", from + i - 1>>]
CrLf == <<<<"cr", 0>>, <<"lf", 0>>>>
ChunkSize(n) == <<<<"size", n>>, <<"eol", 0>>>>

\* a message with n units of body as it is serialized, and, for a foreign
\* server, in two chunks
Plain(n) == MessageHead(n) \o Data(1, n)
Chunked(n) == MessageHead(0) \o ChunkSize(1) \o Data(1, 1) \o CrLf
                 \o ChunkSize(n - 1) \o Data(2, n) \o CrLf
                 \o ChunkSize(0) \o CrLf

\* how many units of buf are the head; 0 while its end is not there
HeadLength(buf) == IF Len(buf) < 2 \/ buf[1][1] # "head" THEN 0 ELSE 2

\* what begins with something else, and has the end of a line: no message
\* (data are taken to hold none)
IsInvalid(buf) ==
    /\ buf # <<>> /\ buf[1][1] # "head"
    /\ \E i \in 2..Len(buf) : buf[i - 1][1] = "cr" /\ buf[i][1] = "lf"

-----------------------------------------------------------------------------
(* size and received are mSize and mReceiveSize, chunked is that mChunkWork *)
(* runs, chunk is what remains of the chunk, ok the value returned.         *)
EmptyReceiver == [size |-> 0, received |-> 0, chunked |-> FALSE, chunk |-> 0,
                  data |-> <<>>, ok |-> TRUE]

InitReceiver(r, chunked, length) ==
    IF chunked THEN [r EXCEPT !.chunked = TRUE] ELSE [r EXCEPT !.size = length]

IsCompleted(r) == ~r.chunked /\ r.size <= r.received

\* setChunkSize: where the size stands, for stoul skips a lone "lf"; 0 if
\* the line is not whole or is empty
SizeAt(units) ==
    LET i == IF units[1][1] = "lf" THEN 2 ELSE 1 IN
    IF Len(units) > i /\ units[i][1] = "size" THEN i ELSE 0

\* deserialize: n units go to the data, and two more are skipped behind a
\* part of a chunk unless the buffer is at its end
Consumed(r, units) ==
    LET left == IF r.chunked THEN r.chunk ELSE r.size - r.received IN
    IF Len(units) < left THEN Len(units) ELSE left

Deserialize(r, units) ==
    LET n == Consumed(r, units) IN
    [r EXCEPT !.data = @ \o SubSeq(units, 1, n),
              !.chunk = IF r.chunked THEN @ - n ELSE @,
              !.received = IF r.chunked THEN @ ELSE @ + n]

Rest(r, units) ==
    LET n == Consumed(r, units) IN
    SubSeq(units, IF r.chunked THEN n + 3 ELSE n + 1, Len(units))

\* one turn of the loop of onReceive for a chunked body: the receiver and
\* the units that are left, none when the loop is left
NoSize(r) == [r EXCEPT !.ok = FALSE]
Finished(r) == [r EXCEPT !.chunked = FALSE]
NextChunk(r, n) == [r EXCEPT !.chunk = n]

ChunkTurn(r, units) ==
    LET i == SizeAt(units) IN
    CASE units = <<>> -> <<r, <<>>>>
      [] units # <<>> /\ r.chunk > 0 -> <<Deserialize(r, units), Rest(r, units)>>
      [] units # <<>> /\ r.chunk = 0 /\ i = 0 -> <<NoSize(r), <<>>>>
      [] units # <<>> /\ r.chunk = 0 /\ i # 0 /\ units[i][2] = 0 -> <<Finished(r), <<>>>>
      [] OTHER -> <<NextChunk(r, units[i][2]), SubSeq(units, i + 2, Len(units))>>

\* every turn takes at least one unit
ReceiveChunks(r, units) ==
    LET after[n \in 0..Len(units)] ==
            IF n = 0 THEN <<r, units>>
            ELSE ChunkTurn(after[n - 1][1], after[n - 1][2])
    IN  after[Len(units)][1]

OnReceive(r, units) ==
    CASE r.chunked                           -> ReceiveChunks(r, units)
      [] ~r.chunked /\ r.received >= r.size -> r
      [] ~r.chunked /\ r.received < r.size  -> Deserialize(r, units)
=============================================================================
