------------------------------- MODULE Codecs -------------------------------
(***************************************************************************)
(* Base64 and Sha1.  A byte is a number below 256, a letter of Base64 its  *)
(* value in the alphabet, with Pad for "=".  A word of 32 bits is a pair   *)
(* of halves, the high one first.                                          *)
(***************************************************************************)
EXTENDS Integers, Sequences, SequencesExt, Bitwise

Pad == 64

ByteAt(data, i) == IF i <= Len(data) THEN data[i] ELSE 0

\* the letters of the group that starts behind byte i
Letters(data, i) ==
    LET a == ByteAt(data, i + 1)
        b == ByteAt(data, i + 2)
        c == ByteAt(data, i + 3)
    IN  << a \div 4, (a % 4) * 16 + (b \div 16), (b % 16) * 4 + (c \div 64), c % 64 >>

EncodeBase64(data) ==
    LET groups  == (Len(data) + 2) \div 3
        letters == FlattenSeq([g \in 1..groups |-> Letters(data, 3 * g - 3)])
        padding == (3 - (Len(data) % 3)) % 3
    IN  [i \in DOMAIN letters |-> IF i > Len(letters) - padding THEN Pad ELSE letters[i]]

\* padding is passed over wherever it stands; a letter that completes no byte
\* is dropped
DecodeBase64(text) ==
    LET l == SelectSeq(text, LAMBDA c : c # Pad)
        Byte(i) == CASE i % 4 = 2 -> (l[i - 1] * 4 + (l[i] \div 16)) % 256
                     [] i % 4 = 3 -> (l[i - 1] % 16) * 16 + (l[i] \div 4)
                     [] i % 4 = 0 -> (l[i - 1] % 4) * 64 + l[i]
    IN  FlattenSeq([i \in DOMAIN l |-> IF i % 4 = 1 THEN <<>> ELSE <<Byte(i)>>])

-----------------------------------------------------------------------------
Half == 65536
W(high, low) == <<high, low>>

Plus(x, y) == LET low == x[2] + y[2] IN
              << (x[1] + y[1] + (low \div Half)) % Half, low % Half >>
Both(x, y)   == << x[1] & y[1], x[2] & y[2] >>
Either(x, y) == << x[1] | y[1], x[2] | y[2] >>
Differ(x, y) == << x[1] ^^ y[1], x[2] ^^ y[2] >>

\* SEV_SHA1_ROL
Rol(x, b) ==
    LET h == IF b < 16 THEN x ELSE <<x[2], x[1]>>
        s == 2 ^ (b % 16)
        r == Half \div s
    IN  << ((h[1] * s) % Half) + (h[2] \div r), ((h[2] * s) % Half) + (h[1] \div r) >>
\* the registers a to e, the 16 words of the block, which the later rounds
\* overwrite, and the five state words
Word(bytes, i) == W(bytes[4 * i + 1] * 256 + bytes[4 * i + 2],
                    bytes[4 * i + 3] * 256 + bytes[4 * i + 4])

Constant(i) == CASE i < 20 -> W(23170, 31129) [] i \in 20..39 -> W(28377, 60321)
                 [] i \in 40..59 -> W(36635, 48348) [] i > 59 -> W(51810, 49622)

\* SEV_SHA1_ROUND_0 to 4, without the addition
Mixed(w, x, y, i) ==
    CASE i < 20        -> Differ(Both(w, Differ(x, y)), y)
      [] i \in 40..59 -> Either(Both(Either(w, x), y), Both(w, x))
      [] OTHER         -> Differ(Differ(w, x), y)

\* SEV_SHA1_BLOCK_0 and SEV_SHA1_BLOCK; word k of the block is l[k + 1]
Block(l, i) ==
    IF i < 16 THEN l
    ELSE [l EXCEPT ![(i % 16) + 1] =
            Rol(Differ(Differ(l[((i + 13) % 16) + 1], l[((i + 8) % 16) + 1]),
                       Differ(l[((i + 2) % 16) + 1], @)), 1)]

\* in round i each register stands one place further to the right
Register(i, p) == ((p + 4 * i) % 5) + 1

Round(st) ==
    LET i    == st.round
        R(p) == Register(i, p)
        l    == Block(st.words, i)
        sum  == Plus(Plus(Mixed(st.reg[R(1)], st.reg[R(2)], st.reg[R(3)], i),
                          l[(i % 16) + 1]),
                     Plus(Constant(i), Rol(st.reg[R(0)], 5)))
    IN  [st EXCEPT !.round = i + 1, !.words = l,
                   !.reg = [@ EXCEPT ![R(4)] = Plus(@, sum), ![R(1)] = Rol(@, 30)]]

InitialState == << W(26437, 8961), W(61389, 43913), W(39098, 56574), W(4146, 21622),
                   W(50130, 57840) >>

\* transform, a round at a time, of the blocks that are left
WordsOf(bytes) == [i \in 1..16 |-> Word(bytes, i - 1)]
StartTransform(state, blocks) ==
    [state |-> state, left |-> blocks, round |-> 0, reg |-> state,
     words |-> WordsOf(blocks[1])]
EndTransform(st) == [r \in 1..5 |-> Plus(st.state[r], st.reg[r])]

\* count is mCount, of as many bits as there are; buffer the part of mBuffer
\* that it says is in use; blocks what transform was called with
Fresh == [count |-> 0, buffer |-> <<>>, blocks |-> <<>>]

Update(s, data) ==
    LET all == s.buffer \o data
        n   == Len(all) \div 64
    IN  [count  |-> s.count + 8 * Len(data),
         buffer |-> SubSeq(all, 64 * n + 1, Len(all)),
         blocks |-> s.blocks \o [k \in 1..n |-> SubSeq(all, 64 * k - 63, 64 * k)]]

RECURSIVE PadOut(_)
PadOut(s) == IF s.count % 512 = 448 THEN s ELSE PadOut(Update(s, <<0>>))

BytesOf(x) == << x[1] \div 256, x[1] % 256, x[2] \div 256, x[2] % 256 >>

BlocksOf(data) ==
    LET s      == Update(Fresh, data)
        length == BytesOf(W(0, 0)) \o BytesOf(W(s.count \div Half, s.count % Half))
    IN  Update(PadOut(Update(s, <<128>>)), length).blocks

DigestOf(state) == FlattenSeq([r \in 1..5 |-> BytesOf(state[r])])
=============================================================================
