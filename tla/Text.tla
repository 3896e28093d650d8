-------------------------------- MODULE Text --------------------------------
(***************************************************************************)
(* Text as the parsers see it: a sequence of tokens, where a separator of  *)
(* the form at hand, a blank or the end of a line is a token of its own    *)
(* and a word is one token.  Two words are equal but for case when Lower   *)
(* maps them to the same word.                                             *)
(***************************************************************************)
EXTENDS Integers, Sequences, SequencesExt

Blanks == {" ", "tab"}
CrLf   == <<"cr", "lf">>

\* std::tolower, for the words that are used in two spellings
Spellings == [A |-> "a", HOST |-> "Host", WebSocket |-> "websocket",
              upgrade |-> "Upgrade", path |-> "Path"]
Lower(w) == IF w \in DOMAIN Spellings THEN Spellings[w] ELSE w

\* find_first_of and find_last_of; 0 is npos
FirstFrom(t, marks, from) ==
    SelectInSubSeq(t, from, Len(t), LAMBDA w : w \in marks)
First(t, marks) == FirstFrom(t, marks, 1)
Final(t, marks) == SelectLastInSeq(t, LAMBDA w : w \in marks)

Before(t, i) == IF i = 0 THEN t ELSE SubSeq(t, 1, i - 1)
Behind(t, i) == SubSeq(t, i + 1, Len(t))
Past(t, i)   == IF i = 0 THEN <<>> ELSE Behind(t, i)

IEquals(s, t) == Len(s) = Len(t) /\ \A i \in DOMAIN s : Lower(s[i]) = Lower(t[i])

Trim(t) ==
    IF ToSet(t) \subseteq Blanks THEN <<>>
    ELSE SubSeq(t, SelectInSeq(t, LAMBDA w : w \notin Blanks),
                   SelectLastInSeq(t, LAMBDA w : w \notin Blanks))

RECURSIVE Split(_, _)
Split(t, marks) ==
    LET i == First(t, marks)
        part == IF Before(t, i) = <<>> THEN <<>> ELSE <<Before(t, i)>>
    IN  IF i = 0 THEN part ELSE part \o Split(Behind(t, i), marks)

\* readBytes up to a delimiter: how many tokens lie before it, -1 if it is not
\* there.  The comparison at the end of the buffer looks behind it.
ReadUpTo(t, delim, beyond) ==
    LET Starts(i) == \A j \in DOMAIN delim :
                        (IF i + j <= Len(t) THEN t[i + j] ELSE beyond) = delim[j]
    IN  SelectInSeq([i \in 1..Len(t) |-> Starts(i - 1)], LAMBDA b : b) - 1
=============================================================================
