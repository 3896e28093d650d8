----------------------------- MODULE HttpFields -----------------------------
(***************************************************************************)
(* HttpParams, HttpHeader and HttpCookie: lists of names and values that   *)
(* are changed by the same operations, and the three texts they have.      *)
(***************************************************************************)
EXTENDS Text

\* add() drops a field without a value; set() is a removal and an add
Add(l, name, value) == IF value = <<>> THEN l ELSE Append(l, <<name, value>>)

\* list::remove_if that stops at the first field of the name
BugWithout(l, name) ==
    LET i == SelectInSeq(l, LAMBDA f : IEquals(f[1], name)) IN
    IF i = 0 THEN l ELSE RemoveAt(l, i)

Without(l, name) == SelectSeq(l, LAMBDA f : ~IEquals(f[1], name))

SetField(l, name, value) == Add(Without(l, name), name, value)

Apply(l, op) ==
    CASE op.call = "add"    -> Add(l, op.name, op.value)
      [] op.call = "set"    -> SetField(l, op.name, op.value)
      [] op.call = "remove" -> Without(l, op.name)

ParamsAfter(ops) == FoldLeft(Apply, <<>>, ops)
HeaderAfter(ops) == FoldLeft(Apply, <<>>, ops)
CookieAfter(ops) == FoldLeft(Apply, <<>>, ops)

\* get, has and find; find of HttpParams and HttpCookie returns names
Matches(l, name) == SelectSeq(l, LAMBDA f : IEquals(f[1], name))
Column(l, c)     == [i \in DOMAIN l |-> l[i][c]]
Get(l, name)     == IF Matches(l, name) = <<>> THEN <<>> ELSE Matches(l, name)[1][2]
Has(l, name)     == Matches(l, name) # <<>>

Looked(l, name, column) ==
    [get |-> Get(l, name), has |-> Has(l, name), find |-> Column(Matches(l, name), column)]

LookUpParams(l, name) == Looked(l, name, 1)
LookUpHeader(l, name) == Looked(l, name, 2)
LookUpCookie(l, name) == Looked(l, name, 1)

-----------------------------------------------------------------------------
(* The query of a URL.                                                     *)

\* the name runs to the first "=", be it behind the next "&"; the value then
\* has a negative length, and runs to the end
RECURSIVE ParseItems(_)
ParseItems(t) ==
    LET eq   == First(t, {"="})
        amp  == First(t, {"&"})
        name == SubSeq(t, 1, eq - 1)
        value == IF amp > eq THEN SubSeq(t, eq + 1, amp - 1) ELSE Behind(t, eq)
    IN  CASE eq = 0 \/ name = <<>> -> [ok |-> FALSE, params |-> <<>>]
          [] eq # 0 /\ name # <<>> /\ amp = 0 -> [ok |-> TRUE, params |-> <<<<name, value>>>>]
          [] OTHER -> LET rest == ParseItems(Behind(t, amp)) IN
                      [rest EXCEPT !.params = <<<<name, value>>>> \o @]

ParseParams(t) ==
    IF t = <<>> THEN [ok |-> TRUE, params |-> <<>>]
    ELSE ParseItems(Behind(t, First(t, {"?"})))

ComposeParams(l) ==
    FlattenSeq([i \in DOMAIN l |->
        <<IF i = 1 THEN "?" ELSE "&">> \o l[i][1] \o <<"=">> \o l[i][2]])

-----------------------------------------------------------------------------
(* The header of a message, ended by an empty line.                        *)
SerializeHeader(l) ==
    FlattenSeq([i \in DOMAIN l |-> l[i][1] \o <<":">> \o l[i][2] \o CrLf]) \o CrLf

\* rest is what the reader has left; without a whole header there is none
Refused == [ok |-> FALSE, header |-> <<>>, rest |-> <<>>]

RECURSIVE DeserializeHeader(_, _)
DeserializeHeader(t, beyond) ==
    LET n     == ReadUpTo(t, CrLf, beyond)
        line  == SubSeq(t, 1, n)
        colon == First(line, {":"})
        name  == Trim(SubSeq(line, 1, colon - 1))
        value == Trim(Behind(line, colon))
        rest  == DeserializeHeader(Behind(t, n + 2), beyond)
    IN  CASE n < 0 -> Refused
          [] n = 0 -> [ok |-> TRUE, header |-> <<>>, rest |-> Behind(t, 2)]
          [] n > 0 /\ (colon = 0 \/ name = <<>> \/ value = <<>>) -> Refused
          [] OTHER -> IF rest.ok THEN [rest EXCEPT !.header = <<<<name, value>>>> \o @]
                      ELSE Refused

-----------------------------------------------------------------------------
(* A cookie: flags and attributes of fixed names beside the list.          *)
ClearCookie == [attributes |-> <<>>, Expires |-> <<>>, MaxAge |-> <<>>,
                Domain |-> <<>>, Path |-> <<>>, Secure |-> FALSE, HttpOnly |-> FALSE]
Valued == <<"Expires", "MaxAge", "Domain", "Path">>
Flags  == <<"Secure", "HttpOnly">>

SetAttribute(cookie, attribute, value) == [cookie EXCEPT ![attribute] = value]

ParseAttribute(cookie, text) ==
    LET eq    == First(text, {"="})
        name  == Trim(Before(text, eq))
        value == Trim(Past(text, eq))
        word  == IF Len(name) = 1 THEN Lower(name[1]) ELSE ""
    IN  CASE word \in ToSet(Valued) -> SetAttribute(cookie, word, value)
          [] word \in ToSet(Flags)  -> SetAttribute(cookie, word, TRUE)
          [] OTHER -> SetAttribute(cookie, "attributes", Add(cookie.attributes, name, value))

\* into the cookie as it stands: parse() does not clear it
RECURSIVE ParseCookie(_, _)
ParseCookie(cookie, t) ==
    LET semi == First(t, {";"})
        part == Before(t, semi)
    IN  CASE t = <<>> -> [ok |-> TRUE, cookie |-> cookie]
          [] t # <<>> /\ Trim(Before(part, First(part, {"="}))) = <<>> ->
                [ok |-> FALSE, cookie |-> cookie]
          [] OTHER -> ParseCookie(ParseAttribute(cookie, part), Past(t, semi))

ComposeCookie(cookie) ==
    LET pairs == cookie.attributes \o
                 SelectSeq([i \in DOMAIN Valued |-> <<<<Valued[i]>>, cookie[Valued[i]]>>],
                           LAMBDA f : f[2] # <<>>)
        flags == SelectSeq(Flags, LAMBDA w : cookie[w])
        Ends  == <<";", " ">>
        text  == FlattenSeq([i \in DOMAIN pairs |->
                               pairs[i][1] \o <<"=">> \o pairs[i][2] \o Ends])
                 \o FlattenSeq([i \in DOMAIN flags |-> <<flags[i]>> \o Ends])
    IN  SubSeq(text, 1, Len(text) - 2)
=============================================================================
