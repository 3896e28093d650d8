------------------------------ MODULE HttpUrl ------------------------------
(***************************************************************************)
(* HttpUrl: a URL taken to its parts and put together again, and percent   *)
(* encoding, on texts of character codes.  What a failed parse leaves in   *)
(* the object is not modelled: every caller drops it.                      *)
(***************************************************************************)
EXTENDS Text

\* std::stoi and std::to_string; it stops at the first token that is no digit
Numeral == [n \in {"0", "80", "200", "443", "8080", "65535", "65536"} |->
              CASE n = "0" -> 0 [] n = "80" -> 80 [] n = "200" -> 200
                [] n = "443" -> 443 [] n = "8080" -> 8080
                [] n = "65535" -> 65535 [] n = "65536" -> 65536]
IsNumber(t) == t # <<>> /\ t[1] \in DOMAIN Numeral
Digits(n)   == CHOOSE w \in DOMAIN Numeral : Numeral[w] = n

IsSecure(scheme) == scheme \in {<<"https">>, <<"wss">>}

ClearUrl == [scheme |-> <<"http">>, user |-> <<>>, password |-> <<>>,
             host |-> <<>>, port |-> 0, path |-> <<"/">>, query |-> <<>>,
             fragment |-> <<>>]

-----------------------------------------------------------------------------
\* the part up to the path: scheme, user and password, host and port
Authority(t) ==
    LET s    == ReadUpTo(t, <<":", "/", "/">>, "") + 1
        rest == IF s = 0 THEN t ELSE Behind(t, s + 2)
        a    == First(rest, {"@"})
        auth == SubSeq(rest, 1, a - 1)
        src  == Behind(rest, a)
        path == First(src, {"/"})
        c    == First(Before(src, path), {":"})
        port == Past(Before(src, path), c)
        scheme == IF s = 0 THEN ClearUrl.scheme ELSE SubSeq(t, 1, s - 1)
        user   == Before(auth, First(auth, {":"}))
    IN  [named |-> a = 0 \/ user # <<>>,
         url |-> [ClearUrl EXCEPT
             !.scheme   = scheme,
             !.user     = user,
             !.password = Past(auth, First(auth, {":"})),
             !.host     = Before(Before(src, path), c),
             !.path     = IF path = 0 THEN @ ELSE Behind(src, path - 1),
             !.port     = CASE c = 0 -> IF IsSecure(scheme) THEN 443 ELSE 80
                            [] c # 0 /\ IsNumber(port) -> Numeral[port[1]]
                            [] OTHER -> 0]]

ParseUrl(text) ==
    LET f    == Final(text, {"#"})
        head == Before(text, f)
        q    == Final(head, {"?"})
        a    == Authority(Before(head, q))
    IN  [ok  |-> a.named /\ a.url.port \in 1..65535,
         url |-> [a.url EXCEPT !.query = Past(head, q), !.fragment = Past(text, f)]]

-----------------------------------------------------------------------------
Port(u) == IF u.port \in {80, 443} THEN <<>> ELSE <<":", Digits(u.port)>>

ComposePath(u) == u.path \o (IF u.query = <<>> THEN <<>> ELSE <<"?">> \o u.query)

ComposeUrl(u) ==
    u.scheme \o <<":", "/", "/">>
        \o (IF u.user = <<>> \/ u.password = <<>> THEN <<>>
            ELSE u.user \o <<":">> \o u.password \o <<"@">>)
        \o u.host \o Port(u) \o ComposePath(u)
        \o (IF u.fragment = <<>> THEN <<>> ELSE <<"#">> \o u.fragment)

ComposeOrigin(u) ==
    (IF IsSecure(u.scheme) THEN <<"https">> ELSE <<"http">>)
        \o <<":", "/", "/">> \o u.host \o Port(u)

-----------------------------------------------------------------------------
\* character codes
Percent == 37
Hex     == [d \in 0..15 |-> IF d < 10 THEN 48 + d ELSE 55 + d]   \* 0-9, A-F
HexOf   == [c \in (48..57) \cup (65..70) \cup (97..102) |->
              IF c < 58 THEN c - 48 ELSE IF c < 71 THEN c - 55 ELSE c - 87]
Unreserved == (48..57) \cup (65..90) \cup (97..122) \cup {45, 95, 46, 126}

Encode(src, ignore) ==
    FlattenSeq([i \in DOMAIN src |->
        IF src[i] \in Unreserved \cup ignore THEN <<src[i]>>
        ELSE <<Percent, Hex[src[i] \div 16], Hex[src[i] % 16]>>])

\* a "%" with less than two characters behind it, or no digit, empties the
\* result; one digit alone is taken, and what stands behind it is skipped (blanks
\* behind a "%", which sscanf passes over, are left out)
RECURSIVE Decode(_)
Decode(src) ==
    LET p == First(src, {Percent})
        Digit(i) == src[i] \in DOMAIN HexOf
        code == IF Digit(p + 2) THEN 16 * HexOf[src[p + 1]] + HexOf[src[p + 2]]
                ELSE HexOf[src[p + 1]]
    IN  CASE p = 0 -> [ok |-> TRUE, text |-> src]
          [] p # 0 /\ (p + 2 > Len(src) \/ ~Digit(p + 1)) -> [ok |-> FALSE, text |-> <<>>]
          [] OTHER ->
               LET rest == Decode(Behind(src, p + 2)) IN
               [ok   |-> rest.ok,
                text |-> IF rest.ok THEN SubSeq(src, 1, p - 1) \o <<code>> \o rest.text
                         ELSE <<>>]
=============================================================================
