------------------------------- MODULE Forms -------------------------------
(***************************************************************************)
(* The texts that client and server exchange, each compared with what the  *)
(* form is: a URL with its grammar, a list of fields with the calls that   *)
(* made it, a head with every place where the network may cut it, a digest *)
(* with the standard, round by round.                                      *)
(***************************************************************************)
EXTENDS HttpMessages

VARIABLE input     \* <<the form, a sample>>

NoInput == <<"none", 0>>

Either0(t, rest) == IF t = <<>> THEN <<>> ELSE rest
Upto(n, S) == UNION {[1..k -> S] : k \in 0..n}

-----------------------------------------------------------------------------
(* URLs                                                                    *)
Literal == <<"[", ":", ":", "1", "]">>
Urls == {u \in
    [scheme : {<<"http">>, <<"wss">>}, user : {<<>>, <<"u">>},
     password : {<<>>, <<"p", ":">>}, host : {<<"h">>, Literal},
     port : {80, 443, 8080}, path : {<<"/">>, <<"/", "a", ":", "/">>, <<"/", "a", "@">>},
     query : {<<>>, <<"q", "@", ":", "/", "/">>, <<"q", "?">>},
     fragment : {<<>>, <<"f", "?">>}] : u.password # <<>> => u.user # <<>>}

DefaultPort(u) == IF IsSecure(u.scheme) THEN 443 ELSE 80
PortText(u) == IF u.port = DefaultPort(u) THEN <<>> ELSE <<":", Digits(u.port)>>

\* the URL as RFC 3986 writes it
Written(u) ==
    u.scheme \o <<":", "/", "/">>
      \o Either0(u.user, u.user \o Either0(u.password, <<":">> \o u.password) \o <<"@">>)
      \o u.host \o PortText(u) \o u.path
      \o Either0(u.query, <<"?">> \o u.query) \o Either0(u.fragment, <<"#">> \o u.fragment)

\* what the parser takes apart wrongly: a "?" in the query, a "@" in the path,
\* an IPv6 address; and what compose() leaves out
Misread(u) == \/ Contains(u.query, "?")
              \/ Contains(u.path, "@") /\ u.user = <<>>
              \/ u.host = Literal
Lossy(u) == \/ u.port \in {80, 443} \ {DefaultPort(u)}
            \/ u.user # <<>> /\ u.password = <<>>

UrlAgrees(u) ==
    /\ ~Misread(u) => ParseUrl(Written(u)) = [ok |-> TRUE, url |-> u]
    /\ ~Lossy(u) =>
          /\ ComposeUrl(u) = Written(u)
          /\ ComposeOrigin(u) = (IF IsSecure(u.scheme) THEN <<"https">> ELSE <<"http">>)
                                   \o <<":", "/", "/">> \o u.host \o PortText(u)

\* <<characters, those encode() is told to leave>>
Characters == Upto(2, {32, 37, 47, 65, 126, 200}) \X {{}, {47}}

EncodedAgrees(sample) ==
    LET text == Encode(sample[1], sample[2]) IN
    /\ Decode(text) = [ok |-> TRUE, text |-> sample[1]]
    /\ ToSet(text) \subseteq Unreserved \cup sample[2] \cup {Percent}

-----------------------------------------------------------------------------
(* Lists of fields, after up to three calls                                *)
Names  == {<<"a">>, <<"A">>, <<"b">>}
Calls  == [call : {"add", "set"}, name : Names, value : {<<>>, <<"x">>, <<"y">>}]
             \cup [call : {"remove"}, name : Names, value : {<<>>}]

\* the values of a name: those added since the last call that removed them
Expected(ops, name) ==
    LET Of(k)  == IEquals(ops[k].name, name)
        resets == {k \in DOMAIN ops : Of(k) /\ ops[k].call # "add"}
        Counts(k) == Of(k) /\ ops[k].value # <<>> /\ \A r \in resets : r <= k
        kept   == SelectSeq([k \in DOMAIN ops |-> k], Counts)
    IN  [i \in DOMAIN kept |-> ops[kept[i]].value]

\* find() of parameters and cookies gives the names again, and not the values
FieldsAgree(ops) ==
    \A name \in Names :
        LET values == Expected(ops, name)
            header == LookUpHeader(HeaderAfter(ops), name)
            first  == IF values = <<>> THEN <<>> ELSE values[1]
        IN  /\ header = [get |-> first, has |-> values # <<>>, find |-> values]
            /\ \A other \in {LookUpParams(ParamsAfter(ops), name),
                             LookUpCookie(CookieAfter(ops), name)} :
                  /\ other.get = first
                  /\ other.has = (values # <<>>)
                  /\ Len(other.find) = Len(values)

Queries == Upto(5, {"a", "=", "&"})

RECURSIVE Pieces(_)
Pieces(t) == LET i == First(t, {"&"}) IN
             IF i = 0 THEN <<t>> ELSE <<Before(t, i)>> \o Pieces(Behind(t, i))

\* each piece a name, a "=" and a value; a piece without a "=" spoils the
\* one behind it
QueryAgrees(t) ==
    LET p     == Pieces(t)
        eq(i) == First(p[i], {"="})
        legal == \A i \in DOMAIN p : eq(i) > 1
        items == [i \in DOMAIN p |-> <<Before(p[i], eq(i)), Behind(p[i], eq(i))>>]
        parsed == ParseParams(<<"?">> \o t)
    IN  /\ (\A i \in 1..(Len(p) - 1) : eq(i) > 0) => (parsed.ok <=> legal)
        /\ legal => /\ parsed.params = items
                 /\ ComposeParams(items) = <<"?">> \o t
                 /\ ParseParams(t) = parsed

-----------------------------------------------------------------------------
(* Heads of messages.  The reader's comparison at the end of its buffer     *)
(* takes a head that lacks its very last token as whole when the memory     *)
(* behind it happens to hold that token.                                    *)
Headers == Upto(2, {<<"a">>, <<"b">>} \X {<<"v">>, <<"v", ":", "w">>, <<" ", "v", " ">>})
Heads   == [header : Headers, first : {1, 2}, body : {<<>>, <<"x">>, CrLf}]

RequestOf(h) == [method |-> <<"GET">>, protocol |-> <<"HTTP/1.1">>,
                 path |-> IF h.first = 1 THEN <<"/">> ELSE <<"/", "a", "?", ":">>,
                 header |-> h.header, body |-> h.body]
ResponseOf(h) == [protocol |-> <<"HTTP/1.1">>, status |-> 200,
                  message |-> IF h.first = 1 THEN <<>> ELSE <<"O", " ", "K">>,
                  header |-> h.header, body |-> h.body]
Trimmed(m) == [m EXCEPT !.header = [i \in DOMAIN @ |-> <<@[i][1], Trim(@[i][2])>>]]

HeadAgrees(h) ==
    LET Whole(text, m, Read(_, _)) ==
            LET head == Len(text) - Len(h.body) IN
            /\ Read(text, "x") = [answer |-> "ok", message |-> Trimmed(m)]
            /\ \A n \in 0..(head - 1), beyond \in {"lf", "x"} :
                  Read(SubSeq(text, 1, n), beyond).answer =
                      IF n = head - 1 /\ beyond = "lf" THEN "ok" ELSE "more"
    IN  /\ Whole(SerializeRequest(RequestOf(h)), RequestOf(h), DeserializeRequest)
        /\ Whole(SerializeResponse(ResponseOf(h)), ResponseOf(h), DeserializeResponse)

-----------------------------------------------------------------------------
(* Cookies.  An attribute that is named like one of the fixed ones sets it. *)
Attributes == Upto(2, {<<"n">>, <<"path">>} \X {<<"v">>, <<"v", "=">>})
Cookies == [attributes : Attributes, Expires : {<<>>, <<"t">>}, MaxAge : {<<>>, <<"0">>},
            Domain : {<<>>, <<"h">>}, Path : {<<>>, <<"/">>},
            Secure : BOOLEAN, HttpOnly : BOOLEAN]

Reserved(cookie) == \E i \in DOMAIN cookie.attributes :
                       Lower(cookie.attributes[i][1][1]) \in ToSet(Valued \o Flags)

CookieAgrees(cookie) ==
    LET name   == <<"Set-Cookie">>
        header == AddCookie(AddCookie(<<>>, name, cookie), name, cookie)
    IN  ~Reserved(cookie) =>
          /\ ParseCookie(ClearCookie, ComposeCookie(cookie)) = [ok |-> TRUE, cookie |-> cookie]
          /\ GetCookies(header, name) =
                IF cookie = ClearCookie THEN <<>> ELSE <<cookie, cookie>>

-----------------------------------------------------------------------------
(* Handshakes, with a header that is left of an earlier request.  An        *)
(* earlier Host stays.                                                      *)
Required == {"Host", "Upgrade", "Connection", "Sec-Websocket-Key", "Sec-WebSocket-Version"}
Earlier  == {"Host", "upgrade", "Connection", "Sec-WebSocket-Protocol"}
Handshakes == [earlier : Upto(2, {<<Named(n), <<"old">>>> : n \in Earlier}),
               url : {[ClearUrl EXCEPT !.host = <<"h">>, !.port = 80],
                      [ClearUrl EXCEPT !.host = <<"h">>, !.port = 8080, !.scheme = <<"wss">>]},
               protocols : {<<>>, <<"p">>}]

HandshakeAgrees(s) ==
    LET Ask(key) == WsHandshakeRequest(s.earlier, s.url, s.protocols, <<key>>)
        asked    == DeserializeHeader(SerializeHeader(Ask("k")), "x")
        answer   == WsHandshakeResponse(asked.header, s.protocols)
    IN  /\ asked.ok /\ IsWsHandshakeRequest(asked.header)
        /\ Get(asked.header, Named("Sec-WebSocket-Protocol")) = s.protocols
        /\ \A name \in Required : ~IsWsHandshakeRequest(Without(asked.header, Named(name)))
        /\ IsWsHandshakeRequest(SetField(asked.header, Named("Connection"),
                                         <<"keep-alive", ",", " ", "upgrade">>))
        /\ VerifyWsHandshakeResponse(Ask("k"), answer)
        /\ ~VerifyWsHandshakeResponse(Ask("other"), answer)
        /\ ~VerifyWsHandshakeResponse(Ask("k"), <<>>)
        /\ ~Has(s.earlier, Named("Host")) => Get(asked.header, Named("Host")) = s.url.host

-----------------------------------------------------------------------------
(* Handlers, after up to three calls of setRequestHandler                   *)
Paths == {<<"/">>, <<"/", "a">>, <<"/", "a", "/">>, <<"/", "a", "/", "b">>}
Settings == Upto(3, Paths \X {"x", "y", NoHandler})

Latest(calls, path) ==
    LET k == SelectLastInSeq(calls, LAMBDA c : c[1] = path) IN
    IF k = 0 THEN NoHandler ELSE calls[k][2]

\* a path that names no directory falls back on the one it lies in
HandlerAgrees(calls) ==
    LET map == FoldLeft(LAMBDA m, c : SetRequestHandler(m, c[1], c[2]), <<>>, calls)
        Above(path) == {d \in Paths : IsDirectory(d) /\ ~IsDirectory(path) /\ IsPrefix(d, path)}
        Nearest(path) == {d \in Above(path) : \A o \in Above(path) : Len(o) <= Len(d)}
        Candidates(path) == {Latest(calls, d) : d \in Nearest(path)} \ {NoHandler}
    IN  \A path \in Paths, query \in {<<>>, <<"?", "@", ":">>} :
        \A found \in {HandlerOf(map, "default", path \o query)} :
           \/ found = Latest(calls, path) /\ found # NoHandler
           \/ Latest(calls, path) = NoHandler /\ found \in Candidates(path)
           \/ /\ Latest(calls, path) = NoHandler /\ Candidates(path) = {}
              /\ found = "default"

-----------------------------------------------------------------------------
(* Base64, bit by bit                                                       *)
Data == Upto(4, {0, 1, 127, 128, 254, 255})

Bit(data, k) == IF k >= 8 * Len(data) THEN 0
                ELSE (data[(k \div 8) + 1] \div 2 ^ (7 - (k % 8))) % 2

Base64Agrees(data) ==
    LET text == EncodeBase64(data)
        Six(j) == 32 * Bit(data, j) + 16 * Bit(data, j + 1) + 8 * Bit(data, j + 2)
                    + 4 * Bit(data, j + 3) + 2 * Bit(data, j + 4) + Bit(data, j + 5)
    IN  /\ Len(text) % 4 = 0 /\ 3 * Len(text) \in (4 * Len(data))..(4 * (Len(data) + 2))
        /\ \A i \in DOMAIN text :
              text[i] = IF 6 * (i - 1) >= 8 * Len(data) THEN Pad ELSE Six(6 * (i - 1))
        /\ DecodeBase64(text) = data

-----------------------------------------------------------------------------
(* Sha1: the padding, and then each round, as FIPS 180 defines them         *)
Lengths == {0, 1, 54, 55, 56, 63, 64, 65, 118, 119, 120}

PaddingAgrees(n) ==
    LET data   == [i \in 1..n |-> i % 7]
        blocks == BlocksOf(data)
        zeros  == CHOOSE z \in 0..63 : (n + 1 + z + 8) % 64 = 0
    IN  FlattenSeq(blocks) = data \o <<128>> \o [i \in 1..zeros |-> 0]
                                \o <<0, 0, 0, 0, 0, 0, (8 * n) \div 256, (8 * n) % 256>>

\* the messages that FIPS 180 gives the digests of, and the empty one
Messages == {
    [text |-> <<>>,
     digest |-> <<218, 57, 163, 238, 94, 107, 75, 13, 50, 85, 191, 239,
                  149, 96, 24, 144, 175, 216, 7, 9>>],
    [text |-> <<97, 98, 99>>,
     digest |-> <<169, 153, 62, 54, 71, 6, 129, 106, 186, 62, 37, 113,
                  120, 80, 194, 108, 156, 208, 216, 157>>],
    [text |-> [i \in 1..56 |-> 97 + ((i - 1) \div 4) + ((i - 1) % 4)],
     digest |-> <<132, 152, 62, 68, 28, 59, 210, 110, 186, 174, 74, 161,
                  249, 81, 41, 229, 229, 70, 112, 241>>]}

\* st is what transform has reached, registers and schedule what they would
\* be without its tricks
Digesting(m) == [message |-> m, st |-> StartTransform(InitialState, BlocksOf(m.text)),
                 registers |-> InitialState, schedule |-> WordsOf(BlocksOf(m.text)[1])]

Complement(x) == Differ(x, W(65535, 65535))
Logical(t, x, y, z) ==
    CASE t < 20       -> Either(Both(x, y), Both(Complement(x), z))
      [] t \in 40..59 -> Differ(Differ(Both(x, y), Both(x, z)), Both(y, z))
      [] OTHER        -> Differ(Differ(x, y), z)

Scheduled(s, t) ==
    IF t < 16 THEN s
    ELSE Append(s, Rol(Differ(Differ(s[t - 2], s[t - 7]), Differ(s[t - 13], s[t - 15])), 1))

Standard(r, s, t) ==
    << Plus(Plus(Plus(Rol(r[1], 5), Logical(t, r[2], r[3], r[4])), Plus(r[5], Constant(t))),
            s[t + 1]),
       r[1], Rol(r[2], 30), r[3], r[4] >>

OneRound ==
    /\ input[1] = "sha1" /\ input[2].st.round < 80
    /\ LET d == input[2]
           s == Scheduled(d.schedule, d.st.round)
       IN  input' = <<"sha1", [d EXCEPT !.st = Round(@), !.schedule = s,
                                  !.registers = Standard(@, s, d.st.round)]>>

NextBlock ==
    /\ input[1] = "sha1" /\ input[2].st.round = 80 /\ Len(input[2].st.left) > 1
    /\ LET d     == input[2]
           state == EndTransform(d.st)
           left  == Tail(d.st.left)
       IN  input' = <<"sha1", [d EXCEPT !.st = StartTransform(state, left),
                                  !.registers = state, !.schedule = WordsOf(left[1])]>>

DigestAgrees(d) ==
    /\ \A p \in 0..4 : d.st.reg[Register(d.st.round, p)] = d.registers[p + 1]
    /\ d.st.round > 0 => d.st.words[((d.st.round - 1) % 16) + 1] = d.schedule[d.st.round]
    /\ d.st.round = 80 /\ Len(d.st.left) = 1 =>
          DigestOf(EndTransform(d.st)) = d.message.digest

-----------------------------------------------------------------------------
FormsInit ==
    \/ \E x \in Urls : input = <<"url", x>>
    \/ \E x \in Characters : input = <<"encoded", x>>
    \/ \E x \in Upto(3, Calls) : input = <<"fields", x>>
    \/ \E x \in Queries : input = <<"query", x>>
    \/ \E x \in Heads : input = <<"head", x>>
    \/ \E x \in Cookies : input = <<"cookie", x>>
    \/ \E x \in Handshakes : input = <<"handshake", x>>
    \/ \E x \in Settings : input = <<"handlers", x>>
    \/ \E x \in Data : input = <<"base64", x>>
    \/ \E x \in Lengths : input = <<"padding", x>>
    \/ \E x \in Messages : input = <<"sha1", Digesting(x)>>

FormsNext == OneRound \/ NextBlock

\* What one side writes the other reads as it was meant, whatever the calls
\* that made it and wherever the network cuts it: http.inl, byte_io.hpp and
\* crypto.inl, but for the exceptions that each part names.
FormatsAgree ==
    LET x == input[2] IN
    CASE input[1] = "none"      -> TRUE
      [] input[1] = "url"       -> UrlAgrees(x)
      [] input[1] = "encoded"   -> EncodedAgrees(x)
      [] input[1] = "fields"    -> FieldsAgree(x)
      [] input[1] = "query"     -> QueryAgrees(x)
      [] input[1] = "head"      -> HeadAgrees(x)
      [] input[1] = "cookie"    -> CookieAgrees(x)
      [] input[1] = "handshake" -> HandshakeAgrees(x)
      [] input[1] = "handlers"  -> HandlerAgrees(x)
      [] input[1] = "base64"    -> Base64Agrees(x)
      [] input[1] = "padding"   -> PaddingAgrees(x)
      [] input[1] = "sha1"      -> DigestAgrees(x)
=============================================================================
