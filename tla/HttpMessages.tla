---------------------------- MODULE HttpMessages ----------------------------
(***************************************************************************)
(* HttpRequest and HttpResponse on the wire, the handshake that makes a    *)
(* connection a WebSocket, and HttpHandlerMap, which finds the handler of  *)
(* a request.  A parser answers "ok", "more" (the head is not complete),   *)
(* or "bad" (it throws).                                                   *)
(***************************************************************************)
EXTENDS HttpUrl, HttpFields, Codecs

ClearRequest == [method |-> <<>>, path |-> <<"/">>, protocol |-> <<"HTTP/1.1">>,
                 header |-> <<>>, body |-> <<>>]
ClearResponse == [protocol |-> <<"HTTP/1.1">>, status |-> 0, message |-> <<>>,
                  header |-> <<>>, body |-> <<>>]

SerializeRequest(r) ==
    r.method \o <<" ">> \o r.path \o <<" ">> \o r.protocol \o CrLf
        \o SerializeHeader(r.header) \o r.body

SerializeResponse(r) ==
    r.protocol \o <<" ", Digits(r.status), " ">> \o r.message \o CrLf
        \o SerializeHeader(r.header) \o r.body

\* the first line as two words and what remains; sp1 and sp2 are its blanks
FirstLine(t, beyond) ==
    LET n    == ReadUpTo(t, CrLf, beyond)
        line == SubSeq(t, 1, n)
        sp1  == First(line, {" "})
        sp2  == IF sp1 = 0 THEN 0 ELSE FirstFrom(line, {" "}, sp1 + 1)
    IN  [whole |-> n >= 0, sp1 |-> sp1, sp2 |-> sp2,
         one |-> Before(line, sp1), two |-> SubSeq(line, sp1 + 1, sp2 - 1),
         three |-> Past(line, sp2), rest |-> Behind(t, n + 2)]

\* the body is the reader's rest, which the content receiver takes
DeserializeRequest(t, beyond) ==
    LET f == FirstLine(t, beyond)
        h == DeserializeHeader(f.rest, beyond)
        r == [method |-> f.one, path |-> f.two, protocol |-> f.three,
              header |-> h.header, body |-> h.rest]
    IN  CASE ~f.whole \/ f.sp1 = 0 -> [answer |-> "more", message |-> ClearRequest]
          [] f.whole /\ f.sp1 # 0 /\ (f.sp2 = 0 \/ <<>> \in {f.one, f.two, f.three}) ->
                [answer |-> "bad", message |-> ClearRequest]
          [] OTHER -> IF h.ok THEN [answer |-> "ok", message |-> r]
                      ELSE [answer |-> "more", message |-> ClearRequest]

DeserializeResponse(t, beyond) ==
    LET f == FirstLine(t, beyond)
        h == DeserializeHeader(f.rest, beyond)
        r == [protocol |-> f.one, status |-> Numeral[f.two[1]], message |-> f.three,
              header |-> h.header, body |-> h.rest]
    IN  CASE ~f.whole -> [answer |-> "more", message |-> ClearResponse]
          [] f.whole /\ (f.sp1 = 0 \/ f.sp2 = 0 \/ f.one = <<>> \/ ~IsNumber(f.two)) ->
                [answer |-> "bad", message |-> ClearResponse]
          [] OTHER -> IF h.ok THEN [answer |-> "ok", message |-> r]
                      ELSE [answer |-> "more", message |-> ClearResponse]

\* a cookie is one field; a field that does not parse is passed over
AddCookie(header, name, cookie) == Add(header, name, ComposeCookie(cookie))
GetCookies(header, name) ==
    LET parsed == [i \in DOMAIN Matches(header, name) |->
                      ParseCookie(ClearCookie, Matches(header, name)[i][2])]
        good   == SelectSeq(parsed, LAMBDA p : p.ok)
    IN  [i \in DOMAIN good |-> good[i].cookie]

-----------------------------------------------------------------------------
(* The handshake.                                                          *)
Named(word) == <<word>>

IsWsHandshakeRequest(header) ==
    /\ Get(header, Named("Host")) # <<>>
    /\ IEquals(Get(header, Named("Upgrade")), <<"websocket">>)
    /\ \E value \in ToSet(Split(Get(header, Named("Connection")), {" ", ","})) :
          IEquals(value, <<"Upgrade">>)
    /\ Has(header, Named("Sec-Websocket-Key"))
    /\ Get(header, Named("Sec-WebSocket-Version")) = <<"13">>

\* the fields that requestWsHandshake sets in the header as it stands, and
\* the Host that sendHttpRequest adds
WsHandshakeRequest(header, url, protocols, key) ==
    LET Put(l, f) == SetField(l, Named(f[1]), f[2])
        set == FoldLeft(Put, header,
                 << <<"Upgrade", <<"websocket">>>>, <<"Connection", <<"Upgrade">>>>,
                    <<"Sec-WebSocket-Version", <<"13">>>>,
                    <<"Sec-WebSocket-Protocol", protocols>>,
                    <<"Origin", ComposeOrigin(url)>>, <<"Sec-Websocket-Key", key>> >>)
    IN  IF Has(set, Named("Host")) THEN set ELSE Add(set, Named("Host"), url.host)

\* Base64 of the digest of the key and the suffix, as one word
AcceptOf(key) == <<"accept", key>>

WsHandshakeResponse(request, protocol) ==
    FoldLeft(LAMBDA l, f : SetField(l, Named(f[1]), f[2]), <<>>,
             << <<"Upgrade", <<"websocket">>>>, <<"Connection", <<"Upgrade">>>>,
                <<"Sec-WebSocket-Accept", AcceptOf(Get(request, Named("Sec-Websocket-Key")))>>,
                <<"Sec-WebSocket-Protocol", protocol>> >>)

VerifyWsHandshakeResponse(request, response) ==
    /\ Get(response, Named("Sec-WebSocket-Accept")) # <<>>
    /\ Get(response, Named("Sec-WebSocket-Accept"))
          = AcceptOf(Get(request, Named("Sec-Websocket-Key")))

-----------------------------------------------------------------------------
(* Handlers: a function from the paths that have one.                      *)
NoHandler == "none"
IsDirectory(path) == path[Len(path)] = "/"

SetHandler(map, path, handler) ==
    [p \in DOMAIN map \cup {path} |-> IF p = path THEN handler ELSE map[p]]
RemoveHandler(map, path) == Restrict(map, DOMAIN map \ {path})
FindHandler(map, path)   == IF path \in DOMAIN map THEN map[path] ELSE NoHandler

\* HttpServer::setRequestHandler, where a null handler removes
SetRequestHandler(map, path, handler) ==
    IF handler # NoHandler THEN SetHandler(map, path, handler) ELSE RemoveHandler(map, path)

GetHandler(map, default, path) ==
    LET own   == FindHandler(map, path)
        above == FindHandler(map, SubSeq(path, 1, Final(path, {"/"})))
    IN  CASE own # NoHandler -> own
          [] own = NoHandler /\ ~IsDirectory(path) /\ above # NoHandler -> above
          [] OTHER -> default

\* onRequest: whose target does not parse is closed, as is one without handler
HandlerOf(map, default, target) ==
    LET parsed == ParseUrl(target) IN
    IF parsed.ok THEN GetHandler(map, default, parsed.url.path) ELSE NoHandler
=============================================================================
