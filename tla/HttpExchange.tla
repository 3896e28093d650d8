--------------------------- MODULE HttpExchange ---------------------------
(***************************************************************************)
(* An HttpClient and the server it asks: an HttpChannel with its handlers, *)
(* or a foreign server.  The client's callbacks are tasks of its thread,   *)
(* and run some time after what they tell of: in between the connection    *)
(* may have been closed, opened again for a redirection, or the caller of  *)
(* a synchronous request may have stopped waiting.                         *)
(***************************************************************************)
EXTENDS HttpContent, FiniteSets

CONSTANTS
    MaxRequests,   \* requests one client makes, one after the other
    Timeouts,      \* whether the caller of a request may time out: BOOLEANs
    BodySize       \* units of body of a request or a page that has one

ASSUME HttpAssumption ==
    /\ MaxRequests \in Nat
    /\ Timeouts \subseteq BOOLEAN
    /\ BodySize \in Nat /\ BodySize >= 2

VARIABLES
    setup,       \* what is asked of which site, and how
    client,      \* the HttpClient, its TCP channel and the tasks of its thread
    up,          \* units on their way to the server
    down,        \* units on their way to the client
    eof,         \* the server's end of the connection is closed
    server,      \* the server's channel
    answers,     \* calls of the handlers: what they were given and found
    caller,      \* of a synchronous request: "waits", "stops" or "returned"
    result       \* what the request returns to it: the error and the response

netVars == <<up, down, eof, server>>
callerVars == <<answers, caller, result>>
httpVars == <<setup, client, netVars, callerVars>>

None == "none"
Page(p) == setup.site[p]
IsRedirect(p) == Page(p).status \in {303, 307}

-----------------------------------------------------------------------------
(* The pages of a site: the status and the body of the answer, where it    *)
(* redirects to, and the way it is sent: "now" or "later", "part"ly, when  *)
(* the buffer of the socket is full at a synchronous send, or "early", by  *)
(* a server that does not read the request to its end.                     *)

\* HttpServer::defaultHandler
NotFoundPage == [status |-> 404, to |-> None, form |-> "plain", size |-> 0,
                 how |-> "now", closes |-> TRUE]
\* sendWsHandshakeResponse
UpgradePage == [status |-> 101, to |-> None, form |-> "plain", size |-> 0,
                how |-> "now", closes |-> FALSE]

FinalPages ==
    {p \in [status : {200}, to : {None}, form : {"plain", "chunked", "unsized"},
            size : {BodySize}, how : {"now", "early", "later", "part"},
            closes : BOOLEAN] :
        \/ p.form = "plain" /\ (p.how \in {"now", "early"} \/ ~p.closes)
        \/ p.form # "plain" /\ p.how = "now" /\ p.closes}
      \cup {NotFoundPage, UpgradePage}
RedirectPages ==
    {p \in [status : {303, 307}, to : {"a", "b", "bad"}, form : {"plain"},
            size : {1}, how : {"now", "early"}, closes : BOOLEAN] :
        \/ p.to = "b" /\ p.closes
        \/ p.status = 307 /\ p.how = "now" /\ ~p.closes}

\* what a redirection to "b" finds
TargetPages ==
    {p \in FinalPages : p.status = 200 /\ p.form = "plain" /\ p.how = "now" /\ ~p.closes}
      \cup {[status |-> 307, to |-> "a", form |-> "plain", size |-> 1, how |-> "now",
             closes |-> TRUE]}

Sites == [a : FinalPages, b : {NotFoundPage}] \cup [a : RedirectPages, b : TargetPages]

\* the site, the request, whether the caller waits for the answer, and for
\* some time only; a handshake is asked for once, and not waited for
Setups == {s \in [site : Sites, method : {"GET", "POST", "HEAD"},
                  sync : BOOLEAN, timeout : Timeouts] :
              /\ s.timeout => s.sync
              /\ s.site["a"] = UpgradePage => s.method = "GET" /\ ~s.sync}

Requests == IF setup.sync \/ Page("a") = UpgradePage THEN 1 ELSE MaxRequests

WireForm(p, m) ==
    CASE m = "HEAD" -> MessageHead(Page(p).size)
      [] m # "HEAD" /\ Page(p).form = "plain"   -> Plain(Page(p).size)
      [] m # "HEAD" /\ Page(p).form = "chunked" -> Chunked(Page(p).size)
      [] OTHER -> MessageHead(0) \o Data(1, Page(p).size)

\* HttpChannel as a connection finds it
FreshServer == [temp |-> <<>>, request |-> None, receiver |-> EmptyReceiver,
                method |-> "GET", pending |-> FALSE, open |-> TRUE]

\* conn is "none", "connecting" or "open": mSocket of the client's channel,
\* and unsent what its send buffer holds.  A task is <<name, error, request>>.
HttpInit ==
    /\ setup \in Setups
    /\ client = [running |-> FALSE, url |-> "a", method |-> "GET", length |-> 0,
                 body |-> 0, response |-> None, receiver |-> EmptyReceiver,
                 temp |-> <<>>, hashes |-> {}, conn |-> "none",
                 unsent |-> <<>>, tasks |-> <<>>, asked |-> 0]
    /\ up = <<>> /\ down = <<>> /\ eof = FALSE
    /\ server = FreshServer
    /\ answers = <<>>
    /\ caller = "waits"
    /\ result = [code |-> -1, page |-> None, data |-> <<>>]

-----------------------------------------------------------------------------
(* What the client's functions make of its state c.                        *)

\* nothing is queued behind the event that stops the thread
Post(c, name, code) ==
    IF \E i \in DOMAIN c.tasks : c.tasks[i][1] = "stop" THEN c
    ELSE [c EXCEPT !.tasks = Append(@, <<name, code, c.asked>>)]

\* TcpChannel::close, which forgets its handlers, and when the channel is
\* closed cancels the task that would tell so
BugCloseChannel(c) ==
    IF c.conn = "open" THEN [c EXCEPT !.conn = "none", !.unsent = <<>>] ELSE c

CloseChannel(c) ==
    IF c.conn = "open" THEN [c EXCEPT !.conn = "none", !.unsent = <<>>]
    ELSE [c EXCEPT !.tasks = RemoveFirstMatch(@, LAMBDA t : t[1] = "close")]

\* onClose that leaves what was waiting for the socket
BugOnChannelClosed(c) == Post([c EXCEPT !.conn = "none"], "close", 0)

\* TcpChannel::onClose
OnChannelClosed(c) == Post([c EXCEPT !.conn = "none", !.unsent = <<>>], "close", 0)

\* start() always finds the channel closed: whoever calls it closes it first
Start(c) == [c EXCEPT !.running = TRUE, !.conn = "connecting"]

Cleared(c) == [c EXCEPT !.response = None, !.receiver = EmptyReceiver, !.temp = <<>>]

IsResponseCompleted(c) ==
    c.response # None /\ (c.method = "HEAD" \/ IsCompleted(c.receiver))

RedirectError(c) ==
    CASE c.url \in c.hashes -> -8801
      [] c.url \notin c.hashes /\ Page(c.response).to = "bad" -> -8802
      [] OTHER -> 0

\* what was received of the answer that redirects is kept
BugRedirect(c) ==
    LET d == CloseChannel([c EXCEPT !.response = None, !.temp = <<>>]) IN
    Start([d EXCEPT !.hashes = @ \cup {c.url}, !.url = Page(c.response).to])

\* redirect(): 303 turns the request into a GET without a body, whose header
\* is kept
Redirect(c) ==
    LET d == CloseChannel(Cleared(c))
        other == Page(c.response).status = 303 IN
    Start([d EXCEPT !.hashes = @ \cup {c.url}, !.url = Page(c.response).to,
                    !.method = IF other THEN "GET" ELSE @,
                    !.body = IF other THEN 0 ELSE @])

OnResponse(c, code) ==
    IF code = 0 /\ IsRedirect(c.response) /\ RedirectError(c) = 0
    THEN Redirect(c)
    ELSE LET d == IF code # 0 THEN CloseChannel(c) ELSE c
             k == IF code = 0 /\ IsRedirect(c.response)
                  THEN RedirectError(c) ELSE code
         IN  Post([d EXCEPT !.running = FALSE], "answer", k)

SendHttpRequest(c) ==
    LET n == IF c.body > 0 THEN c.body ELSE c.length IN
    IF c.conn # "open" THEN OnResponse([c EXCEPT !.length = n], -1)
    ELSE [c EXCEPT !.length = n, !.unsent = MessageHead(n) \o Data(1, c.body)]

\* onHttpResponse, the header and then the body
OnBody(c, units) ==
    LET d == [c EXCEPT !.receiver = OnReceive(@, units), !.temp = <<>>] IN
    CASE ~d.receiver.ok -> OnResponse(d, -8502)
      [] d.receiver.ok /\ IsResponseCompleted(d) -> OnResponse(d, 0)
      [] OTHER -> d

OnHttpResponse(c, units) ==
    CASE c.response # None -> OnBody(c, units)
      [] c.response = None /\ IsInvalid(units) -> OnResponse([c EXCEPT !.temp = <<>>], -8501)
      [] c.response = None /\ ~IsInvalid(units) /\ HeadLength(units) = 0 ->
            [c EXCEPT !.temp = units]
      [] OTHER -> OnBody([c EXCEPT !.response = c.url, !.receiver =
                             InitReceiver(@, Page(c.url).form = "chunked"
                                             /\ c.method # "HEAD", units[1][2])],
                         SubSeq(units, 3, Len(units)))

\* onTcpClose; the fault forgets an answer that has begun
BugOnTcpClose(c) == IF c.response = None THEN OnResponse(c, -1) ELSE c
OnTcpClose(c) == IF IsResponseCompleted(c) THEN c ELSE OnResponse(c, -1)

-----------------------------------------------------------------------------
(* The user, and the caller of a synchronous request, whose client has a   *)
(* thread of its own.  The first page is always "a".                       *)
Request ==
    /\ client.asked < Requests
    /\ ~client.running
    /\ client.conn # "connecting"     \* see TcpConnect for this one
    /\ client' = Start([CloseChannel(Cleared(client)) EXCEPT
                    !.url = "a", !.hashes = {}, !.method = setup.method,
                    !.body = IF setup.method = "POST" THEN BodySize ELSE 0,
                    !.length = 0, !.asked = @ + 1])
    /\ UNCHANGED <<setup, netVars, callerVars>>

\* the semaphore is waited for no longer, and the thread is told to stop
StopWaiting ==
    /\ setup.sync
    /\ caller = "waits"
    /\ client.asked = 1
    /\ \/ answers # <<>> /\ UNCHANGED result
       \/ setup.timeout /\ result' = [result EXCEPT !.code = -8604]
    /\ caller' = "stops"
    /\ client' = Post(client, "stop", 0)
    /\ UNCHANGED <<setup, netVars, answers>>

-----------------------------------------------------------------------------
(* What the socket controller finds.                                       *)
Connects ==
    /\ client.conn = "connecting"
    /\ \/ client' = Post([client EXCEPT !.conn = "open"], "connected", 0)
       \/ client' = Post([client EXCEPT !.conn = "none"], "connected", -5110)
    /\ up' = <<>> /\ down' = <<>> /\ eof' = FALSE
    /\ server' = FreshServer
    /\ UNCHANGED <<setup, callerVars>>

Sends(n) ==
    /\ client' = [client EXCEPT !.unsent = SubSeq(@, n + 1, Len(@))]
    /\ up' = up \o SubSeq(client.unsent, 1, n)
    /\ UNCHANGED <<setup, down, eof, server, callerVars>>

SeesData ==
    /\ client.conn = "open"
    /\ down # <<>> \/ eof
    /\ \A i \in DOMAIN client.tasks : client.tasks[i][1] # "receive"
    /\ client' = Post(client, "receive", 0)
    /\ client' # client
    /\ UNCHANGED <<setup, netVars, callerVars>>

\* onSelectTcpClose: sends fail, and the channel is closed later when there
\* are data to be read
SeesClose ==
    /\ client.conn = "open"
    /\ eof
    /\ LET c == IF client.unsent = <<>> THEN client
                ELSE Post([client EXCEPT !.unsent = <<>>], "sent", -5211)
       IN  client' = IF down = <<>> THEN OnChannelClosed(c) ELSE c
    /\ client' # client
    /\ UNCHANGED <<setup, netVars, callerVars>>

-----------------------------------------------------------------------------
(* The tasks of the client's thread, in order.                             *)
Popped(c) == [c EXCEPT !.tasks = Tail(@)]
Runs(name) == client.tasks # <<>> /\ client.tasks[1][1] = name

RunConnected ==
    /\ Runs("connected")
    /\ client' = IF client.tasks[1][2] # 0
                 THEN OnResponse(Popped(client), client.tasks[1][2])
                 ELSE SendHttpRequest(Popped(client))
    /\ UNCHANGED <<setup, netVars, callerVars>>

\* onTcpSend, which is called for success, too, and then does nothing
RunSent ==
    /\ Runs("sent")
    /\ client' = OnResponse(Popped(client), client.tasks[1][2])
    /\ UNCHANGED <<setup, netVars, callerVars>>

RunClose ==
    /\ Runs("close")
    /\ client' = OnTcpClose(Popped(client))
    /\ UNCHANGED <<setup, netVars, callerVars>>

\* onTcpReceive for the n units that are there.  The end of the stream shows
\* in receiveAll, before the data are looked at, or to TcpChannel::onReceive,
\* after that, or not yet.
RunReceive(n) ==
    /\ Runs("receive")
    /\ \E end \in IF eof /\ n = Len(down) THEN {"before", "after", "later"}
                  ELSE {"later"} :
         LET c == IF end = "before" THEN OnChannelClosed(Popped(client))
                  ELSE Popped(client)
             d == IF n = 0 \/ IsResponseCompleted(c) THEN c
                  ELSE OnHttpResponse(c, c.temp \o SubSeq(down, 1, n))
         IN  client' = IF end = "after" /\ d.conn = "open"
                       THEN OnChannelClosed(d) ELSE d
    /\ down' = SubSeq(down, n + 1, Len(down))
    /\ UNCHANGED <<setup, up, eof, server, callerVars>>

\* the user's handler, or that of the synchronous request, which takes the
\* response out of the client
RunAnswer ==
    /\ Runs("answer")
    /\ LET t == client.tasks[1]
           found == [code |-> t[2], page |-> client.response, data |->
                     IF client.response = None THEN <<>> ELSE client.receiver.data]
       IN  /\ answers' = Append(answers, [found |-> found, request |-> t[3],
                                          latest |-> t[3] = client.asked,
                                          method |-> client.method])
           /\ result' = IF setup.sync THEN found ELSE result
    /\ client' = IF setup.sync THEN [Popped(client) EXCEPT !.response = None]
                 ELSE Popped(client)
    /\ UNCHANGED <<setup, netVars, caller>>

\* the thread has ended, and been waited for
RunStop ==
    /\ Runs("stop")
    /\ client' = [client EXCEPT !.tasks = <<>>, !.conn = "none", !.unsent = <<>>]
    /\ caller' = "returned"
    /\ UNCHANGED <<setup, netVars, answers, result>>

-----------------------------------------------------------------------------
(* The server.  HttpChannel::onTcpReceive reads requests as the client     *)
(* reads answers, and the page's handler answers them.                     *)
Answer(p, m) ==
    /\ LET units == WireForm(p, m) IN
       \E n \in IF Page(p).how = "part" THEN 2..Len(units) ELSE {Len(units)} :
           down' = down \o SubSeq(units, 1, n)
    /\ eof' = Page(p).closes

ReceiveRequest(s, units) ==
    LET read == IF s.request # None THEN units ELSE SubSeq(units, 3, Len(units))
        init == IF s.request # None THEN s.receiver
                ELSE InitReceiver(s.receiver, FALSE, units[1][2])
    IN  IF s.request = None /\ HeadLength(units) = 0 THEN [s EXCEPT !.temp = units]
        ELSE [s EXCEPT !.temp = <<>>, !.request = client.url,
                       !.method = client.method, !.receiver = OnReceive(init, read)]

ServerReceives(n) ==
    /\ server.open
    /\ up' = SubSeq(up, n + 1, Len(up))
    /\ LET s == ReceiveRequest(server, server.temp \o SubSeq(up, 1, n))
           early == s.request # None /\ Page(s.request).how = "early"
           whole == s.request # None /\ IsCompleted(s.receiver)
           later == s.request # None /\ Page(s.request).how = "later"
       IN  IF early \/ (whole /\ ~later)
           THEN Answer(s.request, s.method) /\ server' = [s EXCEPT !.open = FALSE]
           ELSE /\ server' = [s EXCEPT !.pending = whole, !.open = ~whole]
                /\ UNCHANGED <<down, eof>>
    /\ UNCHANGED <<setup, client, callerVars>>

\* a handler that has kept the channel answers
ServerAnswers ==
    /\ server.pending
    /\ Answer(server.request, server.method)
    /\ server' = [server EXCEPT !.pending = FALSE]
    /\ UNCHANGED <<setup, client, up, callerVars>>

\* the server or the connection fails
Breaks ==
    /\ client.conn = "open"
    /\ ~eof
    /\ eof' = TRUE
    /\ down' = <<>>
    /\ server' = [server EXCEPT !.open = FALSE, !.pending = FALSE]
    /\ UNCHANGED <<setup, client, up, callerVars>>

HttpNext ==
    \/ Request \/ StopWaiting
    \/ Connects \/ SeesData \/ SeesClose
    \/ \E n \in 1..Len(client.unsent) : Sends(n)
    \/ RunConnected \/ RunSent \/ RunClose \/ RunAnswer \/ RunStop
    \/ client.conn = "open" /\ \E n \in 0..Len(down) : RunReceive(n)
    \/ Runs("receive") /\ client.conn # "open"
         /\ client' = Popped(client) /\ UNCHANGED <<setup, netVars, callerVars>>
    \/ \E n \in 1..Len(up) : ServerReceives(n)
    \/ ServerAnswers \/ Breaks

-----------------------------------------------------------------------------
HttpTypeOK ==
    /\ setup \in Setups
    /\ client.conn \in {"none", "connecting", "open"}
    /\ client.conn # "open" => client.unsent = <<>>
    /\ client.response \in {"a", "b", None}
    /\ caller \in {"waits", "stops", "returned"}

Early == \E p \in {"a", "b"} : Page(p).how = "early"

\* A request is answered once, by what its own connections bring: what an
\* earlier connection had queued is void.  Two cases are excepted.  A server
\* that answers before it has read the request makes the sending fail after
\* the answer, and that is a second one.  And the handler of a synchronous
\* request takes the response away, so that the end of the connection looks
\* like the end of a request without one, and the end of a last chunk like
\* an answer that is none.
OneAnswer ==
    \A i, j \in DOMAIN answers :
        i < j /\ answers[i].request = answers[j].request =>
            \/ Early /\ setup.method = "POST"
            \/ setup.sync /\ answers[j].found.code \in {-1, -8501}

\* the data of the page's body that an answer must hold
WholeBody(p, m) ==
    IF m = "HEAD" \/ Page(p).form = "unsized" THEN <<>>
    ELSE Data(1, Page(p).size)

Intact(found, m) ==
    /\ found.page = IF IsRedirect("a") THEN Page("a").to ELSE "a"
    /\ ~IsRedirect(found.page)
    /\ found.data = WholeBody(found.page, m)

\* Success means the page that the redirections lead to, with all of its
\* body and nothing else, however the units were cut, unless the user has
\* made another request before the handler came to run.  That goes for a
\* synchronous request, too, whenever its caller stopped waiting.  A body
\* that ends with the connection is lost.
AnswerIntact ==
    /\ \A i \in DOMAIN answers :
         answers[i].found.code = 0 /\ answers[i].latest =>
            Intact(answers[i].found, answers[i].method)
    /\ caller = "returned" /\ result.code = 0 => Intact(result, client.method)

\* Nothing is under way, and nobody waits.
HttpQuiet ==
    /\ client.tasks = <<>> /\ client.unsent = <<>> /\ client.conn # "connecting"
    /\ client.conn = "open" => down = <<>> /\ ~eof
    /\ up = <<>> \/ ~server.open
    /\ ~server.pending
    /\ setup.sync => caller # "stops"

\* No request is forgotten, but for two: one that 303 has turned into a GET
\* and that still announces the body it had, and one whose answer a
\* synchronous send has cut off.
RequestsAnswered ==
    HttpQuiet /\ client.asked > 0 =>
        \/ answers # <<>> /\ answers[Len(answers)].request = client.asked
        \/ setup.sync /\ caller = "returned"
        \/ client.length > client.body
        \/ \E p \in {"a", "b"} : Page(p).how = "part"
=============================================================================
