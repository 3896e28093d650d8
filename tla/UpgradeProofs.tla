--------------------------- MODULE UpgradeProofs ---------------------------
(***************************************************************************)
(* A request is answered once.  The handler is called from a task, and     *)
(* every such task was posted by a request that ended.  The invariant says *)
(* what may be left when one has ended, in three parts: the tasks of the   *)
(* client and the answers that were given (Tidy); the connection, which    *)
(* when it is still open brings nothing that could be taken for another    *)
(* answer (Over and Heads); and the server, which has answered no request  *)
(* that is not sent to its end (Asking).  Units of a request that are not  *)
(* sent when the answer comes would end it again, as a failure of sending: *)
(* that is what a server that answers early does (Bad).                    *)
(*                                                                         *)
(* Frames are handed over whole, in order and once.  The second invariant, *)
(* WInv, is about the two WsChannels: it stands before the lemmas on them. *)
(***************************************************************************)
EXTENDS Upgrade, SequenceLemmas, TLAPS

-----------------------------------------------------------------------------
(* The types: units, tasks, what is kept of a request.  The task that      *)
(* tells of sending is posted for a failure only.                          *)
Kinds == {"head", "end", "data", "size", "eol", "cr", "lf"}
Units == Kinds \X Nat
Names == {"connected", "receive", "sent", "close", "answer", "stop"}
Tasks == {t \in Names \X Int \X Nat : t[1] = "sent" => t[2] # 0}
Flows == Seq(Units)
TaskLists == Seq(Tasks)
Pages == {"a", "b"}
Methods == {"GET", "POST", "HEAD"}

Receivers == [size : Nat, received : Nat, chunked : BOOLEAN, chunk : Nat,
              data : Flows, ok : BOOLEAN]
Clients == [running : BOOLEAN, url : Pages, method : Methods, length : Nat, body : Nat,
            response : Pages \cup {None}, receiver : Receivers, temp : Flows,
            hashes : SUBSET Pages, conn : {"none", "connecting", "open"},
            unsent : Flows, tasks : TaskLists, asked : Nat]
Servers == [temp : Flows, request : Pages \cup {None}, receiver : Receivers,
            method : Methods, pending : BOOLEAN, open : BOOLEAN]
Founds == [code : Int, page : Pages \cup {None}, data : Flows]
Answers == [found : Founds, request : Nat, latest : BOOLEAN, method : Methods]

(* the type invariant of the exchange                                      *)
HttpTypes ==
    /\ setup \in Setups
    /\ client \in Clients
    /\ client.conn # "open" => client.unsent = <<>>
    /\ up \in Flows /\ down \in Flows /\ eof \in BOOLEAN
    /\ server \in Servers
    /\ server.pending => server.request # None
    /\ answers \in Seq(Answers)
    /\ caller \in {"waits", "stops", "returned"}
    /\ result \in Founds

(* a server that answers a request with a body before it has read it       *)
Bad == Early /\ setup.method = "POST"
(* where heads of messages begin among units, and the size that they       *)
(* announce                                                                *)
NoHeads(s) == \A i \in DOMAIN s : s[i][1] # "head"
HeadFirst(s) == \A i \in DOMAIN s : i >= 2 => s[i][1] # "head"
HeadsAre(s, n) == \A i \in DOMAIN s : s[i][1] = "head" => s[i][2] = n
(* a task of c; and the error of an answer that the end of the connection  *)
(* makes when the handler of a synchronous request has taken the response  *)
Has(c, name) == \E i \in DOMAIN c.tasks : c.tasks[i][1] = name
Again(code) == setup.sync /\ code \in {-1, -8501}

(* Tasks and answers are those of requests that were made.                 *)
Numbers(c) ==
    /\ setup.sync => c.asked <= 1
    /\ \A i \in DOMAIN answers : answers[i].request <= c.asked
    /\ \A i \in DOMAIN c.tasks : c.tasks[i][3] <= c.asked
    /\ c.body = 0 \/ setup.method = "POST"

(* No request has two answers, be they given or still tasks, and the one   *)
(* that runs has none.                                                     *)
Once(c) ==
    /\ \A i, j \in DOMAIN answers :
          i < j /\ answers[i].request = answers[j].request => Again(answers[j].found.code)
    /\ \A i \in DOMAIN answers, j \in DOMAIN c.tasks :
          c.tasks[j][1] = "answer" /\ c.tasks[j][3] = answers[i].request => Again(c.tasks[j][2])
    /\ \A i, j \in DOMAIN c.tasks :
          i < j /\ c.tasks[i][1] = "answer" /\ c.tasks[j][1] = "answer"
                /\ c.tasks[i][3] = c.tasks[j][3]
             => Again(c.tasks[j][2])
    /\ c.running =>
          /\ \A i \in DOMAIN answers : answers[i].request # c.asked
          /\ \A j \in DOMAIN c.tasks : c.tasks[j][1] = "answer" => c.tasks[j][3] # c.asked

(* The tasks that tell of one connection come in their order: it opens or  *)
(* fails to send before it closes, and there is no second one in between.  *)
Turn(c) ==
    /\ \A i, j \in DOMAIN c.tasks :
          i < j /\ c.tasks[j][1] \in {"connected", "sent"}
            => c.tasks[i][1] \notin {"connected", "sent", "close"}
    /\ \A i, j \in DOMAIN c.tasks : i < j => ~(c.tasks[i][1] = "close" /\ c.tasks[j][1] = "close")

Queue(c) == Numbers(c) /\ Once(c) /\ Turn(c)

(* What the tasks say of the socket: close() cancels the task that would   *)
(* tell of the end of an earlier connection.                               *)
Linked(c) ==
    /\ c.conn # "none" => ~Has(c, "close")
    /\ Has(c, "sent") => c.running /\ c.conn = "none"
    /\ Has(c, "connected") => c.running
    /\ c.conn = "connecting" =>
          c.running /\ ~Has(c, "connected") /\ c.response = None /\ c.temp = <<>>
    /\ c.response # None => c.temp = <<>>

Tidy(c) == Queue(c) /\ Linked(c)

(* A request that has ended has left a connection without anything to be   *)
(* sent on it, and an answer that is complete, so that its end is of no    *)
(* matter.                                                                 *)
Over(c) ==
    ~c.running =>
        /\ c.conn = "open" => c.unsent = <<>> /\ ~server.open /\ ~server.pending
        /\ c.conn = "open" \/ Has(c, "close") =>
              IsResponseCompleted(c) \/ (setup.sync /\ c.response = None)

\* the units of a request that the server has not looked at
Stream(c) == Len(server.temp) + Len(up) + Len(c.unsent)
(* On a connection the server has had and the client will send one         *)
(* request: its head and its body, as long as the server waits.            *)
Asking(c) ==
    c.conn = "open" =>
        /\ Has(c, "connected") =>
              up = <<>> /\ down = <<>> /\ c.unsent = <<>> /\ server.temp = <<>>
              /\ server.request = None /\ ~server.pending /\ c.response = None /\ c.temp = <<>>
        /\ server.open \/ server.pending =>
              c.running /\ c.response = None /\ c.temp = <<>> /\ down = <<>> /\ ~eof
        /\ ~(server.open /\ server.pending)
        /\ server.open /\ server.request = None =>
              server.receiver = EmptyReceiver /\ Stream(c) \in {0, 2 + c.body}
        /\ server.open /\ server.request # None =>
              /\ server.temp = <<>>
              /\ ~server.receiver.chunked /\ server.receiver.size = c.length
              /\ server.receiver.received + Len(up) + Len(c.unsent) = c.body
        /\ server.open /\ (Stream(c) > 0 \/ server.request # None) => c.body <= c.length
        /\ HeadsAre(server.temp, c.length) /\ HeadsAre(up, c.length) /\ HeadsAre(c.unsent, c.length)
        /\ server.pending \/ down # <<>> => c.unsent = <<>>

(* On a connection there is one answer: behind its head no other one       *)
(* begins.                                                                 *)
Heads(c) ==
    c.conn = "open" =>
        /\ HeadFirst(c.temp) /\ HeadFirst(down)
        /\ c.response # None \/ ~c.running \/ c.temp # <<>> => NoHeads(down)
        /\ ~c.running => NoHeads(c.temp)

(* the invariant, but for its types                                        *)
EInv == ~Bad => Tidy(client) /\ Over(client) /\ Asking(client) /\ Heads(client)

-----------------------------------------------------------------------------
(* The pages of a site, and lists of units.                                *)

(* What is known of the pages of a site                                    *)
LEMMA FinalPagesAre ==
    ASSUME NEW P \in FinalPages
    PROVE  /\ P.size \in Nat
           /\ P.form \in {"plain", "chunked", "unsized"}
           /\ P.form # "plain" => P.size >= 2
           /\ P.status \notin {303, 307}
<1>1. BodySize \in Nat /\ BodySize >= 2
  BY HttpAssumption
<1>2. CASE P = NotFoundPage
  BY <1>2 DEF NotFoundPage
<1>3. CASE P = UpgradePage
  BY <1>3 DEF UpgradePage
<1>4. CASE P \notin {NotFoundPage, UpgradePage}
  <2>1. P \in [status : {200}, to : {None}, form : {"plain", "chunked", "unsized"},
               size : {BodySize}, how : {"now", "early", "later", "part"}, closes : BOOLEAN]
    BY <1>4, Zenon DEF FinalPages
  <2>3. P.size = BodySize /\ P.form \in {"plain", "chunked", "unsized"} /\ P.status = 200
    BY <2>1
  <2> QED
    BY <1>1, <2>3
<1> QED
  BY <1>2, <1>3, <1>4
(* a page that redirects                                                   *)
LEMMA RedirectPagesAre ==
    ASSUME NEW P \in RedirectPages
    PROVE  /\ P.size = 1
           /\ P.form = "plain"
           /\ P.to \in Pages \cup {"bad"}
  BY DEF RedirectPages, Pages
(* a page that a redirection leads to                                      *)
LEMMA TargetPagesAre ==
    ASSUME NEW P \in TargetPages
    PROVE  /\ P.size \in Nat
           /\ P.form = "plain"
           /\ P.status \in {303, 307} => P.to \in Pages
<1>1. CASE P \in FinalPages /\ P.form = "plain"
  BY <1>1, FinalPagesAre
<1>2. CASE P = [status |-> 307, to |-> "a", form |-> "plain", size |-> 1, how |-> "now",
                closes |-> TRUE]
  BY <1>2 DEF Pages
<1> QED
  BY <1>1, <1>2, Zenon DEF TargetPages
(* every page of a site is one of the three                                *)
LEMMA SitesAre ==
    ASSUME NEW T \in Sites
    PROVE \A p \in Pages : T[p] \in FinalPages \cup RedirectPages \cup TargetPages
<1>1. NotFoundPage \in FinalPages
  BY DEF FinalPages
<1> QED
  BY <1>1 DEF Sites, Pages
(* the request that is made, and the pages of its site                     *)
LEMMA PagesAre ==
    ASSUME setup \in Setups
    PROVE  /\ setup.sync \in BOOLEAN /\ setup.method \in Methods
           /\ \A p \in Pages :
                 /\ Page(p).size \in Nat
                 /\ Page(p).form \in {"plain", "chunked", "unsized"}
                 /\ Page(p).form # "plain" => Page(p).size >= 2
                 /\ IsRedirect(p) => Page(p).to \in Pages \cup {"bad"}
<1>1. setup.site \in Sites /\ setup.sync \in BOOLEAN /\ setup.method \in Methods
  BY DEF Setups, Methods
<1> SUFFICES ASSUME NEW p \in Pages
    PROVE        /\ Page(p).size \in Nat
                 /\ Page(p).form \in {"plain", "chunked", "unsized"}
                 /\ Page(p).form # "plain" => Page(p).size >= 2
                 /\ IsRedirect(p) => Page(p).to \in Pages \cup {"bad"}
  BY <1>1
<1>2. Page(p) \in FinalPages \cup RedirectPages \cup TargetPages
  BY <1>1, SitesAre DEF Page
<1>3. ASSUME NEW P \in FinalPages \cup RedirectPages \cup TargetPages
      PROVE  /\ P.size \in Nat
             /\ P.form \in {"plain", "chunked", "unsized"}
             /\ P.form # "plain" => P.size >= 2
             /\ P.status \in {303, 307} => P.to \in Pages \cup {"bad"}
  <2>1. CASE P \in FinalPages
    BY <2>1, FinalPagesAre
  <2>2. CASE P \in RedirectPages
    BY <2>2, RedirectPagesAre
  <2>3. CASE P \in TargetPages
    BY <2>3, TargetPagesAre
  <2> QED
    BY <1>3, <2>1, <2>2, <2>3
<1> DEFINE P == Page(p)
<1> HIDE DEF P
<1>4. /\ P.size \in Nat
      /\ P.form \in {"plain", "chunked", "unsized"}
      /\ P.form # "plain" => P.size >= 2
      /\ P.status \in {303, 307} => P.to \in Pages \cup {"bad"}
  BY <1>2, <1>3 DEF P
<1> QED
  BY <1>4, Zenon DEF IsRedirect, P
(* whether the server closes the connection after an answer                *)
LEMMA PageCloses ==
    ASSUME setup \in Setups, NEW p \in Pages
    PROVE  Page(p).closes \in BOOLEAN
<1>0. setup.site \in Sites
  BY DEF Setups
<1>1. Page(p) \in FinalPages \cup RedirectPages \cup TargetPages
  BY <1>0, SitesAre DEF Page
<1>2. ASSUME NEW P \in FinalPages PROVE P.closes \in BOOLEAN
  <2>1. CASE P = NotFoundPage
    BY <2>1 DEF NotFoundPage
  <2>2. CASE P = UpgradePage
    BY <2>2 DEF UpgradePage
  <2>3. CASE P \notin {NotFoundPage, UpgradePage}
    <3>1. P \in [status : {200}, to : {None}, form : {"plain", "chunked", "unsized"},
               size : {BodySize}, how : {"now", "early", "later", "part"}, closes : BOOLEAN]
      BY <2>3, Zenon DEF FinalPages
    <3> QED
      BY <3>1
  <2> QED
    BY <2>1, <2>2, <2>3
<1>3. ASSUME NEW P \in RedirectPages PROVE P.closes \in BOOLEAN
  BY SMT DEF RedirectPages
<1>4. ASSUME NEW P \in TargetPages PROVE P.closes \in BOOLEAN
  <2>1. CASE P = [status |-> 307, to |-> "a", form |-> "plain", size |-> 1, how |-> "now",
                  closes |-> TRUE]
    BY <2>1
  <2> QED
    BY <1>2, <2>1, Zenon DEF TargetPages
<1> QED
  BY <1>1, <1>2, <1>3, <1>4

(* The beginning of a list of units and what is left                       *)
LEMMA CutUnits ==
    ASSUME NEW s \in Seq(Units), NEW n \in 0..Len(s)
    PROVE  LET v == SubSeq(s, 1, n)
               w == SubSeq(s, n + 1, Len(s)) IN
           /\ v \in Seq(Units) /\ w \in Seq(Units) /\ Len(v) = n /\ Len(w) = Len(s) - n
           /\ v \o w = s
           /\ NoHeads(s) => NoHeads(v) /\ NoHeads(w)
           /\ HeadFirst(s) => HeadFirst(v) /\ HeadFirst(w) /\ (n > 0 => NoHeads(w))
           /\ \A k : HeadsAre(s, k) => HeadsAre(v, k) /\ HeadsAre(w, k)
<1> DEFINE v == SubSeq(s, 1, n)
           w == SubSeq(s, n + 1, Len(s))
<1>1. /\ v \in Seq(Units) /\ w \in Seq(Units) /\ Len(v) = n /\ Len(w) = Len(s) - n
      /\ \A i \in 1..n : v[i] = s[i]
      /\ \A i \in 1..(Len(s) - n) : w[i] = s[i + n]
      /\ s = v \o w
  BY Halves, ZenonT(60)
<1> HIDE DEF v, w
<1>2. Len(s) \in Nat /\ DOMAIN s = 1..Len(s) /\ DOMAIN v = 1..n /\ DOMAIN w = 1..(Len(s) - n)
  BY <1>1
<1>3. /\ \A i \in DOMAIN v : i \in DOMAIN s /\ v[i] = s[i]
      /\ \A i \in DOMAIN w : /\ i + n \in DOMAIN s /\ w[i] = s[i + n]
                              /\ i \in Nat /\ (i >= 2 => i + n >= 2) /\ (n > 0 => i + n >= 2)
  BY <1>1, <1>2
<1>4. NoHeads(s) => NoHeads(v) /\ NoHeads(w)
  BY <1>3 DEF NoHeads
<1>5. HeadFirst(s) => HeadFirst(v) /\ HeadFirst(w) /\ (n > 0 => NoHeads(w))
  BY <1>3 DEF NoHeads, HeadFirst
<1>6. \A k : HeadsAre(s, k) => HeadsAre(v, k) /\ HeadsAre(w, k)
  BY <1>3 DEF HeadsAre
<1> QED
  BY <1>1, <1>4, <1>5, <1>6 DEF v, w

(* What begins behind the first k units, or behind the end                 *)
LEMMA BehindIs ==
    ASSUME NEW s \in Seq(Units), NEW k \in Nat
    PROVE  LET w == SubSeq(s, k + 1, Len(s)) IN
           /\ w \in Seq(Units)
           /\ Len(w) = IF k <= Len(s) THEN Len(s) - k ELSE 0
           /\ \A i \in 1..Len(w) : i + k \in 1..Len(s) /\ w[i] = s[i + k]
<1> DEFINE w == SubSeq(s, k + 1, Len(s))
<1>0. Len(s) \in Nat /\ k + 1 \in Int /\ Len(s) \in Int /\ \A i \in (k + 1)..Len(s) : s[i] \in Units
  BY ElementOfSeq
<1>1. /\ w \in Seq(Units)
      /\ Len(w) = IF k + 1 <= Len(s) THEN Len(s) - (k + 1) + 1 ELSE 0
      /\ \A i \in 1..(Len(s) - (k + 1) + 1) : w[i] = s[(k + 1) + i - 1]
  BY <1>0, SubSeqProperties
<1> HIDE DEF w
<1>2. CASE k + 1 <= Len(s)
  <2>1. Len(w) = Len(s) - k /\ k <= Len(s)
    BY <1>0, <1>1, <1>2
  <2>2. \A i \in 1..Len(w) : i + k \in 1..Len(s) /\ (k + 1) + i - 1 = i + k
                             /\ i \in 1..(Len(s) - (k + 1) + 1)
    BY <1>0, <2>1
  <2> QED
    BY <1>1, <2>1, <2>2 DEF w
<1>3. CASE ~(k + 1 <= Len(s))
  <2>1. Len(w) = 0 /\ (k <= Len(s) => Len(s) - k = 0)
    BY <1>0, <1>1, <1>3
  <2> QED
    BY <1>1, <2>1 DEF w
<1> QED
  BY <1>2, <1>3

(* Two lists of units, one behind the other                                *)
LEMMA JoinUnits ==
    ASSUME NEW v \in Seq(Units), NEW w \in Seq(Units)
    PROVE  /\ v \o w \in Seq(Units) /\ Len(v \o w) = Len(v) + Len(w)
           /\ NoHeads(v) /\ NoHeads(w) => NoHeads(v \o w)
           /\ HeadFirst(v) /\ v # <<>> /\ NoHeads(w) => HeadFirst(v \o w)
           /\ HeadFirst(w) /\ v = <<>> => HeadFirst(v \o w)
           /\ \A k : HeadsAre(v, k) /\ HeadsAre(w, k) => HeadsAre(v \o w, k)
<1> DEFINE r == v \o w
<1>1. /\ r \in Seq(Units) /\ Len(r) = Len(v) + Len(w)
      /\ \A i \in 1..Len(r) : \/ i \in 1..Len(v) /\ r[i] = v[i]
                              \/ i - Len(v) \in 1..Len(w) /\ r[i] = w[i - Len(v)]
  BY ConcatPlaces, ConcatProperties
<1>2. v = <<>> => r = w
  OBVIOUS
<1> HIDE DEF r
<1>3. DOMAIN r = 1..Len(r) /\ DOMAIN v = 1..Len(v) /\ DOMAIN w = 1..Len(w)
      /\ Len(v) \in Nat /\ Len(w) \in Nat /\ (v # <<>> => Len(v) > 0)
  BY <1>1, EmptySeq
<1>4. NoHeads(v) /\ NoHeads(w) => NoHeads(r)
  BY <1>1, <1>3 DEF NoHeads
<1>5. HeadFirst(v) /\ v # <<>> /\ NoHeads(w) => HeadFirst(r)
  <2> SUFFICES ASSUME HeadFirst(v), v # <<>>, NoHeads(w), NEW i \in DOMAIN r, i >= 2
               PROVE  r[i][1] # "head"
    BY DEF HeadFirst
  <2>1. CASE i \in 1..Len(v) /\ r[i] = v[i]
    BY <1>3, <2>1 DEF HeadFirst
  <2>2. CASE i - Len(v) \in 1..Len(w) /\ r[i] = w[i - Len(v)]
    BY <1>3, <2>2 DEF NoHeads
  <2> QED
    BY <1>1, <1>3, <2>1, <2>2
<1>6. ASSUME NEW k, HeadsAre(v, k), HeadsAre(w, k) PROVE HeadsAre(r, k)
  <2> SUFFICES ASSUME NEW i \in DOMAIN r, r[i][1] = "head" PROVE r[i][2] = k
    BY DEF HeadsAre
  <2>1. CASE i \in 1..Len(v) /\ r[i] = v[i]
    BY <1>3, <1>6, <2>1 DEF HeadsAre
  <2>2. CASE i - Len(v) \in 1..Len(w) /\ r[i] = w[i - Len(v)]
    BY <1>3, <1>6, <2>2 DEF HeadsAre
  <2> QED
    BY <1>1, <1>3, <2>1, <2>2
<1> QED
  BY <1>1, <1>2, <1>4, <1>5, <1>6 DEF r

(* The units of an answer, of which only the first is the beginning of a   *)
(* head                                                                    *)
LEMMA WireFormIs ==
    ASSUME setup \in Setups, NEW p \in Pages, NEW m \in Methods
    PROVE  /\ WireForm(p, m) \in Seq(Units)
           /\ HeadFirst(WireForm(p, m))
<1> DEFINE n == Page(p).size
<1>0. n \in Nat /\ Page(p).form \in {"plain", "chunked", "unsized"}
      /\ (Page(p).form # "plain" => n >= 2)
  BY PagesAre
<1> HIDE DEF n
<1>1. \A k, l \in Nat : k <= l + 1 => Data(k, l) \in Seq(Units) /\ NoHeads(Data(k, l))
  <2> SUFFICES ASSUME NEW k \in Nat, NEW l \in Nat, k <= l + 1
               PROVE  Data(k, l) \in Seq(Units) /\ NoHeads(Data(k, l))
    OBVIOUS
  <2>1. l - k + 1 \in Nat /\ \A i \in 1..(l - k + 1) : <<"data", k + i - 1>> \in Units
    BY DEF Units, Kinds
  <2>2. Data(k, l) \in [1..(l - k + 1) -> Units]
    BY <2>1 DEF Data
  <2>3. NoHeads(Data(k, l))
    BY DEF NoHeads, Data
  <2> QED
    BY <2>1, <2>2, <2>3
<1>2. \A k \in Nat : /\ ChunkSize(k) \in Seq(Units) /\ NoHeads(ChunkSize(k))
                     /\ MessageHead(k) \in Seq(Units) /\ HeadFirst(MessageHead(k))
                     /\ MessageHead(k) # <<>>
  BY DEF ChunkSize, MessageHead, NoHeads, HeadFirst, Units, Kinds
<1>3. CrLf \in Seq(Units) /\ NoHeads(CrLf)
  BY DEF CrLf, NoHeads, Units, Kinds
<1>4. \A v \in Seq(Units), w \in Seq(Units) :
         /\ v \o w \in Seq(Units)
         /\ NoHeads(v) /\ NoHeads(w) => NoHeads(v \o w)
         /\ HeadFirst(v) /\ v # <<>> /\ NoHeads(w) => HeadFirst(v \o w)
         /\ v # <<>> => v \o w # <<>>
  BY JoinUnits
<1> HIDE DEF NoHeads, HeadFirst
<1>5. CASE m = "HEAD"
  BY <1>0, <1>2, <1>5 DEF WireForm, n
<1>6. CASE m # "HEAD" /\ Page(p).form = "plain"
  <2>1. Data(1, n) \in Seq(Units) /\ NoHeads(Data(1, n))
    BY ONLY <1>0, <1>1
  <2>2. WireForm(p, m) = MessageHead(n) \o Data(1, n)
    BY <1>6 DEF WireForm, Plain, n
  <2> QED
    BY <1>0, <1>2, <1>4, <2>1, <2>2
<1>7. CASE m # "HEAD" /\ Page(p).form = "unsized"
  <2>1. Data(1, n) \in Seq(Units) /\ NoHeads(Data(1, n))
    BY ONLY <1>0, <1>1
  <2>2. WireForm(p, m) = MessageHead(0) \o Data(1, n)
    BY <1>7 DEF WireForm, n
  <2> QED
    BY <1>2, <1>4, <2>1, <2>2
<1>8. CASE m # "HEAD" /\ Page(p).form = "chunked"
  <2>1. /\ Data(1, 1) \in Seq(Units) /\ NoHeads(Data(1, 1))
        /\ Data(2, n) \in Seq(Units) /\ NoHeads(Data(2, n))
    BY <1>0, <1>1, <1>8
  <2>2. ChunkSize(n - 1) \in Seq(Units) /\ NoHeads(ChunkSize(n - 1))
    BY <1>0, <1>2, <1>8
  <2>3. WireForm(p, m) = MessageHead(0) \o ChunkSize(1) \o Data(1, 1) \o CrLf
                 \o ChunkSize(n - 1) \o Data(2, n) \o CrLf \o ChunkSize(0) \o CrLf
    BY <1>8 DEF WireForm, Chunked, n
  <2> DEFINE Good(s) == s \in Seq(Units) /\ HeadFirst(s) /\ s # <<>>
             Next1(s) == s \in Seq(Units) /\ NoHeads(s)
  <2>4. \A v, w : Good(v) /\ Next1(w) => Good(v \o w)
    BY <1>4
  <2>5. Good(MessageHead(0)) /\ Next1(ChunkSize(1)) /\ Next1(Data(1, 1)) /\ Next1(CrLf)
        /\ Next1(ChunkSize(n - 1)) /\ Next1(Data(2, n)) /\ Next1(ChunkSize(0))
    BY <1>2, <1>3, <2>1, <2>2
  <2> HIDE DEF Good, Next1
  <2>6. Good(MessageHead(0) \o ChunkSize(1) \o Data(1, 1) \o CrLf)
    BY <2>4, <2>5
  <2>7. Good(MessageHead(0) \o ChunkSize(1) \o Data(1, 1) \o CrLf
                 \o ChunkSize(n - 1) \o Data(2, n) \o CrLf)
    BY <2>4, <2>5, <2>6
  <2>8. Good(WireForm(p, m))
    BY <2>3, <2>4, <2>5, <2>7
  <2> QED
    BY <2>8 DEF Good
<1> QED
  BY <1>0, <1>5, <1>6, <1>7, <1>8

-----------------------------------------------------------------------------
(* HttpContentReceiver.                                                    *)

(* what HttpContentReceiver takes of the units that are there              *)
LEMMA ConsumedIs ==
    ASSUME NEW r \in Receivers, NEW u \in Seq(Units), r.chunked \/ r.received <= r.size
    PROVE  /\ Consumed(r, u) \in 0..Len(u)
           /\ r.chunked => Consumed(r, u) <= r.chunk
           /\ ~r.chunked => Consumed(r, u) = IF Len(u) < r.size - r.received THEN Len(u)
                                             ELSE r.size - r.received
<1>1. /\ r.chunk \in Nat /\ r.size \in Nat /\ r.received \in Nat /\ Len(u) \in Nat
  BY DEF Receivers
<1>2. CASE r.chunked
  BY <1>1, <1>2 DEF Consumed
<1>3. CASE ~r.chunked
  BY <1>1, <1>3 DEF Consumed
<1> QED
  BY <1>2, <1>3

(* a part of a body, or of a chunk, is taken                               *)
LEMMA DeserializeIs ==
    ASSUME NEW r \in Receivers, NEW u \in Seq(Units), r.chunked \/ r.received <= r.size
    PROVE  LET d == Deserialize(r, u) IN
           /\ d \in Receivers /\ d.chunked = r.chunked /\ d.size = r.size /\ d.ok = r.ok
           /\ r.chunked => d.received = r.received
           /\ ~r.chunked => d.received = r.received + Consumed(r, u)
           /\ Rest(r, u) \in Seq(Units)
<1> DEFINE n == Consumed(r, u)
<1>1. n \in 0..Len(u) /\ (r.chunked => n <= r.chunk)
  BY ConsumedIs
<1>2. Len(u) \in Nat /\ r.chunk \in Nat /\ r.received \in Nat /\ r.size \in Nat
      /\ r.chunked \in BOOLEAN /\ r.ok \in BOOLEAN /\ r.data \in Seq(Units)
  BY DEF Receivers, Flows
<1>3. PICK v : v = SubSeq(u, 1, n)
  OBVIOUS
<1>4. v \in Seq(Units)
  BY <1>1, <1>3, CutUnits
<1>5. PICK x : x = r.data \o v
  OBVIOUS
<1>6. x \in Seq(Units)
  BY <1>2, <1>4, <1>5
<1>7. Rest(r, u) \in Seq(Units)
  <2>1. n + 2 \in Nat /\ n \in Nat /\ (n + 2) + 1 = n + 3
    BY <1>1, <1>2
  <2>2. SubSeq(u, n + 1, Len(u)) \in Seq(Units) /\ SubSeq(u, (n + 2) + 1, Len(u)) \in Seq(Units)
    BY <2>1, BehindIs
  <2> QED
    BY <2>1, <2>2 DEF Rest
<1>8. PICK m : m = n
  OBVIOUS
<1>9. Deserialize(r, u) = [r EXCEPT !.data = x, !.chunk = IF r.chunked THEN r.chunk - m ELSE r.chunk,
                             !.received = IF r.chunked THEN r.received ELSE r.received + m]
  BY <1>3, <1>5, <1>8 DEF Deserialize
<1> HIDE DEF n
<1>10. m \in Nat /\ (r.chunked => m <= r.chunk)
  BY <1>1, <1>2, <1>8
<1> DEFINE k == IF r.chunked THEN r.chunk - m ELSE r.chunk
           l == IF r.chunked THEN r.received ELSE r.received + m
<1>11. k \in Nat /\ l \in Nat
  BY <1>2, <1>10
<1>12. (r.chunked => l = r.received) /\ (~r.chunked => l = r.received + m)
  OBVIOUS
<1> HIDE DEF k, l
<1>13. PICK d : d = [r EXCEPT !.data = x, !.chunk = k, !.received = l]
  OBVIOUS
<1>14. d = Deserialize(r, u)
  BY <1>9, <1>13 DEF k, l
<1>f. x \in Flows
  BY <1>6 DEF Flows
<1>15. d \in Receivers /\ d.chunked = r.chunked /\ d.size = r.size /\ d.ok = r.ok /\ d.received = l
  BY <1>f, <1>11, <1>13 DEF Receivers
<1>16. m = Consumed(r, u)
  BY <1>8 DEF n
<1> QED
  BY <1>7, <1>12, <1>14, <1>15, <1>16, Zenon

(* where the size of a chunk ends                                          *)
LEMMA SizeAtIs ==
    ASSUME NEW u \in Seq(Units), u # <<>>
    PROVE  SizeAt(u) \in {0, 1, 2} /\ (SizeAt(u) # 0 => SizeAt(u) \in 1..Len(u))
  BY DEF SizeAt

(* one turn of the loop that takes chunks leaves a receiver and a rest     *)
LEMMA ChunkTurnIs ==
    ASSUME NEW r \in Receivers, r.chunked, NEW u \in Seq(Units)
    PROVE  /\ ChunkTurn(r, u) \in Receivers \X Seq(Units)
           /\ ~ChunkTurn(r, u)[1].chunked => ChunkTurn(r, u)[2] = <<>>
<1>0. ASSUME NEW p, NEW a \in Receivers, NEW b \in Seq(Units), p = <<a, b>>,
             a.chunked \/ b = <<>>
      PROVE  p \in Receivers \X Seq(Units) /\ (~p[1].chunked => p[2] = <<>>)
  <2>1. p[1] = a /\ p[2] = b
    BY <1>0
  <2> QED
    BY <1>0, <2>1
<1>a. <<>> \in Seq(Units)
  OBVIOUS
<1>1. CASE u = <<>>
  <2>1. ChunkTurn(r, u) = <<r, <<>>>>
    BY <1>1 DEF ChunkTurn
  <2> QED
    BY <1>0, <1>a, <2>1, Zenon
<1>2. CASE u # <<>> /\ r.chunk > 0
  <2>1. ChunkTurn(r, u) = <<Deserialize(r, u), Rest(r, u)>>
    BY <1>2 DEF ChunkTurn
  <2>2. Deserialize(r, u) \in Receivers /\ Deserialize(r, u).chunked = r.chunked
        /\ Rest(r, u) \in Seq(Units)
    BY DeserializeIs
  <2> QED
    BY <1>0, <1>a, <2>1, <2>2, Zenon
<1>3. CASE u # <<>> /\ r.chunk = 0 /\ SizeAt(u) = 0
  <2>1. ChunkTurn(r, u) = <<NoSize(r), <<>>>>
    BY <1>3 DEF ChunkTurn
  <2>2. NoSize(r) \in Receivers /\ NoSize(r).chunked = r.chunked
    BY DEF NoSize, Receivers
  <2> QED
    BY <1>0, <1>a, <2>1, <2>2, Zenon
<1>4. CASE u # <<>> /\ r.chunk = 0 /\ SizeAt(u) # 0 /\ u[SizeAt(u)][2] = 0
  <2>1. ChunkTurn(r, u) = <<Finished(r), <<>>>>
    BY <1>4 DEF ChunkTurn
  <2>2. Finished(r) \in Receivers
    BY DEF Finished, Receivers
  <2> QED
    BY <1>0, <1>a, <2>1, <2>2, Zenon
<1>5. CASE u # <<>> /\ r.chunk = 0 /\ SizeAt(u) # 0 /\ u[SizeAt(u)][2] # 0
  <2> DEFINE i == SizeAt(u)
  <2>1. ChunkTurn(r, u) = <<NextChunk(r, u[i][2]), SubSeq(u, i + 2, Len(u))>>
    BY <1>5 DEF ChunkTurn
  <2>2. i \in {1, 2} /\ i \in 1..Len(u)
    BY <1>5, SizeAtIs
  <2> HIDE DEF i
  <2>3. u[i] \in Units
    BY <2>2, ElementOfSeq
  <2>4. u[i][2] \in Nat
    BY <2>3 DEF Units
  <2>5. PICK n : n = u[i][2]
    OBVIOUS
  <2>6. NextChunk(r, n) \in Receivers /\ NextChunk(r, n).chunked = r.chunked
    BY <2>4, <2>5 DEF NextChunk, Receivers
  <2>7. i + 1 \in Nat /\ (i + 1) + 1 = i + 2
    BY <2>2
  <2>8. SubSeq(u, i + 2, Len(u)) \in Seq(Units)
    BY <2>7, BehindIs
  <2> QED
    BY <1>0, <2>1, <2>5, <2>6, <2>8, Zenon
<1>6. r.chunk \in Nat /\ (r.chunk = 0 \/ r.chunk > 0)
  BY DEF Receivers
<1> QED
  BY <1>1, <1>2, <1>3, <1>4, <1>5, <1>6

(* however many turns the loop takes, a receiver is left                   *)
LEMMA ReceiveChunksIs ==
    ASSUME NEW r \in Receivers, NEW u \in Seq(Units), r.chunked
    PROVE  ReceiveChunks(r, u) \in Receivers
<1> DEFINE S == {p \in Receivers \X Seq(Units) : ~p[1].chunked => p[2] = <<>>}
           g == [p \in S |-> ChunkTurn(p[1], p[2])]
           x == <<r, u>>
           m == Len(u)
           Is(f) == f = [j \in 0..Len(u) |-> IF j = 0 THEN <<r, u>>
                                             ELSE ChunkTurn(f[j - 1][1], f[j - 1][2])]
           after == CHOOSE f : Is(f)
<1>1. ReceiveChunks(r, u) = after[Len(u)][1]
  BY DEF ReceiveChunks
<1>2. x \in S /\ m \in Nat
  OBVIOUS
<1>3. \A p \in S : ChunkTurn(p[1], p[2]) \in S
  <2> SUFFICES ASSUME NEW p \in S PROVE ChunkTurn(p[1], p[2]) \in S
    OBVIOUS
  <2>0. PICK a, b : a = p[1] /\ b = p[2]
    OBVIOUS
  <2>1. a \in Receivers /\ b \in Seq(Units) /\ (~a.chunked => b = <<>>) /\ p = <<a, b>>
    BY <2>0
  <2>2. CASE a.chunked
    <3>1. PICK q : q = ChunkTurn(a, b)
      OBVIOUS
    <3>2. q \in Receivers \X Seq(Units) /\ (~q[1].chunked => q[2] = <<>>)
      BY <2>1, <2>2, <3>1, ChunkTurnIs
    <3> QED
      BY <2>0, <3>1, <3>2
  <2>3. CASE b = <<>>
    <3>1. ChunkTurn(a, b) = p
      BY <2>1, <2>3 DEF ChunkTurn
    <3> QED
      BY <2>0, <3>1
  <2> QED
    BY <2>1, <2>2, <2>3
<1>4. g \in [S -> S]
  BY <1>3
<1>5. \A p \in S : g[p] = ChunkTurn(p[1], p[2]) /\ p[1] \in Receivers
  OBVIOUS
<1> HIDE DEF S, g, x, m, Is, after
<1>6. PICK f : f \in [0..m -> S] /\ f[0] = x /\ \A j \in 1..m : f[j] = g[f[j - 1]]
  <2>1. \E f : Series(f, S, x, g, m)
    BY <1>2, <1>4, Repeats
  <2> QED
    BY <2>1 DEF Series
<1>7. Is(f)
  <2>1. \A j \in 0..m : f[j] = IF j = 0 THEN x ELSE ChunkTurn(f[j - 1][1], f[j - 1][2])
    <3> SUFFICES ASSUME NEW j \in 0..m
                 PROVE  f[j] = IF j = 0 THEN x ELSE ChunkTurn(f[j - 1][1], f[j - 1][2])
      OBVIOUS
    <3>1. CASE j = 0
      BY <1>6, <3>1
    <3>2. CASE j # 0
      <4>1. j \in 1..m /\ j - 1 \in 0..m
        BY <1>2, <3>2
      <4> QED
        BY <1>5, <1>6, <3>2, <4>1
    <3> QED
      BY <3>1, <3>2
  <2>2. f = [j \in 0..m |-> IF j = 0 THEN x ELSE ChunkTurn(f[j - 1][1], f[j - 1][2])]
    BY <1>6, <2>1
  <2> QED
    BY <2>2 DEF m, x, Is
<1>8. Is(after)
  BY <1>7 DEF after
<1>9. /\ after[0] = x
      /\ \A j \in 1..m : after[j] = ChunkTurn(after[j - 1][1], after[j - 1][2])
  BY <1>2, <1>8 DEF m, x, Is
<1>10. \A j \in 0..m : after[j] \in S
  <2>1. \A j \in 1..m : after[j - 1] \in S => after[j] \in S
    BY <1>3, <1>9
  <2> QED
    BY <1>2, <1>9, <2>1, Stays
<1>11. after[m] \in S
  BY <1>2, <1>10
<1> QED
  BY <1>1, <1>5, <1>11 DEF m, S

(* units received: a body of a known size only grows up to that size       *)
LEMMA OnReceiveIs ==
    ASSUME NEW r \in Receivers, NEW u \in Seq(Units), NEW d, d = OnReceive(r, u)
    PROVE  /\ d \in Receivers
           /\ ~r.chunked /\ r.received <= r.size =>
                /\ ~d.chunked /\ d.size = r.size
                /\ d.received = r.received + (IF Len(u) < r.size - r.received THEN Len(u)
                                              ELSE r.size - r.received)
<1>0. r.size \in Nat /\ r.received \in Nat /\ Len(u) \in Nat /\ r.chunked \in BOOLEAN
  BY DEF Receivers
<1>1. CASE r.chunked
  <2>1. d = ReceiveChunks(r, u)
    BY <1>1 DEF OnReceive
  <2> QED
    BY <1>1, <2>1, ReceiveChunksIs
<1>2. CASE ~r.chunked /\ r.received >= r.size
  <2>1. d = r
    BY <1>0, <1>2 DEF OnReceive
  <2> QED
    BY <1>0, <1>2, <2>1
<1>3. CASE ~r.chunked /\ r.received < r.size
  <2>1. d = Deserialize(r, u)
    BY <1>3 DEF OnReceive
  <2>2. d \in Receivers /\ d.chunked = r.chunked /\ d.size = r.size
        /\ d.received = r.received + Consumed(r, u)
    BY <1>0, <1>3, <2>1, DeserializeIs
  <2>3. Consumed(r, u) = IF Len(u) < r.size - r.received THEN Len(u) ELSE r.size - r.received
    BY <1>0, <1>3, ConsumedIs
  <2> QED
    BY <1>3, <2>2, <2>3
<1> QED
  BY <1>0, <1>1, <1>2, <1>3

(* the receiver of a channel that has received nothing is one              *)
LEMMA EmptyIs == EmptyReceiver \in Receivers
<1>0. <<>> \in Flows
  BY DEF Flows
<1> QED
  BY <1>0 DEF EmptyReceiver, Receivers

(* the receiver when a head announces a body of n units                    *)
LEMMA InitReceiverIs ==
    ASSUME NEW r \in Receivers, NEW n \in Nat
    PROVE  /\ EmptyReceiver \in Receivers
           /\ \A ch \in BOOLEAN : InitReceiver(r, ch, n) \in Receivers
           /\ InitReceiver(EmptyReceiver, FALSE, n).size = n
           /\ InitReceiver(EmptyReceiver, FALSE, n).received = 0
           /\ ~InitReceiver(EmptyReceiver, FALSE, n).chunked
<1>1. EmptyReceiver \in Receivers
  BY EmptyIs
<1>2. [r EXCEPT !.chunked = TRUE] \in Receivers /\ [r EXCEPT !.size = n] \in Receivers
  BY DEF Receivers
<1>3. InitReceiver(EmptyReceiver, FALSE, n).size = n
      /\ InitReceiver(EmptyReceiver, FALSE, n).received = 0
      /\ ~InitReceiver(EmptyReceiver, FALSE, n).chunked
  BY DEF InitReceiver, EmptyReceiver
<1>4. InitReceiver(r, TRUE, n) \in Receivers /\ InitReceiver(r, FALSE, n) \in Receivers
  BY <1>2 DEF InitReceiver
<1> QED
  BY <1>1, <1>3, <1>4

-----------------------------------------------------------------------------
(* The tasks of a client.                                                  *)

(* what the parts of a client are                                          *)
LEMMA ClientIs ==
    ASSUME NEW c \in Clients
    PROVE  /\ c.running \in BOOLEAN /\ c.url \in Pages /\ c.method \in Methods
           /\ c.length \in Nat /\ c.body \in Nat /\ c.response \in Pages \cup {None}
           /\ c.receiver \in Receivers /\ c.temp \in Seq(Units)
           /\ c.hashes \in SUBSET Pages /\ c.conn \in {"none", "connecting", "open"}
           /\ c.unsent \in Seq(Units) /\ c.tasks \in Seq(Tasks) /\ c.asked \in Nat
           /\ Len(c.tasks) \in Nat /\ DOMAIN c.tasks = 1..Len(c.tasks)
  BY DEF Clients, Flows, TaskLists

(* A client of which one part is set                                       *)
LEMMA FieldsSet ==
    ASSUME NEW c \in Clients
    PROVE  /\ \A x \in BOOLEAN : [c EXCEPT !.running = x] \in Clients
           /\ \A x \in Pages : [c EXCEPT !.url = x] \in Clients
           /\ \A x \in Methods : [c EXCEPT !.method = x] \in Clients
           /\ \A x \in Nat : [c EXCEPT !.length = x] \in Clients
           /\ \A x \in Nat : [c EXCEPT !.body = x] \in Clients
           /\ \A x \in Pages \cup {None} : [c EXCEPT !.response = x] \in Clients
           /\ \A x \in Receivers : [c EXCEPT !.receiver = x] \in Clients
           /\ \A x \in Flows : [c EXCEPT !.temp = x] \in Clients
           /\ \A x \in SUBSET Pages : [c EXCEPT !.hashes = x] \in Clients
           /\ \A x \in {"none", "connecting", "open"} : [c EXCEPT !.conn = x] \in Clients
           /\ \A x \in Flows : [c EXCEPT !.unsent = x] \in Clients
           /\ \A x \in TaskLists : [c EXCEPT !.tasks = x] \in Clients
           /\ \A x \in Nat : [c EXCEPT !.asked = x] \in Clients
<1>1. \A x \in BOOLEAN : [c EXCEPT !.running = x] \in Clients
  BY DEF Clients
<1>2. \A x \in Pages : [c EXCEPT !.url = x] \in Clients
  BY DEF Clients
<1>3. \A x \in Methods : [c EXCEPT !.method = x] \in Clients
  BY DEF Clients
<1>4. \A x \in Nat : [c EXCEPT !.length = x] \in Clients
  BY DEF Clients
<1>5. \A x \in Nat : [c EXCEPT !.body = x] \in Clients
  BY DEF Clients
<1>6. \A x \in Pages \cup {None} : [c EXCEPT !.response = x] \in Clients
  BY DEF Clients
<1>7. \A x \in Receivers : [c EXCEPT !.receiver = x] \in Clients
  BY DEF Clients
<1>8. \A x \in Flows : [c EXCEPT !.temp = x] \in Clients
  BY DEF Clients
<1>9. \A x \in SUBSET Pages : [c EXCEPT !.hashes = x] \in Clients
  BY DEF Clients
<1>10. \A x \in {"none", "connecting", "open"} : [c EXCEPT !.conn = x] \in Clients
  BY DEF Clients
<1>11. \A x \in Flows : [c EXCEPT !.unsent = x] \in Clients
  BY DEF Clients
<1>12. \A x \in TaskLists : [c EXCEPT !.tasks = x] \in Clients
  BY DEF Clients
<1>13. \A x \in Nat : [c EXCEPT !.asked = x] \in Clients
  BY DEF Clients
<1> QED
  BY <1>1, <1>2, <1>3, <1>4, <1>5, <1>6, <1>7, <1>8, <1>9, <1>10, <1>11, <1>12, <1>13

(* v holds elements of w, in their order                                   *)
Within(v, w) ==
    /\ \A i \in DOMAIN v : \E k \in DOMAIN w : w[k] = v[i]
    /\ \A i, j \in DOMAIN v : i < j =>
          \E k, l \in DOMAIN w : k < l /\ w[k] = v[i] /\ w[l] = v[j]

(* a list holds its own elements, and the empty list none                  *)
LEMMA WithinSame ==
    ASSUME NEW w \in Seq(Tasks)
    PROVE  Within(w, w) /\ Within(<<>>, w)
  BY DEF Within

(* without its first element                                               *)
LEMMA WithinTail ==
    ASSUME NEW w \in Seq(Tasks), w # <<>>
    PROVE  Tail(w) \in Seq(Tasks) /\ Within(Tail(w), w)
<1>1. /\ Tail(w) \in Seq(Tasks) /\ Len(Tail(w)) = Len(w) - 1 /\ Len(w) \in Nat
      /\ \A i \in 1..(Len(w) - 1) : Tail(w)[i] = w[i + 1]
  BY HeadTailProperties, LenProperties
<1> DEFINE v == Tail(w)
<1> HIDE DEF v
<1>2. DOMAIN v = 1..(Len(w) - 1) /\ DOMAIN w = 1..Len(w)
      /\ \A i \in 1..(Len(w) - 1) : v[i] = w[i + 1]
  BY <1>1 DEF v
<1>3. \A i \in DOMAIN v : i + 1 \in DOMAIN w /\ w[i + 1] = v[i] /\ i \in Nat
  BY <1>1, <1>2
<1>4. \A i, j \in DOMAIN v : i < j => i + 1 < j + 1
  BY <1>3
<1>5. Within(v, w)
  BY <1>3, <1>4 DEF Within
<1> QED
  BY <1>1, <1>5 DEF v

(* without its k-th element                                                *)
LEMMA WithinRemoved ==
    ASSUME NEW w \in Seq(Tasks), NEW k \in 1..Len(w)
    PROVE  /\ RemoveAt(w, k) \in Seq(Tasks) /\ Within(RemoveAt(w, k), w)
           /\ \A i \in DOMAIN RemoveAt(w, k) : \E j \in 1..Len(w) :
                 j # k /\ RemoveAt(w, k)[i] = w[j]
<1> DEFINE v == RemoveAt(w, k)
<1>1. /\ v \in Seq(Tasks) /\ Len(v) = Len(w) - 1 /\ Len(w) \in Nat
      /\ \A j \in 1..(Len(w) - 1) : v[j] = IF j < k THEN w[j] ELSE w[j + 1]
  BY RemoveAtIs, LenProperties
<1> HIDE DEF v
<1> DEFINE p(i) == IF i < k THEN i ELSE i + 1
<1>2. DOMAIN v = 1..(Len(w) - 1) /\ DOMAIN w = 1..Len(w)
  BY <1>1
<1>3. \A i \in DOMAIN v : p(i) \in 1..Len(w) /\ p(i) # k /\ w[p(i)] = v[i]
  BY <1>1, <1>2
<1>4. \A i, j \in DOMAIN v : i < j => p(i) < p(j)
  BY <1>1, <1>2
<1> HIDE DEF p
<1>5. Within(v, w)
  BY <1>2, <1>3, <1>4 DEF Within
<1> QED
  BY <1>1, <1>3, <1>5 DEF v

(* A client that has lost tasks                                            *)
LEMMA Fewer ==
    ASSUME NEW c \in Clients, NEW d \in Clients, Queue(c), Within(d.tasks, c.tasks),
           d.asked = c.asked, d.body \in {c.body, 0}, d.running => c.running
    PROVE  Queue(d) /\ \A name : Has(d, name) => Has(c, name)
<1> DEFINE v == d.tasks
           w == c.tasks
<1>1. /\ \A i \in DOMAIN v : \E k \in DOMAIN w : w[k] = v[i]
      /\ \A i, j \in DOMAIN v : i < j =>
            \E k, l \in DOMAIN w : k < l /\ w[k] = v[i] /\ w[l] = v[j]
  BY DEF Within
<1>2. Numbers(d)
  BY <1>1 DEF Queue, Numbers
<1>3. Once(d)
  <2>1. \A i \in DOMAIN answers, j \in DOMAIN v :
          v[j][1] = "answer" /\ v[j][3] = answers[i].request => Again(v[j][2])
    BY <1>1 DEF Queue, Once
  <2>2. \A i, j \in DOMAIN v :
          i < j /\ v[i][1] = "answer" /\ v[j][1] = "answer" /\ v[i][3] = v[j][3] => Again(v[j][2])
    <3> SUFFICES ASSUME NEW i \in DOMAIN v, NEW j \in DOMAIN v, i < j,
                        v[i][1] = "answer", v[j][1] = "answer", v[i][3] = v[j][3]
                 PROVE  Again(v[j][2])
      OBVIOUS
    <3>1. PICK k \in DOMAIN w, l \in DOMAIN w : k < l /\ w[k] = v[i] /\ w[l] = v[j]
      BY <1>1
    <3> QED
      BY <3>1 DEF Queue, Once
  <2>3. d.running => \A j \in DOMAIN v : v[j][1] = "answer" => v[j][3] # d.asked
    BY <1>1 DEF Queue, Once
  <2> QED
    BY <2>1, <2>2, <2>3 DEF Queue, Once
<1>4. Turn(d)
  <2> SUFFICES ASSUME NEW i \in DOMAIN v, NEW j \in DOMAIN v, i < j
               PROVE  /\ v[j][1] \in {"connected", "sent"}
                           => v[i][1] \notin {"connected", "sent", "close"}
                      /\ ~(v[i][1] = "close" /\ v[j][1] = "close")
    BY DEF Turn
  <2>1. PICK k \in DOMAIN w, l \in DOMAIN w : k < l /\ w[k] = v[i] /\ w[l] = v[j]
    BY <1>1
  <2> QED
    BY <2>1 DEF Queue, Turn
<1>6. \A name : Has(d, name) => Has(c, name)
  BY <1>1 DEF Has
<1> QED
  BY <1>2, <1>3, <1>4, <1>6 DEF Queue

(* A client that has one task more                                         *)
LEMMA More ==
    ASSUME NEW c \in Clients, NEW d \in Clients, Queue(c),
           NEW name \in Names, NEW code \in Int,
           d.tasks = Append(c.tasks, <<name, code, c.asked>>),
           d.asked = c.asked, d.body = c.body, d.running = c.running,
           name = "answer" =>
              /\ ~c.running
              /\ \/ Again(code)
                 \/ /\ \A i \in DOMAIN answers : answers[i].request # c.asked
                    /\ \A j \in DOMAIN c.tasks : c.tasks[j][1] = "answer" => c.tasks[j][3] # c.asked,
           name \in {"connected", "sent"} =>
              ~Has(c, "connected") /\ ~Has(c, "sent") /\ ~Has(c, "close"),
           name = "close" => ~Has(c, "close")
    PROVE  Queue(d) /\ \A nm : Has(d, nm) <=> Has(c, nm) \/ nm = name
<1> DEFINE v == d.tasks
           w == c.tasks
           t == <<name, code, c.asked>>
           n == Len(c.tasks)
<1>1. /\ w \in Seq(Tasks) /\ n \in Nat /\ Len(v) = n + 1 /\ DOMAIN v = 1..(n + 1)
      /\ DOMAIN w = 1..n /\ v[n + 1] = t /\ \A i \in 1..n : v[i] = w[i]
      /\ c.asked \in Nat
  BY ClientIs
<1>2. t[1] = name /\ t[2] = code /\ t[3] = c.asked
  OBVIOUS
<1> HIDE DEF t, n
<1>3. \A i \in DOMAIN v : i \in Nat /\ ((i \in DOMAIN w /\ v[i] = w[i]) \/ (i = n + 1 /\ v[i] = t))
  <2> SUFFICES ASSUME NEW i \in DOMAIN v
               PROVE  i \in Nat /\ ((i \in DOMAIN w /\ v[i] = w[i]) \/ (i = n + 1 /\ v[i] = t))
    OBVIOUS
  <2>1. i \in Nat /\ (i \in 1..n \/ i = n + 1)
    BY <1>1
  <2>2. CASE i \in 1..n
    BY <1>1, <2>1, <2>2, Zenon
  <2>3. CASE i = n + 1
    BY <1>1, <2>1, <2>3, Zenon
  <2> QED
    BY <2>1, <2>2, <2>3
<1>4. \A i, j \in DOMAIN v : i < j => i \in DOMAIN w /\ v[i] = w[i]
  BY <1>1
<1>5. Numbers(d)
  BY <1>1, <1>2, <1>3 DEF Queue, Numbers
<1>6. Once(d)
  <2>1. \A i \in DOMAIN answers, j \in DOMAIN v :
          v[j][1] = "answer" /\ v[j][3] = answers[i].request => Again(v[j][2])
    BY <1>2, <1>3 DEF Queue, Once
  <2>2. \A i, j \in DOMAIN v :
          i < j /\ v[i][1] = "answer" /\ v[j][1] = "answer" /\ v[i][3] = v[j][3] => Again(v[j][2])
    BY <1>2, <1>3, <1>4 DEF Queue, Once
  <2>3. d.running => \A j \in DOMAIN v : v[j][1] = "answer" => v[j][3] # d.asked
    BY <1>2, <1>3 DEF Queue, Once
  <2> QED
    BY <2>1, <2>2, <2>3 DEF Queue, Once
<1>7. Turn(d)
  <2> SUFFICES ASSUME NEW i \in DOMAIN v, NEW j \in DOMAIN v, i < j
               PROVE  /\ v[j][1] \in {"connected", "sent"}
                           => v[i][1] \notin {"connected", "sent", "close"}
                      /\ ~(v[i][1] = "close" /\ v[j][1] = "close")
    BY DEF Turn
  <2>1. i \in DOMAIN w /\ v[i] = w[i]
    BY <1>4
  <2>2. CASE j \in DOMAIN w /\ v[j] = w[j]
    BY <2>1, <2>2 DEF Queue, Turn
  <2>3. CASE v[j] = t
    BY <1>2, <2>1, <2>3 DEF Has
  <2> QED
    BY <1>3, <2>2, <2>3
<1>9. \A nm : Has(d, nm) <=> Has(c, nm) \/ nm = name
  <2>1. n + 1 \in DOMAIN v /\ \A i \in DOMAIN w : i \in DOMAIN v /\ v[i] = w[i]
    BY <1>1
  <2> QED
    BY <1>1, <1>2, <1>3, <2>1 DEF Has
<1> QED
  BY <1>5, <1>6, <1>7, <1>9 DEF Queue

-----------------------------------------------------------------------------
(* What the client's functions do.                                         *)

(* d is c but for its tasks, its socket, and whether it runs               *)
Kept(c, d) ==
    /\ d.url = c.url /\ d.method = c.method /\ d.length = c.length /\ d.body = c.body
    /\ d.response = c.response /\ d.receiver = c.receiver /\ d.temp = c.temp
    /\ d.hashes = c.hashes /\ d.asked = c.asked

Linking(c, d) == d.conn = c.conn /\ d.unsent = c.unsent

(* the tasks of a client are set                                           *)
LEMMA TasksSet ==
    ASSUME NEW c \in Clients, NEW q \in Seq(Tasks), NEW d, d = [c EXCEPT !.tasks = q]
    PROVE  d \in Clients /\ Kept(c, d) /\ Linking(c, d) /\ d.running = c.running /\ d.tasks = q
<1>1. d \in Clients
  BY FieldsSet DEF TaskLists
<1>2. Kept(c, d) /\ Linking(c, d) /\ d.running = c.running /\ d.tasks = q
  BY DEF Clients, Kept, Linking
<1> QED
  BY <1>1, <1>2

(* the socket of a client is gone                                          *)
LEMMA ConnLost ==
    ASSUME NEW c \in Clients, NEW d, d = [c EXCEPT !.conn = "none", !.unsent = <<>>]
    PROVE  d \in Clients /\ Kept(c, d) /\ d.running = c.running /\ d.tasks = c.tasks
           /\ d.conn = "none" /\ d.unsent = <<>>
<1>1. PICK e : e = [c EXCEPT !.conn = "none"]
  OBVIOUS
<1>2. e \in Clients
  BY <1>1, FieldsSet
<1>3. d = [e EXCEPT !.unsent = <<>>]
  BY <1>1
<1>4. <<>> \in Flows
  BY DEF Flows
<1>5. d \in Clients
  <2>1. \A x \in Flows : [e EXCEPT !.unsent = x] \in Clients
    BY <1>2, FieldsSet
  <2> QED
    BY <1>3, <1>4, <2>1, Zenon
<1>6. \A x \in Flows : \A z : z = [c EXCEPT !.conn = "none", !.unsent = x] =>
           Kept(c, z) /\ z.running = c.running /\ z.conn = "none" /\ z.unsent = x
           /\ z.tasks = c.tasks
  BY DEF Clients, Kept
<1> QED
  BY <1>4, <1>5, <1>6, Zenon

(* a task is posted, or not when the thread was told to stop               *)
LEMMA PostIs ==
    ASSUME NEW c \in Clients, NEW name \in Names, NEW code \in Int, NEW d,
           d = Post(c, name, code), name = "sent" => code # 0
    PROVE  /\ d \in Clients /\ Kept(c, d) /\ Linking(c, d) /\ d.running = c.running
           /\ d.tasks = c.tasks \/ d.tasks = Append(c.tasks, <<name, code, c.asked>>)
<1>1. PICK q : q = Append(c.tasks, <<name, code, c.asked>>)
  OBVIOUS
<1>2. q \in Seq(Tasks)
  <2>1. c.tasks \in Seq(Tasks) /\ <<name, code, c.asked>> \in Tasks
    BY ClientIs DEF Tasks
  <2> QED
    BY <1>1, <2>1
<1>3. CASE \E i \in DOMAIN c.tasks : c.tasks[i][1] = "stop"
  <2>1. d = c
    BY <1>3 DEF Post
  <2> QED
    BY <2>1 DEF Kept, Linking
<1>4. CASE ~\E i \in DOMAIN c.tasks : c.tasks[i][1] = "stop"
  <2>1. d = [c EXCEPT !.tasks = q]
    BY <1>1, <1>4 DEF Post
  <2>2. d \in Clients /\ Kept(c, d) /\ Linking(c, d) /\ d.running = c.running /\ d.tasks = q
    BY <1>2, <2>1, TasksSet
  <2> QED
    BY <1>1, <2>2
<1> QED
  BY <1>3, <1>4

(* the first task is taken                                                 *)
LEMMA PoppedIs ==
    ASSUME NEW c \in Clients, c.tasks # <<>>, NEW d, d = Popped(c)
    PROVE  /\ d \in Clients /\ Kept(c, d) /\ Linking(c, d) /\ d.running = c.running
           /\ d.tasks = Tail(c.tasks) /\ Within(d.tasks, c.tasks)
<1>1. PICK q : q = Tail(c.tasks)
  OBVIOUS
<1>2. q \in Seq(Tasks) /\ Within(q, c.tasks)
  BY <1>1, ClientIs, WithinTail
<1>3. d = [c EXCEPT !.tasks = q]
  BY <1>1 DEF Popped
<1>4. d \in Clients /\ Kept(c, d) /\ Linking(c, d) /\ d.running = c.running /\ d.tasks = q
  BY <1>2, <1>3, TasksSet
<1> QED
  BY <1>1, <1>2, <1>4

(* cancelling the task that tells of the end                               *)
LEMMA CancelledIs ==
    ASSUME NEW c \in Clients
    PROVE  LET r == RemoveFirstMatch(c.tasks, LAMBDA t : t[1] = "close") IN
           \/ /\ \A i \in 1..Len(c.tasks) : c.tasks[i][1] # "close"
              /\ r = c.tasks
           \/ \E k \in 1..Len(c.tasks) : c.tasks[k][1] = "close" /\ r = RemoveAt(c.tasks, k)
<1> DEFINE s == c.tasks
           r == RemoveFirstMatch(s, LAMBDA t : t[1] = "close")
           I == {i \in 1..Len(s) : s[i][1] = "close"}
<1>0. s \in Seq(Tasks) /\ Len(s) \in Nat
  BY ClientIs
<1>1. CASE I # {}
  <2>1. r = RemoveAt(s, Min(I))
    BY <1>1 DEF RemoveFirstMatch, SelectInSeq
  <2>a. I \in SUBSET Nat
    BY <1>0
  <2>2. Min(I) \in I
    BY <1>1, <2>a, MinNat
  <2> QED
    BY <2>1, <2>2
<1>2. CASE I = {}
  <2>1. r = s
    BY <1>2 DEF RemoveFirstMatch
  <2> QED
    BY <1>2, <2>1
<1> QED
  BY <1>1, <1>2

(* TcpChannel::close leaves no socket, or no task that tells of the end    *)
LEMMA CloseChannelIs ==
    ASSUME NEW c \in Clients, NEW d, d = CloseChannel(c)
    PROVE  /\ d \in Clients /\ Kept(c, d) /\ d.running = c.running
           /\ c.conn = "open" => d.conn = "none" /\ d.unsent = <<>> /\ d.tasks = c.tasks
           /\ c.conn # "open" => Linking(c, d)
           /\ Within(d.tasks, c.tasks)
           /\ c.conn # "open" /\ Turn(c) => ~Has(d, "close")
<1>1. CASE c.conn = "open"
  <2>1. d = [c EXCEPT !.conn = "none", !.unsent = <<>>]
    BY <1>1 DEF CloseChannel
  <2>2. Within(c.tasks, c.tasks)
    BY ClientIs, WithinSame
  <2> QED
    BY <1>1, <2>1, <2>2, ConnLost
<1>2. CASE c.conn # "open"
  <2>1. PICK q : q = RemoveFirstMatch(c.tasks, LAMBDA t : t[1] = "close")
    OBVIOUS
  <2>2. d = [c EXCEPT !.tasks = q]
    BY <1>2, <2>1 DEF CloseChannel
  <2>3. CASE q = c.tasks /\ \A i \in 1..Len(c.tasks) : c.tasks[i][1] # "close"
    <3>1. d \in Clients /\ Kept(c, d) /\ Linking(c, d) /\ d.running = c.running /\ d.tasks = c.tasks
      BY <2>2, <2>3, ClientIs, TasksSet
    <3>2. Within(d.tasks, c.tasks) /\ ~Has(d, "close")
      BY <2>3, <3>1, ClientIs, WithinSame DEF Has
    <3> QED
      BY <1>2, <3>1, <3>2
  <2>4. ASSUME NEW k \in 1..Len(c.tasks), c.tasks[k][1] = "close", q = RemoveAt(c.tasks, k)
        PROVE  /\ d \in Clients /\ Kept(c, d) /\ d.running = c.running /\ Linking(c, d)
               /\ Within(d.tasks, c.tasks)
               /\ Turn(c) => ~Has(d, "close")
    <3>1. q \in Seq(Tasks) /\ Within(q, c.tasks)
          /\ \A i \in DOMAIN q : \E j \in 1..Len(c.tasks) : j # k /\ q[i] = c.tasks[j]
      BY <2>4, ClientIs, WithinRemoved
    <3>2. d \in Clients /\ Kept(c, d) /\ Linking(c, d) /\ d.running = c.running /\ d.tasks = q
      BY <2>2, <3>1, TasksSet
    <3>3. ASSUME Turn(c), Has(d, "close") PROVE FALSE
      <4>1. PICK j \in 1..Len(c.tasks) : j # k /\ c.tasks[j][1] = "close"
        BY <3>1, <3>2, <3>3 DEF Has
      <4>2. DOMAIN c.tasks = 1..Len(c.tasks) /\ (j < k \/ k < j)
        BY <4>1, ClientIs
      <4> QED
        BY <2>4, <3>3, <4>1, <4>2 DEF Turn
    <3> QED
      BY <3>1, <3>2, <3>3
  <2> QED
    BY <1>2, <2>1, <2>3, <2>4, CancelledIs
<1> QED
  BY <1>1, <1>2

(* TcpChannel::onClose leaves no socket, and posts the task that tells so  *)
LEMMA OnChannelClosedIs ==
    ASSUME NEW c \in Clients, NEW d, d = OnChannelClosed(c)
    PROVE  /\ d \in Clients /\ Kept(c, d) /\ d.running = c.running
           /\ d.conn = "none" /\ d.unsent = <<>>
           /\ d.tasks = c.tasks \/ d.tasks = Append(c.tasks, <<"close", 0, c.asked>>)
<1>1. PICK e : e = [c EXCEPT !.conn = "none", !.unsent = <<>>]
  OBVIOUS
<1>4. e \in Clients /\ Kept(c, e) /\ e.running = c.running
      /\ e.conn = "none" /\ e.unsent = <<>> /\ e.tasks = c.tasks
  BY <1>1, ConnLost
<1>5. d = Post(e, "close", 0)
  BY <1>1 DEF OnChannelClosed
<1>6. "close" \in Names /\ 0 \in Int
  BY DEF Names
<1>7. d \in Clients /\ Kept(e, d) /\ Linking(e, d) /\ d.running = e.running
      /\ (d.tasks = e.tasks \/ d.tasks = Append(e.tasks, <<"close", 0, e.asked>>))
  BY <1>4, <1>5, <1>6, PostIs
<1>8. e.asked = c.asked
  BY <1>4 DEF Kept
<1>9. d.tasks = c.tasks \/ d.tasks = Append(c.tasks, <<"close", 0, c.asked>>)
  BY <1>4, <1>7, <1>8
<1>10. Kept(c, d) /\ d.conn = "none" /\ d.unsent = <<>>
  BY <1>4, <1>7 DEF Kept, Linking
<1> QED
  BY <1>4, <1>7, <1>9, <1>10

(* the answer, and what was received of it, is forgotten                   *)
LEMMA ClearedIs ==
    ASSUME NEW c \in Clients, NEW d, d = Cleared(c)
    PROVE  /\ d \in Clients /\ Linking(c, d) /\ d.running = c.running /\ d.tasks = c.tasks
           /\ d.asked = c.asked /\ d.body = c.body /\ d.url = c.url /\ d.method = c.method
           /\ d.length = c.length /\ d.hashes = c.hashes
           /\ d.response = None /\ d.temp = <<>>
<1>1. PICK e, f : e = [c EXCEPT !.response = None] /\ f = [e EXCEPT !.receiver = EmptyReceiver]
  OBVIOUS
<1>2. <<>> \in Flows /\ EmptyReceiver \in Receivers
  BY EmptyIs DEF Flows
<1>3. e \in Clients /\ e.response = None /\ Linking(c, e) /\ e.running = c.running
      /\ e.tasks = c.tasks /\ e.asked = c.asked /\ e.body = c.body /\ e.url = c.url
      /\ e.method = c.method /\ e.length = c.length /\ e.hashes = c.hashes
  <2>1. e \in Clients
    BY <1>1, FieldsSet
  <2> QED
    BY <1>1, <2>1 DEF Clients, Linking
<1>4. f \in Clients /\ f.response = None /\ Linking(c, f) /\ f.running = c.running
      /\ f.tasks = c.tasks /\ f.asked = c.asked /\ f.body = c.body /\ f.url = c.url
      /\ f.method = c.method /\ f.length = c.length /\ f.hashes = c.hashes
  <2>1. f \in Clients
    BY <1>1, <1>2, <1>3, FieldsSet
  <2> QED
    BY <1>1, <1>3, <2>1 DEF Clients, Linking
<1>0. PICK x \in Flows : x = <<>>
  BY <1>2
<1>5. d = [f EXCEPT !.temp = x]
  BY <1>0, <1>1 DEF Cleared
<1>6. d \in Clients
  BY <1>4, <1>5, FieldsSet, ZenonT(60)
<1>7. d.response = None /\ Linking(c, d) /\ d.running = c.running
      /\ d.tasks = c.tasks /\ d.asked = c.asked /\ d.body = c.body /\ d.url = c.url
      /\ d.method = c.method /\ d.length = c.length /\ d.hashes = c.hashes /\ d.temp = x
  BY <1>4, <1>5 DEF Clients, Linking
<1> QED
  BY <1>0, <1>6, <1>7

Shut(c) == c.conn # "open" => c.unsent = <<>>

(* a request starts to connect                                             *)
LEMMA StartIs ==
    ASSUME NEW c \in Clients, NEW d, d = Start(c)
    PROVE  /\ d \in Clients /\ Kept(c, d) /\ d.running /\ d.conn = "connecting"
           /\ d.unsent = c.unsent /\ d.tasks = c.tasks
<1>1. PICK e : e = [c EXCEPT !.running = TRUE]
  OBVIOUS
<1>2. e \in Clients
  BY <1>1, FieldsSet
<1>3. d = [e EXCEPT !.conn = "connecting"]
  BY <1>1 DEF Start
<1>4. d \in Clients
  BY <1>2, <1>3, FieldsSet
<1>5. Kept(c, d) /\ d.running /\ d.conn = "connecting" /\ d.unsent = c.unsent /\ d.tasks = c.tasks
  BY <1>1, <1>3 DEF Kept, Clients
<1> QED
  BY <1>4, <1>5

(* d is c on its way to the page that an answer led to                     *)
Redirected(c, d) ==
    /\ d.running /\ d.conn = "connecting" /\ d.unsent = <<>>
    /\ d.response = None /\ d.temp = <<>> /\ d.asked = c.asked
    /\ d.body \in {c.body, 0}
    /\ Within(d.tasks, c.tasks)
    /\ Turn(c) /\ (c.conn = "open" => ~Has(c, "close")) => ~Has(d, "close")

(* redirect() starts again, on a channel that is closed                    *)
LEMMA RedirectIs ==
    ASSUME NEW c \in Clients, setup \in Setups, c.response \in Pages,
           IsRedirect(c.response), RedirectError(c) = 0, Shut(c), NEW d, d = Redirect(c)
    PROVE  d \in Clients /\ Redirected(c, d)
<1>1. PICK b : b = Cleared(c)
  OBVIOUS
<1>2. /\ b \in Clients /\ Linking(c, b) /\ b.running = c.running /\ b.tasks = c.tasks
      /\ b.asked = c.asked /\ b.body = c.body /\ b.url = c.url /\ b.method = c.method
      /\ b.length = c.length /\ b.hashes = c.hashes
      /\ b.response = None /\ b.temp = <<>>
  BY <1>1, ClearedIs
<1>3. PICK e : e = CloseChannel(b)
  OBVIOUS
<1>4. /\ e \in Clients /\ Kept(b, e) /\ e.running = b.running
      /\ b.conn = "open" => e.conn = "none" /\ e.unsent = <<>> /\ e.tasks = b.tasks
      /\ b.conn # "open" => Linking(b, e)
      /\ Within(e.tasks, b.tasks)
      /\ b.conn # "open" /\ Turn(b) => ~Has(e, "close")
  BY <1>2, <1>3, CloseChannelIs
<1>5. Turn(b) <=> Turn(c)
  BY <1>2 DEF Turn
<1>6. e.unsent = <<>> /\ e.response = None /\ e.temp = <<>> /\ e.asked = c.asked
      /\ e.body = c.body /\ Within(e.tasks, c.tasks) /\ e.hashes = c.hashes
  BY <1>2, <1>4 DEF Kept, Linking, Shut
<1>7. Turn(c) /\ (c.conn = "open" => ~Has(c, "close")) => ~Has(e, "close")
  BY <1>2, <1>4, <1>5 DEF Linking, Has
<1>a. PICK h, u : h = c.hashes \cup {c.url} /\ u = Page(c.response).to
  OBVIOUS
<1>b. PICK m : m = IF Page(c.response).status = 303 THEN "GET" ELSE e.method
  OBVIOUS
<1>c. PICK n : n = IF Page(c.response).status = 303 THEN 0 ELSE e.body
  OBVIOUS
<1>8. /\ h = c.hashes \cup {c.url} /\ u = Page(c.response).to
      /\ m = (IF Page(c.response).status = 303 THEN "GET" ELSE e.method)
      /\ n = (IF Page(c.response).status = 303 THEN 0 ELSE e.body)
  BY <1>a, <1>b, <1>c
<1>9. u \in Pages
  <2>1. Page(c.response).to \in Pages \cup {"bad"}
    BY PagesAre
  <2>2. Page(c.response).to # "bad"
    BY DEF RedirectError
  <2> QED
    BY <1>8, <2>1, <2>2
<1>10. h \in SUBSET Pages /\ m \in Methods /\ n \in Nat /\ n \in {c.body, 0}
  BY <1>4, <1>6, <1>8, ClientIs DEF Methods
<1>11. PICK e1, e2, e3 : e1 = [e EXCEPT !.hashes = h] /\ e2 = [e1 EXCEPT !.url = u]
          /\ e3 = [e2 EXCEPT !.method = m]
  OBVIOUS
<1>12. PICK f : f = [e3 EXCEPT !.body = n]
  OBVIOUS
<1>13. e1 \in Clients
  BY <1>4, <1>10, <1>11, FieldsSet
<1>14. e2 \in Clients
  BY <1>9, <1>11, <1>13, FieldsSet
<1>15. e3 \in Clients
  BY <1>10, <1>11, <1>14, FieldsSet
<1>16. f \in Clients
  BY <1>10, <1>12, <1>15, FieldsSet
<1>17. f = [e EXCEPT !.hashes = h, !.url = u, !.method = m, !.body = n]
  BY <1>11, <1>12
<1>18. f.unsent = e.unsent /\ f.response = e.response /\ f.temp = e.temp /\ f.asked = e.asked
       /\ f.body = n /\ f.tasks = e.tasks
  BY <1>4, <1>17 DEF Clients
<1>19. d = Start(f)
  <2>1. Redirect(c) = Start([e EXCEPT !.hashes = e.hashes \cup {c.url},
                                      !.url = Page(c.response).to,
                                      !.method = IF Page(c.response).status = 303
                                                 THEN "GET" ELSE e.method,
                                      !.body = IF Page(c.response).status = 303
                                               THEN 0 ELSE e.body])
    BY <1>1, <1>3 DEF Redirect
  <2> QED
    BY <1>6, <1>8, <1>17, <2>1
<1>20. /\ d \in Clients /\ Kept(f, d) /\ d.running /\ d.conn = "connecting"
       /\ d.unsent = f.unsent /\ d.tasks = f.tasks
  BY <1>16, <1>19, StartIs
<1>21. d.unsent = <<>> /\ d.response = None /\ d.temp = <<>> /\ d.asked = c.asked
       /\ d.body \in {c.body, 0} /\ d.tasks = e.tasks
  BY <1>6, <1>10, <1>18, <1>20 DEF Kept
<1>22. Turn(c) /\ (c.conn = "open" => ~Has(c, "close")) => ~Has(d, "close")
  BY <1>7, <1>21 DEF Has
<1> QED
  BY <1>6, <1>20, <1>21, <1>22 DEF Redirected

(* d is c when its request has ended with code                             *)
Left(c, e, code) ==
    /\ e \in Clients /\ Kept(c, e) /\ ~e.running
    /\ Within(e.tasks, c.tasks)
    /\ code = 0 => Linking(c, e) /\ e.tasks = c.tasks
    /\ code # 0 /\ c.conn = "open" => e.conn = "none" /\ e.unsent = <<>> /\ e.tasks = c.tasks
    /\ code # 0 /\ c.conn # "open" => Linking(c, e) /\ (Turn(c) => ~Has(e, "close"))

Ended(c, d, code) ==
    \E e \in Clients, k \in Int :
       /\ Left(c, e, code) /\ (code # 0 => k = code)
       /\ Kept(e, d) /\ Linking(e, d) /\ ~d.running
       /\ d.tasks = e.tasks \/ d.tasks = Append(e.tasks, <<"answer", k, e.asked>>)

(* a request that has its answer goes on to another page, or ends          *)
LEMMA OnResponseIs ==
    ASSUME NEW c \in Clients, setup \in Setups, NEW code \in Int, Shut(c),
           code = 0 => c.response \in Pages, NEW d, d = OnResponse(c, code)
    PROVE  /\ d \in Clients /\ Shut(d)
           /\ (code = 0 /\ Redirected(c, d)) \/ Ended(c, d, code)
<1>1. CASE code = 0 /\ IsRedirect(c.response) /\ RedirectError(c) = 0
  <2>1. d = Redirect(c)
    BY <1>1 DEF OnResponse
  <2>2. d \in Clients /\ Redirected(c, d)
    BY <1>1, <2>1, RedirectIs
  <2>3. Shut(d)
    BY <2>2 DEF Redirected, Shut
  <2> QED
    BY <1>1, <2>2, <2>3
<1>2. CASE ~(code = 0 /\ IsRedirect(c.response) /\ RedirectError(c) = 0)
  <2>1. PICK b : b = IF code # 0 THEN CloseChannel(c) ELSE c
    OBVIOUS
  <2>2. /\ b \in Clients /\ Kept(c, b) /\ Within(b.tasks, c.tasks)
        /\ code = 0 => Linking(c, b) /\ b.tasks = c.tasks
        /\ code # 0 /\ c.conn = "open" => b.conn = "none" /\ b.unsent = <<>> /\ b.tasks = c.tasks
        /\ code # 0 /\ c.conn # "open" => Linking(c, b) /\ (Turn(c) => ~Has(b, "close"))
    <3>1. CASE code = 0
      <4>1. b = c
        BY <2>1, <3>1
      <4>2. Within(c.tasks, c.tasks)
        BY ClientIs, WithinSame
      <4> QED
        BY <3>1, <4>1, <4>2 DEF Kept, Linking
    <3>2. CASE code # 0
      <4>1. b = CloseChannel(c)
        BY <2>1, <3>2
      <4>2. /\ b \in Clients /\ Kept(c, b)
            /\ c.conn = "open" => b.conn = "none" /\ b.unsent = <<>> /\ b.tasks = c.tasks
            /\ c.conn # "open" => Linking(c, b)
            /\ Within(b.tasks, c.tasks)
            /\ c.conn # "open" /\ Turn(c) => ~Has(b, "close")
        BY <4>1, CloseChannelIs
      <4> QED
        BY <3>2, <4>2
    <3> QED
      BY <3>1, <3>2
  <2>3. PICK k : k = IF code = 0 /\ IsRedirect(c.response) THEN RedirectError(c) ELSE code
    OBVIOUS
  <2>4. k \in Int /\ (code # 0 => k = code)
    <3>1. RedirectError(c) \in Int
      BY DEF RedirectError
    <3> QED
      BY <2>3, <3>1
  <2>5. PICK e : e = [b EXCEPT !.running = FALSE]
    OBVIOUS
  <2>6. e \in Clients /\ Kept(b, e) /\ Linking(b, e) /\ e.tasks = b.tasks /\ ~e.running
    <3>1. e \in Clients
      BY <2>2, <2>5, FieldsSet
    <3>2. Kept(b, e) /\ Linking(b, e) /\ e.tasks = b.tasks /\ ~e.running
      BY <2>2, <2>5 DEF Kept, Linking, Clients
    <3> QED
      BY <3>1, <3>2
  <2>7. Left(c, e, code)
    <3>1. Kept(c, e)
      BY <2>2, <2>6 DEF Kept
    <3>2. code = 0 => Linking(c, e) /\ e.tasks = c.tasks
      BY <2>2, <2>6 DEF Linking
    <3>3. code # 0 /\ c.conn = "open" => e.conn = "none" /\ e.unsent = <<>> /\ e.tasks = c.tasks
      BY <2>2, <2>6 DEF Linking
    <3>4. code # 0 /\ c.conn # "open" => Linking(c, e) /\ (Turn(c) => ~Has(e, "close"))
      BY <2>2, <2>6 DEF Linking, Has
    <3> QED
      BY <2>2, <2>6, <3>1, <3>2, <3>3, <3>4 DEF Left
  <2>8. d = Post(e, "answer", k)
    BY <1>2, <2>1, <2>3, <2>5 DEF OnResponse
  <2>9. /\ d \in Clients /\ Kept(e, d) /\ Linking(e, d) /\ d.running = e.running
        /\ (d.tasks = e.tasks \/ d.tasks = Append(e.tasks, <<"answer", k, e.asked>>))
    <3>1. "answer" \in Names /\ ("answer" = "sent" => k # 0)
      BY DEF Names
    <3> QED
      BY <2>4, <2>6, <2>8, <3>1, PostIs
  <2>10. Ended(c, d, code)
    BY <2>4, <2>6, <2>7, <2>9 DEF Ended
  <2>11. Shut(d)
    BY <2>7, <2>9 DEF Left, Linking, Shut
  <2> QED
    BY <2>9, <2>10, <2>11
<1> QED
  BY <1>1, <1>2

(* when a request may end with code                                        *)
Ready(c, code) ==
    /\ Queue(c)
    /\ ~Has(c, "connected") /\ ~Has(c, "sent")
    /\ c.conn # "connecting"
    /\ c.conn = "open" => ~Has(c, "close")
    /\ c.running \/ Again(code)
    /\ code = 0 => c.running
    /\ c.response # None => c.temp = <<>>

(* and what becomes of the client then                                     *)
Outcome(c, d, code) ==
    /\ Tidy(d) /\ d.asked = c.asked
    /\ \/ d.running /\ d.conn = "connecting"
       \/ code # 0 /\ ~d.running /\ Kept(c, d) /\ d.conn = "none" /\ ~Has(d, "close")
       \/ /\ code = 0 /\ ~d.running /\ Kept(c, d) /\ Linking(c, d)
          /\ \A nm : Has(d, nm) => Has(c, nm) \/ nm = "answer"

(* A request that may end with code leaves the queue of tasks in order:    *)
(* the task that tells of it is the only one that does.                    *)
LEMMA Responds ==
    ASSUME NEW c \in Clients, setup \in Setups, NEW code \in Int, Shut(c), Ready(c, code),
           code = 0 => c.response \in Pages, NEW d, d = OnResponse(c, code)
    PROVE  d \in Clients /\ Shut(d) /\ Outcome(c, d, code)
<1>1. /\ d \in Clients /\ Shut(d)
      /\ (code = 0 /\ Redirected(c, d)) \/ Ended(c, d, code)
  BY OnResponseIs
<1>0. Queue(c) /\ Turn(c)
  BY DEF Ready, Queue
<1>2. CASE code = 0 /\ Redirected(c, d)
  <2>1. Queue(d) /\ \A name : Has(d, name) => Has(c, name)
    <3>1. Within(d.tasks, c.tasks) /\ d.asked = c.asked /\ d.body \in {c.body, 0}
          /\ (d.running => c.running)
      BY <1>2 DEF Redirected, Ready
    <3> QED
      BY <1>0, <1>1, <3>1, Fewer
  <2>2. ~Has(d, "close")
    BY <1>0, <1>2 DEF Redirected, Ready
  <2>3. Linked(d)
    BY <1>2, <2>1, <2>2 DEF Redirected, Linked, Ready
  <2> QED
    BY <1>1, <1>2, <2>1, <2>3 DEF Outcome, Redirected, Tidy
<1>3. CASE Ended(c, d, code)
  <2>1. PICK e \in Clients, k \in Int :
           /\ Left(c, e, code) /\ (code # 0 => k = code)
           /\ Kept(e, d) /\ Linking(e, d) /\ ~d.running
           /\ (d.tasks = e.tasks \/ d.tasks = Append(e.tasks, <<"answer", k, e.asked>>))
    BY <1>3 DEF Ended
  <2>2. Kept(c, e) /\ ~e.running /\ Within(e.tasks, c.tasks)
    BY <2>1 DEF Left
  <2>3. Queue(e) /\ \A name : Has(e, name) => Has(c, name)
    <3>1. e.asked = c.asked /\ e.body \in {c.body, 0} /\ (e.running => c.running)
      BY <2>2 DEF Kept
    <3> QED
      BY <1>0, <2>2, <3>1, Fewer
  <2>4. d.asked = e.asked /\ d.body = e.body /\ e.asked = c.asked
    BY <2>1, <2>2 DEF Kept
  <2>5. Queue(d) /\ \A nm : Has(d, nm) => Has(e, nm) \/ nm = "answer"
    <3>1. CASE d.tasks = e.tasks
      <4>1. Within(d.tasks, e.tasks)
        BY <3>1, ClientIs, WithinSame
      <4>2. Queue(d) /\ \A name : Has(d, name) => Has(e, name)
        <5>1. d.asked = e.asked /\ d.body \in {e.body, 0} /\ (d.running => e.running)
          BY <2>1, <2>4
        <5> QED
          BY <1>1, <2>3, <4>1, <5>1, Fewer
      <4> QED
        BY <4>2
    <3>2. CASE d.tasks = Append(e.tasks, <<"answer", k, e.asked>>)
      <4>1. \/ Again(k)
            \/ /\ \A i \in DOMAIN answers : answers[i].request # e.asked
               /\ \A j \in DOMAIN e.tasks : e.tasks[j][1] = "answer" => e.tasks[j][3] # e.asked
        <5>1. CASE c.running
          <6>1. /\ \A i \in DOMAIN answers : answers[i].request # c.asked
                /\ \A j \in DOMAIN c.tasks : c.tasks[j][1] = "answer" => c.tasks[j][3] # c.asked
            BY <1>0, <5>1 DEF Queue, Once
          <6>2. \A j \in DOMAIN e.tasks : e.tasks[j][1] = "answer" => e.tasks[j][3] # e.asked
            BY <2>2, <2>4, <6>1 DEF Within
          <6> QED
            BY <2>4, <6>1, <6>2
        <5>2. CASE ~c.running
          BY <2>1, <5>2 DEF Ready
        <5> QED
          BY <5>1, <5>2
      <4>2. d.running = e.running
        <5>1. d.running \in BOOLEAN /\ e.running \in BOOLEAN
          BY <1>1, ClientIs
        <5> QED
          BY <2>1, <2>2, <5>1
      <4>3. Queue(d) /\ \A nm : Has(d, nm) <=> Has(e, nm) \/ nm = "answer"
        <5>1. "answer" \in Names /\ "answer" \notin {"connected", "sent"} /\ "answer" # "close"
          BY DEF Names
        <5> QED
          BY <1>1, <2>2, <2>3, <2>4, <3>2, <4>1, <4>2, <5>1, More
      <4> QED
        BY <4>3
    <3> QED
      BY <2>1, <3>1, <3>2
  <2>6. Kept(c, d)
    BY <2>1, <2>2 DEF Kept
  <2>7. \A nm : Has(d, nm) => Has(c, nm) \/ nm = "answer"
    BY <2>3, <2>5
  <2>8. CASE code = 0
    <3>1. Linking(c, d)
      BY <2>1, <2>8 DEF Left, Linking
    <3>2. Linked(d)
      BY <2>6, <2>7, <2>8, <3>1, <1>1, ClientIs DEF Linked, Linking, Kept, Ready
    <3> QED
      BY <1>1, <2>1, <2>4, <2>5, <2>6, <2>7, <2>8, <3>1, <3>2 DEF Outcome, Tidy
  <2>9. CASE code # 0
    <3>1. d.conn = "none" /\ ~Has(d, "close")
      <4>1. CASE c.conn = "open"
        <5>1. e.conn = "none" /\ e.tasks = c.tasks
          BY <2>1, <2>9, <4>1 DEF Left
        <5>2. ~Has(c, "close")
          BY <4>1 DEF Ready
        <5> QED
          BY <2>1, <2>7, <5>1, <5>2 DEF Linking
      <4>2. CASE c.conn # "open"
        <5>1. Linking(c, e) /\ ~Has(e, "close")
          BY <1>0, <2>1, <2>9, <4>2 DEF Left
        <5>2. c.conn = "none"
          BY <4>2, ClientIs DEF Ready
        <5> QED
          BY <2>1, <2>5, <5>1, <5>2 DEF Linking
      <4> QED
        BY <4>1, <4>2
    <3>2. Linked(d)
      BY <2>6, <2>7, <3>1 DEF Linked, Kept, Ready
    <3> QED
      BY <1>1, <2>1, <2>4, <2>5, <2>6, <2>9, <3>1, <3>2 DEF Outcome, Tidy
  <2> QED
    BY <2>8, <2>9
<1> QED
  BY <1>1, <1>2, <1>3

-----------------------------------------------------------------------------
(* What a client receives and sends.                                       *)

(* no units are a list of units                                            *)
LEMMA NoUnits == <<>> \in Flows
  BY DEF Flows

(* the receiver and the first units of a client are set                    *)
LEMMA TempSet ==
    ASSUME NEW c \in Clients, NEW u \in Flows, NEW d, d = [c EXCEPT !.temp = u]
    PROVE  /\ d \in Clients /\ Linking(c, d) /\ d.running = c.running /\ d.tasks = c.tasks
           /\ d.asked = c.asked /\ d.body = c.body /\ d.url = c.url /\ d.method = c.method
           /\ d.length = c.length /\ d.hashes = c.hashes /\ d.receiver = c.receiver
           /\ d.response = c.response /\ d.temp = u
<1>1. d \in Clients
  BY FieldsSet
<1> QED
  BY <1>1 DEF Clients, Linking

(* its receiver is set                                                     *)
LEMMA ReceiverSet ==
    ASSUME NEW c \in Clients, NEW r \in Receivers, NEW d, d = [c EXCEPT !.receiver = r]
    PROVE  /\ d \in Clients /\ Linking(c, d) /\ d.running = c.running /\ d.tasks = c.tasks
           /\ d.asked = c.asked /\ d.body = c.body /\ d.url = c.url /\ d.method = c.method
           /\ d.length = c.length /\ d.hashes = c.hashes
           /\ d.response = c.response /\ d.temp = c.temp /\ d.receiver = r
<1>1. d \in Clients
  BY FieldsSet
<1> QED
  BY <1>1 DEF Clients, Linking

(* its answer is set                                                       *)
LEMMA ResponseSet ==
    ASSUME NEW c \in Clients, NEW p \in Pages \cup {None}, NEW d, d = [c EXCEPT !.response = p]
    PROVE  /\ d \in Clients /\ Linking(c, d) /\ d.running = c.running /\ d.tasks = c.tasks
           /\ d.asked = c.asked /\ d.body = c.body /\ d.url = c.url /\ d.method = c.method
           /\ d.length = c.length /\ d.hashes = c.hashes
           /\ d.response = p /\ d.temp = c.temp /\ d.receiver = c.receiver
<1>1. d \in Clients
  BY FieldsSet
<1> QED
  BY <1>1 DEF Clients, Linking

(* d is c but for what it has received                                     *)
Alike(c, d) ==
    /\ Linking(c, d) /\ d.running = c.running /\ d.tasks = c.tasks
    /\ d.asked = c.asked /\ d.body = c.body /\ d.length = c.length

(* what it has received says nothing of its tasks                          *)
LEMMA AlikeQueue ==
    ASSUME NEW c, NEW d, Alike(c, d)
    PROVE  /\ Queue(d) <=> Queue(c)
           /\ \A nm : Has(d, nm) <=> Has(c, nm)
           /\ Shut(d) <=> Shut(c)
<1>1. d.running = c.running /\ d.tasks = c.tasks /\ d.asked = c.asked /\ d.body = c.body
      /\ d.conn = c.conn /\ d.unsent = c.unsent
  BY DEF Alike, Linking
<1>2. (Numbers(d) <=> Numbers(c)) /\ (Once(d) <=> Once(c)) /\ (Turn(d) <=> Turn(c))
  BY <1>1 DEF Numbers, Once, Turn
<1> QED
  BY <1>1, <1>2 DEF Queue, Has, Shut

(* what units make of a client that has an answer's head: the answer goes  *)
(* on, is none, or is complete                                             *)
LEMMA BodyIs ==
    ASSUME NEW c \in Clients, setup \in Setups, NEW u \in Flows, Shut(c),
           c.response \in Pages, NEW d, d = OnBody(c, u)
    PROVE  /\ d \in Clients /\ Shut(d)
           /\ \E b \in Clients :
                 /\ Alike(c, b) /\ b.response \in Pages /\ b.temp = <<>>
                 /\ \/ d = b
                    \/ d = OnResponse(b, -8502)
                    \/ d = OnResponse(b, 0) /\ IsResponseCompleted(b)
<1>0. PICK r : r = OnReceive(c.receiver, u)
  OBVIOUS
<1>1. r \in Receivers
  BY <1>0, ClientIs, OnReceiveIs DEF Flows
<1>2. PICK a : a = [c EXCEPT !.receiver = r]
  OBVIOUS
<1>3. PICK x \in Flows : x = <<>>
  BY NoUnits
<1>4. PICK b : b = [a EXCEPT !.temp = x]
  OBVIOUS
<1>5. /\ a \in Clients /\ Linking(c, a) /\ a.running = c.running /\ a.tasks = c.tasks
      /\ a.asked = c.asked /\ a.body = c.body /\ a.length = c.length
      /\ a.response = c.response
  BY <1>1, <1>2, ReceiverSet
<1>6. /\ b \in Clients /\ Linking(a, b) /\ b.running = a.running /\ b.tasks = a.tasks
      /\ b.asked = a.asked /\ b.body = a.body /\ b.length = a.length
      /\ b.response = a.response /\ b.temp = x
  BY <1>4, <1>5, TempSet
<1>7. b \in Clients /\ Alike(c, b) /\ b.response \in Pages /\ b.temp = <<>>
  BY <1>3, <1>5, <1>6 DEF Alike, Linking
<1>8. b = [c EXCEPT !.receiver = OnReceive(c.receiver, u), !.temp = <<>>]
  BY <1>0, <1>2, <1>3, <1>4
<1>9. /\ ~b.receiver.ok => d = OnResponse(b, -8502)
      /\ b.receiver.ok /\ IsResponseCompleted(b) => d = OnResponse(b, 0)
      /\ b.receiver.ok /\ ~IsResponseCompleted(b) => d = b
  BY <1>8 DEF OnBody
<1>10. \/ d = b
       \/ d = OnResponse(b, -8502)
       \/ d = OnResponse(b, 0) /\ IsResponseCompleted(b)
  BY <1>9
<1>11. Shut(b)
  BY <1>7, AlikeQueue
<1>12. d \in Clients /\ Shut(d)
  <2>1. CASE d = b
    BY <1>7, <1>11, <2>1
  <2>2. CASE d = OnResponse(b, -8502)
    BY <1>7, <1>11, <2>2, OnResponseIs
  <2>3. CASE d = OnResponse(b, 0)
    BY <1>7, <1>11, <2>3, OnResponseIs
  <2> QED
    BY <1>10, <2>1, <2>2, <2>3
<1> QED
  BY <1>7, <1>10, <1>12

(* what units make of a client without an answer: nothing that is one,     *)
(* some of its head, or all of it                                          *)
LEMMA HeardIs ==
    ASSUME NEW c \in Clients, setup \in Setups, NEW u \in Flows, Shut(c),
           NEW d, d = OnHttpResponse(c, u)
    PROVE  /\ d \in Clients /\ Shut(d)
           /\ \/ \E b \in Clients :
                   /\ Alike(c, b) /\ b.response = None /\ b.temp = <<>>
                   /\ c.response = None /\ d = OnResponse(b, -8501)
              \/ /\ Alike(c, d) /\ d.response = None /\ d.temp = u
                 /\ c.response = None /\ HeadLength(u) = 0
              \/ \E b \in Clients :
                   /\ Alike(c, b) /\ b.response \in Pages /\ b.temp = <<>>
                   /\ c.response = None => HeadLength(u) # 0
                   /\ \/ d = b
                      \/ d = OnResponse(b, -8502)
                      \/ d = OnResponse(b, 0) /\ IsResponseCompleted(b)
<1>0. c.response \in Pages \cup {None} /\ c.url \in Pages
  BY ClientIs
<1>n. None \notin Pages
  BY DEF None, Pages
<1>1. CASE c.response # None
  <2>1. d = OnBody(c, u)
    BY <1>1 DEF OnHttpResponse
  <2>2. c.response \in Pages
    BY <1>0, <1>1
  <2> QED
    BY <1>1, <2>1, <2>2, BodyIs
<1>2. CASE c.response = None /\ IsInvalid(u)
  <2>1. PICK x \in Flows : x = <<>>
    BY NoUnits
  <2>2. PICK b : b = [c EXCEPT !.temp = x]
    OBVIOUS
  <2>3. b \in Clients /\ Alike(c, b) /\ b.response = None /\ b.temp = <<>>
    BY <1>2, <2>1, <2>2, TempSet DEF Alike
  <2>4. d = OnResponse(b, -8501)
    BY <1>2, <2>1, <2>2 DEF OnHttpResponse
  <2>5. Shut(b)
    BY <2>3, AlikeQueue
  <2>6. d \in Clients /\ Shut(d)
    BY <2>3, <2>4, <2>5, OnResponseIs
  <2> QED
    BY <1>2, <2>3, <2>4, <2>6
<1>3. CASE c.response = None /\ ~IsInvalid(u) /\ HeadLength(u) = 0
  <2>1. d = [c EXCEPT !.temp = u]
    BY <1>3 DEF OnHttpResponse
  <2>2. d \in Clients /\ Alike(c, d) /\ d.response = None /\ d.temp = u
    BY <1>3, <2>1, TempSet DEF Alike
  <2>3. Shut(d)
    BY <2>2, AlikeQueue
  <2> QED
    BY <1>3, <2>2, <2>3
<1>4. CASE c.response = None /\ ~IsInvalid(u) /\ HeadLength(u) # 0
  <2>1. PICK k : k = u[1][2]
    OBVIOUS
  <2>2. u \in Seq(Units) /\ k \in Nat
    BY <1>4, <2>1 DEF HeadLength, Flows, Units
  <2>3. PICK v : v = SubSeq(u, 3, Len(u))
    OBVIOUS
  <2>4. v \in Flows
    <3>1. SubSeq(u, 2 + 1, Len(u)) \in Seq(Units)
      BY <2>2, BehindIs
    <3> QED
      BY <2>3, <3>1 DEF Flows
  <2>5. PICK r : r = InitReceiver(c.receiver, Page(c.url).form = "chunked" /\ c.method # "HEAD", k)
    OBVIOUS
  <2>6. r \in Receivers
    <3>1. InitReceiver(c.receiver, TRUE, k) \in Receivers /\ InitReceiver(c.receiver, FALSE, k) \in Receivers
      BY <2>2, ClientIs, InitReceiverIs
    <3>2. CASE Page(c.url).form = "chunked" /\ c.method # "HEAD"
      BY <2>5, <3>1, <3>2 DEF InitReceiver
    <3>3. CASE ~(Page(c.url).form = "chunked" /\ c.method # "HEAD")
      BY <2>5, <3>1, <3>3 DEF InitReceiver
    <3> QED
      BY <3>2, <3>3
  <2>7. PICK a, e : a = [c EXCEPT !.response = c.url] /\ e = [a EXCEPT !.receiver = r]
    OBVIOUS
  <2>8. /\ a \in Clients /\ Linking(c, a) /\ a.running = c.running /\ a.tasks = c.tasks
        /\ a.asked = c.asked /\ a.body = c.body /\ a.length = c.length
        /\ a.response = c.url
    BY <1>0, <2>7, ResponseSet
  <2>9. /\ e \in Clients /\ Linking(a, e) /\ e.running = a.running /\ e.tasks = a.tasks
        /\ e.asked = a.asked /\ e.body = a.body /\ e.length = a.length
        /\ e.response = a.response
    <3>1. e = [a EXCEPT !.receiver = r] /\ a \in Clients /\ r \in Receivers
      BY <2>6, <2>7, <2>8
    <3> HIDE <2>7, <2>8, <2>6
    <3> QED
      BY ONLY <3>1, ReceiverSet
  <2>10. e \in Clients /\ Alike(c, e) /\ e.response \in Pages
    BY <1>0, <2>8, <2>9 DEF Alike, Linking
  <2>11. d = OnBody(e, v)
    <3>1. e = [c EXCEPT !.response = c.url,
                 !.receiver = InitReceiver(c.receiver, Page(c.url).form = "chunked"
                                             /\ c.method # "HEAD", u[1][2])]
      BY <2>1, <2>5, <2>7
    <3> QED
      BY <1>4, <2>3, <3>1 DEF OnHttpResponse
  <2>12. Shut(e)
    BY <2>10, AlikeQueue
  <2>13. /\ d \in Clients /\ Shut(d)
         /\ \E b \in Clients :
               /\ Alike(e, b) /\ b.response \in Pages /\ b.temp = <<>>
               /\ \/ d = b
                  \/ d = OnResponse(b, -8502)
                  \/ d = OnResponse(b, 0) /\ IsResponseCompleted(b)
    BY <2>4, <2>10, <2>11, <2>12, BodyIs
  <2>14. \A b : Alike(e, b) => Alike(c, b)
    BY <2>10 DEF Alike, Linking
  <2> QED
    BY <1>4, <2>13, <2>14
<1> QED
  BY <1>1, <1>2, <1>3, <1>4

(* a new request: nothing is left of the one before but tasks, and none of *)
(* those tells that its connection has closed                              *)
LEMMA RequestIs ==
    ASSUME HttpTypes, Request, HttpAssumption
    PROVE  /\ client' \in Clients /\ client'.running /\ client'.conn = "connecting"
           /\ client'.unsent = <<>> /\ client'.response = None /\ client'.temp = <<>>
           /\ client'.asked = client.asked + 1
           /\ client'.body = 0 \/ setup.method = "POST"
           /\ \E e \in Clients :
                 /\ client'.tasks = e.tasks /\ Within(e.tasks, client.tasks)
                 /\ e.asked = client.asked /\ e.body = client.body /\ e.running = client.running
                 /\ Turn(client) /\ (client.conn = "open" => ~Has(client, "close"))
                       => ~Has(e, "close")
<1> DEFINE c == client
<1>0. c \in Clients /\ Shut(c) /\ setup \in Setups
  BY DEF HttpTypes, Shut
<1> HIDE DEF c
<1>1. PICK b : b = Cleared(c)
  OBVIOUS
<1>2. /\ b \in Clients /\ Linking(c, b) /\ b.running = c.running /\ b.tasks = c.tasks
      /\ b.asked = c.asked /\ b.body = c.body /\ b.url = c.url /\ b.method = c.method
      /\ b.length = c.length /\ b.hashes = c.hashes
      /\ b.response = None /\ b.temp = <<>>
  BY <1>0, <1>1, ClearedIs
<1>3. PICK e : e = CloseChannel(b)
  OBVIOUS
<1>4. /\ e \in Clients /\ Kept(b, e) /\ e.running = b.running
      /\ b.conn = "open" => e.conn = "none" /\ e.unsent = <<>> /\ e.tasks = b.tasks
      /\ b.conn # "open" => Linking(b, e)
      /\ Within(e.tasks, b.tasks)
      /\ b.conn # "open" /\ Turn(b) => ~Has(e, "close")
  BY <1>2, <1>3, CloseChannelIs
<1>5. Turn(b) <=> Turn(c)
  BY <1>2 DEF Turn
<1>6. e.unsent = <<>> /\ e.response = None /\ e.temp = <<>> /\ e.asked = c.asked
      /\ e.body = c.body /\ Within(e.tasks, c.tasks) /\ e.running = c.running
  BY <1>0, <1>2, <1>4 DEF Kept, Linking, Shut
<1>7. Turn(c) /\ (c.conn = "open" => ~Has(c, "close")) => ~Has(e, "close")
  BY <1>2, <1>4, <1>5 DEF Linking, Has
<1>8. PICK n : n = IF setup.method = "POST" THEN BodySize ELSE 0
  OBVIOUS
<1>9. n \in Nat /\ (n = 0 \/ setup.method = "POST") /\ setup.method \in Methods
  BY <1>0, <1>8, PagesAre DEF HttpAssumption
<1>10. PICK e1 : e1 = [e EXCEPT !.url = "a"]
  OBVIOUS
<1>11. PICK e2 : e2 = [e1 EXCEPT !.hashes = {}]
  OBVIOUS
<1>12. PICK e3 : e3 = [e2 EXCEPT !.method = setup.method]
  OBVIOUS
<1>13. PICK e4 : e4 = [e3 EXCEPT !.body = n]
  OBVIOUS
<1>14. PICK e5 : e5 = [e4 EXCEPT !.length = 0]
  OBVIOUS
<1>15. PICK k : k = e.asked + 1
  OBVIOUS
<1>16. PICK f : f = [e5 EXCEPT !.asked = k]
  OBVIOUS
<1>17. e1 \in Clients
  BY <1>4, <1>10, FieldsSet DEF Pages
<1>18. e2 \in Clients
  BY <1>11, <1>17, FieldsSet
<1>19. e3 \in Clients
  BY <1>9, <1>12, <1>18, FieldsSet
<1>20. e4 \in Clients
  BY <1>9, <1>13, <1>19, FieldsSet
<1>21. e5 \in Clients
  BY <1>14, <1>20, FieldsSet
<1>22. k \in Nat
  BY <1>4, <1>15, ClientIs
<1>23. f \in Clients
  BY <1>16, <1>21, <1>22, FieldsSet
<1>24. f = [e EXCEPT !.url = "a", !.hashes = {}, !.method = setup.method,
                     !.body = n, !.length = 0, !.asked = k]
  BY <1>10, <1>11, <1>12, <1>13, <1>14, <1>16
<1>25. f.unsent = e.unsent /\ f.response = e.response /\ f.temp = e.temp /\ f.asked = k
       /\ f.body = n /\ f.tasks = e.tasks
  BY <1>4, <1>24 DEF Clients
<1>26. client' = Start(f)
  <2>1. client' = Start([e EXCEPT !.url = "a", !.hashes = {}, !.method = setup.method,
                    !.body = IF setup.method = "POST" THEN BodySize ELSE 0,
                    !.length = 0, !.asked = e.asked + 1])
    BY <1>1, <1>3 DEF Request, c
  <2> QED
    BY <1>8, <1>15, <1>24, <2>1
<1>27. /\ client' \in Clients /\ Kept(f, client') /\ client'.running
       /\ client'.conn = "connecting"
       /\ client'.unsent = f.unsent /\ client'.tasks = f.tasks
  BY <1>23, <1>26, StartIs
<1>28. client'.unsent = <<>> /\ client'.response = None /\ client'.temp = <<>>
       /\ client'.asked = c.asked + 1 /\ client'.body = n /\ client'.tasks = e.tasks
  BY <1>6, <1>15, <1>25, <1>27 DEF Kept
<1>29. /\ client'.tasks = e.tasks /\ Within(e.tasks, c.tasks)
       /\ e.asked = c.asked /\ e.body = c.body /\ e.running = c.running
       /\ Turn(c) /\ (c.conn = "open" => ~Has(c, "close")) => ~Has(e, "close")
  BY <1>6, <1>7, <1>28
<1> QED
  BY <1>4, <1>9, <1>27, <1>28, <1>29 DEF c

(* The client c sends the request, and is d then.                          *)
Requesting(c, d) ==
    \E b \in Clients, n \in Nat :
       /\ n = IF c.body > 0 THEN c.body ELSE c.length
       /\ Kept([c EXCEPT !.length = n], b) /\ Linking(c, b)
       /\ b.running = c.running /\ b.tasks = c.tasks /\ b.length = n
       /\ c.conn # "open" => d = OnResponse(b, -1)
       /\ c.conn = "open" =>
             /\ Kept(b, d) /\ d.conn = "open" /\ d.running = b.running
             /\ d.tasks = b.tasks
             /\ d.unsent = MessageHead(n) \o Data(1, c.body)

(* the request is sent, or fails                                           *)
LEMMA SendIs ==
    ASSUME NEW c \in Clients, setup \in Setups, Shut(c), NEW d, d = SendHttpRequest(c)
    PROVE  d \in Clients /\ Shut(d) /\ Requesting(c, d)
<1>1. PICK n : n = IF c.body > 0 THEN c.body ELSE c.length
  OBVIOUS
<1>2. n \in Nat
  BY <1>1, ClientIs
<1>3. PICK b : b = [c EXCEPT !.length = n]
  OBVIOUS
<1>4. b \in Clients
  BY <1>2, <1>3, FieldsSet
<1>5. Kept(b, b) /\ Linking(c, b) /\ b.running = c.running /\ b.tasks = c.tasks /\ b.length = n
  BY <1>3 DEF Clients, Kept, Linking
<1>6. CASE c.conn # "open"
  <2>1. d = OnResponse(b, -1)
    BY <1>1, <1>3, <1>6 DEF SendHttpRequest
  <2>2. Shut(b)
    BY <1>5 DEF Shut, Linking
  <2>3. d \in Clients /\ Shut(d)
    BY <1>4, <2>1, <2>2, OnResponseIs
  <2> QED
    BY <1>1, <1>2, <1>3, <1>4, <1>5, <1>6, <2>1, <2>3 DEF Requesting
<1>7. CASE c.conn = "open"
  <2>1. PICK w : w = MessageHead(n) \o Data(1, c.body)
    OBVIOUS
  <2>2. w \in Flows
    <3>1. MessageHead(n) \in Seq(Units)
      BY <1>2 DEF MessageHead, Units, Kinds
    <3>2. Data(1, c.body) \in Seq(Units)
      BY ClientIs DEF Data, Units, Kinds
    <3> QED
      BY <2>1, <3>1, <3>2, ConcatProperties DEF Flows
  <2>3. d = [c EXCEPT !.length = n, !.unsent = w]
    BY <1>1, <1>7, <2>1 DEF SendHttpRequest
  <2>4. d = [b EXCEPT !.unsent = w]
    BY <1>3, <2>3
  <2>5. d \in Clients
    BY <1>4, <2>2, <2>4, FieldsSet, ZenonT(60)
  <2>6. Kept(b, d) /\ d.conn = "open" /\ d.running = b.running /\ d.tasks = b.tasks /\ d.unsent = w
    BY <1>4, <1>5, <1>7, <2>4 DEF Clients, Kept, Linking
  <2>7. Shut(d)
    BY <2>6 DEF Shut
  <2> QED
    BY <1>1, <1>2, <1>3, <1>4, <1>5, <1>7, <2>1, <2>5, <2>6, <2>7 DEF Requesting
<1> QED
  BY <1>6, <1>7

(* what is on the wire is set                                              *)
LEMMA UnsentSet ==
    ASSUME NEW c \in Clients, NEW u \in Flows, NEW d, d = [c EXCEPT !.unsent = u]
    PROVE  /\ d \in Clients /\ Kept(c, d) /\ d.running = c.running /\ d.tasks = c.tasks
           /\ d.conn = c.conn /\ d.unsent = u
<1>1. d \in Clients
  BY FieldsSet
<1> QED
  BY <1>1 DEF Clients, Kept

(* its socket is set                                                       *)
LEMMA ConnSet ==
    ASSUME NEW c \in Clients, NEW s \in {"none", "connecting", "open"}, NEW d,
           d = [c EXCEPT !.conn = s]
    PROVE  /\ d \in Clients /\ Kept(c, d) /\ d.running = c.running /\ d.tasks = c.tasks
           /\ d.conn = s /\ d.unsent = c.unsent
<1>1. d \in Clients
  BY FieldsSet
<1> QED
  BY <1>1 DEF Clients, Kept

-----------------------------------------------------------------------------
(* The steps of the client and of its connection.                          *)

Settled(d) == ~Bad => Tidy(d) /\ Over(d) /\ Asking(d) /\ Heads(d)
IInv == HttpTypes /\ EInv

(* a step of the client and its caller                                     *)
LEMMA Moves ==
    ASSUME HttpTypes, client' \in Clients, Shut(client'), Settled(client'),
           UNCHANGED <<setup, netVars, answers>>,
           caller' \in {"waits", "stops", "returned"}, result' \in Founds
    PROVE  IInv'
<1>1. /\ setup' = setup /\ up' = up /\ down' = down /\ eof' = eof /\ server' = server
      /\ answers' = answers
  BY DEF netVars
<1>2. HttpTypes'
  BY <1>1 DEF HttpTypes, Shut
<1>3. EInv'
  <2>1. Bad' <=> Bad
    BY <1>1 DEF Bad, Early, Page
  <2>2. Tidy(client') => Tidy(client)'
    BY <1>1 DEF Tidy, Queue, Linked, Numbers, Once, Turn, Again, Has
  <2>3. Over(client') => Over(client)'
    BY <1>1 DEF Over, Has, IsResponseCompleted
  <2>4. Asking(client') => Asking(client)'
    BY <1>1 DEF Asking, Has, Stream, HeadsAre
  <2>5. Heads(client') => Heads(client)'
    BY <1>1 DEF Heads, HeadFirst, NoHeads
  <2> QED
    BY <2>1, <2>2, <2>3, <2>4, <2>5 DEF EInv, Settled
<1> QED
  BY <1>2, <1>3 DEF IInv

(* of the client alone                                                     *)
LEMMA ClientMoves ==
    ASSUME HttpTypes, client' \in Clients, Shut(client'), Settled(client'),
           UNCHANGED <<setup, netVars, callerVars>>
    PROVE  IInv'
<1>1. UNCHANGED <<setup, netVars, answers>> /\ caller' = caller /\ result' = result
  BY DEF callerVars
<1>2. caller' \in {"waits", "stops", "returned"} /\ result' \in Founds
  BY <1>1 DEF HttpTypes
<1> QED
  BY <1>1, <1>2, Moves

(* of the connection                                                       *)
LEMMA NetMoves ==
    ASSUME HttpTypes, client' \in Clients, Shut(client'), UNCHANGED <<setup, callerVars>>,
           up' \in Flows, down' \in Flows, eof' \in BOOLEAN, server' \in Servers,
           server'.pending => server'.request # None,
           ~Bad => Tidy(client') /\ Over(client)' /\ Asking(client)' /\ Heads(client)'
    PROVE  IInv'
<1>1. setup' = setup /\ answers' = answers /\ caller' = caller /\ result' = result
  BY DEF callerVars
<1>2. HttpTypes'
  BY <1>1 DEF HttpTypes, Shut
<1>3. EInv'
  <2>1. Bad' <=> Bad
    BY <1>1 DEF Bad, Early, Page
  <2>2. Tidy(client') => Tidy(client)'
    BY <1>1 DEF Tidy, Queue, Linked, Numbers, Once, Turn, Again, Has
  <2> QED
    BY <2>1, <2>2 DEF EInv
<1> QED
  BY <1>2, <1>3 DEF IInv

-----------------------------------------------------------------------------
(* Tasks that end a request.                                               *)

(* the first task is taken                                                 *)
LEMMA PoppedQueue ==
    ASSUME NEW c \in Clients, c.tasks # <<>>, Queue(c), NEW d, d = Popped(c)
    PROVE  /\ Queue(d)
           /\ \A nm : Has(d, nm) => Has(c, nm)
           /\ Has(c, c.tasks[1][1])
           /\ c.tasks[1][1] \in {"connected", "sent", "close"} =>
                 ~Has(d, "connected") /\ ~Has(d, "sent")
           /\ c.tasks[1][1] = "close" => ~Has(d, "close")
<1>1. /\ d \in Clients /\ Kept(c, d) /\ Linking(c, d) /\ d.running = c.running
      /\ d.tasks = Tail(c.tasks) /\ Within(d.tasks, c.tasks)
  BY PoppedIs
<1>2. Queue(d) /\ \A nm : Has(d, nm) => Has(c, nm)
  <2>1. d.asked = c.asked /\ d.body \in {c.body, 0} /\ (d.running => c.running)
    BY <1>1 DEF Kept
  <2> QED
    BY <1>1, <2>1, Fewer
<1>3. c.tasks \in Seq(Tasks) /\ Len(c.tasks) \in Nat /\ Len(c.tasks) >= 1
      /\ DOMAIN c.tasks = 1..Len(c.tasks)
  BY ClientIs
<1>4. \A i \in DOMAIN d.tasks : i \in Nat /\ i + 1 \in DOMAIN c.tasks /\ 1 < i + 1
                                /\ d.tasks[i] = c.tasks[i + 1]
  <2>1. DOMAIN d.tasks = 1..(Len(c.tasks) - 1) /\ \A i \in DOMAIN d.tasks : d.tasks[i] = c.tasks[i + 1]
    BY <1>1, <1>3
  <2> QED
    BY <1>3, <2>1
<1>5. 1 \in DOMAIN c.tasks /\ Has(c, c.tasks[1][1])
  BY <1>3 DEF Has
<1>6. c.tasks[1][1] \in {"connected", "sent", "close"} => ~Has(d, "connected") /\ ~Has(d, "sent")
  BY <1>4, <1>5 DEF Has, Queue, Turn
<1>7. c.tasks[1][1] = "close" => ~Has(d, "close")
  BY <1>4, <1>5 DEF Has, Queue, Turn
<1> QED
  BY <1>2, <1>5, <1>6, <1>7

(* a request that fails leaves no connection                               *)
LEMMA Fails ==
    ASSUME NEW c, NEW d \in Clients, NEW code, code # 0, Outcome(c, d, code)
    PROVE  Settled(d)
<1>1. Tidy(d) /\ d.conn # "open" /\ (~d.running => ~Has(d, "close"))
  BY DEF Outcome
<1> QED
  BY <1>1 DEF Settled, Over, Asking, Heads

(* what the client and its setup are                                       *)
LEMMA Plainly ==
    ASSUME HttpTypes
    PROVE  client \in Clients /\ setup \in Setups /\ Shut(client)
  BY DEF HttpTypes, Shut

(* onTcpSend with an error ends the request                                *)
LEMMA RunSentKeeps ==
    ASSUME IInv, RunSent PROVE IInv'
<1>0. client \in Clients /\ setup \in Setups /\ Shut(client) /\ HttpTypes
  BY Plainly DEF IInv
<1>1. PICK p : p = Popped(client)
  OBVIOUS
<1>2. client.tasks # <<>> /\ client.tasks[1][1] = "sent"
  BY DEF RunSent, Runs
<1>3. p \in Clients /\ Kept(client, p) /\ Linking(client, p) /\ p.running = client.running
  BY <1>0, <1>1, <1>2, PoppedIs
<1>4. PICK k : k = client.tasks[1][2]
  OBVIOUS
<1>5. k \in Int /\ k # 0
  <2>1. client.tasks[1] \in Tasks
    BY <1>0, <1>2, ClientIs
  <2> QED
    BY <1>2, <1>4, <2>1 DEF Tasks
<1>6. client' = OnResponse(p, k) /\ UNCHANGED <<setup, netVars, callerVars>>
  BY <1>1, <1>4 DEF RunSent
<1>7. Shut(p)
  BY <1>0, <1>3 DEF Shut, Linking
<1>8. client' \in Clients /\ Shut(client')
  BY <1>0, <1>3, <1>5, <1>6, <1>7, OnResponseIs
<1>9. Settled(client')
  <2> SUFFICES ASSUME ~Bad PROVE Settled(client')
    BY DEF Settled
  <2>1. Tidy(client) /\ Queue(client) /\ Linked(client)
    BY DEF IInv, EInv, Tidy
  <2>2. /\ Queue(p) /\ ~Has(p, "connected") /\ ~Has(p, "sent") /\ Has(client, "sent")
        /\ \A nm : Has(p, nm) => Has(client, nm)
    BY <1>0, <1>1, <1>2, <2>1, PoppedQueue
  <2>3. Ready(p, k)
    BY <1>3, <1>5, <2>1, <2>2 DEF Linked, Ready, Kept, Linking
  <2>4. Outcome(p, client', k)
    BY <1>0, <1>3, <1>5, <1>6, <1>7, <2>3, Responds
  <2> QED
    BY <1>5, <1>8, <2>4, Fails
<1> QED
  BY <1>0, <1>6, <1>8, <1>9, ClientMoves

(* onTcpClose ends a request that has no complete answer                   *)
LEMMA RunCloseKeeps ==
    ASSUME IInv, RunClose PROVE IInv'
<1>0. client \in Clients /\ setup \in Setups /\ Shut(client) /\ HttpTypes
  BY Plainly DEF IInv
<1>1. PICK p : p = Popped(client)
  OBVIOUS
<1>2. client.tasks # <<>> /\ client.tasks[1][1] = "close"
  BY DEF RunClose, Runs
<1>3. p \in Clients /\ Kept(client, p) /\ Linking(client, p) /\ p.running = client.running
  BY <1>0, <1>1, <1>2, PoppedIs
<1>4. client' = OnTcpClose(p) /\ UNCHANGED <<setup, netVars, callerVars>>
  BY <1>1 DEF RunClose
<1>5. Shut(p) /\ (IsResponseCompleted(p) <=> IsResponseCompleted(client))
  BY <1>0, <1>3 DEF Shut, Linking, Kept, IsResponseCompleted
<1>6. CASE IsResponseCompleted(p)
  <2>1. client' = p
    BY <1>4, <1>6 DEF OnTcpClose
  <2>2. Settled(client')
    <3> SUFFICES ASSUME ~Bad PROVE Settled(client')
      BY DEF Settled
    <3>1. Tidy(client) /\ Queue(client) /\ Linked(client) /\ Over(client)
      BY DEF IInv, EInv, Tidy
    <3>2. /\ Queue(p) /\ ~Has(p, "connected") /\ ~Has(p, "sent") /\ ~Has(p, "close")
          /\ Has(client, "close")
      BY <1>0, <1>1, <1>2, <3>1, PoppedQueue
    <3>3. p.conn = "none"
      BY <1>0, <1>3, <3>1, <3>2, ClientIs DEF Linked, Linking
    <3>4. Linked(p)
      BY <1>3, <3>1, <3>2, <3>3 DEF Linked, Kept
    <3>5. Over(p) /\ Asking(p) /\ Heads(p)
      BY <3>2, <3>3 DEF Over, Asking, Heads
    <3> QED
      BY <2>1, <3>2, <3>4, <3>5 DEF Settled, Tidy
  <2> QED
    BY <1>0, <1>3, <1>4, <1>5, <2>1, <2>2, ClientMoves
<1>7. CASE ~IsResponseCompleted(p)
  <2>1. client' = OnResponse(p, -1)
    BY <1>4, <1>7 DEF OnTcpClose
  <2>2. client' \in Clients /\ Shut(client')
    BY <1>0, <1>3, <1>5, <2>1, OnResponseIs
  <2>3. Settled(client')
    <3> SUFFICES ASSUME ~Bad PROVE Settled(client')
      BY DEF Settled
    <3>1. Tidy(client) /\ Queue(client) /\ Linked(client) /\ Over(client)
      BY DEF IInv, EInv, Tidy
    <3>2. /\ Queue(p) /\ ~Has(p, "connected") /\ ~Has(p, "sent") /\ ~Has(p, "close")
          /\ Has(client, "close")
      BY <1>0, <1>1, <1>2, <3>1, PoppedQueue
    <3>3. p.conn = "none"
      BY <1>0, <1>3, <3>1, <3>2, ClientIs DEF Linked, Linking
    <3>4. p.running \/ Again(-1)
      BY <1>3, <1>5, <1>7, <3>1, <3>2 DEF Over, Again
    <3>5. p.response # None => p.temp = <<>>
      BY <1>3, <3>1 DEF Linked, Kept
    <3>6. Ready(p, -1)
      BY <3>2, <3>3, <3>4, <3>5 DEF Ready
    <3>7. Outcome(p, client', -1)
      BY <1>0, <1>3, <1>5, <2>1, <3>6, Responds
    <3> QED
      BY <2>2, <3>7, Fails
  <2> QED
    BY <1>0, <1>4, <2>2, <2>3, ClientMoves
<1> QED
  BY <1>6, <1>7

(* the units that are anywhere                                             *)
LEMMA FlowsAre ==
    ASSUME HttpTypes
    PROVE  up \in Seq(Units) /\ down \in Seq(Units) /\ server.temp \in Seq(Units)
           /\ client.unsent \in Seq(Units) /\ client.temp \in Seq(Units)
  BY DEF HttpTypes, Flows, Servers, Clients

(* a head and its body                                                     *)
LEMMA RequestUnits ==
    ASSUME NEW n \in Nat, NEW k \in Nat
    PROVE  /\ MessageHead(n) \o Data(1, k) \in Seq(Units)
           /\ Len(MessageHead(n) \o Data(1, k)) = 2 + k
           /\ HeadsAre(MessageHead(n) \o Data(1, k), n)
<1>1. PICK h : h = MessageHead(n)
  OBVIOUS
<1>2. h \in Seq(Units) /\ Len(h) = 2 /\ HeadsAre(h, n)
  BY <1>1 DEF MessageHead, Units, Kinds, HeadsAre
<1>3. PICK b : b = Data(1, k)
  OBVIOUS
<1>4. b = [i \in 1..k |-> <<"data", i>>]
  <2>1. k - 1 + 1 = k /\ \A i \in 1..k : 1 + i - 1 = i
    OBVIOUS
  <2> QED
    BY <1>3, <2>1 DEF Data
<1>5. b \in Seq(Units) /\ Len(b) = k /\ \A i \in 1..k : b[i] = <<"data", i>>
  BY <1>4 DEF Units, Kinds
<1>6. HeadsAre(b, n)
  BY <1>5 DEF HeadsAre
<1>7. h \o b \in Seq(Units) /\ Len(h \o b) = 2 + k /\ HeadsAre(h \o b, n)
  BY <1>2, <1>5, <1>6, JoinUnits
<1> QED
  BY <1>1, <1>3, <1>7

(* onTcpConnect sends the request on a connection that is new              *)
LEMMA RunConnectedKeeps ==
    ASSUME IInv, RunConnected PROVE IInv'
<1>0. client \in Clients /\ setup \in Setups /\ Shut(client) /\ HttpTypes
  BY Plainly DEF IInv
<1>1. PICK p : p = Popped(client)
  OBVIOUS
<1>2. client.tasks # <<>> /\ client.tasks[1][1] = "connected"
  BY DEF RunConnected, Runs
<1>3. p \in Clients /\ Kept(client, p) /\ Linking(client, p) /\ p.running = client.running
  BY <1>0, <1>1, <1>2, PoppedIs
<1>4. PICK k : k = client.tasks[1][2]
  OBVIOUS
<1>5. k \in Int
  <2>1. client.tasks[1] \in Tasks
    BY <1>0, <1>2, ClientIs
  <2> QED
    BY <1>4, <2>1 DEF Tasks
<1>6. /\ k # 0 => client' = OnResponse(p, k)
      /\ k = 0 => client' = SendHttpRequest(p)
      /\ UNCHANGED <<setup, netVars, callerVars>>
  BY <1>1, <1>4 DEF RunConnected
<1>7. Shut(p)
  BY <1>0, <1>3 DEF Shut, Linking
<1>8. ASSUME ~Bad
      PROVE  /\ Tidy(client) /\ Queue(client) /\ Linked(client) /\ Asking(client) /\ Heads(client)
             /\ Queue(p) /\ ~Has(p, "connected") /\ ~Has(p, "sent") /\ Has(client, "connected")
             /\ client.running /\ client.conn # "connecting"
             /\ client.conn = "open" => ~Has(p, "close")
  <2>1. Tidy(client) /\ Queue(client) /\ Linked(client) /\ Asking(client) /\ Heads(client)
    BY <1>8 DEF IInv, EInv, Tidy
  <2>2. /\ Queue(p) /\ ~Has(p, "connected") /\ ~Has(p, "sent") /\ Has(client, "connected")
        /\ \A nm : Has(p, nm) => Has(client, nm)
    BY <1>0, <1>1, <1>2, <2>1, PoppedQueue
  <2> QED
    BY <2>1, <2>2 DEF Linked
<1>9. CASE k # 0
  <2>1. client' \in Clients /\ Shut(client')
    BY <1>0, <1>3, <1>5, <1>6, <1>7, <1>9, OnResponseIs
  <2>2. Settled(client')
    <3> SUFFICES ASSUME ~Bad PROVE Settled(client')
      BY DEF Settled
    <3>1. Ready(p, k)
      BY <1>3, <1>8, <1>9 DEF Linked, Ready, Kept, Linking
    <3>2. Outcome(p, client', k)
      BY <1>0, <1>3, <1>5, <1>6, <1>7, <1>9, <3>1, Responds
    <3> QED
      BY <1>9, <2>1, <3>2, Fails
  <2> QED
    BY <1>0, <1>6, <2>1, <2>2, ClientMoves
<1>10. CASE k = 0
  <2>0. client' = SendHttpRequest(p)
    BY <1>6, <1>10
  <2>1. client' \in Clients /\ Shut(client') /\ Requesting(p, client')
    BY <1>0, <1>3, <1>7, <2>0, SendIs
  <2>2. PICK b \in Clients, n \in Nat :
                 /\ n = IF p.body > 0 THEN p.body ELSE p.length
                 /\ Kept([p EXCEPT !.length = n], b) /\ Linking(p, b)
                 /\ b.running = p.running /\ b.tasks = p.tasks /\ b.length = n
                 /\ p.conn # "open" => client' = OnResponse(b, -1)
                 /\ p.conn = "open" =>
                       /\ Kept(b, client') /\ client'.conn = "open" /\ client'.running = b.running
                       /\ client'.tasks = b.tasks
                       /\ client'.unsent = MessageHead(n) \o Data(1, p.body)
    BY <2>1 DEF Requesting
  <2>3. b.asked = p.asked /\ b.body = p.body /\ b.response = p.response /\ b.temp = p.temp
    BY <1>3, <2>2 DEF Kept, Clients
  <2>4. ASSUME ~Bad
        PROVE  Queue(b) /\ \A nm : Has(b, nm) <=> Has(p, nm)
    <3>1. (Numbers(b) <=> Numbers(p)) /\ (Once(b) <=> Once(p)) /\ (Turn(b) <=> Turn(p))
      BY <2>2, <2>3 DEF Numbers, Once, Turn
    <3> QED
      BY <1>8, <2>2, <2>4, <3>1 DEF Queue, Has
  <2>5. CASE p.conn # "open"
    <3>1. client' = OnResponse(b, -1) /\ Shut(b)
      BY <1>7, <2>2, <2>5 DEF Shut, Linking
    <3>2. Settled(client')
      <4> SUFFICES ASSUME ~Bad PROVE Settled(client')
        BY DEF Settled
      <4>1. Ready(b, -1)
        BY <1>3, <1>8, <2>2, <2>3, <2>4 DEF Linked, Ready, Kept, Linking
      <4>2. Outcome(b, client', -1)
        BY <1>0, <3>1, <4>1, Responds
      <4> QED
        BY <2>1, <4>2, Fails
    <3> QED
      BY <1>0, <1>6, <2>1, <3>2, ClientMoves
  <2>6. CASE p.conn = "open"
    <3>1. PICK d : d = client'
      OBVIOUS
    <3>2. /\ d \in Clients /\ Kept(b, d) /\ d.conn = "open" /\ d.running = b.running
          /\ d.tasks = b.tasks /\ d.unsent = MessageHead(n) \o Data(1, p.body)
      BY <2>1, <2>2, <2>6, <3>1
    <3>3. Settled(d)
      <4> SUFFICES ASSUME ~Bad PROVE Settled(d)
        BY DEF Settled
      <4>1. d.asked = p.asked /\ d.body = p.body /\ d.response = p.response /\ d.temp = p.temp
            /\ d.running = p.running /\ d.tasks = p.tasks /\ d.length = n
        BY <2>2, <2>3, <3>2 DEF Kept
      <4>2. (Numbers(d) <=> Numbers(p)) /\ (Once(d) <=> Once(p)) /\ (Turn(d) <=> Turn(p))
        BY <4>1 DEF Numbers, Once, Turn
      <4>3. Queue(d) /\ \A nm : Has(d, nm) <=> Has(p, nm)
        BY <1>8, <4>1, <4>2 DEF Queue, Has
      <4>4. client.conn = "open" /\ p.running /\ p.response = client.response /\ p.temp = client.temp
            /\ p.length = client.length /\ p.body = client.body
        BY <1>3, <1>8, <2>6 DEF Linking, Kept
      <4>5. Linked(d)
        BY <1>8, <3>2, <4>1, <4>3, <4>4 DEF Linked
      <4>6. /\ up = <<>> /\ down = <<>> /\ server.temp = <<>>
            /\ server.request = None /\ ~server.pending /\ p.response = None /\ p.temp = <<>>
        BY <1>8, <4>4 DEF Asking
      <4>7. p.body \in Nat /\ p.length \in Nat /\ (p.body = 0 \/ n = p.body) /\ p.body <= n
        BY <1>3, <2>2, ClientIs
      <4>8. Len(d.unsent) = 2 + p.body /\ HeadsAre(d.unsent, n)
        BY <3>2, <4>7, RequestUnits
      <4>9. HeadsAre(server.temp, n) /\ HeadsAre(up, n) /\ Len(server.temp) = 0 /\ Len(up) = 0
        BY <4>6 DEF HeadsAre
      <4>10. Stream(d) = 2 + d.body
        BY <4>1, <4>7, <4>8, <4>9 DEF Stream
      <4>11. Asking(d)
        BY <1>8, <4>1, <4>3, <4>4, <4>6, <4>7, <4>8, <4>9, <4>10 DEF Asking
      <4>12. Heads(d) /\ Over(d)
        BY <4>1, <4>4, <4>6 DEF Heads, Over, HeadFirst, NoHeads
      <4> QED
        BY <4>3, <4>5, <4>11, <4>12 DEF Settled, Tidy
    <3> QED
      BY <1>0, <1>6, <2>1, <3>1, <3>3, ClientMoves
  <2> QED
    BY <2>5, <2>6
<1> QED
  BY <1>9, <1>10

(* other tasks, but none of those that tell of the connection              *)
LEMMA Transfers ==
    ASSUME NEW c, NEW d, Kept(c, d), Linking(c, d), d.running = c.running, Queue(d),
           Has(d, "connected") => Has(c, "connected"),
           Has(d, "sent") => Has(c, "sent"),
           Has(d, "close") => Has(c, "close"),
           Linked(c), Over(c), Asking(c), Heads(c)
    PROVE  Settled(d)
<1>1. /\ d.method = c.method /\ d.length = c.length /\ d.body = c.body
      /\ d.response = c.response /\ d.receiver = c.receiver /\ d.temp = c.temp
      /\ d.conn = c.conn /\ d.unsent = c.unsent /\ d.running = c.running
  BY DEF Kept, Linking
<1>2. Linked(d)
  BY <1>1 DEF Linked
<1>3. Over(d)
  BY <1>1 DEF Over, IsResponseCompleted
<1>4. Asking(d)
  BY <1>1 DEF Asking, Stream, HeadsAre
<1>5. Heads(d)
  BY <1>1 DEF Heads, HeadFirst, NoHeads
<1> QED
  BY <1>2, <1>3, <1>4, <1>5 DEF Settled, Tidy

(* a task that tells neither of the connection nor of an answer is posted  *)
LEMMA PostKeeps ==
    ASSUME NEW c \in Clients, Shut(c), Settled(c), NEW name \in {"receive", "stop"},
           NEW d, d = Post(c, name, 0)
    PROVE  d \in Clients /\ Shut(d) /\ Settled(d)
<1>0. name \in Names /\ name \notin {"connected", "sent", "close", "answer"}
  BY DEF Names
<1>a. PICK k : k = 0
  OBVIOUS
<1>b. d = Post(c, name, k) /\ k \in Int /\ (name = "sent" => k # 0)
  BY <1>0, <1>a
<1>c. /\ d \in Clients /\ Kept(c, d) /\ Linking(c, d) /\ d.running = c.running
      /\ (d.tasks = c.tasks \/ d.tasks = Append(c.tasks, <<name, k, c.asked>>))
  BY <1>0, <1>b, PostIs
<1>1. /\ d \in Clients /\ Kept(c, d) /\ Linking(c, d) /\ d.running = c.running
      /\ (d.tasks = c.tasks \/ d.tasks = Append(c.tasks, <<name, 0, c.asked>>))
  BY <1>a, <1>c
<1>2. Shut(d)
  BY <1>1 DEF Shut, Linking
<1>3. Settled(d)
  <2> SUFFICES ASSUME ~Bad PROVE Settled(d)
    BY DEF Settled
  <2>1. Queue(c) /\ Linked(c) /\ Over(c) /\ Asking(c) /\ Heads(c)
    BY DEF Settled, Tidy
  <2>2. d.asked = c.asked /\ d.body = c.body
    BY <1>1 DEF Kept
  <2>3. Queue(d) /\ \A nm : Has(d, nm) => Has(c, nm) \/ nm = name
    <3>1. CASE d.tasks = c.tasks
      <4>1. Within(d.tasks, c.tasks)
        BY <3>1, ClientIs, WithinSame
      <4>2. Queue(d) /\ \A nm : Has(d, nm) => Has(c, nm)
        BY <1>1, <2>1, <2>2, <4>1, Fewer
      <4> QED
        BY <4>2
    <3>2. CASE d.tasks = Append(c.tasks, <<name, 0, c.asked>>)
      <4>1. Queue(d) /\ \A nm : Has(d, nm) <=> Has(c, nm) \/ nm = name
        BY <1>0, <1>1, <2>1, <2>2, <3>2, More
      <4> QED
        BY <4>1
    <3> QED
      BY <1>1, <3>1, <3>2
  <2> QED
    BY <1>0, <1>1, <2>1, <2>3, Transfers
<1> QED
  BY <1>1, <1>2, <1>3

(* a connection that is open closes                                        *)
LEMMA Closes ==
    ASSUME NEW c \in Clients, NEW d, d = OnChannelClosed(c)
    PROVE  /\ d \in Clients /\ Shut(d) /\ Kept(c, d) /\ d.running = c.running
           /\ d.conn = "none" /\ d.unsent = <<>>
           /\ Queue(c) /\ ~Has(c, "close") =>
                Queue(d) /\ \A nm : Has(d, nm) => Has(c, nm) \/ nm = "close"
           /\ Tidy(c) /\ Over(c) /\ c.conn = "open" => Settled(d)
<1>0. "close" \in Names /\ "close" \notin {"connected", "sent", "answer"}
  BY DEF Names
<1>1. /\ d \in Clients /\ Kept(c, d) /\ d.running = c.running
      /\ d.conn = "none" /\ d.unsent = <<>>
      /\ (d.tasks = c.tasks \/ d.tasks = Append(c.tasks, <<"close", 0, c.asked>>))
  BY OnChannelClosedIs
<1>2. d.asked = c.asked /\ d.body = c.body
  BY <1>1 DEF Kept
<1>3. ASSUME Queue(c), ~Has(c, "close")
      PROVE  Queue(d) /\ \A nm : Has(d, nm) => Has(c, nm) \/ nm = "close"
  <2>1. CASE d.tasks = c.tasks
    <3>1. Within(d.tasks, c.tasks)
      BY <2>1, ClientIs, WithinSame
    <3>2. Queue(d) /\ \A nm : Has(d, nm) => Has(c, nm)
      BY <1>1, <1>2, <1>3, <3>1, Fewer
    <3> QED
      BY <3>2
  <2>2. CASE d.tasks = Append(c.tasks, <<"close", 0, c.asked>>)
    <3>1. Queue(d) /\ \A nm : Has(d, nm) <=> Has(c, nm) \/ nm = "close"
      BY <1>0, <1>1, <1>2, <1>3, <2>2, More
    <3> QED
      BY <3>1
  <2> QED
    BY <1>1, <2>1, <2>2
<1>4. ASSUME Tidy(c), Over(c), c.conn = "open" PROVE Settled(d)
  <2>1. Queue(c) /\ Linked(c) /\ ~Has(c, "close") /\ ~Has(c, "sent")
    BY <1>4 DEF Tidy, Linked
  <2>2. Queue(d) /\ \A nm : Has(d, nm) => Has(c, nm) \/ nm = "close"
    BY <1>3, <2>1
  <2>3. Linked(d)
    BY <1>1, <2>1, <2>2 DEF Linked, Kept
  <2>4. Over(d)
    BY <1>1, <1>4 DEF Over, Kept, IsResponseCompleted
  <2>5. Asking(d) /\ Heads(d)
    BY <1>1 DEF Asking, Heads
  <2> QED
    BY <2>2, <2>3, <2>4, <2>5 DEF Settled, Tidy
<1>5. Shut(d)
  BY <1>1 DEF Shut
<1> QED
  BY <1>1, <1>3, <1>4, <1>5

(* the event of data                                                       *)
LEMMA SeesDataKeeps ==
    ASSUME IInv, SeesData PROVE IInv'
<1>0. client \in Clients /\ setup \in Setups /\ Shut(client) /\ HttpTypes /\ Settled(client)
  BY Plainly DEF IInv, EInv, Settled
<1>1. client' = Post(client, "receive", 0) /\ UNCHANGED <<setup, netVars, callerVars>>
  BY DEF SeesData
<1>2. client' \in Clients /\ Shut(client') /\ Settled(client')
  BY <1>0, <1>1, PostKeeps
<1> QED
  BY <1>0, <1>1, <1>2, ClientMoves

(* the event of frames, before the client has upgraded                     *)
LEMMA SeesFramesKeeps ==
    ASSUME IInv, SeesFrames PROVE IInv'
<1>0. client \in Clients /\ setup \in Setups /\ Shut(client) /\ HttpTypes /\ Settled(client)
  BY Plainly DEF IInv, EInv, Settled
<1>1. client' = Post(client, "receive", 0) /\ UNCHANGED <<setup, netVars, callerVars>>
  BY DEF SeesFrames
<1>2. client' \in Clients /\ Shut(client') /\ Settled(client')
  BY <1>0, <1>1, PostKeeps
<1> QED
  BY <1>0, <1>1, <1>2, ClientMoves

(* a receive task that finds nothing of the exchange                       *)
LEMMA StaleKeeps ==
    ASSUME IInv, Runs("receive"), client' = Popped(client), UNCHANGED <<setup, netVars, callerVars>>
    PROVE  IInv'
<1>0. client \in Clients /\ setup \in Setups /\ Shut(client) /\ HttpTypes
  BY Plainly DEF IInv
<1>1. PICK p : p = client'
  OBVIOUS
<1>2. client.tasks # <<>> /\ p = Popped(client)
  BY <1>1 DEF Runs
<1>3. p \in Clients /\ Kept(client, p) /\ Linking(client, p) /\ p.running = client.running
  BY <1>0, <1>2, PoppedIs
<1>4. Settled(p)
  <2> SUFFICES ASSUME ~Bad PROVE Settled(p)
    BY DEF Settled
  <2>1. Queue(client) /\ Linked(client) /\ Over(client) /\ Asking(client) /\ Heads(client)
    BY DEF IInv, EInv, Tidy
  <2>2. Queue(p) /\ \A nm : Has(p, nm) => Has(client, nm)
    BY <1>0, <1>2, <2>1, PoppedQueue
  <2> QED
    BY <1>3, <2>1, <2>2, Transfers
<1>5. Shut(p)
  BY <1>0, <1>3 DEF Shut, Linking
<1> QED
  BY <1>0, <1>1, <1>3, <1>4, <1>5, ClientMoves

(* the event of a connection that was closed by the peer                   *)
LEMMA SeesCloseKeeps ==
    ASSUME IInv, SeesClose PROVE IInv'
<1>0. client \in Clients /\ setup \in Setups /\ Shut(client) /\ HttpTypes
  BY Plainly DEF IInv
<1>g. client.conn = "open" /\ client' # client /\ UNCHANGED <<setup, netVars, callerVars>>
  BY DEF SeesClose
<1>1. CASE client.unsent = <<>>
  <2>1. client' = OnChannelClosed(client)
    BY <1>1 DEF SeesClose
  <2>2. client' \in Clients /\ Shut(client') /\ (Tidy(client) /\ Over(client) => Settled(client'))
    BY <1>0, <1>g, <2>1, Closes
  <2>3. Settled(client')
    BY <2>2 DEF Settled, IInv, EInv
  <2> QED
    BY <1>0, <1>g, <2>2, <2>3, ClientMoves
<1>2. CASE client.unsent # <<>>
  <2>1. PICK x \in Flows : x = <<>>
    BY NoUnits
  <2>a. PICK a : a = [client EXCEPT !.unsent = x]
    OBVIOUS
  <2>b. PICK k : k = -5211
    OBVIOUS
  <2>c. PICK b : b = Post(a, "sent", k)
    OBVIOUS
  <2>2. a = [client EXCEPT !.unsent = x] /\ b = Post(a, "sent", k)
    BY <2>a, <2>c
  <2>3. /\ a \in Clients /\ Kept(client, a) /\ a.running = client.running /\ a.tasks = client.tasks
        /\ a.conn = client.conn /\ a.unsent = x
    BY <1>0, <2>2, UnsentSet
  <2>4. "sent" \in Names /\ "sent" \notin {"answer", "close"} /\ k \in Int /\ k # 0
    BY <2>b DEF Names
  <2>5. /\ b \in Clients /\ Kept(a, b) /\ Linking(a, b) /\ b.running = a.running
        /\ (b.tasks = a.tasks \/ b.tasks = Append(a.tasks, <<"sent", k, a.asked>>))
    <3>1. a \in Clients /\ "sent" \in Names /\ k \in Int /\ k # 0 /\ b = Post(a, "sent", k)
      BY <2>2, <2>3, <2>4
    <3> QED
      BY ONLY <3>1, PostIs
  <2>6. client' = IF down = <<>> THEN OnChannelClosed(b) ELSE b
    BY <1>2, <2>1, <2>2, <2>b DEF SeesClose
  <2>7. Shut(b)
    BY <2>1, <2>3, <2>5 DEF Shut, Linking
  <2>8. client' \in Clients /\ Shut(client')
    BY <2>5, <2>6, <2>7, Closes
  <2>9. Settled(client')
    <3> SUFFICES ASSUME ~Bad PROVE Settled(client')
      BY DEF Settled
    <3>1. Tidy(client) /\ Queue(client) /\ Linked(client) /\ Over(client) /\ Asking(client)
      BY DEF IInv, EInv, Tidy
    <3>2. /\ ~Has(client, "close") /\ ~Has(client, "sent") /\ ~Has(client, "connected")
          /\ down = <<>> /\ client.running
      BY <1>g, <1>2, <3>1 DEF Linked, Asking, Over
    <3>3. Queue(a) /\ \A nm : Has(a, nm) <=> Has(client, nm)
      <4>1. a.asked = client.asked /\ a.body = client.body
        BY <2>3 DEF Kept
      <4>2. (Numbers(a) <=> Numbers(client)) /\ (Once(a) <=> Once(client)) /\ (Turn(a) <=> Turn(client))
        BY <2>3, <4>1 DEF Numbers, Once, Turn
      <4> QED
        BY <2>3, <3>1, <4>2 DEF Queue, Has
    <3>4. Queue(b) /\ \A nm : Has(b, nm) => Has(a, nm) \/ nm = "sent"
      <4>0. b.asked = a.asked /\ b.body = a.body
        BY <2>5 DEF Kept
      <4>1. CASE b.tasks = a.tasks
        <5>1. Within(b.tasks, a.tasks)
          BY <2>3, <4>1, ClientIs, WithinSame
        <5>2. Queue(b) /\ \A nm : Has(b, nm) => Has(a, nm)
          BY <2>3, <2>5, <3>3, <4>0, <5>1, Fewer
        <5> QED
          BY <5>2
      <4>2. CASE b.tasks = Append(a.tasks, <<"sent", k, a.asked>>)
        <5>1. Queue(b) /\ \A nm : Has(b, nm) <=> Has(a, nm) \/ nm = "sent"
          BY <2>3, <2>4, <2>5, <3>2, <3>3, <4>0, <4>2, More
        <5> QED
          BY <5>1
      <4> QED
        BY <2>5, <4>1, <4>2
    <3>5. client' = OnChannelClosed(b)
      BY <2>6, <3>2
    <3>6. ~Has(b, "close")
      BY <2>4, <3>2, <3>3, <3>4
    <3>7. /\ Kept(b, client') /\ client'.running = b.running /\ client'.conn = "none"
          /\ Queue(client') /\ \A nm : Has(client', nm) => Has(b, nm) \/ nm = "close"
      BY <2>5, <3>4, <3>5, <3>6, Closes
    <3>8. client'.running /\ client'.response = client.response /\ client'.temp = client.temp
      BY <2>3, <2>5, <3>2, <3>7 DEF Kept
    <3>9. ~Has(client', "connected")
      BY <3>2, <3>3, <3>4, <3>7
    <3>10. Linked(client')
      BY <3>1, <3>7, <3>8, <3>9 DEF Linked
    <3> QED
      BY <3>7, <3>8, <3>10 DEF Settled, Tidy, Over, Asking, Heads
  <2> QED
    BY <1>0, <1>g, <2>8, <2>9, ClientMoves
<1> QED
  BY <1>1, <1>2

(* the request of an answer                                                *)
LEMMA AnswersAre ==
    ASSUME answers \in Seq(Answers)
    PROVE  \A i \in DOMAIN answers : answers[i] \in Answers /\ answers[i].request \in Nat
<1>1. \A i \in DOMAIN answers : answers[i] \in Answers
  OBVIOUS
<1>2. \A a \in Answers : a.request \in Nat
  BY DEF Answers
<1> QED
  BY <1>1, <1>2

(* the parts of a task                                                     *)
LEMMA TasksAre ==
    ASSUME NEW c \in Clients
    PROVE  \A i \in DOMAIN c.tasks :
              /\ c.tasks[i] \in Tasks /\ c.tasks[i][1] \in Names
              /\ c.tasks[i][2] \in Int /\ c.tasks[i][3] \in Nat
<1>1. \A i \in DOMAIN c.tasks : c.tasks[i] \in Tasks
  <2>1. c.tasks \in Seq(Tasks)
    BY ClientIs
  <2> QED
    BY <2>1
<1>2. \A t \in Tasks : t[1] \in Names /\ t[2] \in Int /\ t[3] \in Nat
  BY DEF Tasks
<1> QED
  BY <1>1, <1>2

(* A new request has a number that no answer and no task has.              *)
LEMMA RequestKeeps ==
    ASSUME IInv, Request, HttpAssumption PROVE IInv'
<1>0. client \in Clients /\ setup \in Setups /\ Shut(client) /\ HttpTypes
  BY Plainly DEF IInv
<1>1. /\ client' \in Clients /\ client'.running /\ client'.conn = "connecting"
      /\ client'.unsent = <<>> /\ client'.response = None /\ client'.temp = <<>>
      /\ client'.asked = client.asked + 1
      /\ client'.body = 0 \/ setup.method = "POST"
      /\ \E e \in Clients :
            /\ client'.tasks = e.tasks /\ Within(e.tasks, client.tasks)
            /\ e.asked = client.asked /\ e.body = client.body /\ e.running = client.running
            /\ Turn(client) /\ (client.conn = "open" => ~Has(client, "close"))
                  => ~Has(e, "close")
  BY <1>0, RequestIs
<1>2. UNCHANGED <<setup, netVars, callerVars>> /\ client.asked < Requests
      /\ ~client.running /\ client.conn # "connecting"
  BY DEF Request
<1>3. Settled(client')
  <2> SUFFICES ASSUME ~Bad PROVE Settled(client')
    BY DEF Settled
  <2>1. Queue(client) /\ Linked(client) /\ Turn(client) /\ Numbers(client)
    BY DEF IInv, EInv, Tidy, Queue
  <2>2. PICK e \in Clients :
            /\ client'.tasks = e.tasks /\ Within(e.tasks, client.tasks)
            /\ e.asked = client.asked /\ e.body = client.body /\ e.running = client.running
            /\ Turn(client) /\ (client.conn = "open" => ~Has(client, "close"))
                  => ~Has(e, "close")
    BY <1>1
  <2>3. Queue(e) /\ \A nm : Has(e, nm) => Has(client, nm)
    BY <1>0, <2>1, <2>2, Fewer
  <2>4. ~Has(e, "close") /\ ~Has(e, "connected") /\ ~Has(e, "sent")
    BY <1>2, <2>1, <2>2, <2>3 DEF Linked
  <2>5. PICK d : d = client'
    OBVIOUS
  <2>6. \A nm : Has(d, nm) <=> Has(e, nm)
    BY <2>2, <2>5 DEF Has
  <2>7. Linked(d)
    BY <1>1, <2>4, <2>5, <2>6 DEF Linked
  <2>8. client.asked \in Nat /\ d.asked = client.asked + 1
    BY <1>0, <1>1, <2>5, ClientIs
  <2>9. Numbers(d)
    <3>1. setup.sync => d.asked <= 1
      BY <1>2, <2>8 DEF Requests
    <3>2. \A i \in DOMAIN answers : answers[i].request \in Nat
      BY <1>0, AnswersAre DEF HttpTypes
    <3>3. \A i \in DOMAIN answers : answers[i].request <= d.asked
      BY <2>1, <2>8, <3>2 DEF Numbers
    <3>4. \A i \in DOMAIN e.tasks : e.tasks[i][3] \in Nat /\ e.tasks[i][3] <= e.asked
      BY <2>3, TasksAre DEF Queue, Numbers
    <3>5. \A i \in DOMAIN d.tasks : d.tasks[i][3] <= d.asked
      BY <2>2, <2>5, <2>8, <3>4
    <3> QED
      BY <1>1, <2>5, <3>1, <3>3, <3>5 DEF Numbers
  <2>10. Once(d)
    <3>1. \A i \in DOMAIN answers : answers[i].request # d.asked
      <4>1. \A i \in DOMAIN answers : answers[i].request \in Nat
        BY <1>0, AnswersAre DEF HttpTypes
      <4> QED
        BY <2>1, <2>8, <4>1 DEF Numbers
    <3>2. \A i \in DOMAIN e.tasks : e.tasks[i][3] # d.asked
      <4>1. \A i \in DOMAIN e.tasks : e.tasks[i][3] \in Nat /\ e.tasks[i][3] <= e.asked
        BY <2>3, TasksAre DEF Queue, Numbers
      <4> QED
        BY <2>2, <2>8, <4>1
    <3> QED
      BY <2>2, <2>3, <2>5, <3>1, <3>2 DEF Queue, Once
  <2>11. Turn(d)
    BY <2>2, <2>3, <2>5 DEF Queue, Turn
  <2>12. Over(d) /\ Asking(d) /\ Heads(d)
    BY <1>1, <2>5 DEF Over, Asking, Heads
  <2> QED
    BY <2>5, <2>7, <2>9, <2>10, <2>11, <2>12 DEF Settled, Tidy, Queue
<1>4. Shut(client')
  BY <1>1 DEF Shut
<1> QED
  BY <1>0, <1>1, <1>2, <1>3, <1>4, ClientMoves

(* the caller of a synchronous request stops waiting                       *)
LEMMA StopWaitingKeeps ==
    ASSUME IInv, StopWaiting PROVE IInv'
<1>0. client \in Clients /\ setup \in Setups /\ Shut(client) /\ HttpTypes /\ Settled(client)
  BY Plainly DEF IInv, EInv, Settled
<1>1. client' = Post(client, "stop", 0) /\ UNCHANGED <<setup, netVars, answers>>
      /\ caller' \in {"waits", "stops", "returned"}
  BY DEF StopWaiting
<1>2. client' \in Clients /\ Shut(client') /\ Settled(client')
  BY <1>0, <1>1, PostKeeps
<1>3. result' \in Founds
  <2>1. result \in Founds
    BY <1>0 DEF HttpTypes
  <2>2. [result EXCEPT !.code = -8604] \in Founds
    BY <2>1 DEF Founds
  <2> QED
    BY <2>1, <2>2 DEF StopWaiting
<1> QED
  BY <1>0, <1>1, <1>2, <1>3, Moves

(* its thread ends, and with it everything that was to be done             *)
LEMMA RunStopKeeps ==
    ASSUME IInv, RunStop PROVE IInv'
<1>0. client \in Clients /\ setup \in Setups /\ Shut(client) /\ HttpTypes
  BY Plainly DEF IInv
<1>1. client' = [client EXCEPT !.tasks = <<>>, !.conn = "none", !.unsent = <<>>]
      /\ UNCHANGED <<setup, netVars, answers>>
      /\ caller' \in {"waits", "stops", "returned"} /\ result' = result
  BY DEF RunStop
<1>2. PICK q : q = <<>>
  OBVIOUS
<1>3. q \in Seq(Tasks) /\ DOMAIN q = {}
  BY <1>2
<1>4. PICK a : a = [client EXCEPT !.tasks = q]
  OBVIOUS
<1>5. a \in Clients /\ Kept(client, a) /\ Linking(client, a) /\ a.running = client.running /\ a.tasks = q
  BY <1>0, <1>3, <1>4, TasksSet, ZenonT(60)
<1>6. client' = [a EXCEPT !.conn = "none", !.unsent = <<>>]
  BY <1>1, <1>2, <1>4
<1>7. client' \in Clients /\ Kept(a, client') /\ client'.running = a.running /\ client'.tasks = a.tasks
      /\ client'.conn = "none" /\ client'.unsent = <<>>
  BY <1>5, <1>6, ConnLost
<1>8. Shut(client')
  BY <1>7 DEF Shut
<1>9. Settled(client')
  <2> SUFFICES ASSUME ~Bad PROVE Settled(client')
    BY DEF Settled
  <2>1. Queue(client) /\ Linked(client)
    BY DEF IInv, EInv, Tidy
  <2>2. PICK d : d = client'
    OBVIOUS
  <2>3. d.tasks = q /\ d.asked = client.asked /\ d.body = client.body /\ d.running = client.running
        /\ d.response = client.response /\ d.temp = client.temp /\ d.conn = "none"
    BY <1>5, <1>7, <2>2 DEF Kept
  <2>4. \A nm : ~Has(d, nm)
    BY <1>3, <2>3 DEF Has
  <2>5. Queue(d)
    BY <1>3, <2>1, <2>3 DEF Queue, Numbers, Once, Turn
  <2>6. Linked(d)
    BY <2>1, <2>3, <2>4 DEF Linked
  <2>7. Over(d) /\ Asking(d) /\ Heads(d)
    BY <2>3, <2>4 DEF Over, Asking, Heads
  <2> QED
    BY <2>2, <2>5, <2>6, <2>7 DEF Settled, Tidy
<1>10. result' \in Founds
  BY <1>0, <1>1 DEF HttpTypes
<1> QED
  BY <1>0, <1>1, <1>7, <1>8, <1>9, <1>10, Moves

(* the server's channel for a new connection                               *)
LEMMA FreshServerIs ==
    FreshServer \in Servers /\ ~FreshServer.pending
<1>1. EmptyReceiver \in Receivers /\ <<>> \in Flows
  BY EmptyIs, NoUnits
<1> QED
  BY <1>1 DEF FreshServer, Servers, Methods

(* a connection opens, or fails to                                         *)
LEMMA ConnectsKeeps ==
    ASSUME IInv, Connects PROVE IInv'
<1>0. client \in Clients /\ setup \in Setups /\ Shut(client) /\ HttpTypes
  BY Plainly DEF IInv
<1>1. /\ client.conn = "connecting" /\ up' = <<>> /\ down' = <<>> /\ eof' = FALSE
      /\ server' = FreshServer /\ UNCHANGED <<setup, callerVars>>
  BY DEF Connects
<1>2. /\ up' \in Flows /\ down' \in Flows /\ eof' \in BOOLEAN /\ server' \in Servers
      /\ server'.pending => server'.request # None
  BY <1>1, NoUnits, FreshServerIs
<1>3. PICK s \in {"open", "none"}, k \in Int :
         client' = Post([client EXCEPT !.conn = s], "connected", k)
  BY DEF Connects
<1> DEFINE b == [client EXCEPT !.conn = s]
<1>4. b = [client EXCEPT !.conn = s]
  OBVIOUS
<1> HIDE DEF b
<1>5. /\ b \in Clients /\ Kept(client, b) /\ b.running = client.running /\ b.tasks = client.tasks
      /\ b.conn = s /\ b.unsent = client.unsent
  BY <1>0, <1>3, <1>4, ConnSet
<1>6. k \in Int /\ "connected" \in Names /\ "connected" \notin {"sent", "answer", "close"}
  BY <1>3 DEF Names
<1>7. PICK d : d = client'
  OBVIOUS
<1>8. /\ d \in Clients /\ Kept(b, d) /\ Linking(b, d) /\ d.running = b.running
      /\ (d.tasks = b.tasks \/ d.tasks = Append(b.tasks, <<"connected", k, b.asked>>))
  <2>1. b \in Clients /\ "connected" \in Names /\ k \in Int /\ "connected" # "sent"
        /\ d = Post(b, "connected", k)
    BY <1>3, <1>4, <1>5, <1>6, <1>7
  <2> QED
    BY ONLY <2>1, PostIs
<1>9. d.unsent = <<>> /\ d.conn = s /\ d.conn # "connecting" /\ d.asked = client.asked
      /\ d.body = client.body /\ d.response = client.response /\ d.temp = client.temp
      /\ d.running = client.running
  BY <1>0, <1>1, <1>3, <1>5, <1>8 DEF Kept, Linking, Shut
<1>10. ASSUME ~Bad
       PROVE  Tidy(d) /\ d.running /\ d.response = None /\ d.temp = <<>> /\ ~Has(d, "close")
  <2>1. Queue(client) /\ Linked(client)
    BY <1>10 DEF IInv, EInv, Tidy
  <2>2. /\ client.running /\ ~Has(client, "connected") /\ ~Has(client, "sent")
        /\ ~Has(client, "close") /\ client.response = None /\ client.temp = <<>>
    BY <1>1, <2>1 DEF Linked
  <2>3. Queue(b) /\ \A nm : Has(b, nm) <=> Has(client, nm)
    <3>1. b.asked = client.asked /\ b.body = client.body
      BY <1>5 DEF Kept
    <3>2. (Numbers(b) <=> Numbers(client)) /\ (Once(b) <=> Once(client)) /\ (Turn(b) <=> Turn(client))
      BY <1>5, <3>1 DEF Numbers, Once, Turn
    <3> QED
      BY <1>5, <2>1, <3>2 DEF Queue, Has
  <2>4. Queue(d) /\ \A nm : Has(d, nm) => Has(b, nm) \/ nm = "connected"
    <3>0. d.asked = b.asked /\ d.body = b.body
      BY <1>8 DEF Kept
    <3>1. CASE d.tasks = b.tasks
      <4>1. Within(d.tasks, b.tasks)
        BY <1>5, <3>1, ClientIs, WithinSame
      <4>2. Queue(d) /\ \A nm : Has(d, nm) => Has(b, nm)
        BY <1>5, <1>8, <2>3, <3>0, <4>1, Fewer
      <4> QED
        BY <4>2
    <3>2. CASE d.tasks = Append(b.tasks, <<"connected", k, b.asked>>)
      <4>1. ~Has(b, "connected") /\ ~Has(b, "sent") /\ ~Has(b, "close")
        BY <2>2, <2>3
      <4>2. Queue(d) /\ \A nm : Has(d, nm) <=> Has(b, nm) \/ nm = "connected"
        BY <1>5, <1>6, <1>8, <2>3, <3>0, <3>2, <4>1, More
      <4> QED
        BY <4>2
    <3> QED
      BY <1>8, <3>1, <3>2
  <2>5. ~Has(d, "sent") /\ ~Has(d, "close")
    BY <2>2, <2>3, <2>4
  <2>6. Linked(d)
    BY <1>9, <2>2, <2>5 DEF Linked
  <2> QED
    BY <1>9, <2>2, <2>4, <2>5, <2>6 DEF Tidy
<1>11. ~Bad => Tidy(client') /\ Over(client)' /\ Asking(client)' /\ Heads(client)'
  <2> SUFFICES ASSUME ~Bad PROVE Tidy(client') /\ Over(client)' /\ Asking(client)' /\ Heads(client)'
    OBVIOUS
  <2>1. Tidy(d) /\ d.running /\ d.response = None /\ d.temp = <<>>
    BY <1>10
  <2>2. Over(client)'
    BY <1>7, <2>1 DEF Over
  <2>3. Heads(client)'
    BY <1>1, <1>7, <2>1 DEF Heads, HeadFirst, NoHeads
  <2>4. server'.temp = <<>> /\ server'.request = None /\ ~server'.pending
        /\ server'.receiver = EmptyReceiver
    BY <1>1 DEF FreshServer
  <2>5. Asking(client)'
    <3>1. Len(<<>>) = 0
      OBVIOUS
    <3>2. Stream(client)' = 0
      BY <1>1, <1>7, <1>9, <2>4, <3>1 DEF Stream
    <3>3. \A n : HeadsAre(<<>>, n)
      BY DEF HeadsAre
    <3> QED
      BY <1>1, <1>7, <1>9, <2>1, <2>4, <3>2, <3>3 DEF Asking, HeadsAre
  <2> QED
    BY <1>7, <2>1, <2>2, <2>3, <2>5
<1>12. Shut(client')
  BY <1>7, <1>9 DEF Shut
<1> QED
  BY <1>0, <1>1, <1>2, <1>7, <1>8, <1>11, <1>12, NetMoves

(* units of a request are sent                                             *)
LEMMA SendsKeeps ==
    ASSUME IInv, NEW n \in 1..Len(client.unsent), Sends(n) PROVE IInv'
<1>0. client \in Clients /\ setup \in Setups /\ Shut(client) /\ HttpTypes
  BY Plainly DEF IInv
<1>1. /\ client' = [client EXCEPT !.unsent = SubSeq(client.unsent, n + 1, Len(client.unsent))]
      /\ up' = up \o SubSeq(client.unsent, 1, n)
      /\ UNCHANGED <<setup, callerVars>> /\ down' = down /\ eof' = eof /\ server' = server
  BY DEF Sends
<1>2. PICK s, v, w : s = client.unsent /\ v = SubSeq(s, 1, n) /\ w = SubSeq(s, n + 1, Len(s))
  OBVIOUS
<1>3. s \in Seq(Units) /\ up \in Seq(Units) /\ Len(s) \in Nat /\ n \in 1..Len(s) /\ n \in 0..Len(s)
      /\ Len(up) \in Nat /\ Len(server.temp) \in Nat
  BY <1>0, <1>2, FlowsAre
<1>4. /\ v \in Seq(Units) /\ w \in Seq(Units) /\ Len(v) = n /\ Len(w) = Len(s) - n
      /\ \A k : HeadsAre(s, k) => HeadsAre(v, k) /\ HeadsAre(w, k)
  BY <1>2, <1>3, CutUnits
<1>5. w \in Flows
  BY <1>4 DEF Flows
<1>6. PICK d : d = client'
  OBVIOUS
<1>7. d = [client EXCEPT !.unsent = w]
  BY <1>1, <1>2, <1>6
<1>8. /\ d \in Clients /\ Kept(client, d) /\ d.running = client.running /\ d.tasks = client.tasks
      /\ d.conn = client.conn /\ d.unsent = w
  BY <1>0, <1>5, <1>7, UnsentSet
<1>9. s # <<>> /\ client.conn = "open"
  BY <1>0, <1>2, <1>3 DEF Shut
<1>10. Shut(d)
  BY <1>8, <1>9 DEF Shut
<1>11. /\ up' \in Seq(Units) /\ Len(up') = Len(up) + n
       /\ \A k : HeadsAre(up, k) /\ HeadsAre(v, k) => HeadsAre(up', k)
  <2>1. up' = up \o v
    BY <1>1, <1>2
  <2> QED
    BY <1>3, <1>4, <2>1, JoinUnits
<1>12. up' \in Flows /\ down' \in Flows /\ eof' \in BOOLEAN /\ server' \in Servers
       /\ (server'.pending => server'.request # None)
  BY <1>0, <1>1, <1>11 DEF HttpTypes, Flows
<1>13. ~Bad => Tidy(client') /\ Over(client)' /\ Asking(client)' /\ Heads(client)'
  <2> SUFFICES ASSUME ~Bad PROVE Tidy(client') /\ Over(client)' /\ Asking(client)' /\ Heads(client)'
    OBVIOUS
  <2>1. Queue(client) /\ Linked(client) /\ Over(client) /\ Asking(client) /\ Heads(client)
    BY DEF IInv, EInv, Tidy
  <2>2. d.asked = client.asked /\ d.body = client.body /\ d.response = client.response
        /\ d.temp = client.temp /\ d.length = client.length
    BY <1>8 DEF Kept
  <2>3. client.running /\ ~Has(client, "connected") /\ ~server.pending /\ down = <<>>
    BY <1>2, <1>9, <2>1 DEF Over, Asking
  <2>4. \A nm : Has(d, nm) <=> Has(client, nm)
    BY <1>8 DEF Has
  <2>5. Queue(d)
    <3>1. (Numbers(d) <=> Numbers(client)) /\ (Once(d) <=> Once(client)) /\ (Turn(d) <=> Turn(client))
      BY <1>8, <2>2 DEF Numbers, Once, Turn
    <3> QED
      BY <2>1, <3>1 DEF Queue
  <2>6. Linked(d)
    BY <1>8, <2>1, <2>2, <2>4 DEF Linked
  <2>7. Over(client)'
    BY <1>6, <1>8, <2>3 DEF Over
  <2>8. Heads(client)'
    BY <1>1, <1>6, <1>8, <2>1, <2>2 DEF Heads, HeadFirst, NoHeads
  <2>9. Stream(client)' = Stream(client) /\ Len(up') + Len(client'.unsent) = Len(up) + Len(s)
    <3>1. Len(client'.unsent) = Len(s) - n /\ n \in Nat
      BY <1>3, <1>4, <1>6, <1>8
    <3>2. PICK i, j, k, l, m : /\ i = Len(up) /\ j = Len(s) /\ k = Len(server.temp)
                               /\ l = Len(up') /\ m = Len(client'.unsent)
      OBVIOUS
    <3>3. /\ i \in Nat /\ j \in Nat /\ k \in Nat /\ n \in Nat /\ l = i + n /\ m = j - n
      BY <1>3, <1>11, <3>1, <3>2
    <3>4. k + l + m = k + i + j /\ l + m = i + j
      BY <3>3
    <3>5. Stream(client)' = k + l + m /\ Stream(client) = k + i + j
      BY <1>1, <1>2, <3>2 DEF Stream
    <3> QED
      BY <3>2, <3>4, <3>5
  <2>10. HeadsAre(up', d.length) /\ HeadsAre(d.unsent, d.length)
    BY <1>2, <1>4, <1>8, <1>9, <1>11, <2>1, <2>2 DEF Asking
  <2>11. Asking(client)'
    <3>1. ~Has(client, "connected")'
      BY <1>6, <2>3, <2>4 DEF Has
    <3>2. /\ server.open => client.running /\ client.response = None /\ client.temp = <<>>
                            /\ down = <<>> /\ ~eof
          /\ server.open /\ server.request = None =>
                server.receiver = EmptyReceiver /\ Stream(client) \in {0, 2 + client.body}
          /\ server.open /\ server.request # None =>
                /\ server.temp = <<>>
                /\ ~server.receiver.chunked /\ server.receiver.size = client.length
                /\ server.receiver.received + Len(up) + Len(client.unsent) = client.body
          /\ server.open /\ (Stream(client) > 0 \/ server.request # None) => client.body <= client.length
          /\ HeadsAre(server.temp, client.length)
      BY <1>9, <2>1 DEF Asking
    <3>3. server.receiver.received \in Nat
      BY <1>0 DEF HttpTypes, Servers, Receivers
    <3>4. server.receiver.received + Len(up) + Len(client.unsent)
             = server.receiver.received + Len(up') + Len(client'.unsent)
      <4>1. Len(client'.unsent) \in Nat /\ Len(up') \in Nat
        BY <1>4, <1>6, <1>8, <1>11
      <4>2. PICK i, j, l, m, r : /\ i = Len(up) /\ j = Len(client.unsent) /\ l = Len(up')
                                 /\ m = Len(client'.unsent) /\ r = server.receiver.received
        OBVIOUS
      <4>3. /\ i \in Nat /\ j \in Nat /\ l \in Nat /\ m \in Nat /\ r \in Nat /\ l + m = i + j
        BY <1>2, <1>3, <2>9, <3>3, <4>1, <4>2
      <4>4. r + i + j = r + l + m
        BY <4>3
      <4> QED
        BY <4>2, <4>4
    <3>5. /\ client'.running /\ client'.response = client.response /\ client'.temp = client.temp
          /\ client'.body = client.body /\ client'.length = client.length
          /\ client'.running = client.running
      BY <1>6, <1>8, <2>2, <2>3
    <3>6. HeadsAre(server.temp, client.length)'
      BY <1>1, <3>2, <3>5 DEF HeadsAre
    <3>7. HeadsAre(up, client.length)' /\ HeadsAre(client.unsent, client.length)'
      BY <1>6, <2>10 DEF HeadsAre
    <3>8. ~server'.pending /\ down' = <<>> /\ server'.open = server.open /\ server'.request = server.request
          /\ server'.receiver = server.receiver /\ server'.temp = server.temp /\ eof' = eof
      BY <1>1, <2>3
    <3> QED
      BY <2>9, <3>1, <3>2, <3>4, <3>5, <3>6, <3>7, <3>8 DEF Asking
  <2> QED
    BY <1>6, <2>5, <2>6, <2>7, <2>8, <2>11 DEF Tidy
<1> QED
  BY <1>0, <1>1, <1>6, <1>8, <1>10, <1>12, <1>13, NetMoves

-----------------------------------------------------------------------------
(* The server.                                                             *)

(* the connection breaks                                                   *)
LEMMA BreaksKeeps ==
    ASSUME IInv, Breaks PROVE IInv'
<1>0. client \in Clients /\ setup \in Setups /\ Shut(client) /\ HttpTypes
  BY Plainly DEF IInv
<1>1. /\ client' = client /\ up' = up /\ eof' = TRUE /\ down' = <<>>
      /\ server' = [server EXCEPT !.open = FALSE, !.pending = FALSE]
      /\ UNCHANGED <<setup, callerVars>>
  BY DEF Breaks
<1>2. server \in Servers
  BY <1>0 DEF HttpTypes
<1>3. /\ server' \in Servers /\ ~server'.open /\ ~server'.pending
      /\ server'.request = server.request /\ server'.temp = server.temp
  BY <1>1, <1>2 DEF Servers
<1>4. /\ up' \in Flows /\ down' \in Flows /\ eof' \in BOOLEAN
  BY <1>0, <1>1, NoUnits DEF HttpTypes
<1>5. ~Bad => Tidy(client') /\ Over(client)' /\ Asking(client)' /\ Heads(client)'
  <2> SUFFICES ASSUME ~Bad PROVE Tidy(client') /\ Over(client)' /\ Asking(client)' /\ Heads(client)'
    OBVIOUS
  <2>1. Tidy(client) /\ Over(client) /\ Asking(client) /\ Heads(client)
    BY DEF IInv, EInv
  <2>2. setup' = setup
    BY <1>1
  <2>3. Over(client)'
    BY <1>1, <1>3, <2>1, <2>2 DEF Over, Has, IsResponseCompleted
  <2>4. Asking(client)'
    BY <1>1, <1>3, <2>1 DEF Asking, Has, HeadsAre
  <2>5. Heads(client)'
    BY <1>1, <2>1 DEF Heads, HeadFirst, NoHeads
  <2> QED
    BY <1>1, <2>1, <2>3, <2>4, <2>5
<1> QED
  BY <1>0, <1>1, <1>3, <1>4, <1>5, NetMoves

(* an answer, or the part of it that is sent                               *)
LEMMA AnswerIs ==
    ASSUME HttpTypes, NEW p \in Pages, NEW m \in Methods, Answer(p, m)
    PROVE  down' \in Flows /\ eof' \in BOOLEAN /\ (down = <<>> => HeadFirst(down'))
<1>1. setup \in Setups /\ down \in Seq(Units)
  BY FlowsAre DEF HttpTypes
<1>2. eof' \in BOOLEAN
  BY <1>1, PageCloses DEF Answer
<1>3. PICK w : w = WireForm(p, m)
  OBVIOUS
<1>4. w \in Seq(Units) /\ HeadFirst(w) /\ Len(w) \in Nat
  BY <1>1, <1>3, WireFormIs
<1>5. PICK n \in IF Page(p).how = "part" THEN 2..Len(w) ELSE {Len(w)} : down' = down \o SubSeq(w, 1, n)
  BY <1>3 DEF Answer
<1>6. n \in 0..Len(w)
  BY <1>4, <1>5
<1>7. PICK v : v = SubSeq(w, 1, n)
  OBVIOUS
<1>8. v \in Seq(Units) /\ HeadFirst(v)
  BY <1>4, <1>6, <1>7, CutUnits
<1>9. down' = down \o v /\ down' \in Seq(Units) /\ (down = <<>> => HeadFirst(down'))
  BY <1>1, <1>5, <1>7, <1>8, JoinUnits
<1> QED
  BY <1>2, <1>9 DEF Flows

(* a handler that has kept the channel answers                             *)
LEMMA ServerAnswersKeeps ==
    ASSUME IInv, ServerAnswers PROVE IInv'
<1>0. client \in Clients /\ setup \in Setups /\ Shut(client) /\ HttpTypes
  BY Plainly DEF IInv
<1>1. /\ client' = client /\ up' = up /\ server.pending
      /\ Answer(server.request, server.method)
      /\ server' = [server EXCEPT !.pending = FALSE]
      /\ UNCHANGED <<setup, callerVars>>
  BY DEF ServerAnswers
<1>2. server \in Servers /\ server.request # None
  BY <1>0, <1>1 DEF HttpTypes
<1>3. /\ server' \in Servers /\ server'.open = server.open /\ ~server'.pending
      /\ server'.request = server.request /\ server'.temp = server.temp
      /\ server'.receiver = server.receiver
  BY <1>1, <1>2 DEF Servers
<1>4. server.request \in Pages /\ server.method \in Methods
  BY <1>2 DEF Servers
<1>5. down' \in Flows /\ eof' \in BOOLEAN /\ (down = <<>> => HeadFirst(down'))
  BY <1>0, <1>1, <1>4, AnswerIs
<1>6. up' \in Flows
  BY <1>0, <1>1 DEF HttpTypes
<1>7. ~Bad => Tidy(client') /\ Over(client)' /\ Asking(client)' /\ Heads(client)'
  <2> SUFFICES ASSUME ~Bad PROVE Tidy(client') /\ Over(client)' /\ Asking(client)' /\ Heads(client)'
    OBVIOUS
  <2>1. Tidy(client) /\ Over(client) /\ Asking(client) /\ Heads(client)
    BY DEF IInv, EInv
  <2>2. setup' = setup
    BY <1>1
  <2>3. Over(client)'
    BY <1>1, <1>3, <2>1, <2>2 DEF Over, Has, IsResponseCompleted
  <2>4. Asking(client)'
    <3> SUFFICES ASSUME client.conn = "open" PROVE Asking(client)'
      BY <1>1 DEF Asking
    <3>1. /\ ~Has(client, "connected") /\ ~server.open /\ client.unsent = <<>>
          /\ HeadsAre(server.temp, client.length) /\ HeadsAre(up, client.length)
          /\ HeadsAre(client.unsent, client.length)
      BY <1>1, <1>2, <2>1 DEF Asking
    <3> QED
      BY <1>1, <1>3, <3>1 DEF Asking, Has, HeadsAre
  <2>5. Heads(client)'
    <3> SUFFICES ASSUME client.conn = "open" PROVE Heads(client)'
      BY <1>1 DEF Heads
    <3>1. /\ client.running /\ client.response = None /\ client.temp = <<>> /\ down = <<>>
      BY <1>1, <2>1 DEF Asking
    <3>2. HeadFirst(down')
      BY <1>5, <3>1
    <3> QED
      BY <1>1, <3>1, <3>2 DEF Heads, HeadFirst, NoHeads
  <2> QED
    BY <1>1, <2>1, <2>3, <2>4, <2>5
<1> QED
  BY <1>0, <1>1, <1>3, <1>5, <1>6, <1>7, NetMoves

(* what units make of the server                                           *)
LEMMA ReceivedIs ==
    ASSUME HttpTypes, NEW u \in Flows, NEW s, s = ReceiveRequest(server, u)
    PROVE  /\ s \in Servers /\ s.open = server.open /\ s.pending = server.pending
           /\ server.request = None /\ HeadLength(u) = 0 =>
                 s.request = None /\ s.receiver = server.receiver /\ s.temp = u
           /\ ~(server.request = None /\ HeadLength(u) = 0) =>
                 s.request \in Pages /\ s.temp = <<>>
           /\ server.request = None /\ HeadLength(u) # 0 =>
                 /\ Len(u) >= 2 /\ u[1][1] = "head" /\ u[1][2] \in Nat
                 /\ server.receiver = EmptyReceiver =>
                      /\ ~s.receiver.chunked /\ s.receiver.size = u[1][2]
                      /\ s.receiver.received = IF Len(u) - 2 < u[1][2] THEN Len(u) - 2
                                               ELSE u[1][2]
           /\ server.request # None => s.receiver = OnReceive(server.receiver, u)
<1>0. /\ server \in Servers /\ server.receiver \in Receivers /\ client.url \in Pages
      /\ client.method \in Methods /\ u \in Seq(Units) /\ Len(u) \in Nat
  BY DEF HttpTypes, Servers, Clients, Flows
<1>n. None \notin Pages
  BY DEF None, Pages
<1>1. CASE server.request = None /\ HeadLength(u) = 0
  <2>1. s = [server EXCEPT !.temp = u]
    BY <1>1 DEF ReceiveRequest
  <2> QED
    BY <1>0, <1>1, <2>1 DEF Servers
<1>2. ASSUME NEW r \in Receivers,
             s = [server EXCEPT !.temp = <<>>, !.request = client.url,
                                !.method = client.method, !.receiver = r]
      PROVE  /\ s \in Servers /\ s.open = server.open /\ s.pending = server.pending
             /\ s.request \in Pages /\ s.temp = <<>> /\ s.receiver = r
  <2>1. PICK x \in Flows : x = <<>>
    BY NoUnits
  <2>2. s = [server EXCEPT !.temp = x, !.request = client.url,
                           !.method = client.method, !.receiver = r]
    BY <1>2, <2>1
  <2> QED
    BY <1>0, <1>2, <2>1, <2>2 DEF Servers
<1>3. CASE server.request = None /\ HeadLength(u) # 0
  <2>1. Len(u) >= 2 /\ u[1][1] = "head"
    BY <1>0, <1>3 DEF HeadLength
  <2>2. PICK k : k = u[1][2]
    OBVIOUS
  <2>3. k \in Nat
    BY <1>0, <2>1, <2>2 DEF Units
  <2>4. PICK v : v = SubSeq(u, 3, Len(u))
    OBVIOUS
  <2>5. v \in Seq(Units) /\ Len(v) = Len(u) - 2
    <3>1. SubSeq(u, 2 + 1, Len(u)) \in Seq(Units)
          /\ Len(SubSeq(u, 2 + 1, Len(u))) = IF 2 <= Len(u) THEN Len(u) - 2 ELSE 0
      BY <1>0, BehindIs
    <3> QED
      BY <1>0, <2>1, <2>4, <3>1
  <2>6. PICK q : q = InitReceiver(server.receiver, FALSE, k)
    OBVIOUS
  <2>7. q \in Receivers
    BY <1>0, <2>3, <2>6, InitReceiverIs
  <2>8. PICK r : r = OnReceive(q, v)
    OBVIOUS
  <2>9. /\ r \in Receivers
        /\ ~q.chunked /\ q.received <= q.size =>
              /\ ~r.chunked /\ r.size = q.size
              /\ r.received = q.received + (IF Len(v) < q.size - q.received THEN Len(v)
                                            ELSE q.size - q.received)
    BY <2>5, <2>7, <2>8, OnReceiveIs
  <2>10. s = [server EXCEPT !.temp = <<>>, !.request = client.url,
                            !.method = client.method, !.receiver = r]
    BY <1>3, <2>2, <2>4, <2>6, <2>8 DEF ReceiveRequest
  <2>11. server.receiver = EmptyReceiver =>
            q.size = k /\ q.received = 0 /\ ~q.chunked
    <3>1. /\ InitReceiver(EmptyReceiver, FALSE, k).size = k
          /\ InitReceiver(EmptyReceiver, FALSE, k).received = 0
          /\ ~InitReceiver(EmptyReceiver, FALSE, k).chunked
      BY <1>0, <2>3, InitReceiverIs
    <3> QED
      BY <2>6, <3>1
  <2>12. server.receiver = EmptyReceiver =>
            /\ ~r.chunked /\ r.size = k
            /\ r.received = IF Len(u) - 2 < k THEN Len(u) - 2 ELSE k
    BY <1>0, <2>3, <2>5, <2>9, <2>11
  <2> QED
    BY <1>2, <1>3, <2>1, <2>2, <2>3, <2>9, <2>10, <2>12
<1>4. CASE server.request # None
  <2>1. PICK r : r = OnReceive(server.receiver, u)
    OBVIOUS
  <2>2. r \in Receivers
    BY <1>0, <2>1, OnReceiveIs
  <2>3. s = [server EXCEPT !.temp = <<>>, !.request = client.url,
                           !.method = client.method, !.receiver = r]
    BY <1>4, <2>1 DEF ReceiveRequest
  <2> QED
    BY <1>2, <1>4, <2>1, <2>2, <2>3
<1> QED
  BY <1>1, <1>3, <1>4

(* what the server makes of n units, and the answer that it gives at once  *)
LEMMA ServerTurns ==
    ASSUME HttpTypes, NEW n \in 1..Len(up), ServerReceives(n),
           NEW u, u = server.temp \o SubSeq(up, 1, n), NEW s, s = ReceiveRequest(server, u)
    PROVE  /\ server.open /\ u \in Flows /\ s \in Servers
           /\ up' = SubSeq(up, n + 1, Len(up)) /\ client' = client /\ UNCHANGED <<setup, callerVars>>
           /\ down' \in Flows /\ eof' \in BOOLEAN /\ server' \in Servers
           /\ server'.temp = s.temp /\ server'.request = s.request /\ server'.receiver = s.receiver
           /\ s.request = None => server'.open /\ ~server'.pending
           /\ server'.pending => s.request # None
           /\ \/ /\ ~server'.open /\ server'.pending = server.pending
                 /\ down = <<>> => HeadFirst(down')
                 /\ s.request \in Pages
                 /\ Page(s.request).how = "early" \/ IsCompleted(s.receiver)
              \/ /\ ~server'.open /\ server'.pending /\ down' = down /\ eof' = eof
                 /\ IsCompleted(s.receiver)
              \/ /\ server'.open /\ ~server'.pending /\ down' = down /\ eof' = eof
<1>0. up \in Seq(Units) /\ server.temp \in Seq(Units) /\ n \in 0..Len(up) /\ down \in Flows
      /\ eof \in BOOLEAN
  BY FlowsAre DEF HttpTypes
<1>1. u \in Seq(Units) /\ u \in Flows
  <2>1. SubSeq(up, 1, n) \in Seq(Units)
    BY <1>0, CutUnits
  <2>2. u \in Seq(Units)
    BY <1>0, <2>1, JoinUnits
  <2> QED
    BY <2>2 DEF Flows
<1>2. /\ s \in Servers /\ s.open = server.open /\ s.pending = server.pending
      /\ s.request \in Pages \cup {None}
  <2>1. s \in Servers /\ s.open = server.open /\ s.pending = server.pending
    BY <1>1, ReceivedIs
  <2> QED
    BY <2>1 DEF Servers
<1>3. /\ server.open /\ up' = SubSeq(up, n + 1, Len(up)) /\ client' = client
      /\ UNCHANGED <<setup, callerVars>>
  BY DEF ServerReceives
<1>4. PICK E, W, L :
         /\ E = (s.request # None /\ Page(s.request).how = "early")
         /\ W = (s.request # None /\ IsCompleted(s.receiver))
         /\ L = (s.request # None /\ Page(s.request).how = "later")
  OBVIOUS
<1>5. IF E \/ (W /\ ~L)
      THEN Answer(s.request, s.method) /\ server' = [s EXCEPT !.open = FALSE]
      ELSE /\ server' = [s EXCEPT !.pending = W, !.open = ~W]
           /\ UNCHANGED <<down, eof>>
  BY <1>4 DEF ServerReceives
<1>n. None \notin Pages
  BY DEF None, Pages
<1>6. CASE E \/ (W /\ ~L)
  <2>1. Answer(s.request, s.method) /\ server' = [s EXCEPT !.open = FALSE]
    BY <1>5, <1>6
  <2>2. s.request \in Pages /\ s.method \in Methods
    BY <1>2, <1>4, <1>6 DEF Servers
  <2>3. down' \in Flows /\ eof' \in BOOLEAN /\ (down = <<>> => HeadFirst(down'))
    BY <2>1, <2>2, AnswerIs
  <2>4. /\ server' \in Servers /\ ~server'.open /\ server'.pending = s.pending
        /\ server'.temp = s.temp /\ server'.request = s.request /\ server'.receiver = s.receiver
    BY <1>2, <2>1 DEF Servers
  <2>5. Page(s.request).how = "early" \/ IsCompleted(s.receiver)
    BY <1>4, <1>6
  <2> QED
    BY <1>1, <1>2, <1>3, <1>n, <2>2, <2>3, <2>4, <2>5
<1>7. CASE ~(E \/ (W /\ ~L)) /\ W
  <2>1. server' = [s EXCEPT !.pending = TRUE, !.open = FALSE] /\ down' = down /\ eof' = eof
    BY <1>4, <1>5, <1>7
  <2>2. /\ server' \in Servers /\ ~server'.open /\ server'.pending
        /\ server'.temp = s.temp /\ server'.request = s.request /\ server'.receiver = s.receiver
    BY <1>2, <2>1 DEF Servers
  <2>3. s.request # None /\ IsCompleted(s.receiver)
    BY <1>4, <1>7
  <2> QED
    BY <1>0, <1>1, <1>2, <1>3, <2>1, <2>2, <2>3
<1>8. CASE ~(E \/ (W /\ ~L)) /\ ~W
  <2>1. server' = [s EXCEPT !.pending = FALSE, !.open = TRUE] /\ down' = down /\ eof' = eof
    BY <1>4, <1>5, <1>8
  <2>2. /\ server' \in Servers /\ server'.open /\ ~server'.pending
        /\ server'.temp = s.temp /\ server'.request = s.request /\ server'.receiver = s.receiver
    BY <1>2, <2>1 DEF Servers
  <2> QED
    BY <1>0, <1>1, <1>2, <1>3, <2>1, <2>2
<1> QED
  BY <1>6, <1>7, <1>8

(* what units have made of the server                                      *)
Received(u, s) ==
    /\ server.request = None /\ HeadLength(u) = 0 =>
              s.request = None /\ s.receiver = server.receiver /\ s.temp = u
    /\ ~(server.request = None /\ HeadLength(u) = 0) =>
              s.request \in Pages /\ s.temp = <<>>
    /\ server.request = None /\ HeadLength(u) # 0 =>
              /\ Len(u) >= 2 /\ u[1][1] = "head" /\ u[1][2] \in Nat
              /\ server.receiver = EmptyReceiver =>
                   /\ ~s.receiver.chunked /\ s.receiver.size = u[1][2]
                   /\ s.receiver.received = IF Len(u) - 2 < u[1][2] THEN Len(u) - 2
                                            ELSE u[1][2]
    /\ server.request # None => s.receiver = OnReceive(server.receiver, u)

Counted(w, s) ==
    /\ HeadsAre(w, client.length) /\ HeadsAre(s.temp, client.length)
    /\ s.request = None =>
         /\ s.receiver = EmptyReceiver
         /\ Len(s.temp) + Len(w) + Len(client.unsent) \in {0, 2 + client.body}
         /\ Len(s.temp) + Len(w) + Len(client.unsent) > 0 => client.body <= client.length
    /\ s.request # None =>
         /\ s.temp = <<>> /\ client.body <= client.length
         /\ ~s.receiver.chunked /\ s.receiver.size = client.length
         /\ s.receiver.received + Len(w) + Len(client.unsent) = client.body

(* the server keeps count of what the client has still to send             *)
LEMMA Counts ==
    ASSUME HttpTypes, Asking(client), client.conn = "open", server.open,
           NEW n \in 1..Len(up), NEW u \in Seq(Units), NEW w \in Seq(Units), NEW s,
           Len(u) = Len(server.temp) + n, Len(w) = Len(up) - n,
           HeadsAre(u, client.length), HeadsAre(w, client.length), Received(u, s)
    PROVE  Counted(w, s)
<1>0. /\ up \in Seq(Units) /\ server.temp \in Seq(Units) /\ client \in Clients
      /\ Len(up) \in Nat /\ Len(server.temp) \in Nat /\ client.unsent \in Seq(Units)
      /\ client.body \in Nat /\ client.length \in Nat /\ Len(client.unsent) \in Nat
      /\ server.receiver \in Receivers
  <2>1. up \in Seq(Units) /\ server.temp \in Seq(Units) /\ client \in Clients
        /\ client.unsent \in Seq(Units) /\ server.receiver \in Receivers
    BY FlowsAre DEF HttpTypes, Servers
  <2>2. client.body \in Nat /\ client.length \in Nat
    BY <2>1, ClientIs
  <2> QED
    BY <2>1, <2>2
<1>4. /\ server.request = None =>
            server.receiver = EmptyReceiver /\ Stream(client) \in {0, 2 + client.body}
      /\ server.request # None =>
            /\ server.temp = <<>>
            /\ ~server.receiver.chunked /\ server.receiver.size = client.length
            /\ server.receiver.received + Len(up) + Len(client.unsent) = client.body
      /\ Stream(client) > 0 \/ server.request # None => client.body <= client.length
  BY DEF Asking
<1>5. HeadsAre(u, client.length) /\ HeadsAre(w, client.length)
  OBVIOUS
<1>6. /\ server.request = None /\ HeadLength(u) = 0 =>
                 s.request = None /\ s.receiver = server.receiver /\ s.temp = u
      /\ ~(server.request = None /\ HeadLength(u) = 0) =>
                 s.request \in Pages /\ s.temp = <<>>
      /\ server.request = None /\ HeadLength(u) # 0 =>
                 /\ Len(u) >= 2 /\ u[1][1] = "head" /\ u[1][2] \in Nat
                 /\ server.receiver = EmptyReceiver =>
                      /\ ~s.receiver.chunked /\ s.receiver.size = u[1][2]
                      /\ s.receiver.received = IF Len(u) - 2 < u[1][2] THEN Len(u) - 2
                                               ELSE u[1][2]
      /\ server.request # None => s.receiver = OnReceive(server.receiver, u)
  BY DEF Received
<1>7. PICK a, b, x, k, y : /\ a = Len(server.temp) /\ b = Len(up) /\ x = Len(client.unsent)
                           /\ k = client.length /\ y = client.body
  OBVIOUS
<1>8. a \in Nat /\ b \in Nat /\ x \in Nat /\ k \in Nat /\ y \in Nat /\ n \in 1..b
      /\ Len(w) = b - n /\ Len(u) = a + n /\ Stream(client) = a + b + x
  BY <1>0, <1>7 DEF Stream
<1>n. None \notin Pages
  BY DEF None, Pages
<1>h. HeadsAre(<<>>, client.length)
  BY DEF HeadsAre
<1>9. CASE server.request = None /\ HeadLength(u) = 0
  <2>1. s.request = None /\ s.receiver = EmptyReceiver /\ s.temp = u
    BY <1>4, <1>6, <1>9
  <2>2. Len(s.temp) + Len(w) + x = a + b + x
    BY <1>8, <2>1
  <2> QED
    BY <1>4, <1>5, <1>7, <1>8, <1>9, <2>1, <2>2 DEF Counted
<1>10. CASE server.request = None /\ HeadLength(u) # 0
  <2>1. s.request \in Pages /\ s.temp = <<>>
    BY <1>6, <1>10
  <2>2. Len(u) >= 2 /\ u[1][1] = "head" /\ ~s.receiver.chunked /\ s.receiver.size = u[1][2]
        /\ s.receiver.received = (IF Len(u) - 2 < u[1][2] THEN Len(u) - 2 ELSE u[1][2])
    BY <1>4, <1>6, <1>10
  <2>3. u[1][2] = k
    BY <1>5, <1>7, <2>2 DEF HeadsAre
  <2>a. PICK l, m, j, t : l = Len(w) /\ m = Len(u) /\ j = s.receiver.received /\ t = Stream(client)
    OBVIOUS
  <2>b. l = b - n /\ m = a + n /\ m >= 2 /\ n \in Nat /\ n <= b /\ j = (IF m - 2 < k THEN m - 2 ELSE k)
        /\ t = a + b + x
    BY <1>8, <2>2, <2>3, <2>a
  <2>c. t \in {0, 2 + y} /\ (t > 0 => y <= k)
    BY <1>4, <1>7, <1>10, <2>a
  <2>4. t = 2 + y /\ y <= k
    BY <1>8, <2>b, <2>c
  <2>5. j = a + n - 2
    BY <1>8, <2>b, <2>4
  <2>6. s.receiver.received + Len(w) + x = y
    <3>1. j + l + x = y
      BY <1>8, <2>b, <2>4, <2>5
    <3> QED
      BY <2>a, <3>1
  <2> QED
    BY <1>5, <1>7, <1>h, <1>n, <2>1, <2>2, <2>3, <2>4, <2>6 DEF Counted
<1>11. CASE server.request # None
  <2>1. s.request \in Pages /\ s.temp = <<>> /\ s.receiver = OnReceive(server.receiver, u)
    BY <1>6, <1>11
  <2>2. PICK r, q : r = server.receiver /\ q = s.receiver
    OBVIOUS
  <2>3. /\ r \in Receivers /\ ~r.chunked /\ r.size = k /\ r.received + b + x = y /\ y <= k /\ a = 0
        /\ r.received \in Nat
    <3>1. r \in Receivers /\ ~r.chunked /\ r.size = k /\ r.received + b + x = y /\ y <= k
      BY <1>0, <1>4, <1>7, <1>11, <2>2
    <3>2. a = 0
      BY <1>4, <1>7, <1>11
    <3>3. r.received \in Nat
      BY <3>1 DEF Receivers
    <3> QED
      BY <3>1, <3>2, <3>3
  <2>4. r.received <= r.size /\ Len(u) = n /\ n <= r.size - r.received
    BY <1>8, <2>3, SMTT(40)
  <2>5. /\ ~q.chunked /\ q.size = r.size
        /\ q.received = r.received + (IF Len(u) < r.size - r.received THEN Len(u)
                                      ELSE r.size - r.received)
    BY <2>1, <2>2, <2>3, <2>4, OnReceiveIs
  <2>6. q.received = r.received + n
    BY <1>8, <2>3, <2>4, <2>5, SMTT(40)
  <2>7. q.received + Len(w) + x = y
    <3>1. PICK i, j, l : i = r.received /\ j = q.received /\ l = Len(w)
      OBVIOUS
    <3>2. i \in Nat /\ n \in Nat /\ j = i + n /\ l = b - n /\ i + b + x = y
      BY <1>8, <2>3, <2>6, <3>1
    <3>3. j + l + x = y
      BY <1>8, <3>2
    <3> QED
      BY <3>1, <3>3
  <2> QED
    BY <1>5, <1>7, <1>h, <1>n, <2>1, <2>2, <2>3, <2>5, <2>7 DEF Counted
<1> QED
  BY <1>9, <1>10, <1>11

(* so it does whatever it receives                                         *)
LEMMA ServerCounts ==
    ASSUME HttpTypes, Asking(client), client.conn = "open", server.open,
           NEW n \in 1..Len(up)
    PROVE  Counted(SubSeq(up, n + 1, Len(up)),
                   ReceiveRequest(server, server.temp \o SubSeq(up, 1, n)))
<1>0. up \in Seq(Units) /\ server.temp \in Seq(Units) /\ n \in 0..Len(up)
  BY FlowsAre
<1>1. PICK v, w : v = SubSeq(up, 1, n) /\ w = SubSeq(up, n + 1, Len(up))
  OBVIOUS
<1>2. /\ v \in Seq(Units) /\ w \in Seq(Units) /\ Len(v) = n /\ Len(w) = Len(up) - n
      /\ \A k : HeadsAre(up, k) => HeadsAre(v, k) /\ HeadsAre(w, k)
  BY <1>0, <1>1, CutUnits
<1>3. PICK u : u = server.temp \o v
  OBVIOUS
<1>4. /\ u \in Seq(Units) /\ Len(u) = Len(server.temp) + n
      /\ \A k : HeadsAre(server.temp, k) /\ HeadsAre(v, k) => HeadsAre(u, k)
  BY <1>0, <1>2, <1>3, JoinUnits
<1>5. HeadsAre(server.temp, client.length) /\ HeadsAre(up, client.length)
  BY DEF Asking
<1>6. HeadsAre(u, client.length) /\ HeadsAre(w, client.length)
  BY <1>2, <1>4, <1>5
<1>7. PICK s : s = ReceiveRequest(server, u)
  OBVIOUS
<1>8. Received(u, s)
  <2>1. u \in Flows
    BY <1>4 DEF Flows
  <2> QED
    BY <1>7, <2>1, ReceivedIs, ZenonT(60) DEF Received
<1>9. Counted(w, s)
  BY <1>2, <1>4, <1>6, <1>8, Counts
<1> QED
  BY <1>1, <1>3, <1>7, <1>9

(* The server answers only a request that it has whole, with nothing of it *)
(* left on the wire, unless it answers early.                              *)
LEMMA ServerReceivesKeeps ==
    ASSUME IInv, NEW n \in 1..Len(up), ServerReceives(n) PROVE IInv'
<1>0. client \in Clients /\ setup \in Setups /\ Shut(client) /\ HttpTypes
  BY Plainly DEF IInv
<1>1. PICK u : u = server.temp \o SubSeq(up, 1, n)
  OBVIOUS
<1>2. PICK s : s = ReceiveRequest(server, u)
  OBVIOUS
<1>3. /\ server.open /\ u \in Flows /\ s \in Servers
      /\ up' = SubSeq(up, n + 1, Len(up)) /\ client' = client /\ UNCHANGED <<setup, callerVars>>
      /\ down' \in Flows /\ eof' \in BOOLEAN /\ server' \in Servers
      /\ server'.temp = s.temp /\ server'.request = s.request /\ server'.receiver = s.receiver
      /\ s.request = None => server'.open /\ ~server'.pending
      /\ server'.pending => s.request # None
  BY <1>0, <1>1, <1>2, ServerTurns
<1>4. \/ /\ ~server'.open /\ server'.pending = server.pending
         /\ down = <<>> => HeadFirst(down')
         /\ s.request \in Pages
         /\ Page(s.request).how = "early" \/ IsCompleted(s.receiver)
      \/ /\ ~server'.open /\ server'.pending /\ down' = down /\ eof' = eof
         /\ IsCompleted(s.receiver)
      \/ /\ server'.open /\ ~server'.pending /\ down' = down /\ eof' = eof
  BY <1>0, <1>1, <1>2, ServerTurns
<1>5. up \in Seq(Units) /\ up # <<>> /\ up' \in Seq(Units) /\ Len(up') \in Nat
  <2>1. up \in Seq(Units) /\ n \in 0..Len(up)
    BY <1>0, FlowsAre
  <2>2. SubSeq(up, n + 1, Len(up)) \in Seq(Units)
    BY <2>1, CutUnits
  <2> QED
    BY <1>3, <2>1, <2>2
<1>6. ~Bad => Tidy(client') /\ Over(client)' /\ Asking(client)' /\ Heads(client)'
  <2> SUFFICES ASSUME ~Bad PROVE Tidy(client') /\ Over(client)' /\ Asking(client)' /\ Heads(client)'
    OBVIOUS
  <2>1. Tidy(client) /\ Over(client) /\ Asking(client) /\ Heads(client) /\ Numbers(client)
    BY DEF IInv, EInv, Tidy, Queue
  <2>2. CASE client.conn # "open"
    <3>1. Over(client)'
      BY <1>3, <2>1, <2>2 DEF Over, Has, IsResponseCompleted
    <3> QED
      BY <1>3, <2>1, <2>2, <3>1 DEF Asking, Heads
  <2>3. CASE client.conn = "open"
    <3>1. /\ client.running /\ client.response = None /\ client.temp = <<>> /\ down = <<>> /\ ~eof
          /\ ~server.pending /\ ~Has(client, "connected") /\ HeadsAre(client.unsent, client.length)
      BY <1>3, <1>5, <2>1, <2>3 DEF Asking
    <3>2. /\ HeadsAre(up', client.length) /\ HeadsAre(s.temp, client.length)
          /\ s.request = None =>
                /\ s.receiver = EmptyReceiver
                /\ Len(s.temp) + Len(up') + Len(client.unsent) \in {0, 2 + client.body}
                /\ Len(s.temp) + Len(up') + Len(client.unsent) > 0 => client.body <= client.length
          /\ s.request # None =>
                /\ s.temp = <<>> /\ client.body <= client.length
                /\ ~s.receiver.chunked /\ s.receiver.size = client.length
                /\ s.receiver.received + Len(up') + Len(client.unsent) = client.body
      <4>1. Counted(SubSeq(up, n + 1, Len(up)), s)
        BY <1>0, <1>1, <1>2, <1>3, <2>1, <2>3, ServerCounts
      <4> QED
        BY <1>3, <4>1 DEF Counted
    <3>3. Over(client)'
      BY <1>3, <3>1 DEF Over
    <3>4. s.request # None /\ (Page(s.request).how = "early" \/ IsCompleted(s.receiver)) /\ s.request \in Pages
             => client.unsent = <<>>
      <4> SUFFICES ASSUME s.request # None, s.request \in Pages,
                          Page(s.request).how = "early" \/ IsCompleted(s.receiver)
                   PROVE  client.unsent = <<>>
        OBVIOUS
      <4>0. /\ s.receiver.received \in Nat /\ client.body \in Nat /\ client.length \in Nat
            /\ Len(client.unsent) \in Nat /\ client.unsent \in Seq(Units)
        <5>1. s.receiver.received \in Nat
          BY <1>3 DEF Servers, Receivers
        <5>2. client.unsent \in Seq(Units)
          BY <1>0, FlowsAre
        <5> QED
          BY <1>0, <5>1, <5>2, ClientIs
      <4>1. CASE Page(s.request).how = "early"
        <5>1. Early
          BY <4>1 DEF Early, Pages
        <5>2. client.body = 0
          BY <2>1, <5>1 DEF Bad, Numbers
        <5>3. Len(client.unsent) = 0
          BY <1>5, <3>2, <4>0, <5>2
        <5> QED
          BY <4>0, <5>3
      <4>2. CASE IsCompleted(s.receiver)
        <5>1. client.length <= s.receiver.received
          BY <3>2, <4>2 DEF IsCompleted
        <5>2. Len(client.unsent) = 0
          BY <1>5, <3>2, <4>0, <5>1
        <5> QED
          BY <4>0, <5>2
      <4> QED
        BY <4>1, <4>2
    <3>5. server'.pending \/ down' # <<>> => client.unsent = <<>>
      <4>1. server'.pending => s.request \in Pages
        BY <1>3 DEF Servers
      <4>2. None \notin Pages
        BY DEF None, Pages
      <4> QED
        BY <1>3, <1>4, <3>1, <3>4, <4>1, <4>2
    <3>6. Asking(client)'
      <4>1. ~Has(client, "connected")'
        BY <1>3, <3>1 DEF Has
      <4>2. server'.open \/ server'.pending => down' = <<>> /\ ~eof'
        BY <1>4, <3>1
      <4>3. ~(server'.open /\ server'.pending)
        BY <1>4, <3>1
      <4>4. HeadsAre(server.temp, client.length)' /\ HeadsAre(up, client.length)'
            /\ HeadsAre(client.unsent, client.length)'
        BY <1>3, <3>1, <3>2 DEF HeadsAre
      <4>5. Stream(client)' = Len(s.temp) + Len(up') + Len(client.unsent)
        BY <1>3 DEF Stream
      <4> QED
        BY <1>3, <3>1, <3>2, <3>5, <4>1, <4>2, <4>3, <4>4, <4>5 DEF Asking
    <3>7. Heads(client)'
      <4>1. HeadFirst(down')
        BY <1>4, <3>1 DEF HeadFirst
      <4> QED
        BY <1>3, <3>1, <4>1 DEF Heads, HeadFirst, NoHeads
    <3> QED
      BY <1>3, <2>1, <3>3, <3>6, <3>7
  <2> QED
    BY <2>2, <2>3
<1>7. up' \in Flows /\ (server'.pending => server'.request # None)
  BY <1>3, <1>5 DEF Flows
<1> QED
  BY <1>0, <1>3, <1>6, <1>7, NetMoves

-----------------------------------------------------------------------------
(* Answers.                                                                *)

(* the handler is called: the answer was the only one for its request      *)
LEMMA RunAnswerKeeps ==
    ASSUME IInv, RunAnswer PROVE IInv'
<1>0. client \in Clients /\ setup \in Setups /\ Shut(client) /\ HttpTypes /\ setup.sync \in BOOLEAN
  BY Plainly, PagesAre DEF IInv
<1>1. client.tasks # <<>> /\ client.tasks[1][1] = "answer"
  BY DEF RunAnswer, Runs
<1>2. PICK t : t = client.tasks[1]
  OBVIOUS
<1>3. /\ client.tasks \in Seq(Tasks) /\ Len(client.tasks) \in Nat /\ 1 \in DOMAIN client.tasks
      /\ t[1] = "answer" /\ t[2] \in Int /\ t[3] \in Nat
      /\ DOMAIN client.tasks = 1..Len(client.tasks)
  <2>1. client.tasks \in Seq(Tasks) /\ Len(client.tasks) \in Nat /\ 1 \in DOMAIN client.tasks
        /\ DOMAIN client.tasks = 1..Len(client.tasks)
    BY <1>0, <1>1, ClientIs
  <2> QED
    BY <1>0, <1>1, <1>2, <2>1, TasksAre
<1>4. PICK x : x = IF client.response = None THEN <<>> ELSE client.receiver.data
  OBVIOUS
<1>5. x \in Flows
  <2>1. client.receiver.data \in Flows
    BY <1>0, ClientIs DEF Receivers
  <2> QED
    BY <1>4, <2>1, NoUnits
<1>6. PICK found : found = [code |-> t[2], page |-> client.response, data |-> x]
  OBVIOUS
<1>7. found \in Founds /\ found.code = t[2]
  <2>1. client.response \in Pages \cup {None}
    BY <1>0, ClientIs
  <2> QED
    BY <1>3, <1>5, <1>6, <2>1 DEF Founds
<1>8. PICK b \in BOOLEAN : b <=> (t[3] = client.asked)
  OBVIOUS
<1>9. PICK a : a = [found |-> found, request |-> t[3], latest |-> (t[3] = client.asked),
                    method |-> client.method]
  OBVIOUS
<1>10. a \in Answers /\ a.request = t[3] /\ a.found.code = t[2]
  <2>1. client.method \in Methods
    BY <1>0, ClientIs
  <2>2. (t[3] = client.asked) \in BOOLEAN
    OBVIOUS
  <2> QED
    BY <1>3, <1>7, <1>9, <2>1, <2>2 DEF Answers
<1>11. /\ answers' = Append(answers, a) /\ result' = (IF setup.sync THEN found ELSE result)
       /\ client' = (IF setup.sync THEN [Popped(client) EXCEPT !.response = None] ELSE Popped(client))
       /\ UNCHANGED <<setup, netVars, caller>>
  BY <1>2, <1>4, <1>6, <1>9 DEF RunAnswer
<1>12. PICK p : p = Popped(client)
  OBVIOUS
<1>13. /\ p \in Clients /\ Kept(client, p) /\ Linking(client, p) /\ p.running = client.running
       /\ p.tasks = Tail(client.tasks)
  BY <1>0, <1>1, <1>12, PoppedIs
<1>14. PICK d : d = client'
  OBVIOUS
<1>15. /\ d \in Clients /\ Linking(client, d) /\ d.running = client.running /\ d.tasks = p.tasks
       /\ d.asked = client.asked /\ d.body = client.body /\ d.length = client.length
       /\ d.temp = client.temp /\ d.method = client.method /\ d.receiver = client.receiver
       /\ (d.response = client.response \/ (setup.sync /\ d.response = None))
  <2>1. CASE setup.sync
    <3>1. d = [p EXCEPT !.response = None]
      BY <1>11, <1>12, <1>14, <2>1
    <3>2. None \in Pages \cup {None}
      OBVIOUS
    <3>3. /\ d \in Clients /\ Linking(p, d) /\ d.running = p.running /\ d.tasks = p.tasks
          /\ d.asked = p.asked /\ d.body = p.body /\ d.method = p.method
          /\ d.length = p.length
          /\ d.response = None /\ d.temp = p.temp /\ d.receiver = p.receiver
      BY <1>13, <3>1, <3>2, ResponseSet
    <3> QED
      BY <1>13, <2>1, <3>3 DEF Kept, Linking
  <2>2. CASE ~setup.sync
    <3>1. d = p
      BY <1>11, <1>12, <1>14, <2>2
    <3> QED
      BY <1>13, <3>1 DEF Kept, Linking
  <2> QED
    BY <2>1, <2>2
<1>16. /\ setup' = setup /\ up' = up /\ down' = down /\ eof' = eof /\ server' = server /\ caller' = caller
  BY <1>11 DEF netVars
<1>17. HttpTypes'
  <2>1. answers' \in Seq(Answers)
    BY <1>0, <1>10, <1>11 DEF HttpTypes
  <2>2. result' \in Founds
    BY <1>0, <1>7, <1>11 DEF HttpTypes
  <2>3. d.conn # "open" => d.unsent = <<>>
    BY <1>0, <1>15 DEF Shut, Linking
  <2> QED
    BY <1>0, <1>14, <1>15, <1>16, <2>1, <2>2, <2>3 DEF HttpTypes
<1>18. EInv'
  <2>1. Bad' <=> Bad
    BY <1>16 DEF Bad, Early, Page
  <2> SUFFICES ASSUME ~Bad PROVE (Tidy(client) /\ Over(client) /\ Asking(client) /\ Heads(client))'
    BY <2>1 DEF EInv
  <2>2. /\ Queue(client) /\ Numbers(client) /\ Once(client) /\ Linked(client) /\ Over(client)
        /\ Asking(client) /\ Heads(client)
    BY DEF IInv, EInv, Tidy, Queue
  <2>3. Queue(p) /\ \A nm : Has(p, nm) => Has(client, nm)
    BY <1>0, <1>1, <1>12, <2>2, PoppedQueue
  <2>4. /\ DOMAIN answers = 1..Len(answers) /\ Len(answers) \in Nat
        /\ DOMAIN answers' = 1..(Len(answers) + 1) /\ answers'[Len(answers) + 1] = a
        /\ \A i \in DOMAIN answers : answers'[i] = answers[i]
    <3>1. answers \in Seq(Answers)
      BY <1>0 DEF HttpTypes
    <3> QED
      BY <1>10, <1>11, <3>1
  <2>5. \A i \in DOMAIN answers' : i \in Nat /\ \/ i \in DOMAIN answers /\ answers'[i] = answers[i]
                                                \/ i = Len(answers) + 1 /\ answers'[i] = a
    BY <2>4
  <2>6. \A i, j \in DOMAIN answers' : i < j => i \in DOMAIN answers /\ answers'[i] = answers[i]
    BY <2>4
  <2>7. \A i \in DOMAIN d.tasks : i \in Nat /\ i + 1 \in DOMAIN client.tasks /\ 1 < i + 1
                                  /\ d.tasks[i] = client.tasks[i + 1]
    <3>1. DOMAIN d.tasks = 1..(Len(client.tasks) - 1)
          /\ \A i \in DOMAIN d.tasks : d.tasks[i] = client.tasks[i + 1]
      BY <1>1, <1>3, <1>13, <1>15
    <3> QED
      BY <1>3, <3>1
  <2>8. Numbers(client)'
    <3>1. a.request <= d.asked
      BY <1>2, <1>3, <1>10, <1>15, <2>2 DEF Numbers
    <3>2. \A i \in DOMAIN answers' : answers'[i].request <= d.asked
      BY <1>15, <2>2, <2>5, <3>1 DEF Numbers
    <3>3. \A i \in DOMAIN d.tasks : d.tasks[i][3] <= d.asked
      BY <1>15, <2>2, <2>7 DEF Numbers
    <3> QED
      BY <1>14, <1>15, <1>16, <2>2, <3>2, <3>3 DEF Numbers
  <2>9. Once(client)'
    <3>1. \A k : Again(k)' <=> Again(k)
      BY <1>16 DEF Again
    <3>2. \A i, j \in DOMAIN answers' :
             i < j /\ answers'[i].request = answers'[j].request => Again(answers'[j].found.code)
      <4>1. \A i, j \in DOMAIN answers :
             i < j /\ answers[i].request = answers[j].request => Again(answers[j].found.code)
        BY <2>2 DEF Once
      <4>2. \A i \in DOMAIN answers : answers[i].request = a.request => Again(a.found.code)
        BY <1>2, <1>3, <1>10, <2>2 DEF Once
      <4> QED
        BY <2>5, <2>6, <4>1, <4>2
    <3>3. \A i \in DOMAIN answers', j \in DOMAIN d.tasks :
             d.tasks[j][1] = "answer" /\ d.tasks[j][3] = answers'[i].request => Again(d.tasks[j][2])
      <4>1. \A i \in DOMAIN answers, j \in DOMAIN d.tasks :
             d.tasks[j][1] = "answer" /\ d.tasks[j][3] = answers[i].request => Again(d.tasks[j][2])
        BY <2>2, <2>7 DEF Once
      <4>2. \A j \in DOMAIN d.tasks :
             d.tasks[j][1] = "answer" /\ d.tasks[j][3] = a.request => Again(d.tasks[j][2])
        BY <1>2, <1>3, <1>10, <2>2, <2>7 DEF Once
      <4> QED
        BY <2>5, <4>1, <4>2
    <3>4. \A i, j \in DOMAIN d.tasks :
             i < j /\ d.tasks[i][1] = "answer" /\ d.tasks[j][1] = "answer"
                   /\ d.tasks[i][3] = d.tasks[j][3] => Again(d.tasks[j][2])
      BY <1>15, <2>3 DEF Queue, Once
    <3>5. d.running =>
             /\ \A i \in DOMAIN answers' : answers'[i].request # d.asked
             /\ \A j \in DOMAIN d.tasks : d.tasks[j][1] = "answer" => d.tasks[j][3] # d.asked
      <4>1. d.running => a.request # d.asked
        BY <1>2, <1>3, <1>10, <1>15, <2>2 DEF Once
      <4>2. d.running => \A i \in DOMAIN answers : answers[i].request # d.asked
        BY <1>15, <2>2 DEF Once
      <4>3. d.running => \A j \in DOMAIN d.tasks : d.tasks[j][1] = "answer" => d.tasks[j][3] # d.asked
        BY <1>15, <2>2, <2>7 DEF Once
      <4> QED
        BY <2>5, <4>1, <4>2, <4>3
    <3> QED
      BY <1>14, <3>1, <3>2, <3>3, <3>4, <3>5 DEF Once
  <2>10. Turn(client)'
    BY <1>14, <1>15, <2>3 DEF Queue, Turn
  <2>11. \A nm : Has(client, nm)' => Has(client, nm)
    BY <1>14, <1>15, <2>3 DEF Has
  <2>12. Linked(client)'
    BY <1>14, <1>15, <2>2, <2>11 DEF Linked, Linking
  <2>13. Over(client)'
    BY <1>14, <1>15, <1>16, <2>2, <2>11 DEF Over, Linking, IsResponseCompleted
  <2>14. Asking(client)'
    BY <1>14, <1>15, <1>16, <2>2, <2>11 DEF Asking, Linking, Stream, HeadsAre
  <2>15. Heads(client)'
    BY <1>14, <1>15, <1>16, <2>2 DEF Heads, Linking, HeadFirst, NoHeads
  <2> QED
    BY <2>8, <2>9, <2>10, <2>12, <2>13, <2>14, <2>15 DEF Tidy, Queue
<1> QED
  BY <1>17, <1>18 DEF IInv

(* units without the beginning of a head hold no head                      *)
LEMMA NoHeadLength ==
    ASSUME NEW u \in Seq(Units), NoHeads(u) PROVE HeadLength(u) = 0
<1>1. Len(u) >= 2 => 1 \in DOMAIN u
  OBVIOUS
<1> QED
  BY <1>1 DEF NoHeads, HeadLength

(* a request that may end may still do so when more was received           *)
LEMMA ReadySame ==
    ASSUME NEW c, NEW b, Alike(c, b), Queue(c), ~Has(c, "connected"), ~Has(c, "sent"),
           c.conn # "connecting", c.conn = "open" => ~Has(c, "close"), b.temp = <<>>
    PROVE  \A code : (c.running \/ Again(code)) /\ (code = 0 => c.running) => Ready(b, code)
<1>1. Queue(b) /\ \A nm : Has(b, nm) <=> Has(c, nm)
  BY AlikeQueue
<1>2. b.conn = c.conn /\ b.running = c.running
  BY DEF Alike, Linking
<1> QED
  BY <1>1, <1>2 DEF Ready

(* what the client has become when it has heard units of an answer         *)
Heard(c, d) ==
    /\ d \in Clients /\ Shut(d) /\ Tidy(d)
    /\ d.conn = "open" =>
          /\ c.conn = "open" /\ d.unsent = c.unsent /\ d.length = c.length
          /\ HeadFirst(d.temp) /\ ~Has(d, "connected")
          /\ ~d.running => NoHeads(d.temp)
    /\ ~d.running /\ (d.conn = "open" \/ Has(d, "close")) =>
          IsResponseCompleted(d) \/ (setup.sync /\ d.response = None)

(* What a client hears keeps its tasks in order: a request that has ended  *)
(* hears nothing of an answer, for the units that are left hold no head.   *)
LEMMA HeardKeeps ==
    ASSUME setup \in Setups, NEW c \in Clients, NEW u \in Flows, Shut(c),
           Queue(c), ~Has(c, "connected"), ~Has(c, "sent"), c.conn # "connecting",
           c.conn = "open" => ~Has(c, "close"), HeadFirst(u),
           ~c.running => setup.sync /\ c.response = None /\ NoHeads(u),
           NEW d, d = OnHttpResponse(c, u)
    PROVE  Heard(c, d)
<1>1. d \in Clients /\ Shut(d)
  BY HeardIs
<1>2. \/ \E b \in Clients :
                   /\ Alike(c, b) /\ b.response = None /\ b.temp = <<>>
                   /\ c.response = None /\ d = OnResponse(b, -8501)
      \/ /\ Alike(c, d) /\ d.response = None /\ d.temp = u
         /\ c.response = None /\ HeadLength(u) = 0
      \/ \E b \in Clients :
                   /\ Alike(c, b) /\ b.response \in Pages /\ b.temp = <<>>
                   /\ c.response = None => HeadLength(u) # 0
                   /\ \/ d = b
                      \/ d = OnResponse(b, -8502)
                      \/ d = OnResponse(b, 0) /\ IsResponseCompleted(b)
  BY HeardIs
<1>n. None \notin Pages /\ NoHeads(<<>>) /\ HeadFirst(<<>>)
  BY DEF None, Pages, NoHeads, HeadFirst
<1>3. ASSUME NEW b \in Clients, Alike(c, b), b.temp = <<>>
      PROVE  /\ Shut(b) /\ Queue(b) /\ \A nm : Has(b, nm) <=> Has(c, nm)
             /\ \A code : (c.running \/ Again(code)) /\ (code = 0 => c.running) => Ready(b, code)
             /\ b.conn = c.conn /\ b.unsent = c.unsent /\ b.running = c.running /\ b.length = c.length
  <2>1. Shut(b) /\ Queue(b) /\ \A nm : Has(b, nm) <=> Has(c, nm)
    BY <1>3, AlikeQueue
  <2>2. \A code : (c.running \/ Again(code)) /\ (code = 0 => c.running) => Ready(b, code)
    BY <1>3, ReadySame
  <2>3. b.conn = c.conn /\ b.unsent = c.unsent /\ b.running = c.running /\ b.length = c.length
    BY <1>3 DEF Alike, Linking
  <2> QED
    BY <2>1, <2>2, <2>3
<1>4. ASSUME NEW b \in Clients, Alike(c, b), b.temp = <<>>, NEW code \in Int, code # 0,
             c.running \/ Again(code), d = OnResponse(b, code)
      PROVE  Heard(c, d)
  <2>1. Shut(b) /\ Ready(b, code)
    BY <1>3, <1>4
  <2>2. Outcome(b, d, code)
    BY <1>4, <2>1, Responds
  <2>3. Tidy(d) /\ d.conn # "open" /\ (~d.running => ~Has(d, "close"))
    BY <1>4, <2>2 DEF Outcome
  <2> QED
    BY <1>1, <2>3 DEF Heard
<1>5. ASSUME NEW b \in Clients, Alike(c, b), b.response = None, b.temp = <<>>,
             d = OnResponse(b, -8501)
      PROVE  Heard(c, d)
  <2>1. PICK k : k = -8501
    OBVIOUS
  <2>2. k \in Int /\ k # 0 /\ (c.running \/ Again(k)) /\ d = OnResponse(b, k)
    BY <1>5, <2>1 DEF Again
  <2> QED
    BY <1>4, <1>5, <2>2
<1>6. ASSUME Alike(c, d), d.response = None, d.temp = u, c.response = None
      PROVE  Heard(c, d)
  <2>1. Queue(d) /\ \A nm : Has(d, nm) <=> Has(c, nm)
    BY <1>6, AlikeQueue
  <2>2. d.conn = c.conn /\ d.unsent = c.unsent /\ d.running = c.running /\ d.length = c.length
    BY <1>6 DEF Alike, Linking
  <2>3. Linked(d)
    BY <1>1, <1>6, <2>1, <2>2, ClientIs DEF Linked
  <2> QED
    BY <1>1, <1>6, <2>1, <2>2, <2>3 DEF Heard, Tidy
<1>7. ASSUME NEW b \in Clients, Alike(c, b), b.response \in Pages, b.temp = <<>>,
             c.response = None => HeadLength(u) # 0,
             \/ d = b
             \/ d = OnResponse(b, -8502)
             \/ d = OnResponse(b, 0) /\ IsResponseCompleted(b)
      PROVE  Heard(c, d)
  <2>1. c.running
    <3>1. u \in Seq(Units)
      BY DEF Flows
    <3> QED
      BY <1>7, <3>1, NoHeadLength
  <2>2. CASE d = b
    <3>1. /\ Queue(b) /\ \A nm : Has(b, nm) <=> Has(c, nm)
          /\ b.conn = c.conn /\ b.unsent = c.unsent /\ b.running = c.running /\ b.length = c.length
      BY <1>3, <1>7
    <3>2. Linked(b)
      BY <1>7, <3>1, ClientIs DEF Linked
    <3> QED
      BY <1>1, <1>7, <1>n, <2>1, <2>2, <3>1, <3>2 DEF Heard, Tidy
  <2>3. CASE d = OnResponse(b, -8502)
    <3>1. PICK k : k = -8502
      OBVIOUS
    <3>2. k \in Int /\ k # 0 /\ d = OnResponse(b, k)
      BY <2>3, <3>1
    <3> QED
      BY <1>4, <1>7, <2>1, <3>2
  <2>4. CASE d = OnResponse(b, 0) /\ IsResponseCompleted(b)
    <3>1. PICK k : k = 0
      OBVIOUS
    <3>a. /\ Shut(b)
          /\ \A code : (c.running \/ Again(code)) /\ (code = 0 => c.running) => Ready(b, code)
      BY <1>3, <1>7
    <3>b. Ready(b, k)
      BY <2>1, <3>a
    <3>c. k \in Int /\ d = OnResponse(b, k) /\ b.response \in Pages
      BY <1>7, <2>4, <3>1
    <3>2. k \in Int /\ d = OnResponse(b, k) /\ b.response \in Pages /\ Shut(b) /\ Ready(b, k)
      BY <3>a, <3>b, <3>c
    <3>3. Outcome(b, d, k)
      BY <1>7, <3>2, Responds
    <3>4. Tidy(d)
      BY <3>3 DEF Outcome
    <3>5. CASE d.running /\ d.conn = "connecting"
      BY <1>1, <3>4, <3>5 DEF Heard
    <3>6. CASE /\ ~d.running /\ Kept(b, d) /\ Linking(b, d)
               /\ \A nm : Has(d, nm) => Has(b, nm) \/ nm = "answer"
      <4>1. d.temp = <<>> /\ d.conn = c.conn /\ d.unsent = c.unsent /\ d.length = c.length
        BY <1>3, <1>7, <3>6 DEF Kept, Linking
      <4>2. IsResponseCompleted(d)
        BY <2>4, <3>6 DEF Kept, IsResponseCompleted
      <4>3. ~Has(d, "connected")
        BY <1>3, <1>7, <3>6
      <4> QED
        BY <1>1, <1>n, <3>4, <4>1, <4>2, <4>3 DEF Heard
    <3> QED
      BY <3>1, <3>3, <3>5, <3>6 DEF Outcome
  <2> QED
    BY <1>7, <2>2, <2>3, <2>4
<1> QED
  BY <1>2, <1>5, <1>6, <1>7

(* a connection that is open, or was when the units came                   *)
Receiving(c) ==
    /\ c \in Clients /\ Shut(c) /\ Kept(client, c) /\ c.running = client.running
    /\ c.conn \in {"none", "open"}
    /\ c.conn = "open" => c.unsent = client.unsent

(* the client whose receive task runs, before or after the end was seen    *)
LEMMA ReceivingIs ==
    ASSUME HttpTypes, client.conn = "open", Runs("receive"),
           NEW p, p = Popped(client), NEW c, c = p \/ c = OnChannelClosed(p)
    PROVE  /\ Receiving(c)
           /\ Tidy(client) => /\ Queue(c) /\ ~Has(c, "sent") /\ Linked(c)
                              /\ Has(c, "connected") => Has(client, "connected")
                              /\ c.conn = "open" => ~Has(c, "close")
<1>0. client \in Clients /\ setup \in Setups /\ Shut(client) /\ client.tasks # <<>>
  BY Plainly DEF Runs
<1>1. p \in Clients /\ Kept(client, p) /\ Linking(client, p) /\ p.running = client.running
  BY <1>0, PoppedIs
<1>2. p.conn = "open" /\ p.unsent = client.unsent
  BY <1>1 DEF Linking
<1>3. ASSUME Tidy(client)
      PROVE  /\ Queue(client) /\ Linked(client) /\ ~Has(client, "close") /\ ~Has(client, "sent")
             /\ Queue(p) /\ \A nm : Has(p, nm) => Has(client, nm)
  <2>1. Queue(client) /\ Linked(client) /\ ~Has(client, "close") /\ ~Has(client, "sent")
    BY <1>3 DEF Tidy, Linked
  <2>2. Queue(p) /\ \A nm : Has(p, nm) => Has(client, nm)
    BY <1>0, <2>1, PoppedQueue
  <2> QED
    BY <2>1, <2>2
<1>4. CASE c = p
  <2>1. Receiving(c)
    BY <1>1, <1>2, <1>4 DEF Receiving, Shut
  <2>2. Tidy(client) => Linked(c)
    BY <1>1, <1>2, <1>3, <1>4 DEF Linked, Kept
  <2> QED
    BY <1>3, <1>4, <2>1, <2>2
<1>5. CASE c = OnChannelClosed(p)
  <2>1. /\ c \in Clients /\ Shut(c) /\ Kept(p, c) /\ c.running = p.running
        /\ c.conn = "none"
        /\ Queue(p) /\ ~Has(p, "close") =>
                Queue(c) /\ \A nm : Has(c, nm) => Has(p, nm) \/ nm = "close"
    BY <1>1, <1>5, Closes
  <2>2. Receiving(c)
    BY <1>1, <2>1 DEF Receiving, Kept
  <2>3. Tidy(client) => /\ Queue(c) /\ ~Has(c, "sent")
                        /\ Has(c, "connected") => Has(client, "connected")
    BY <1>3, <2>1
  <2>4. Tidy(client) => Linked(c)
    BY <1>1, <1>3, <2>1, <2>3 DEF Linked, Kept
  <2> QED
    BY <2>1, <2>2, <2>3, <2>4
<1> QED
  BY <1>4, <1>5

(* onTcpReceive, with any number of units, and the end of the stream seen  *)
(* before, after, or not yet                                               *)
LEMMA RunReceiveKeeps ==
    ASSUME IInv, client.conn = "open", NEW n \in 0..Len(down), RunReceive(n) PROVE IInv'
<1>0. client \in Clients /\ setup \in Setups /\ Shut(client) /\ HttpTypes
  BY Plainly DEF IInv
<1>1. PICK v, w : v = SubSeq(down, 1, n) /\ w = SubSeq(down, n + 1, Len(down))
  OBVIOUS
<1>2. down \in Seq(Units) /\ Len(down) \in Nat
  BY <1>0, FlowsAre
<1>3. /\ v \in Seq(Units) /\ w \in Seq(Units) /\ Len(v) = n /\ Len(w) = Len(down) - n
      /\ NoHeads(down) => NoHeads(v) /\ NoHeads(w)
      /\ HeadFirst(down) => HeadFirst(v) /\ HeadFirst(w) /\ (n > 0 => NoHeads(w))
  BY <1>1, <1>2, CutUnits
<1>4. PICK end :
         LET c == IF end = "before" THEN OnChannelClosed(Popped(client))
                  ELSE Popped(client)
             d == IF n = 0 \/ IsResponseCompleted(c) THEN c
                  ELSE OnHttpResponse(c, c.temp \o v)
         IN  client' = IF end = "after" /\ d.conn = "open"
                       THEN OnChannelClosed(d) ELSE d
  BY <1>1 DEF RunReceive
<1>5. Runs("receive") /\ down' = w /\ UNCHANGED <<setup, callerVars>>
      /\ up' = up /\ eof' = eof /\ server' = server
  BY <1>1 DEF RunReceive
<1>6. PICK p : p = Popped(client)
  OBVIOUS
<1>7. PICK c : c = IF end = "before" THEN OnChannelClosed(p) ELSE p
  OBVIOUS
<1>8. PICK u : u = c.temp \o v
  OBVIOUS
<1>9. PICK d : d = IF n = 0 \/ IsResponseCompleted(c) THEN c ELSE OnHttpResponse(c, u)
  OBVIOUS
<1>10. client' = IF end = "after" /\ d.conn = "open" THEN OnChannelClosed(d) ELSE d
  BY <1>4, <1>6, <1>7, <1>8, <1>9
<1>11. c = p \/ c = OnChannelClosed(p)
  BY <1>7
<1>12. /\ Receiving(c)
       /\ Tidy(client) => /\ Queue(c) /\ ~Has(c, "sent") /\ Linked(c)
                          /\ Has(c, "connected") => Has(client, "connected")
                          /\ c.conn = "open" => ~Has(c, "close")
  BY <1>0, <1>5, <1>6, <1>11, ReceivingIs
<1>13. /\ c \in Clients /\ Shut(c) /\ Kept(client, c) /\ c.running = client.running
       /\ c.conn \in {"none", "open"} /\ (c.conn = "open" => c.unsent = client.unsent)
  BY <1>12 DEF Receiving
<1>14. /\ c.temp = client.temp /\ c.response = client.response /\ c.length = client.length
       /\ c.body = client.body /\ c.method = client.method /\ c.receiver = client.receiver
  BY <1>13 DEF Kept
<1>15. /\ u \in Seq(Units) /\ u \in Flows
       /\ NoHeads(c.temp) /\ NoHeads(v) => NoHeads(u)
       /\ HeadFirst(c.temp) /\ c.temp # <<>> /\ NoHeads(v) => HeadFirst(u)
       /\ HeadFirst(v) /\ c.temp = <<>> => HeadFirst(u)
  <2>1. c.temp \in Seq(Units)
    BY <1>13, ClientIs
  <2>2. /\ u \in Seq(Units)
        /\ NoHeads(c.temp) /\ NoHeads(v) => NoHeads(u)
        /\ HeadFirst(c.temp) /\ c.temp # <<>> /\ NoHeads(v) => HeadFirst(u)
        /\ HeadFirst(v) /\ c.temp = <<>> => HeadFirst(u)
    BY <1>3, <1>8, <2>1, JoinUnits
  <2> QED
    BY <2>2 DEF Flows
<1>16. d \in Clients /\ Shut(d)
  <2>1. CASE n = 0 \/ IsResponseCompleted(c)
    BY <1>9, <1>13, <2>1
  <2>2. CASE ~(n = 0 \/ IsResponseCompleted(c))
    <3>1. d = OnHttpResponse(c, u)
      BY <1>9, <2>2
    <3> QED
      BY <1>0, <1>13, <1>15, <3>1, HeardIs
  <2> QED
    BY <2>1, <2>2
<1>17. client' \in Clients /\ Shut(client')
  BY <1>10, <1>16, Closes
<1>18. ASSUME ~Bad
       PROVE  /\ Tidy(d) /\ Over(d)
              /\ client' = d => Asking(client)' /\ Heads(client)'
  <2>1. Tidy(client) /\ Linked(client) /\ Over(client) /\ Asking(client) /\ Heads(client)
    BY <1>18 DEF IInv, EInv, Tidy
  <2>2. /\ Queue(c) /\ ~Has(c, "sent") /\ Linked(c) /\ Tidy(c)
        /\ Has(c, "connected") => Has(client, "connected")
        /\ c.conn = "open" => ~Has(c, "close")
    BY <1>12, <2>1 DEF Tidy
  <2>3. IsResponseCompleted(c) <=> IsResponseCompleted(client)
    BY <1>14 DEF IsResponseCompleted
  <2>4. CASE n = 0 \/ IsResponseCompleted(c)
    <3>1. d = c
      BY <1>9, <2>4
    <3>2. Over(c)
      BY <1>13, <1>14, <2>1, <2>3 DEF Over
    <3>3. down = <<>> => w = <<>>
      BY <1>2, <1>3
    <3>4. (n = 0 => w = down) /\ (client.response # None /\ n # 0 => ~Has(client, "connected"))
      <4>1. n = 0 => w = down
        BY <1>1, <1>2
      <4>2. client.response # None => ~Has(client, "connected")
        BY <2>1 DEF Asking
      <4> QED
        BY <4>1, <4>2
    <3>5. ASSUME client' = d PROVE Asking(client)' /\ Heads(client)'
      <4>1. /\ client'.conn = c.conn /\ client'.running = client.running /\ client'.temp = client.temp
            /\ client'.response = client.response /\ client'.length = client.length
            /\ client'.body = client.body
            /\ (c.conn = "open" => client'.unsent = client.unsent)
        BY <1>13, <1>14, <3>1, <3>5
      <4>2. Has(client, "connected")' => Has(client, "connected")
        <5>1. Has(client', "connected") => Has(client, "connected")
          BY <2>2, <3>1, <3>5
        <5>2. Has(client, "connected")' <=> Has(client', "connected")
          BY DEF Has
        <5> QED
          BY <5>1, <5>2
      <4>3. Asking(client)'
        BY <1>5, <2>1, <3>3, <4>1, <4>2 DEF Asking, Stream, HeadsAre
      <4>4. Heads(client)'
        <5>1. /\ HeadFirst(client.temp) /\ HeadFirst(w)
              /\ client.response # None \/ ~client.running \/ client.temp # <<>> => NoHeads(w)
              /\ ~client.running => NoHeads(client.temp)
          BY <1>3, <2>1 DEF Heads
        <5> QED
          BY <1>5, <4>1, <5>1 DEF Heads, HeadFirst, NoHeads
      <4> QED
        BY <4>3, <4>4
    <3> QED
      BY <2>2, <3>1, <3>2, <3>5
  <2>5. CASE ~(n = 0 \/ IsResponseCompleted(c))
    <3>1. d = OnHttpResponse(c, u) /\ n > 0 /\ down # <<>>
      BY <1>2, <1>9, <2>5
    <3>2. /\ ~Has(client, "connected") /\ ~server.open /\ ~server.pending /\ client.unsent = <<>>
          /\ HeadsAre(server.temp, client.length) /\ HeadsAre(up, client.length)
      BY <2>1, <3>1 DEF Asking
    <3>3. /\ HeadFirst(client.temp) /\ HeadFirst(v) /\ NoHeads(w)
          /\ client.response # None \/ ~client.running \/ client.temp # <<>> => NoHeads(v)
          /\ ~client.running => NoHeads(client.temp)
      BY <1>3, <2>1, <3>1 DEF Heads
    <3>4. HeadFirst(u)
      BY <1>14, <1>15, <3>3
    <3>5. ~c.running => setup.sync /\ c.response = None /\ NoHeads(u)
      BY <1>13, <1>14, <1>15, <2>1, <2>3, <2>5, <3>3 DEF Over
    <3>6. ~Has(c, "connected") /\ c.conn # "connecting"
      BY <1>13, <2>2, <3>2
    <3>7. Heard(c, d)
      BY <1>0, <1>13, <1>15, <2>2, <3>1, <3>4, <3>5, <3>6, HeardKeeps
    <3>8. /\ Tidy(d)
          /\ d.conn = "open" =>
                /\ d.unsent = <<>> /\ d.length = client.length
                /\ HeadFirst(d.temp) /\ ~Has(d, "connected")
                /\ ~d.running => NoHeads(d.temp)
          /\ ~d.running /\ (d.conn = "open" \/ Has(d, "close")) =>
                IsResponseCompleted(d) \/ (setup.sync /\ d.response = None)
      BY <1>13, <1>14, <3>2, <3>7 DEF Heard
    <3>9. Over(d)
      BY <3>2, <3>8 DEF Over
    <3>10. ASSUME client' = d PROVE Asking(client)' /\ Heads(client)'
      <4>1. d.conn = "open" => ~Has(client, "connected")'
        BY <3>8, <3>10 DEF Has
      <4>2. Asking(client)'
        BY <1>5, <3>2, <3>8, <3>10, <4>1 DEF Asking, HeadsAre
      <4>3. Heads(client)'
        <5>1. HeadFirst(w)
          BY <3>3 DEF HeadFirst, NoHeads
        <5> QED
          BY <1>5, <3>3, <3>8, <3>10, <5>1 DEF Heads, HeadFirst, NoHeads
      <4> QED
        BY <4>2, <4>3
    <3> QED
      BY <3>8, <3>9, <3>10
  <2> QED
    BY <2>4, <2>5
<1>19. ~Bad => Tidy(client') /\ Over(client)' /\ Asking(client)' /\ Heads(client)'
  <2> SUFFICES ASSUME ~Bad PROVE Tidy(client') /\ Over(client)' /\ Asking(client)' /\ Heads(client)'
    OBVIOUS
  <2>1. Tidy(d) /\ Over(d) /\ (client' = d => Asking(client)' /\ Heads(client)')
    BY <1>18
  <2>2. Over(client') => Over(client)'
    BY <1>5 DEF Over, Has, IsResponseCompleted
  <2>3. CASE end = "after" /\ d.conn = "open"
    <3>1. client' = OnChannelClosed(d)
      BY <1>10, <2>3
    <3>2. client'.conn = "none" /\ Settled(client')
      BY <1>16, <2>1, <2>3, <3>1, Closes
    <3>3. Tidy(client') /\ Over(client')
      BY <3>2 DEF Settled
    <3>4. Asking(client)' /\ Heads(client)'
      BY <3>2 DEF Asking, Heads
    <3> QED
      BY <2>2, <3>3, <3>4
  <2>4. CASE ~(end = "after" /\ d.conn = "open")
    <3>1. client' = d
      BY <1>10, <2>4
    <3> QED
      BY <2>1, <2>2, <3>1
  <2> QED
    BY <2>3, <2>4
<1>20. /\ up' \in Flows /\ down' \in Flows /\ eof' \in BOOLEAN /\ server' \in Servers
       /\ (server'.pending => server'.request # None)
  BY <1>0, <1>3, <1>5 DEF HttpTypes, Flows
<1> QED
  BY <1>0, <1>5, <1>17, <1>19, <1>20, NetMoves

(* every step of the exchange                                              *)
LEMMA NextKeeps ==
    ASSUME IInv, HttpAssumption, HttpNext PROVE IInv'
<1>1. CASE Request
  BY <1>1, RequestKeeps
<1>2. CASE StopWaiting
  BY <1>2, StopWaitingKeeps
<1>3. CASE Connects
  BY <1>3, ConnectsKeeps
<1>4. CASE SeesData
  BY <1>4, SeesDataKeeps
<1>5. CASE SeesClose
  BY <1>5, SeesCloseKeeps
<1>6. CASE \E n \in 1..Len(client.unsent) : Sends(n)
  BY <1>6, SendsKeeps
<1>7. CASE RunConnected
  BY <1>7, RunConnectedKeeps
<1>8. CASE RunSent
  BY <1>8, RunSentKeeps
<1>9. CASE RunClose
  BY <1>9, RunCloseKeeps
<1>10. CASE RunAnswer
  BY <1>10, RunAnswerKeeps
<1>11. CASE RunStop
  BY <1>11, RunStopKeeps
<1>12. CASE client.conn = "open" /\ \E n \in 0..Len(down) : RunReceive(n)
  BY <1>12, RunReceiveKeeps
<1>13. CASE Runs("receive") /\ client.conn # "open"
              /\ client' = Popped(client) /\ UNCHANGED <<setup, netVars, callerVars>>
  BY <1>13, StaleKeeps
<1>14. CASE \E n \in 1..Len(up) : ServerReceives(n)
  BY <1>14, ServerReceivesKeeps
<1>15. CASE ServerAnswers
  BY <1>15, ServerAnswersKeeps
<1>16. CASE Breaks
  BY <1>16, BreaksKeeps
<1> QED
  BY <1>1, <1>2, <1>3, <1>4, <1>5, <1>6, <1>7, <1>8, <1>9, <1>10, <1>11, <1>12, <1>13,
     <1>14, <1>15, <1>16 DEF HttpNext

-----------------------------------------------------------------------------
(* The exchange and the upgrade.                                           *)

(* what leaves the exchange alone                                          *)
LEMMA Stutters ==
    ASSUME IInv, UNCHANGED httpVars PROVE IInv'
<1>0. client \in Clients /\ Shut(client) /\ HttpTypes /\ Settled(client)
  BY Plainly DEF IInv, EInv, Settled
<1>1. client' = client /\ UNCHANGED <<setup, netVars, callerVars>>
  BY DEF httpVars
<1>2. client' \in Clients /\ Shut(client') /\ Settled(client')
  BY <1>0, <1>1
<1> QED
  BY <1>0, <1>1, <1>2, ClientMoves

(* the invariant holds at first                                            *)
LEMMA InitIs ==
    ASSUME HttpAssumption, HttpInit PROVE IInv
<1>1. /\ setup \in Setups /\ up = <<>> /\ down = <<>> /\ eof = FALSE
      /\ server = FreshServer /\ answers = <<>> /\ caller = "waits"
  BY DEF HttpInit
<1>2. EmptyReceiver \in Receivers /\ <<>> \in Flows
  BY EmptyIs, NoUnits
<1>3. <<>> \in TaskLists /\ <<>> \in Seq(Answers)
  BY DEF TaskLists
<1>4. client \in Clients
  BY <1>2, <1>3 DEF HttpInit, Clients, Pages, Methods, None
<1>5. /\ client.conn = "none" /\ client.unsent = <<>> /\ client.tasks = <<>>
      /\ ~client.running /\ client.asked = 0 /\ client.body = 0 /\ client.temp = <<>>
  BY DEF HttpInit
<1>6. result \in Founds
  BY <1>2 DEF HttpInit, Founds
<1>7. HttpTypes
  BY <1>1, <1>2, <1>3, <1>4, <1>5, <1>6, FreshServerIs DEF HttpTypes
<1>8. Tidy(client)
  <2>1. Numbers(client)
    BY <1>1, <1>5 DEF Numbers
  <2>2. Once(client) /\ Turn(client)
    BY <1>1, <1>5 DEF Once, Turn
  <2>3. Linked(client)
    BY <1>5 DEF Linked, Has
  <2> QED
    BY <2>1, <2>2, <2>3 DEF Tidy, Queue
<1>9. Over(client) /\ Asking(client) /\ Heads(client)
  BY <1>5 DEF Over, Asking, Heads, Has
<1> QED
  BY <1>7, <1>8, <1>9 DEF IInv, EInv

(* every step of the exchange and of the two WsChannels                    *)
LEMMA UpgradeKeeps ==
    ASSUME IInv, HttpAssumption, [UpgradeNext]_upgradeVars PROVE IInv'
<1>1. CASE HttpStep
  BY <1>1, NextKeeps DEF HttpStep
<1>2. CASE UpgradeServer \/ UpgradeClient \/ WsStep
  BY <1>2, Stutters DEF UpgradeServer, UpgradeClient, WsStep
<1>3. CASE SeesFrames
  BY <1>3, SeesFramesKeeps
<1>4. CASE \E n \in 1..Len(wire["client"]) : DropFrames(n)
  BY <1>4, StaleKeeps DEF DropFrames
<1>5. CASE UNCHANGED upgradeVars
  BY <1>5, Stutters DEF upgradeVars
<1> QED
  BY <1>1, <1>2, <1>3, <1>4, <1>5 DEF UpgradeNext

(* The exchange keeps its invariant, with an upgrade to WebSocket or       *)
(* without one, for every number of requests and every size of a body.     *)
THEOREM Invariant ==
    UpgradeSpec => []IInv
<1>1. UpgradeInit => IInv
  BY HttpAssumption, InitIs DEF UpgradeInit
<1>2. IInv /\ [UpgradeNext]_upgradeVars => IInv'
  BY HttpAssumption, UpgradeKeeps
<1> QED
  BY <1>1, <1>2, PTL DEF UpgradeSpec

(* what the invariant says of the answers that were given                  *)
LEMMA FoundOnce ==
    ASSUME IInv PROVE OneAnswer
<1> SUFFICES ASSUME NEW i \in DOMAIN answers, NEW j \in DOMAIN answers,
                    i < j, answers[i].request = answers[j].request,
                    ~(Early /\ setup.method = "POST")
             PROVE  setup.sync /\ answers[j].found.code \in {-1, -8501}
  BY DEF OneAnswer
<1>1. Once(client)
  BY DEF IInv, EInv, Bad, Tidy, Queue
<1>2. Again(answers[j].found.code)
  BY <1>1 DEF Once
<1> QED
  BY <1>2 DEF Again

(* A request is answered once: the handler of HttpClient is not called     *)
(* again for a request it was called for, but for the two exceptions that  *)
(* OneAnswer names.  HttpClient::onResponse is reached from onTcpConnect,  *)
(* onTcpSend, onTcpReceive and onTcpClose, which are tasks that may have   *)
(* been posted for an earlier connection.                                  *)
THEOREM AnswersOnce == UpgradeSpec => []OneAnswer
<1>1. IInv => OneAnswer
  BY FoundOnce
<1> QED
  BY <1>1, Invariant, PTL

(* The client, the server, the tasks, and all that is on the wire keep     *)
(* their types; the client has nothing to send on a socket that it does    *)
(* not have.                                                               *)
THEOREM ExchangeTypes == UpgradeSpec => []HttpTypes
<1>1. IInv => HttpTypes
  BY DEF IInv
<1> QED
  BY <1>1, Invariant, PTL

-----------------------------------------------------------------------------
(* The WsChannels.  Of the frames that a side has begun to write, its peer *)
(* has taken some: they are accounted for by what it has handed over, what *)
(* it still hands over, and the fragments of a message without its end     *)
(* (Accounts).  The units of the others are on the line, which is its      *)
(* cache, if that was read before, and the wire (LinedOf); the last units  *)
(* of the last frame may still be missing there (Ends).  The two meet at   *)
(* one number, that of the frame taken last (Hears).  Behind a close frame *)
(* are only frames that had waited (Says); it is held back until the       *)
(* message that it interrupts is complete (Waits).  Frames that wait are   *)
(* in the order of the calls (InTurn), and what was written of the last    *)
(* frame is known as long as no other cuts into it (Writes).               *)

(* The units of the frames that a list S of frames sent by p holds         *)
UnitsIn(p, S) == {u \in (Nat \ {0}) \X (Nat \ {0}) : u[1] <= Len(S) /\ u[2] <= Size(p, S[u[1]])}

(* v is the next unit after u                                              *)
Follows(p, S, u, v) ==
    \/ u[2] < Size(p, S[u[1]]) /\ v = <<u[1], u[2] + 1>>
    \/ u[2] = Size(p, S[u[1]]) /\ v = <<u[1] + 1, 1>>

(* the units of q follow one another                                       *)
Chain(p, S, q) ==
    /\ q \in Seq(Nat \X Nat)
    /\ \A i \in 1..Len(q) : q[i] \in UnitsIn(p, S)
    /\ \A i \in 1..Len(q) : i < Len(q) => Follows(p, S, q[i], q[i + 1])

(* up to the last one that was written: r are missing of the last frame    *)
Ends(p, S, r, q) == q # <<>> => q[Len(q)] = <<Len(S), Size(p, S[Len(S)]) - r>>

(* The units that a side with the cache b, its position i and the units w  *)
(* on their way has not taken yet, or has taken and still keeps; the       *)
(* number of the last frame that it has taken, of the list S               *)
LineOf(b, i, w) == IF i > 0 THEN b \o w ELSE w
WholeOf(S, r) == IF r > 0 THEN Len(S) - 1 ELSE Len(S)
TakenOf(S, r, b, i, w) ==
    IF LineOf(b, i, w) = <<>> THEN WholeOf(S, r) ELSE LineOf(b, i, w)[i + 1][1] - 1
LinedOf(p, S, r, b, i, w) ==
    /\ Chain(p, S, LineOf(b, i, w)) /\ Ends(p, S, r, LineOf(b, i, w))
    /\ i > 0 => /\ i < Len(b) /\ b[i + 1][2] = 1
                /\ b[Len(b)][2] # Size(p, S[b[Len(b)][1]])
Taken(s) == TakenOf(sent[Peer(s)], rest[Peer(s)], buffer[s], position[s], wire[s])
Lined(s) == LinedOf(Peer(s), sent[Peer(s)], rest[Peer(s)], buffer[s], position[s], wire[s])

(* Frames of S: a message, a part of one, a frame that is alone            *)
Rising(q) == \A i, j \in DOMAIN q : i < j => q[i] < q[j]
Message(S, n, q) ==
    /\ q # <<>> /\ Rising(q)
    /\ \A i \in DOMAIN q : q[i] \in 1..n /\ S[q[i]].op = "data" /\ (S[q[i]].fin <=> i = Len(q))
Part(S, n, q) ==
    /\ Rising(q)
    /\ \A i \in DOMAIN q : q[i] \in 1..n /\ S[q[i]].op = "data" /\ ~S[q[i]].fin
Single(S, n, q) == Len(q) = 1 /\ q[1] \in 1..n /\ S[q[1]].op # "data"
IsMessage(S, q) == S[q[1]].op = "data"
Before(p, q) == \A i \in DOMAIN p, j \in DOMAIN q : p[i] < q[j]
Holds(q, k) == \E i \in DOMAIN q : q[i] = k

(* The list L of what was taken of the first n frames, and the fragments f *)
Sound(S, n, L) == \A m \in DOMAIN L : Message(S, n, L[m]) \/ Single(S, n, L[m])
InOrder(S, L) ==
    \A l, m \in DOMAIN L :
        l < m /\ IsMessage(S, L[l]) /\ IsMessage(S, L[m]) => Before(L[l], L[m])
Behind(S, L, f) == \A l \in DOMAIN L : IsMessage(S, L[l]) => Before(L[l], f)
Complete(S, n, L, f) ==
    \A k \in 1..n : S[k].op = "data" =>
        (\E m \in DOMAIN L : Holds(L[m], k)) \/ Holds(f, k)
Accounts(S, n, L, f) ==
    /\ L \in Seq(Seq(Nat)) /\ f \in Seq(Nat)
    /\ Sound(S, n, L) /\ Part(S, n, f)
    /\ InOrder(S, L) /\ Behind(S, L, f) /\ Complete(S, n, L, f)

(* The close frame c that side s holds back, of the first n frames; what   *)
(* it has made of them                                                     *)
HoldsBack(s, n, c) ==
    /\ c \in 0..n
    /\ c # 0 => sent[Peer(s)][c].op = "close"
    /\ \A k \in 1..n : sent[Peer(s)][k].op = "close" => closed[s] \/ c = k

(* Side s has taken the first n frames of its peer.                        *)
Heeds(s, n) ==
    /\ n \in 0..Len(sent[Peer(s)])
    /\ Accounts(sent[Peer(s)], n, got[s] \o batch[s], fragments[s])
    /\ \A m \in DOMAIN got[s] : IsMessage(sent[Peer(s)], got[s][m])
    /\ HoldsBack(s, n, closeFrame[s])
    /\ closed[s] => \E k \in 1..n : sent[Peer(s)][k].op = "close"

(* A close frame is held back for the end of a message, or comes last.     *)
Waits(s) ==
    closeFrame[s] # 0 /\ ~closed[s] =>
        \/ fragments[s] # <<>>
        \/ batch[s] # <<>> /\ batch[s][Len(batch[s])] = <<closeFrame[s]>>

(* Behind a close frame in S are only frames that had waited.              *)
Behaves(S, c) ==
    \A k \in DOMAIN S : S[k].op = "close" =>
        c /\ \A j \in DOMAIN S : k < j => S[j].how = "queued" /\ S[j].op # "close"
HasClose(S) == \E k \in DOMAIN S : S[k].op = "close"

(* A side that has closed knows so, and has sent its close frame, unless   *)
(* the kernel did not take it.                                             *)
Says(s) ==
    /\ Behaves(sent[s], sentClose[s])
    /\ sentClose[s] /\ alive => HasClose(sent[s]) \/ "close" \in lost[s] \/ torn[s]
    /\ closed[s] => sentClose[s]

(* What waits follows the frames S in the order of the calls, which number *)
(* c so far.                                                               *)
InTurnOf(S, Q, c) ==
    /\ \A m \in DOMAIN S : S[m].call <= c
    /\ \A m, n \in DOMAIN S :
          m < n /\ S[m].op = "data" /\ S[n].op = "data" /\ S[m].how = S[n].how
          => S[m].call < S[n].call
    /\ \A i \in DOMAIN Q : Q[i].how = "queued" /\ Q[i].op # "close" /\ Q[i].call <= c
    /\ \A i, j \in DOMAIN Q : i < j => Q[i].call < Q[j].call
    /\ \A m \in DOMAIN S, i \in DOMAIN Q :
          S[m].how = "queued" => S[m].call < Q[i].call
InTurn(s) == InTurnOf(sent[s], queue[s], calls[s])

(* what is missing of the last frame                                       *)
Missing(p, S, r, t) ==
    /\ r > 0 => S # <<>> /\ r < Size(p, S[Len(S)])
    /\ t => r > 0
Writes(s) ==
    /\ Missing(s, sent[s], rest[s], torn[s])
    /\ flushing[s] => ~torn[s] /\ (rest[s] > 0 \/ queue[s] # <<>>)

(* What was taken of the line is accounted for.                            *)
Hears(s) ==
    /\ alive /\ ~garbled[s] => Lined(s)
    /\ \E n \in 0..Len(sent[Peer(s)]) : Heeds(s, n) /\ (alive /\ ~garbled[s] => n = Taken(s))
    /\ Waits(s)

(* the types of the WsChannels, of what is sent and of what is received    *)
OutTypes ==
    /\ sent \in [Sides -> Seq(Frames)] /\ queue \in [Sides -> Seq(Frames)]
    /\ rest \in [Sides -> Nat] /\ calls \in [Sides -> Nat]
    /\ torn \in [Sides -> BOOLEAN] /\ flushing \in [Sides -> BOOLEAN]
    /\ lost \in [Sides -> SUBSET {"data", "ping", "pong", "close"}]
    /\ wire \in [Sides -> Seq(Nat \X Nat)] /\ sentClose \in [Sides -> BOOLEAN]
InTypes ==
    /\ buffer \in [Sides -> Seq(Nat \X Nat)]
    /\ position \in [Sides -> Nat] /\ \A s \in Sides : position[s] <= Len(buffer[s])
    /\ fragments \in [Sides -> Seq(Nat)] /\ closeFrame \in [Sides -> Nat]
    /\ closed \in [Sides -> BOOLEAN]
    /\ attached \in [Sides -> BOOLEAN] /\ garbled \in [Sides -> BOOLEAN]
    /\ batch \in [Sides -> Seq(Seq(Nat))] /\ got \in [Sides -> Seq(Seq(Nat))]
    /\ alive \in BOOLEAN
WsTypes == OutTypes /\ InTypes

(* the invariant of the WsChannels                                         *)
WInv == \A s \in Sides : Says(s) /\ Hears(s) /\ Writes(s) /\ InTurn(s)

-----------------------------------------------------------------------------
(* Units of frames, in a line.                                             *)

(* A frame has at least two units.                                         *)
LEMMA SizeIs ==
    ASSUME NEW p, NEW f \in Frames PROVE Size(p, f) \in Nat /\ Size(p, f) >= 2
<1>1. f.op \in {"data", "ping", "pong", "close"} /\ f.extended \in BOOLEAN
  BY WsAssumption DEF Frames
<1>2. Field(f.extended) \in {0, 2} /\ Field(p = "client") \in {0, 2}
  BY <1>1 DEF Field
<1>3. (CASE f.op = "data" -> 2 [] f.op = "close" -> 1 [] OTHER -> 0) \in {0, 1, 2}
  BY <1>1
<1> QED
  BY <1>2, <1>3 DEF Size, HeaderEnd, LengthEnd

(* a list with a frame more                                                *)
LEMMA GrownIs ==
    ASSUME NEW S \in Seq(Frames), NEW f \in Frames, NEW T, T = Append(S, f)
    PROVE  /\ T \in Seq(Frames) /\ Len(T) = Len(S) + 1 /\ T[Len(T)] = f
           /\ \A k \in 1..Len(S) : T[k] = S[k]
  OBVIOUS

(* Units of frames stay so when a frame more is sent.                      *)
LEMMA ChainGrows ==
    ASSUME NEW p, NEW S \in Seq(Frames), NEW f \in Frames, NEW T, T = Append(S, f),
           NEW q, Chain(p, S, q)
    PROVE  Chain(p, T, q)
<1>1. T \in Seq(Frames) /\ Len(T) = Len(S) + 1 /\ \A k \in 1..Len(S) : T[k] = S[k]
  BY GrownIs
<1>2. \A i \in 1..Len(q) : q[i] \in UnitsIn(p, S) /\ q[i][1] \in 1..Len(S)
  BY DEF Chain, UnitsIn
<1>3. Len(S) \in Nat
  OBVIOUS
<1>4. \A i \in 1..Len(q) : q[i] \in UnitsIn(p, T)
  BY <1>1, <1>2, <1>3 DEF UnitsIn
<1>5. \A i \in 1..Len(q) : i < Len(q) => Follows(p, T, q[i], q[i + 1])
  BY <1>1, <1>2 DEF Chain, Follows
<1> QED
  BY <1>4, <1>5 DEF Chain

(* The units of a part of the last frame are a chain of their own.         *)
Piece(p, T, r, u, n, from) ==
    Chain(p, T, u) /\ Ends(p, T, r, u) /\ u # <<>> /\ u[1] = <<n, from + 1>>

(* what UnitsOf gives                                                      *)
LEMMA PieceUnits ==
    ASSUME NEW p, NEW T \in Seq(Frames), NEW n \in Nat, n = Len(T), n # 0,
           NEW z \in Nat, z = Size(p, T[n]), NEW from \in Nat, NEW k \in Nat, k # 0,
           from + k <= z, NEW r, r = z - (from + k),
           NEW u, u = UnitsOf(n, from, from + k)
    PROVE  Piece(p, T, r, u, n, from)
<1>1. u = [i \in 1..k |-> <<n, from + i>>]
  <2>1. (from + k) - from = k
    OBVIOUS
  <2> QED
    BY <2>1 DEF UnitsOf
<1>2. u \in Seq(Nat \X Nat) /\ Len(u) = k /\ u # <<>> /\ \A i \in 1..k : u[i] = <<n, from + i>>
  <2>1. \A i \in 1..k : <<n, from + i>> \in Nat \X Nat
    OBVIOUS
  <2>2. u \in Seq(Nat \X Nat) /\ Len(u) = k
    BY <1>1, <2>1
  <2> QED
    BY <1>1, <2>2, SMTT(40)
<1>3. ASSUME NEW i \in 1..k PROVE u[i] \in UnitsIn(p, T)
  <2>1. n \in Nat \ {0} /\ from + i \in Nat \ {0} /\ from + i <= z /\ n <= Len(T)
    OBVIOUS
  <2>2. u[i] = <<n, from + i>>
    BY <1>2
  <2>3. u[i] \in (Nat \ {0}) \X (Nat \ {0}) /\ u[i][1] = n /\ u[i][2] = from + i
    BY ONLY <2>1, <2>2
  <2> QED
    BY <2>1, <2>3 DEF UnitsIn
<1>4. ASSUME NEW i \in 1..k, i < k
      PROVE  Follows(p, T, u[i], u[i + 1])
  <2>1. i \in Nat /\ i + 1 \in 1..k /\ from + i < z /\ from + (i + 1) = (from + i) + 1
    BY <1>4
  <2>2. u[i] = <<n, from + i>> /\ u[i + 1] = <<n, (from + i) + 1>>
    BY <1>2, <2>1
  <2>3. u[i][1] = n /\ u[i][2] = from + i /\ u[i + 1] = <<u[i][1], u[i][2] + 1>>
    BY ONLY <2>2
  <2>4. Size(p, T[u[i][1]]) = z
    BY <2>3
  <2> QED
    BY ONLY <2>1, <2>3, <2>4 DEF Follows
<1>5. u[1] = <<n, from + 1>> /\ u[Len(u)] = <<n, from + k>>
  BY <1>2, SMTT(40)
<1>6. Chain(p, T, u)
  BY <1>2, <1>3, <1>4 DEF Chain
<1>7. Ends(p, T, r, u)
  <2>1. z - r = from + k
    OBVIOUS
  <2> QED
    BY <1>5, <2>1 DEF Ends
<1> QED
  BY <1>2, <1>5, <1>6, <1>7 DEF Piece

(* The units u are written behind a line of the frames S, of which r units *)
(* are missing: they begin a frame more, or go on with the last one.       *)
Puts(p, S, r, T, r1, u) ==
    /\ Chain(p, T, u) /\ Ends(p, T, r1, u) /\ u # <<>>
    /\ \/ r = 0 /\ (\E f \in Frames : T = Append(S, f)) /\ u[1] = <<Len(S) + 1, 1>>
       \/ r > 0 /\ T = S /\ S # <<>> /\ u[1] = <<Len(S), (Size(p, S[Len(S)]) - r) + 1>>

(* the first units of a frame                                              *)
LEMMA BeginPuts ==
    ASSUME NEW p, NEW S \in Seq(Frames), NEW f \in Frames, NEW T, T = Append(S, f),
           NEW k \in Nat, k # 0, k <= Size(p, f), NEW r1, r1 = Size(p, f) - k,
           NEW u, u = UnitsOf(Len(S) + 1, 0, k)
    PROVE  Puts(p, S, 0, T, r1, u)
<1>1. PICK z \in Nat : z = Size(p, f)
  BY SizeIs
<1>2. PICK n \in Nat : n = Len(S) + 1 /\ n # 0
  OBVIOUS
<1>3. T \in Seq(Frames) /\ Len(T) = n /\ T[n] = f
  BY <1>2, GrownIs
<1>4. u = UnitsOf(n, 0, 0 + k) /\ r1 = z - (0 + k) /\ 0 + k <= z
  <2>1. 0 + k = k
    OBVIOUS
  <2> QED
    BY <1>1, <1>2, <2>1
<1>5. z = Size(p, T[n]) /\ n = Len(T) /\ 0 \in Nat /\ k \in Nat /\ k # 0
  BY <1>1, <1>3
<1>6. Piece(p, T, r1, u, n, 0)
  BY ONLY <1>2, <1>3, <1>4, <1>5, z \in Nat, n \in Nat, PieceUnits
<1>7. u[1] = <<n, 0 + 1>> /\ 0 + 1 = 1
  BY <1>6 DEF Piece
<1> QED
  BY <1>2, <1>6, <1>7 DEF Piece, Puts

(* more units of the last one                                              *)
LEMMA ContinuePuts ==
    ASSUME NEW p, NEW S \in Seq(Frames), S # <<>>, NEW n, n = Len(S), NEW r \in Nat,
           r < Size(p, S[n]), NEW k \in Nat, k # 0, k <= r,
           NEW from, from = Size(p, S[n]) - r, NEW r1, r1 = r - k,
           NEW u, u = UnitsOf(n, from, from + k)
    PROVE  Puts(p, S, r, S, r1, u)
<1>1. n \in Nat /\ n # 0 /\ S[n] \in Frames
  OBVIOUS
<1>2. PICK z \in Nat : z = Size(p, S[n])
  BY <1>1, SizeIs
<1>3. from \in Nat /\ from + k <= z /\ r1 = z - (from + k) /\ r > 0
  BY <1>2
<1>4. Piece(p, S, r1, u, n, from)
  BY <1>1, <1>2, <1>3, PieceUnits
<1> QED
  BY <1>3, <1>4 DEF Piece, Puts

(* v is the line q with the units u behind it.                             *)
Longer(p, S, T, r, q, u, v) ==
    /\ Chain(p, T, v) /\ Ends(p, T, r, v) /\ v # <<>>
    /\ q = <<>> => v[1] = u[1]
    /\ \A i \in 1..Len(q) : i \in 1..Len(v) /\ v[i] = q[i]

(* Put behind a line that ends where they begin, units make a line.        *)
LEMMA ChainJoins ==
    ASSUME NEW p, NEW S \in Seq(Frames), NEW r \in Nat, NEW T, NEW r1,
           NEW q, Chain(p, S, q), Ends(p, S, r, q),
           NEW u, Puts(p, S, r, T, r1, u), NEW v, v = q \o u
    PROVE  Longer(p, S, T, r1, q, u, v)
<1>1. Chain(p, T, u) /\ Ends(p, T, r1, u) /\ u # <<>>
  BY DEF Puts
<1>2. v = q \o u
  OBVIOUS
<1>3. Chain(p, T, q) /\ q \in Seq(Nat \X Nat) /\ u \in Seq(Nat \X Nat)
  <2>1. (\E f \in Frames : T = Append(S, f)) \/ T = S
    BY DEF Puts
  <2>2. Chain(p, T, q)
    BY <2>1, ChainGrows
  <2> QED
    BY <1>1, <2>2 DEF Chain
<1>4. PICK a \in Nat : a = Len(q)
  BY <1>3
<1>5. PICK b \in Nat : b = Len(u) /\ b > 0
  BY <1>1, <1>3
<1>6. /\ v \in Seq(Nat \X Nat) /\ Len(v) = a + b
      /\ \A i \in 1..a : i \in 1..Len(v) /\ v[i] = q[i]
      /\ \A i \in 1..b : i + a \in 1..Len(v) /\ v[i + a] = u[i]
      /\ \A i \in 1..Len(v) : i \in 1..a \/ (i - a \in 1..b /\ v[i] = u[i - a])
  <2>1. Len(v) = a + b
    BY <1>2, <1>3, <1>4, <1>5
  <2>2. /\ v \in Seq(Nat \X Nat)
        /\ \A i \in 1..Len(v) : \/ i \in 1..Len(q) /\ v[i] = q[i]
                                \/ i - Len(q) \in 1..Len(u) /\ v[i] = u[i - Len(q)]
        /\ \A i \in 1..Len(q) : i \in 1..Len(v) /\ v[i] = q[i]
        /\ \A i \in 1..Len(u) : i + Len(q) \in 1..Len(v) /\ v[i + Len(q)] = u[i]
    <3>1. v = q \o u /\ q \in Seq(Nat \X Nat) /\ u \in Seq(Nat \X Nat)
      BY <1>2, <1>3
    <3> QED
      BY ONLY <3>1, Joined
  <2> QED
    BY ONLY <1>4, <1>5, <2>1, <2>2
<1>7. \A i \in 1..Len(v) : v[i] \in UnitsIn(p, T)
  BY <1>1, <1>3, <1>4, <1>5, <1>6 DEF Chain
<1>j. q # <<>> => Follows(p, T, q[a], u[1])
  <2> SUFFICES ASSUME q # <<>> PROVE Follows(p, T, q[a], u[1])
    OBVIOUS
  <2>0. a \in 1..a
    BY <1>3, <1>4
  <2>1. q[a] = <<Len(S), Size(p, S[Len(S)]) - r>> /\ q[a] \in UnitsIn(p, S)
    BY <1>4, <2>0 DEF Ends, Chain
  <2>2. Len(S) \in 1..Len(S)
    BY <2>1 DEF UnitsIn
  <2>3. PICK z \in Nat : z = Size(p, S[Len(S)])
    BY <2>2, SizeIs
  <2>4. PICK l \in Nat : l = Len(S) /\ S[l] = S[Len(S)]
    OBVIOUS
  <2>5. CASE r = 0 /\ (\E f \in Frames : T = Append(S, f)) /\ u[1] = <<Len(S) + 1, 1>>
    <3>1. T[l] = S[l]
      BY <2>2, <2>4, <2>5, GrownIs
    <3>2. q[a] = <<l, z>> /\ u[1] = <<l + 1, 1>> /\ Size(p, T[l]) = z
      <4>1. z - r = z
        BY <2>5
      <4> QED
        BY <2>1, <2>3, <2>4, <2>5, <3>1, <4>1
    <3>3. q[a][1] = l /\ q[a][2] = z
      BY ONLY <3>2
    <3> QED
      BY ONLY <3>2, <3>3 DEF Follows
  <2>6. CASE r > 0 /\ T = S /\ u[1] = <<Len(S), (Size(p, S[Len(S)]) - r) + 1>>
    <3>1. q[a] = <<l, z - r>> /\ u[1] = <<l, (z - r) + 1>> /\ Size(p, T[l]) = z
      BY <2>1, <2>3, <2>4, <2>6
    <3>2. q[a][1] = l /\ q[a][2] = z - r
      BY ONLY <3>1
    <3>3. z - r < z
      BY <2>6
    <3> QED
      BY ONLY <3>1, <3>2, <3>3 DEF Follows
  <2> QED
    BY <2>5, <2>6 DEF Puts
<1>8. ASSUME NEW i \in 1..Len(v), i < Len(v) PROVE Follows(p, T, v[i], v[i + 1])
  <2>0. i \in Nat
    BY <1>6
  <2>4. i < a \/ i = a \/ i > a
    BY <1>4, <2>0
  <2>1. CASE i < a
    <3>1. i \in 1..a /\ i + 1 \in 1..a
      BY <1>4, <2>1
    <3> QED
      BY <1>3, <1>4, <1>6, <2>1, <3>1 DEF Chain
  <2>2. CASE i = a
    <3>0. a \in 1..a /\ 1 \in 1..b /\ i + 1 = 1 + a
      BY <1>4, <1>5, <1>8, <2>2
    <3>1. v[1 + a] = u[1] /\ v[a] = q[a]
      BY <1>6, <3>0
    <3>2. v[i] = q[a] /\ v[i + 1] = u[1]
      BY <2>2, <3>0, <3>1
    <3>3. q # <<>>
      BY <1>3, <1>4, <3>0
    <3> QED
      BY <1>j, <3>2, <3>3
  <2>3. CASE i > a
    <3>0. i \in Nat /\ i < a + b
      BY <1>6, <1>8
    <3>1. i - a \in 1..b /\ (i + 1) - a \in 1..b /\ (i + 1) - a = (i - a) + 1 /\ i - a < b /\ i + 1 \in 1..(a + b)
      BY <1>4, <1>5, <2>3, <3>0
    <3>2. v[i] = u[i - a] /\ v[i + 1] = u[(i - a) + 1]
      BY <1>4, <1>6, <2>3, <3>0, <3>1
    <3> QED
      BY <1>1, <1>5, <3>1, <3>2 DEF Chain
  <2> QED
    BY <2>1, <2>2, <2>3, <2>4
<1>9. v # <<>> /\ Ends(p, T, r1, v)
  <2>1. b \in 1..b /\ v[b + a] = u[b] /\ Len(v) = b + a
    BY <1>4, <1>5, <1>6
  <2>2. u[b] = <<Len(T), Size(p, T[Len(T)]) - r1>>
    BY <1>1, <1>5 DEF Ends
  <2>3. v # <<>>
    BY ONLY <1>5, <2>1
  <2> QED
    BY ONLY <2>1, <2>2, <2>3 DEF Ends
<1>10. q = <<>> => v[1] = u[1]
  BY <1>2, <1>3
<1> QED
  <2>1. Chain(p, T, v)
    BY <1>6, <1>7, <1>8 DEF Chain
  <2>2. \A i \in 1..Len(q) : i \in 1..Len(v) /\ v[i] = q[i]
    BY <1>4, <1>6
  <2> QED
    BY <1>9, <1>10, <2>1, <2>2 DEF Longer

(* A line that is cut anywhere is two: the second begins where the first   *)
(* stops.                                                                  *)
LEMMA ChainCut ==
    ASSUME NEW p, NEW S, NEW m, NEW r, Chain(p, S, r),
           NEW q \in Seq(Nat \X Nat), NEW w \in Seq(Nat \X Nat), r = q \o w
    PROVE  /\ Chain(p, S, q) /\ Chain(p, S, w)
           /\ Ends(p, S, m, r) => Ends(p, S, m, w)
           /\ Ends(p, S, m, r) /\ w = <<>> => Ends(p, S, m, q)
           /\ q # <<>> /\ w # <<>> => Follows(p, S, q[Len(q)], w[1])
<1>1. PICK a \in Nat : a = Len(q)
  OBVIOUS
<1>2. PICK b \in Nat : b = Len(w)
  OBVIOUS
<1>3. /\ Len(r) = a + b
      /\ \A i \in 1..a : i \in 1..Len(r) /\ r[i] = q[i]
      /\ \A i \in 1..b : i + a \in 1..Len(r) /\ r[i + a] = w[i]
  <2>1. Len(r) = a + b
    BY <1>1, <1>2
  <2>2. /\ \A i \in 1..Len(q) : i \in 1..Len(r) /\ r[i] = q[i]
        /\ \A i \in 1..Len(w) : i + Len(q) \in 1..Len(r) /\ r[i + Len(q)] = w[i]
    BY Joined
  <2> QED
    BY ONLY <1>1, <1>2, <2>1, <2>2
<1>4. /\ \A i \in 1..(a + b) : r[i] \in UnitsIn(p, S)
      /\ \A i \in 1..(a + b) : i < a + b => Follows(p, S, r[i], r[i + 1])
  BY <1>3 DEF Chain
<1>5. Chain(p, S, q)
  <2>1. \A i \in 1..a : q[i] \in UnitsIn(p, S)
    BY <1>3, <1>4
  <2>2. ASSUME NEW i \in 1..a, i < a PROVE Follows(p, S, q[i], q[i + 1])
    <3>1. i \in 1..(a + b) /\ i < a + b /\ i + 1 \in 1..a
      BY <2>2
    <3> QED
      BY <1>3, <1>4, <3>1
  <2> QED
    BY <1>1, <2>1, <2>2 DEF Chain
<1>6. Chain(p, S, w)
  <2>1. \A i \in 1..b : w[i] \in UnitsIn(p, S)
    BY <1>3, <1>4
  <2>2. ASSUME NEW i \in 1..b, i < b PROVE Follows(p, S, w[i], w[i + 1])
    <3>1. i + a \in 1..(a + b) /\ i + a < a + b /\ i + 1 \in 1..b /\ (i + 1) + a = (i + a) + 1
      BY <2>2
    <3>2. r[i + a] = w[i] /\ r[(i + a) + 1] = w[i + 1]
      BY <1>3, <3>1
    <3> QED
      BY <1>4, <3>1, <3>2
  <2> QED
    BY <1>2, <2>1, <2>2 DEF Chain
<1>7. Ends(p, S, m, r) => Ends(p, S, m, w)
  <2> SUFFICES ASSUME Ends(p, S, m, r), w # <<>> PROVE w[Len(w)] = <<Len(S), Size(p, S[Len(S)]) - m>>
    BY DEF Ends
  <2>1. b \in 1..b /\ r # <<>>
    BY <1>2
  <2>2. r[b + a] = w[b] /\ Len(r) = b + a
    BY <1>3, <2>1
  <2> QED
    BY <1>2, <2>1, <2>2 DEF Ends
<1>8. Ends(p, S, m, r) /\ w = <<>> => Ends(p, S, m, q)
  BY DEF Ends
<1>9. q # <<>> /\ w # <<>> => Follows(p, S, q[Len(q)], w[1])
  <2> SUFFICES ASSUME q # <<>>, w # <<>> PROVE Follows(p, S, q[Len(q)], w[1])
    OBVIOUS
  <2>1. a \in 1..a /\ a \in 1..(a + b) /\ a < a + b /\ 1 \in 1..b /\ 1 + a = a + 1
    BY <1>1, <1>2
  <2>2. r[a] = q[a] /\ r[a + 1] = w[1]
    BY <1>3, <2>1
  <2> QED
    BY <1>1, <1>4, <2>1, <2>2
<1> QED
  BY <1>5, <1>6, <1>7, <1>8, <1>9

(* The last units of a list that holds the beginning of a frame are those  *)
(* of one frame, from its first one on.                                    *)
LEMMA Backwards ==
    ASSUME NEW p, NEW S, NEW q, Chain(p, S, q), NEW k \in 1..Len(q), q[k][2] = 1
    PROVE  \A j \in 0..(q[Len(q)][2] - 1) :
              k <= Len(q) - j /\ q[Len(q) - j] = <<q[Len(q)][1], q[Len(q)][2] - j>>
<1>1. PICK n \in Nat : n = Len(q) /\ k \in 1..n
  BY DEF Chain
<1>2. \A i \in 1..n : q[i] \in Nat \X (Nat \ {0})
  BY <1>1 DEF Chain, UnitsIn
<1>3. PICK e \in Nat : e = q[n][1]
  BY <1>1, <1>2
<1>4. PICK u \in Nat : u = q[n][2] /\ u # 0 /\ q[n] = <<e, u>>
  BY <1>1, <1>2, <1>3
<1> DEFINE Good(j) == k <= n - j /\ q[n - j] = <<e, u - j>>
           B == {j \in 0..(u - 1) : ~Good(j)}
<1> SUFFICES ASSUME B # {} PROVE FALSE
  BY <1>1, <1>3, <1>4
<1>5. B \in SUBSET Nat
  BY <1>4
<1>6. PICK m \in B : \A y \in B : m <= y
  BY <1>5, MinNat
<1>7. Good(0)
  <2>1. n - 0 = n /\ u - 0 = u /\ k <= n
    BY <1>1, <1>4
  <2> QED
    BY <1>4, <2>1
<1>a. m \in 0..(u - 1) /\ ~Good(m)
  BY <1>6
<1>b. \A y \in 0..(u - 1) : ~Good(y) => m <= y
  BY <1>6
<1> HIDE DEF Good, B
<1>8. m \in 1..(u - 1) /\ m - 1 \in 0..(u - 1) /\ ~Good(m) /\ m \in Nat
  <2>1. m # 0
    BY <1>7, <1>a
  <2> QED
    BY <1>4, <1>a, <2>1
<1>9. Good(m - 1)
  BY <1>8, <1>b
<1>10. k <= n - (m - 1) /\ q[n - (m - 1)] = <<e, u - (m - 1)>> /\ u - (m - 1) >= 2
  BY <1>4, <1>8, <1>9 DEF Good
<1>11. PICK i \in Nat : i = n - m
  <2>1. k <= n - m + 1 /\ k \in Nat /\ k >= 1
    BY <1>1, <1>8, <1>10
  <2>2. n - m \in Nat
    BY <1>1, <1>8, <2>1
  <2> QED
    BY <2>2
<1>12. n - (m - 1) = i + 1 /\ i + 1 # k /\ i >= k /\ i \in 1..n /\ i < n
  BY <1>1, <1>8, <1>10, <1>11
<1>13. q[i + 1] = <<e, u - (m - 1)>> /\ Follows(p, S, q[i], q[i + 1])
  BY <1>1, <1>10, <1>12 DEF Chain
<1>14. q[i] \in Nat \X (Nat \ {0}) /\ q[i] = <<q[i][1], q[i][2]>> /\ q[i][2] \in Nat
  BY <1>2, <1>12
<1>15. q[i][1] = e /\ q[i][2] + 1 = u - (m - 1)
  BY <1>10, <1>13 DEF Follows
<1>16. q[i][2] = u - m
  <2>1. PICK z \in Nat : z = q[i][2]
    BY <1>14
  <2>2. z + 1 = u - (m - 1)
    BY <1>15, <2>1
  <2>3. u \in Nat /\ m \in Nat
    BY <1>4, <1>8
  <2>4. z = u - m
    BY <2>2, <2>3
  <2> QED
    BY <2>1, <2>4
<1>17. Good(m)
  BY <1>11, <1>12, <1>14, <1>15, <1>16 DEF Good
<1> QED
  BY <1>8, <1>17

(* Frames are numbered upwards.                                            *)
LEMMA Upwards ==
    ASSUME NEW p, NEW S, NEW q, Chain(p, S, q), NEW k \in 1..Len(q)
    PROVE  \A j \in k..Len(q) : q[k][1] <= q[j][1]
<1>1. PICK n \in Nat : n = Len(q) /\ k \in 1..n
  BY DEF Chain
<1>2. \A i \in 1..n : q[i][1] \in Nat
  BY <1>1 DEF Chain, UnitsIn
<1> DEFINE B == {j \in k..n : ~(q[k][1] <= q[j][1])}
<1> SUFFICES ASSUME B # {} PROVE FALSE
  BY <1>1
<1>3. B \in SUBSET Nat
  BY <1>1
<1>4. PICK m \in B : \A y \in B : m <= y
  BY <1>3, MinNat
<1>5. m \in k..n /\ m # k /\ ~(q[k][1] <= q[m][1])
  BY <1>1, <1>2, <1>4
<1>6. PICK i \in Nat : i + 1 = m /\ i \in k..n /\ i \in 1..n /\ i < n
  BY <1>1, <1>5
<1>7. q[k][1] <= q[i][1]
  BY <1>4, <1>6
<1>8. Follows(p, S, q[i], q[m])
  BY <1>1, <1>6 DEF Chain
<1>9. q[m][1] = q[i][1] \/ q[m][1] = q[i][1] + 1
  BY <1>8 DEF Follows
<1> QED
  BY <1>1, <1>2, <1>5, <1>6, <1>7, <1>9

-----------------------------------------------------------------------------
(* What onTcpReceive finds in its cache.                                   *)

(* Of the units there are from a beginning on, only the last frame may be  *)
(* incomplete: h units are of whole frames, which are those before K.      *)
Whole(p, S, q, pos, x, h, K) ==
    /\ h \in pos..Len(q) /\ h = Len(q) - x
    /\ K \in Nat /\ q[pos + 1][1] <= K
    /\ h > pos => q[h][1] = K - 1
    /\ h = pos => q[pos + 1][1] = K
    /\ x = 0 => h = Len(q) /\ q[Len(q)] = <<K - 1, Size(p, S[K - 1])>>
    /\ x # 0 => /\ h < Len(q) /\ q[h + 1] = <<K, 1>>
                /\ q[Len(q)][1] = K /\ q[Len(q)][2] # Size(p, S[K])

(* What Incomplete counts from the end are the units of one frame: those   *)
(* before it are whole frames.                                             *)
LEMMA IncompleteIs ==
    ASSUME NEW s \in Sides, NEW S, S = sent[Peer(s)], S \in Seq(Frames),
           NEW q, Chain(Peer(s), S, q), NEW pos \in Nat, pos < Len(q), q[pos + 1][2] = 1,
           NEW x, x = Incomplete(s, q)
    PROVE  x \in Nat /\ \E h, K \in Nat : Whole(Peer(s), S, q, pos, x, h, K)
<1>1. PICK n \in Nat : n = Len(q) /\ pos + 1 \in 1..n /\ n \in 1..n
  <2>1. Len(q) \in Nat
    BY DEF Chain
  <2>2. pos \in Nat /\ pos < Len(q)
    OBVIOUS
  <2>3. pos + 1 \in 1..Len(q) /\ Len(q) \in 1..Len(q)
    BY ONLY <2>1, <2>2
  <2> QED
    BY ONLY <2>1, <2>3
<1>2. \A i \in 1..n : q[i] \in Nat \X (Nat \ {0}) /\ q[i] \in UnitsIn(Peer(s), S)
  BY <1>1 DEF Chain, UnitsIn
<1>3. PICK e \in Nat : e = q[n][1]
  BY <1>1, <1>2
<1>4. PICK u \in Nat : u = q[n][2] /\ u # 0 /\ q[n] = <<e, u>>
  BY <1>1, <1>2, <1>3
<1>5. e \in 1..Len(S) /\ S[e] \in Frames
  <2>1. q[n] \in UnitsIn(Peer(s), S)
    BY <1>1, <1>2
  <2>2. e \in Nat \ {0} /\ e <= Len(S)
    BY <1>3, <2>1 DEF UnitsIn
  <2>3. e \in 1..Len(S)
    BY <2>2
  <2> QED
    BY <2>3
<1>6. PICK z \in Nat : z = Size(Peer(s), S[e])
  BY <1>5, SizeIs
<1>7. x = IF u = z THEN 0 ELSE u
  <2>1. q # <<>>
    BY <1>1
  <2>2. x = IF q[n][2] = Size(Peer(s), S[q[n][1]]) THEN 0 ELSE q[n][2]
    BY <1>1, <2>1 DEF Incomplete, Last
  <2> QED
    BY <1>3, <1>4, <1>6, <2>2
<1>8. PICK a \in Nat : a = q[pos + 1][1]
  BY <1>1, <1>2
<1>9. a <= e
  BY <1>1, <1>3, <1>8, Upwards
<1>10. CASE u = z
  <2>1. x = 0 /\ Whole(Peer(s), S, q, pos, x, n, e + 1)
    BY <1>1, <1>3, <1>4, <1>6, <1>7, <1>8, <1>9, <1>10, SMTT(40) DEF Whole
  <2> QED
    BY <2>1
<1>11. CASE u # z
  <2>1. x = u /\ u - 1 \in 0..(u - 1)
    BY <1>4, <1>7, <1>11
  <2>2. pos + 1 <= n - (u - 1) /\ q[n - (u - 1)] = <<e, u - (u - 1)>>
    <3>1. \A j \in 0..(q[Len(q)][2] - 1) :
             pos + 1 <= Len(q) - j /\ q[Len(q) - j] = <<q[Len(q)][1], q[Len(q)][2] - j>>
      BY <1>1, Backwards
    <3>2. \A j \in 0..(u - 1) : pos + 1 <= n - j /\ q[n - j] = <<e, u - j>>
      BY ONLY <1>1, <1>3, <1>4, <3>1
    <3> QED
      BY <2>1, <3>2
  <2>3. n - u \in Nat
    BY <1>1, <1>4, <2>2, SMTT(40)
  <2>4. PICK h \in Nat : h = n - u
    BY <2>3
  <2>5. pos <= h /\ n - (u - 1) = h + 1 /\ u - (u - 1) = 1 /\ h < n
    <3>1. /\ pos \in Nat /\ n \in Nat /\ u \in Nat /\ u # 0 /\ h \in Nat /\ h = n - u
          /\ pos + 1 <= n - (u - 1)
      BY <1>4, <2>2, <2>4
    <3> QED
      BY ONLY <3>1
  <2>6. q[h + 1] = <<e, 1>>
    BY <2>2, <2>5
  <2>7. h = pos => a = e
    BY <1>8, <2>6
  <2>8. h > pos => q[h][1] = e - 1
    <3> SUFFICES ASSUME h > pos PROVE q[h][1] = e - 1
      OBVIOUS
    <3>1. h \in 1..n /\ h < n
      BY <1>1, <2>5
    <3>2. Follows(Peer(s), S, q[h], q[h + 1])
      BY <1>1, <3>1 DEF Chain
    <3>3. PICK y \in Nat : y = q[h][1]
      BY <1>2, <3>1
    <3>4. PICK v \in Nat : v = q[h][2] /\ v # 0
      BY <1>2, <3>1
    <3>5. <<e, 1>> = <<y, v + 1>> \/ <<e, 1>> = <<y + 1, 1>>
      BY <2>6, <3>2, <3>3, <3>4 DEF Follows
    <3>6. e = y + 1
      BY <3>4, <3>5
    <3> QED
      BY <3>3, <3>6
  <2>9. h \in pos..n /\ e \in Nat
    BY <1>1, <2>4, <2>5
  <2>10. Whole(Peer(s), S, q, pos, x, h, e)
    <3>1. x # 0 /\ h = n - x
      BY <1>4, <2>1, <2>4
    <3>2. q[n][1] = e /\ q[n][2] # Size(Peer(s), S[e])
      BY <1>3, <1>4, <1>6, <1>11
    <3> QED
      BY <1>1, <1>8, <1>9, <2>5, <2>6, <2>7, <2>8, <2>9, <3>1, <3>2 DEF Whole
  <2> QED
    BY <2>1, <2>10
<1> QED
  BY <1>10, <1>11

(* the numbers from a up to those before K                                 *)
Listed(W, a, K) ==
    /\ W \in Seq(Int) /\ Len(W) = K - a
    /\ \A m \in 1..(K - a) : W[m] = a + m - 1

(* WholeFrames finds the numbers of the frames before K.                   *)
LEMMA WholeFramesIs ==
    ASSUME NEW s \in Sides, NEW S, NEW q \in Seq(Nat \X Nat), NEW pos \in Nat,
           pos < Len(q), NEW h \in Nat, NEW K \in Nat,
           Whole(Peer(s), S, q, pos, Incomplete(s, q), h, K),
           NEW a \in Nat, a = q[pos + 1][1]
    PROVE  Listed(WholeFrames(s, q, pos), a, K)
<1>0. K \in Nat /\ a \in Nat
  OBVIOUS
<1>1. h = Len(q) - Incomplete(s, q) /\ h \in pos..Len(q)
  BY DEF Whole
<1>2. CASE h = pos
  <2>1. WholeFrames(s, q, pos) = <<>>
    BY <1>1, <1>2 DEF WholeFrames
  <2>2. K = a
    BY <1>2 DEF Whole
  <2>3. 1..(K - a) = {} /\ K - a = 0
    BY ONLY <1>0, <2>2
  <2> QED
    BY <2>1, <2>3 DEF Listed
<1>3. CASE h > pos
  <2>1. WholeFrames(s, q, pos) = [i \in 1..(q[h][1] - a + 1) |-> a + i - 1]
    BY <1>1, <1>3 DEF WholeFrames
  <2>2. q[h][1] = K - 1
    BY <1>3 DEF Whole
  <2>3. (K - 1) - a + 1 = K - a
    BY ONLY <1>0
  <2>4. K - a \in Nat
    <3>1. a <= K
      BY DEF Whole
    <3> QED
      BY ONLY <1>0, <3>1
  <2>5. WholeFrames(s, q, pos) = [i \in 1..(K - a) |-> a + i - 1]
    BY <2>1, <2>2, <2>3
  <2>6. \A i \in 1..(K - a) : a + i - 1 \in Int
    BY ONLY <1>0
  <2> QED
    BY ONLY <2>4, <2>5, <2>6 DEF Listed
<1> QED
  BY <1>1, <1>2, <1>3

(* What is left of the line when the units q were read: nothing of them,   *)
(* or all with the whole frames taken.                                     *)
Rested(p, S, m, b, i, w, K) ==
    LinedOf(p, S, m, b, i, w) /\ TakenOf(S, m, b, i, w) = K - 1 /\ K - 1 <= Len(S)

(* What is left of the line when the units q were read is a line again, of *)
(* which the frames before K are taken, whether the cache was cleared or   *)
(* holds what was read.                                                    *)
LEMMA Rests ==
    ASSUME NEW p, NEW S \in Seq(Frames), NEW m \in Nat,
           m > 0 => S # <<>> /\ m < Size(p, S[Len(S)]), NEW r, Chain(p, S, r), Ends(p, S, m, r),
           NEW q \in Seq(Nat \X Nat), NEW w \in Seq(Nat \X Nat), r = q \o w,
           NEW pos \in Nat, pos < Len(q), q[pos + 1][2] = 1,
           NEW x \in Nat, NEW h \in Nat, NEW K \in Nat, Whole(p, S, q, pos, x, h, K),
           NEW b, NEW i, (b = <<>> /\ i = 0) \/ (x # 0 /\ b = q /\ i = h)
    PROVE  Rested(p, S, m, b, i, w, K)
<1>1. /\ Chain(p, S, q) /\ Chain(p, S, w) /\ Ends(p, S, m, w)
      /\ w = <<>> => Ends(p, S, m, q)
      /\ w # <<>> => Follows(p, S, q[Len(q)], w[1])
  <2>1. q # <<>>
    OBVIOUS
  <2> QED
    BY <2>1, ChainCut
<1>2. PICK n \in Nat : n = Len(q) /\ n \in 1..n
  OBVIOUS
<1>3. q[n] \in Nat \X (Nat \ {0}) /\ q[n] \in UnitsIn(p, S)
  BY <1>1, <1>2 DEF Chain, UnitsIn
<1>4. PICK e \in Nat : e = q[n][1] /\ e <= Len(S) /\ e # 0
  BY <1>3 DEF UnitsIn
<1>5. PICK u \in Nat : u = q[n][2] /\ q[n] = <<e, u>>
  <2>1. q[n][2] \in Nat /\ q[n] = <<q[n][1], q[n][2]>>
    BY ONLY <1>3
  <2> QED
    BY <1>4, <2>1
<1>6. PICK L \in Nat : L = Len(S)
  <2>1. Len(S) \in Nat
    OBVIOUS
  <2> QED
    BY ONLY <2>1
<1>7. PICK z \in Nat : z = Size(p, S[e])
  <2>1. S[e] \in Frames
    <3>1. S \in Seq(Frames) /\ e \in Nat /\ e # 0 /\ e <= Len(S)
      BY <1>4
    <3> QED
      BY ONLY <3>1
  <2> QED
    BY <2>1, SizeIs
<1>8. IF x = 0 THEN K = e + 1 /\ u = z ELSE K = e /\ u # z
  <2>1. CASE x = 0
    <3>1. <<e, u>> = <<K - 1, Size(p, S[K - 1])>>
      BY <1>2, <1>5, <2>1 DEF Whole
    <3>2. e = K - 1 /\ u = z
      BY <1>7, <3>1
    <3>3. K = e + 1
      BY ONLY <3>2, K \in Nat
    <3> QED
      BY <2>1, <3>2, <3>3
  <2>2. CASE x # 0
    BY <1>2, <1>4, <1>5, <1>7, <2>2 DEF Whole
  <2> QED
    BY <2>1, <2>2
<1>9. K - 1 <= L
  <2>1. K \in Nat /\ e \in Nat /\ L \in Nat /\ e <= L
    BY <1>4, <1>6
  <2> QED
    BY ONLY <1>8, <2>1
<1>10. CASE w = <<>>
  <2>1. q[n] = <<L, Size(p, S[L]) - m>>
    BY <1>1, <1>2, <1>6, <1>10 DEF Ends
  <2>2. e = L /\ u = z - m
    <3>1. <<e, u>> = <<L, Size(p, S[L]) - m>>
      BY ONLY <1>5, <2>1
    <3> QED
      BY ONLY <1>7, <3>1
  <2>3. WholeOf(S, m) = K - 1
    <3>1. CASE m = 0
      <4>1. u = z
        BY <2>2, <3>1
      <4>2. K = L + 1
        BY ONLY <1>8, <2>2, <4>1, z \in Nat, L \in Nat, u \in Nat
      <4>3. L = K - 1
        BY ONLY <4>2, L \in Nat
      <4> QED
        BY <1>6, <3>1, <4>3 DEF WholeOf
    <3>2. CASE m > 0
      <4>1. u # z
        BY <2>2, <3>2
      <4>2. K = L
        BY ONLY <1>8, <2>2, <4>1
      <4> QED
        BY <1>6, <3>2, <4>2 DEF WholeOf
    <3>3. m = 0 \/ m > 0
      OBVIOUS
    <3> QED
      BY <3>1, <3>2, <3>3
  <2>4. CASE i = 0
    <3>1. LineOf(b, i, w) = <<>>
      BY <1>10, <2>4 DEF LineOf
    <3>2. TakenOf(S, m, b, i, w) = K - 1
      BY <2>3, <3>1 DEF TakenOf
    <3>3. LinedOf(p, S, m, b, i, w)
      BY <1>1, <1>10, <2>4, <3>1 DEF LinedOf
    <3> QED
      BY <1>6, <1>9, <3>2, <3>3 DEF Rested
  <2>5. CASE i # 0
    <3>1. x # 0 /\ b = q /\ i = h /\ h > 0
      BY <2>5
    <3>2. LineOf(b, i, w) = q /\ q = r /\ q # <<>>
      BY <1>2, <1>10, <3>1 DEF LineOf
    <3>3. h < n /\ q[h + 1] = <<K, 1>> /\ q[n][2] # Size(p, S[q[n][1]])
      BY <1>2, <3>1 DEF Whole
    <3>4. TakenOf(S, m, b, i, w) = K - 1
      BY <3>1, <3>2, <3>3 DEF TakenOf
    <3>5. LinedOf(p, S, m, b, i, w)
      <4>1. Chain(p, S, LineOf(b, i, w)) /\ Ends(p, S, m, LineOf(b, i, w))
        BY <3>2
      <4>2. n = Len(b) /\ b[h + 1][2] = 1 /\ i < Len(b)
        BY <1>2, <3>1, <3>3
      <4> QED
        BY <3>1, <3>3, <4>1, <4>2 DEF LinedOf
    <3> QED
      BY <1>6, <1>9, <3>4, <3>5 DEF Rested
  <2> QED
    BY <2>4, <2>5
<1>11. CASE w # <<>> /\ i = 0
  <2>1. LineOf(b, i, w) = w
    BY <1>11 DEF LineOf
  <2>2. w[1] = IF u = z THEN <<e + 1, 1>> ELSE <<e, u + 1>>
    <3>1. Follows(p, S, <<e, u>>, w[1])
      BY <1>1, <1>2, <1>5, <1>11
    <3>2. \/ u < z /\ w[1] = <<e, u + 1>>
          \/ u = z /\ w[1] = <<e + 1, 1>>
      BY <1>7, <3>1 DEF Follows
    <3>3. u < z => u # z
      <4>1. u \in Nat /\ z \in Nat
        OBVIOUS
      <4> QED
        BY ONLY <4>1
    <3> QED
      BY ONLY <3>2, <3>3
  <2>3. w[1][1] = K
    BY <1>8, <2>2
  <2>4. TakenOf(S, m, b, i, w) = K - 1
    <3>1. w[0 + 1][1] = K
      BY <2>3
    <3> QED
      BY <1>11, <2>1, <3>1 DEF TakenOf
  <2>5. LinedOf(p, S, m, b, i, w)
    BY <1>1, <1>11, <2>1 DEF LinedOf
  <2> QED
    BY <1>6, <1>9, <2>4, <2>5 DEF Rested
<1>12. CASE w # <<>> /\ i # 0
  <2>1. x # 0 /\ b = q /\ i = h /\ h > 0
    BY <1>12
  <2>2. LineOf(b, i, w) = r /\ r # <<>>
    BY <1>2, <2>1 DEF LineOf
  <2>3. h < n /\ q[h + 1] = <<K, 1>> /\ q[n][2] # Size(p, S[q[n][1]])
    BY <1>2, <2>1 DEF Whole
  <2>4. r[h + 1] = q[h + 1]
    <3>1. r = q \o w /\ q \in Seq(Nat \X Nat) /\ w \in Seq(Nat \X Nat) /\ h + 1 \in 1..Len(q)
      <4>1. h \in Nat /\ n \in Nat /\ h < n
        BY <2>3
      <4>2. h + 1 \in 1..n
        BY ONLY <4>1
      <4> QED
        BY <1>2, <4>2
    <3> QED
      BY ONLY <3>1, Joined
  <2>5. TakenOf(S, m, b, i, w) = K - 1
    BY <2>1, <2>2, <2>3, <2>4 DEF TakenOf
  <2>6. LinedOf(p, S, m, b, i, w)
    BY <1>2, <2>1, <2>2, <2>3 DEF LinedOf
  <2> QED
    BY <1>6, <1>9, <2>5, <2>6 DEF Rested
<1> QED
  BY <1>10, <1>11, <1>12

-----------------------------------------------------------------------------
(* The line of a side.                                                     *)

(* Which units were put together first does not matter.                    *)
Same(a, b, c) == a \o (b \o c) = (a \o b) \o c

(* the same list, however it is put together                               *)
LEMMA Associates ==
    ASSUME NEW P, NEW a \in Seq(P), NEW b \in Seq(P), NEW c \in Seq(P)
    PROVE  Same(a, b, c)
BY ConcatAssociative DEF Same

(* the line of a side, which begins with its cache when that was read      *)
(* before                                                                  *)
LEMMA LineIs ==
    ASSUME NEW b \in Seq(Nat \X Nat), NEW i \in Nat, i <= Len(b), NEW w \in Seq(Nat \X Nat)
    PROVE  /\ LineOf(b, i, w) \in Seq(Nat \X Nat)
           /\ i > 0 => /\ LineOf(b, i, w) = b \o w
                       /\ \A j \in 1..Len(b) : j \in 1..Len(LineOf(b, i, w))
                                               /\ LineOf(b, i, w)[j] = b[j]
           /\ i = 0 => LineOf(b, i, w) = w
<1>1. CASE i > 0
  <2>1. LineOf(b, i, w) = b \o w
    BY <1>1 DEF LineOf
  <2>2. b \o w \in Seq(Nat \X Nat) /\ \A j \in 1..Len(b) : j \in 1..Len(b \o w) /\ (b \o w)[j] = b[j]
    BY Joined
  <2> QED
    BY <1>1, <2>1, <2>2
<1>2. CASE i = 0
  BY <1>2 DEF LineOf
<1>3. i = 0 \/ i > 0
  OBVIOUS
<1> QED
  BY <1>1, <1>2, <1>3

(* The line w with more units at its end                                   *)
LineGrown(p, S, r, T, r1, b, i, w, v) ==
    /\ LinedOf(p, T, r1, b, i, v) /\ TakenOf(T, r1, b, i, v) = TakenOf(S, r, b, i, w)
    /\ v \in Seq(Nat \X Nat)

(* What a side writes comes behind the line of its peer, which has then    *)
(* taken no more than before.                                              *)
LEMMA LineGrows ==
    ASSUME NEW p, NEW S \in Seq(Frames), NEW r \in Nat, NEW T, NEW r1,
           NEW b \in Seq(Nat \X Nat), NEW i \in Nat, i <= Len(b), NEW w \in Seq(Nat \X Nat),
           NEW u, Puts(p, S, r, T, r1, u), NEW v, v = w \o u,
           LinedOf(p, S, r, b, i, w)
    PROVE  LineGrown(p, S, r, T, r1, b, i, w, v)
<1> DEFINE q == LineOf(b, i, w)
           y == LineOf(b, i, v)
<1>1. u \in Seq(Nat \X Nat) /\ v = w \o u /\ y = q \o u
  <2>1. u \in Seq(Nat \X Nat) /\ v = w \o u
    BY DEF Puts, Chain
  <2>2. b \o (w \o u) = (b \o w) \o u
    <3> DEFINE P == Nat \X Nat
    <3>1. b \in Seq(P) /\ w \in Seq(P) /\ u \in Seq(P)
      BY <2>1
    <3> HIDE DEF P
    <3>2. Same(b, w, u)
      BY ONLY <3>1, Associates
    <3> QED
      BY ONLY <3>2 DEF Same
  <2> QED
    BY <2>1, <2>2 DEF LineOf
<1>2. v \in Seq(Nat \X Nat)
  BY <1>1
<1>3. Chain(p, S, q) /\ Ends(p, S, r, q) /\ q \in Seq(Nat \X Nat)
  BY LineIs DEF LinedOf
<1>4. /\ Chain(p, T, y) /\ Ends(p, T, r1, y) /\ y # <<>>
      /\ q = <<>> => y[1] = u[1]
      /\ \A j \in 1..Len(q) : j \in 1..Len(y) /\ y[j] = q[j]
  <2>1. /\ y = q \o u /\ Chain(p, S, q) /\ Ends(p, S, r, q)
        /\ S \in Seq(Frames) /\ r \in Nat /\ Puts(p, S, r, T, r1, u)
    BY <1>1, <1>3
  <2> HIDE DEF q, y
  <2>2. Longer(p, S, T, r1, q, u, y)
    BY <2>1, ChainJoins, Zenon
  <2> QED
    BY <2>2 DEF Longer
<1>5. i > 0 => i < Len(b) /\ b[i + 1][2] = 1 /\ b[Len(b)][2] # Size(p, S[b[Len(b)][1]])
  BY DEF LinedOf
<1>6. i > 0 => i + 1 \in 1..Len(q) /\ b[Len(b)][1] \in 1..Len(S)
  <2> SUFFICES ASSUME i > 0 PROVE i + 1 \in 1..Len(q) /\ b[Len(b)][1] \in 1..Len(S)
    OBVIOUS
  <2>1. i + 1 \in 1..Len(b) /\ Len(b) \in 1..Len(b)
    BY <1>5, Place
  <2>2. i + 1 \in 1..Len(q) /\ Len(b) \in 1..Len(q) /\ q[Len(b)] = b[Len(b)]
    <3>1. \A j \in 1..Len(b) : j \in 1..Len(q) /\ q[j] = b[j]
      BY LineIs
    <3> HIDE DEF q
    <3> QED
      BY ONLY <2>1, <3>1
  <2>3. b[Len(b)] \in UnitsIn(p, S)
    BY <1>3, <2>2 DEF Chain
  <2>4. b[Len(b)][1] \in 1..Len(S)
    BY <2>3 DEF UnitsIn
  <2> QED
    BY <2>2, <2>4
<1>7. LinedOf(p, T, r1, b, i, v)
  <2>1. \A k \in 1..Len(S) : T[k] = S[k]
    <3>1. (\E f \in Frames : T = Append(S, f)) \/ T = S
      BY DEF Puts
    <3> HIDE DEF q, y
    <3>2. CASE \E f \in Frames : T = Append(S, f)
      <4>1. PICK f \in Frames : T = Append(S, f)
        BY <3>2
      <4> QED
        BY <4>1, GrownIs
    <3> QED
      BY <3>1, <3>2
  <2> HIDE DEF q, y
  <2>2. i > 0 => b[Len(b)][2] # Size(p, T[b[Len(b)][1]])
    BY <1>5, <1>6, <2>1
  <2> QED
    BY <1>4, <1>5, <2>2 DEF LinedOf, y
<1>8. i = 0 \/ i > 0
  OBVIOUS
<1>9. q = <<>> => i = 0 /\ w = <<>>
  <2> SUFFICES ASSUME q = <<>> PROVE i = 0 /\ w = <<>>
    OBVIOUS
  <2>1. ~(i > 0)
    BY <1>6
  <2> QED
    BY <1>8, <2>1, LineIs
<1>10. TakenOf(T, r1, b, i, v) = TakenOf(S, r, b, i, w)
  <2>1. CASE q = <<>>
    <3>1. y[1] = u[1] /\ y # <<>> /\ i = 0
      BY <1>4, <1>9, <2>1
    <3>2. TakenOf(T, r1, b, i, v) = u[1][1] - 1 /\ TakenOf(S, r, b, i, w) = WholeOf(S, r)
      <4>1. TakenOf(T, r1, b, i, v) = y[0 + 1][1] - 1 /\ 0 + 1 = 1
        BY <3>1 DEF TakenOf
      <4>2. TakenOf(S, r, b, i, w) = WholeOf(S, r)
        BY <2>1 DEF TakenOf
      <4> QED
        BY <3>1, <4>1, <4>2
    <3>3. PICK l \in Nat : l = Len(S)
      OBVIOUS
    <3>4. \/ r = 0 /\ u[1] = <<l + 1, 1>>
          \/ r > 0 /\ u[1] = <<l, (Size(p, S[Len(S)]) - r) + 1>>
      BY <3>3 DEF Puts
    <3>5. CASE r = 0 /\ u[1] = <<l + 1, 1>>
      <4>1. u[1][1] = l + 1 /\ WholeOf(S, r) = l
        BY <3>3, <3>5 DEF WholeOf
      <4>2. (l + 1) - 1 = l
        OBVIOUS
      <4> QED
        BY <3>2, <4>1, <4>2
    <3>6. CASE r > 0 /\ u[1] = <<l, (Size(p, S[Len(S)]) - r) + 1>>
      <4>1. u[1][1] = l /\ WholeOf(S, r) = l - 1
        BY <3>3, <3>6 DEF WholeOf
      <4> QED
        BY <3>2, <4>1
    <3> QED
      BY <3>4, <3>5, <3>6
  <2>2. CASE q # <<>>
    <3>1. i + 1 \in 1..Len(q)
      BY <1>3, <1>6, <1>8, <2>2
    <3>2. y[i + 1] = q[i + 1] /\ y # <<>>
      BY <1>4, <3>1
    <3> QED
      BY <2>2, <3>2 DEF TakenOf
  <2> QED
    BY <2>1, <2>2
<1> QED
  BY <1>2, <1>7, <1>10 DEF LineGrown

(* The units read, of which the first n are new, and the rest              *)
Begun(S, r, b, i, w, q, v) ==
    /\ q \in Seq(Nat \X Nat) /\ v \in Seq(Nat \X Nat)
    /\ LineOf(b, i, w) = q \o v
    /\ i < Len(q) /\ q[i + 1][1] = TakenOf(S, r, b, i, w) + 1

(* The units that onTcpReceive reads are the beginning of the line, and    *)
(* the first frame that it takes is the next one.                          *)
LEMMA LineBegins ==
    ASSUME NEW p, NEW S \in Seq(Frames), NEW r,
           NEW b \in Seq(Nat \X Nat), NEW i \in Nat, i <= Len(b), NEW w \in Seq(Nat \X Nat),
           LinedOf(p, S, r, b, i, w), NEW n \in 1..Len(w),
           NEW u, u = SubSeq(w, 1, n), NEW v, v = SubSeq(w, n + 1, Len(w)),
           NEW q, q = IF i > 0 THEN b \o u ELSE u
    PROVE  Begun(S, r, b, i, w, q, v)
<1>1. u \in Seq(Nat \X Nat) /\ v \in Seq(Nat \X Nat) /\ w = u \o v /\ Len(u) = n
  <2>1. n \in 0..Len(w)
    OBVIOUS
  <2> QED
    BY <2>1, Halves
<1>2. q \in Seq(Nat \X Nat) /\ i < Len(q) /\ LineOf(b, i, w) = q \o v
  <2>1. CASE i > 0
    <3>1. q = b \o u /\ i < Len(b)
      BY <2>1 DEF LinedOf
    <3>2. Len(q) = Len(b) + Len(u) /\ q \in Seq(Nat \X Nat)
      <4>1. b \in Seq(Nat \X Nat) /\ u \in Seq(Nat \X Nat) /\ q = b \o u
        BY <1>1, <3>1
      <4> QED
        BY ONLY <4>1, Adds
    <3>3. i < Len(q)
      <4>1. i \in Nat /\ Len(b) \in Nat /\ Len(u) \in Nat
        BY <1>1
      <4> QED
        BY ONLY <3>1, <3>2, <4>1
    <3>4. b \o (u \o v) = (b \o u) \o v
      <4> DEFINE P == Nat \X Nat
      <4>1. b \in Seq(P) /\ u \in Seq(P) /\ v \in Seq(P)
        BY <1>1
      <4> HIDE DEF P
      <4>2. Same(b, u, v)
        BY ONLY <4>1, Associates
      <4> QED
        BY ONLY <4>2 DEF Same
    <3>5. LineOf(b, i, w) = b \o (u \o v)
      BY <1>1, <2>1 DEF LineOf
    <3> QED
      BY ONLY <3>1, <3>2, <3>3, <3>4, <3>5
  <2>2. CASE i = 0
    <3>1. q = u /\ LineOf(b, i, w) = w
      BY <2>2 DEF LineOf
    <3>2. i < Len(q)
      BY <1>1, <2>2, <3>1
    <3> QED
      BY <1>1, <3>1, <3>2
  <2>3. i = 0 \/ i > 0
    OBVIOUS
  <2> QED
    BY <2>1, <2>2, <2>3
<1>3. i + 1 \in 1..Len(q) /\ q[i + 1] \in Nat \X Nat
  BY <1>2, Place
<1>4. LineOf(b, i, w)[i + 1] = q[i + 1] /\ LineOf(b, i, w) # <<>>
  <2>1. \A j \in 1..Len(q) : j \in 1..Len(LineOf(b, i, w)) /\ LineOf(b, i, w)[j] = q[j]
    <3>1. /\ LineOf(b, i, w) = q \o v
          /\ q \in Seq(Nat \X Nat) /\ v \in Seq(Nat \X Nat)
      BY <1>1, <1>2
    <3> QED
      BY ONLY <3>1, Joined
  <2>2. i + 1 \in 1..Len(LineOf(b, i, w)) /\ LineOf(b, i, w)[i + 1] = q[i + 1]
    BY ONLY <1>3, <2>1
  <2>3. LineOf(b, i, w) # <<>>
    BY ONLY <2>2
  <2> QED
    BY <2>2, <2>3
<1>5. TakenOf(S, r, b, i, w) = q[i + 1][1] - 1
  BY <1>4 DEF TakenOf
<1>6. PICK k \in Nat : k = q[i + 1][1]
  BY <1>3
<1>7. q[i + 1][1] = TakenOf(S, r, b, i, w) + 1
  <2>1. TakenOf(S, r, b, i, w) = k - 1
    BY <1>5, <1>6
  <2>2. k = (k - 1) + 1
    OBVIOUS
  <2> QED
    BY ONLY <1>6, <2>1, <2>2
<1> QED
  BY <1>1, <1>2, <1>7 DEF Begun

-----------------------------------------------------------------------------
(* What was taken.                                                         *)

(* What a frame is does not change when more are taken,                    *)
LEMMA KindsWiden ==
    ASSUME NEW S, NEW n \in Nat, NEW q
    PROVE  /\ Message(S, n, q) => Message(S, n + 1, q)
           /\ Single(S, n, q) => Single(S, n + 1, q)
           /\ Part(S, n, q) => Part(S, n + 1, q)
<1>1. \A k \in 1..n : k \in 1..(n + 1)
  OBVIOUS
<1>2. Message(S, n, q) => Message(S, n + 1, q)
  BY <1>1 DEF Message
<1>3. Single(S, n, q) => Single(S, n + 1, q)
  BY <1>1 DEF Single
<1>4. Part(S, n, q) => Part(S, n + 1, q)
  BY <1>1 DEF Part
<1> QED
  BY <1>2, <1>3, <1>4

(* nor what a list of them is.                                             *)
LEMMA SoundWidens ==
    ASSUME NEW S, NEW n \in Nat, NEW L, Sound(S, n, L)
    PROVE  Sound(S, n + 1, L)
  BY KindsWiden DEF Sound

(* A frame that is not data changes nothing of what was taken.             *)
LEMMA PassesOver ==
    ASSUME NEW S, NEW n \in Nat, NEW L, NEW f, Accounts(S, n, L, f),
           S[n + 1].op # "data"
    PROVE  Accounts(S, n + 1, L, f)
<1>1. Sound(S, n + 1, L) /\ Part(S, n + 1, f)
  BY SoundWidens, KindsWiden DEF Accounts
<1>2. Complete(S, n + 1, L, f)
  <2>1. \A k \in 1..(n + 1) : k = n + 1 \/ k \in 1..n
    OBVIOUS
  <2>2. Complete(S, n, L, f)
    BY DEF Accounts
  <2> QED
    BY <2>1, <2>2 DEF Complete
<1> QED
  BY <1>1, <1>2 DEF Accounts

(* a frame that is alone, and is handed over                               *)
LEMMA AddSingle ==
    ASSUME NEW S, NEW n \in Nat, NEW L, NEW f, Accounts(S, n, L, f),
           NEW c \in 1..n, S[c].op # "data"
    PROVE  Accounts(S, n, Append(L, <<c>>), f)
<1> DEFINE q == <<c>>
           A == Append(L, q)
<1>1. q \in Seq(Nat) /\ Single(S, n, q) /\ ~IsMessage(S, q)
  BY DEF Single, IsMessage
<1>2. L \in Seq(Seq(Nat)) /\ f \in Seq(Nat)
  BY DEF Accounts
<1> HIDE DEF q
<1>3. /\ A \in Seq(Seq(Nat))
      /\ A[Len(L) + 1] = q
      /\ \A m \in DOMAIN L : A[m] = L[m] /\ m \in DOMAIN A
      /\ \A m \in DOMAIN A : \/ m \in DOMAIN L /\ A[m] = L[m]
                             \/ m = Len(L) + 1 /\ A[m] = q
  BY <1>1, <1>2, AppendIs
<1> HIDE DEF A
<1>4. Sound(S, n, A)
  BY <1>1, <1>3 DEF Accounts, Sound
<1>5. InOrder(S, A)
  BY <1>1, <1>3 DEF Accounts, InOrder
<1>6. Behind(S, A, f)
  BY <1>1, <1>3 DEF Accounts, Behind
<1>7. Complete(S, n, A, f)
  BY <1>3 DEF Accounts, Complete
<1> QED
  BY <1>2, <1>3, <1>4, <1>5, <1>6, <1>7 DEF Accounts, A, q

(* q is the fragments f with the next frame                                *)
Continued(S, n, f, q) ==
    /\ q \in Seq(Nat) /\ Holds(q, n + 1)
    /\ S[n + 1].fin => Message(S, n + 1, q)
    /\ ~S[n + 1].fin => Part(S, n + 1, q)
    /\ \A k : Holds(f, k) => Holds(q, k)

(* A data frame joins the fragments, which are a message if it is the      *)
(* final one.                                                              *)
LEMMA NextPart ==
    ASSUME NEW S, NEW n \in Nat, NEW f \in Seq(Nat), Part(S, n, f), NEW q, q = Append(f, n + 1),
           S[n + 1].op = "data"
    PROVE  Continued(S, n, f, q)
<1>1. n + 1 \in Nat
  OBVIOUS
<1>2. /\ q \in Seq(Nat) /\ Len(q) = Len(f) + 1
      /\ Len(f) \in Nat /\ q[Len(f) + 1] = n + 1
      /\ \A m \in DOMAIN f : q[m] = f[m] /\ m \in DOMAIN q
      /\ \A m \in DOMAIN q : \/ m \in DOMAIN f /\ q[m] = f[m]
                             \/ m = Len(f) + 1 /\ q[m] = n + 1
      /\ Len(f) + 1 \in DOMAIN q
      /\ \A m \in DOMAIN f : m \in Nat /\ m < Len(f) + 1
  BY <1>1, AppendIs
<1>3. \A m \in DOMAIN f : f[m] \in 1..n /\ S[f[m]].op = "data" /\ ~S[f[m]].fin
  BY DEF Part
<1>4. Rising(f)
  BY DEF Part
<1>5. Rising(q)
  <2> SUFFICES ASSUME NEW i \in DOMAIN q, NEW j \in DOMAIN q, i < j PROVE q[i] < q[j]
    BY DEF Rising
  <2>1. CASE j \in DOMAIN f /\ q[j] = f[j]
    <3>1. i \in DOMAIN f /\ q[i] = f[i]
      <4>1. ~(i = Len(f) + 1)
        BY ONLY <1>2, <2>1, i < j
      <4> QED
        BY <1>2, <4>1
    <3> QED
      BY <1>4, <2>1, <3>1 DEF Rising
  <2>2. CASE j = Len(f) + 1 /\ q[j] = n + 1
    <3>1. i \in DOMAIN f /\ q[i] = f[i]
      <4>1. ~(i = Len(f) + 1)
        BY ONLY <1>2, <2>2, i < j
      <4> QED
        BY <1>2, <4>1
    <3>2. f[i] \in 1..n
      BY <1>3, <3>1
    <3> QED
      BY <2>2, <3>1, <3>2
  <2> QED
    BY <1>2, <2>1, <2>2
<1>6. \A i \in DOMAIN q : q[i] \in 1..(n + 1) /\ S[q[i]].op = "data"
  BY <1>2, <1>3
<1>7. \A i \in DOMAIN q : i # Len(q) => ~S[q[i]].fin
  BY <1>2, <1>3
<1>8. q[Len(q)] = n + 1 /\ q # <<>>
  BY <1>2
<1>9. S[n + 1].fin => Message(S, n + 1, q)
  BY <1>5, <1>6, <1>7, <1>8 DEF Message
<1>10. ~S[n + 1].fin => Part(S, n + 1, q)
  BY <1>2, <1>3, <1>5, <1>6 DEF Part
<1> QED
  BY <1>2, <1>9, <1>10 DEF Holds, Continued

(* What was taken before is before it.                                     *)
LEMMA StaysBehind ==
    ASSUME NEW S, NEW n \in Nat, NEW L \in Seq(Seq(Nat)), NEW f \in Seq(Nat), Sound(S, n, L),
           Behind(S, L, f), NEW q, q = Append(f, n + 1)
    PROVE  Behind(S, L, q)
<1> SUFFICES ASSUME NEW l \in DOMAIN L, IsMessage(S, L[l]) PROVE Before(L[l], q)
  BY DEF Behind
<1>1. Before(L[l], f)
  BY DEF Behind
<1>2. Message(S, n, L[l])
  BY DEF Sound, Single, IsMessage
<1>3. \A i \in DOMAIN L[l] : L[l][i] \in 1..n
  BY <1>2 DEF Message
<1>4. \A m \in DOMAIN q : \/ m \in DOMAIN f /\ q[m] = f[m]
                          \/ q[m] = n + 1
  BY AppendIs, SMTT(40)
<1>5. ASSUME NEW i \in DOMAIN L[l], NEW m \in DOMAIN q PROVE L[l][i] < q[m]
  <2>1. CASE m \in DOMAIN f /\ q[m] = f[m]
    BY <1>1, <1>5, <2>1 DEF Before
  <2>2. CASE q[m] = n + 1
    <3>1. L[l][i] \in 1..n
      BY <1>3, <1>5
    <3>2. L[l][i] < n + 1
      BY ONLY <3>1, n \in Nat
    <3> QED
      BY <2>2, <3>2
  <2> QED
    BY <1>4, <1>5, <2>1, <2>2
<1> QED
  BY <1>5 DEF Before

(* the next frame is a fragment                                            *)
LEMMA AddPart ==
    ASSUME NEW S, NEW n \in Nat, NEW L, NEW f, Accounts(S, n, L, f),
           S[n + 1].op = "data", ~S[n + 1].fin
    PROVE  Accounts(S, n + 1, L, Append(f, n + 1))
<1> DEFINE q == Append(f, n + 1)
<1>1. L \in Seq(Seq(Nat)) /\ f \in Seq(Nat) /\ Part(S, n, f) /\ Sound(S, n, L) /\ Behind(S, L, f)
      /\ Complete(S, n, L, f) /\ InOrder(S, L)
  BY DEF Accounts
<1>2. q \in Seq(Nat) /\ Holds(q, n + 1) /\ Part(S, n + 1, q) /\ \A k : Holds(f, k) => Holds(q, k)
  <2>1. /\ n \in Nat /\ f \in Seq(Nat) /\ Part(S, n, f) /\ q = Append(f, n + 1)
        /\ S[n + 1].op = "data"
    BY <1>1
  <2>2. Continued(S, n, f, q)
    BY <2>1, NextPart
  <2> QED
    BY <2>2 DEF Continued
<1>3. Behind(S, L, q)
  BY <1>1, StaysBehind
<1> HIDE DEF q
<1>4. Sound(S, n + 1, L)
  BY <1>1, SoundWidens
<1>5. Complete(S, n + 1, L, q)
  <2>1. \A k \in 1..(n + 1) : k = n + 1 \/ k \in 1..n
    OBVIOUS
  <2> QED
    BY <1>1, <1>2, <2>1 DEF Complete
<1> QED
  BY <1>1, <1>2, <1>3, <1>4, <1>5 DEF Accounts, q

(* the next frame ends a message                                           *)
LEMMA AddMessage ==
    ASSUME NEW S, NEW n \in Nat, NEW L, NEW f, Accounts(S, n, L, f),
           S[n + 1].op = "data", S[n + 1].fin
    PROVE  Accounts(S, n + 1, Append(L, Append(f, n + 1)), <<>>)
<1> DEFINE q == Append(f, n + 1)
           A == Append(L, q)
<1>1. L \in Seq(Seq(Nat)) /\ f \in Seq(Nat) /\ Part(S, n, f) /\ Sound(S, n, L) /\ Behind(S, L, f)
      /\ Complete(S, n, L, f) /\ InOrder(S, L)
  BY DEF Accounts
<1>2. q \in Seq(Nat) /\ Holds(q, n + 1) /\ Message(S, n + 1, q) /\ \A k : Holds(f, k) => Holds(q, k)
  <2>1. /\ n \in Nat /\ f \in Seq(Nat) /\ Part(S, n, f) /\ q = Append(f, n + 1)
        /\ S[n + 1].op = "data"
    BY <1>1
  <2>2. Continued(S, n, f, q)
    BY <2>1, NextPart
  <2> QED
    BY <2>2 DEF Continued
<1>3. Behind(S, L, q)
  BY <1>1, StaysBehind
<1> HIDE DEF q
<1>4. /\ A \in Seq(Seq(Nat))
      /\ Len(L) \in Nat /\ A[Len(L) + 1] = q
      /\ \A m \in DOMAIN L : A[m] = L[m] /\ m \in DOMAIN A
      /\ \A m \in DOMAIN A : \/ m \in DOMAIN L /\ A[m] = L[m]
                             \/ m = Len(L) + 1 /\ A[m] = q
      /\ Len(L) + 1 \in DOMAIN A
      /\ \A m \in DOMAIN L : m \in Nat /\ m < Len(L) + 1
  BY <1>1, <1>2, AppendIs
<1> HIDE DEF A
<1>5. Sound(S, n + 1, A)
  <2>1. Sound(S, n + 1, L)
    BY <1>1, SoundWidens
  <2> QED
    BY <1>2, <1>4, <2>1 DEF Sound
<1>6. InOrder(S, A)
  <2> SUFFICES ASSUME NEW l \in DOMAIN A, NEW m \in DOMAIN A, l < m,
                      IsMessage(S, A[l]), IsMessage(S, A[m])
               PROVE  Before(A[l], A[m])
    BY DEF InOrder
  <2>1. CASE m \in DOMAIN L /\ A[m] = L[m]
    <3>1. ~(l = Len(L) + 1)
      BY ONLY <1>4, <2>1, l < m
    <3>2. l \in DOMAIN L /\ A[l] = L[l]
      BY <1>4, <3>1
    <3> QED
      BY <1>1, <2>1, <3>2 DEF InOrder
  <2>2. CASE m = Len(L) + 1 /\ A[m] = q
    <3>1. ~(l = Len(L) + 1)
      BY ONLY <1>4, <2>2, l < m
    <3>2. l \in DOMAIN L /\ A[l] = L[l]
      BY <1>4, <3>1
    <3> QED
      BY <1>3, <2>2, <3>2 DEF Behind
  <2> QED
    BY <1>4, <2>1, <2>2
<1>7. Behind(S, A, <<>>) /\ Part(S, n + 1, <<>>) /\ <<>> \in Seq(Nat)
  BY DEF Behind, Before, Part, Rising
<1>8. Complete(S, n + 1, A, <<>>)
  <2>1. \A k \in 1..(n + 1) : k = n + 1 \/ k \in 1..n
    OBVIOUS
  <2> QED
    BY <1>1, <1>2, <1>4, <2>1 DEF Complete
<1> QED
  BY <1>4, <1>5, <1>6, <1>7, <1>8 DEF Accounts, A, q

(* What was taken does not change when more is sent.                       *)
LEMMA AccountsGrow ==
    ASSUME NEW S, NEW T, NEW n \in Nat, \A k \in 1..n : T[k] = S[k],
           NEW L, NEW f, Accounts(S, n, L, f)
    PROVE  /\ Accounts(T, n, L, f)
           /\ \A l \in DOMAIN L : IsMessage(T, L[l]) <=> IsMessage(S, L[l])
<1>1. /\ L \in Seq(Seq(Nat)) /\ f \in Seq(Nat) /\ Part(S, n, f) /\ Sound(S, n, L)
      /\ Behind(S, L, f) /\ Complete(S, n, L, f) /\ InOrder(S, L)
  BY DEF Accounts
<1>2. \A l \in DOMAIN L : L[l] \in Seq(Nat)
  BY <1>1
<1>3. ASSUME NEW l \in DOMAIN L PROVE L[l][1] \in 1..n
  <2>1. CASE Message(S, n, L[l])
    <3>1. 1 \in DOMAIN L[l]
      <4>1. L[l] \in Seq(Nat) /\ L[l] # <<>>
        BY <1>2, <2>1 DEF Message
      <4> QED
        BY ONLY <4>1
    <3> QED
      BY <2>1, <3>1 DEF Message
  <2>2. CASE Single(S, n, L[l])
    BY <2>2 DEF Single
  <2> QED
    BY <1>1, <2>1, <2>2 DEF Sound
<1>4. \A l \in DOMAIN L : IsMessage(T, L[l]) <=> IsMessage(S, L[l])
  BY <1>3 DEF IsMessage
<1>5. \A l \in DOMAIN L : /\ Message(S, n, L[l]) => Message(T, n, L[l])
                          /\ Single(S, n, L[l]) => Single(T, n, L[l])
  BY DEF Message, Single
<1>6. Sound(T, n, L)
  BY <1>1, <1>5 DEF Sound
<1>7. Part(T, n, f)
  BY <1>1 DEF Part
<1>8. InOrder(T, L)
  BY <1>1, <1>4 DEF InOrder
<1>9. Behind(T, L, f)
  BY <1>1, <1>4 DEF Behind
<1>10. Complete(T, n, L, f)
  BY <1>1 DEF Complete
<1> QED
  BY <1>1, <1>4, <1>6, <1>7, <1>8, <1>9, <1>10 DEF Accounts

(* A control frame that was handed over is not missed.                     *)
LEMMA Dropped ==
    ASSUME NEW S, NEW n \in Nat, NEW g \in Seq(Seq(Nat)), NEW b \in Seq(Seq(Nat)), b # <<>>,
           NEW f, Accounts(S, n, g \o b, f), ~IsMessage(S, Head(b))
    PROVE  Accounts(S, n, g \o Tail(b), f)
<1> DEFINE A == g \o b
           B == g \o Tail(b)
<1>1. /\ f \in Seq(Nat) /\ Part(S, n, f) /\ Sound(S, n, A)
      /\ Behind(S, A, f) /\ Complete(S, n, A, f) /\ InOrder(S, A)
  BY DEF Accounts
<1>2. /\ A \in Seq(Seq(Nat)) /\ B \in Seq(Seq(Nat))
      /\ \E k \in 1..Len(A) :
            /\ A[k] = Head(b) /\ Len(A) = Len(B) + 1
            /\ \A m \in 1..Len(B) : B[m] = IF m < k THEN A[m] ELSE A[m + 1]
  <2>1. LeftOut(Seq(Nat), A, B, Head(b))
    BY LeftOutIs
  <2> QED
    BY <2>1 DEF LeftOut
<1> HIDE DEF A, B
<1>3. PICK k \in 1..Len(A) :
            /\ A[k] = Head(b) /\ Len(A) = Len(B) + 1
            /\ \A m \in 1..Len(B) : B[m] = IF m < k THEN A[m] ELSE A[m + 1]
  BY <1>2
<1>4. PICK z \in Nat : z = Len(B)
  BY <1>2
<1>5. DOMAIN A = 1..(z + 1) /\ DOMAIN B = 1..z /\ k \in 1..(z + 1)
  BY <1>2, <1>3, <1>4
<1> DEFINE from(m) == IF m < k THEN m ELSE m + 1
<1>6. /\ \A m \in 1..z : from(m) \in 1..(z + 1) /\ B[m] = A[from(m)]
      /\ \A l, m \in 1..z : l < m => from(l) < from(m)
  BY <1>3, <1>4, <1>5
<1>7. \A j \in 1..(z + 1) : j # k => \E m \in 1..z : from(m) = j
  <2> SUFFICES ASSUME NEW j \in 1..(z + 1), j # k PROVE \E m \in 1..z : from(m) = j
    OBVIOUS
  <2>1. CASE j < k
    <3>1. j \in 1..z /\ from(j) = j
      BY <1>5, <2>1
    <3> QED
      BY <3>1
  <2>2. CASE j > k
    <3>1. j - 1 \in 1..z /\ from(j - 1) = j
      BY <1>5, <2>2
    <3> QED
      BY <3>1
  <2> QED
    BY <1>5, <2>1, <2>2
<1> HIDE DEF from
<1>8. Sound(S, n, B)
  BY <1>1, <1>5, <1>6 DEF Sound
<1>9. InOrder(S, B)
  <2> SUFFICES ASSUME NEW l \in 1..z, NEW m \in 1..z, l < m,
                      IsMessage(S, B[l]), IsMessage(S, B[m])
               PROVE  Before(B[l], B[m])
    BY <1>5 DEF InOrder
  <2>1. /\ from(l) \in DOMAIN A /\ from(m) \in DOMAIN A /\ from(l) < from(m)
        /\ B[l] = A[from(l)] /\ B[m] = A[from(m)]
    BY <1>5, <1>6
  <2> QED
    BY <1>1, <2>1 DEF InOrder
<1>10. Behind(S, B, f)
  BY <1>1, <1>5, <1>6 DEF Behind
<1>11. Complete(S, n, B, f)
  <2> SUFFICES ASSUME NEW c \in 1..n, S[c].op = "data", ~Holds(f, c)
               PROVE  \E m \in DOMAIN B : Holds(B[m], c)
    BY DEF Complete
  <2>1. PICK j \in DOMAIN A : Holds(A[j], c)
    BY <1>1 DEF Complete
  <2>2. j # k
    <3> SUFFICES ASSUME j = k PROVE FALSE
      OBVIOUS
    <3>1. ~IsMessage(S, A[k]) /\ A[k] \in Seq(Nat)
      BY <1>2, <1>3
    <3>2. Message(S, n, A[k]) \/ Single(S, n, A[k])
      BY <1>1, <1>3, <1>5 DEF Sound
    <3>3. ~Message(S, n, A[k])
      <4> SUFFICES ASSUME Message(S, n, A[k]) PROVE FALSE
        OBVIOUS
      <4>1. A[k] # <<>>
        BY DEF Message
      <4>2. 1 \in DOMAIN A[k]
        BY ONLY <3>1, <4>1
      <4> QED
        BY <3>1, <4>2 DEF Message, IsMessage
    <3>4. Len(A[k]) = 1 /\ S[A[k][1]].op # "data"
      BY <3>2, <3>3 DEF Single
    <3>5. \A i \in DOMAIN A[k] : i = 1
      BY ONLY <3>1, <3>4
    <3> QED
      BY <2>1, <3>4, <3>5 DEF Holds
  <2>3. PICK m \in 1..z : from(m) = j
    BY <1>5, <1>7, <2>2
  <2> QED
    BY <1>5, <1>6, <2>1, <2>3
<1> QED
  BY <1>1, <1>2, <1>8, <1>9, <1>10, <1>11 DEF Accounts, B

-----------------------------------------------------------------------------
(* The loop of onTcpReceive.                                               *)

(* The states of the loop of onTcpReceive                                  *)
States == [frags : Seq(Nat), close : Nat, out : Seq(Seq(Nat))]

(* st is what side s has made of the first n frames.                       *)
Reached(s, n, st) ==
    /\ st \in States
    /\ Accounts(sent[Peer(s)], n, got[s] \o st.out, st.frags)
    /\ HoldsBack(s, n, st.close)

(* a frame that is taken leaves a state of the loop                        *)
LEMMA TakeTypes ==
    ASSUME NEW s \in Sides, sent[Peer(s)] \in Seq(Frames),
           NEW n \in 1..Len(sent[Peer(s)]), NEW st \in States
    PROVE  Take(s, st, n) \in States
<1> DEFINE f == sent[Peer(s)][n]
<1>1. f \in Frames
  OBVIOUS
<1>2. f.op \in {"data", "ping", "pong", "close"}
  BY <1>1 DEF Frames
<1>3. n \in Nat /\ <<n>> \in Seq(Nat) /\ st.frags \in Seq(Nat) /\ st.out \in Seq(Seq(Nat))
  BY DEF States
<1>4. /\ Append(st.frags, n) \in Seq(Nat) /\ <<>> \in Seq(Nat)
      /\ Append(st.out, <<n>>) \in Seq(Seq(Nat))
  BY <1>3
<1>5. Append(st.out, Append(st.frags, n)) \in Seq(Seq(Nat))
  BY <1>3, <1>4
<1>6. Take(s, st, n) = CASE f.op = "close" -> [st EXCEPT !.close = n]
                        [] f.op \in {"ping", "pong"} -> [st EXCEPT !.out = Append(@, <<n>>)]
                        [] f.op = "data" /\ f.fin ->
                              [st EXCEPT !.out = Append(@, Append(st.frags, n)), !.frags = <<>>]
                        [] f.op = "data" /\ ~f.fin -> [st EXCEPT !.frags = Append(@, n)]
  BY DEF Take
<1> HIDE DEF f
<1>7. CASE f.op = "close"
  BY <1>3, <1>6, <1>7 DEF States
<1>8. CASE f.op \in {"ping", "pong"}
  BY <1>4, <1>6, <1>8 DEF States
<1>9. CASE f.op = "data" /\ f.fin
  BY <1>4, <1>5, <1>6, <1>9 DEF States
<1>10. CASE f.op = "data" /\ ~f.fin
  BY <1>4, <1>6, <1>10 DEF States
<1> QED
  BY <1>2, <1>7, <1>8, <1>9, <1>10

(* S holds one close frame at most.                                        *)
Lone(S) == \A j, k \in DOMAIN S : S[j].op = "close" /\ S[k].op = "close" => j = k

(* The next frame is taken: the list, the fragments and the close frame    *)
(* held back account for one frame more.                                   *)
LEMMA TakeIs ==
    ASSUME NEW s \in Sides, NEW S, S = sent[Peer(s)], S \in Seq(Frames),
           got[s] \in Seq(Seq(Nat)), Lone(S),
           NEW n \in Nat, n + 1 <= Len(S), NEW st, Reached(s, n, st)
    PROVE  Reached(s, n + 1, Take(s, st, n + 1))
<1> DEFINE f == S[n + 1]
           g == got[s]
<1>0. PICK m \in Nat : m = n + 1 /\ m \in 1..Len(S) /\ m \in 1..m
  OBVIOUS
<1>1. f \in Frames
  BY <1>0
<1>2. f.op \in {"data", "ping", "pong", "close"}
  BY <1>1 DEF Frames
<1>3. /\ st \in States /\ st.frags \in Seq(Nat) /\ st.out \in Seq(Seq(Nat)) /\ st.close \in Nat
      /\ Accounts(S, n, g \o st.out, st.frags) /\ HoldsBack(s, n, st.close)
  BY DEF States, Reached
<1>4. PICK fr \in Seq(Nat) : fr = st.frags
  BY <1>3
<1>5. PICK o \in Seq(Seq(Nat)) : o = st.out
  BY <1>3
<1>6. PICK c \in Nat : c = st.close
  BY <1>3
<1>7. Accounts(S, n, g \o o, fr) /\ HoldsBack(s, n, c)
  BY <1>3, <1>4, <1>5, <1>6
<1>8. Take(s, st, m) = CASE f.op = "close" -> [st EXCEPT !.close = m]
                        [] f.op \in {"ping", "pong"} -> [st EXCEPT !.out = Append(o, <<m>>)]
                        [] f.op = "data" /\ f.fin ->
                              [st EXCEPT !.out = Append(o, Append(fr, m)), !.frags = <<>>]
                        [] f.op = "data" /\ ~f.fin -> [st EXCEPT !.frags = Append(fr, m)]
  BY <1>0, <1>4, <1>5 DEF Take
<1>9. f = S[m]
  BY <1>0
<1> HIDE DEF f
<1>10. <<m>> \in Seq(Nat) /\ Append(fr, m) \in Seq(Nat) /\ <<>> \in Seq(Nat)
  BY <1>4
<1>11. /\ Append(o, <<m>>) \in Seq(Seq(Nat)) /\ Append(o, Append(fr, m)) \in Seq(Seq(Nat))
       /\ g \o Append(o, <<m>>) = Append(g \o o, <<m>>)
       /\ g \o Append(o, Append(fr, m)) = Append(g \o o, Append(fr, m))
  <2>1. /\ g \in Seq(Seq(Nat)) /\ o \in Seq(Seq(Nat))
        /\ <<m>> \in Seq(Nat) /\ Append(fr, m) \in Seq(Nat)
    BY <1>10
  <2> HIDE DEF g
  <2>2. Append(o, <<m>>) \in Seq(Seq(Nat)) /\ Append(o, Append(fr, m)) \in Seq(Seq(Nat))
    BY ONLY <2>1
  <2>3. g \o Append(o, <<m>>) = Append(g \o o, <<m>>)
    BY ONLY <2>1, AppendsJoin
  <2>4. g \o Append(o, Append(fr, m)) = Append(g \o o, Append(fr, m))
    BY ONLY <2>1, AppendsJoin
  <2> QED
    BY <2>2, <2>3, <2>4
<1>a. PICK fr1 \in Seq(Nat) : fr1 = Append(fr, m)
  BY <1>10
<1>b. PICK o1 \in Seq(Seq(Nat)) : o1 = Append(o, <<m>>)
  BY <1>11
<1>c. PICK o2 \in Seq(Seq(Nat)) : o2 = Append(o, Append(fr, m))
  BY <1>11
<1>12. f.op # "close" => HoldsBack(s, m, c)
  <2>1. \A k \in 1..m : k = m \/ k \in 1..n
    BY <1>0
  <2>2. 0..n \subseteq 0..m
    BY <1>0
  <2> QED
    BY <1>7, <1>9, <2>1, <2>2 DEF HoldsBack
<1>13. CASE f.op = "close"
  <2>1. Accounts(S, m, g \o o, fr)
    BY <1>0, <1>7, <1>9, <1>13, PassesOver
  <2>2. HoldsBack(s, m, m)
    <3>1. \A k \in 1..m : k \in DOMAIN S
      BY <1>0
    <3>2. ASSUME NEW k \in 1..m, S[k].op = "close" PROVE k = m
      BY <1>0, <1>9, <1>13, <3>1, <3>2 DEF Lone
    <3> QED
      BY <1>9, <1>13, <3>2 DEF HoldsBack
  <2>3. Take(s, st, m) = [st EXCEPT !.close = m]
    BY <1>8, <1>13
  <2>4. /\ Take(s, st, m) \in States /\ Take(s, st, m).close = m
        /\ Take(s, st, m).frags = fr /\ Take(s, st, m).out = o
    BY <1>3, <1>4, <1>5, <2>3 DEF States
  <2> QED
    BY <1>0, <2>1, <2>2, <2>4 DEF Reached
<1>14. CASE f.op \in {"ping", "pong"}
  <2>1. Accounts(S, m, g \o o, fr)
    BY <1>0, <1>7, <1>9, <1>14, PassesOver
  <2>2. Accounts(S, m, Append(g \o o, <<m>>), fr)
    BY <1>0, <1>9, <1>14, <2>1, AddSingle
  <2>3. Take(s, st, m) = [st EXCEPT !.out = Append(o, <<m>>)]
    BY <1>8, <1>14
  <2>4. /\ Take(s, st, m) \in States /\ Take(s, st, m).close = c
        /\ Take(s, st, m).frags = fr /\ Take(s, st, m).out = Append(o, <<m>>)
    <3>1. Take(s, st, m) = [st EXCEPT !.out = o1]
      BY <1>b, <2>3
    <3> QED
      BY <1>3, <1>4, <1>6, <1>b, <3>1 DEF States
  <2> QED
    BY <1>0, <1>11, <1>12, <1>14, <2>2, <2>4 DEF Reached
<1>15. CASE f.op = "data" /\ f.fin
  <2>1. Accounts(S, m, Append(g \o o, Append(fr, m)), <<>>)
    BY <1>0, <1>7, <1>9, <1>15, AddMessage
  <2>2. Take(s, st, m) = [st EXCEPT !.out = Append(o, Append(fr, m)), !.frags = <<>>]
    BY <1>8, <1>15
  <2>3. /\ Take(s, st, m) \in States /\ Take(s, st, m).close = c
        /\ Take(s, st, m).frags = <<>> /\ Take(s, st, m).out = Append(o, Append(fr, m))
    <3>1. Take(s, st, m) = [st EXCEPT !.out = o2, !.frags = <<>>]
      BY <1>c, <2>2
    <3> QED
      BY <1>3, <1>6, <1>10, <1>c, <3>1 DEF States
  <2> QED
    BY <1>0, <1>11, <1>12, <1>15, <2>1, <2>3 DEF Reached
<1>16. CASE f.op = "data" /\ ~f.fin
  <2>1. Accounts(S, m, g \o o, Append(fr, m))
    BY <1>0, <1>7, <1>9, <1>16, AddPart
  <2>2. Take(s, st, m) = [st EXCEPT !.frags = Append(fr, m)]
    BY <1>8, <1>16
  <2>3. /\ Take(s, st, m) \in States /\ Take(s, st, m).close = c
        /\ Take(s, st, m).frags = Append(fr, m) /\ Take(s, st, m).out = o
    <3>1. Take(s, st, m) = [st EXCEPT !.frags = fr1]
      BY <1>a, <2>2
    <3> QED
      BY <1>3, <1>5, <1>6, <1>a, <3>1 DEF States
  <2> QED
    BY <1>0, <1>12, <1>16, <2>1, <2>3 DEF Reached
<1> QED
  BY <1>0, <1>2, <1>13, <1>14, <1>15, <1>16

(* Taking frame after frame, from a up to those before K, accounts for all *)
(* of them, however many there are.                                        *)
LEMMA TakeAllIs ==
    ASSUME NEW s \in Sides, NEW S, S = sent[Peer(s)], S \in Seq(Frames),
           got[s] \in Seq(Seq(Nat)), Lone(S),
           NEW a \in Nat, a >= 1, NEW K \in Nat, a <= K, K - 1 <= Len(S),
           NEW W \in Seq(Int), Len(W) = K - a, \A i \in 1..(K - a) : W[i] = a + i - 1,
           Reached(s, a - 1, StartState(s))
    PROVE  Reached(s, K - 1, TakeAll(s, W))
<1> DEFINE x == StartState(s)
           n == Len(W)
           g == [j \in 1..n |-> [y \in States |-> Take(s, y, W[j])]]
           Is(h) == h = [i \in 0..Len(W) |-> IF i = 0 THEN StartState(s)
                                             ELSE Take(s, h[i - 1], W[i])]
           after == CHOOSE h : Is(h)
<1>1. TakeAll(s, W) = after[n]
  BY DEF TakeAll
<1>2. PICK l \in Nat : l = n
  <2>1. K - a \in Nat
    OBVIOUS
  <2> QED
    BY <2>1
<1>3. l = K - a /\ \A j \in 1..l : W[j] = a + j - 1 /\ W[j] \in 1..Len(S)
  BY <1>2
<1>4. x \in States
  BY DEF Reached
<1>5. \A j \in 1..l : \A y \in States : Take(s, y, W[j]) \in States
  BY <1>3, TakeTypes
<1>6. g \in [1..n -> [States -> States]]
  BY <1>2, <1>5
<1>7. \A j \in 1..n : \A y \in States : g[j][y] = Take(s, y, W[j])
  OBVIOUS
<1> HIDE DEF x, n, g, Is, after
<1>8. PICK h : h \in [0..l -> States] /\ h[0] = x /\ \A j \in 1..l : h[j] = g[j][h[j - 1]]
  <2>1. l \in Nat /\ x \in States /\ g \in [1..l -> [States -> States]]
    BY <1>2, <1>4, <1>6
  <2>2. \E h : Course(h, States, x, g, l)
    BY <2>1, Unfolds
  <2> QED
    BY <2>2 DEF Course
<1>9. Is(h)
  <2>1. \A j \in 0..l : h[j] = IF j = 0 THEN x ELSE Take(s, h[j - 1], W[j])
    <3> SUFFICES ASSUME NEW j \in 0..l
                 PROVE  h[j] = IF j = 0 THEN x ELSE Take(s, h[j - 1], W[j])
      OBVIOUS
    <3>1. CASE j = 0
      BY <1>8, <3>1
    <3>2. CASE j # 0
      <4>1. j \in 1..l /\ j - 1 \in 0..l
        BY <1>2, <3>2
      <4>2. h[j - 1] \in States
        BY <1>8, <4>1
      <4> QED
        BY <1>2, <1>7, <1>8, <3>2, <4>1, <4>2
    <3> QED
      BY <3>1, <3>2
  <2>2. h = [j \in 0..l |-> IF j = 0 THEN x ELSE Take(s, h[j - 1], W[j])]
    BY <1>8, <2>1
  <2> QED
    BY <1>2, <2>2 DEF n, x, Is
<1>10. Is(after)
  BY <1>9 DEF after
<1>11. after[0] = x /\ \A j \in 1..l : after[j] = Take(s, after[j - 1], W[j])
  <2>1. after = [i \in 0..l |-> IF i = 0 THEN x ELSE Take(s, after[i - 1], W[i])]
    BY <1>2, <1>10 DEF n, x, Is
  <2>2. 0 \in 0..l /\ \A j \in 1..l : j \in 0..l /\ j # 0
    BY <1>2
  <2> QED
    BY <2>1, <2>2
<1> DEFINE Good(j) == Reached(s, (a - 1) + j, after[j])
           B == {j \in 0..l : ~Good(j)}
<1>12. ASSUME B # {} PROVE FALSE
  <2>1. B \in SUBSET Nat
    OBVIOUS
  <2>2. PICK m \in B : \A y \in B : m <= y
    BY <1>12, <2>1, MinNat
  <2>3. Good(0)
    <3>1. (a - 1) + 0 = a - 1
      OBVIOUS
    <3> QED
      BY <1>11, <3>1 DEF x
  <2>4. m \in 0..l /\ ~Good(m) /\ \A y \in 0..l : ~Good(y) => m <= y
    BY <2>2
  <2> HIDE DEF Good, B
  <2>5. m \in 1..l /\ m - 1 \in 0..l /\ ~(m <= m - 1)
    <3>1. m # 0
      BY <2>3, <2>4
    <3> QED
      BY ONLY <2>4, <3>1, l \in Nat
  <2>6. Good(m - 1)
    BY <2>4, <2>5
  <2>7. PICK k \in Nat : k = (a - 1) + (m - 1) /\ k + 1 = W[m] /\ k + 1 <= Len(S)
                         /\ (a - 1) + m = k + 1
    <3>1. W[m] = a + m - 1 /\ W[m] \in 1..Len(S)
      BY <1>3, <2>5
    <3>2. (a - 1) + (m - 1) \in Nat /\ ((a - 1) + (m - 1)) + 1 = a + m - 1
          /\ (a - 1) + m = ((a - 1) + (m - 1)) + 1
      <4>1. a \in Nat /\ a >= 1 /\ m \in 1..l /\ l \in Nat
        BY <1>2, <2>5
      <4> QED
        BY ONLY <4>1
    <3> QED
      BY <3>1, <3>2
  <2>8. Reached(s, k, after[m - 1])
    BY <2>6, <2>7 DEF Good
  <2>9. Reached(s, k + 1, Take(s, after[m - 1], k + 1))
    BY <2>7, <2>8, TakeIs
  <2>10. Good(m)
    BY <1>11, <2>5, <2>7, <2>9 DEF Good
  <2> QED
    BY <2>4, <2>10
<1>13. Good(l)
  <2>1. B = {}
    BY <1>12
  <2>2. l \in 0..l
    BY <1>2
  <2> QED
    BY <2>1, <2>2
<1>14. (a - 1) + l = K - 1
  <2>1. a \in Nat /\ K \in Nat /\ l = K - a
    BY <1>3
  <2> QED
    BY ONLY <2>1
<1> QED
  BY <1>1, <1>2, <1>13, <1>14

-----------------------------------------------------------------------------
(* The two sides.                                                          *)

(* two sides, each the peer of the other                                   *)
LEMMA PeerIs ==
    ASSUME NEW s \in Sides
    PROVE  Peer(s) \in Sides /\ Peer(s) # s /\ Peer(Peer(s)) = s /\ Sides = {s, Peer(s)}
  BY DEF Sides, Peer

(* a value set for one side                                                *)
SetFor(X, g, h, s, v) ==
    h \in [Sides -> X] /\ h[s] = v /\ h[Peer(s)] = g[Peer(s)]

(* what EXCEPT does                                                        *)
LEMMA SetIs ==
    ASSUME NEW X, NEW g \in [Sides -> X], NEW s \in Sides, NEW v \in X,
           NEW h, h = [g EXCEPT ![s] = v]
    PROVE  SetFor(X, g, h, s, v)
  BY PeerIs DEF SetFor

(* the types of what one side holds                                        *)
LEMMA TypesOf ==
    ASSUME WsTypes, NEW s \in Sides
    PROVE  /\ sent[s] \in Seq(Frames) /\ queue[s] \in Seq(Frames)
           /\ rest[s] \in Nat /\ calls[s] \in Nat
           /\ wire[s] \in Seq(Nat \X Nat) /\ buffer[s] \in Seq(Nat \X Nat)
           /\ position[s] \in Nat /\ position[s] <= Len(buffer[s])
           /\ fragments[s] \in Seq(Nat) /\ closeFrame[s] \in Nat
           /\ batch[s] \in Seq(Seq(Nat)) /\ got[s] \in Seq(Seq(Nat))
  BY DEF WsTypes, OutTypes, InTypes

(* What a step leaves alone at side x, or puts behind the line             *)
SameLine(x) ==
    /\ buffer'[x] = buffer[x] /\ position'[x] = position[x]
    /\ garbled'[x] = garbled[x] /\ alive' = alive

(* of what was taken                                                       *)
SameTaken(x) ==
    /\ fragments'[x] = fragments[x] /\ closeFrame'[x] = closeFrame[x]
    /\ closed'[x] = closed[x] /\ batch'[x] = batch[x] /\ got'[x] = got[x]

(* of the wire                                                             *)
SameWire(x) ==
    sent'[Peer(x)] = sent[Peer(x)] /\ rest'[Peer(x)] = rest[Peer(x)] /\ wire'[x] = wire[x]

(* or there are more units                                                 *)
MoreWire(x) ==
    \E u : /\ wire'[x] = wire[x] \o u
           /\ Puts(Peer(x), sent[Peer(x)], rest[Peer(x)],
                   sent'[Peer(x)], rest'[Peer(x)], u)

(* of what side x sends                                                    *)
SameOut(x) ==
    /\ sent'[x] = sent[x] /\ rest'[x] = rest[x] /\ torn'[x] = torn[x] /\ lost'[x] = lost[x]
    /\ calls'[x] = calls[x] /\ queue'[x] = queue[x] /\ flushing'[x] = flushing[x]
    /\ sentClose'[x] = sentClose[x]

(* A line stays one, with the same frames taken, when units are put        *)
(* behind it,                                                              *)
LEMMA LineStays ==
    ASSUME WsTypes, NEW x \in Sides, SameLine(x), SameWire(x) \/ MoreWire(x), Lined(x)
    PROVE  Lined(x)' /\ Taken(x)' = Taken(x)
<1>1. CASE SameWire(x)
  BY <1>1 DEF SameLine, SameWire, Lined, Taken
<1>2. CASE MoreWire(x)
  <2>1. PICK u : /\ wire'[x] = wire[x] \o u
                 /\ Puts(Peer(x), sent[Peer(x)], rest[Peer(x)],
                         sent'[Peer(x)], rest'[Peer(x)], u)
    BY <1>2 DEF MoreWire
  <2>2. PICK S, r, T, r1, v, b, i, w, p :
            /\ S = sent[Peer(x)] /\ T = sent'[Peer(x)]
            /\ r = rest[Peer(x)] /\ r1 = rest'[Peer(x)] /\ v = wire'[x]
            /\ b = buffer[x] /\ i = position[x] /\ w = wire[x] /\ p = Peer(x)
    OBVIOUS
  <2>3. /\ S \in Seq(Frames) /\ r \in Nat /\ b \in Seq(Nat \X Nat) /\ i \in Nat
        /\ i <= Len(b) /\ w \in Seq(Nat \X Nat)
    BY <2>2, TypesOf, PeerIs
  <2>4. Puts(p, S, r, T, r1, u) /\ v = w \o u /\ LinedOf(p, S, r, b, i, w)
    BY <2>1, <2>2 DEF Lined
  <2>5. LineGrown(p, S, r, T, r1, b, i, w, v)
    BY <2>3, <2>4, LineGrows, Zenon
  <2>6. LinedOf(p, T, r1, b, i, v) /\ TakenOf(T, r1, b, i, v) = TakenOf(S, r, b, i, w)
    BY <2>5 DEF LineGrown
  <2> QED
    BY <2>2, <2>6 DEF Lined, Taken, SameLine
<1> QED
  BY <1>1, <1>2

(* and so does what was made of the frames taken.                          *)
LEMMA HeedsStays ==
    ASSUME WsTypes, NEW x \in Sides, SameTaken(x), SameWire(x) \/ MoreWire(x), NEW n,
           Heeds(x, n)
    PROVE  Heeds(x, n)'
<1>1. CASE SameWire(x)
  BY <1>1 DEF SameTaken, SameWire, Heeds, HoldsBack
<1>2. CASE MoreWire(x)
  <2>2. PICK S \in Seq(Frames) : S = sent[Peer(x)]
    BY TypesOf, PeerIs
  <2>3. PICK T : T = sent'[Peer(x)] /\ (T = S \/ \E f \in Frames : T = Append(S, f))
    BY <1>2, <2>2 DEF MoreWire, Puts
  <2>4. /\ n \in 0..Len(S) /\ n \in Nat /\ n \in 0..Len(T)
        /\ \A k \in 1..n : T[k] = S[k]
    <3>1. n \in 0..Len(S)
      BY <2>2 DEF Heeds
    <3>2. CASE T = S
      BY <3>1, <3>2
    <3>3. CASE \E f \in Frames : T = Append(S, f)
      BY <3>1, <3>3
    <3> QED
      BY <2>3, <3>2, <3>3
  <2>5. PICK L : L = got[x] \o batch[x]
    OBVIOUS
  <2>6. Accounts(S, n, L, fragments[x])
    BY <2>2, <2>5 DEF Heeds
  <2>7. /\ Accounts(T, n, L, fragments[x])
        /\ \A l \in DOMAIN L : IsMessage(T, L[l]) <=> IsMessage(S, L[l])
    BY <2>4, <2>6, AccountsGrow
  <2>8. \A m \in DOMAIN got[x] : m \in DOMAIN L /\ L[m] = got[x][m]
    <3>1. PICK g \in Seq(Seq(Nat)) : g = got[x]
      BY TypesOf
    <3>2. PICK b \in Seq(Seq(Nat)) : b = batch[x]
      BY TypesOf
    <3>3. L = g \o b
      BY <2>5, <3>1, <3>2
    <3>4. \A m \in 1..Len(g) : m \in 1..Len(L) /\ L[m] = g[m]
      BY <3>3, Joined
    <3>5. DOMAIN g = 1..Len(g) /\ DOMAIN L = 1..Len(L)
      BY <3>3
    <3> QED
      BY <3>1, <3>4, <3>5
  <2>9. \A m \in DOMAIN got[x] : IsMessage(T, got[x][m])
    BY <2>2, <2>7, <2>8 DEF Heeds
  <2>10. HoldsBack(x, n, closeFrame[x])'
    <3>1. HoldsBack(x, n, closeFrame[x])
      BY DEF Heeds
    <3>2. \A c \in 0..n : c # 0 => c \in 1..n
      OBVIOUS
    <3>3. closeFrame'[x] = closeFrame[x] /\ closed'[x] = closed[x]
      BY DEF SameTaken
    <3> QED
      BY <2>2, <2>3, <2>4, <3>1, <3>2, <3>3 DEF HoldsBack
  <2>11. closed'[x] => \E k \in 1..n : T[k].op = "close"
    BY <2>2, <2>4 DEF Heeds, SameTaken
  <2> QED
    BY <2>3, <2>4, <2>5, <2>7, <2>9, <2>10, <2>11 DEF Heeds, SameTaken
<1> QED
  BY <1>1, <1>2

(* So nothing changes for the side that a frame is sent to.                *)
LEMMA HearsStays ==
    ASSUME WsTypes, NEW x \in Sides, SameLine(x), SameTaken(x), SameWire(x) \/ MoreWire(x),
           Hears(x)
    PROVE  Hears(x)'
<1>1. alive /\ ~garbled[x] => Lined(x)' /\ Taken(x)' = Taken(x)
  BY LineStays DEF Hears
<1>2. PICK n \in 0..Len(sent[Peer(x)]) :
         Heeds(x, n) /\ (alive /\ ~garbled[x] => n = Taken(x))
  BY DEF Hears
<1>3. Heeds(x, n)'
  BY <1>2, HeedsStays
<1>4. n \in 0..Len(sent'[Peer(x)])
  BY <1>3 DEF Heeds
<1>5. Waits(x)'
  BY DEF Hears, Waits, SameTaken
<1> QED
  BY <1>1, <1>2, <1>3, <1>4, <1>5 DEF Hears, SameLine

(* nor for one that makes more of the frames that it has taken             *)
LEMMA HearsOn ==
    ASSUME WsTypes, NEW x \in Sides, SameLine(x), SameWire(x), Hears(x),
           \A n \in 0..Len(sent[Peer(x)]) : Heeds(x, n) => Heeds(x, n)', Waits(x)'
    PROVE  Hears(x)'
<1>1. alive /\ ~garbled[x] => Lined(x)' /\ Taken(x)' = Taken(x)
  BY LineStays DEF Hears
<1>2. PICK n \in 0..Len(sent[Peer(x)]) :
         Heeds(x, n) /\ (alive /\ ~garbled[x] => n = Taken(x))
  BY DEF Hears
<1>3. Heeds(x, n)'
  BY <1>2
<1>4. n \in 0..Len(sent'[Peer(x)])
  BY <1>3 DEF Heeds
<1> QED
  BY <1>1, <1>2, <1>3, <1>4 DEF Hears, SameLine

(* Nothing is sent.                                                        *)
LEMMA OutStays ==
    ASSUME NEW x \in Sides, Says(x), Writes(x), InTurn(x), SameOut(x),
           closed'[x] => closed[x] \/ sentClose[x], alive' => alive
    PROVE  Says(x)' /\ Writes(x)' /\ InTurn(x)'
<1>1. Says(x)'
  BY DEF Says, SameOut
<1>2. Writes(x)'
  BY DEF Writes, SameOut
<1>3. InTurn(x)'
  BY DEF InTurn, SameOut
<1> QED
  BY <1>1, <1>2, <1>3

(* both sides                                                              *)
Keeps(s) == Says(s)' /\ Hears(s)' /\ Writes(s)' /\ InTurn(s)'

(* what both keep is kept                                                  *)
LEMMA BothKeep ==
    ASSUME NEW s \in Sides, Keeps(s), Keeps(Peer(s))
    PROVE  WInv'
<1>1. \A x \in Sides : x = s \/ x = Peer(s)
  BY PeerIs
<1> QED
  BY <1>1 DEF WInv, Keeps

-----------------------------------------------------------------------------
(* What a side sends.                                                      *)

(* A frame f is written, or not: S, r, t, l become S1, r1, t1, l1.         *)
WroteOf(p, a, f, S, r, t, l, S1, r1, t1, l1) ==
    /\ Missing(p, S1, r1, t1)
    /\ l \subseteq l1 /\ (t => t1)
    /\ \/ S1 = S /\ (a => f.op \in l1 \/ t1)
       \/ S1 = Append(S, f) /\ r = 0
Wrote(s, f) ==
    /\ sent' \in [Sides -> Seq(Frames)] /\ rest' \in [Sides -> Nat]
    /\ torn' \in [Sides -> BOOLEAN] /\ wire' \in [Sides -> Seq(Nat \X Nat)]
    /\ lost' \in [Sides -> SUBSET {"data", "ping", "pong", "close"}]
    /\ SameWire(s) /\ (SameWire(Peer(s)) \/ MoreWire(Peer(s)))
    /\ WroteOf(s, alive, f, sent[s], rest[s], torn[s], lost[s],
               sent'[s], rest'[s], torn'[s], lost'[s])
    /\ torn'[Peer(s)] = torn[Peer(s)] /\ lost'[Peer(s)] = lost[Peer(s)]

(* the first units of a frame are written                                  *)
LEMMA BeginIs ==
    ASSUME WsTypes, NEW s \in Sides, rest[s] = 0, NEW f \in Frames,
           NEW k \in Nat, k # 0, k <= Size(s, f), Begin(s, f, k)
    PROVE  /\ sent' \in [Sides -> Seq(Frames)] /\ rest' \in [Sides -> Nat]
           /\ wire' \in [Sides -> Seq(Nat \X Nat)]
           /\ SameWire(s) /\ MoreWire(Peer(s))
           /\ sent'[s] = Append(sent[s], f) /\ rest'[s] = Size(s, f) - k
           /\ rest'[s] < Size(s, f)
<1>1. PICK t \in Sides : t = Peer(s) /\ Peer(t) = s /\ t # s
  BY PeerIs
<1>2. PICK S \in Seq(Frames) : S = sent[s]
  BY TypesOf
<1>3. PICK T \in Seq(Frames) : T = Append(S, f)
  BY GrownIs
<1>4. PICK z \in Nat : z = Size(s, f) - k /\ z < Size(s, f)
  <2>1. PICK n \in Nat : n = Size(s, f)
    BY SizeIs
  <2> QED
    BY <2>1
<1>5. PICK u : u = UnitsOf(Len(S) + 1, 0, k)
  OBVIOUS
<1>6. Puts(s, S, 0, T, z, u)
  BY <1>3, <1>4, <1>5, BeginPuts
<1>7. u \in Seq(Nat \X Nat)
  BY <1>6 DEF Puts, Chain
<1>8. PICK w \in Seq(Nat \X Nat) : w = wire[t] \o u
  <2>1. PICK w \in Seq(Nat \X Nat) : w = wire[t]
    BY TypesOf
  <2>2. w \o u \in Seq(Nat \X Nat)
    BY <1>7
  <2> QED
    BY <2>1, <2>2
<1>9. /\ sent' = [sent EXCEPT ![s] = T] /\ rest' = [rest EXCEPT ![s] = z]
      /\ wire' = [wire EXCEPT ![t] = w]
  BY <1>1, <1>2, <1>3, <1>4, <1>5, <1>8 DEF Begin
<1>10. SetFor(Seq(Frames), sent, sent', s, T) /\ SetFor(Nat, rest, rest', s, z)
  BY <1>9, SetIs DEF WsTypes, OutTypes
<1>11. SetFor(Seq(Nat \X Nat), wire, wire', t, w)
  BY <1>9, SetIs DEF WsTypes, OutTypes
<1>12. SameWire(s)
  BY <1>1, <1>10, <1>11 DEF SetFor, SameWire
<1>13. MoreWire(t)
  BY <1>1, <1>2, <1>6, <1>8, <1>10, <1>11 DEF SetFor, MoreWire
<1> QED
  BY <1>1, <1>2, <1>3, <1>4, <1>10, <1>11, <1>12, <1>13 DEF SetFor

(* what may be missing then                                                *)
LEMMA MissingIs ==
    ASSUME NEW p, NEW S \in Seq(Frames), NEW f \in Frames, NEW T, T = Append(S, f), NEW r \in Nat,
           r < Size(p, f), NEW t \in BOOLEAN, t => r > 0
    PROVE  Missing(p, T, r, t)
<1>1. T[Len(T)] = f /\ Len(T) = Len(S) + 1 /\ T \in Seq(Frames)
  BY GrownIs
<1>2. T # <<>>
  BY <1>1
<1> QED
  BY <1>1, <1>2 DEF Missing

(* TcpChannel::send without a handler                                      *)
LEMMA WriteIs ==
    ASSUME WsTypes, NEW s \in Sides, Writes(s), NEW f \in Frames, Write(s, f)
    PROVE  Wrote(s, f)
<1>0. /\ sent \in [Sides -> Seq(Frames)] /\ rest \in [Sides -> Nat]
      /\ torn \in [Sides -> BOOLEAN] /\ wire \in [Sides -> Seq(Nat \X Nat)]
      /\ lost \in [Sides -> SUBSET {"data", "ping", "pong", "close"}]
      /\ Missing(s, sent[s], rest[s], torn[s])
      /\ alive \in BOOLEAN
  BY DEF WsTypes, OutTypes, InTypes, Writes
<1>1. PICK z \in Nat : z = Size(s, f)
  BY SizeIs
<1>2. f.op \in {"data", "ping", "pong", "close"}
  BY DEF Frames
<1>3. CASE ~alive /\ UNCHANGED frameVars
  BY <1>0, <1>3 DEF Wrote, WroteOf, SameWire, frameVars
<1>4. ASSUME alive, NEW k \in Takes(s, z), k = 0,
             lost' = [lost EXCEPT ![s] = @ \cup {f.op}], UNCHANGED <<sent, rest, torn, wire>>
      PROVE  Wrote(s, f)
  <2>1. PICK l \in SUBSET {"data", "ping", "pong", "close"} : l = lost[s] \cup {f.op}
    BY <1>0, <1>2
  <2>2. lost' = [lost EXCEPT ![s] = l]
    BY <1>4, <2>1
  <2>3. SetFor(SUBSET {"data", "ping", "pong", "close"}, lost, lost', s, l)
    BY <1>0, <2>2, SetIs
  <2>4. WroteOf(s, alive, f, sent[s], rest[s], torn[s], lost[s],
                sent'[s], rest'[s], torn'[s], lost'[s])
    BY <1>0, <1>4, <2>1, <2>3 DEF WroteOf, SetFor
  <2> QED
    BY <1>0, <1>4, <2>3, <2>4 DEF Wrote, SetFor, SameWire
<1>5. ASSUME alive, rest[s] > 0,
             torn' = [torn EXCEPT ![s] = TRUE], UNCHANGED <<sent, rest, lost, wire>>
      PROVE  Wrote(s, f)
  <2>1. SetFor(BOOLEAN, torn, torn', s, TRUE)
    BY <1>0, <1>5, SetIs
  <2>2. Missing(s, sent'[s], rest'[s], torn'[s])
    BY <1>0, <1>5 DEF Missing
  <2>3. WroteOf(s, alive, f, sent[s], rest[s], torn[s], lost[s],
                sent'[s], rest'[s], torn'[s], lost'[s])
    BY <1>5, <2>1, <2>2 DEF WroteOf, SetFor
  <2> QED
    BY <1>0, <1>5, <2>1, <2>3 DEF Wrote, SetFor, SameWire
<1>6. ASSUME alive, NEW k \in Takes(s, z), k > 0, rest[s] = 0, Begin(s, f, k),
             torn' = [torn EXCEPT ![s] = k < z], UNCHANGED lost
      PROVE  Wrote(s, f)
  <2>1. k \in Nat /\ k # 0 /\ k <= z
    BY <1>6 DEF Takes
  <2>2. /\ sent' \in [Sides -> Seq(Frames)] /\ rest' \in [Sides -> Nat]
        /\ wire' \in [Sides -> Seq(Nat \X Nat)]
        /\ SameWire(s) /\ MoreWire(Peer(s))
        /\ sent'[s] = Append(sent[s], f) /\ rest'[s] = z - k /\ rest'[s] < z
    BY <1>1, <1>6, <2>1, BeginIs
  <2>3. SetFor(BOOLEAN, torn, torn', s, k < z)
    <3>1. (k < z) \in BOOLEAN
      OBVIOUS
    <3> QED
      BY <1>0, <1>6, <3>1, SetIs
  <2>4. ~torn[s]
    BY <1>0, <1>6 DEF Missing
  <2>5. Missing(s, sent'[s], rest'[s], torn'[s])
    <3>1. k < z => z - k > 0
      BY <2>1
    <3>2. /\ torn'[s] \in BOOLEAN /\ (torn'[s] => rest'[s] > 0) /\ rest'[s] \in Nat
          /\ rest'[s] < Size(s, f) /\ sent[s] \in Seq(Frames)
      BY <1>0, <1>1, <2>2, <2>3, <3>1 DEF SetFor
    <3> QED
      BY <2>2, <3>2, MissingIs
  <2>6. WroteOf(s, alive, f, sent[s], rest[s], torn[s], lost[s],
                sent'[s], rest'[s], torn'[s], lost'[s])
    BY <1>6, <2>2, <2>4, <2>5 DEF WroteOf
  <2> QED
    BY <1>0, <1>6, <2>2, <2>3, <2>6 DEF Wrote, SetFor
<1> QED
  BY <1>1, <1>3, <1>4, <1>5, <1>6 DEF Write

(* what a frame more does to the order of the calls                        *)
LEMMA TurnQueue ==
    ASSUME NEW S, NEW Q \in Seq(Frames), NEW c \in Nat, InTurnOf(S, Q, c),
           \A m \in DOMAIN S : S[m].call \in Nat, NEW f \in Frames,
           f.how = "queued", f.op # "close", f.call = c + 1
    PROVE  InTurnOf(S, Append(Q, f), c + 1)
<1>1. PICK R : R = Append(Q, f)
  OBVIOUS
<1>2. \A i \in DOMAIN R : \/ i \in DOMAIN Q /\ R[i] = Q[i] /\ i < Len(Q) + 1
                          \/ i = Len(Q) + 1 /\ R[i] = f
  BY <1>1
<1>3. \A i \in DOMAIN Q : Q[i].call \in Nat /\ Q[i].call < c + 1
  <2>1. \A i \in DOMAIN Q : Q[i] \in Frames /\ Q[i].call <= c
    BY DEF InTurnOf
  <2>2. \A i \in DOMAIN Q : Q[i].call \in Nat
    BY <2>1 DEF Frames
  <2> QED
    BY <2>1, <2>2
<1>4. \A m \in DOMAIN S : S[m].call < c + 1
  <2>1. \A m \in DOMAIN S : S[m].call <= c
    BY DEF InTurnOf
  <2> QED
    BY <2>1
<1>5. \A m \in DOMAIN S : S[m].call <= c + 1
  BY <1>4
<1>6. \A i \in DOMAIN R : R[i].how = "queued" /\ R[i].op # "close" /\ R[i].call <= c + 1
  BY <1>2, <1>3 DEF InTurnOf
<1>7. ASSUME NEW i \in DOMAIN R, NEW j \in DOMAIN R, i < j PROVE R[i].call < R[j].call
  <2>1. i \in DOMAIN Q /\ R[i] = Q[i]
    <3>1. i \in Nat /\ j \in Nat /\ j <= Len(Q) + 1 /\ Len(Q) \in Nat
      BY <1>1, <1>7
    <3>2. ~(i = Len(Q) + 1)
      BY ONLY <3>1, <1>7
    <3> QED
      BY <1>2, <3>2
  <2>2. CASE j \in DOMAIN Q /\ R[j] = Q[j]
    BY <1>7, <2>1, <2>2 DEF InTurnOf
  <2>3. CASE R[j] = f
    BY <1>3, <2>1, <2>3
  <2> QED
    BY <1>2, <2>2, <2>3
<1>8. \A m \in DOMAIN S, i \in DOMAIN R : S[m].how = "queued" => S[m].call < R[i].call
  BY <1>2, <1>4 DEF InTurnOf
<1> QED
  BY <1>1, <1>5, <1>6, <1>7, <1>8 DEF InTurnOf

(* or one that is written past what waits                                  *)
LEMMA TurnWrite ==
    ASSUME NEW S \in Seq(Frames), NEW Q \in Seq(Frames), NEW c \in Nat, NEW d \in Nat, c <= d,
           InTurnOf(S, Q, c), NEW f \in Frames, f.call <= d, f.how = "direct",
           f.op = "data" => c < f.call
    PROVE  InTurnOf(S, Q, d) /\ InTurnOf(Append(S, f), Q, d)
<1>1. PICK T : T = Append(S, f)
  OBVIOUS
<1>2. \A i \in DOMAIN T : \/ i \in DOMAIN S /\ T[i] = S[i]
                          \/ i = Len(S) + 1 /\ T[i] = f
  BY <1>1
<1>3. \A m \in DOMAIN S : S[m].call <= d /\ (f.op = "data" => S[m].call < f.call)
  <2>1. \A m \in DOMAIN S : S[m] \in Frames /\ S[m].call <= c
    BY DEF InTurnOf
  <2>2. \A m \in DOMAIN S : S[m].call \in Nat
    BY <2>1 DEF Frames
  <2>3. f.call \in Nat
    BY DEF Frames
  <2> QED
    BY <2>1, <2>2, <2>3
<1>4. \A i \in DOMAIN Q : Q[i].how = "queued" /\ Q[i].op # "close" /\ Q[i].call <= d
  <2>1. \A i \in DOMAIN Q : /\ Q[i] \in Frames
                            /\ Q[i].how = "queued" /\ Q[i].op # "close" /\ Q[i].call <= c
    BY DEF InTurnOf
  <2>2. \A i \in DOMAIN Q : Q[i].call \in Nat
    BY <2>1 DEF Frames
  <2> QED
    BY <2>1, <2>2
<1>5. InTurnOf(S, Q, d)
  BY <1>3, <1>4 DEF InTurnOf
<1>6. ASSUME NEW m \in DOMAIN T, NEW n \in DOMAIN T, m < n, T[m].op = "data", T[n].op = "data",
             T[m].how = T[n].how
      PROVE  T[m].call < T[n].call
  <2>1. m \in DOMAIN S /\ T[m] = S[m]
    <3>1. m \in Nat /\ n \in Nat /\ n <= Len(S) + 1 /\ Len(S) \in Nat
      BY <1>1, <1>6
    <3>2. ~(m = Len(S) + 1)
      BY ONLY <3>1, <1>6
    <3> QED
      BY <1>2, <3>2
  <2>2. CASE n \in DOMAIN S /\ T[n] = S[n]
    BY <1>6, <2>1, <2>2 DEF InTurnOf
  <2>3. CASE T[n] = f
    BY <1>3, <1>6, <2>1, <2>3
  <2> QED
    BY <1>2, <2>2, <2>3
<1>7. \A m \in DOMAIN T, i \in DOMAIN Q : T[m].how = "queued" => T[m].call < Q[i].call
  BY <1>2 DEF InTurnOf
<1>8. \A m \in DOMAIN T : T[m].call <= d
  BY <1>2, <1>3
<1> QED
  BY <1>1, <1>4, <1>5, <1>6, <1>7, <1>8 DEF InTurnOf

(* or one that has waited and is written                                   *)
LEMMA TurnFlush ==
    ASSUME NEW S \in Seq(Frames), NEW Q \in Seq(Frames), Q # <<>>, NEW c \in Nat,
           InTurnOf(S, Q, c)
    PROVE  InTurnOf(Append(S, Head(Q)), Tail(Q), c)
<1>1. PICK f \in Frames : f = Head(Q) /\ f = Q[1] /\ 1 \in DOMAIN Q
  OBVIOUS
<1>2. PICK T : T = Append(S, f)
  OBVIOUS
<1>3. PICK R : R = Tail(Q)
  OBVIOUS
<1>4. \A i \in DOMAIN T : \/ i \in DOMAIN S /\ T[i] = S[i]
                          \/ i = Len(S) + 1 /\ T[i] = f
  BY <1>2
<1>5. \A i \in DOMAIN R : i + 1 \in DOMAIN Q /\ R[i] = Q[i + 1] /\ 1 < i + 1 /\ i \in Nat
  BY <1>3
<1>6. f.how = "queued" /\ f.op # "close" /\ f.call <= c
  BY <1>1 DEF InTurnOf
<1>7. \A m \in DOMAIN T : T[m].call <= c
  BY <1>4, <1>6 DEF InTurnOf
<1>8. ASSUME NEW m \in DOMAIN T, NEW n \in DOMAIN T, m < n, T[m].op = "data", T[n].op = "data",
             T[m].how = T[n].how
      PROVE  T[m].call < T[n].call
  <2>1. m \in DOMAIN S /\ T[m] = S[m]
    <3>1. m \in Nat /\ n \in Nat /\ n <= Len(S) + 1 /\ Len(S) \in Nat
      BY <1>2, <1>8
    <3>2. ~(m = Len(S) + 1)
      BY ONLY <3>1, <1>8
    <3> QED
      BY <1>4, <3>2
  <2>2. CASE n \in DOMAIN S /\ T[n] = S[n]
    BY <1>8, <2>1, <2>2 DEF InTurnOf
  <2>3. CASE T[n] = f
    BY <1>1, <1>6, <1>8, <2>1, <2>3 DEF InTurnOf
  <2> QED
    BY <1>4, <2>2, <2>3
<1>9. \A i \in DOMAIN R : R[i].how = "queued" /\ R[i].op # "close" /\ R[i].call <= c
  BY <1>5 DEF InTurnOf
<1>10. ASSUME NEW i \in DOMAIN R, NEW j \in DOMAIN R, i < j PROVE R[i].call < R[j].call
  <2>1. i + 1 < j + 1 /\ i + 1 \in DOMAIN Q /\ j + 1 \in DOMAIN Q
    BY <1>5, <1>10
  <2> QED
    BY <1>5, <2>1 DEF InTurnOf
<1>11. ASSUME NEW m \in DOMAIN T, NEW i \in DOMAIN R, T[m].how = "queued"
       PROVE  T[m].call < R[i].call
  <2>1. CASE m \in DOMAIN S /\ T[m] = S[m]
    BY <1>5, <1>11, <2>1 DEF InTurnOf
  <2>2. CASE T[m] = f
    BY <1>1, <1>5, <2>2 DEF InTurnOf
  <2> QED
    BY <1>4, <2>1, <2>2
<1> QED
  BY <1>1, <1>2, <1>3, <1>7, <1>8, <1>9, <1>10, <1>11 DEF InTurnOf

(* what it does behind a close frame                                       *)
LEMMA BehavesOn ==
    ASSUME NEW S \in Seq(Frames), NEW c, Behaves(S, c), NEW f \in Frames, NEW d, c => d,
           f.op = "close" => ~c /\ d, f.op # "close" => ~c \/ f.how = "queued"
    PROVE  /\ Behaves(S, d) /\ Behaves(Append(S, f), d)
           /\ HasClose(S) => HasClose(Append(S, f))
           /\ f.op = "close" => HasClose(Append(S, f))
<1>1. PICK T : T = Append(S, f)
  OBVIOUS
<1>2. \A i \in DOMAIN T : \/ i \in DOMAIN S /\ T[i] = S[i]
                          \/ i = Len(S) + 1 /\ T[i] = f
  BY <1>1
<1>3. \A i \in DOMAIN S : i \in DOMAIN T /\ T[i] = S[i]
  BY <1>1
<1>4. Len(S) + 1 \in DOMAIN T /\ T[Len(S) + 1] = f
  BY <1>1
<1>5. Behaves(S, d)
  BY DEF Behaves
<1>6. ASSUME NEW k \in DOMAIN T, T[k].op = "close"
      PROVE  d /\ \A j \in DOMAIN T : k < j => T[j].how = "queued" /\ T[j].op # "close"
  <2>1. CASE k \in DOMAIN S /\ T[k] = S[k]
    <3>1. c /\ \A j \in DOMAIN S : k < j => S[j].how = "queued" /\ S[j].op # "close"
      BY <1>6, <2>1 DEF Behaves
    <3>2. f.op # "close" /\ f.how = "queued" /\ d
      BY <3>1
    <3> QED
      BY <1>2, <3>1, <3>2
  <2>2. CASE k = Len(S) + 1 /\ T[k] = f
    <3>1. \A j \in DOMAIN T : ~(k < j)
      BY <1>1, <2>2
    <3> QED
      BY <1>6, <2>2, <3>1
  <2> QED
    BY <1>2, <1>6, <2>1, <2>2
<1>7. Behaves(T, d)
  BY <1>6 DEF Behaves
<1>8. HasClose(S) => HasClose(T)
  BY <1>3 DEF HasClose
<1>9. f.op = "close" => HasClose(T)
  BY <1>4 DEF HasClose
<1> QED
  BY <1>1, <1>5, <1>7, <1>8, <1>9

(* One side sends, or not, and the other hears of it.                      *)
SendsOn(s) ==
    /\ OutTypes'
    /\ SameWire(s) /\ (SameWire(Peer(s)) \/ MoreWire(Peer(s)))
    /\ Says(s)' /\ Writes(s)' /\ InTurn(s)' /\ SameOut(Peer(s))

(* nothing is sent                                                         *)
LEMMA SendsNothing ==
    ASSUME WsTypes, WInv, NEW s \in Sides, UNCHANGED <<outVars, sentClose>>,
           closed'[s] => closed[s] \/ sentClose[s], alive' => alive
    PROVE  SendsOn(s)
<1>1. UNCHANGED <<sent, rest, torn, lost, wire, calls, queue, flushing, sentClose>>
  BY DEF outVars, frameVars
<1>2. OutTypes'
  BY <1>1 DEF WsTypes, OutTypes
<1>3. SameWire(s) /\ SameWire(Peer(s)) /\ SameOut(Peer(s)) /\ SameOut(s)
  BY <1>1 DEF SameWire, SameOut
<1>4. Says(s)' /\ Writes(s)' /\ InTurn(s)'
  BY <1>3, OutStays DEF WInv
<1> QED
  BY <1>2, <1>3, <1>4 DEF SendsOn

(* A frame is written at once by a side that has sent no close frame.      *)
LEMMA SendsOne ==
    ASSUME WsTypes, WInv, NEW s \in Sides, ~flushing[s], ~sentClose[s], NEW f \in Frames,
           f.how = "direct", Write(s, f), UNCHANGED <<queue, flushing>>, alive' = alive,
           NEW d \in Nat, calls[s] <= d, calls' = [calls EXCEPT ![s] = d],
           f.call <= d, f.op = "data" => calls[s] < f.call,
           sentClose' = [sentClose EXCEPT ![s] = f.op = "close"],
           closed'[s] => sentClose'[s]
    PROVE  SendsOn(s)
<1>1. Says(s) /\ Writes(s) /\ InTurn(s)
  BY DEF WInv
<1>2. Wrote(s, f)
  BY <1>1, WriteIs
<1>3. SetFor(Nat, calls, calls', s, d) /\ SetFor(BOOLEAN, sentClose, sentClose', s, f.op = "close")
  <2>1. (f.op = "close") \in BOOLEAN
    OBVIOUS
  <2> QED
    BY <2>1, SetIs DEF WsTypes, OutTypes
<1>4. PICK S \in Seq(Frames) : S = sent[s]
  BY TypesOf
<1>5. PICK Q \in Seq(Frames) : Q = queue[s]
  BY TypesOf
<1>6. PICK c \in Nat : c = calls[s]
  BY TypesOf
<1>7. PICK T : T = sent'[s]
  OBVIOUS
<1>8. T = S \/ T = Append(S, f)
  BY <1>2, <1>4, <1>7 DEF Wrote, WroteOf
<1>9. InTurn(s)'
  <2>1. InTurnOf(S, Q, c)
    BY <1>1, <1>4, <1>5, <1>6 DEF InTurn
  <2>2. InTurnOf(S, Q, d) /\ InTurnOf(Append(S, f), Q, d)
    BY <1>6, <2>1, TurnWrite
  <2>3. queue'[s] = Q /\ calls'[s] = d
    BY <1>3, <1>5 DEF SetFor
  <2> QED
    BY <1>7, <1>8, <2>2, <2>3 DEF InTurn
<1>10. Writes(s)'
  BY <1>2 DEF Wrote, WroteOf, Writes
<1>11. Says(s)'
  <2>1. Behaves(S, sentClose[s])
    BY <1>1, <1>4 DEF Says
  <2>2. sentClose'[s] = (f.op = "close")
    BY <1>3 DEF SetFor
  <2>3. /\ Behaves(S, sentClose'[s]) /\ Behaves(Append(S, f), sentClose'[s])
        /\ f.op = "close" => HasClose(Append(S, f))
    <3>1. /\ sentClose[s] => sentClose'[s]
          /\ f.op = "close" => ~sentClose[s] /\ sentClose'[s]
          /\ f.op # "close" => ~sentClose[s] \/ f.how = "queued"
      BY <2>2
    <3> QED
      BY ONLY <2>1, <3>1, S \in Seq(Frames), f \in Frames, BehavesOn
  <2>4. Behaves(T, sentClose'[s])
    BY <1>8, <2>3
  <2>5. sentClose'[s] /\ alive => HasClose(T) \/ "close" \in lost'[s] \/ torn'[s]
    <3> SUFFICES ASSUME sentClose'[s], alive PROVE HasClose(T) \/ "close" \in lost'[s] \/ torn'[s]
      OBVIOUS
    <3>1. f.op = "close"
      BY <2>2
    <3>2. (f.op \in lost'[s] \/ torn'[s]) \/ T = Append(S, f)
      BY <1>2, <1>4, <1>7 DEF Wrote, WroteOf
    <3> QED
      BY <2>3, <3>1, <3>2
  <2> QED
    BY <1>7, <2>4, <2>5 DEF Says
<1>12. OutTypes'
  BY <1>2, <1>3 DEF OutTypes, WsTypes, Wrote, SetFor
<1>13. SameOut(Peer(s))
  <2>1. sent'[Peer(s)] = sent[Peer(s)] /\ rest'[Peer(s)] = rest[Peer(s)]
    BY <1>2 DEF Wrote, SameWire
  <2> QED
    BY <1>2, <1>3, <2>1 DEF SameOut, Wrote, SetFor
<1> QED
  BY <1>2, <1>9, <1>10, <1>11, <1>12, <1>13 DEF SendsOn, Wrote

(* TcpChannel::send with a handler                                         *)
LEMMA SendsLater ==
    ASSUME WsTypes, WInv, NEW s \in Sides, NEW f \in Frames, f.how = "queued", f.op # "close",
           f.call = calls[s] + 1, calls' = [calls EXCEPT ![s] = @ + 1], Enqueue(s, f),
           UNCHANGED sentClose, closed'[s] => closed[s] \/ sentClose[s], alive' = alive
    PROVE  SendsOn(s)
<1>1. Says(s) /\ Writes(s) /\ InTurn(s)
  BY DEF WInv
<1>2. PICK tries \in BOOLEAN :
         /\ flushing' = [flushing EXCEPT ![s] = tries]
         /\ tries => (queue[s] = <<>> /\ rest[s] = 0) \/ ~torn[s]
  <2>1. torn[s] \in BOOLEAN
    BY DEF WsTypes, OutTypes
  <2> QED
    BY <2>1 DEF Enqueue
<1>3. UNCHANGED <<sent, rest, torn, lost, wire>>
  BY DEF Enqueue, frameVars
<1>4. PICK Q \in Seq(Frames) : Q = queue[s]
  BY TypesOf
<1>5. PICK R \in Seq(Frames) : R = Append(Q, f) /\ R # <<>>
  <2>1. PICK R : R = Append(Q, f)
    OBVIOUS
  <2>2. R \in Seq(Frames) /\ Len(R) = Len(Q) + 1
    BY <2>1, GrownIs
  <2>3. R # <<>>
    BY <2>2
  <2> QED
    BY <2>1, <2>2, <2>3
<1>6. PICK c \in Nat : c = calls[s]
  BY TypesOf
<1>7. calls' = [calls EXCEPT ![s] = c + 1] /\ queue' = [queue EXCEPT ![s] = R] /\ c + 1 \in Nat
  BY <1>4, <1>5, <1>6 DEF Enqueue
<1>8. /\ SetFor(Nat, calls, calls', s, c + 1) /\ SetFor(Seq(Frames), queue, queue', s, R)
      /\ SetFor(BOOLEAN, flushing, flushing', s, tries)
  <2>1. /\ calls \in [Sides -> Nat] /\ queue \in [Sides -> Seq(Frames)]
        /\ flushing \in [Sides -> BOOLEAN]
    BY DEF WsTypes, OutTypes
  <2>2. SetFor(Nat, calls, calls', s, c + 1)
    BY <1>7, <2>1, SetIs
  <2>3. SetFor(Seq(Frames), queue, queue', s, R)
    BY <1>7, <2>1, SetIs
  <2>4. SetFor(BOOLEAN, flushing, flushing', s, tries)
    BY <1>2, <2>1, SetIs
  <2> QED
    BY <2>2, <2>3, <2>4
<1>9. InTurn(s)'
  <2>1. PICK S \in Seq(Frames) : S = sent[s]
    BY TypesOf
  <2>2. InTurnOf(S, Q, c)
    BY <1>1, <1>4, <1>6, <2>1 DEF InTurn
  <2>3. \A m \in DOMAIN S : S[m].call \in Nat
    <3>1. \A m \in DOMAIN S : S[m] \in Frames
      BY <2>1
    <3> QED
      BY <3>1 DEF Frames
  <2>4. InTurnOf(S, R, c + 1)
    BY <1>5, <1>6, <2>2, <2>3, TurnQueue
  <2> QED
    BY <1>3, <1>8, <2>1, <2>4 DEF InTurn, SetFor
<1>10. Writes(s)'
  <2>1. Missing(s, sent[s], rest[s], torn[s])
    BY <1>1 DEF Writes
  <2>2. tries => ~torn[s]
    <3>1. rest[s] = 0 => ~torn[s]
      BY <2>1 DEF Missing
    <3> QED
      BY <1>2, <3>1
  <2> QED
    BY <1>3, <1>5, <1>8, <2>1, <2>2 DEF Writes, SetFor
<1>11. Says(s)'
  BY <1>1, <1>3 DEF Says
<1>12. OutTypes'
  BY <1>3, <1>8 DEF OutTypes, WsTypes, SetFor
<1>13. SameOut(Peer(s)) /\ SameWire(s) /\ SameWire(Peer(s))
  BY <1>3, <1>8 DEF SameOut, SameWire, SetFor
<1> QED
  BY <1>9, <1>10, <1>11, <1>12, <1>13 DEF SendsOn

(* WsChannel::send and sendPing, called by a user or a handler             *)
LEMMA UserFrameIs ==
    ASSUME WsTypes, WInv, NEW s \in Sides, ~flushing[s], Send(s),
           UNCHANGED <<sentClose, closed, alive>>
    PROVE  SendsOn(s)
<1>1. alive /\ ~closed[s] /\ ~sentClose[s] /\ calls' = [calls EXCEPT ![s] = @ + 1]
  BY DEF Send, MaySend
<1>2. PICK c \in Nat : c = calls[s]
  BY TypesOf
<1>3. SetFor(Nat, calls, calls', s, c + 1)
  <2>1. calls \in [Sides -> Nat] /\ c + 1 \in Nat /\ calls' = [calls EXCEPT ![s] = c + 1]
    BY <1>1, <1>2 DEF WsTypes, OutTypes
  <2> QED
    BY <2>1, SetIs
<1>4. calls'[s] = c + 1 /\ c + 1 \in Nat
  BY <1>3 DEF SetFor
<1>5. PICK fin \in BOOLEAN, x \in Extended, how \in {"queued", "direct"} :
      \E f \in {Frame("data", fin, x, how, calls'[s]), Frame("ping", TRUE, FALSE, how, calls'[s])} :
          IF how = "queued" THEN Enqueue(s, f) ELSE Write(s, f) /\ UNCHANGED <<queue, flushing>>
  BY DEF Send
<1>6. PICK f \in {Frame("data", fin, x, how, c + 1), Frame("ping", TRUE, FALSE, how, c + 1)} :
          IF how = "queued" THEN Enqueue(s, f) ELSE Write(s, f) /\ UNCHANGED <<queue, flushing>>
  BY <1>4, <1>5
<1>7. f \in Frames /\ f.op # "close" /\ f.how = how /\ f.call = c + 1
  <2>1. CASE f = Frame("data", fin, x, how, c + 1)
    BY <1>4, <2>1 DEF Frame, Frames
  <2>2. CASE f = Frame("ping", TRUE, FALSE, how, c + 1)
    BY <1>4, <2>2 DEF Frame, Frames
  <2> QED
    BY <1>6, <2>1, <2>2
<1>8. CASE how = "queued"
  <2>1. Enqueue(s, f)
    BY <1>6, <1>8
  <2> QED
    BY <1>1, <1>2, <1>7, <1>8, <2>1, SendsLater
<1>9. CASE how = "direct"
  <2>1. Write(s, f) /\ UNCHANGED <<queue, flushing>>
    BY <1>6, <1>9
  <2>2. calls' = [calls EXCEPT ![s] = c + 1] /\ c < c + 1 /\ c <= c + 1 /\ c + 1 <= c + 1
    BY <1>1, <1>2
  <2>3. sentClose' = [sentClose EXCEPT ![s] = f.op = "close"]
    <3>1. sentClose \in [Sides -> BOOLEAN] /\ (f.op = "close") = FALSE /\ sentClose[s] = FALSE
      BY <1>1, <1>7 DEF WsTypes, OutTypes
    <3> QED
      BY <3>1
  <2>4. ~closed'[s]
    BY <1>1
  <2> QED
    BY <1>1, <1>2, <1>4, <1>7, <1>9, <2>1, <2>2, <2>3, <2>4, SendsOne
<1> QED
  BY <1>8, <1>9

(* a frame of the channel's own: a pong or a close frame                   *)
LEMMA OwnIs ==
    ASSUME WsTypes, WInv, NEW s \in Sides, ~flushing[s], ~sentClose[s],
           NEW op \in {"pong", "close"}, Write(s, OwnFrame(op)),
           UNCHANGED <<calls, queue, flushing, alive>>,
           sentClose' = [sentClose EXCEPT ![s] = op = "close"], closed'[s] => sentClose'[s]
    PROVE  SendsOn(s)
<1>1. PICK f : f = OwnFrame(op)
  OBVIOUS
<1>2. f \in Frames /\ f.op = op /\ f.how = "direct" /\ f.call = 0
  BY <1>1 DEF OwnFrame, Frame, Frames
<1>3. PICK c \in Nat : c = calls[s]
  BY TypesOf
<1>4. calls' = [calls EXCEPT ![s] = c] /\ c <= c /\ 0 <= c
  BY <1>3 DEF WsTypes, OutTypes
<1>5. f.op # "data" /\ Write(s, f) /\ f.call <= c
        /\ sentClose' = [sentClose EXCEPT ![s] = f.op = "close"]
  BY <1>1, <1>2, <1>4
<1> QED
  BY <1>2, <1>3, <1>4, <1>5, SendsOne

-----------------------------------------------------------------------------
(* Steps that read nothing.                                                *)

(* A step of side s that reads nothing of the line                         *)
Acts(s) ==
    /\ SendsOn(s) /\ SameLine(s) /\ Waits(s)'
    /\ \A n \in 0..Len(sent[Peer(s)]) : Heeds(s, n) => Heeds(s, n)'

(* and of the other side, meanwhile                                        *)
Apart(t) == SameLine(t) /\ SameTaken(t)

(* A step of one side that reads nothing keeps the invariant.              *)
LEMMA ActsKeep ==
    ASSUME WsTypes, WInv, NEW s \in Sides, Acts(s), Apart(Peer(s))
    PROVE  WInv'
<1>1. PICK t \in Sides : t = Peer(s)
  BY PeerIs
<1>2. Hears(s) /\ Says(t) /\ Hears(t) /\ Writes(t) /\ InTurn(t)
  BY DEF WInv
<1>3. SendsOn(s)
  BY DEF Acts
<1>4. Hears(s)'
  <2>1. /\ SameLine(s) /\ SameWire(s) /\ Waits(s)'
        /\ \A n \in 0..Len(sent[Peer(s)]) : Heeds(s, n) => Heeds(s, n)'
    BY DEF Acts, SendsOn
  <2> QED
    BY <1>2, <2>1, HearsOn
<1>5. SameLine(t) /\ SameTaken(t) /\ (SameWire(t) \/ MoreWire(t)) /\ SameOut(t)
  BY <1>1, <1>3 DEF Apart, SendsOn
<1>6. Hears(t)'
  BY <1>2, <1>5, HearsStays
<1>7. Says(t)' /\ Writes(t)' /\ InTurn(t)'
  <2>1. closed'[t] = closed[t] /\ alive' = alive
    BY <1>5 DEF SameTaken, SameLine
  <2> QED
    BY <1>2, <1>5, <2>1, OutStays
<1>8. Keeps(s) /\ Keeps(t)
  BY <1>3, <1>4, <1>6, <1>7 DEF Keeps, SendsOn
<1> QED
  BY <1>1, <1>8, BothKeep

(* nothing is taken or handed over                                         *)
LEMMA HeedsSame ==
    ASSUME NEW s, SameTaken(s), SameWire(s)
    PROVE  /\ \A n \in 0..Len(sent[Peer(s)]) : Heeds(s, n) => Heeds(s, n)'
           /\ Waits(s) => Waits(s)'
  BY DEF SameTaken, SameWire, Heeds, HoldsBack, Waits

(* so that what is sent decides                                            *)
LEMMA OnlySends ==
    ASSUME WsTypes, WInv, NEW s \in Sides, SendsOn(s),
           UNCHANGED <<sideVars, closeFrame, closed, batch, got, alive>>,
           attached' \in [Sides -> BOOLEAN]
    PROVE  WsTypes' /\ WInv'
<1>1. \A x \in Sides : SameLine(x) /\ SameTaken(x)
  BY DEF SameLine, SameTaken, sideVars
<1>2. SameWire(s) /\ OutTypes'
  BY DEF SendsOn
<1>3. Waits(s)
  BY DEF WInv, Hears
<1>4. Acts(s)
  BY <1>1, <1>2, <1>3, HeedsSame DEF Acts
<1>5. Apart(Peer(s))
  BY <1>1, PeerIs DEF Apart
<1>6. InTypes'
  BY DEF WsTypes, InTypes, sideVars
<1> QED
  BY <1>2, <1>4, <1>5, <1>6, ActsKeep DEF WsTypes

(* the constructor of WsChannel                                            *)
LEMMA AttachKeeps ==
    ASSUME WsTypes, WInv, NEW s \in Sides, Attach(s)
    PROVE  WsTypes' /\ WInv'
<1>1. /\ UNCHANGED <<outVars, sideVars, closeFrame, sentClose, closed, batch, got, alive>>
      /\ attached' = [attached EXCEPT ![s] = TRUE]
  BY DEF Attach
<1>2. SendsOn(s)
  BY <1>1, SendsNothing
<1>3. attached' \in [Sides -> BOOLEAN]
  BY <1>1 DEF WsTypes, InTypes
<1> QED
  BY <1>1, <1>2, <1>3, OnlySends

(* WsChannel::send and sendPing, called by a user                          *)
LEMMA UserSendsKeeps ==
    ASSUME WsTypes, WInv, NEW s \in Sides, UserSends(s)
    PROVE  WsTypes' /\ WInv'
<1>1. /\ ~flushing[s] /\ Send(s)
      /\ UNCHANGED <<sideVars, closeFrame, sentClose, closed, attached, batch, got, alive>>
  BY DEF UserSends, Idle, stateVars
<1>2. SendsOn(s)
  BY <1>1, UserFrameIs
<1>3. attached' \in [Sides -> BOOLEAN]
  BY <1>1 DEF WsTypes, InTypes
<1> QED
  BY <1>1, <1>2, <1>3, OnlySends

(* onSelectTcpSend begins the loop of tryTcpSend.                          *)
LEMMA WritableKeeps ==
    ASSUME WsTypes, WInv, NEW s \in Sides, Writable(s)
    PROVE  WsTypes' /\ WInv'
<1>1. /\ queue[s] # <<>> \/ (rest[s] > 0 /\ ~torn[s])
      /\ flushing' = [flushing EXCEPT ![s] = ~torn[s]]
      /\ UNCHANGED <<sent, rest, torn, lost, wire, calls, queue>>
      /\ UNCHANGED <<sideVars, closeFrame, sentClose, closed, attached, batch, got, alive>>
  BY DEF Writable, frameVars, stateVars
<1>2. SetFor(BOOLEAN, flushing, flushing', s, ~torn[s])
  <2>1. flushing \in [Sides -> BOOLEAN] /\ (~torn[s]) \in BOOLEAN
    BY DEF WsTypes, OutTypes
  <2> QED
    BY <1>1, <2>1, SetIs
<1>3. Says(s) /\ Writes(s) /\ InTurn(s)
  BY DEF WInv
<1>4. Says(s)'
  BY <1>1, <1>3 DEF Says
<1>5. InTurn(s)'
  BY <1>1, <1>3 DEF InTurn
<1>6. Writes(s)'
  BY <1>1, <1>2, <1>3 DEF Writes, SetFor
<1>7. OutTypes'
  BY <1>1, <1>2 DEF WsTypes, OutTypes, SetFor
<1>8. SameWire(s) /\ SameWire(Peer(s)) /\ SameOut(Peer(s))
  BY <1>1, <1>2 DEF SameWire, SameOut, SetFor
<1>9. SendsOn(s)
  BY <1>4, <1>5, <1>6, <1>7, <1>8 DEF SendsOn
<1>10. attached' \in [Sides -> BOOLEAN]
  BY <1>1 DEF WsTypes, InTypes
<1> QED
  BY <1>1, <1>9, <1>10, OnlySends

(* More of the last frame is written, or nothing.                          *)
LEMMA ContinueIs ==
    ASSUME WsTypes, NEW s \in Sides, sent[s] # <<>>,
           NEW r \in Nat, r = rest[s], r > 0, r < Size(s, sent[s][Len(sent[s])]),
           NEW k \in 0..r, Continue(s, k), UNCHANGED sent
    PROVE  /\ rest' \in [Sides -> Nat] /\ wire' \in [Sides -> Seq(Nat \X Nat)]
           /\ SameWire(s) /\ (SameWire(Peer(s)) \/ MoreWire(Peer(s)))
           /\ rest'[s] = r - k /\ rest'[Peer(s)] = rest[Peer(s)]
<1>1. PICK t \in Sides : t = Peer(s) /\ t # s /\ Peer(t) = s
  BY PeerIs
<1>2. PICK S \in Seq(Frames) : S = sent[s]
  BY TypesOf
<1>3. PICK n \in Nat : n = Len(S) /\ n # 0
  BY <1>2
<1>4. PICK from \in Nat : from = Size(s, S[n]) - r
  <2>1. PICK f \in Frames : f = S[n]
    BY <1>3
  <2>2. PICK z \in Nat : z = Size(s, f)
    BY <2>1, SizeIs
  <2>3. r < z
    BY <1>2, <1>3, <2>1, <2>2
  <2>4. z - r \in Nat
    BY ONLY <2>3, z \in Nat, r \in Nat
  <2> QED
    BY <2>1, <2>2, <2>4
<1>5. PICK u : u = UnitsOf(n, from, from + k)
  OBVIOUS
<1>6. PICK e \in Nat : e = r - k
  BY ONLY r \in Nat, k \in 0..r
<1>7. PICK w : w = wire[t] \o u
  OBVIOUS
<1>8. /\ rest' = [rest EXCEPT ![s] = e] /\ wire' = [wire EXCEPT ![t] = w]
  BY <1>1, <1>2, <1>3, <1>4, <1>5, <1>6, <1>7 DEF Continue
<1>9. /\ rest \in [Sides -> Nat] /\ wire \in [Sides -> Seq(Nat \X Nat)]
  BY DEF WsTypes, OutTypes
<1>10. SetFor(Nat, rest, rest', s, e)
  BY <1>8, <1>9, SetIs
<1>11. CASE k = 0
  <2>1. PICK x \in Seq(Nat \X Nat) : x = wire[t]
    BY <1>9
  <2>2. u = <<>>
    BY <1>5, <1>11 DEF UnitsOf
  <2>3. w = x
    BY <1>7, <2>1, <2>2
  <2>4. wire' = wire
    BY <1>8, <1>9, <2>1, <2>3
  <2>5. e = r
    BY <1>6, <1>11
  <2>6. SameWire(s) /\ SameWire(t)
    BY <1>1, <1>10, <2>4, <2>5 DEF SameWire, SetFor
  <2> QED
    BY <1>1, <1>6, <1>9, <1>10, <2>4, <2>6 DEF SetFor
<1>12. CASE k # 0
  <2>1. Puts(s, S, r, S, e, u)
    <3>1. /\ S \in Seq(Frames) /\ S # <<>> /\ n = Len(S) /\ r \in Nat /\ r < Size(s, S[n])
          /\ k \in Nat /\ k # 0 /\ k <= r
      BY <1>2, <1>3, <1>12
    <3> QED
      BY ONLY <1>4, <1>5, <1>6, <3>1, ContinuePuts
  <2>2. u \in Seq(Nat \X Nat)
    BY <2>1 DEF Puts, Chain
  <2>3. w \in Seq(Nat \X Nat)
    <3>1. PICK x \in Seq(Nat \X Nat) : x = wire[t]
      BY <1>9
    <3>2. x \o u \in Seq(Nat \X Nat)
      BY ONLY <2>2, x \in Seq(Nat \X Nat)
    <3> QED
      BY <1>7, <3>1, <3>2
  <2>4. SetFor(Seq(Nat \X Nat), wire, wire', t, w)
    BY <1>8, <1>9, <2>3, SetIs
  <2>5. SameWire(s)
    BY <1>1, <1>10, <2>4 DEF SameWire, SetFor
  <2>6. MoreWire(t)
    BY <1>1, <1>2, <1>7, <1>10, <2>1, <2>4 DEF MoreWire, SetFor
  <2> QED
    BY <1>1, <1>6, <1>10, <2>4, <2>5, <2>6 DEF SetFor
<1> QED
  BY <1>11, <1>12

(* One turn of the loop of tryTcpSend goes on with the frame that is       *)
(* partly written,                                                         *)
LEMMA FlushRest ==
    ASSUME WsTypes, WInv, NEW s \in Sides, flushing[s], rest[s] > 0,
           NEW k \in Takes(s, rest[s]), Continue(s, k),
           flushing' = [flushing EXCEPT ![s] = k = rest[s] /\ queue[s] # <<>>],
           UNCHANGED <<sent, queue, torn, lost, calls, sentClose, closed, alive>>
    PROVE  SendsOn(s)
<1>1. Says(s) /\ Writes(s) /\ InTurn(s)
  BY DEF WInv
<1>2. PICK r \in Nat : r = rest[s]
  BY TypesOf
<1>3. k \in 0..r
  BY <1>2 DEF Takes
<1>4. sent[s] # <<>> /\ r < Size(s, sent[s][Len(sent[s])]) /\ ~torn[s]
  BY <1>1, <1>2 DEF Writes, Missing
<1>5. /\ rest' \in [Sides -> Nat] /\ wire' \in [Sides -> Seq(Nat \X Nat)]
      /\ SameWire(s) /\ (SameWire(Peer(s)) \/ MoreWire(Peer(s)))
      /\ rest'[s] = r - k /\ rest'[Peer(s)] = rest[Peer(s)]
  BY <1>2, <1>3, <1>4, ContinueIs
<1>6. SetFor(BOOLEAN, flushing, flushing', s, k = r /\ queue[s] # <<>>)
  <2>1. flushing \in [Sides -> BOOLEAN] /\ (k = r /\ queue[s] # <<>>) \in BOOLEAN
    BY DEF WsTypes, OutTypes
  <2>2. flushing' = [flushing EXCEPT ![s] = k = r /\ queue[s] # <<>>]
    BY <1>2
  <2> QED
    BY <2>1, <2>2, SetIs
<1>7. Writes(s)'
  <2>1. Missing(s, sent[s], r - k, torn[s])
    <3>1. PICK f \in Frames : f = sent[s][Len(sent[s])]
      <4>1. sent[s] \in Seq(Frames)
        BY TypesOf
      <4> QED
        BY <1>4, <4>1
    <3>2. PICK z \in Nat : z = Size(s, f)
      BY <3>1, SizeIs
    <3>3. r - k < z
      <4>1. r < z
        BY <1>4, <3>1, <3>2
      <4> QED
        BY ONLY <1>3, <4>1, r \in Nat, z \in Nat
    <3> QED
      BY <1>4, <3>1, <3>2, <3>3 DEF Missing
  <2> QED
    BY <1>4, <1>5, <1>6, <2>1 DEF Writes, SetFor
<1>8. Says(s)'
  BY <1>1 DEF Says
<1>9. InTurn(s)'
  BY <1>1 DEF InTurn
<1>10. OutTypes'
  BY <1>5, <1>6 DEF WsTypes, OutTypes, SetFor
<1>11. SameOut(Peer(s))
  BY <1>5, <1>6 DEF SameOut, SetFor
<1> QED
  BY <1>5, <1>7, <1>8, <1>9, <1>10, <1>11 DEF SendsOn

(* or begins with the next one.                                            *)
LEMMA FlushNext ==
    ASSUME WsTypes, WInv, NEW s \in Sides, flushing[s], rest[s] = 0,
           NEW f, f = Head(queue[s]), NEW k \in Takes(s, Size(s, f)), k # 0, Begin(s, f, k),
           queue' = [queue EXCEPT ![s] = Tail(@)],
           flushing' = [flushing EXCEPT ![s] = rest'[s] = 0 /\ queue'[s] # <<>>],
           UNCHANGED <<torn, lost, calls, sentClose, closed, alive>>
    PROVE  SendsOn(s)
<1>1. Says(s) /\ Writes(s) /\ InTurn(s)
  BY DEF WInv
<1>2. ~torn[s] /\ queue[s] # <<>>
  BY <1>1 DEF Writes
<1>3. PICK Q \in Seq(Frames) : Q = queue[s]
  BY TypesOf
<1>4. PICK S \in Seq(Frames) : S = sent[s]
  BY TypesOf
<1>5. PICK c \in Nat : c = calls[s]
  BY TypesOf
<1>6. Q # <<>> /\ f = Head(Q) /\ f \in Frames /\ f = Q[1] /\ 1 \in DOMAIN Q
  BY <1>2, <1>3
<1>7. PICK R \in Seq(Frames) : R = Tail(Q)
  <2>1. Tail(Q) \in Seq(Frames)
    BY ONLY <1>6, Q \in Seq(Frames)
  <2> QED
    BY <2>1
<1>8. InTurnOf(S, Q, c)
  BY <1>1, <1>3, <1>4, <1>5 DEF InTurn
<1>9. f.how = "queued" /\ f.op # "close"
  BY <1>6, <1>8 DEF InTurnOf
<1>10. k \in Nat /\ k <= Size(s, f)
  <2>1. Size(s, f) \in Nat
    BY <1>6, SizeIs
  <2> QED
    BY <2>1 DEF Takes
<1>11. /\ sent' \in [Sides -> Seq(Frames)] /\ rest' \in [Sides -> Nat]
       /\ wire' \in [Sides -> Seq(Nat \X Nat)]
       /\ SameWire(s) /\ MoreWire(Peer(s))
       /\ sent'[s] = Append(sent[s], f) /\ rest'[s] = Size(s, f) - k
       /\ rest'[s] < Size(s, f)
  BY <1>6, <1>10, BeginIs
<1>12. sent'[Peer(s)] = sent[Peer(s)] /\ rest'[Peer(s)] = rest[Peer(s)]
  BY PeerIs DEF Begin, WsTypes, OutTypes
<1>13. SetFor(Seq(Frames), queue, queue', s, R)
  <2>1. queue \in [Sides -> Seq(Frames)] /\ queue' = [queue EXCEPT ![s] = R]
    BY <1>3, <1>7 DEF WsTypes, OutTypes
  <2> QED
    BY <2>1, SetIs
<1>14. SetFor(BOOLEAN, flushing, flushing', s, rest'[s] = 0 /\ queue'[s] # <<>>)
  <2>1. flushing \in [Sides -> BOOLEAN] /\ (rest'[s] = 0 /\ queue'[s] # <<>>) \in BOOLEAN
    BY DEF WsTypes, OutTypes
  <2> QED
    BY <2>1, SetIs
<1>15. InTurn(s)'
  <2>1. InTurnOf(Append(S, f), R, c)
    BY <1>6, <1>7, <1>8, TurnFlush
  <2>2. sent'[s] = Append(S, f) /\ queue'[s] = R /\ calls'[s] = c
    BY <1>4, <1>5, <1>11, <1>13 DEF SetFor
  <2> QED
    BY <2>1, <2>2 DEF InTurn
<1>16. Writes(s)'
  <2>1. rest'[s] \in Nat /\ torn[s] \in BOOLEAN
    BY <1>11 DEF WsTypes, OutTypes
  <2>2. PICK T : T = Append(S, f)
    OBVIOUS
  <2>3. Missing(s, T, rest'[s], torn[s])
    BY ONLY <1>2, <1>6, <1>11, <2>1, <2>2, S \in Seq(Frames), MissingIs
  <2> QED
    BY <1>2, <1>4, <1>11, <1>14, <2>2, <2>3 DEF Writes, SetFor
<1>17. Says(s)'
  <2>1. Behaves(S, sentClose[s])
    BY <1>1, <1>4 DEF Says
  <2>2. Behaves(Append(S, f), sentClose[s]) /\ (HasClose(S) => HasClose(Append(S, f)))
    <3>1. /\ sentClose[s] => sentClose[s]
          /\ f.op = "close" => ~sentClose[s] /\ sentClose[s]
          /\ f.op # "close" => ~sentClose[s] \/ f.how = "queued"
      BY <1>9
    <3> QED
      BY ONLY <1>6, <2>1, <3>1, S \in Seq(Frames), BehavesOn
  <2> QED
    BY <1>1, <1>4, <1>11, <2>2 DEF Says
<1>18. OutTypes'
  BY <1>11, <1>13, <1>14 DEF WsTypes, OutTypes, SetFor
<1>19. SameOut(Peer(s))
  BY <1>12, <1>13, <1>14 DEF SameOut, SetFor
<1> QED
  BY <1>11, <1>15, <1>16, <1>17, <1>18, <1>19 DEF SendsOn

(* tryTcpSend                                                              *)
LEMMA FlushKeeps ==
    ASSUME WsTypes, WInv, NEW s \in Sides, Flush(s)
    PROVE  WsTypes' /\ WInv'
<1>1. /\ flushing[s]
      /\ UNCHANGED <<torn, lost, calls, sentClose>>
      /\ UNCHANGED <<sideVars, closeFrame, closed, attached, batch, got, alive>>
  BY DEF Flush, stateVars
<1>2. ASSUME rest[s] > 0, NEW k \in Takes(s, rest[s]), Continue(s, k),
             flushing' = [flushing EXCEPT ![s] = k = rest[s] /\ queue[s] # <<>>],
             UNCHANGED <<sent, queue>>
      PROVE  SendsOn(s)
  <2>1. UNCHANGED <<sent, queue, torn, lost, calls, sentClose, closed, alive>>
    BY <1>1, <1>2
  <2> QED
    BY ONLY WsTypes, WInv, s \in Sides, <1>1, <1>2, <2>1, FlushRest
<1>3. ASSUME rest[s] = 0,
             \E k \in Takes(s, Size(s, Head(queue[s]))) :
                IF k = 0
                THEN /\ flushing' = [flushing EXCEPT ![s] = FALSE]
                     /\ UNCHANGED <<sent, rest, wire, queue>>
                ELSE /\ Begin(s, Head(queue[s]), k)
                     /\ queue' = [queue EXCEPT ![s] = Tail(@)]
                     /\ flushing' = [flushing EXCEPT ![s] = rest'[s] = 0 /\ queue'[s] # <<>>]
      PROVE  SendsOn(s)
  <2>1. PICK f : f = Head(queue[s])
    OBVIOUS
  <2>2. PICK k \in Takes(s, Size(s, f)) :
                IF k = 0
                THEN /\ flushing' = [flushing EXCEPT ![s] = FALSE]
                     /\ UNCHANGED <<sent, rest, wire, queue>>
                ELSE /\ Begin(s, f, k)
                     /\ queue' = [queue EXCEPT ![s] = Tail(@)]
                     /\ flushing' = [flushing EXCEPT ![s] = rest'[s] = 0 /\ queue'[s] # <<>>]
    BY <1>3, <2>1
  <2>3. CASE k # 0
    <3>1. /\ Begin(s, f, k) /\ queue' = [queue EXCEPT ![s] = Tail(@)]
          /\ flushing' = [flushing EXCEPT ![s] = rest'[s] = 0 /\ queue'[s] # <<>>]
      BY <2>2, <2>3
    <3>2. UNCHANGED <<torn, lost, calls, sentClose, closed, alive>>
      BY <1>1
    <3> QED
      BY ONLY WsTypes, WInv, s \in Sides, <1>1, <1>3, <2>1, <2>2, <2>3, <3>1, <3>2, FlushNext
  <2>4. CASE k = 0
    <3>1. /\ flushing' = [flushing EXCEPT ![s] = FALSE]
          /\ UNCHANGED <<sent, rest, torn, lost, wire, calls, queue, sentClose, closed, alive>>
      BY <1>1, <2>2, <2>4
    <3>2. SetFor(BOOLEAN, flushing, flushing', s, FALSE)
      <4>1. flushing \in [Sides -> BOOLEAN]
        BY DEF WsTypes, OutTypes
      <4> QED
        BY <3>1, <4>1, SetIs
    <3>3. Says(s) /\ Writes(s) /\ InTurn(s)
      BY DEF WInv
    <3>4. Says(s)'
      BY <3>1, <3>3 DEF Says
    <3>5. InTurn(s)'
      BY <3>1, <3>3 DEF InTurn
    <3>6. Writes(s)'
      BY <3>1, <3>2, <3>3 DEF Writes, SetFor
    <3>7. OutTypes'
      BY <3>1, <3>2 DEF WsTypes, OutTypes, SetFor
    <3>8. SameWire(s) /\ SameWire(Peer(s)) /\ SameOut(Peer(s))
      BY <3>1, <3>2 DEF SameWire, SameOut, SetFor
    <3> QED
      BY <3>4, <3>5, <3>6, <3>7, <3>8 DEF SendsOn
  <2> QED
    BY <2>3, <2>4
<1>4. SendsOn(s)
  BY <1>2, <1>3 DEF Flush
<1>5. attached' \in [Sides -> BOOLEAN]
  BY <1>1 DEF WsTypes, InTypes
<1> QED
  BY <1>1, <1>4, <1>5, OnlySends

(* WsChannel::close sends a close frame, and has the one held back taken   *)
(* as its answer.                                                          *)
LEMMA CloseIs ==
    ASSUME WsTypes, WInv, NEW s \in Sides, Close(s), ~flushing[s], alive' = alive
    PROVE  /\ SendsOn(s) /\ Waits(s)'
           /\ closed' \in [Sides -> BOOLEAN] /\ closeFrame' \in [Sides -> Nat]
           /\ closed'[Peer(s)] = closed[Peer(s)] /\ closeFrame'[Peer(s)] = closeFrame[Peer(s)]
<1>1. /\ Write(s, OwnFrame("close")) /\ ~sentClose[s]
      /\ sentClose' = [sentClose EXCEPT ![s] = TRUE]
      /\ closed' = [closed EXCEPT ![s] = closeFrame[s] # 0]
      /\ closeFrame' = [closeFrame EXCEPT ![s] = 0]
      /\ UNCHANGED <<calls, queue, flushing>>
  BY DEF Close, MaySend
<1>2. SetFor(BOOLEAN, closed, closed', s, closeFrame[s] # 0)
  <2>1. closed \in [Sides -> BOOLEAN] /\ (closeFrame[s] # 0) \in BOOLEAN
    BY DEF WsTypes, InTypes
  <2> QED
    BY <1>1, <2>1, SetIs
<1>3. SetFor(Nat, closeFrame, closeFrame', s, 0)
  <2>1. closeFrame \in [Sides -> Nat] /\ 0 \in Nat
    BY DEF WsTypes, InTypes
  <2> QED
    BY <1>1, <2>1, SetIs
<1>4. SendsOn(s)
  <2>1. ("close" = "close") = TRUE
    OBVIOUS
  <2>2. sentClose' = [sentClose EXCEPT ![s] = "close" = "close"]
    BY <1>1, <2>1
  <2>3. sentClose'[s]
    BY <1>1 DEF WsTypes, OutTypes
  <2>4. "close" \in {"pong", "close"} /\ UNCHANGED <<calls, queue, flushing, alive>>
    BY <1>1
  <2> QED
    BY ONLY WsTypes, WInv, s \in Sides, ~flushing[s], <1>1, <2>2, <2>3, <2>4, OwnIs
<1>5. Waits(s)'
  BY <1>3 DEF Waits, SetFor
<1> QED
  BY <1>2, <1>3, <1>4, <1>5 DEF SetFor

(* the close frame that was held back                                      *)
LEMMA CloseHeeds ==
    ASSUME WsTypes, NEW s \in Sides, Close(s), SameWire(s), NEW n, Heeds(s, n)
    PROVE  /\ HoldsBack(s, n, closeFrame[s])'
           /\ closed'[s] => \E k \in 1..n : sent'[Peer(s)][k].op = "close"
<1>1. closeFrame'[s] = 0 /\ (closed'[s] <=> closeFrame[s] # 0) /\ ~closed[s]
  BY DEF Close, MaySend, WsTypes, InTypes
<1>2. sent'[Peer(s)] = sent[Peer(s)]
  BY DEF SameWire
<1>3. HoldsBack(s, n, closeFrame[s]) /\ n \in Nat
  BY DEF Heeds
<1>4. 0 \in 0..n /\ (closeFrame[s] # 0 => closeFrame[s] \in 1..n)
  BY <1>3 DEF HoldsBack
<1> QED
  BY <1>1, <1>2, <1>3, <1>4 DEF HoldsBack

(* a user's close()                                                        *)
LEMMA UserClosesKeeps ==
    ASSUME WsTypes, WInv, NEW s \in Sides, UserCloses(s)
    PROVE  WsTypes' /\ WInv'
<1>1. /\ Close(s) /\ ~flushing[s]
      /\ UNCHANGED <<buffer, position, fragments, garbled, attached, batch, got, alive>>
  BY DEF UserCloses, Idle, sideVars
<1>2. /\ SendsOn(s) /\ Waits(s)'
      /\ closed' \in [Sides -> BOOLEAN] /\ closeFrame' \in [Sides -> Nat]
      /\ closed'[Peer(s)] = closed[Peer(s)] /\ closeFrame'[Peer(s)] = closeFrame[Peer(s)]
  BY <1>1, CloseIs
<1>3. OutTypes' /\ SameWire(s)
  BY <1>2 DEF SendsOn
<1>4. InTypes'
  BY <1>1, <1>2 DEF WsTypes, InTypes
<1>5. \A x \in Sides : SameLine(x)
  BY <1>1 DEF SameLine
<1>6. ASSUME NEW n \in 0..Len(sent[Peer(s)]), Heeds(s, n) PROVE Heeds(s, n)'
  <2>1. /\ HoldsBack(s, n, closeFrame[s])'
        /\ closed'[s] => \E k \in 1..n : sent'[Peer(s)][k].op = "close"
    BY <1>1, <1>3, <1>6, CloseHeeds
  <2> QED
    BY <1>1, <1>3, <1>6, <2>1 DEF Heeds, SameWire
<1>7. Acts(s)
  BY <1>2, <1>5, <1>6 DEF Acts
<1>8. Apart(Peer(s))
  BY <1>1, <1>2, <1>5, PeerIs DEF Apart, SameTaken
<1> QED
  BY <1>3, <1>4, <1>7, <1>8, ActsKeep DEF WsTypes

(* the frames that are handed over next were taken, and a control frame is *)
(* alone                                                                   *)
LEMMA HeadIs ==
    ASSUME WsTypes, NEW s \in Sides, NEW n, Heeds(s, n), batch[s] # <<>>,
           NEW S, S = sent[Peer(s)], NEW q, q = Head(batch[s])
    PROVE  /\ q = batch[s][1] /\ q \in Seq(Nat) /\ q[1] \in 1..n
           /\ S[q[1]].op # "data" => Single(S, n, q)
<1>1. batch[s] \in Seq(Seq(Nat)) /\ got[s] \in Seq(Seq(Nat))
  BY TypesOf
<1>2. q = batch[s][1] /\ q \in Seq(Nat) /\ 1 \in 1..Len(batch[s])
  BY <1>1
<1>3. PICK L : L = got[s] \o batch[s]
  OBVIOUS
<1>4. \E m \in DOMAIN L : L[m] = q
  <2>1. PICK g \in Seq(Seq(Nat)) : g = got[s]
    BY <1>1
  <2>2. PICK b \in Seq(Seq(Nat)) : b = batch[s]
    BY <1>1
  <2>3. L = g \o b
    BY <1>3, <2>1, <2>2
  <2>4. \A m \in 1..Len(b) : m + Len(g) \in 1..Len(L) /\ L[m + Len(g)] = b[m]
    BY <2>3, Joined
  <2>5. DOMAIN L = 1..Len(L)
    BY <2>3
  <2> QED
    BY <1>2, <2>2, <2>4, <2>5
<1>5. Message(S, n, q) \/ Single(S, n, q)
  BY <1>3, <1>4 DEF Heeds, Accounts, Sound
<1>6. CASE Message(S, n, q)
  <2>1. q # <<>>
    BY <1>6 DEF Message
  <2>2. 1 \in DOMAIN q
    BY ONLY <1>2, <2>1
  <2>3. q[1] \in 1..n /\ S[q[1]].op = "data"
    BY <1>6, <2>2 DEF Message
  <2> QED
    BY <1>2, <2>3
<1>7. CASE Single(S, n, q)
  BY <1>2, <1>7 DEF Single
<1> QED
  BY <1>5, <1>6, <1>7

(* A close frame that is held back is still the last one to be handed      *)
(* over.                                                                   *)
LEMMA WaitsOn ==
    ASSUME WsTypes, NEW s \in Sides, Hears(s), batch[s] # <<>>, Current(s).op # "close",
           batch'[s] = Tail(batch[s]), closeFrame'[s] = closeFrame[s],
           closed'[s] = closed[s], fragments'[s] = fragments[s]
    PROVE  Waits(s)'
<1> SUFFICES ASSUME closeFrame[s] # 0, ~closed[s], fragments[s] = <<>>
             PROVE  batch'[s] # <<>> /\ batch'[s][Len(batch'[s])] = <<closeFrame[s]>>
  BY DEF Waits
<1>1. PICK b \in Seq(Seq(Nat)) : b = batch[s] /\ b # <<>>
  BY TypesOf
<1>2. b[Len(b)] = <<closeFrame[s]>>
  BY <1>1 DEF Hears, Waits
<1>3. sent[Peer(s)][closeFrame[s]].op = "close"
  BY DEF Hears, Heeds, HoldsBack
<1>4. b[1] # <<closeFrame[s]>>
  BY <1>1, <1>3 DEF Current
<1>0. PICK k \in Nat : k = Len(b)
  BY <1>1
<1>5. k = Len(b) /\ k > 1
  <2>1. k # 0 /\ k # 1
    BY <1>1, <1>2, <1>4, <1>0
  <2>2. k > 1
    BY ONLY <2>1, k \in Nat
  <2> QED
    BY <1>0, <2>2
<1>6. PICK t : t = Tail(b)
  OBVIOUS
<1>7. Len(t) = k - 1 /\ t # <<>> /\ t[k - 1] = b[(k - 1) + 1]
  <2>1. k \in Nat /\ k > 1 /\ b \in Seq(Seq(Nat)) /\ k = Len(b) /\ t = Tail(b)
    BY <1>5, <1>6
  <2>2. Len(t) = k - 1 /\ t \in Seq(Seq(Nat)) /\ \A m \in 1..(k - 1) : t[m] = b[m + 1]
    BY ONLY <2>1
  <2>3. k - 1 \in 1..(k - 1) /\ k - 1 # 0
    <3>1. k \in Nat /\ k > 1
      BY <2>1
    <3> QED
      BY ONLY <3>1
  <2>4. t # <<>>
    BY ONLY <2>2, <2>3
  <2> QED
    BY ONLY <2>2, <2>3, <2>4
<1>8. (k - 1) + 1 = k
  BY ONLY k \in Nat
<1> QED
  BY <1>1, <1>2, <1>5, <1>6, <1>7, <1>8

(* A message is handed over, and its handler may send() or close().        *)
LEMMA HandOverDataKeeps ==
    ASSUME WsTypes, WInv, NEW s \in Sides, HandOverData(s)
    PROVE  WsTypes' /\ WInv'
<1>1. /\ batch[s] # <<>> /\ Current(s).op = "data" /\ ~flushing[s]
      /\ got' = [got EXCEPT ![s] = Append(@, Head(batch[s]))]
      /\ batch' = [batch EXCEPT ![s] = Tail(@)]
      /\ \/ Close(s)
         \/ Send(s) /\ UNCHANGED <<sentClose, closed, closeFrame>>
         \/ UNCHANGED <<outVars, sentClose, closed, closeFrame>>
      /\ UNCHANGED <<buffer, position, fragments, garbled, attached, alive>>
  BY DEF HandOverData, HandsOver, sideVars
<1>2. PICK g \in Seq(Seq(Nat)) : g = got[s]
  BY TypesOf
<1>3. PICK b \in Seq(Seq(Nat)) : b = batch[s] /\ b # <<>>
  BY <1>1, TypesOf
<1>4. PICK h, t, r : h = Head(b) /\ t = Tail(b) /\ r = Append(g, h)
  OBVIOUS
<1>5. r \o t = g \o b /\ h \in Seq(Nat) /\ t \in Seq(Seq(Nat)) /\ r \in Seq(Seq(Nat))
  <2>1. g \in Seq(Seq(Nat)) /\ b \in Seq(Seq(Nat)) /\ b # <<>>
    BY <1>3
  <2> QED
    BY ONLY <1>4, <2>1, MovedIs
<1>6. got' = [got EXCEPT ![s] = r] /\ batch' = [batch EXCEPT ![s] = t]
  BY <1>1, <1>2, <1>3, <1>4
<1>7. /\ got' \in [Sides -> Seq(Seq(Nat))] /\ batch' \in [Sides -> Seq(Seq(Nat))]
      /\ got'[s] = r /\ batch'[s] = t
      /\ got'[Peer(s)] = got[Peer(s)] /\ batch'[Peer(s)] = batch[Peer(s)]
  <2>1. Peer(s) \in Sides /\ Peer(s) # s
    BY PeerIs
  <2>2. got \in [Sides -> Seq(Seq(Nat))] /\ batch \in [Sides -> Seq(Seq(Nat))]
    BY DEF WsTypes, InTypes
  <2> QED
    BY <1>5, <1>6, <2>1, <2>2
<1>8. \A x \in Sides : SameLine(x) /\ fragments'[x] = fragments[x]
  BY <1>1 DEF SameLine
<1>9. ASSUME NEW n \in 0..Len(sent[Peer(s)]), Heeds(s, n), SameWire(s),
             HoldsBack(s, n, closeFrame[s])',
             closed'[s] => \E k \in 1..n : sent'[Peer(s)][k].op = "close"
      PROVE  Heeds(s, n)'
  <2>1. PICK S : S = sent[Peer(s)] /\ S = sent'[Peer(s)]
    BY <1>9 DEF SameWire
  <2>2. Accounts(S, n, r \o t, fragments'[s])
    BY <1>2, <1>3, <1>5, <1>8, <1>9, <2>1 DEF Heeds
  <2>3. h = batch[s][1]
    BY <1>3, <1>4
  <2>4. IsMessage(S, h)
    BY <1>1, <2>1, <2>3 DEF IsMessage, Current
  <2>5. \A m \in DOMAIN g : IsMessage(S, g[m])
    BY <1>2, <1>9, <2>1 DEF Heeds
  <2>6. \A m \in DOMAIN r : r[m] = h \/ (m \in DOMAIN g /\ r[m] = g[m])
    BY <1>4, <1>5, AppendIs
  <2>7. \A m \in DOMAIN r : IsMessage(S, r[m])
    BY <2>4, <2>5, <2>6
  <2> QED
    BY <1>7, <1>9, <2>1, <2>2, <2>7 DEF Heeds
<1>10. CASE Close(s)
  <2>1. /\ SendsOn(s) /\ Waits(s)'
        /\ closed' \in [Sides -> BOOLEAN] /\ closeFrame' \in [Sides -> Nat]
        /\ closed'[Peer(s)] = closed[Peer(s)] /\ closeFrame'[Peer(s)] = closeFrame[Peer(s)]
    BY <1>1, <1>10, CloseIs
  <2>2. OutTypes' /\ SameWire(s)
    BY <2>1 DEF SendsOn
  <2>3. InTypes'
    BY <1>1, <1>7, <2>1 DEF WsTypes, InTypes
  <2>4. ASSUME NEW n \in 0..Len(sent[Peer(s)]), Heeds(s, n) PROVE Heeds(s, n)'
    <3>1. /\ HoldsBack(s, n, closeFrame[s])'
          /\ closed'[s] => \E k \in 1..n : sent'[Peer(s)][k].op = "close"
      BY <1>10, <2>2, <2>4, CloseHeeds
    <3> QED
      BY <1>9, <2>2, <2>4, <3>1
  <2>5. Acts(s)
    BY <1>8, <2>1, <2>4 DEF Acts
  <2>6. Apart(Peer(s))
    BY <1>7, <1>8, <2>1, PeerIs DEF Apart, SameTaken
  <2> QED
    BY <2>2, <2>3, <2>5, <2>6, ActsKeep DEF WsTypes
<1>11. CASE /\ Send(s) \/ UNCHANGED outVars
            /\ UNCHANGED <<sentClose, closed, closeFrame>>
  <2>1. SendsOn(s)
    <3>1. UNCHANGED <<sentClose, closed, alive>>
      BY <1>1, <1>11
    <3>2. CASE Send(s)
      BY <1>1, <3>1, <3>2, UserFrameIs
    <3>3. CASE UNCHANGED outVars
      <4>1. UNCHANGED <<outVars, sentClose>>
        BY <3>1, <3>3
      <4> QED
        BY <3>1, <4>1, SendsNothing
    <3> QED
      BY <1>11, <3>2, <3>3
  <2>2. OutTypes' /\ SameWire(s)
    BY <2>1 DEF SendsOn
  <2>3. InTypes'
    BY <1>1, <1>7, <1>11 DEF WsTypes, InTypes
  <2>4. ASSUME NEW n \in 0..Len(sent[Peer(s)]), Heeds(s, n) PROVE Heeds(s, n)'
    <3>1. /\ HoldsBack(s, n, closeFrame[s])'
          /\ closed'[s] => \E k \in 1..n : sent'[Peer(s)][k].op = "close"
      BY <1>11, <2>2, <2>4 DEF Heeds, HoldsBack, SameWire
    <3> QED
      BY <1>9, <2>2, <2>4, <3>1
  <2>5. Waits(s)'
    <3>1. Hears(s) /\ Current(s).op # "close" /\ batch'[s] = Tail(batch[s])
      BY <1>1, <1>3, <1>4, <1>7 DEF WInv
    <3> QED
      BY <1>1, <1>8, <1>11, <3>1, WaitsOn
  <2>6. Acts(s)
    BY <1>8, <2>1, <2>4, <2>5 DEF Acts
  <2>7. Apart(Peer(s))
    BY <1>7, <1>8, <1>11, PeerIs DEF Apart, SameTaken
  <2> QED
    BY <2>2, <2>3, <2>6, <2>7, ActsKeep DEF WsTypes
<1>12. Close(s) \/ ((Send(s) \/ UNCHANGED outVars) /\ UNCHANGED <<sentClose, closed, closeFrame>>)
  BY <1>1
<1> QED
  BY <1>10, <1>11, <1>12

(* a control frame is handed over                                          *)
LEMMA DropHeeds ==
    ASSUME WsTypes, NEW s \in Sides, batch[s] # <<>>, Current(s).op # "data",
           batch'[s] = Tail(batch[s]), got'[s] = got[s], fragments'[s] = fragments[s],
           SameWire(s), NEW n, Heeds(s, n), HoldsBack(s, n, closeFrame[s])',
           closed'[s] => \E k \in 1..n : sent'[Peer(s)][k].op = "close"
    PROVE  Heeds(s, n)'
<1>1. PICK g \in Seq(Seq(Nat)) : g = got[s]
  BY TypesOf
<1>2. PICK b \in Seq(Seq(Nat)) : b = batch[s] /\ b # <<>>
  BY TypesOf
<1>3. PICK S : S = sent[Peer(s)] /\ S = sent'[Peer(s)]
  BY DEF SameWire
<1>4. PICK f : f = fragments[s] /\ f = fragments'[s]
  OBVIOUS
<1>5. Accounts(S, n, g \o b, f) /\ n \in Nat
  BY <1>1, <1>2, <1>3, <1>4 DEF Heeds
<1>6. ~IsMessage(S, Head(b))
  <2>1. Head(b) = batch[s][1]
    BY <1>2
  <2> QED
    BY <1>3, <2>1 DEF IsMessage, Current
<1>7. Accounts(S, n, g \o Tail(b), f)
  BY <1>2, <1>5, <1>6, Dropped
<1> QED
  BY <1>1, <1>2, <1>3, <1>4, <1>7 DEF Heeds

(* the next frames are handed over                                         *)
LEMMA BatchTail ==
    ASSUME WsTypes, NEW s \in Sides, batch[s] # <<>>, batch' = [batch EXCEPT ![s] = Tail(@)]
    PROVE  /\ batch' \in [Sides -> Seq(Seq(Nat))] /\ batch'[s] = Tail(batch[s])
           /\ batch'[Peer(s)] = batch[Peer(s)]
<1>1. PICK b \in Seq(Seq(Nat)) : b = batch[s] /\ b # <<>>
  BY TypesOf
<1>2. PICK t \in Seq(Seq(Nat)) : t = Tail(b)
  <2>1. b \in Seq(Seq(Nat)) /\ b # <<>>
    BY <1>1
  <2>2. Tail(b) \in Seq(Seq(Nat))
    BY ONLY <2>1
  <2> QED
    BY <2>2
<1>3. batch' = [batch EXCEPT ![s] = t] /\ batch \in [Sides -> Seq(Seq(Nat))]
  BY <1>1, <1>2 DEF WsTypes, InTypes
<1> QED
  BY <1>1, <1>2, <1>3, PeerIs

(* onControlFrame, for a ping and a pong                                   *)
LEMMA HandOverPingKeeps ==
    ASSUME WsTypes, WInv, NEW s \in Sides, HandOverPing(s)
    PROVE  WsTypes' /\ WInv'
<1>1. /\ batch[s] # <<>> /\ ~flushing[s] /\ Current(s).op \in {"ping", "pong"}
      /\ batch' = [batch EXCEPT ![s] = Tail(@)]
      /\ (MaySend(s) /\ Write(s, OwnFrame("pong"))) \/ UNCHANGED frameVars
      /\ UNCHANGED <<calls, queue, flushing, buffer, position, fragments, garbled, attached,
                     alive, got, closeFrame, sentClose, closed>>
  BY DEF HandOverPing, HandsOver, sideVars, stateVars
<1>2. Current(s).op # "data" /\ Current(s).op # "close"
  BY <1>1
<1>3. /\ batch' \in [Sides -> Seq(Seq(Nat))] /\ batch'[s] = Tail(batch[s])
      /\ batch'[Peer(s)] = batch[Peer(s)]
  BY <1>1, BatchTail
<1>4. Waits(s)'
  <2>1. Hears(s)
    BY DEF WInv
  <2> QED
    BY <1>1, <1>2, <1>3, <2>1, WaitsOn
<1>5. SendsOn(s)
  <2>1. CASE MaySend(s) /\ Write(s, OwnFrame("pong"))
    <3>1. ~sentClose[s] /\ ~closed[s]
      BY <2>1 DEF MaySend
    <3>2. sentClose' = [sentClose EXCEPT ![s] = "pong" = "close"]
      <4>1. sentClose \in [Sides -> BOOLEAN] /\ ("pong" = "close") = FALSE /\ sentClose[s] = FALSE
        BY <3>1 DEF WsTypes, OutTypes
      <4> QED
        BY <1>1, <4>1
    <3>3. "pong" \in {"pong", "close"} /\ UNCHANGED <<calls, queue, flushing, alive>> /\ ~closed'[s]
      BY <1>1, <3>1
    <3> QED
      BY ONLY WsTypes, WInv, s \in Sides, <1>1, <2>1, <3>1, <3>2, <3>3, OwnIs
  <2>2. CASE UNCHANGED frameVars
    <3>1. UNCHANGED <<outVars, sentClose>>
      BY <1>1, <2>2 DEF outVars
    <3> QED
      BY <1>1, <3>1, SendsNothing
  <2> QED
    BY <1>1, <2>1, <2>2
<1>6. OutTypes' /\ SameWire(s)
  BY <1>5 DEF SendsOn
<1>7. ASSUME NEW n \in 0..Len(sent[Peer(s)]), Heeds(s, n) PROVE Heeds(s, n)'
  <2>1. /\ HoldsBack(s, n, closeFrame[s])'
        /\ closed'[s] => \E k \in 1..n : sent'[Peer(s)][k].op = "close"
    BY <1>1, <1>6, <1>7 DEF Heeds, HoldsBack, SameWire
  <2> QED
    BY <1>1, <1>2, <1>3, <1>6, <1>7, <2>1, DropHeeds
<1>8. \A x \in Sides : SameLine(x)
  BY <1>1 DEF SameLine
<1>9. InTypes'
  BY <1>1, <1>3 DEF WsTypes, InTypes
<1>10. Acts(s)
  BY <1>4, <1>5, <1>7, <1>8 DEF Acts
<1>11. Apart(Peer(s))
  BY <1>1, <1>3, <1>8, PeerIs DEF Apart, SameTaken
<1> QED
  BY <1>6, <1>9, <1>10, <1>11, ActsKeep DEF WsTypes

(* The close frame is answered once, if it was not sent first.             *)
LEMMA ReplyIs ==
    ASSUME WsTypes, WInv, NEW s \in Sides, ReplyClose(s), ~flushing[s],
           closed' = [closed EXCEPT ![s] = TRUE], UNCHANGED <<calls, queue, flushing, alive>>
    PROVE  /\ SendsOn(s) /\ closeFrame' \in [Sides -> Nat]
           /\ closeFrame'[s] \in {0, closeFrame[s]}
           /\ closeFrame'[Peer(s)] = closeFrame[Peer(s)]
<1>1. closed'[s] = TRUE /\ closeFrame \in [Sides -> Nat]
  BY DEF WsTypes, InTypes
<1>2. CASE sentClose[s]
  <2>1. UNCHANGED <<frameVars, sentClose, closeFrame>>
    BY <1>2 DEF ReplyClose
  <2>2. UNCHANGED <<outVars, sentClose>>
    BY <2>1 DEF outVars
  <2>3. SendsOn(s)
    BY <1>2, <2>2, SendsNothing
  <2> QED
    BY <1>1, <2>1, <2>3
<1>3. CASE ~sentClose[s]
  <2>1. /\ Write(s, OwnFrame("close"))
        /\ sentClose' = [sentClose EXCEPT ![s] = TRUE]
        /\ closeFrame' = [closeFrame EXCEPT ![s] = 0]
    BY <1>3 DEF ReplyClose
  <2>2. SetFor(Nat, closeFrame, closeFrame', s, 0)
    <3>1. 0 \in Nat
      OBVIOUS
    <3> QED
      BY <1>1, <2>1, <3>1, SetIs
  <2>3. SendsOn(s)
    <3>1. ("close" = "close") = TRUE
      OBVIOUS
    <3>2. sentClose' = [sentClose EXCEPT ![s] = "close" = "close"]
      BY <2>1, <3>1
    <3>3. sentClose'[s]
      BY <2>1 DEF WsTypes, OutTypes
    <3>4. "close" \in {"pong", "close"} /\ UNCHANGED <<calls, queue, flushing, alive>>
      OBVIOUS
    <3> QED
      BY ONLY WsTypes, WInv, s \in Sides, ~flushing[s], <1>3, <2>1, <3>2, <3>3, <3>4, OwnIs
  <2> QED
    BY <2>2, <2>3 DEF SetFor
<1> QED
  BY <1>2, <1>3

(* onControlFrame, for a close frame                                       *)
LEMMA HandOverCloseKeeps ==
    ASSUME WsTypes, WInv, NEW s \in Sides, HandOverClose(s)
    PROVE  WsTypes' /\ WInv'
<1>1. /\ batch[s] # <<>> /\ ~flushing[s] /\ Current(s).op = "close"
      /\ batch' = [batch EXCEPT ![s] = Tail(@)]
      /\ UNCHANGED <<calls, queue, flushing, buffer, position, fragments, garbled, alive, got>>
  BY DEF HandOverClose, HandsOver, sideVars
<1>2. Current(s).op # "data"
  BY <1>1
<1>3. /\ batch' \in [Sides -> Seq(Seq(Nat))] /\ batch'[s] = Tail(batch[s])
      /\ batch'[Peer(s)] = batch[Peer(s)]
  BY <1>1, BatchTail
<1>5. \A x \in Sides : SameLine(x)
  BY <1>1 DEF SameLine
<1>6. CASE closed[s]
  <2>1. UNCHANGED <<frameVars, closeFrame, sentClose, closed, attached>>
    BY <1>6 DEF HandOverClose, stateVars
  <2>2. SendsOn(s)
    <3>1. UNCHANGED <<outVars, sentClose>>
      BY <1>1, <2>1 DEF outVars
    <3> QED
      BY <1>1, <1>6, <3>1, SendsNothing
  <2>3. OutTypes' /\ SameWire(s)
    BY <2>2 DEF SendsOn
  <2>4. InTypes'
    BY <1>1, <1>3, <2>1 DEF WsTypes, InTypes
  <2>5. Waits(s)'
    BY <1>6, <2>1 DEF Waits
  <2>6. ASSUME NEW n \in 0..Len(sent[Peer(s)]), Heeds(s, n) PROVE Heeds(s, n)'
    <3>1. /\ HoldsBack(s, n, closeFrame[s])'
          /\ closed'[s] => \E k \in 1..n : sent'[Peer(s)][k].op = "close"
      BY <2>1, <2>3, <2>6 DEF Heeds, HoldsBack, SameWire
    <3> QED
      BY <1>1, <1>2, <1>3, <2>3, <2>6, <3>1, DropHeeds
  <2>7. Acts(s)
    BY <1>5, <2>2, <2>5, <2>6 DEF Acts
  <2>8. Apart(Peer(s))
    BY <1>1, <1>3, <1>5, <2>1, PeerIs DEF Apart, SameTaken
  <2> QED
    BY <2>3, <2>4, <2>7, <2>8, ActsKeep DEF WsTypes
<1>7. CASE ~closed[s]
  <2>1. /\ ReplyClose(s) /\ closed' = [closed EXCEPT ![s] = TRUE]
        /\ attached' = [attached EXCEPT ![s] = FALSE]
    BY <1>7 DEF HandOverClose
  <2>2. /\ SendsOn(s) /\ closeFrame' \in [Sides -> Nat]
        /\ closeFrame'[s] \in {0, closeFrame[s]}
        /\ closeFrame'[Peer(s)] = closeFrame[Peer(s)]
    BY <1>1, <2>1, ReplyIs
  <2>3. closed' \in [Sides -> BOOLEAN] /\ closed'[s] = TRUE /\ closed'[Peer(s)] = closed[Peer(s)]
    BY <2>1, PeerIs DEF WsTypes, InTypes
  <2>4. attached' \in [Sides -> BOOLEAN]
    BY <2>1 DEF WsTypes, InTypes
  <2>5. InTypes' /\ OutTypes' /\ SameWire(s)
    BY <1>1, <1>3, <2>2, <2>3, <2>4 DEF WsTypes, InTypes, SendsOn
  <2>6. Waits(s)'
    BY <2>3 DEF Waits
  <2>7. ASSUME NEW n \in 0..Len(sent[Peer(s)]), Heeds(s, n) PROVE Heeds(s, n)'
    <3>0. sent'[Peer(s)] = sent[Peer(s)]
      BY <2>5 DEF SameWire
    <3>1. PICK q : q = Head(batch[s])
      OBVIOUS
    <3>2. q = batch[s][1] /\ q[1] \in 1..n
      BY <1>1, <2>7, <3>1, HeadIs
    <3>3. sent[Peer(s)][q[1]].op = "close"
      BY <1>1, <3>2 DEF Current
    <3>4. HoldsBack(s, n, closeFrame[s])'
      <4>1. HoldsBack(s, n, closeFrame[s]) /\ n \in Nat
        BY <2>7 DEF Heeds
      <4>2. 0 \in 0..n
        BY <4>1
      <4> QED
        BY <2>2, <2>3, <3>0, <4>1, <4>2 DEF HoldsBack
    <3>5. \E k \in 1..n : sent'[Peer(s)][k].op = "close"
      BY <3>0, <3>2, <3>3
    <3> QED
      BY <1>1, <1>2, <1>3, <2>5, <2>7, <3>4, <3>5, DropHeeds
  <2>8. Acts(s)
    BY <1>5, <2>2, <2>6, <2>7 DEF Acts
  <2>9. Apart(Peer(s))
    BY <1>1, <1>3, <1>5, <2>2, <2>3, PeerIs DEF Apart, SameTaken
  <2> QED
    BY <2>5, <2>8, <2>9, ActsKeep DEF WsTypes
<1> QED
  BY <1>6, <1>7

-----------------------------------------------------------------------------
(* onTcpReceive.                                                           *)

(* The frames up to number K - 1 have been read off the buffer q, the      *)
(* first of them has number a; the cache b and its position i remain.      *)
Read(s, S, m, q, i, v, a, K, b, j) ==
    /\ a >= 1 /\ a <= K /\ K - 1 <= Len(S)
    /\ Listed(WholeFrames(s, q, i), a, K)
    /\ LinedOf(Peer(s), S, m, b, j, v) /\ TakenOf(S, m, b, j, v) = K - 1
    /\ b \in Seq(Nat \X Nat) /\ j \in Nat /\ j <= Len(b)

(* some frames have been read, from the next one on                        *)
Reads(s, S, m, b, i, w, q, v, c, j) ==
    \E a, K \in Nat : a = TakenOf(S, m, b, i, w) + 1 /\ Read(s, S, m, q, i, v, a, K, c, j)

(* onTcpReceive reads the cache and n new units, takes the whole frames,   *)
(* and keeps a cache that the rest of the line continues.                  *)
LEMMA ReadsOn ==
    ASSUME NEW s \in Sides, NEW S, S = sent[Peer(s)], S \in Seq(Frames),
           NEW b \in Seq(Nat \X Nat), NEW i \in Nat, i <= Len(b), NEW w \in Seq(Nat \X Nat),
           NEW m \in Nat, m > 0 => S # <<>> /\ m < Size(Peer(s), S[Len(S)]),
           LinedOf(Peer(s), S, m, b, i, w), NEW n \in 1..Len(w),
           NEW u, u = SubSeq(w, 1, n), NEW v, v = SubSeq(w, n + 1, Len(w)),
           NEW q, q = IF i > 0 THEN b \o u ELSE u, q[i + 1][2] = 1,
           NEW h, h = Len(q) - Incomplete(s, q),
           NEW done \in BOOLEAN, done <=> h + ReadInto(s, q) = Len(q),
           NEW c, c = IF done THEN <<>> ELSE q, NEW j, j = IF done THEN 0 ELSE h
    PROVE  Reads(s, S, m, b, i, w, q, v, c, j)
<1>0. Begun(S, m, b, i, w, q, v)
  <2>1. /\ S \in Seq(Frames) /\ b \in Seq(Nat \X Nat) /\ i \in Nat /\ i <= Len(b)
        /\ w \in Seq(Nat \X Nat) /\ LinedOf(Peer(s), S, m, b, i, w) /\ n \in 1..Len(w)
        /\ u = SubSeq(w, 1, n) /\ v = SubSeq(w, n + 1, Len(w))
        /\ q = IF i > 0 THEN b \o u ELSE u
    OBVIOUS
  <2> QED
    BY <2>1, LineBegins, Zenon
<1>1. /\ q \in Seq(Nat \X Nat) /\ v \in Seq(Nat \X Nat)
      /\ LineOf(b, i, w) = q \o v
      /\ i < Len(q) /\ q[i + 1][1] = TakenOf(S, m, b, i, w) + 1
  BY <1>0 DEF Begun
<1>2. PICK y : y = LineOf(b, i, w) /\ y = q \o v
  BY <1>1
<1>3. Chain(Peer(s), S, y) /\ Ends(Peer(s), S, m, y)
  BY <1>2 DEF LinedOf
<1>4. Chain(Peer(s), S, q)
  BY <1>1, <1>2, <1>3, ChainCut, ZenonT(60)
<1>5. PICK x \in Nat : x = Incomplete(s, q)
  BY <1>1, <1>4, IncompleteIs
<1>6. PICK H, K \in Nat : Whole(Peer(s), S, q, i, x, H, K)
  BY <1>1, <1>4, <1>5, IncompleteIs
<1>7. H = h /\ H \in i..Len(q) /\ H = Len(q) - x
  BY <1>5, <1>6 DEF Whole
<1>8. PICK a \in Nat : a = q[i + 1][1] /\ a >= 1
  <2>1. i + 1 \in 1..Len(q)
    BY <1>1, Place
  <2>2. q[i + 1] \in UnitsIn(Peer(s), S)
    BY <1>4, <2>1 DEF Chain
  <2>3. PICK z \in Nat : z = q[i + 1][1] /\ z # 0
    BY <2>2 DEF UnitsIn
  <2>4. z >= 1
    BY ONLY <2>3, z \in Nat
  <2> QED
    BY <2>3, <2>4
<1>9. a <= K
  BY <1>6, <1>8 DEF Whole
<1>10. Listed(WholeFrames(s, q, i), a, K)
  <2>1. Whole(Peer(s), S, q, i, Incomplete(s, q), H, K)
    BY <1>5, <1>6
  <2>2. /\ s \in Sides /\ q \in Seq(Nat \X Nat) /\ i \in Nat /\ i < Len(q)
        /\ H \in Nat /\ K \in Nat /\ a \in Nat /\ a = q[i + 1][1]
    BY <1>1, <1>8
  <2> QED
    BY <2>1, <2>2, WholeFramesIs, Zenon
<1>11. (c = <<>> /\ j = 0) \/ (x # 0 /\ c = q /\ j = H)
  <2>1. CASE done
    BY <2>1
  <2>2. CASE ~done
    <3>1. x # 0
      <4>1. SUFFICES ASSUME x = 0 PROVE FALSE
        OBVIOUS
      <4>2. ReadInto(s, q) = 0
        BY <1>5, <4>1 DEF ReadInto
      <4>3. PICK l \in Nat : l = Len(q)
        BY <1>1
      <4>4. h = l /\ ~(h + 0 = l)
        BY <1>7, <2>2, <4>1, <4>2, <4>3
      <4> QED
        BY ONLY <4>4, l \in Nat
    <3> QED
      BY <1>7, <2>2, <3>1
  <2> QED
    BY <2>1, <2>2
<1>12. LinedOf(Peer(s), S, m, c, j, v) /\ TakenOf(S, m, c, j, v) = K - 1 /\ K - 1 <= Len(S)
  <2>1. /\ S \in Seq(Frames) /\ Chain(Peer(s), S, y) /\ Ends(Peer(s), S, m, y)
        /\ m \in Nat /\ (m > 0 => S # <<>> /\ m < Size(Peer(s), S[Len(S)]))
        /\ q \in Seq(Nat \X Nat) /\ v \in Seq(Nat \X Nat) /\ y = q \o v
        /\ i \in Nat /\ i < Len(q) /\ q[i + 1][2] = 1
        /\ x \in Nat /\ H \in Nat /\ K \in Nat /\ Whole(Peer(s), S, q, i, x, H, K)
    BY <1>1, <1>2, <1>3, <1>6
  <2>2. Rested(Peer(s), S, m, c, j, v, K)
    BY <1>11, <2>1, Rests, ZenonT(60)
  <2> QED
    BY <2>2 DEF Rested
<1>13. c \in Seq(Nat \X Nat) /\ j \in Nat /\ j <= Len(c)
  <2>1. CASE c = <<>> /\ j = 0
    BY ONLY <2>1
  <2>2. CASE c = q /\ j = H
    <3>1. q \in Seq(Nat \X Nat)
      BY <1>1
    <3>2. PICK l \in Nat : l = Len(q)
      BY ONLY <3>1
    <3>3. H \in i..l
      BY <1>7, <3>2
    <3>4. H <= l
      BY ONLY <3>3, i \in Nat, l \in Nat, H \in Nat
    <3> QED
      BY ONLY <2>2, <3>1, <3>2, <3>4, H \in Nat
  <2> QED
    BY <1>11, <2>1, <2>2
<1>14. Read(s, S, m, q, i, v, a, K, c, j)
  BY <1>8, <1>9, <1>10, <1>12, <1>13 DEF Read
<1> QED
  BY <1>1, <1>8, <1>14 DEF Reads

(* What the frames do to what is handed over, and to the close frame.      *)
TakesIn(s, S, a, K, st, o) ==
    /\ Reached(s, K - 1, st)
    /\ o \in Seq(Seq(Nat)) /\ Accounts(S, K - 1, got[s] \o o, st.frags)
    /\ st.close # 0 => \/ st.frags # <<>>
                       \/ o # <<>> /\ o[Len(o)] = <<st.close>>

(* A close frame that interrupts no message is handed over last.           *)
LEMMA BatchIs ==
    ASSUME NEW s \in Sides, NEW S, S = sent[Peer(s)], S \in Seq(Frames),
           got[s] \in Seq(Seq(Nat)),
           NEW a \in Nat, NEW K \in Nat, K >= 1, NEW st, Reached(s, K - 1, st), NEW o,
           o = IF st.close # 0 /\ st.frags = <<>> THEN Append(st.out, <<st.close>>) ELSE st.out
    PROVE  TakesIn(s, S, a, K, st, o)
<1>1. st.out \in Seq(Seq(Nat)) /\ st.close \in Nat
  BY DEF Reached, States
<1>2. Accounts(S, K - 1, got[s] \o st.out, st.frags) /\ HoldsBack(s, K - 1, st.close)
  BY DEF Reached
<1>3. CASE st.close # 0 /\ st.frags = <<>>
  <2>1. PICK c \in Nat : c = st.close
    BY <1>1
  <2>2. PICK N \in Nat : N = K - 1
    OBVIOUS
  <2>3. c \in 0..N /\ S[c].op = "close" /\ c # 0
    BY <1>2, <1>3, <2>1, <2>2 DEF HoldsBack
  <2>4. c \in 1..N /\ S[c].op # "data"
    <3>1. c \in 1..N
      BY ONLY <2>3, N \in Nat
    <3> QED
      BY <2>3, <3>1
  <2>5. Accounts(S, N, got[s] \o st.out, st.frags)
    BY <1>2, <2>2
  <2>6. PICK L : L = got[s] \o st.out
    OBVIOUS
  <2>7. Accounts(S, N, Append(L, <<c>>), st.frags)
    BY <2>4, <2>5, <2>6, AddSingle
  <2>8. PICK g \in Seq(Seq(Nat)) : g = got[s]
    OBVIOUS
  <2>9. PICK t \in Seq(Seq(Nat)) : t = st.out
    BY <1>1
  <2>10. <<c>> \in Seq(Nat)
    OBVIOUS
  <2>11. g \o Append(t, <<c>>) = Append(g \o t, <<c>>)
    BY <2>10, AppendsJoin
  <2>12. o = Append(t, <<c>>)
    BY <1>3, <2>1, <2>9
  <2>13. o \in Seq(Seq(Nat)) /\ o # <<>> /\ o[Len(o)] = <<c>>
    <3>1. t \in Seq(Seq(Nat)) /\ <<c>> \in Seq(Nat)
      BY <2>10
    <3>2. PICK y \in Seq(Nat) : y = <<c>>
      BY <3>1
    <3>3. /\ Append(t, y) \in Seq(Seq(Nat)) /\ Len(Append(t, y)) = Len(t) + 1
          /\ Len(t) \in Nat /\ Append(t, y)[Len(t) + 1] = y
      BY <3>1, <3>2, AppendIs
    <3>4. Append(t, y) # <<>>
      BY ONLY <3>3
    <3> QED
      BY <2>12, <3>2, <3>3, <3>4
  <2>14. Accounts(S, K - 1, got[s] \o o, st.frags)
    BY <2>2, <2>6, <2>7, <2>8, <2>9, <2>11, <2>12
  <2> QED
    BY <2>1, <2>13, <2>14 DEF TakesIn
<1>4. CASE ~(st.close # 0 /\ st.frags = <<>>)
  BY <1>1, <1>2, <1>4 DEF TakesIn
<1> QED
  BY <1>3, <1>4

(* what the units received are, where they were put together               *)
LEMMA HeedsFrames ==
    ASSUME WsTypes, NEW s \in Sides, batch[s] = <<>>, NEW a \in Nat, NEW K \in Nat,
           Heeds(s, a - 1), a >= 1, a <= K, K - 1 <= Len(sent[Peer(s)]),
           Lone(sent[Peer(s)]),
           NEW W, Listed(W, a, K), NEW st, st = TakeAll(s, W), NEW o,
           o = IF st.close # 0 /\ st.frags = <<>> THEN Append(st.out, <<st.close>>) ELSE st.out
    PROVE  TakesIn(s, sent[Peer(s)], a, K, st, o)
<1>1. PICK S \in Seq(Frames) : S = sent[Peer(s)]
  BY TypesOf, PeerIs
<1>2. Reached(s, a - 1, StartState(s))
  <2>1. StartState(s) = [frags |-> fragments[s], close |-> closeFrame[s], out |-> <<>>]
    BY DEF StartState
  <2>2. fragments[s] \in Seq(Nat) /\ closeFrame[s] \in Nat /\ <<>> \in Seq(Seq(Nat))
    BY TypesOf
  <2>3. StartState(s) \in States
    BY <2>1, <2>2 DEF States
  <2>4. /\ Accounts(sent[Peer(s)], a - 1, got[s] \o <<>>, fragments[s])
        /\ HoldsBack(s, a - 1, closeFrame[s])
    BY DEF Heeds
  <2>5. /\ StartState(s).frags = fragments[s] /\ StartState(s).close = closeFrame[s]
        /\ StartState(s).out = <<>>
    BY <2>1
  <2> QED
    BY <2>3, <2>4, <2>5 DEF Reached
<1>3. Reached(s, K - 1, st)
  <2>1. /\ s \in Sides /\ S = sent[Peer(s)] /\ S \in Seq(Frames) /\ got[s] \in Seq(Seq(Nat))
        /\ Lone(S)
        /\ a \in Nat /\ a >= 1 /\ K \in Nat /\ a <= K /\ K - 1 <= Len(S)
    BY <1>1, TypesOf
  <2>2. W \in Seq(Int) /\ Len(W) = K - a /\ \A i \in 1..(K - a) : W[i] = a + i - 1
    BY DEF Listed
  <2>3. Reached(s, K - 1, TakeAll(s, W))
    BY ONLY <1>2, <2>1, <2>2, TakeAllIs
  <2> QED
    BY <2>3
<1>4. K >= 1
  <2>1. a \in Nat /\ K \in Nat /\ a >= 1 /\ a <= K
    OBVIOUS
  <2> QED
    BY ONLY <2>1
<1>5. got[s] \in Seq(Seq(Nat))
  BY TypesOf
<1>6. TakesIn(s, S, a, K, st, o)
  BY <1>1, <1>3, <1>4, <1>5, BatchIs, Zenon
<1> QED
  BY <1>1, <1>6

(* the state behind, where the units were put together                     *)
LEMMA HearsFrames ==
    ASSUME WsTypes, NEW s \in Sides, Heeds(s, Taken(s)), NEW a \in Nat, NEW K \in Nat,
           NEW q, NEW i, a = Taken(s) + 1,
           Read(s, sent[Peer(s)], rest[Peer(s)], q, i, wire'[s], a, K, buffer'[s], position'[s]),
           NEW st, TakesIn(s, sent[Peer(s)], a, K, st, batch'[s]),
           fragments'[s] = st.frags, closeFrame'[s] = st.close,
           UNCHANGED <<sent, rest, closed, got>>
    PROVE  Hears(s)'
<1>1. Reached(s, K - 1, st) /\ HoldsBack(s, K - 1, st.close)
  BY DEF TakesIn, Reached
<1>2. Accounts(sent[Peer(s)], K - 1, got[s] \o batch'[s], st.frags)
  BY DEF TakesIn
<1>3. PICK n \in Nat : n = K - 1 /\ n \in 0..Len(sent[Peer(s)]) /\ Taken(s) \in 0..n
  <2>1. K - 1 <= Len(sent[Peer(s)]) /\ a >= 1 /\ a <= K
    BY DEF Read
  <2>2. PICK l \in Nat : l = Len(sent[Peer(s)])
    BY TypesOf, PeerIs
  <2>3. Taken(s) \in Nat
    BY <2>2 DEF Heeds
  <2>4. /\ K \in Nat /\ a \in Nat /\ a >= 1 /\ a <= K /\ K - 1 <= l
        /\ Taken(s) \in Nat /\ a = Taken(s) + 1
    BY <2>1, <2>2, <2>3
  <2>5. K - 1 \in Nat /\ K - 1 \in 0..l /\ Taken(s) \in 0..(K - 1)
    BY ONLY <2>4, l \in Nat
  <2> QED
    BY <2>2, <2>5
<1>4. closed'[s] => \E k \in 1..n : sent'[Peer(s)][k].op = "close"
  <2>1. closed[s] => \E k \in 1..Taken(s) : sent[Peer(s)][k].op = "close"
    BY DEF Heeds
  <2>2. \A k \in 1..Taken(s) : k \in 1..n
    BY <1>3
  <2> QED
    BY <2>1, <2>2
<1>5. HoldsBack(s, n, closeFrame[s])'
  BY <1>1, <1>3 DEF HoldsBack
<1>6. \A m \in DOMAIN got[s] : IsMessage(sent[Peer(s)], got[s][m])
  BY DEF Heeds
<1>7. Heeds(s, n)'
  BY <1>2, <1>3, <1>4, <1>5, <1>6 DEF Heeds
<1>8. Lined(s)' /\ Taken(s)' = n
  BY <1>3 DEF Read, Lined, Taken
<1>9. Waits(s)'
  BY DEF TakesIn, Waits
<1> QED
  BY <1>3, <1>7, <1>8, <1>9 DEF Hears

(* There is one close frame at most.                                       *)
LEMMA LoneIs ==
    ASSUME NEW S \in Seq(Frames), NEW c, Behaves(S, c)
    PROVE  Lone(S)
<1> SUFFICES ASSUME NEW j \in DOMAIN S, NEW k \in DOMAIN S, S[j].op = "close", S[k].op = "close"
             PROVE  j = k
  BY DEF Lone
<1>1. ~(j < k) /\ ~(k < j)
  BY DEF Behaves
<1>2. j \in Int /\ k \in Int
  OBVIOUS
<1> QED
  BY ONLY <1>1, <1>2

(* However the units are cut, onTcpReceive keeps the invariant.            *)
LEMMA ReceiveKeeps ==
    ASSUME WsTypes, WInv, NEW s \in Sides, NEW n \in 1..Len(wire[s]), Receive(s, n)
    PROVE  WsTypes' /\ WInv'
<1>1. /\ alive /\ batch[s] = <<>> /\ ~garbled[s]
      /\ OnTcpReceive(s, SubSeq(wire[s], 1, n))
      /\ wire' = [wire EXCEPT ![s] = SubSeq(@, n + 1, Len(@))]
      /\ UNCHANGED <<sent, rest, torn, lost, calls, queue, flushing, sentClose>>
      /\ UNCHANGED <<closed, attached, got, alive>>
  BY DEF Receive, Idle
<1>2. PICK S \in Seq(Frames) : S = sent[Peer(s)]
  BY TypesOf, PeerIs
<1>3. PICK b, w \in Seq(Nat \X Nat), i \in Nat :
          b = buffer[s] /\ w = wire[s] /\ i = position[s] /\ i <= Len(b)
  BY TypesOf
<1>4. PICK u, v \in Seq(Nat \X Nat) : u = SubSeq(w, 1, n) /\ v = SubSeq(w, n + 1, Len(w))
  <2>1. n \in 0..Len(w)
    BY <1>3
  <2> QED
    BY <2>1, Halves
<1>5. /\ wire' \in [Sides -> Seq(Nat \X Nat)] /\ wire'[s] = v /\ wire'[Peer(s)] = wire[Peer(s)]
  <2>1. wire' = [wire EXCEPT ![s] = v] /\ wire \in [Sides -> Seq(Nat \X Nat)]
    BY <1>1, <1>3, <1>4 DEF WsTypes, OutTypes
  <2> QED
    BY <2>1, PeerIs
<1>6. PICK q : q = IF i > 0 THEN b \o u ELSE u
  OBVIOUS
<1>7. /\ Hears(s) /\ Hears(Peer(s)) /\ Says(Peer(s)) /\ Writes(Peer(s)) /\ Peer(s) \in Sides
      /\ Peer(s) # s
  BY PeerIs DEF WInv
<1>8. OutTypes' /\ \A x \in Sides : Says(x)' /\ Writes(x)' /\ InTurn(x)'
  <2>1. OutTypes'
    BY <1>1, <1>5 DEF WsTypes, OutTypes
  <2>2. ASSUME NEW x \in Sides PROVE Says(x)' /\ Writes(x)' /\ InTurn(x)'
    <3>1. SameOut(x) /\ closed'[x] = closed[x]
      BY <1>1 DEF SameOut
    <3>2. Says(x) /\ Writes(x) /\ InTurn(x)
      BY DEF WInv
    <3> QED
      BY <1>1, <3>1, <3>2, OutStays
  <2> QED
    BY <2>1, <2>2
<1>9. ASSUME /\ UNCHANGED <<buffer[Peer(s)], position[Peer(s)], fragments[Peer(s)]>>
             /\ UNCHANGED <<closeFrame[Peer(s)], batch[Peer(s)], garbled[Peer(s)]>>
      PROVE  Hears(Peer(s))'
  <2>1. SameLine(Peer(s)) /\ SameTaken(Peer(s)) /\ SameWire(Peer(s))
    BY <1>1, <1>5, <1>9 DEF SameLine, SameTaken, SameWire
  <2> QED
    BY <1>7, <2>1, HearsStays
<1>10. CASE q[i + 1][2] # 1
  <2>1. /\ garbled' = [garbled EXCEPT ![s] = TRUE]
        /\ UNCHANGED <<buffer, position, fragments, closeFrame, batch>>
    BY <1>1, <1>3, <1>4, <1>6, <1>10 DEF OnTcpReceive
  <2>2. garbled' \in [Sides -> BOOLEAN] /\ garbled'[s] = TRUE
        /\ garbled'[Peer(s)] = garbled[Peer(s)]
    BY <1>7, <2>1 DEF WsTypes, InTypes
  <2>3. WsTypes'
    BY <1>1, <1>8, <2>1, <2>2 DEF WsTypes, InTypes
  <2>4. Hears(s)'
    <3>1. PICK m \in 0..Len(sent[Peer(s)]) : Heeds(s, m)
      BY <1>7 DEF Hears
    <3>2. Heeds(s, m)'
      BY <1>1, <2>1, <3>1 DEF Heeds, HoldsBack
    <3>3. Waits(s)'
      BY <1>1, <1>7, <2>1 DEF Hears, Waits
    <3> QED
      BY <1>1, <2>2, <3>1, <3>2, <3>3 DEF Hears
  <2>5. Hears(Peer(s))'
    BY <1>9, <2>1, <2>2
  <2>6. Keeps(s) /\ Keeps(Peer(s))
    BY <1>7, <1>8, <2>4, <2>5 DEF Keeps
  <2> QED
    BY <2>3, <2>6, BothKeep
<1>11. CASE q[i + 1][2] = 1
  <2>1. PICK h, done, c, j, W, st, o :
            /\ h = Len(q) - Incomplete(s, q) /\ done = (h + ReadInto(s, q) = Len(q))
            /\ c = (IF done THEN <<>> ELSE q) /\ j = (IF done THEN 0 ELSE h)
            /\ W = WholeFrames(s, q, i) /\ st = TakeAll(s, W)
            /\ o = IF st.close # 0 /\ st.frags = <<>> THEN Append(st.out, <<st.close>>)
                                                      ELSE st.out
    OBVIOUS
  <2>2. /\ buffer' = [buffer EXCEPT ![s] = c] /\ position' = [position EXCEPT ![s] = j]
        /\ fragments' = [fragments EXCEPT ![s] = st.frags]
        /\ closeFrame' = [closeFrame EXCEPT ![s] = st.close]
        /\ batch' = [batch EXCEPT ![s] = o] /\ UNCHANGED garbled
    BY <1>1, <1>3, <1>4, <1>6, <1>11, <2>1 DEF OnTcpReceive
  <2>0. PICK m \in Nat : /\ m = rest[Peer(s)]
                         /\ m > 0 => S # <<>> /\ m < Size(Peer(s), S[Len(S)])
    <3>1. rest[Peer(s)] \in Nat /\ Missing(Peer(s), S, rest[Peer(s)], torn[Peer(s)])
      BY <1>2, <1>7, TypesOf DEF Writes
    <3> QED
      BY <3>1 DEF Missing
  <2>3. PICK a, K \in Nat : a = TakenOf(S, m, b, i, w) + 1 /\ Read(s, S, m, q, i, v, a, K, c, j)
    <3>1. /\ s \in Sides /\ S = sent[Peer(s)] /\ S \in Seq(Frames) /\ b \in Seq(Nat \X Nat)
          /\ i \in Nat /\ i <= Len(b) /\ w \in Seq(Nat \X Nat) /\ n \in 1..Len(w)
      BY <1>2, <1>3
    <3>2. LinedOf(Peer(s), S, m, b, i, w)
      BY <1>1, <1>2, <1>3, <1>7, <2>0 DEF Hears, Lined
    <3>3. done \in BOOLEAN /\ (done <=> h + ReadInto(s, q) = Len(q))
          /\ c = (IF done THEN <<>> ELSE q) /\ j = (IF done THEN 0 ELSE h)
          /\ h = Len(q) - Incomplete(s, q)
      BY <2>1
    <3>4. u = SubSeq(w, 1, n) /\ v = SubSeq(w, n + 1, Len(w))
      BY <1>4
    <3>5. Reads(s, S, m, b, i, w, q, v, c, j)
      BY ONLY <1>6, <1>11, <2>0, <3>1, <3>2, <3>3, <3>4, m \in Nat, ReadsOn
    <3> QED
      BY <3>5 DEF Reads
  <2>4. a = Taken(s) + 1 /\ Heeds(s, Taken(s)) /\ Heeds(s, a - 1)
    <3>1. Heeds(s, Taken(s)) /\ TakenOf(S, m, b, i, w) = Taken(s)
      BY <1>1, <1>2, <1>3, <1>7, <2>0 DEF Hears, Taken
    <3>2. Taken(s) \in Nat
      BY <1>2, <3>1 DEF Heeds
    <3>3. a = Taken(s) + 1
      BY <2>3, <3>1
    <3>4. a - 1 = Taken(s)
      BY ONLY <3>2, <3>3
    <3> QED
      BY <3>1, <3>3, <3>4
  <2>5. a >= 1 /\ a <= K /\ K - 1 <= Len(S) /\ Listed(W, a, K)
    BY <2>1, <2>3 DEF Read
  <2>6. TakesIn(s, S, a, K, st, o)
    <3>1. Lone(S)
      BY <1>2, <1>7, LoneIs DEF Says
    <3>2. /\ s \in Sides /\ batch[s] = <<>> /\ a \in Nat /\ K \in Nat
          /\ st = TakeAll(s, W)
          /\ o = IF st.close # 0 /\ st.frags = <<>> THEN Append(st.out, <<st.close>>)
                                                    ELSE st.out
      BY <1>1, <2>1
    <3> QED
      BY ONLY WsTypes, <1>2, <2>4, <2>5, <3>1, <3>2, HeedsFrames
  <2>7. /\ st.frags \in Seq(Nat) /\ st.close \in Nat /\ o \in Seq(Seq(Nat))
        /\ c \in Seq(Nat \X Nat) /\ j \in Nat /\ j <= Len(c)
    BY <2>3, <2>6 DEF TakesIn, Reached, States, Read
  <2>8. /\ buffer' \in [Sides -> Seq(Nat \X Nat)] /\ position' \in [Sides -> Nat]
        /\ fragments' \in [Sides -> Seq(Nat)] /\ closeFrame' \in [Sides -> Nat]
        /\ batch' \in [Sides -> Seq(Seq(Nat))]
        /\ \A x \in Sides : position'[x] <= Len(buffer'[x])
        /\ buffer'[s] = c /\ position'[s] = j /\ fragments'[s] = st.frags
        /\ closeFrame'[s] = st.close /\ batch'[s] = o
    BY <2>2, <2>7 DEF WsTypes, InTypes
  <2>9. /\ UNCHANGED <<buffer[Peer(s)], position[Peer(s)], fragments[Peer(s)]>>
        /\ UNCHANGED <<closeFrame[Peer(s)], batch[Peer(s)], garbled[Peer(s)]>>
    BY <1>7, <2>2 DEF WsTypes, InTypes
  <2>10. WsTypes'
    BY <1>1, <1>8, <2>2, <2>8 DEF WsTypes, InTypes
  <2>11. Hears(s)'
    <3>1. Read(s, sent[Peer(s)], rest[Peer(s)], q, i, wire'[s], a, K, buffer'[s], position'[s])
      BY <1>2, <1>5, <2>0, <2>3, <2>8
    <3>2. TakesIn(s, sent[Peer(s)], a, K, st, batch'[s])
      BY <1>2, <2>6, <2>8
    <3>3. /\ fragments'[s] = st.frags /\ closeFrame'[s] = st.close
          /\ UNCHANGED <<sent, rest, closed, got>> /\ a \in Nat /\ K \in Nat /\ s \in Sides
      BY <1>1, <2>8
    <3> QED
      BY ONLY WsTypes, <2>4, <3>1, <3>2, <3>3, HearsFrames
  <2>12. Hears(Peer(s))'
    BY <1>9, <2>9
  <2>13. Keeps(s) /\ Keeps(Peer(s))
    BY <1>7, <1>8, <2>11, <2>12 DEF Keeps
  <2> QED
    BY <2>10, <2>13, BothKeep
<1> QED
  BY <1>10, <1>11

-----------------------------------------------------------------------------
(* The two WsChannels, and the exchange before them.                       *)

(* The connection breaks, and what is on its way is lost.                  *)
LEMMA BreakKeeps ==
    ASSUME WsTypes, WInv, Break
    PROVE  WsTypes' /\ WInv'
<1>1. /\ ~alive' /\ alive' \in BOOLEAN
      /\ wire' = [s \in Sides |-> <<>>] /\ queue' = [s \in Sides |-> <<>>]
      /\ flushing' = [s \in Sides |-> FALSE]
      /\ UNCHANGED <<sent, rest, torn, lost, calls, buffer, position, fragments, garbled,
                     closeFrame, sentClose, closed, attached, batch, got>>
  BY DEF Break, sideVars, stateVars
<1>2. WsTypes'
  <2>1. <<>> \in Seq(Nat \X Nat) /\ <<>> \in Seq(Frames)
    OBVIOUS
  <2>2. /\ wire' \in [Sides -> Seq(Nat \X Nat)] /\ queue' \in [Sides -> Seq(Frames)]
        /\ flushing' \in [Sides -> BOOLEAN]
    BY <1>1, <2>1
  <2>3. OutTypes'
    BY <1>1, <2>2 DEF WsTypes, OutTypes
  <2>4. InTypes'
    BY <1>1 DEF WsTypes, InTypes
  <2> QED
    BY <2>3, <2>4 DEF WsTypes
<1>3. WInv'
  <2> SUFFICES ASSUME NEW s \in Sides PROVE Says(s)' /\ Hears(s)' /\ Writes(s)' /\ InTurn(s)'
    BY DEF WInv
  <2>1. Says(s) /\ Hears(s) /\ Writes(s) /\ InTurn(s)
    BY DEF WInv
  <2>6. queue'[s] = <<>> /\ flushing'[s] = FALSE
    BY <1>1
  <2>7. Writes(s)'
    BY <1>1, <2>1, <2>6 DEF Writes
  <2>8. InTurn(s)'
    <3>1. DOMAIN queue'[s] = {}
      BY <2>6
    <3> QED
      BY <1>1, <2>1, <3>1 DEF InTurn, InTurnOf
  <2>2. Says(s)'
    BY <1>1, <2>1 DEF Says
  <2>3. PICK n \in 0..Len(sent[Peer(s)]) : Heeds(s, n)
    BY <2>1 DEF Hears
  <2>4. Heeds(s, n)'
    BY <1>1, <2>3 DEF Heeds, HoldsBack
  <2>5. Waits(s)'
    BY <1>1, <2>1 DEF Hears, Waits
  <2> QED
    BY <1>1, <2>2, <2>3, <2>4, <2>5, <2>7, <2>8 DEF Hears
<1> QED
  BY <1>2, <1>3

(* none of the steps that are not of a WsChannel                           *)
LEMMA WsSame ==
    ASSUME WsTypes, WInv, UNCHANGED wsVars
    PROVE  WsTypes' /\ WInv'
<1>1. /\ UNCHANGED <<sideVars, closeFrame, closed, batch, got, alive>>
      /\ UNCHANGED <<outVars, sentClose>> /\ UNCHANGED attached
  BY DEF wsVars, stateVars
<1>2. PICK s \in Sides : s = "client"
  BY DEF Sides
<1>3. SendsOn(s)
  BY <1>1, SendsNothing
<1>4. attached' \in [Sides -> BOOLEAN]
  BY <1>1 DEF WsTypes, InTypes
<1> QED
  BY <1>1, <1>3, <1>4, OnlySends

(* every step of the two WsChannels                                        *)
LEMMA WsNextKeeps ==
    ASSUME WsTypes, WInv, WsNext
    PROVE  WsTypes' /\ WInv'
<1>1. CASE Break
  BY <1>1, BreakKeeps
<1>2. ASSUME NEW s \in Sides,
             \/ UserSends(s) \/ UserCloses(s) \/ Writable(s) \/ Flush(s)
             \/ \E n \in 1..Len(wire[s]) : Receive(s, n)
             \/ HandOverData(s) \/ HandOverPing(s) \/ HandOverClose(s)
      PROVE  WsTypes' /\ WInv'
  <2>1. CASE UserSends(s)
    BY <2>1, UserSendsKeeps
  <2>2. CASE UserCloses(s)
    BY <2>2, UserClosesKeeps
  <2>3. CASE \E n \in 1..Len(wire[s]) : Receive(s, n)
    BY <2>3, ReceiveKeeps
  <2>4. CASE HandOverData(s)
    BY <2>4, HandOverDataKeeps
  <2>5. CASE HandOverPing(s)
    BY <2>5, HandOverPingKeeps
  <2>6. CASE HandOverClose(s)
    BY <2>6, HandOverCloseKeeps
  <2>7. CASE Writable(s)
    BY <2>7, WritableKeeps
  <2>8. CASE Flush(s)
    BY <2>8, FlushKeeps
  <2> QED
    BY <1>2, <2>1, <2>2, <2>3, <2>4, <2>5, <2>6, <2>7, <2>8
<1> QED
  BY <1>1, <1>2 DEF WsNext

(* nothing was taken                                                       *)
LEMMA NothingYet ==
    ASSUME NEW S, NEW L, L = <<>>, NEW f, f = <<>>
    PROVE  Accounts(S, 0, L, f)
<1>1. DOMAIN L = {} /\ DOMAIN f = {} /\ L \in Seq(Seq(Nat)) /\ f \in Seq(Nat)
  OBVIOUS
<1> QED
  BY <1>1 DEF Accounts, Sound, Part, Rising, InOrder, Behind, Complete

(* before there is a WsChannel                                             *)
LEMMA WsInitIs ==
    ASSUME WsInit
    PROVE  WsTypes /\ WInv
<1>1. WsTypes
  <2>1. /\ <<>> \in Seq(Frames) /\ <<>> \in Seq(Nat \X Nat) /\ <<>> \in Seq(Nat)
        /\ <<>> \in Seq(Seq(Nat))
    OBVIOUS
  <2>2. \A s \in Sides : position[s] <= Len(buffer[s])
    BY DEF WsInit
  <2>3. OutTypes
    BY <2>1 DEF WsInit, OutTypes
  <2>4. InTypes
    BY <2>1, <2>2 DEF WsInit, InTypes
  <2> QED
    BY <2>3, <2>4 DEF WsTypes
<1>2. WInv
  <2> SUFFICES ASSUME NEW s \in Sides PROVE Says(s) /\ Hears(s) /\ Writes(s) /\ InTurn(s)
    BY DEF WInv
  <2>0. Peer(s) \in Sides
    BY PeerIs
  <2>1. /\ sent[s] = <<>> /\ sent[Peer(s)] = <<>> /\ wire[s] = <<>> /\ buffer[s] = <<>>
        /\ position[s] = 0 /\ fragments[s] = <<>> /\ closeFrame[s] = 0 /\ ~sentClose[s]
        /\ ~closed[s] /\ batch[s] = <<>> /\ got[s] = <<>> /\ queue[s] = <<>> /\ ~flushing[s]
        /\ rest[s] = 0 /\ rest[Peer(s)] = 0 /\ ~torn[s]
    BY <2>0 DEF WsInit
  <2>2. Says(s)
    BY <2>1 DEF Says, Behaves
  <2>8. Writes(s)
    BY <2>1 DEF Writes, Missing
  <2>9. InTurn(s)
    <3>1. DOMAIN sent[s] = {} /\ DOMAIN queue[s] = {}
      BY <2>1
    <3> QED
      BY <3>1 DEF InTurn, InTurnOf
  <2>3. LineOf(buffer[s], position[s], wire[s]) = <<>>
    BY <2>1 DEF LineOf
  <2>4. Lined(s)
    <3>1. Chain(Peer(s), sent[Peer(s)], <<>>) /\ Ends(Peer(s), sent[Peer(s)], rest[Peer(s)], <<>>)
      BY DEF Chain, Ends
    <3> QED
      BY <2>1, <2>3, <3>1 DEF Lined, LinedOf
  <2>5. Taken(s) = 0
    BY <2>1, <2>3 DEF Taken, TakenOf, WholeOf
  <2>6. Heeds(s, 0)
    <3>1. got[s] \o batch[s] = <<>>
      BY <2>1
    <3>2. Accounts(sent[Peer(s)], 0, got[s] \o batch[s], fragments[s])
      BY <2>1, <3>1, NothingYet
    <3>3. DOMAIN got[s] = {}
      BY <2>1
    <3>4. 0 \in 0..Len(sent[Peer(s)])
      BY <2>1
    <3> QED
      BY <2>1, <3>2, <3>3, <3>4 DEF Heeds, HoldsBack
  <2>7. Waits(s)
    BY <2>1 DEF Waits
  <2> QED
    BY <2>1, <2>2, <2>4, <2>5, <2>6, <2>7, <2>8, <2>9 DEF Hears
<1> QED
  BY <1>1, <1>2

-----------------------------------------------------------------------------
(* Messages, and the end.                                                  *)

(* Of the list L of what was taken, g was handed over; it comes first.     *)
Handed(S, n, g, L) ==
    /\ \A m \in DOMAIN g : /\ m \in DOMAIN L /\ L[m] = g[m]
                           /\ IsMessage(S, L[m]) /\ Message(S, n, g[m])
    /\ \A m \in DOMAIN L, l \in DOMAIN g : m \notin DOMAIN g => l < m

(* What was handed over is a beginning of what was taken, and its elements *)
(* are messages.                                                           *)
LEMMA GotIs ==
    ASSUME WsTypes, WInv, NEW s \in Sides, NEW n, Heeds(s, n), NEW S, S = sent[Peer(s)],
           NEW L, L = got[s] \o batch[s]
    PROVE  Handed(S, n, got[s], L)
<1>1. PICK g \in Seq(Seq(Nat)) : g = got[s]
  BY TypesOf
<1>2. PICK b \in Seq(Seq(Nat)) : b = batch[s]
  BY TypesOf
<1>3. L = g \o b
  BY <1>1, <1>2
<1>4. /\ DOMAIN g = 1..Len(g) /\ DOMAIN L = 1..Len(L) /\ Len(g) \in Nat
      /\ \A m \in 1..Len(g) : m \in 1..Len(L) /\ L[m] = g[m]
  <2>1. \A m \in 1..Len(g) : m \in 1..Len(L) /\ L[m] = g[m]
    BY <1>3, Joined
  <2>2. DOMAIN g = 1..Len(g) /\ DOMAIN L = 1..Len(L) /\ Len(g) \in Nat
    BY <1>3
  <2> QED
    BY <2>1, <2>2
<1>5. ASSUME NEW m \in DOMAIN g PROVE IsMessage(S, L[m]) /\ Message(S, n, g[m])
  <2>1. m \in DOMAIN L /\ L[m] = g[m]
    BY <1>4, <1>5
  <2>2. IsMessage(S, g[m])
    BY <1>1, <1>5 DEF Heeds
  <2>3. Message(S, n, g[m]) \/ Single(S, n, g[m])
    BY <2>1 DEF Heeds, Accounts, Sound
  <2>4. ~Single(S, n, g[m])
    BY <2>2 DEF Single, IsMessage
  <2> QED
    BY <2>1, <2>2, <2>3, <2>4
<1>6. ASSUME NEW m \in DOMAIN L, m \notin DOMAIN g, NEW l \in DOMAIN g PROVE l < m
  <2>1. m \in 1..Len(L) /\ ~(m \in 1..Len(g)) /\ l \in 1..Len(g) /\ Len(g) \in Nat
    BY <1>4, <1>6
  <2>2. m \in Nat /\ l \in Nat /\ Len(L) \in Nat
    BY <1>3, <2>1
  <2> QED
    BY ONLY <2>1, <2>2
<1>7. \A m \in DOMAIN g : m \in DOMAIN L /\ L[m] = g[m]
  BY <1>4
<1>8. Handed(S, n, g, L)
  BY ONLY <1>5, <1>6, <1>7 DEF Handed
<1> QED
  BY <1>1, <1>8

(* a frame of a message that was handed over                               *)
LEMMA DeliveredIs ==
    ASSUME NEW s, NEW m \in DOMAIN got[s], got[s][m] \in Seq(Nat), NEW k, Holds(got[s][m], k)
    PROVE  k \in Delivered(s)
<1>1. k \in ToSet(got[s][m])
  BY DEF Holds, ToSet
<1> QED
  BY <1>1 DEF Delivered

(* No data frame before one that was handed over is left out.              *)
LEMMA NoneLeftOut ==
    ASSUME WsTypes, WInv, NEW s \in Sides, NEW n, Heeds(s, n), NEW S, S = sent[Peer(s)],
           NEW m \in DOMAIN got[s], NEW i \in DOMAIN got[s][m], NEW k \in 1..got[s][m][i],
           S[k].op = "data"
    PROVE  k \in Delivered(s)
<1>1. PICK L : L = got[s] \o batch[s]
  OBVIOUS
<1>2. /\ \A l \in DOMAIN got[s] : /\ l \in DOMAIN L /\ L[l] = got[s][l]
                                  /\ IsMessage(S, L[l]) /\ Message(S, n, got[s][l])
      /\ \A l \in DOMAIN L, h \in DOMAIN got[s] : l \notin DOMAIN got[s] => h < l
  <2>1. Handed(S, n, got[s], L)
    BY <1>1, GotIs
  <2> QED
    BY <2>1 DEF Handed
<1>3. Accounts(S, n, L, fragments[s])
  BY <1>1 DEF Heeds
<1>4. PICK x \in Nat : x = got[s][m][i] /\ x \in 1..n /\ n \in Nat
  <2>1. n \in Nat
    BY TypesOf, PeerIs DEF Heeds
  <2>2. got[s][m][i] \in 1..n
    BY <1>2 DEF Message
  <2> QED
    BY <2>1, <2>2
<1>5. k \in 1..n /\ k <= x /\ k \in Nat
  <2>1. k \in 1..x /\ x \in 1..n /\ n \in Nat
    BY <1>4
  <2> QED
    BY ONLY <2>1
<1>6. ~(x < k)
  BY ONLY <1>5, x \in Nat
<1>7. (\E l \in DOMAIN L : Holds(L[l], k)) \/ Holds(fragments[s], k)
  BY <1>3, <1>5 DEF Accounts, Complete
<1>8. CASE Holds(fragments[s], k)
  <2>1. Before(L[m], fragments[s])
    BY <1>2, <1>3 DEF Accounts, Behind
  <2>2. x < k
    BY <1>2, <1>4, <1>8, <2>1 DEF Before, Holds
  <2> QED
    BY <1>6, <2>2
<1>9. ASSUME NEW l \in DOMAIN L, Holds(L[l], k) PROVE k \in Delivered(s)
  <2>1. CASE l \in DOMAIN got[s]
    <3>1. got[s][l] \in Seq(Nat)
      BY <2>1, TypesOf
    <3> QED
      BY <1>2, <1>9, <2>1, <3>1, DeliveredIs
  <2>2. CASE l \notin DOMAIN got[s]
    <3>1. m < l
      BY <1>2, <2>2
    <3>2. IsMessage(S, L[l])
      <4>1. Message(S, n, L[l]) \/ Single(S, n, L[l])
        BY <1>3 DEF Accounts, Sound
      <4>2. CASE Message(S, n, L[l])
        <5>1. L[l] \in Seq(Nat) /\ L[l] # <<>>
          BY <1>3, <4>2 DEF Accounts, Message
        <5>2. 1 \in DOMAIN L[l]
          BY ONLY <5>1
        <5> QED
          BY <4>2, <5>2 DEF Message, IsMessage
      <4>3. CASE Single(S, n, L[l])
        <5>1. L[l] \in Seq(Nat) /\ Len(L[l]) = 1
          BY <1>3, <4>3 DEF Accounts, Single
        <5>2. \A e \in DOMAIN L[l] : e = 1
          BY ONLY <5>1
        <5>3. L[l][1] = k
          BY <1>9, <5>2 DEF Holds
        <5> QED
          BY <4>3, <5>3 DEF Single
      <4> QED
        BY <4>1, <4>2, <4>3
    <3>3. Before(L[m], L[l])
      BY <1>2, <1>3, <3>1, <3>2 DEF Accounts, InOrder
    <3>4. x < k
      BY <1>2, <1>4, <1>9, <3>3 DEF Before, Holds
    <3> QED
      BY <1>6, <3>4
  <2> QED
    BY <2>1, <2>2
<1> QED
  BY <1>7, <1>8, <1>9

(* When all is quiet, every frame was taken, or a close frame.  In the     *)
(* first case no unit of one waits in a cache for more.                    *)
LEMMA AllTaken ==
    ASSUME WsTypes, WInv, NEW s \in Sides, Quiet(s), Clear(s)
    PROVE  /\ batch[s] = <<>>
           /\ Heeds(s, Len(sent[Peer(s)])) \/ (closed[s] /\ \E n : Heeds(s, n))
<1>1. /\ batch[s] = <<>> /\ alive /\ ~garbled[s]
      /\ closed[s] \/ (wire[s] = <<>> /\ rest[Peer(s)] = 0)
  BY DEF Quiet, Idle, Clear
<1>2. Lined(s) /\ Hears(s)
  BY <1>1 DEF WInv, Hears
<1>3. PICK n \in 0..Len(sent[Peer(s)]) : Heeds(s, n) /\ n = Taken(s)
  BY <1>1, <1>2 DEF Hears
<1>4. PICK l \in Nat : l = Len(sent[Peer(s)])
  BY TypesOf, PeerIs
<1>5. CASE wire[s] = <<>> /\ rest[Peer(s)] = 0
  <2>1. PICK b \in Seq(Nat \X Nat) : b = buffer[s]
    BY TypesOf
  <2>2. position[s] \in Nat
    BY TypesOf
  <2>3. ASSUME position[s] > 0 PROVE FALSE
    <3>1. LineOf(buffer[s], position[s], wire[s]) = b
      BY <1>5, <2>1, <2>3 DEF LineOf
    <3>2. /\ position[s] < Len(b)
          /\ b[Len(b)][2] # Size(Peer(s), sent[Peer(s)][b[Len(b)][1]])
      BY <1>2, <2>1, <2>3 DEF Lined, LinedOf
    <3>3. b # <<>>
      BY <2>2, <3>2
    <3>4. b[Len(b)] = <<l, Size(Peer(s), sent[Peer(s)][l]) - 0>>
      BY <1>2, <1>4, <1>5, <3>1, <3>3 DEF Lined, LinedOf, Ends
    <3>5. l \in 1..l /\ sent[Peer(s)][l] \in Frames
      <4>1. b[Len(b)] \in UnitsIn(Peer(s), sent[Peer(s)])
        <5>1. Chain(Peer(s), sent[Peer(s)], b) /\ Len(b) \in 1..Len(b)
          BY <1>2, <3>1, <3>3 DEF Lined, LinedOf
        <5> QED
          BY <5>1 DEF Chain
      <4>2. l # 0
        BY <3>4, <4>1 DEF UnitsIn
      <4> QED
        BY <1>4, <4>2, TypesOf, PeerIs
    <3>6. PICK z \in Nat : z = Size(Peer(s), sent[Peer(s)][l])
      BY <3>5, SizeIs
    <3>7. z - 0 = z
      OBVIOUS
    <3> QED
      BY <3>2, <3>4, <3>6, <3>7
  <2>4. position[s] = 0
    BY <2>2, <2>3
  <2>5. LineOf(buffer[s], position[s], wire[s]) = <<>>
    BY <1>5, <2>4 DEF LineOf
  <2>6. Taken(s) = Len(sent[Peer(s)])
    BY <1>5, <2>5 DEF Taken, TakenOf, WholeOf
  <2> QED
    BY <1>1, <1>3, <2>6
<1>6. CASE closed[s]
  BY <1>1, <1>3, <1>6
<1> QED
  BY <1>1, <1>5, <1>6

(* M is a list of lists of data frames in the order they were sent in.     *)
Ordered(S, n, M) ==
    /\ \A l, m \in DOMAIN M : \A i \in DOMAIN M[l], j \in DOMAIN M[m] :
          l < m \/ (l = m /\ i < j) => M[l][i] < M[m][j]
    /\ \A m \in DOMAIN M : \A i \in DOMAIN M[m] : M[m][i] \in 1..n /\ S[M[m][i]].op = "data"

(* Messages and fragments are so.                                          *)
LEMMA OrderIs ==
    ASSUME WsTypes, WInv, NEW s \in Sides, NEW n, Heeds(s, n), NEW S, S = sent[Peer(s)],
           NEW M, M = Append(got[s], fragments[s])
    PROVE  Ordered(S, n, M)
<1>1. PICK g \in Seq(Seq(Nat)) : g = got[s]
  BY TypesOf
<1>2. PICK f \in Seq(Nat) : f = fragments[s]
  BY TypesOf
<1>3. PICK L : L = got[s] \o batch[s]
  OBVIOUS
<1>4. /\ \A m \in DOMAIN g : /\ m \in DOMAIN L /\ L[m] = g[m]
                             /\ IsMessage(S, L[m]) /\ Message(S, n, g[m])
  <2>1. Handed(S, n, got[s], L)
    BY <1>3, GotIs
  <2> QED
    BY <1>1, <2>1 DEF Handed
<1>5. Accounts(S, n, L, f)
  BY <1>2, <1>3 DEF Heeds
<1>6. PICK e \in Nat : e = Len(g) + 1
  OBVIOUS
<1>7. /\ \A m \in DOMAIN M : (m \in DOMAIN g /\ M[m] = g[m]) \/ (m = e /\ M[m] = f)
      /\ \A m \in DOMAIN g : m \in Nat /\ m < e
  <2>1. M = Append(g, f)
    BY <1>1, <1>2
  <2> QED
    BY <1>6, <2>1, AppendIs
<1>8. \A m \in DOMAIN g : ~(e < m) /\ m # e
  BY <1>7
<1>9. ~(e < e)
  OBVIOUS
<1>10. ASSUME NEW l \in DOMAIN M, NEW m \in DOMAIN M, NEW i \in DOMAIN M[l],
              NEW j \in DOMAIN M[m], l < m
       PROVE  M[l][i] < M[m][j]
  <2>1. l \in DOMAIN g /\ M[l] = g[l]
    BY <1>7, <1>8, <1>9, <1>10
  <2>2. CASE m \in DOMAIN g /\ M[m] = g[m]
    <3>1. Before(L[l], L[m])
      BY <1>4, <1>5, <1>10, <2>1, <2>2 DEF Accounts, InOrder
    <3> QED
      BY <1>4, <1>10, <2>1, <2>2, <3>1 DEF Before
  <2>3. CASE M[m] = f
    <3>1. Before(L[l], f)
      BY <1>4, <1>5, <2>1 DEF Accounts, Behind
    <3> QED
      BY <1>4, <1>10, <2>1, <2>3, <3>1 DEF Before
  <2> QED
    BY <1>7, <2>2, <2>3
<1>11. ASSUME NEW m \in DOMAIN M
       PROVE  /\ Rising(M[m])
              /\ \A i \in DOMAIN M[m] : M[m][i] \in 1..n /\ S[M[m][i]].op = "data"
  <2>1. CASE m \in DOMAIN g /\ M[m] = g[m]
    BY <1>4, <2>1 DEF Message
  <2>2. CASE M[m] = f
    BY <1>5, <2>2 DEF Accounts, Part
  <2> QED
    BY <1>7, <2>1, <2>2
<1>12. ASSUME NEW l \in DOMAIN M, NEW m \in DOMAIN M, NEW i \in DOMAIN M[l],
              NEW j \in DOMAIN M[m], l < m \/ (l = m /\ i < j)
       PROVE  M[l][i] < M[m][j]
  <2>1. CASE l < m
    BY <1>10, <2>1
  <2>2. CASE l = m /\ i < j
    BY <1>11, <2>2 DEF Rising
  <2> QED
    BY <1>12, <2>1, <2>2
<1> QED
  BY <1>11, <1>12 DEF Ordered

(* Frames that are sent alike are written in the order of the calls.       *)
LEMMA CallsIs ==
    ASSUME WsTypes, WInv, NEW p \in Sides, NEW m \in 1..Len(sent[p]), NEW n \in 1..Len(sent[p]),
           m < n, sent[p][m].op = "data", sent[p][n].op = "data"
    PROVE  InCallOrder(p, m, n)
<1>1. InTurnOf(sent[p], queue[p], calls[p]) /\ sent[p] \in Seq(Frames)
  BY TypesOf DEF WInv, InTurn
<1>2. m \in DOMAIN sent[p] /\ n \in DOMAIN sent[p]
  BY <1>1
<1> QED
  BY <1>1, <1>2 DEF InTurnOf, InCallOrder

(* what the invariant says of the messages of one side                     *)
LEMMA MessagesFollow ==
    ASSUME WsTypes, WInv, NEW s \in Sides, NEW p, p = Peer(s),
           NEW M, M = Append(got[s], fragments[s])
    PROVE  /\ \A l, m \in DOMAIN M : \A i \in DOMAIN M[l], j \in DOMAIN M[m] :
                 l < m \/ (l = m /\ i < j) =>
                    M[l][i] < M[m][j] /\ InCallOrder(p, M[l][i], M[m][j])
           /\ \A m \in DOMAIN M : \A i \in DOMAIN M[m] : IsData(p, M[m][i])
<1>1. Hears(s) /\ p \in Sides
  BY PeerIs DEF WInv
<1>2. PICK n \in 0..Len(sent[p]) : Heeds(s, n)
  BY <1>1 DEF Hears
<1>3. PICK S \in Seq(Frames) : S = sent[p]
  BY <1>1, TypesOf
<1>4. /\ \A l, m \in DOMAIN M : \A i \in DOMAIN M[l], j \in DOMAIN M[m] :
            l < m \/ (l = m /\ i < j) => M[l][i] < M[m][j]
      /\ \A m \in DOMAIN M : \A i \in DOMAIN M[m] : M[m][i] \in 1..n /\ S[M[m][i]].op = "data"
  <2>1. Heeds(s, n) /\ S = sent[Peer(s)] /\ M = Append(got[s], fragments[s])
    BY <1>2, <1>3
  <2>2. Ordered(S, n, M)
    BY ONLY WsTypes, WInv, s \in Sides, <2>1, OrderIs
  <2> QED
    BY <2>2 DEF Ordered
<1>5. \A k \in 1..n : k \in 1..Len(S)
  <2>1. n \in 0..Len(S) /\ Len(S) \in Nat
    BY <1>2, <1>3
  <2> QED
    BY ONLY <2>1
<1>6. ASSUME NEW l \in DOMAIN M, NEW m \in DOMAIN M, NEW i \in DOMAIN M[l],
             NEW j \in DOMAIN M[m], l < m \/ (l = m /\ i < j)
      PROVE  M[l][i] < M[m][j] /\ InCallOrder(p, M[l][i], M[m][j])
  <2>1. PICK x \in 1..Len(S) : x = M[l][i] /\ S[x].op = "data"
    BY <1>4, <1>5
  <2>2. PICK y \in 1..Len(S) : y = M[m][j] /\ S[y].op = "data"
    BY <1>4, <1>5
  <2>3. x < y
    BY <1>4, <1>6, <2>1, <2>2
  <2>4. InCallOrder(p, x, y)
    BY <1>1, <1>3, <2>1, <2>2, <2>3, CallsIs
  <2> QED
    BY <2>1, <2>2, <2>3, <2>4
<1>7. \A m \in DOMAIN M : \A i \in DOMAIN M[m] : IsData(p, M[m][i])
  BY <1>3, <1>4 DEF IsData
<1> QED
  BY <1>6, <1>7

(* When all is quiet, no data frame before a close frame is left out.      *)
LEMMA QuietTakes ==
    ASSUME WsTypes, WInv, NEW s \in Sides, Quiet(s), Clear(s), NEW S, S = sent[Peer(s)],
           NEW k \in DOMAIN S, S[k].op = "data", \A m \in 1..k : S[m].op # "close"
    PROVE  k \in Delivered(s) \cup ToSet(fragments[s])
<1>1. /\ batch[s] = <<>>
      /\ Heeds(s, Len(S)) \/ (closed[s] /\ \E n : Heeds(s, n))
  BY AllTaken
<1>2. k \in 1..Len(S) /\ Len(S) \in Nat
  BY TypesOf, PeerIs
<1>3. PICK n : Heeds(s, n) /\ k \in 1..n
  <2>1. CASE Heeds(s, Len(S))
    BY <1>2, <2>1
  <2>2. CASE closed[s] /\ \E n : Heeds(s, n)
    <3>1. PICK n : Heeds(s, n)
      BY <2>2
    <3>2. n \in Nat
      BY <1>2, <3>1 DEF Heeds
    <3>3. PICK c \in 1..n : S[c].op = "close"
      BY <2>2, <3>1 DEF Heeds
    <3>4. ~(c \in 1..k)
      BY <3>3
    <3>5. k \in 1..n
      BY ONLY <1>2, <3>2, <3>4, c \in 1..n
    <3> QED
      BY <3>1, <3>5
  <2> QED
    BY <1>1, <2>1, <2>2
<1>4. PICK g \in Seq(Seq(Nat)) : g = got[s]
  BY TypesOf
<1>5. got[s] \o batch[s] = g
  BY <1>1, <1>4
<1>6. Accounts(S, n, g, fragments[s])
  BY <1>3, <1>5 DEF Heeds
<1>7. (\E m \in DOMAIN g : Holds(g[m], k)) \/ Holds(fragments[s], k)
  BY <1>3, <1>6 DEF Accounts, Complete
<1>8. \A m \in DOMAIN g : got[s][m] \in Seq(Nat)
  BY <1>4
<1>9. CASE \E m \in DOMAIN g : Holds(g[m], k)
  BY <1>4, <1>8, <1>9, DeliveredIs
<1>10. CASE Holds(fragments[s], k)
  BY <1>10 DEF Holds, ToSet
<1> QED
  BY <1>7, <1>9, <1>10

(* what the invariant says of the frames                                   *)
LEMMA FramesFollow ==
    ASSUME WsTypes, WInv
    PROVE  FramesIntact
<1>1. ASSUME NEW s \in Sides, NEW p, p = Peer(s), NEW M, M = Append(got[s], fragments[s])
      PROVE
        /\ \A l, m \in DOMAIN M :
              \A i \in DOMAIN M[l], j \in DOMAIN M[m] :
                 l < m \/ (l = m /\ i < j) =>
                    /\ M[l][i] < M[m][j]
                    /\ InCallOrder(p, M[l][i], M[m][j])
        /\ \A m \in DOMAIN M : \A i \in DOMAIN M[m] : IsData(p, M[m][i])
        /\ \A m \in DOMAIN got[s] : \A i \in DOMAIN got[s][m] :
              /\ sent[p][got[s][m][i]].fin <=> i = Len(got[s][m])
              /\ \A n \in 1..got[s][m][i] : IsData(p, n) => n \in Delivered(s)
        /\ Quiet(s) /\ Clear(s) =>
              \A n \in DOMAIN sent[p] :
                 /\ IsData(p, n)
                 /\ \A m \in 1..n : sent[p][m].op # "close"
                 => n \in Delivered(s) \cup ToSet(fragments[s])
        /\ \A m, n \in DOMAIN sent[s] :
              sent[s][m].op = "close" /\ m < n => sent[s][n].how = "queued"
  <2>1. /\ \A l, m \in DOMAIN M : \A i \in DOMAIN M[l], j \in DOMAIN M[m] :
              l < m \/ (l = m /\ i < j) =>
                 M[l][i] < M[m][j] /\ InCallOrder(p, M[l][i], M[m][j])
        /\ \A m \in DOMAIN M : \A i \in DOMAIN M[m] : IsData(p, M[m][i])
    BY <1>1, MessagesFollow
  <2>2. PICK n : Heeds(s, n)
    BY DEF WInv, Hears
  <2>3. PICK S : S = sent[Peer(s)]
    OBVIOUS
  <2>4. ASSUME NEW m \in DOMAIN got[s], NEW i \in DOMAIN got[s][m]
        PROVE  /\ sent[p][got[s][m][i]].fin <=> i = Len(got[s][m])
               /\ \A k \in 1..got[s][m][i] : IsData(p, k) => k \in Delivered(s)
    <3>1. Message(S, n, got[s][m])
      <4>1. Handed(S, n, got[s], got[s] \o batch[s])
        BY <2>2, <2>3, GotIs
      <4> QED
        BY <4>1 DEF Handed
    <3>2. S[got[s][m][i]].fin <=> i = Len(got[s][m])
      BY <3>1 DEF Message
    <3>3. \A k \in 1..got[s][m][i] : S[k].op = "data" => k \in Delivered(s)
      BY <2>2, <2>3, NoneLeftOut
    <3> QED
      BY <1>1, <2>3, <3>2, <3>3 DEF IsData
  <2>5. ASSUME Quiet(s), Clear(s), NEW k \in DOMAIN sent[p], IsData(p, k),
               \A m \in 1..k : sent[p][m].op # "close"
        PROVE  k \in Delivered(s) \cup ToSet(fragments[s])
    BY <1>1, <2>5, QuietTakes DEF IsData
  <2>6. \A m, k \in DOMAIN sent[s] :
           sent[s][m].op = "close" /\ m < k => sent[s][k].how = "queued"
    BY DEF WInv, Says, Behaves
  <2> QED
    BY <2>1, <2>4, <2>5, <2>6
<1> QED
  BY <1>1 DEF FramesIntact

(* A side that has closed is followed by the other.                        *)
LEMMA CloseTaken ==
    ASSUME WsTypes, WInv, NEW s \in Sides, Quiet(s), Clear(s), fragments[s] = <<>>,
           sentClose[Peer(s)], "close" \notin lost[Peer(s)]
    PROVE  closed[s]
<1>1. PICK p \in Sides : p = Peer(s)
  BY PeerIs
<1>2. Says(p) /\ Hears(s) /\ alive /\ ~torn[p]
  BY <1>1 DEF WInv, Clear
<1>3. PICK k \in DOMAIN sent[p] : sent[p][k].op = "close"
  BY <1>1, <1>2 DEF Says, HasClose
<1>4. batch[s] = <<>> /\ (Heeds(s, Len(sent[p])) \/ closed[s])
  BY <1>1, AllTaken
<1>5. CASE Heeds(s, Len(sent[p]))
  <2>1. k \in 1..Len(sent[p]) /\ k # 0
    BY TypesOf
  <2>2. closed[s] \/ closeFrame[s] = k
    BY <1>1, <1>3, <1>5, <2>1 DEF Heeds, HoldsBack
  <2>3. closeFrame[s] # 0 /\ ~closed[s] => fragments[s] # <<>> \/ batch[s] # <<>>
    BY <1>2 DEF Hears, Waits
  <2> QED
    BY <1>4, <2>1, <2>2, <2>3
<1> QED
  BY <1>4, <1>5

(* what the invariant says of the end                                      *)
LEMMA HandshakeFollows ==
    ASSUME WsTypes, WInv
    PROVE  CloseHandshake
<1>1. ASSUME NEW s \in Sides PROVE closed[s] => sentClose[s]
  BY DEF WInv, Says
<1> QED
  BY <1>1, CloseTaken DEF CloseHandshake

(* what the invariant says of the types                                    *)
LEMMA WsTypesFollow ==
    ASSUME WsTypes, WInv
    PROVE  WsTypeOK
<1>1. ASSUME NEW s \in Sides
      PROVE  /\ \A n \in DOMAIN sent[s] : sent[s][n] \in Frames
             /\ \A n \in DOMAIN queue[s] : queue[s][n] \in Frames
             /\ position[s] \in 0..Len(buffer[s])
             /\ closeFrame[s] \in 0..Len(sent[Peer(s)])
  <2>1. sent[s] \in Seq(Frames) /\ position[s] \in Nat /\ position[s] <= Len(buffer[s])
        /\ buffer[s] \in Seq(Nat \X Nat) /\ sent[Peer(s)] \in Seq(Frames)
    BY TypesOf, PeerIs
  <2>2. PICK k \in 0..Len(sent[Peer(s)]) : Heeds(s, k)
    BY DEF WInv, Hears
  <2>3. closeFrame[s] \in 0..k
    BY <2>2 DEF Heeds, HoldsBack
  <2>4. closeFrame[s] \in 0..Len(sent[Peer(s)])
    BY <2>1, <2>2, <2>3
  <2>5. position[s] \in 0..Len(buffer[s])
    BY <2>1
  <2>6. \A n \in DOMAIN sent[s] : sent[s][n] \in Frames
    BY <2>1
  <2>7. \A n \in DOMAIN queue[s] : queue[s][n] \in Frames
    BY TypesOf
  <2> QED
    BY <2>4, <2>5, <2>6, <2>7
<1>2. /\ {sentClose, closed, attached, garbled, flushing, torn} \subseteq [Sides -> BOOLEAN]
      /\ {rest, calls} \subseteq [Sides -> Nat] /\ alive \in BOOLEAN
  BY DEF WsTypes, OutTypes, InTypes
<1>3. \A s \in Sides : lost[s] \subseteq {"data", "ping", "pong", "close"}
  BY DEF WsTypes, OutTypes
<1> QED
  BY <1>1, <1>2, <1>3 DEF WsTypeOK

(* Frames that HttpClient::onTcpReceive reads and drops leave a frame      *)
(* without its beginning.                                                  *)
LEMMA DropFramesKeeps ==
    ASSUME WsTypes, WInv, NEW n \in 1..Len(wire["client"]), DropFrames(n)
    PROVE  WsTypes' /\ WInv'
<1>1. /\ wire' = [wire EXCEPT !["client"] = SubSeq(@, n + 1, Len(@))]
      /\ garbled' = [garbled EXCEPT !["client"] = TRUE]
      /\ UNCHANGED <<sent, rest, torn, lost, calls, queue, flushing, sentClose>>
      /\ UNCHANGED <<buffer, position, fragments, closeFrame, closed, attached, batch, got, alive>>
  BY DEF DropFrames, stateVars
<1>2. PICK s \in Sides : s = "client"
  BY DEF Sides
<1>3. PICK w, v \in Seq(Nat \X Nat) : w = wire[s] /\ v = SubSeq(w, n + 1, Len(w))
  <2>1. PICK w \in Seq(Nat \X Nat) : w = wire[s]
    BY TypesOf
  <2>2. n \in 0..Len(w)
    BY <1>2, <2>1
  <2>3. SubSeq(w, n + 1, Len(w)) \in Seq(Nat \X Nat)
    BY <2>2, Halves
  <2> QED
    BY <2>1, <2>3
<1>4. /\ wire' \in [Sides -> Seq(Nat \X Nat)] /\ wire'[Peer(s)] = wire[Peer(s)]
  <2>1. wire' = [wire EXCEPT ![s] = v] /\ wire \in [Sides -> Seq(Nat \X Nat)]
    BY <1>1, <1>2, <1>3 DEF WsTypes, OutTypes
  <2> QED
    BY <2>1, PeerIs
<1>5. /\ garbled' \in [Sides -> BOOLEAN] /\ garbled'[s] = TRUE
      /\ garbled'[Peer(s)] = garbled[Peer(s)]
  BY <1>1, <1>2, PeerIs DEF WsTypes, InTypes
<1>6. WsTypes'
  <2>1. OutTypes'
    BY <1>1, <1>4 DEF WsTypes, OutTypes
  <2>2. InTypes'
    BY <1>1, <1>5 DEF WsTypes, InTypes
  <2> QED
    BY <2>1, <2>2 DEF WsTypes
<1>7. Hears(s) /\ Hears(Peer(s)) /\ Peer(s) \in Sides
  BY PeerIs DEF WInv
<1>8. ASSUME NEW x \in Sides PROVE Says(x)' /\ Writes(x)' /\ InTurn(x)'
  <2>1. SameOut(x) /\ closed'[x] = closed[x]
    BY <1>1 DEF SameOut
  <2>2. Says(x) /\ Writes(x) /\ InTurn(x)
    BY DEF WInv
  <2> QED
    BY <1>1, <2>1, <2>2, OutStays
<1>9. Hears(Peer(s))'
  <2>1. SameLine(Peer(s)) /\ SameTaken(Peer(s)) /\ SameWire(Peer(s))
    BY <1>1, <1>4, <1>5 DEF SameLine, SameTaken, SameWire
  <2> QED
    BY <1>7, <2>1, HearsStays
<1>10. Hears(s)'
  <2>1. PICK m \in 0..Len(sent[Peer(s)]) : Heeds(s, m)
    BY <1>7 DEF Hears
  <2>2. Heeds(s, m)'
    BY <1>1, <2>1 DEF Heeds, HoldsBack
  <2>3. Waits(s)'
    BY <1>1, <1>7 DEF Hears, Waits
  <2> QED
    BY <1>1, <1>5, <2>1, <2>2, <2>3 DEF Hears
<1>11. Keeps(s) /\ Keeps(Peer(s))
  BY <1>7, <1>8, <1>9, <1>10 DEF Keeps
<1> QED
  BY <1>6, <1>11, BothKeep

(* every step of the exchange and of the two WsChannels                    *)
LEMMA FramesKeep ==
    ASSUME WsTypes, WInv, UpgradeNext \/ UNCHANGED upgradeVars
    PROVE  WsTypes' /\ WInv'
<1>1. CASE UNCHANGED wsVars
  BY <1>1, WsSame
<1>2. CASE HttpStep
  <2>1. Break \/ UNCHANGED wsVars
    BY <1>2 DEF HttpStep
  <2> QED
    BY <1>1, <2>1, BreakKeeps
<1>3. ASSUME NEW s \in Sides, Attach(s) PROVE WsTypes' /\ WInv'
  BY <1>3, AttachKeeps
<1>4. CASE UpgradeServer \/ UpgradeClient
  <2>1. "client" \in Sides /\ "server" \in Sides
    BY DEF Sides
  <2>2. Attach("client") \/ Attach("server")
    BY <1>4 DEF UpgradeServer, UpgradeClient
  <2> QED
    BY <1>3, <2>1, <2>2
<1>5. CASE SeesFrames
  BY <1>1, <1>5 DEF SeesFrames
<1>6. CASE \E n \in 1..Len(wire["client"]) : DropFrames(n)
  BY <1>6, DropFramesKeeps
<1>7. CASE WsStep
  BY <1>7, WsNextKeeps DEF WsStep
<1>8. CASE UNCHANGED upgradeVars
  BY <1>1, <1>8 DEF upgradeVars
<1> QED
  BY <1>2, <1>4, <1>5, <1>6, <1>7, <1>8 DEF UpgradeNext

(* every step of two WsChannels by themselves                              *)
LEMMA AloneKeep ==
    ASSUME WsTypes, WInv, WsNext \/ (\E s \in Sides : Attach(s)) \/ UNCHANGED wsVars
    PROVE  WsTypes' /\ WInv'
<1>1. CASE WsNext
  BY <1>1, WsNextKeeps
<1>2. CASE \E s \in Sides : Attach(s)
  BY <1>2, AttachKeeps
<1>3. CASE UNCHANGED wsVars
  BY <1>3, WsSame
<1> QED
  BY <1>1, <1>2, <1>3

(* The WsChannels keep their invariant, whatever is sent, with a handler   *)
(* or without, however much of it the kernel takes, and however what it    *)
(* takes is cut: by themselves, and before and after an upgrade.           *)
THEOREM FramesInvariant == UpgradeSpec \/ WsSpec => [](WsTypes /\ WInv)
<1>1. UpgradeInit => WsTypes /\ WInv
  BY WsInitIs DEF UpgradeInit
<1>2. (WsTypes /\ WInv) /\ [UpgradeNext]_upgradeVars => (WsTypes /\ WInv)'
  BY FramesKeep
<1>3. UpgradeSpec => [](WsTypes /\ WInv)
  BY <1>1, <1>2, PTL DEF UpgradeSpec
<1>4. WsInit => WsTypes /\ WInv
  BY WsInitIs
<1>5. (WsTypes /\ WInv) /\ [WsNext \/ \E s \in Sides : Attach(s)]_wsVars => (WsTypes /\ WInv)'
  BY AloneKeep
<1>6. WsSpec => [](WsTypes /\ WInv)
  BY <1>4, <1>5, PTL DEF WsSpec
<1> QED
  BY <1>3, <1>6

(* However TCP cuts the frames, the messages handed over are the data      *)
(* frames that were written, in order, none left out and none twice, put   *)
(* together up to each final fragment; that is the order of the calls for  *)
(* frames sent alike, with a handler or without; when all is quiet they    *)
(* are all of them up to a close frame; and behind a close frame are only  *)
(* frames that had waited.                                                 *)
(* WsChannel::onTcpReceive finds the frames in a cache that it reads again *)
(* from the first frame that was not whole.                                *)
THEOREM MessagesIntact == UpgradeSpec \/ WsSpec => []FramesIntact
<1>1. WsTypes /\ WInv => FramesIntact
  BY FramesFollow
<1> QED
  BY <1>1, FramesInvariant, PTL

(* A side that has closed, or got a close frame, brings the other with it, *)
(* if the kernel took its close frame and no write was cut short: with     *)
(* WsChannel::close and onControlFrame no close frame is lost between the  *)
(* cache, the message that it interrupts, the handlers and a close() of    *)
(* their own.                                                              *)
THEOREM ClosedTogether == UpgradeSpec \/ WsSpec => []CloseHandshake
<1>1. WsTypes /\ WInv => CloseHandshake
  BY HandshakeFollows
<1> QED
  BY <1>1, FramesInvariant, PTL

(* the types of the exchange and of the WsChannels                         *)
THEOREM TypeCorrect == UpgradeSpec => []TypeOK
<1>1. IInv => HttpTypeOK
  BY DEF IInv, HttpTypes, HttpTypeOK, Clients, Pages
<1>2. WsTypes /\ WInv => WsTypeOK
  BY WsTypesFollow
<1>3. HttpTypeOK /\ WsTypeOK => TypeOK
  BY DEF TypeOK
<1> QED
  BY <1>1, <1>2, <1>3, Invariant, FramesInvariant, PTL
=============================================================================
