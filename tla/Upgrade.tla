------------------------------ MODULE Upgrade ------------------------------
(***************************************************************************)
(* HTTP and WebSocket over one connection.  A request for a handshake ends *)
(* with both sides making a WsChannel, which takes over the receive        *)
(* handler of the TCP channel.  The server may send frames as soon as it   *)
(* has answered.  What a task of the HttpClient finds by then, be it one   *)
(* that was posted before the change of handlers, is read and dropped.     *)
(***************************************************************************)
EXTENDS HttpExchange, WsChannel

upgradeVars == <<httpVars, wsVars>>

UpgradeInit == HttpInit /\ WsInit

\* The exchange goes on, after the upgrade with the tasks that are left; the
\* frames on their way are lost with the connection.
HttpStep ==
    /\ HttpNext
    /\ attached["client"] => client'.asked = client.asked /\ eof' = eof
    /\ IF attached["server"] /\ alive /\ (client'.conn # "open" \/ eof')
       THEN Break ELSE UNCHANGED wsVars

UpgradeServer ==
    /\ server.request # None /\ Page(server.request) = UpgradePage
    /\ ~server.open
    /\ client.conn = "open" /\ ~eof
    /\ Attach("server")
    /\ UNCHANGED httpVars

UpgradeClient ==
    /\ answers # <<>>
    /\ answers[Len(answers)].found.code = 0
    /\ attached["server"]
    /\ client.conn = "open" /\ ~eof
    /\ Attach("client")
    /\ UNCHANGED httpVars

\* the event of frames that come while the handler is the HttpClient's, and
\* its onTcpReceive
SeesFrames ==
    /\ alive
    /\ attached["server"] /\ ~attached["client"] /\ ~closed["client"]
    /\ wire["client"] # <<>>
    /\ \A i \in DOMAIN client.tasks : client.tasks[i][1] # "receive"
    /\ client' = Post(client, "receive", 0)
    /\ UNCHANGED <<setup, netVars, callerVars, wsVars>>

DropFrames(n) ==
    /\ Runs("receive")
    /\ down = <<>>
    /\ IsResponseCompleted(client)
    /\ client' = Popped(client)
    /\ wire' = [wire EXCEPT !["client"] = SubSeq(@, n + 1, Len(@))]
    /\ garbled' = [garbled EXCEPT !["client"] = TRUE]
    /\ UNCHANGED <<setup, netVars, callerVars, sent, rest, torn, lost, calls,
                   queue, flushing, buffer, position, fragments, stateVars,
                   batch, got, alive, talker>>

\* until the client has upgraded, its HttpClient is told when the connection
\* breaks
WsStep ==
    /\ WsNext
    /\ alive /\ ~alive' => attached["client"] \/ closed["client"]
    /\ UNCHANGED httpVars

UpgradeNext ==
    \/ HttpStep \/ UpgradeServer \/ UpgradeClient
    \/ SeesFrames \/ \E n \in 1..Len(wire["client"]) : DropFrames(n)
    \/ WsStep

UpgradeSpec == UpgradeInit /\ [][UpgradeNext]_upgradeVars

-----------------------------------------------------------------------------
TypeOK == HttpTypeOK /\ WsTypeOK
=============================================================================
