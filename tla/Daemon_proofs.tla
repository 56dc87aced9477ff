---------------------------- MODULE Daemon_proofs ----------------------------
(***************************************************************************)
(* What is still running when, for any cloudflared processes and any       *)
(* number of requests to the dashboard.                                    *)
(***************************************************************************)
EXTENDS Daemon, TLAPS

Running == {p \in Proc : proc[p] = "running"}

\* The Manager knows every process it may still have to stop.
Managed == \A p \in Running : cmd = p

\* Start-up and tear-down. Before the server is up there are neither tunnels nor
\* requests to it, and wrap never has any; once it is drained in time, no request is
\* left; and after the tunnel is stopped, none is started.
Drained ==
  /\ server = "off" \/ mode = "wrap" =>
       (\A h \in Handler : handler[h] = "idle") /\ Running = {}
  /\ server = "down" /\ ~timedOut => \A h \in Handler : handler[h] = "idle"
  /\ mode = "serve" /\ phase \in {"poller_stop", "tunnel_stop", "db_close", "exited"} =>
       server \in {"off", "down"}
  /\ mode = "serve" /\ phase \in {"db_close", "exited"} /\ ~timedOut => Running = {}

\* What is up while a child may be running.
Serving ==
  /\ phase \in {"poller_start", "server_start"} =>
       server = "off" /\ dbOpen /\ child = "none"
  /\ phase \in {"server_start", "launch"} => pollerOn \/ ctxDone
  /\ phase = "launch" => mode = "wrap" /\ server = "up" /\ dbOpen /\ child = "none"
  /\ child = "running" /\ phase # "crashed" =>
       mode = "wrap" /\ phase = "wait" /\ server = "up" /\ dbOpen /\ (pollerOn \/ ctxDone)

IInv == TypeOK /\ Managed /\ Drained /\ Serving

-----------------------------------------------------------------------------
LEMMA InitOK == Init => IInv
BY TunnelAssumption
   DEF Init, TunnelInit, IInv, TypeOK, TunnelTypeOK, Phase, Managed, Drained, Serving, Running

\* Stop leaves nothing running that is not told to end.
LEMMA StopOK ==
  ASSUME TunnelTypeOK, Managed, Stop
  PROVE  TunnelTypeOK' /\ Managed' /\ Running' = {}
<1>1. CASE cmd = NoProc
  BY <1>1, TunnelAssumption DEF Stop, TunnelTypeOK, Managed, Running
<1>2. CASE cmd # NoProc
  BY <1>2, TunnelAssumption DEF Stop, Kill, Forget, TunnelTypeOK, Managed, Running
<1> QED
  BY <1>1, <1>2

\* A start adds the one process that the Manager then knows.
LEMMA StartOK ==
  ASSUME TunnelTypeOK, Managed, NEW p \in Proc, StartQuickTunnel(p) \/ StartTokenTunnel(p)
  PROVE  TunnelTypeOK' /\ Managed'
<1>1. Running = {}
  BY TunnelAssumption DEF StartQuickTunnel, StartTokenTunnel, MayStart, Managed, Running
<1> QED
  BY <1>1, TunnelAssumption
     DEF StartQuickTunnel, StartTokenTunnel, MayStart, Started, TunnelTypeOK, Managed, Running

\* The Manager's goroutines and the processes start nothing and forget no process
\* that runs.
LEMMA BackgroundOK ==
  ASSUME TunnelTypeOK, Managed, NEW p \in Proc, Background(p) \/ Process(p)
  PROVE  TunnelTypeOK' /\ Managed' /\ Running' \subseteq Running
<1> USE TunnelAssumption DEF TunnelTypeOK, Managed, Running
<1>1. CASE Reaps(p)
  BY <1>1 DEF Reaps, ForgetCmd, Forget
<1>2. CASE PublishesUrl(p) \/ FinderTimesOut(p) \/ PrintsUrl(p)
  BY <1>2 DEF PublishesUrl, FinderTimesOut, PrintsUrl
<1>3. CASE Exits(p)
  BY <1>3 DEF Exits
<1> QED
  BY <1>1, <1>2, <1>3 DEF Background, Process

-----------------------------------------------------------------------------
LEMMA SameTunnel ==
  ASSUME TunnelTypeOK, Managed, UNCHANGED tunnelVars
  PROVE  TunnelTypeOK' /\ Managed' /\ Running' = Running
BY DEF TunnelTypeOK, Managed, Running, tunnelVars

\* The main goroutine.
LEMMA MainOK ==
  ASSUME IInv, Main
  PROVE  IInv'
<1>0. UNCHANGED tunnelVars => TunnelTypeOK' /\ Managed' /\ Running' = Running
  BY SameTunnel DEF IInv, TypeOK
<1> USE DEF IInv, TypeOK, Phase, Drained, Serving
<1>1. CASE StartPoller
  BY <1>0, <1>1 DEF StartPoller
<1>2. CASE StartServer
  BY <1>0, <1>2 DEF StartServer
<1>3. CASE LaunchChild
  BY <1>0, <1>3 DEF LaunchChild
<1>4. CASE LeaveWait
  BY <1>0, <1>4 DEF LeaveWait, MayLeaveWait
<1>5. CASE JoinForwarder
  BY <1>0, <1>5 DEF JoinForwarder
<1>6. CASE BeginShutdown
  BY <1>0, <1>6 DEF BeginShutdown
<1>7. CASE EndShutdown
  BY <1>0, <1>7 DEF EndShutdown, Following
<1>8. CASE StopPoller
  BY <1>0, <1>8 DEF StopPoller, Following
<1>9. CASE CloseDb
  BY <1>0, <1>9 DEF CloseDb, Following
<1>10. CASE StopTunnel
  BY <1>10, StopOK DEF StopTunnel, Following
<1> QED
  BY <1>1, <1>2, <1>3, <1>4, <1>5, <1>6, <1>7, <1>8, <1>9, <1>10 DEF Main

\* The requests to the dashboard.
LEMMA HandlerOK ==
  ASSUME IInv, NEW h \in Handler, Accept(h) \/ HandleTunnelStart(h) \/ HandleTunnelStop(h)
  PROVE  IInv'
<1> USE DEF IInv, TypeOK, Phase, Drained, Serving, rest
<1>1. CASE Accept(h)
  BY <1>1, SameTunnel DEF Accept, Alive
<1>2. CASE HandleTunnelStart(h)
  <2>1. handler[h] # "idle"
    BY <1>2 DEF HandleTunnelStart
  <2>2. TunnelTypeOK' /\ Managed'
    BY <1>2, SameTunnel, StartOK DEF HandleTunnelStart
  <2> QED
    BY <1>2, <2>1, <2>2 DEF HandleTunnelStart, Alive
<1>3. CASE HandleTunnelStop(h)
  BY <1>3, StopOK DEF HandleTunnelStop, Alive
<1> QED
  BY <1>1, <1>2, <1>3

\* Everybody else.
LEMMA OthersOK ==
  ASSUME IInv,
         \/ Signal \/ ChildExits \/ Crash \/ PollerEnds \/ ForwarderEnds \/ UNCHANGED vars
         \/ \E p \in Proc : TunnelGoroutine(p) \/ Cloudflared(p)
  PROVE  IInv'
<1> USE DEF IInv, TypeOK, Phase, Drained, Serving, rest
<1>1. CASE Signal \/ ChildExits \/ Crash \/ PollerEnds \/ ForwarderEnds \/ UNCHANGED vars
  <2>0. TunnelTypeOK' /\ Managed' /\ Running' = Running
    BY <1>1, SameTunnel DEF Signal, ChildExits, Crash, PollerEnds, ForwarderEnds, vars
  <2>1. CASE Signal
    BY <2>0, <2>1 DEF Signal
  <2>4. CASE ForwarderEnds
    BY <2>0, <2>4 DEF ForwarderEnds
  <2>5. CASE PollerEnds
    <3>1. /\ ctxDone /\ pollerOn' = FALSE
          /\ UNCHANGED <<mode, phase, ctxDone, server, timedOut, handler, dbOpen, child,
                         forwarder, stopFwd>>
      BY <2>5 DEF PollerEnds
    <3>2. TypeOK' /\ Managed'
      BY <2>0, <3>1
    <3>3. Drained'
      BY <2>0, <3>1
    <3>4. Serving'
      BY <3>1
    <3> QED
      BY <3>2, <3>3, <3>4
  <2>2. CASE ChildExits \/ Crash
    BY <2>0, <2>2 DEF ChildExits, Crash
  <2>3. CASE UNCHANGED vars
    BY <2>0, <2>3 DEF vars
  <2> QED
    BY <1>1, <2>1, <2>2, <2>3, <2>4, <2>5
<1>2. ASSUME NEW p \in Proc, TunnelGoroutine(p) \/ Cloudflared(p) PROVE IInv'
  <2>1. TunnelTypeOK' /\ Managed' /\ Running' \subseteq Running
    BY <1>2, BackgroundOK DEF TunnelGoroutine, Cloudflared
  <2> QED
    BY <1>2, <2>1 DEF TunnelGoroutine, Cloudflared
<1> QED
  BY <1>1, <1>2

LEMMA DaemonInvariant == Spec => []IInv
<1>1. IInv /\ [Next]_vars => IInv'
  BY MainOK, HandlerOK, OthersOK DEF Next
<1> QED
  BY <1>1, InitOK, PTL DEF Spec

-----------------------------------------------------------------------------
\* Every variable keeps its type; a mode is set when and only when there is a command.
THEOREM TypeCorrect == Spec => []TypeOK
<1>1. IInv => TypeOK
  BY DEF IInv
<1> QED
  BY <1>1, DaemonInvariant, PTL

\* No cloudflared that runs is lost sight of.
THEOREM TunnelsManaged == Spec => []LiveIsManaged
<1>1. IInv => LiveIsManaged
  BY DEF IInv, Managed, Running, LiveIsManaged
<1> QED
  BY <1>1, DaemonInvariant, PTL

\* serve leaves no tunnel behind, unless a request to it was given up.
THEOREM TunnelsStopped == Spec => []NoTunnelLeft
<1>1. IInv => NoTunnelLeft
  BY DEF IInv, TypeOK, Drained, Running, NoTunnelLeft
<1> QED
  BY <1>1, DaemonInvariant, PTL

\* The wrapped program has its proxy and its database as long as it runs and the wrapper
\* lives, whenever signals come; and a poller until the first of them.
THEOREM ProxyOutlivesChild == Spec => []ChildHasProxy
<1>1. IInv => ChildHasProxy
  BY DEF IInv, Serving, ChildHasProxy, Alive
<1> QED
  BY <1>1, DaemonInvariant, PTL
=============================================================================
