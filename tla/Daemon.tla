------------------------------- MODULE Daemon -------------------------------
(***************************************************************************)
(* The two ways the program runs: runServe (main.go), with the dashboard   *)
(* and the tunnel, until a signal; and Wrap (launcher/wrap.go), around a   *)
(* child process whose proxy it is, until the child exits. What is         *)
(* modelled is who is up, in which order it is taken down, and what is     *)
(* still running at each point of that.                                    *)
(***************************************************************************)
EXTENDS Tunnel

CONSTANTS Handler     \* dashboard requests that start or stop the tunnel

VARIABLES
  mode,       \* serve or wrap
  phase,      \* where the main goroutine is
  ctxDone,    \* the context of signal.NotifyContext
  server,     \* http.Server: off, up, draining in Shutdown, down
  timedOut,   \* Shutdown gave up on requests that were still running
  handler,    \* HandleTunnelStart / HandleTunnelStop of each request
  pollerOn,   \* the loop that poller.Start starts runs
  dbOpen,
  child,      \* the wrapped command
  forwarder,  \* the goroutine that forwards signals to it
  stopFwd     \* stopForwarding is closed

vars == <<tunnelVars, mode, phase, ctxDone, server, timedOut, handler, pollerOn,
          dbOpen, child, forwarder, stopFwd>>

Phase == {"poller_start", "server_start", "launch", "wait", "join", "server_stop",
          "poller_stop", "tunnel_stop", "db_close", "exited", "crashed"}

TypeOK ==
  /\ TunnelTypeOK
  /\ mode \in {"serve", "wrap"}
  /\ phase \in Phase
  /\ ctxDone \in BOOLEAN /\ timedOut \in BOOLEAN /\ stopFwd \in BOOLEAN
  /\ server \in {"off", "up", "draining", "down"}
  /\ handler \in [Handler -> {"idle", "start", "stop"}]
  /\ pollerOn \in BOOLEAN /\ dbOpen \in BOOLEAN
  /\ child \in {"none", "running", "exited"}
  /\ forwarder \in {"none", "running", "done"}

Init ==
  /\ TunnelInit
  /\ mode \in {"serve", "wrap"}
  /\ phase = "poller_start"
  /\ ctxDone = FALSE /\ timedOut = FALSE /\ stopFwd = FALSE
  /\ server = "off"
  /\ handler = [h \in Handler |-> "idle"]
  /\ pollerOn = FALSE /\ dbOpen = TRUE
  /\ child = "none" /\ forwarder = "none"

Alive == phase \notin {"exited", "crashed"}

-----------------------------------------------------------------------------
(* Start-up *)

StartPoller ==
  /\ phase = "poller_start"
  /\ pollerOn' = TRUE
  /\ phase' = "server_start"
  /\ UNCHANGED <<tunnelVars, mode, ctxDone, server, timedOut, handler, dbOpen, child,
                 forwarder, stopFwd>>

\* serve exits without its deferred calls when it cannot listen; wrap falls back to
\* a port of its own, and if that fails too, closes the database and returns
\* (its poller is stopped on the way out).
StartServer ==
  /\ phase = "server_start"
  /\ \/ server' = "up" /\ phase' = (IF mode = "serve" THEN "wait" ELSE "launch")
        /\ UNCHANGED dbOpen
     \/ /\ phase' = IF mode = "serve" THEN "exited" ELSE "poller_stop"
        /\ dbOpen' = FALSE
        /\ UNCHANGED server
  /\ UNCHANGED <<tunnelVars, mode, ctxDone, timedOut, handler, pollerOn, child,
                 forwarder, stopFwd>>

\* exec.CommandContext starts nothing when its context is done.
LaunchChild ==
  /\ phase = "launch"
  /\ \/ ~ctxDone /\ child' = "running" /\ forwarder' = "running" /\ phase' = "wait"
     \/ phase' = "server_stop" /\ UNCHANGED <<child, forwarder>>
  /\ UNCHANGED <<tunnelVars, mode, ctxDone, server, timedOut, handler, pollerOn,
                 dbOpen, stopFwd>>

-----------------------------------------------------------------------------
(* The operating system *)

Signal ==
  /\ Alive /\ ~ctxDone
  /\ ctxDone' = TRUE
  /\ UNCHANGED <<tunnelVars, mode, phase, server, timedOut, handler, pollerOn, dbOpen,
                 child, forwarder, stopFwd>>

\* The child ends by itself, by the forwarded signal, or by SIGKILL (exec.CommandContext
\* kills it when the context is done; nothing orders that after the forwarded signal).
ChildExits ==
  /\ child = "running"
  /\ child' = "exited"
  /\ UNCHANGED <<tunnelVars, mode, phase, ctxDone, server, timedOut, handler, pollerOn,
                 dbOpen, forwarder, stopFwd>>

\* The process is killed. The child, if there is one, gets SIGTERM (PR_SET_PDEATHSIG).
Crash ==
  /\ Alive
  /\ phase' = "crashed"
  /\ UNCHANGED <<tunnelVars, mode, ctxDone, server, timedOut, handler, pollerOn, dbOpen,
                 child, forwarder, stopFwd>>

-----------------------------------------------------------------------------
(* The goroutine of the poller: its context is derived from the one that a signal *)
(* cancels, so a signal ends it in both modes, long before Poller.Stop.           *)

PollerEnds ==
  /\ Alive /\ pollerOn /\ ctxDone
  /\ pollerOn' = FALSE
  /\ UNCHANGED <<tunnelVars, mode, phase, ctxDone, server, timedOut, handler, dbOpen,
                 child, forwarder, stopFwd>>

-----------------------------------------------------------------------------
(* The forwarding goroutine of Wrap: it ends by ctx.Done or stopForwarding. *)

\* Mutant of ForwarderEnds: it waits for the context only.
ForwarderEndsByContext ==
  /\ Alive /\ forwarder = "running" /\ ctxDone
  /\ forwarder' = "done"
  /\ UNCHANGED <<tunnelVars, mode, phase, ctxDone, server, timedOut, handler, pollerOn,
                 dbOpen, child, stopFwd>>

ForwarderEnds ==
  /\ Alive /\ forwarder = "running" /\ (ctxDone \/ stopFwd)
  /\ forwarder' = "done"
  /\ UNCHANGED <<tunnelVars, mode, phase, ctxDone, server, timedOut, handler, pollerOn,
                 dbOpen, child, stopFwd>>

\* Mutant of MayLeaveWait: Wrap does not wait for its child when it is told to stop.
LeavesOnSignal == ctxDone \/ (mode = "wrap" /\ child = "exited")

\* serve waits for the signal, wrap for its child.
MayLeaveWait == IF mode = "serve" THEN ctxDone ELSE child = "exited"

LeaveWait ==
  /\ phase = "wait" /\ MayLeaveWait
  /\ phase' = IF mode = "serve" THEN "server_stop" ELSE "join"
  /\ stopFwd' = TRUE
  /\ UNCHANGED <<tunnelVars, mode, ctxDone, server, timedOut, handler, pollerOn, dbOpen,
                 child, forwarder>>

\* <-sigDone
JoinForwarder ==
  /\ phase = "join" /\ forwarder = "done"
  /\ phase' = "server_stop"
  /\ UNCHANGED <<tunnelVars, mode, ctxDone, server, timedOut, handler, pollerOn, dbOpen,
                 child, forwarder, stopFwd>>

-----------------------------------------------------------------------------
(* Tear-down. After server_stop, in the order of the code and of its deferred calls: *)
(* serve stops poller and tunnel and closes the database; wrap closes the database   *)
(* before it stops the poller.                                                       *)

\* Mutant of Following: the tunnel is not stopped.
FollowingNoTunnel(p) ==
  IF mode = "wrap"
  THEN CASE p = "server_stop" -> "db_close" [] p = "db_close" -> "poller_stop"
         [] p = "poller_stop" -> "exited" [] OTHER -> p
  ELSE CASE p = "server_stop" -> "poller_stop" [] p = "poller_stop" -> "db_close"
         [] p = "db_close" -> "exited" [] OTHER -> p

Following(p) ==
  IF mode = "wrap"
  THEN CASE p = "server_stop" -> "db_close" [] p = "db_close" -> "poller_stop"
         [] p = "poller_stop" -> "exited" [] OTHER -> p
  ELSE CASE p = "server_stop" -> "poller_stop" [] p = "poller_stop" -> "tunnel_stop"
         [] p = "tunnel_stop" -> "db_close" [] p = "db_close" -> "exited"
         [] OTHER -> p

\* Server.Stop: no new requests from here on ...
BeginShutdown ==
  /\ phase = "server_stop" /\ server = "up"
  /\ server' = "draining"
  /\ UNCHANGED <<tunnelVars, mode, phase, ctxDone, timedOut, handler, pollerOn, dbOpen,
                 child, forwarder, stopFwd>>

\* ... and it returns when the running ones are finished, or after 3 (2) seconds.
EndShutdown ==
  /\ phase = "server_stop" /\ server = "draining"
  /\ server' = "down"
  /\ timedOut' = (\E h \in Handler : handler[h] # "idle")
  /\ phase' = Following(phase)
  /\ UNCHANGED <<tunnelVars, mode, ctxDone, handler, pollerOn, dbOpen, child, forwarder,
                 stopFwd>>

\* Poller.Stop cancels the loop and waits for its end.
StopPoller ==
  /\ phase = "poller_stop"
  /\ pollerOn' = FALSE
  /\ phase' = Following(phase)
  /\ UNCHANGED <<tunnelVars, mode, ctxDone, server, timedOut, handler, dbOpen, child,
                 forwarder, stopFwd>>

StopTunnel ==
  /\ phase = "tunnel_stop"
  /\ Stop
  /\ phase' = Following(phase)
  /\ UNCHANGED <<mode, ctxDone, server, timedOut, handler, pollerOn, dbOpen, child,
                 forwarder, stopFwd>>

CloseDb ==
  /\ phase = "db_close"
  /\ dbOpen' = FALSE
  /\ phase' = Following(phase)
  /\ UNCHANGED <<tunnelVars, mode, ctxDone, server, timedOut, handler, pollerOn, child,
                 forwarder, stopFwd>>

Main ==
  \/ StartPoller \/ StartServer \/ LaunchChild \/ LeaveWait \/ JoinForwarder
  \/ BeginShutdown \/ EndShutdown \/ StopPoller \/ StopTunnel \/ CloseDb

-----------------------------------------------------------------------------
(* HandleTunnelStart and HandleTunnelStop: only serve has a tunnel manager. A request *)
(* that was accepted runs until the process exits, whatever Shutdown does.            *)

rest == <<mode, phase, ctxDone, server, timedOut, pollerOn, dbOpen, child, forwarder,
          stopFwd>>

Accept(h) ==
  /\ mode = "serve" /\ Alive /\ server = "up" /\ handler[h] = "idle"
  /\ \E op \in {"start", "stop"} : handler' = [handler EXCEPT ![h] = op]
  /\ UNCHANGED <<tunnelVars, rest>>

\* The request's body is read; it is refused, or does what it asks for.
HandleTunnelStart(h) ==
  /\ Alive /\ handler[h] = "start"
  /\ \/ UNCHANGED tunnelVars
     \/ \E p \in Proc : StartQuickTunnel(p) \/ StartTokenTunnel(p)
  /\ handler' = [handler EXCEPT ![h] = "idle"]
  /\ UNCHANGED rest

HandleTunnelStop(h) ==
  /\ Alive /\ handler[h] = "stop"
  /\ Stop
  /\ handler' = [handler EXCEPT ![h] = "idle"]
  /\ UNCHANGED rest

\* The Manager's goroutines run as long as the process does, cloudflared longer.
TunnelGoroutine(p) == Alive /\ Background(p) /\ UNCHANGED <<rest, handler>>

Cloudflared(p) == Process(p) /\ UNCHANGED <<rest, handler>>

Next ==
  \/ Main \/ Signal \/ ChildExits \/ Crash \/ PollerEnds \/ ForwarderEnds
  \/ \E h \in Handler : Accept(h) \/ HandleTunnelStart(h) \/ HandleTunnelStop(h)
  \/ \E p \in Proc : TunnelGoroutine(p) \/ Cloudflared(p)

Spec == Init /\ [][Next]_vars

\* Goroutines run; Shutdown has a timeout; a child that is killed or told to by the
\* death of its parent ends.
Fairness ==
  /\ WF_vars(Main) /\ WF_vars(ForwarderEnds)
  /\ WF_vars((ctxDone \/ phase = "crashed") /\ ChildExits)
  /\ \A p \in Proc : WF_vars(Alive /\ Reaps(p) /\ UNCHANGED <<rest, handler>>)

FairSpec == Spec /\ Fairness

-----------------------------------------------------------------------------
\* However starts, stops and exits overlap, every cloudflared that runs and was not
\* told to end is the one the Manager knows: the goroutine of an earlier process
\* never makes it forget a later one, and Stop is able to reach whatever runs.
LiveIsManaged == Alive => \A p \in Proc : proc[p] = "running" => cmd = p

\* Unless Shutdown gave up on a slow request, no tunnel to this port is left running
\* when serve has exited (a request that is still being served may start one until
\* the server is drained, and the tunnel is stopped after that).
NoTunnelLeft ==
  phase = "exited" /\ ~timedOut => \A p \in Proc : proc[p] # "running"

\* The wrapped program, which reaches the network through this proxy only, never runs
\* without the proxy and its database while the wrapper lives, told to stop or not. The
\* quotas are polled as well until a signal comes: then the poller ends at once, and the
\* child's last requests are routed by the quotas read before.
ChildHasProxy ==
  child = "running" /\ Alive => server = "up" /\ dbOpen /\ (pollerOn \/ ctxDone)

\* Once told to stop, or once its child has ended, the process exits; and its child
\* does not outlive it.
RunEnds ==
  /\ ctxDone \/ child = "exited" ~> ~Alive
  /\ child = "running" /\ ~Alive ~> child = "exited"

\* A tunnel that dies is noticed: a new one can be started without a stop.
DeathNoticed ==
  \A p \in Proc : cmd = p /\ proc[p] = "exited" ~> cmd # p \/ ~Alive
=============================================================================
