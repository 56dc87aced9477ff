------------------------------- MODULE Tunnel -------------------------------
(***************************************************************************)
(* internal/tunnel/cloudflare.go: the Manager of the cloudflared process.  *)
(*                                                                         *)
(* A started process has a goroutine that waits for its exit, and, for a   *)
(* quick tunnel, one that waits for its public URL. An action is a section *)
(* under the Manager's mutex, or a step of a process or of the clock.      *)
(***************************************************************************)
CONSTANTS Proc,        \* the processes that may be started, one after the other
          NoProc       \* m.cmd = nil; m.url = ""

ASSUME TunnelAssumption == NoProc \notin Proc

VARIABLES
  cmd,      \* m.cmd
  tmode,    \* m.mode
  url,      \* m.url: the process whose URL it is
  lastErr,  \* m.lastErr
  proc,     \* what the operating system knows of each process
  waiter,   \* the goroutine in cmd.Wait
  finder    \* the goroutine that waits for the URL, or for 15 seconds

tunnelVars == <<cmd, tmode, url, lastErr, proc, waiter, finder>>

TunnelTypeOK ==
  /\ cmd \in Proc \cup {NoProc}
  /\ tmode \in {"none", "quick", "zero_trust"}
  /\ url \in Proc \cup {NoProc}
  /\ lastErr \in BOOLEAN
  /\ proc \in [Proc -> {"unused", "running", "killed", "exited"}]
  /\ waiter \in [Proc -> {"none", "waiting", "done"}]
  /\ finder \in [Proc -> {"none", "watching", "found", "done"}]
  /\ tmode = "none" <=> cmd = NoProc

TunnelInit ==
  /\ cmd = NoProc /\ tmode = "none" /\ url = NoProc /\ lastErr = FALSE
  /\ proc = [p \in Proc |-> "unused"]
  /\ waiter = [p \in Proc |-> "none"]
  /\ finder = [p \in Proc |-> "none"]

\* "a tunnel is already running; stop it before starting another"
MayStart(p) == cmd = NoProc /\ proc[p] = "unused"

Started(p, m) ==
  /\ cmd' = p
  /\ tmode' = m
  /\ lastErr' = FALSE
  /\ proc' = [proc EXCEPT ![p] = "running"]
  /\ waiter' = [waiter EXCEPT ![p] = "waiting"]

StartQuickTunnel(p) ==
  /\ MayStart(p)
  /\ Started(p, "quick")
  /\ url' = NoProc
  /\ finder' = [finder EXCEPT ![p] = "watching"]

StartTokenTunnel(p) ==
  /\ MayStart(p)
  /\ Started(p, "zero_trust")
  /\ url' = p
  /\ UNCHANGED finder

Kill(p) == proc' = [proc EXCEPT ![p] = IF @ = "running" THEN "killed" ELSE @]

\* Mutant of Forget: the mode is not reset.
ForgetKeepsMode == cmd' = NoProc /\ url' = NoProc /\ UNCHANGED tmode

Forget == cmd' = NoProc /\ tmode' = "none" /\ url' = NoProc

Stop ==
  /\ IF cmd = NoProc THEN UNCHANGED <<cmd, tmode, url, lastErr, proc>>
     ELSE /\ Kill(cmd)
          /\ Forget
          /\ lastErr' = FALSE
  /\ UNCHANGED <<waiter, finder>>

\* The process ends: killed, or by itself.
Exits(p) ==
  /\ proc[p] \in {"running", "killed"}
  /\ proc' = [proc EXCEPT ![p] = "exited"]
  /\ UNCHANGED <<cmd, tmode, url, lastErr, waiter, finder>>

\* Mutant of ForgetCmd: whatever process the manager has by now.
ForgetAnyCmd(p) == Forget

\* "if m.cmd == cmd": a tunnel started since then is left alone.
ForgetCmd(p) ==
  IF cmd = p THEN Forget ELSE UNCHANGED <<cmd, tmode, url>>

\* Mutant of Reaps: only a process that was killed is waited for.
ReapsKilled(p) ==
  /\ waiter[p] = "waiting" /\ proc[p] = "exited" /\ cmd # p
  /\ waiter' = [waiter EXCEPT ![p] = "done"]
  /\ UNCHANGED <<cmd, tmode, url, lastErr, proc, finder>>

Reaps(p) ==
  /\ waiter[p] = "waiting" /\ proc[p] = "exited"
  /\ waiter' = [waiter EXCEPT ![p] = "done"]
  /\ ForgetCmd(p)
  /\ UNCHANGED <<lastErr, proc, finder>>

\* A line with the URL is read from the pipe, which may outlive the process; the
\* channel has room for one.
PrintsUrl(p) ==
  /\ finder[p] = "watching"
  /\ finder' = [finder EXCEPT ![p] = "found"]
  /\ UNCHANGED <<cmd, tmode, url, lastErr, proc, waiter>>

\* The URL is published for whatever tunnel there is by now, or for none.
PublishesUrl(p) ==
  /\ finder[p] = "found"
  /\ url' = p
  /\ finder' = [finder EXCEPT ![p] = "done"]
  /\ UNCHANGED <<cmd, tmode, lastErr, proc, waiter>>

FinderTimesOut(p) ==
  /\ finder[p] \in {"watching", "found"}
  /\ lastErr' = (lastErr \/ (url = NoProc /\ cmd # NoProc))
  /\ finder' = [finder EXCEPT ![p] = "done"]
  /\ UNCHANGED <<cmd, tmode, url, proc, waiter>>

Background(p) ==
  Reaps(p) \/ PublishesUrl(p) \/ FinderTimesOut(p)

Process(p) == Exits(p) \/ PrintsUrl(p)
=============================================================================
