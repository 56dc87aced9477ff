------------------------------- MODULE Settings -------------------------------
(***************************************************************************)
(* The settings the dashboard shows and changes, and the three places they *)
(* live in: config.json, the server's appConfig, the failover engine.      *)
(*   internal/config/config.go   Load, Save                                *)
(*   main.go                     runServe, runWrap (start-up),             *)
(*                               executeConfig (set)                       *)
(*   launcher/wrap.go            Wrap: what its server is not given        *)
(*   internal/web/api.go         updateConfig                              *)
(*   internal/proxy/handler.go   syncFallbackConfigFromEnv                 *)
(* Of the settings the primary model and the fallback switch are kept: an  *)
(* update may name either, and the environment may override either. The    *)
(* flags of the two commands, which override both once at start-up, are    *)
(* left out.                                                               *)
(***************************************************************************)
EXTENDS Naturals

CONSTANTS Model, Unset,
          Update,     \* dashboard requests
          Request     \* proxied requests

ASSUME SettingsAssumption == Model # {} /\ Unset \notin Model \cup BOOLEAN \cup Update

Config == [model : Model, enabled : BOOLEAN]

\* What a request, or the environment, may name: any part of it.
Partial == [model : Model \cup {Unset}, enabled : BOOLEAN \cup {Unset}]

\* os.WriteFile truncates the file and then writes it: a file may be empty; two writers
\* may leave a mixture of both.
File == [is : {"missing", "whole", "empty", "mixed"}, cfg : Config]

VARIABLES
  file,
  env,        \* ANTIGRAVITY_MODEL_PRIMARY, ANTIGRAVITY_FALLBACK_SECONDARY_ENABLED
  run,        \* down, or the command that runs: serve, wrap
  appConfig,  \* of the APIHandler: Unset for nil, as wrap leaves it
  engine,     \* the engine's fallback configuration
  cfgMu,      \* the update that holds it
  update,     \* updateConfig of each request: where it is, and currentCfg
  sync,       \* syncFallbackConfigFromEnv of each request: what it has read
  cli,        \* a "config set" under way in another process
  told,       \* history: what the engine was told since an update that overlapped no sync
  shown,      \* history: the settings loaded, or saved by the last update, and one under way
  intact      \* history: no save failed and no "config set" wrote since the file was
              \*          loaded or truncated by the server

vars == <<file, env, run, appConfig, engine, cfgMu, update, sync, cli, told, shown, intact>>

Default == CHOOSE c \in Config : ~c.enabled
Idle    == [at |-> "idle", cfg |-> Default]
Nothing == [model |-> Unset, enabled |-> Unset]

Whole(c)   == [is |-> "whole", cfg |-> c]
Missing    == [is |-> "missing", cfg |-> Default]
Empty      == [is |-> "empty", cfg |-> Default]
Mixed      == [is |-> "mixed", cfg |-> Default]

TypeOK ==
  /\ file \in File
  /\ env \in Partial /\ run \in {"down", "serve", "wrap"}
  /\ appConfig \in Config \cup {Unset} /\ engine \in Config
  /\ cfgMu \in Update \cup {Unset}
  /\ update \in [Update -> [at : {"idle", "save", "write", "set"}, cfg : Config]]
  /\ sync \in [Request -> [at : {"idle", "read"}, cfg : Config]]
  /\ cli \in [at : {"idle", "loaded", "write"}, cfg : Config]
  /\ told \subseteq Config /\ shown \subseteq Config /\ intact \in BOOLEAN

\* c, with the parts that p names replaced.
Merged(c, p) ==
  [model   |-> IF p.model = Unset THEN c.model ELSE p.model,
   enabled |-> IF p.enabled = Unset THEN c.enabled ELSE p.enabled]

Init ==
  /\ file \in {Whole(c) : c \in Config} \cup {Missing}
  /\ env \in Partial
  /\ run = "down" /\ appConfig = Unset /\ engine = Default
  /\ cfgMu = Unset
  /\ update = [u \in Update |-> Idle]
  /\ sync = [r \in Request |-> Idle]
  /\ cli = Idle
  /\ told = {} /\ shown = {} /\ intact = FALSE

\* What a process loads: the file over the defaults, the environment e over both. A file
\* that cannot be parsed is an error, and then the environment is not looked at either.
LoadedIn(e) ==
  IF file.is \in {"missing", "whole"} THEN Merged(file.cfg, e) ELSE Default

\* runServe, runWrap, in the environment of the last start or in a plain one. Either warns
\* about an unreadable file and goes on with the defaults. Both give what they loaded to
\* the engine, but only serve gives it, and the engine, to the dashboard.
Start ==
  /\ run = "down" /\ run' \in {"serve", "wrap"}
  /\ env' \in {env, Nothing}
  /\ engine' = LoadedIn(env')
  /\ appConfig' = IF run' = "serve" THEN LoadedIn(env') ELSE Unset
  /\ told' = {LoadedIn(env')} /\ shown' = {LoadedIn(env')} /\ intact' = TRUE
  /\ UNCHANGED <<file, cfgMu, update, sync, cli>>

\* The process ends at any point, perhaps with the file truncated and not yet written.
Stop ==
  /\ run # "down" /\ run' = "down"
  /\ cfgMu' = Unset
  /\ update' = [u \in Update |-> Idle] /\ sync' = [r \in Request |-> Idle]
  /\ shown' = IF \E u \in Update : update[u].at = "write" THEN shown \cup {Default} ELSE shown
  /\ UNCHANGED <<file, env, appConfig, engine, cli, told, intact>>

-----------------------------------------------------------------------------
(* updateConfig, from Lock to Unlock *)

\* Mutant of Held: the lock is released as soon as appConfig is changed.
NotHeld(u) == Unset

\* cfgMu stays locked until the engine has been told.
Held(u) == u

\* The dashboard of wrap has no settings until its first update makes them of the defaults,
\* whatever is stored.
Base == IF appConfig = Unset THEN Default ELSE appConfig

Merge(u) ==
  /\ run # "down" /\ cfgMu = Unset /\ update[u].at = "idle"
  /\ \E p \in Partial :
       /\ appConfig' = Merged(Base, p)
       /\ update' = [update EXCEPT ![u] = [at |-> "save", cfg |-> Merged(Base, p)]]
       /\ shown' = shown \cup {Merged(Base, p)}
  /\ cfgMu' = Held(u)
  /\ UNCHANGED <<file, env, run, engine, sync, cli, told, intact>>

\* Save: the file is truncated, or cannot be opened (which nobody is told) ...
Truncate(u) ==
  /\ update[u].at = "save"
  /\ \/ /\ file' = Empty /\ intact' = TRUE
        /\ update' = [update EXCEPT ![u].at = "write"]
     \/ /\ intact' = FALSE /\ UNCHANGED file
        /\ update' = [update EXCEPT ![u].at = "set"]
  /\ UNCHANGED <<env, run, appConfig, engine, cfgMu, sync, cli, told, shown>>

\* What a file holds once cfg has been written over what is in it.
WrittenOver(cfg) == IF file = Empty THEN {Whole(cfg)} ELSE {Whole(cfg), Mixed}

\* ... and written, or not (the disk is full).
Write(u) ==
  /\ update[u].at = "write"
  /\ \/ file' \in WrittenOver(update[u].cfg) /\ UNCHANGED intact
     \/ intact' = FALSE /\ UNCHANGED file
  /\ update' = [update EXCEPT ![u].at = "set"]
  /\ UNCHANGED <<env, run, appConfig, engine, cfgMu, sync, cli, told, shown>>

\* SetFallbackConfig, if there is a fallbackConfigSetter (serve only); Unlock.
SetEngine(u) ==
  /\ update[u].at = "set"
  /\ IF run = "serve"
     THEN /\ engine' = update[u].cfg
          /\ told' = {update[u].cfg} \cup
                     (IF \E r \in Request : sync[r].at = "read" THEN told ELSE {})
     ELSE UNCHANGED <<engine, told>>
  /\ shown' = {update[u].cfg}
  /\ update' = [update EXCEPT ![u] = Idle]
  /\ cfgMu' = Unset
  /\ UNCHANGED <<file, env, run, appConfig, sync, cli, intact>>

-----------------------------------------------------------------------------
(* syncFallbackConfigFromEnv: two sections under the engine's mutex *)

SyncRead(r) ==
  /\ run # "down" /\ env # Nothing /\ sync[r].at = "idle"
  /\ sync' = [sync EXCEPT ![r] = [at |-> "read", cfg |-> engine]]
  /\ UNCHANGED <<file, env, run, appConfig, engine, cfgMu, update, cli, told, shown, intact>>

\* Mutant of Overridden: what the environment does not name goes back to its default.
OverDefaults(c) == Merged(Default, env)

Overridden(c) == Merged(c, env)

\* Nothing is set when the environment agrees with what was read.
SyncWrite(r) ==
  /\ sync[r].at = "read"
  /\ LET read == sync[r].cfg IN
     engine' = IF Overridden(read) # read THEN Overridden(read) ELSE engine
  /\ sync' = [sync EXCEPT ![r] = Idle]
  /\ UNCHANGED <<file, env, run, appConfig, cfgMu, update, cli, told, shown, intact>>

-----------------------------------------------------------------------------
(* "config set", in a process of its own (whose environment names nothing) *)

\* It refuses a file it cannot read.
CliLoad ==
  /\ cli.at = "idle" /\ file.is \in {"missing", "whole"}
  /\ \E p \in Partial :
       /\ p.model = Unset \/ p.enabled = Unset
       /\ cli' = [at |-> "loaded", cfg |-> Merged(file.cfg, p)]
  /\ UNCHANGED <<file, env, run, appConfig, engine, cfgMu, update, sync, told, shown,
                 intact>>

CliTruncate ==
  /\ cli.at = "loaded" /\ cli' = [cli EXCEPT !.at = "write"]
  /\ file' = Empty /\ intact' = FALSE
  /\ UNCHANGED <<env, run, appConfig, engine, cfgMu, update, sync, told, shown>>

CliWrite ==
  /\ cli.at = "write" /\ cli' = Idle
  /\ file' \in WrittenOver(cli.cfg) /\ intact' = FALSE
  /\ UNCHANGED <<env, run, appConfig, engine, cfgMu, update, sync, told, shown>>

Next ==
  \/ Start \/ Stop
  \/ \E u \in Update : Merge(u) \/ Truncate(u) \/ Write(u) \/ SetEngine(u)
  \/ \E r \in Request : SyncRead(r) \/ SyncWrite(r)
  \/ CliLoad \/ CliTruncate \/ CliWrite

Spec == Init /\ [][Next]_vars

-----------------------------------------------------------------------------
Quiet == \A u \in Update : update[u].at = "idle"

\* A configuration of C, with or without the environment's overrides.
Variant(C, cfg) == \E c \in C : cfg \in {c, Merged(c, env)}

\* In serve the engine routes by what the dashboard shows, whatever updates ran concurrently
\* (but for the environment's overrides, which come back with the next request). When an
\* update reaches the engine between the two sections of a sync, the sync puts back what
\* it had read; even then the engine is left with one of the configurations it was told
\* since, as a whole, never with parts of two. In wrap it stays with what was loaded:
\* no update reaches it.
EngineFollowsDashboard ==
  /\ run # "down" => Variant(told, engine)
  /\ run = "serve" /\ Quiet => appConfig \in told

\* Whenever the process is stopped, a start in the same environment finds the settings that
\* were loaded or that the last update left, or those of an update under way; the defaults,
\* if the stop came after that one had truncated the file; never anything older. (Not when
\* a save failed, or "config set" wrote the file.)
RestartFindsSettings ==
  intact /\ (\A u \in Update : update[u].at # "write") => Variant(shown, LoadedIn(env))
=============================================================================
