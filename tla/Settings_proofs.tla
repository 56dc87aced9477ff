---------------------------- MODULE Settings_proofs ----------------------------
(***************************************************************************)
(* The settings, for any number of concurrent updates and requests.        *)
(***************************************************************************)
EXTENDS Settings, TLAPS

\* Who updates holds cfgMu, and has what the dashboard shows.
LockOK ==
  /\ \A u \in Update : update[u].at # "idle" =>
       run # "down" /\ cfgMu = u /\ update[u].cfg = appConfig
  /\ \A r \in Request : sync[r].at # "idle" => run # "down"

\* What the engine holds, and what the syncs have read of it.
EngineOK ==
  /\ run # "down" =>
       /\ Variant(told, engine)
       /\ \A r \in Request : sync[r].at = "read" => Variant(told, sync[r].cfg)
  /\ run = "serve" /\ Quiet => appConfig \in told

\* What the file holds, at every point of a save.
FileOK ==
  /\ \A u \in Update : update[u].at # "idle" => update[u].cfg \in shown
  /\ intact =>
       /\ \A u \in Update :
            /\ update[u].at = "write" => file = Empty
            /\ update[u].at = "set" => file = Whole(update[u].cfg)
       /\ (\A u \in Update : update[u].at # "write") => Variant(shown, LoadedIn(env))

IInv == TypeOK /\ LockOK /\ EngineOK /\ FileOK

-----------------------------------------------------------------------------
LEMMA Defaults == Default \in Config
<1>1. PICK m \in Model : TRUE
  BY SettingsAssumption
<1>2. [model |-> m, enabled |-> FALSE] \in Config
  BY DEF Config
<1>3. \E c \in Config : ~c.enabled
  BY <1>2
<1> QED
  BY <1>3 DEF Default

LEMMA MergedType == \A c \in Config, p \in Partial : Merged(c, p) \in Config
BY DEF Merged, Config, Partial

\* Overriding twice is overriding once.
LEMMA MergedTwice ==
  \A c \in Config, p \in Partial : Merged(Merged(c, p), p) = Merged(c, p)
BY DEF Merged, Config, Partial

LEMMA LoadedType == TypeOK => \A e \in Partial : LoadedIn(e) \in Config
BY Defaults, MergedType DEF TypeOK, LoadedIn, File

LEMMA BaseType == TypeOK => Base \in Config
BY Defaults DEF TypeOK, Base

LEMMA Files ==
  /\ Missing \in File /\ Empty \in File /\ Mixed \in File
  /\ \A c \in Config : Whole(c) \in File /\ WrittenOver(c) \subseteq File
BY Defaults DEF Missing, Empty, Mixed, Whole, File, WrittenOver

LEMMA InitOK == Init => IInv
<1> SUFFICES ASSUME Init PROVE IInv
  OBVIOUS
<1>1. TypeOK
  <2>1. file \in File
    BY Files DEF Init
  <2>2. /\ update \in [Update -> [at : {"idle", "save", "write", "set"}, cfg : Config]]
        /\ sync \in [Request -> [at : {"idle", "read"}, cfg : Config]]
        /\ cli \in [at : {"idle", "loaded", "write"}, cfg : Config]
    BY Defaults DEF Init, Idle
  <2> QED
    BY Defaults, <2>1, <2>2 DEF Init, TypeOK
<1> QED
  BY <1>1 DEF Init, IInv, LockOK, EngineOK, FileOK, Idle

LEMMA TypeStep == TypeOK /\ [Next]_vars => TypeOK'
<1> SUFFICES ASSUME TypeOK, [Next]_vars PROVE TypeOK'
  OBVIOUS
<1> USE Defaults, MergedType, SettingsAssumption DEF TypeOK
<1>1. Nothing \in Partial
  BY DEF Nothing, Partial
<1>2. CASE UNCHANGED vars
  BY <1>2 DEF vars
<1>3. CASE Start
  BY <1>1, <1>3, LoadedType DEF Start
<1>4. CASE Stop
  BY <1>1, <1>4 DEF Stop, Idle
<1>5. ASSUME NEW u \in Update, Merge(u) \/ Truncate(u) \/ Write(u) \/ SetEngine(u)
      PROVE  TypeOK'
  <2>1. CASE Merge(u)
    <3>1. PICK p \in Partial :
            /\ appConfig' = Merged(Base, p)
            /\ update' = [update EXCEPT ![u] = [at |-> "save", cfg |-> Merged(Base, p)]]
            /\ shown' = shown \cup {Merged(Base, p)}
      BY <2>1 DEF Merge
    <3>2. Merged(Base, p) \in Config
      BY BaseType
    <3> QED
      BY <2>1, <3>1, <3>2 DEF Merge, Held
  <2>2. CASE Truncate(u)
    <3>1. PICK at \in {"write", "set"} : update' = [update EXCEPT ![u].at = at]
      BY <2>2 DEF Truncate
    <3>2. update' \in [Update -> [at : {"idle", "save", "write", "set"}, cfg : Config]]
      BY <3>1
    <3>3. file' \in File /\ intact' \in BOOLEAN
      BY <2>2, Files DEF Truncate
    <3> QED
      BY <2>2, <3>2, <3>3 DEF Truncate
  <2>3. CASE Write(u)
    <3>1. update[u].cfg \in Config
      OBVIOUS
    <3>2. file' \in File /\ intact' \in BOOLEAN
      BY <2>3, <3>1, Files DEF Write
    <3>3. update' \in [Update -> [at : {"idle", "save", "write", "set"}, cfg : Config]]
      BY <2>3 DEF Write
    <3> QED
      BY <2>3, <3>2, <3>3 DEF Write
  <2>4. CASE SetEngine(u)
    BY <2>4 DEF SetEngine, Idle
  <2> QED
    BY <1>5, <2>1, <2>2, <2>3, <2>4
<1>6. ASSUME NEW r \in Request, SyncRead(r) \/ SyncWrite(r) PROVE TypeOK'
  BY <1>6 DEF SyncRead, SyncWrite, Overridden, Idle
<1>7. CASE CliLoad
  <2>1. PICK p \in Partial : cli' = [at |-> "loaded", cfg |-> Merged(file.cfg, p)]
    BY <1>7 DEF CliLoad
  <2>2. Merged(file.cfg, p) \in Config
    BY DEF File
  <2> QED
    BY <1>7, <2>1, <2>2 DEF CliLoad
<1>8. CASE CliTruncate \/ CliWrite
  <2>1. file' \in File
    BY <1>8, Files DEF CliTruncate, CliWrite
  <2>2. cli' \in [at : {"idle", "loaded", "write"}, cfg : Config]
    BY <1>8 DEF CliTruncate, CliWrite, Idle
  <2> QED
    BY <1>8, <2>1, <2>2 DEF CliTruncate, CliWrite
<1> QED
  BY <1>2, <1>3, <1>4, <1>5, <1>6, <1>7, <1>8 DEF Next

\* cfgMu makes updates one at a time, from Merge to SetEngine.
LEMMA LockStep == TypeOK /\ LockOK /\ [Next]_vars => LockOK'
<1> SUFFICES ASSUME TypeOK, LockOK, [Next]_vars PROVE LockOK'
  OBVIOUS
<1> USE SettingsAssumption DEF TypeOK, LockOK
<1>1. CASE UNCHANGED vars
  BY <1>1 DEF vars
<1>2. CASE Start
  BY <1>2 DEF Start
<1>3. CASE Stop
  BY <1>3 DEF Stop, Idle
<1>4. ASSUME NEW u \in Update, Merge(u) \/ Truncate(u) \/ Write(u) \/ SetEngine(u)
      PROVE  LockOK'
  <2>1. CASE Merge(u)
    <3>1. PICK c : /\ appConfig' = c
                   /\ update' = [update EXCEPT ![u] = [at |-> "save", cfg |-> c]]
      BY <2>1 DEF Merge
    <3>2. \A w \in Update : update[w].at = "idle"
      BY <2>1 DEF Merge
    <3>3. \A w \in Update : update'[w].at # "idle" => w = u
      BY <3>1, <3>2
    <3>4. update'[u].cfg = c
      BY <3>1
    <3> QED
      BY <2>1, <3>1, <3>3, <3>4 DEF Merge, Held
  <2>2. CASE Truncate(u)
    BY <2>2 DEF Truncate
  <2>3. CASE Write(u)
    BY <2>3 DEF Write
  <2>4. CASE SetEngine(u)
    BY <2>4 DEF SetEngine, Idle
  <2> QED
    BY <1>4, <2>1, <2>2, <2>3, <2>4
<1>5. ASSUME NEW r \in Request, SyncRead(r) \/ SyncWrite(r) PROVE LockOK'
  BY <1>5 DEF SyncRead, SyncWrite, Idle
<1>6. CASE CliLoad \/ CliTruncate \/ CliWrite
  BY <1>6 DEF CliLoad, CliTruncate, CliWrite
<1> QED
  BY <1>1, <1>2, <1>3, <1>4, <1>5, <1>6 DEF Next

-----------------------------------------------------------------------------
\* Neither the dashboard's configuration nor what the engine and the syncs hold moves.
LEMMA SameEngine ==
  ASSUME EngineOK, UNCHANGED <<run, appConfig, env, engine, sync, told>>, Quiet' => Quiet
  PROVE  EngineOK'
BY DEF EngineOK, Variant, Merged

\* More may have been told.
LEMMA Widened ==
  ASSUME NEW C, NEW D, C \subseteq D, NEW c, Variant(C, c)
  PROVE  Variant(D, c)
BY DEF Variant

\* Overriding a variant gives one.
LEMMA Reoverridden ==
  ASSUME TypeOK, NEW C \in SUBSET Config, NEW c, Variant(C, c)
  PROVE  Variant(C, Merged(c, env))
BY MergedTwice DEF Variant, TypeOK

LEMMA EngineStep ==
  ASSUME TypeOK, LockOK, EngineOK, [Next]_vars
  PROVE  EngineOK'
<1>1. CASE UNCHANGED vars
  BY <1>1, SameEngine DEF vars, Quiet
<1>2. CASE Start
  <2>1. run = "down" /\ UNCHANGED sync
    BY <1>2 DEF Start
  <2>2. engine' \in told' /\ (run' = "serve" => appConfig' \in told')
    BY <1>2 DEF Start
  <2>3. \A r \in Request : sync'[r].at # "read"
    BY <2>1 DEF LockOK
  <2> QED
    BY <2>2, <2>3 DEF EngineOK, Variant
<1>3. CASE Stop
  BY <1>3 DEF Stop, EngineOK
<1>4. ASSUME NEW u \in Update, Merge(u) \/ Truncate(u) \/ Write(u) PROVE EngineOK'
  <2>1. update'[u].at # "idle"
    BY <1>4 DEF Merge, Truncate, Write, TypeOK
  <2>2. UNCHANGED <<run, env, engine, sync, told>>
    BY <1>4 DEF Merge, Truncate, Write
  <2> QED
    BY <2>1, <2>2 DEF EngineOK, Quiet, Variant, Merged
<1>5. ASSUME NEW u \in Update, SetEngine(u) PROVE EngineOK'
  <2>1. /\ update[u].cfg = appConfig /\ run # "down"
        /\ UNCHANGED <<run, env, sync, appConfig>>
    BY <1>5 DEF SetEngine, LockOK
  <2>2. CASE run = "serve"
    <3>1. engine' = appConfig /\ appConfig \in told'
      BY <1>5, <2>1, <2>2 DEF SetEngine
    <3>2. (\E r \in Request : sync[r].at = "read") => told \subseteq told'
      BY <1>5, <2>2 DEF SetEngine
    <3>3. ASSUME NEW r \in Request, sync'[r].at = "read"
          PROVE  Variant(told', sync'[r].cfg)
      <4>1. told \subseteq told' /\ Variant(told, sync[r].cfg)
        BY <2>1, <3>2, <3>3 DEF EngineOK
      <4> QED
        BY <2>1, <4>1, Widened
    <3>4. Variant(told', engine')
      BY <3>1 DEF Variant
    <3> QED
      BY <2>1, <3>1, <3>3, <3>4 DEF EngineOK, Variant, Merged
  <2>3. CASE run # "serve"
    <3>1. UNCHANGED <<engine, told>>
      BY <1>5, <2>3 DEF SetEngine
    <3> QED
      BY <2>1, <2>3, <3>1 DEF EngineOK, Variant, Merged
  <2> QED
    BY <2>2, <2>3
<1>6. ASSUME NEW r \in Request, SyncRead(r) PROVE EngineOK'
  <2>1. /\ sync' = [sync EXCEPT ![r] = [at |-> "read", cfg |-> engine]]
        /\ run # "down"
        /\ UNCHANGED <<engine, appConfig, env, told, update, run>>
    BY <1>6 DEF SyncRead
  <2>2. ASSUME NEW x \in Request, sync'[x].at = "read" PROVE Variant(told, sync'[x].cfg)
    <3>1. CASE x = r
      BY <2>1, <3>1 DEF EngineOK, TypeOK
    <3>2. CASE x # r
      BY <2>1, <2>2, <3>2 DEF EngineOK, TypeOK
    <3> QED
      BY <3>1, <3>2
  <2> QED
    BY <2>1, <2>2 DEF EngineOK, Variant, Merged, Quiet
<1>7. ASSUME NEW r \in Request, SyncWrite(r) PROVE EngineOK'
  <2> DEFINE read == sync[r].cfg
  <2>1. /\ sync[r].at = "read" /\ sync' = [sync EXCEPT ![r] = Idle]
        /\ engine' = Merged(read, env) \/ engine' = engine
        /\ UNCHANGED <<appConfig, env, told, update, run>>
    BY <1>7 DEF SyncWrite, Overridden
  <2>2. run # "down" /\ Variant(told, read) /\ Variant(told, engine)
    BY <2>1 DEF EngineOK, LockOK
  <2>3. told \in SUBSET Config
    BY DEF TypeOK
  <2>4. Variant(told, Merged(read, env))
    BY <2>2, <2>3, Reoverridden
  <2>5. Variant(told, engine')
    BY <2>1, <2>2, <2>4
  <2>6. \A x \in Request : sync'[x].at = "read" => Variant(told, sync'[x].cfg)
    BY <2>1, <2>2 DEF EngineOK, TypeOK, Idle
  <2> QED
    BY <2>1, <2>5, <2>6 DEF EngineOK, Variant, Merged, Quiet
<1>8. CASE CliLoad \/ CliTruncate \/ CliWrite
  BY <1>8, SameEngine DEF CliLoad, CliTruncate, CliWrite, Quiet
<1> QED
  BY <1>1, <1>2, <1>3, <1>4, <1>5, <1>6, <1>7, <1>8 DEF Next

-----------------------------------------------------------------------------
\* Neither the file nor what a start should find in it moves, and no update.
LEMMA SameFile ==
  ASSUME FileOK, UNCHANGED <<file, env, update, shown, intact>>
  PROVE  FileOK'
BY DEF FileOK, Variant, LoadedIn, Merged, Whole, Empty

\* What a start finds in a file that an update has written, and in a truncated one.
LEMMA FoundWhole ==
  ASSUME NEW c, file = Whole(c)
  PROVE  LoadedIn(env) = Merged(c, env)
BY DEF Whole, LoadedIn

LEMMA FoundEmpty == file = Empty => LoadedIn(env) = Default
BY DEF Empty, LoadedIn

LEMMA FileStep ==
  ASSUME TypeOK, LockOK, FileOK, [Next]_vars
  PROVE  FileOK'
<1> USE SettingsAssumption DEF TypeOK
<1>1. CASE UNCHANGED vars
  BY <1>1, SameFile DEF vars
<1>2. CASE Start
  <2>1. \A u \in Update : update'[u].at = "idle"
    BY <1>2 DEF Start, LockOK
  <2>2. LoadedIn(env') \in shown' /\ file' = file
    BY <1>2 DEF Start
  <2>3. LoadedIn(env)' = LoadedIn(env')
    BY <2>2 DEF LoadedIn, Merged
  <2> QED
    BY <2>1, <2>2, <2>3 DEF FileOK, Variant
<1>3. CASE Stop
  <2>1. /\ \A u \in Update : update'[u].at = "idle"
        /\ UNCHANGED <<file, env, intact>> /\ shown \subseteq shown'
    BY <1>3 DEF Stop, Idle
  <2>2. LoadedIn(env)' = LoadedIn(env)
    BY <2>1 DEF LoadedIn, Merged
  <2>3. ASSUME intact PROVE Variant(shown', LoadedIn(env))
    <3>1. CASE \E u \in Update : update[u].at = "write"
      <4>1. LoadedIn(env) = Default
        BY <2>3, <3>1, FoundEmpty DEF FileOK
      <4>2. Default \in shown'
        BY <1>3, <3>1 DEF Stop
      <4> QED
        BY <4>1, <4>2 DEF Variant
    <3>2. CASE \A u \in Update : update[u].at # "write"
      BY <2>1, <2>3, <3>2 DEF FileOK, Variant
    <3> QED
      BY <3>1, <3>2
  <2> QED
    BY <2>1, <2>2, <2>3 DEF FileOK, Variant, Merged
<1>4. ASSUME NEW u \in Update, Merge(u) PROVE FileOK'
  <2>1. \A w \in Update : update[w].at = "idle"
    BY <1>4 DEF Merge, LockOK
  <2>2. /\ update'[u].at = "save" /\ update'[u].cfg \in shown'
        /\ \A w \in Update : w # u => update'[w].at = "idle"
        /\ shown \subseteq shown' /\ UNCHANGED <<file, env, intact>>
    BY <1>4, <2>1 DEF Merge
  <2>3. LoadedIn(env)' = LoadedIn(env)
    BY <2>2 DEF LoadedIn, Merged
  <2>4. intact => Variant(shown, LoadedIn(env))
    BY <2>1 DEF FileOK
  <2>5. intact => Variant(shown, LoadedIn(env))'
    BY <2>2, <2>3, <2>4 DEF Variant, Merged
  <2>6. \A w \in Update : update'[w].at \notin {"write", "set"}
    BY <2>2
  <2>7. \A w \in Update : update'[w].at # "idle" => update'[w].cfg \in shown'
    BY <2>2
  <2> QED
    BY <2>2, <2>5, <2>6, <2>7 DEF FileOK
<1>5. ASSUME NEW u \in Update, Truncate(u) \/ Write(u) \/ SetEngine(u) PROVE FileOK'
  <2>1. /\ update[u].cfg \in shown /\ env' = env
        /\ \A w \in Update : w # u => update[w].at = "idle"
    BY <1>5 DEF Truncate, Write, SetEngine, LockOK, FileOK
  <2>2. \A w \in Update : w # u => update'[w].at = "idle"
    BY <1>5, <2>1 DEF Truncate, Write, SetEngine
  <2>3. CASE Truncate(u)
    <3>1. /\ update'[u].at \in {"write", "set"} /\ update'[u].cfg = update[u].cfg
          /\ shown' = shown
      BY <2>3 DEF Truncate
    <3>2. intact' => update'[u].at = "write" /\ file' = Empty
      BY <2>3 DEF Truncate
    <3> QED
      BY <2>1, <2>2, <3>1, <3>2 DEF FileOK
  <2>4. CASE Write(u)
    <3>1. /\ update'[u].at = "set" /\ update'[u].cfg = update[u].cfg
          /\ shown' = shown
      BY <2>4 DEF Write
    <3>2. intact' => intact /\ file' \in WrittenOver(update[u].cfg)
      BY <2>4 DEF Write
    <3>3. intact' => file' = Whole(update'[u].cfg)
      BY <2>4, <3>1, <3>2 DEF Write, FileOK, WrittenOver
    <3>4. intact' => LoadedIn(env)' = Merged(update'[u].cfg, env')
      BY <3>3 DEF LoadedIn, Whole, Merged
    <3>5. intact' => Variant(shown, LoadedIn(env))'
      BY <2>1, <3>1, <3>4 DEF Variant, Merged
    <3> QED
      BY <2>1, <2>2, <3>1, <3>3, <3>5 DEF FileOK, Whole
  <2>5. CASE SetEngine(u)
    <3>1. /\ update[u].at = "set" /\ UNCHANGED <<file, intact>>
          /\ shown' = {update[u].cfg}
      BY <2>5 DEF SetEngine
    <3>2. \A w \in Update : update'[w].at = "idle"
      BY <2>2, <2>5 DEF SetEngine, Idle
    <3>3. intact => LoadedIn(env) = Merged(update[u].cfg, env)
      BY <3>1, FoundWhole DEF FileOK
    <3>4. LoadedIn(env)' = LoadedIn(env)
      BY <2>1, <3>1 DEF LoadedIn, Merged
    <3>5. intact => Variant(shown', LoadedIn(env))
      BY <3>1, <3>3 DEF Variant
    <3>6. intact => Variant(shown, LoadedIn(env))'
      BY <2>1, <3>4, <3>5 DEF Variant, Merged
    <3> QED
      BY <3>1, <3>2, <3>6 DEF FileOK
  <2> QED
    BY <1>5, <2>3, <2>4, <2>5
<1>6. ASSUME NEW r \in Request, SyncRead(r) \/ SyncWrite(r) PROVE FileOK'
  BY <1>6, SameFile DEF SyncRead, SyncWrite
<1>7. CASE CliLoad
  BY <1>7, SameFile DEF CliLoad
<1>8. CASE CliTruncate \/ CliWrite
  BY <1>8 DEF CliTruncate, CliWrite, FileOK
<1> QED
  BY <1>1, <1>2, <1>3, <1>4, <1>5, <1>6, <1>7, <1>8 DEF Next

-----------------------------------------------------------------------------
LEMMA Inductive == IInv /\ [Next]_vars => IInv'
BY TypeStep, LockStep, EngineStep, FileStep DEF IInv

LEMMA Invariant == Spec => []IInv
BY InitOK, Inductive, PTL DEF Spec

\* In serve the engine routes by one configuration the dashboard shows, or showed while a
\* sync was under way, with or without the environment's overrides; in wrap by what was
\* loaded (updateConfig, SetFallbackConfig, syncFallbackConfigFromEnv).
THEOREM EngineFollows == Spec => []EngineFollowsDashboard
<1>1. IInv => EngineFollowsDashboard
  BY DEF IInv, EngineOK, EngineFollowsDashboard
<1> QED
  BY <1>1, Invariant, PTL

\* Over any number of updates, stops at any point and restarts of serve and wrap, a start
\* finds the last settings, those under way, or the defaults after a stop in mid-save
\* (Load, Save, updateConfig), unless a save failed or "config set" wrote the file.
THEOREM RestartFinds == Spec => []RestartFindsSettings
<1>1. IInv => RestartFindsSettings
  BY DEF IInv, FileOK, RestartFindsSettings
<1> QED
  BY <1>1, Invariant, PTL
=============================================================================
