CONSTANTS
  Proc = {t1, t2}
  NoProc = NoProc
  Handler = {h1, h2}
SPECIFICATION FairSpec
INVARIANTS TypeOK LiveIsManaged NoTunnelLeft ChildHasProxy
PROPERTIES RunEnds DeathNoticed
CHECK_DEADLOCK FALSE
