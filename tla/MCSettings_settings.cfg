CONSTANTS
  Model = {m1, m2}
  Unset = Unset
  Update = {u1, u2}
  Request = {r1, r2}
SPECIFICATION Spec
INVARIANTS EngineFollowsDashboard RestartFindsSettings
SYMMETRY Symmetry
CHECK_DEADLOCK FALSE
