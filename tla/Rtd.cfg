CONSTANTS
  None = None
  Topics = {t1}
  Keys = {k1, k2}
  MaxConnects = 2
  MaxAttempts = 2
  MaxGens = 4
  Lines = {l1, l2}
  Vals = {v1, v2}
  MaxSends = 3
  Tokens = {k3}
  Threads = {h1, h2}
  Sta = Sta
  Nobody = Nobody
  MaxTimeouts = 2
  Cells = {c1, c2}
  Ranges = {r1}
  Contents = {d1, d2}
  Identity = Identity
SPECIFICATION RtdSpec
CHECK_DEADLOCK FALSE
INVARIANTS
  SubscriptionsAgree
  LiveContextIsRegistered
  ConnectedStaysLive
  RefreshedCellIsCurrent
  SentIsHeld
  ServedIsCurrent
PROPERTIES
  UpdatesShown
