CONSTANTS
  Tokens = {k1, k2}
  Threads = {t1, t2}
  Sta = Sta
  Nobody = Nobody
  MaxTimeouts = 1
SPECIFICATION RefCacheSpec
INVARIANTS
  ShippedIsFound
