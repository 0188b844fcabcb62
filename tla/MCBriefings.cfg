CONSTANTS
  e1 = e1
  e2 = e2
  all = all
  local = local
  Events = {e1, e2}
  Scopes = {all, local}
  Matching <- MCMatching
  Window <- MCWindow
  Writers = {w1, w2}
  Requests = {r1, r2}
  MaxClock = 3
SPECIFICATION Spec
INVARIANTS NothingMissed CountsAgree
PROPERTIES RefinesChangeFeed
