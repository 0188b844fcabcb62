CONSTANTS
  Records = {w1, w2}
  Slack = 1
  MaxClock = 4
  v1 = v1
  v2 = v2
  Entries = {c1, c2}
  Versions = {v1, v2}
  Rank <- MCRank
  Absent = Absent
  Ahead = 1
  MaxToday = 2
  MaxRelease = 3
  Ids = {1, 2, 3}
  Reports <- MCReports
  Km <- MCKm
  Hours <- MCHours
  Limit = 1
SPECIFICATION Spec
INVARIANTS EvidenceShown NewestShown RelationsAreCurrent
