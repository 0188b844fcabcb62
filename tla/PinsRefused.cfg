SPECIFICATION SelectionSpec
CONSTANTS
  Tabs = {t1, t2}
  Ids = {r1, r2}
  MaxIds = 2
  MaxToggles = 3
  MaxEvents = 2
PROPERTIES OneAtATime
