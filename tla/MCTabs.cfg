SPECIFICATION Spec
CONSTANTS
  Tabs = {t1, t2}
  Ids = {PL, TR, JP}
  MaxIds = 2
  MaxToggles = 3
  MaxEvents = 2
  Published <- MCPublished
INVARIANTS TabsAgree ComparesWithStored
PROPERTIES NoOverwriting TabsSettle
