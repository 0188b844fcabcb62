SPECIFICATION Spec
INVARIANT SameSelection
INVARIANT FiltersCoherent
INVARIANT BackgroundAgrees
INVARIANT AdvisoriesAgree
INVARIANT TimelineCovers
INVARIANT HighlightsFair
CONSTANTS
  None = None
  Rows <- MCRows
  CategoriesOf <- MCCategoriesOf
  Catalogs <- MCCatalogs
  Clocks = {100, 130}
  Hours = {24, 72}
  Backs = {0, 24}
  Countries = {"PL"}
  Topics = {"earthquake", "disaster", "weather"}
  Severities = {0, 2}
  MaxHighlights = 8
  Scopes <- MCScopes
  Offset <- McOffset
  QueryRadius = 800
  MaxHours = 720
  MaxSources = 10
  MaxFacts = 2
