CONSTANTS
  Events = {"e1", "e2"}
  Filters = {"all", "pl"}
  DEFAULT_QUERY = "all"
  Match <- MCMatch
  MaxChanges = 1
  MaxEdits = 2
  MaxBriefings = 2
SPECIFICATION Spec
INVARIANTS EvidenceKeepsUp ManualFiltersStay
PROPERTIES ReadingsNeverGoBack ScreenSettles BriefingNeverOlder
