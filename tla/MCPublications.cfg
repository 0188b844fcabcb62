SPECIFICATION Spec
CONSTANTS
  usgs = usgs
  gdacs = gdacs
  cisa = cisa
  quake1 = quake1
  quake2 = quake2
  episode = episode
  Sources = {usgs, gdacs, cisa}
  Records = {quake1, quake2, episode}
  SourceOf <- MCSourceOf
  MaxEvents = 2
  MaxEvidence = 2
  Slack = 0
  MaxClock = 2
  MaxReadings = 3
INVARIANTS PublishedIsReadable LinesAgree
PROPERTIES GoodReadsStay RefinesPublicView
SYMMETRY MCSymmetry
