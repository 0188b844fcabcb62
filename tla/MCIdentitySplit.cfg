CONSTANTS
  usgs = usgs
  gdacs = gdacs
  eonet = eonet
  meteoalarm = meteoalarm
  quake = quake
  episode = episode
  report = report
  alert = alert
  update = update
  cancel = cancel
  uKey = uKey
  gKey = gKey
  eKey = eKey
  aKey = aKey
  uKey2 = uKey2
  cKey = cKey
  otherKey = otherKey
  swpc = swpc
  watch = watch
  extension = extension
  revocation = revocation
  wKey = wKey
  xKey = xKey
  rKey = rKey
  NoPayload = NoPayload
  Cap = meteoalarm
  Records = {quake, episode, report, alert, update, cancel, watch, extension, revocation}
  Sources = {usgs, gdacs, eonet, meteoalarm, swpc}
  SourceOf <- McSourceOf
  Priority <- McPriority
  Owned <- McOwned
  Splittable = {usgs, gdacs, meteoalarm}
  Keys = {uKey, gKey, eKey, aKey, uKey2, cKey, otherKey, wKey, xKey, rKey}
  Feeds <- PublishersOnly
  Keep = 1
  Start = 6
  KeyOf <- McKeyOf
  CapKey <- McCapKey
  Bulletin <- McBulletin
  MaxTime = 7
  MaxEpisode = 1
  MaxRecords = 3
  MaxRequests = 2
  Skew = 1
  Window = 2
  Failed = Failed
  Day = 1
  MaxItems = 2
  PageSize = 2
  MaxPages = 3
  NetworkOrigin <- McNetworkOrigin
  UnknownOrigins <- McUnknownOrigins
  MaxEvents = 3
  MaxClock = 8
SPECIFICATION Spec
INVARIANTS SplitIsKept
