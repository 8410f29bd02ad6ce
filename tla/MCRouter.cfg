CONSTANTS
  Nothing = Nothing
  NoJob = NoJob
  NoTest = NoTest
  None = None
  u1 = u1
  Urls = {u1}
  h1 = h1
  h2 = h2
  Handlers = {h1, h2}
  MaxRevisions = 3
  MaxDownloads = 2
  MaxSettings = 1
  Absent = Absent
  MaxWrites = 3
  w = w
  Worker = w
  r1 = r1
  r2 = r2
  Recoverers = {r1, r2}
  Disturbances = {"restore"}
  MaxUpdates = 2
  MaxSaves = 1
  MaxMishaps = 2
  Mixed = Mixed
  i1 = i1
  i2 = i2
  i3 = i3
  Ids = {i1, i2, i3}
  MaxLaunches = 5
  KeepJobs = 1
  q1 = q1
  q2 = q2
  TestIds = {q1, q2}
  MaxBatches = 3
  MaxProbes = 2
  Faults = {"crash", "broken", "hang", "outage", "flush"}
  MaxFaults = 1
  Commands = {"start", "stop", "restart", "fast"}
  MaxCommands = 2
  Strikes = 2
  CleanupFails = FALSE
SPECIFICATION RouterSpec
INVARIANTS  NoStaleDownload  SavesKept OneWorker OneBatch StoppedIsDirect FailsOpen
PROPERTIES IsRegister EveryUpdateEnds ResultIsFinal EveryJobEnds
CHECK_DEADLOCK FALSE
