CONSTANTS
  d1 = d1
  d2 = d2
  r = r
  a = a
  b = b
  c = c
  Dirs = {d1, d2}
  RawMax = 1
  BatchMax = 1
  NamesMax = 1
  BurstMax = 2
  StreamChanges = 3
  Tree = {r, a, b, c}
  Root = r
  Parent <- ParentOf
  Limit = 3
  TreeChanges = 4
  Projects = {p}
  Drivers = {1, 2}
  Servers = {s1}
  ProjectsMax = 2
  ProcessesMax = 2
  QueueMax = 1
  RestartsMax = 1
SPECIFICATION ServicesSpec
INVARIANTS
  StreamInvariant
  RegistrationInvariant
  ProjectInvariant
PROPERTIES
  ChangeIsSeenOrOwed
  EntriesBecomeWatched
  DroppedOpeningEnds
CHECK_DEADLOCK FALSE
