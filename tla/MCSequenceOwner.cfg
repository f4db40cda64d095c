CONSTANTS
  PartsRun = {"keys"}
  Calls = {1, 2}
  Servers = {s1}
  Policies = {"refresh", "push", "unsupported"}
  RevisionMax = 2
  RestartsMax = 1
  PullsMax = 2
  Queries = {0, 1}
  SessionsMax = 2
  RequestsMax = 3
  SearchesMax = 2
  Manifest <- EditorManifest
  HostCommands = {"chat"}
  BindingKeys = {1, 2}
  SequenceMax = 2
  BindingsMax = 7
  HostMax = 2
  HostTable <- HostBindings
  CountMax = 11
  KeysMax = 4
  PairsMax = 2
  StepsMax = 2
  SlotsMax = 3
  EventsMax = 4
  Requests <- DialogRequests
  Areas <- DialogAreas
  ChoicesMax = 2
  DialogsMax = 2
  FacadeGenMax = 5
  U16Max = 20
  PopupRowsMax = 11
  PopupColumnsMax = 16
  PanelColumnsMax = 14
  ChoiceRowsMax = 3
  WeightTotal = 16
  WindowsMax = 3
  DepthMax = 2
  IdMax = 5
  SidebarMin = 2
  SidebarMax = 4
  SidebarWidths = {2}
  ResizeSteps = {2}
  Ratio = 2
  Closings = {{}, {0}, {1}}
  HeightsOf = {0, 1, 3, 4}
  Margins = {0, 1}
  Steps = {1, 2, 4}
  DirNames = {"d", "e", "l"}
  HiddenNames = {}
  PendingMax = 2
  EntriesMax = 3
  TreeDepthMax = 3
  SearchReadsMax = 2
  CommandsMax = 3
  DisturbancesMax = 1
SPECIFICATION HostingSpec
INVARIANTS
  SequenceKeepsItsOwner
CHECK_DEADLOCK FALSE
