SPECIFICATION ControlSpec
CONSTANTS
  Parts = {"plan", "creation", "registry", "review", "topology", "preflight", "pinned", "native", "runtime", "readings", "edits", "redaction", "stream"}
  Networks <- Wires
  HostsOf <- HostIps
  Pool = {1, 2, 3}
  Protected = {3}
  Asks <- MCAsks
  Creates = {"x", "y", "z"}
  Template = TRUE
  Clients = {c1, c2}
  Bindings = {"a", "b"}
  Pins = {"s", "t"}
  Kinds = {"catalog", "bundles"}
  MaxHost = 2
  Targets <- MCTargets
  Plans <- MCPlans
  ReviewScopes = {"full", "configure", "teardown"}
  Features = {"resources", "disk_resize"}
  Documents <- MCDocuments
  Authored <- MCAuthored
  TeamCounts = {1, 2, 3}
  Worlds <- MCWorlds
  RuntimeRequests <- MCRequests
  MaxChanges = 2
  Editors = {e1, e2}
  MaxVersion = 2
  MaxTarget = 2
  MaxSize = 2
  Situations <- MCSituations
  Outages <- MCOutages
  Contexts <- MCContexts
  NameLists <- MCNameLists
  MaxTurns = 1
  Commits = {"pin", "good", "hosts", "gone", "link", "bundle"}
  Pinned = "pin"
  NoCommit = "none"
  Saved <- MCCommits
  MaxFaults = 2
  Trees <- MCTrees
  Registries <- MCRegistries
  Hosts <- MCHosts
  Parameters <- MCParameters
  MaxEdits = 1
  Clusters <- MCClusters
  GuestForms <- MCGuestForms
  VnetForms <- MCVnetForms
  MaxShifts = 2
  Credentials <- MCCredentials
  RawEvents <- MCRawEvents
  MaxText = 4
  Teams = {"t", "all"}
  ReplayCap = 2
  MaxLines = 3
  Ranges <- MCRanges
SYMMETRY MCSymmetry
CHECK_DEADLOCK FALSE
INVARIANTS
  PlanMeetsRequest
  
  BindingsHold
  
  
  
  
  NothingSecretIsShown
  ViewersMissNothing
PROPERTIES
  
  EditsAreReviewed
