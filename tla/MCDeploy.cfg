SPECIFICATION Spec
CONSTANTS
  p1 = p1
  p2 = p2
  Boot = Boot
  Nobody = Nobody
  NoVersion = "none"
  Unset = Unset
  Procs <- McProcs
  Scripts <- McScripts
  Providers = {"gcp", "aws", "azure", "local"}
  Versions = {"v1", "v2", "stable"}
  Supported = {"v1", "v2"}
  Sizes <- McSizes
  Allowed <- McAllowed
  here = here
  small = small
  large = large
  gpu = gpu
  there = there
  Places <- McPlaces
  Requests <- McRequests
  MaxCommands = 2
  MaxTotal = 3
  MaxEvents = 1
SYMMETRY Symmetry
INVARIANTS
  TokenIsKept
  DoneRunsWhatWasAsked
PROPERTIES
  ReviewedIsApplied
  EditsSurvive
CHECK_DEADLOCK FALSE
