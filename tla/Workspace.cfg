\* Two candidates, two loads and two mutations under way, a production build.
CONSTANTS
  Candidates = {ada, bob}
  Nobody = nobody
  New = new
  Archived = archived
  Statuses = {new, archived}
  l1 = l1
  l2 = l2
  c1 = c1
  c2 = c2
  LoadSlots = {l1, l2}
  CallSlots = {c1, c2}
  NoSlot = noslot
  MountLoads = 1
  MaxMoves = 3
  MaxSends = 2
SPECIFICATION Spec
SYMMETRY Symmetry
INVARIANTS TypeOK FieldsBelong NotesReachTheirOwner StatusTruthful BusyTruthful
PROPERTIES DraftKept
\* The user may stop.
CHECK_DEADLOCK FALSE
