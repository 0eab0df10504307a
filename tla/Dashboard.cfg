\* One filter besides no filter, one candidate, two page sizes and two pages, two loads of a kind and one mutation
\* at a time, two changes of the inputs.
CONSTANTS
  All = all
  status = status
  new = new
  Fields = {status}
  Status = status
  Values <- ValuesOf
  ByScore = average_score
  Columns = {average_score}
  DefaultSize = 20
  Sizes = {10, 20}
  Candidates = {ada}
  NoCandidate = none
  s1 = s1
  s2 = s2
  t1 = t1
  Slots <- SlotsOf
  NoSlot = noslot
  MountLoads = 1
  MaxPages = 2
  MaxWrites = 1
  MaxEdits = 2
  MaxCalls = 1
SPECIFICATION Spec
SYMMETRY SlotSymmetry
INVARIANTS TypeOK ListBelongs OwnWritesShown SpinnerTruthful BusyTruthful
