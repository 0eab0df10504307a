\* Two webhooks, one event, one key, two loads and two mutations at a time, SQLite.
CONSTANTS
  Hooks = {h1, h2}
  NoHook = nohook
  Events = {e1}
  Ping = ping
  Requests = {p1, p2}
  Enforced = FALSE
  Keys = {k1}
  NoKey = nokey
  LoadSlots = {l1, l2}
  NoSlot = noslot
  MaxActs = 5
  MaxCalls = 2
SPECIFICATION SubscribedSpec
SYMMETRY Symmetry
INVARIANTS TypeOK LogTruthful OwnWritesShown LogsBelong SpinnerTruthful SavingTruthful
PROPERTIES NotifySpec
\* The administrator may stop.
CHECK_DEADLOCK FALSE
