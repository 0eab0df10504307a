\* Two tabs of one browser, two users, three tokens, one reload, two submissions;
\* the browser may hold a session at the start.
CONSTANTS
  Users = {ann, ben}
  Nobody = nobody
  Tokens = {t1, t2, t3}
  NoToken = notoken
  Tabs = {left, right}
  MaxReloads = 1
  MaxSubmits = 2
SPECIFICATION Spec
SYMMETRY Symmetry
INVARIANTS TypeOK SignedInTruthful SignedOutTruthful LogoutRevokes WaitingEnds
\* The user may stop.
CHECK_DEADLOCK FALSE
