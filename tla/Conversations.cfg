SPECIFICATION Spec
CONSTANTS
  t1 = t1
  t2 = t2
  c1 = c1
  c2 = c2
  a1 = a1
  s1 = s1
  s2 = s2
  p1 = p1
  p2 = p2
  Threads = {t1, t2}
  Agents = {a1}
  Servers = {s1, s2}
  Configs = {p1, p2}
  Unset = Unset
  None = None
  MaxPosts = 3
  MaxSubs = 2
  MaxRestarts = 2
  MaxAttempts = 2
  Channels = {c1, c2}
  StreamOf <- MCStreamOf
  MaxSaid <- MCMaxSaid
  Bindable <- MCBindable
  Limit = 2
  MaxPages = 2
  MaxClicks <- MCMaxClicks
  MaxLost = 1
  MaxHuman = 1
INVARIANTS
  ShownIsWhole
  SentOnceAsConsented
  ReplyOfAStandingTurn
PROPERTIES
  CaughtUp
  EveryTurnEnds
CHECK_DEADLOCK FALSE
