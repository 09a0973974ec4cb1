SPECIFICATION Spec
CONSTANTS
  j1 = j1
  j2 = j2
  t1 = t1
  t2 = t2
  d1 = d1
  w = w
  r = r
  s1 = s1
  s2 = s2
  ann = ann
  bob = bob
  Calls = {c1, c2}
  Sessions = {s1, s2}
  UserOf <- MCUserOf
  Absent = Absent
  MaxTokens = 2
  MaxRestarts = 1
  None = None
  Jobs = {j1, j2}
  Teams = {t1, t2}
  Devices = {d1}
  JobTeam <- MCJobTeam
  DeviceTeam <- MCDeviceTeam
  Worker = w
  Runner = r
  Deployments <- MCDeployments
  Group <- MCGroup
  Concurrency <- MCConcurrency
  MaxClaims = 2
  MaxClients = 1
  MaxGrantChanges = 2
  MaxRun = 2
  Selections = {t1, t2}
  RunSelection <- MCRunSelection
  History <- MCHistory
  PageLimit = 1
  Slots = {1, 2}
  MaxChoices = 1
  MaxOpen = 2
  Parts = {"worker", "both", "pushes", "runner", "list", "run", "invocation", "tokens", "late", "dialog"}
INVARIANTS
  WorkersHear
  ToldOnceOfTheOutcome
  EventsAreFetched
  SessionsEndForAReason
  NobodyLeftWaiting
PROPERTIES
  NoLateAnswer
