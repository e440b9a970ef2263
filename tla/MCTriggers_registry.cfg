\* The registry, its file and its poll loop over a SkillStore whose skills are
\* approved again and deleted.
SPECIFICATION Spec
CONSTANTS
  h1 = h1  h2 = h2  s1 = s1  s2 = s2  b1 = b1  b2 = b2  b3 = b3  daily = daily  often = often
  deploy = deploy  Deploy = Deploy  build = build  v = v
  Skill = {s1, s2}
  Body = {b1, b2, b3}
  Cron = {daily, often}
  Event = {deploy, Deploy, build}
  Var = {v}
  Lower <- MCLower
  Decl <- MCDecl
  Vars <- MCVars
  Matches <- SecondMinute
  Calls <- RegistryCalls
  Stores <- ApprovedStore
  Handler = {h1}
  Requests = {"register", "approve", "delete"}
  MaxId = 5
  ClientIds = 3
  MaxTime = 2
  MaxFaults = 1
  MaxCrashes = 1
INVARIANTS EventNameUnique RowIdentity StoredNamesUnique FileAgrees LoopAgrees FiresOncePerStint
