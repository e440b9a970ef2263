\* Two requests on one skill.
SPECIFICATION Spec
CONSTANTS
  h1 = h1  h2 = h2  s1 = s1  s2 = s2  b1 = b1  b2 = b2  b3 = b3  daily = daily  often = often
  deploy = deploy  Deploy = Deploy  build = build  v = v
  Skill = {s1, s2}
  Body = {b1, b2}
  Cron = {daily, often}
  Event = {deploy, Deploy, build}
  Var = {v}
  Lower <- MCLower
  Decl <- MCDecl
  Vars <- MCVars
  Matches <- OtherDay
  Calls <- NoCalls
  Stores <- EmptyStore
  Handler = {h1, h2}
  Requests = {"status", "write", "approve", "delete"}
  MaxId = 4
  ClientIds = 0
  MaxTime = 0
  MaxFaults = 0
  MaxCrashes = 0
INVARIANTS StatusChangesLive
