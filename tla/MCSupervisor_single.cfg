\* One sweep at a time, with a restart.
SPECIFICATION FairSpec
CONSTANTS
  f1 = f1  f2 = f2  f3 = f3  g1 = g1  g2 = g2  c1 = c1  p1 = p1  p2 = p2  NoRun = NoRun
  Run = {f1, f2, g1}
  Kind <- MCKind
  Trace <- OwnTrace
  Sweep = {p1}
  Margin = 2
  WriteDelay = 1
  ScanTime = 1
  MaxTime = 3
  MaxCrashes = 1
INVARIANTS NothingSlips WindowOnly
PROPERTIES IsNotifier
