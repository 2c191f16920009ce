SPECIFICATION Spec
CONSTANTS
  c1 = c1
  c2 = c2
  s1 = s1
  k1 = k1
  t1 = t1
  t2 = t2
  Citation = {c1}
  Story = {s1}
  StoryOf <- OneStory
  FromCapture = {s1}
  Loop = Loop
  Checker = {k1}
  Thread = {t1}
  Hash = {"fresh", "text", "notice", "challenge"}
  Page <- OverlapPages
  Untrackable = {c1}
  ProxyEnabled = TRUE
  BatchSize = 1
  LiveMin = 1
  LiveMax = 1
  SoftWait = 1
  ErrorBase = 1
  ErrorMax = 1
  CountCap = 1
  MaxFaults = 0
  NoStory = NoStory
  Null = Null
INVARIANTS TypeOK HardHasEvidence LossFollowsLife BaselineIsSound
