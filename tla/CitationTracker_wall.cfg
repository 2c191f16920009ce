SPECIFICATION FairSpec
CONSTANTS
  c1 = c1
  c2 = c2
  s1 = s1
  k1 = k1
  t1 = t1
  t2 = t2
  Citation = {c1}
  Story = {s1}
  StoryOf <- OneStory
  FromCapture = {}
  Loop = Loop
  Checker = {}
  Thread = {t1}
  Hash = {"fresh", "text", "notice", "challenge"}
  Page <- WallPages
  Untrackable = {}
  ProxyEnabled = FALSE
  BatchSize = 1
  LiveMin = 1
  LiveMax = 2
  SoftWait = 1
  ErrorBase = 1
  ErrorMax = 2
  CountCap = 2
  MaxFaults = 0
  NoStory = NoStory
  Null = Null
PROPERTIES WallLowersThreshold
