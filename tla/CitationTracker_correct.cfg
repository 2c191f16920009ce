SPECIFICATION FairSpec
CONSTANTS
  c1 = c1
  c2 = c2
  s1 = s1
  k1 = k1
  t1 = t1
  t2 = t2
  Citation = {c1, c2}
  Story = {s1}
  StoryOf <- OneStory
  FromCapture = {}
  Loop = Loop
  Checker = {}
  Thread = {t1, t2}
  Hash = {"fresh", "text", "notice", "challenge"}
  Page <- CorrectPages
  Untrackable = {c1}
  ProxyEnabled = TRUE
  BatchSize = 1
  LiveMin = 1
  LiveMax = 1
  SoftWait = 2
  ErrorBase = 1
  ErrorMax = 1
  CountCap = 1
  MaxFaults = 1
  NoStory = NoStory
  Null = Null
ACTION_CONSTRAINT LateWithoutFaults
PROPERTIES FalseAlarmIsCorrected GoneIsNoticed GoneIsTold
