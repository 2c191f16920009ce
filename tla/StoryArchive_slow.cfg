SPECIFICATION Spec
CONSTANTS
  s1 = s1
  u1 = u1
  u2 = u2
  t1 = t1
  t2 = t2
  Story = {s1}
  Voter = {u1, u2}
  c1 = c1
  Checker = {}
  Sweeper = Sweeper
  TxId = {t1, t2}
  NoTx = NoTx
  Pending = Pending
  NoStory = NoStory
  CaptureStory = {}
  BaseThreshold <- BaseTwo
  CleanupMaxVotes = 2
  PendingTimeout = 1
  UploadLimit = 2
  MaxAttempts = 2
  RetryBase = 1
  RetryMax = 2
  ScanLimit = 60
  RetryLimit = 5
  LookupReliable = TRUE
  MaxFaults = 1
SYMMETRY Symmetry
INVARIANTS SealedWithConsent VoteCountCatchesUp RecordedIsPaid PaidOnce
PROPERTIES ArchivedForEver KeepsPromise
