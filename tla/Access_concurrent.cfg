\* One account, two requests at a time, every role; and the keys of one MFI.
CONSTANTS
  Requests = {r1, r2}
  Pins = {p1}
  Secrets = {s1, s2}
  Links = {l1}
  LoginMaxAttempts = 3
  LockoutTime = 1
  SessionTime = 1
  ChallengeTime = 1
  ResetTime = 1
  LastTick = 2
  None = None
  Keys = {k1, k2}
  Callers = {c1, c2}
  NoKey = NoKey
SPECIFICATION Spec
SYMMETRY Interchangeable
INVARIANTS
  TypeOK
  GuessingIsBounded
  EnabledIsConfirmed
PROPERTIES
  LinkReusedOnlyByOverlap
  LockLiftedOnlyByOverlap
  RevokedStaysRevoked
