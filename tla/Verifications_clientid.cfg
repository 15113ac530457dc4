\* Two submissions of one client ID whose checks both come first.
CONSTANTS
  Submissions = {v1, v2}
  Clients = {c1}
  Persons = {ann, bob}
  Captures <- MCCaptures
  Managers = {m1}
  None = None
SPECIFICATION Spec
INVARIANTS OnePersonPerClientId
