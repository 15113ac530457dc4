\* Three submissions by two people under two client IDs, two managers: what
\* survives every interleaving.
CONSTANTS
  Submissions = {v1, v2, v3}
  Clients = {c1, c2}
  Persons = {ann, bob}
  Captures <- MCCaptures
  Managers = {m1, m2}
  None = None
SYMMETRY Interchangeable
SPECIFICATION Spec
INVARIANTS TypeOK EnrolledIsVerified AuditExplainsVerdict TwiceEnrolledOverlapped SharedIdRaced
PROPERTIES MachineVerdictIsFinal
