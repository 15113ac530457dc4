------------------------ MODULE VerificationsProofs ------------------------
(***************************************************************************)
(* Proofs about Verifications for any number of submissions, clients,      *)
(* people and managers, and about the verdicts of the pipeline.            *)
(*                                                                         *)
(* That a face is enrolled exactly with the VERIFIED records is kept by    *)
(* decisions because of what their old copies cannot be: UnderReview says  *)
(* that a record on a desk was PENDING when it was opened and has neither  *)
(* been VERIFIED nor enrolled since.                                       *)
(***************************************************************************)
EXTENDS Verifications, TLAPS

Enrolment(row) == row.enrolled <=> row.status = "VERIFIED"

UnderReview(r) ==
  /\ rows[r.verification] # None
  /\ ~rows[r.verification].enrolled
  /\ r.copy.status = "PENDING"

IInv ==
  /\ TypeOK
  /\ EnrolledIsVerified
  /\ \A v \in Recorded : pc[v] = "over"
  /\ \A m \in Managers : desk[m] # None => UnderReview(desk[m])

-----------------------------------------------------------------------------
(* The pipeline.                                                           *)

\* A verdict is one of the machine's, with one of its reasons.
LEMMA VerdictType ==
  ASSUME NEW c \in Capture, NEW duplicate \in BOOLEAN
  PROVE  /\ RunVerification(c, duplicate).status \in MachineStatus
         /\ RunVerification(c, duplicate).reason \in MachineReason
         /\ RunVerification(c, duplicate).enrol \in BOOLEAN
         /\ RunVerification(c, duplicate).flagged \in BOOLEAN
<1>1. /\ VerdictOn(c, duplicate).status \in MachineStatus
      /\ VerdictOn(c, duplicate).reason \in MachineReason
  BY DEF VerdictOn, Verdict, Decide, MachineStatus, MachineReason, Capture,
         LivenessThreshold, FaceMatchThreshold, LivenessReviewThreshold,
         FaceMatchReviewThreshold
<1>2. QED
  BY <1>1 DEF RunVerification, Searched

\* VERIFIED is earned at every stage: the document was read and is valid, the
\* selfie is live and matches the portrait, and no other client has the face.
THEOREM VerifiedIsEarned ==
  ASSUME NEW c \in Capture, NEW duplicate \in BOOLEAN
  PROVE  RunVerification(c, duplicate).status = "VERIFIED" <=>
           Searched(c) /\ ~duplicate
BY DEF RunVerification, VerdictOn, Verdict, Decide, Searched, Capture,
       LivenessThreshold, FaceMatchThreshold

\* The partner API and the dashboard judge a capture alike, except that a client
\* whose face is already enrolled passes the one and is reviewed by the other;
\* and a partner who reads VERIFIED is shown every stage.
THEOREM PartnerJudgesAlike ==
  ASSUME NEW c \in Capture, NEW duplicate \in BOOLEAN
  PROVE  /\ PartnerVerify(c).status # RunVerification(c, duplicate).status <=>
              PartnerVerify(c).status = "VERIFIED" /\ duplicate
         /\ PartnerVerify(c).status = "VERIFIED" =>
              PartnerVerify(c).extracted_data /\ PartnerVerify(c).liveness
                /\ PartnerVerify(c).face_match
<1>1. PartnerVerify(c).status = "VERIFIED" <=> Searched(c)
  BY VerifiedIsEarned DEF PartnerVerify
<1>2. ~Searched(c) => VerdictOn(c, duplicate) = VerdictOn(c, FALSE)
  BY DEF VerdictOn
<1>3. QED
  BY <1>1, <1>2, VerifiedIsEarned DEF PartnerVerify, RunVerification, Searched

\* A better face match never makes the verdict worse, all else being equal.
\* (A better liveness score may: a near miss is reviewed before the faces are
\* compared, a pass with a clear mismatch is rejected.)
Rank(status) == CASE status = "REJECTED" -> 0
                  [] status = "PENDING" -> 1
                  [] status = "VERIFIED" -> 2

THEOREM BetterFaceIsNoWorse ==
  ASSUME NEW c \in Capture, NEW better \in 0..100, better >= c.face,
         NEW duplicate \in BOOLEAN
  PROVE  Rank(RunVerification(c, duplicate).status) <=
           Rank(RunVerification([c EXCEPT !.face = better], duplicate).status)
BY DEF RunVerification, VerdictOn, Verdict, Decide, Searched, Capture, Rank,
       LivenessThreshold, FaceMatchThreshold, LivenessReviewThreshold,
       FaceMatchReviewThreshold

-----------------------------------------------------------------------------
(* What a decision writes.                                                 *)

\* A flushed record is a record: whether a face is enrolled with it, and its
\* status if the session left it, are the stored ones.
LEMMA FlushRow ==
  ASSUME NEW stored \in Row, NEW loaded \in Row, NEW mine \in Row
  PROVE  /\ Flush(stored, loaded, mine) \in Row
         /\ mine.enrolled = loaded.enrolled =>
              Flush(stored, loaded, mine).enrolled = stored.enrolled
         /\ Flush(stored, loaded, mine).status =
              IF mine.status = loaded.status THEN stored.status ELSE mine.status
<1> DEFINE pick(c) == IF mine[c] = loaded[c] THEN stored[c] ELSE mine[c]
           columns == {"client", "person", "status", "reason", "enrolled", "flag"}
<1>1. DOMAIN stored = columns
  BY DEF Row
<1>2. Flush(stored, loaded, mine) = [c \in columns |-> pick(c)]
  BY <1>1 DEF Flush
<1>3. Flush(stored, loaded, mine) =
        [client |-> pick("client"), person |-> pick("person"),
         status |-> pick("status"), reason |-> pick("reason"),
         enrolled |-> pick("enrolled"), flag |-> pick("flag")]
  BY <1>2
<1>4. /\ pick("client") \in Clients /\ pick("person") \in Persons
      /\ pick("status") \in Status /\ pick("reason") \in Reason
      /\ pick("enrolled") \in BOOLEAN /\ pick("flag") \in Flag
  BY DEF Row
<1>5. QED
  BY <1>3, <1>4 DEF Row

\* A judged copy is a record that is not VERIFIED, with the same enrolment.
LEMMA JudgedRow ==
  ASSUME NEW copy \in Row, NEW action \in {"APPROVE", "REJECT"}
  PROVE  /\ Judge(copy, action) \in Row
         /\ Judge(copy, action).status \in {"APPROVED", "REJECTED"}
         /\ Judge(copy, action).enrolled = copy.enrolled
<1>1. Resolve(copy.flag, action) \in Flag
  BY DEF Resolve, Flag
<1>2. CASE action = "APPROVE"
  BY <1>1, <1>2 DEF Judge, Row, Status, MachineStatus
<1>3. CASE action = "REJECT"
  BY <1>1, <1>3 DEF Judge, Row, Status, MachineStatus, Reason
<1>4. QED
  BY <1>2, <1>3

-----------------------------------------------------------------------------
(* The inductive invariant.                                                *)

LEMMA InitIInv == Init => IInv
BY DEF Init, IInv, TypeOK, EnrolledIsVerified, Recorded

\* A submission adds one record, enrolled if and only if VERIFIED.
LEMMA SubmissionSteps ==
  ASSUME IInv, NEW v \in Submissions,
         CheckClientId(v) \/ RunStages(v) \/ Persist(v) \/ Abort(v)
  PROVE  IInv'
<1> USE DEF IInv, TypeOK
<1>1. CASE CheckClientId(v)
  <2>1. PICK client \in Clients, person \in Persons, capture \in Captures :
          ctx' = [ctx EXCEPT ![v] = [client |-> client, person |-> person,
                                     capture |-> capture, duplicate |-> FALSE]]
    BY <1>1 DEF CheckClientId
  <2>2. [client |-> client, person |-> person, capture |-> capture,
         duplicate |-> FALSE] \in Request
    BY DEF Request
  <2>3. TypeOK'
    BY <1>1, <2>1, <2>2 DEF CheckClientId, Recorded
  <2>4. QED
    BY <1>1, <2>3 DEF CheckClientId, EnrolledIsVerified, Recorded, UnderReview
<1>2. CASE RunStages(v)
  <2>1. ctx[v] \in Request /\ FoundUnderOtherId(ctx[v]) \in BOOLEAN
    BY <1>2 DEF RunStages, FoundUnderOtherId
  <2>2. [ctx[v] EXCEPT !.duplicate = FoundUnderOtherId(ctx[v])] \in Request
    BY <2>1 DEF Request
  <2>3. ctx' = [ctx EXCEPT ![v] =
                  [ctx[v] EXCEPT !.duplicate = FoundUnderOtherId(ctx[v])]]
    BY <1>2 DEF RunStages
  <2>4. TypeOK'
    BY <1>2, <2>2, <2>3 DEF RunStages, Recorded
  <2>5. QED
    BY <1>2, <2>4 DEF RunStages, EnrolledIsVerified, Recorded, UnderReview
<1>3. CASE Persist(v)
  <2> DEFINE c == ctx[v]
             output == RunVerification(c.capture, c.duplicate)
             row == [client |-> c.client, person |-> c.person,
                     status |-> output.status, reason |-> output.reason,
                     enrolled |-> output.enrol,
                     flag |-> IF output.flagged THEN "PENDING" ELSE "none"]
  <2>1. c \in Request
    BY <1>3 DEF Persist
  <2>2. c.capture \in Capture /\ c.duplicate \in BOOLEAN
    BY <2>1, CapturesAssumption DEF Request
  <2>3. row \in Row
    BY <2>1, <2>2, VerdictType DEF Row, Request, Status, Reason, Flag
  <2>4. Enrolment(row)
    BY DEF Enrolment, RunVerification
  <2>5. rows' = [rows EXCEPT ![v] = row]
    BY <1>3 DEF Persist
  <2>6. TypeOK'
    BY <1>3, <2>3, <2>5 DEF Persist, history
  <2>7. EnrolledIsVerified'
    BY <2>4, <2>5 DEF EnrolledIsVerified, Recorded, Enrolment
  <2>8. ASSUME NEW m \in Managers, desk'[m] # None
        PROVE  UnderReview(desk[m])'
    <3>1. desk'[m] = desk[m] /\ UnderReview(desk[m]) /\ pc[v] = "decided"
      BY <1>3, <2>8 DEF Persist
    <3>2. desk[m].verification # v
      BY <3>1 DEF UnderReview, Recorded
    <3>3. QED
      BY <2>5, <3>1, <3>2 DEF UnderReview
  <2>9. \A u \in Recorded' : pc'[u] = "over"
    BY <1>3, <2>5 DEF Persist, Recorded
  <2>10. QED
    BY <2>6, <2>7, <2>8, <2>9
<1>4. CASE Abort(v)
  BY <1>4 DEF Abort, history, EnrolledIsVerified, Recorded, UnderReview
<1>5. QED
  BY <1>1, <1>2, <1>3, <1>4

\* A desk takes PENDING records only, and its decision makes none VERIFIED.
LEMMA ReviewSteps ==
  ASSUME IInv, NEW m \in Managers,
         OpenReview(m) \/ LoadFlags(m) \/ DecideReview(m)
  PROVE  IInv'
<1> USE DEF IInv, TypeOK
<1>1. CASE OpenReview(m)
  <2>1. PICK v \in Recorded :
          /\ rows[v].status = "PENDING"
          /\ desk' = [desk EXCEPT ![m] = [verification |-> v, copy |-> rows[v]]]
    BY <1>1 DEF OpenReview
  <2>2. v \in Submissions /\ rows[v] \in Row
    BY DEF Recorded
  <2>3. ~rows[v].enrolled
    BY <2>1, <2>2 DEF EnrolledIsVerified
  <2>4. TypeOK'
    BY <1>1, <2>1, <2>2 DEF OpenReview, history, Review
  <2>5. UnderReview(desk'[m])
    BY <2>1, <2>2, <2>3 DEF UnderReview, Recorded
  <2>6. QED
    BY <1>1, <2>1, <2>4, <2>5
       DEF OpenReview, history, EnrolledIsVerified, Recorded, UnderReview
<1>2. CASE LoadFlags(m)
  <2> DEFINE r == desk[m]
             newer == [r EXCEPT !.copy = [r.copy EXCEPT !.flag = rows[r.verification].flag]]
  <2>1. /\ r \in Review /\ UnderReview(r)
        /\ desk' = [desk EXCEPT ![m] = newer]
    BY <1>2 DEF LoadFlags
  <2>2. rows[r.verification] \in Row
    BY <2>1 DEF UnderReview, Review
  <2>3. newer \in Review /\ UnderReview(newer)
    BY <2>1, <2>2 DEF Review, Row, UnderReview
  <2>4. TypeOK'
    BY <1>2, <2>1, <2>3 DEF LoadFlags, history
  <2>5. QED
    BY <1>2, <2>1, <2>3, <2>4
       DEF LoadFlags, history, EnrolledIsVerified, Recorded, UnderReview
<1>3. CASE DecideReview(m)
  <2> DEFINE v == desk[m].verification
             copy == desk[m].copy
  <2>1. PICK action \in {"APPROVE", "REJECT"} :
          /\ rows' = [rows EXCEPT ![v] = Flush(rows[v], copy, Judge(copy, action))]
          /\ reviews' = [reviews EXCEPT ![v] = CountReview(reviews[v], action)]
    BY <1>3 DEF DecideReview
  <2>2. /\ v \in Submissions /\ copy \in Row /\ rows[v] \in Row
        /\ ~rows[v].enrolled /\ copy.status = "PENDING"
    BY <1>3 DEF DecideReview, UnderReview, Review
  <2> DEFINE row == Flush(rows[v], copy, Judge(copy, action))
  <2>3. /\ row \in Row /\ row.enrolled = rows[v].enrolled
        /\ row.status \in {"APPROVED", "REJECTED"}
    BY <2>2, JudgedRow, FlushRow
  <2>4. rows' = [rows EXCEPT ![v] = row] /\ rows' \in [Submissions -> Row \cup {None}]
    BY <2>1, <2>2, <2>3
  <2> HIDE DEF row
  <2>5. CountReview(reviews[v], action) \in [approved: Nat, rejected: Nat]
    BY <2>2 DEF CountReview
  <2>6. desk' = [desk EXCEPT ![m] = None] /\ UNCHANGED <<pc, ctx, history>>
    BY <1>3 DEF DecideReview
  <2>7. TypeOK'
    BY <2>1, <2>2, <2>4, <2>5, <2>6 DEF history
  <2>8. EnrolledIsVerified'
    BY <2>2, <2>3, <2>4, NoneAssumption DEF EnrolledIsVerified, Recorded
  <2>9. \A u \in Recorded' : pc'[u] = "over"
    BY <2>2, <2>4, <2>6, NoneAssumption DEF Recorded
  <2>10. ASSUME NEW q \in Managers, desk'[q] # None
         PROVE  UnderReview(desk[q])'
    BY <2>2, <2>3, <2>4, <2>6, <2>10, NoneAssumption DEF UnderReview
  <2>11. QED
    BY <2>7, <2>8, <2>9, <2>10
<1>4. QED
  BY <1>1, <1>2, <1>3

\* Every step keeps the inductive invariant.
LEMMA NextIInv == IInv /\ [Next]_vars => IInv'
<1> SUFFICES ASSUME IInv, [Next]_vars PROVE IInv'
  OBVIOUS
<1>1. CASE WorkerRestart
  BY <1>1 DEF WorkerRestart, history, IInv, TypeOK, EnrolledIsVerified, Recorded
<1>2. CASE UNCHANGED vars
  BY <1>2 DEF vars, IInv, TypeOK, EnrolledIsVerified, Recorded, UnderReview
<1>3. QED
  BY <1>1, <1>2, SubmissionSteps, ReviewSteps DEF Next

-----------------------------------------------------------------------------
(* The theorems.                                                           *)

LEMMA Invariance == Spec => []IInv
<1>1. QED
  BY InitIInv, NextIInv, PTL DEF Spec

\* Every variable keeps its type under overlapping submissions and decisions.
THEOREM TypeCorrect == Spec => []TypeOK
<1>1. IInv => TypeOK
  BY DEF IInv
<1>2. QED
  BY Invariance, <1>1, PTL

\* The duplicate index holds the faces of the VERIFIED records and no others,
\* however many decisions race on a record.
THEOREM IndexHoldsVerified == Spec => []EnrolledIsVerified
<1>1. IInv => EnrolledIsVerified
  BY DEF IInv
<1>2. QED
  BY Invariance, <1>1, PTL

-----------------------------------------------------------------------------
(* How a record moves.  Persisting makes one; only decisions change it     *)
(* then, and never whose it is or whether its face is enrolled.            *)

\* What a record is about.
SameOwner(a, b) ==
  a.client = b.client /\ a.person = b.person /\ a.enrolled = b.enrolled

\* A decision moves one record to its verdict and adds its audit entry.
LEMMA DecisionWrites ==
  ASSUME IInv, NEW m \in Managers, DecideReview(m)
  PROVE  \E v \in Submissions, action \in {"APPROVE", "REJECT"} :
           /\ v = desk[m].verification
           /\ rows[v] \in Row /\ rows'[v] \in Row
           /\ rows' = [rows EXCEPT ![v] = rows'[v]]
           /\ SameOwner(rows'[v], rows[v])
           /\ rows'[v].status = IF action = "APPROVE" THEN "APPROVED" ELSE "REJECTED"
           /\ action = "APPROVE" => rows'[v].reason = rows[v].reason
           /\ reviews' = [reviews EXCEPT ![v] = CountReview(reviews[v], action)]
<1> DEFINE v == desk[m].verification
           copy == desk[m].copy
<1>1. PICK action \in {"APPROVE", "REJECT"} :
        /\ rows' = [rows EXCEPT ![v] = Flush(rows[v], copy, Judge(copy, action))]
        /\ reviews' = [reviews EXCEPT ![v] = CountReview(reviews[v], action)]
  BY DEF DecideReview
<1>2. /\ v \in Submissions /\ copy \in Row /\ rows[v] \in Row
      /\ copy.status = "PENDING"
  BY DEF DecideReview, IInv, TypeOK, UnderReview, Review
<1>3. PICK mine : mine = Judge(copy, action)
  OBVIOUS
<1>4. /\ mine \in Row /\ mine.client = copy.client /\ mine.person = copy.person
      /\ mine.enrolled = copy.enrolled
      /\ mine.status = IF action = "APPROVE" THEN "APPROVED" ELSE "REJECTED"
      /\ action = "APPROVE" => mine.reason = copy.reason
  <2>1. mine \in Row
    BY <1>2, <1>3, JudgedRow
  <2>2. QED
    BY <1>2, <1>3, <2>1 DEF Judge, Row
<1>5. rows'[v] = Flush(rows[v], copy, mine)
  BY <1>1, <1>2, <1>3 DEF IInv, TypeOK
<1>6. /\ rows'[v] \in Row
      /\ rows'[v].status = IF action = "APPROVE" THEN "APPROVED" ELSE "REJECTED"
  BY <1>2, <1>4, <1>5, FlushRow
<1>7. \A c \in {"client", "person", "enrolled", "reason"} :
        mine[c] = copy[c] => rows'[v][c] = rows[v][c]
  BY <1>2, <1>5 DEF Flush, Row
<1>8. /\ SameOwner(rows'[v], rows[v])
      /\ action = "APPROVE" => rows'[v].reason = rows[v].reason
  BY <1>4, <1>7 DEF SameOwner
<1>9. rows' = [rows EXCEPT ![v] = rows'[v]]
  BY <1>1, <1>2 DEF IInv, TypeOK
<1>10. QED
  BY <1>1, <1>2, <1>6, <1>8, <1>9

\* Persisting adds a record of the machine's making to what it was asked.
LEMMA PersistWrites ==
  ASSUME IInv, NEW v \in Submissions, Persist(v)
  PROVE  /\ rows[v] = None /\ rows'[v] \in Row
         /\ rows' = [rows EXCEPT ![v] = rows'[v]]
         /\ ctx[v] \in Request
         /\ rows'[v].client = ctx[v].client /\ rows'[v].person = ctx[v].person
         /\ rows'[v].status \in MachineStatus /\ rows'[v].reason \in MachineReason
         /\ rows'[v].flag # "none" => rows'[v].status # "VERIFIED"
         /\ ctx[v].duplicate => ~rows'[v].enrolled
<1> DEFINE c == ctx[v]
           output == RunVerification(c.capture, c.duplicate)
<1>1. rows[v] = None
  BY DEF Persist, IInv, Recorded
<1>2. c \in Request /\ c.capture \in Capture /\ c.duplicate \in BOOLEAN
  BY CapturesAssumption DEF Persist, IInv, TypeOK, Request
<1>3. /\ output.status \in MachineStatus /\ output.reason \in MachineReason
      /\ output.enrol \in BOOLEAN /\ output.flagged \in BOOLEAN
  BY <1>2, VerdictType
<1>4. /\ output.flagged => output.status # "VERIFIED"
      /\ c.duplicate => ~output.enrol
  <2>1. output.flagged = (Searched(c.capture) /\ c.duplicate)
    BY DEF RunVerification
  <2>2. output.enrol <=> output.status = "VERIFIED"
    BY DEF RunVerification
  <2>3. QED
    BY <1>2, <2>1, <2>2, VerifiedIsEarned
<1>5. rows'[v] = [client |-> c.client, person |-> c.person,
                  status |-> output.status, reason |-> output.reason,
                  enrolled |-> output.enrol,
                  flag |-> IF output.flagged THEN "PENDING" ELSE "none"]
  BY DEF Persist, IInv, TypeOK
<1>6. rows' = [rows EXCEPT ![v] = rows'[v]]
  BY <1>5 DEF Persist
<1> HIDE DEF c, output
<1>7. rows'[v] \in Row
  BY <1>2, <1>3, <1>5 DEF Row, Request, Status, Reason, Flag
<1>8. QED
  BY <1>1, <1>2, <1>3, <1>4, <1>5, <1>6, <1>7 DEF c

\* The other steps leave records and audit entries alone.
LEMMA RecordSteps ==
  ASSUME [Next]_vars
  PROVE  \/ \E v \in Submissions : Persist(v)
         \/ \E m \in Managers : DecideReview(m)
         \/ UNCHANGED <<rows, reviews>>
BY DEF Next, CheckClientId, RunStages, Abort, OpenReview, LoadFlags,
       WorkerRestart, vars

\* A record stays, with its owner.
LEMMA RecordsStay ==
  ASSUME IInv, [Next]_vars
  PROVE  \A u \in Recorded : u \in Recorded' /\ SameOwner(rows'[u], rows[u])
<1>1. ASSUME NEW v \in Submissions, Persist(v)
      PROVE  \A u \in Recorded : u \in Recorded' /\ SameOwner(rows'[u], rows[u])
  BY <1>1, PersistWrites DEF Recorded, SameOwner, IInv, TypeOK
<1>2. ASSUME NEW m \in Managers, DecideReview(m)
      PROVE  \A u \in Recorded : u \in Recorded' /\ SameOwner(rows'[u], rows[u])
  <2>1. PICK v \in Submissions : /\ rows' = [rows EXCEPT ![v] = rows'[v]]
                                 /\ rows'[v] \in Row
                                 /\ SameOwner(rows'[v], rows[v])
    BY <1>2, DecisionWrites
  <2>2. \A u \in Submissions : u # v => rows'[u] = rows[u]
    BY <2>1 DEF IInv, TypeOK
  <2>3. \A u \in Submissions : SameOwner(rows[u], rows[u])
    BY DEF SameOwner
  <2>4. QED
    BY <2>1, <2>2, <2>3, NoneAssumption DEF Recorded
<1>3. CASE UNCHANGED rows
  BY <1>3 DEF Recorded, SameOwner
<1>4. QED
  BY <1>1, <1>2, <1>3, RecordSteps

-----------------------------------------------------------------------------
(* Verdicts and the audit log.  A record on a desk was PENDING when it was *)
(* opened; if it is not any more, another decision came first and is in    *)
(* the log.                                                                *)

Unreviewed == [approved |-> 0, rejected |-> 0]

Decided(v) ==
  \/ rows[v].status = "PENDING"
  \/ rows[v].status = "REJECTED" /\ reviews[v].rejected > 0
  \/ rows[v].status = "APPROVED" /\ reviews[v].approved > 0

ReviewInv ==
  /\ AuditExplainsVerdict
  /\ \A v \in Submissions : rows[v] = None => reviews[v] = Unreviewed
  /\ \A m \in Managers : desk[m] # None => Decided(desk[m].verification)

\* What a review has open after a step was open before, or is PENDING.
LEMMA DesksOpen ==
  ASSUME IInv, [Next]_vars, NEW m \in Managers, desk'[m] # None
  PROVE  \/ /\ desk[m] # None
            /\ desk'[m].verification = desk[m].verification
         \/ /\ desk'[m].verification \in Recorded /\ UNCHANGED <<rows, reviews>>
            /\ rows[desk'[m].verification].status = "PENDING"
<1>1. desk \in [Managers -> Review \cup {None}]
  BY DEF IInv, TypeOK
<1>2. ASSUME NEW q \in Managers, LoadFlags(q)
      PROVE  desk[m] # None /\ desk'[m].verification = desk[m].verification
  <2>1. /\ desk[q] \in Review /\ desk[q].copy \in Row
        /\ desk' = [desk EXCEPT ![q] = [desk[q] EXCEPT !.copy =
              [desk[q].copy EXCEPT !.flag = rows[desk[q].verification].flag]]]
    BY <1>1, <1>2 DEF LoadFlags, Review
  <2>2. QED
    BY <1>1, <2>1, NoneAssumption DEF Review
<1>3. ASSUME NEW q \in Managers, OpenReview(q)
      PROVE  \/ /\ desk[m] # None
                /\ desk'[m].verification = desk[m].verification
             \/ /\ desk'[m].verification \in Recorded /\ UNCHANGED <<rows, reviews>>
                /\ rows[desk'[m].verification].status = "PENDING"
  BY <1>1, <1>3 DEF OpenReview
<1>4. ASSUME NEW q \in Managers, DecideReview(q)
      PROVE  desk[m] # None /\ desk'[m].verification = desk[m].verification
  BY <1>1, <1>4 DEF DecideReview
<1>5. CASE UNCHANGED desk
  BY <1>5
<1>6. CASE WorkerRestart
  BY <1>6 DEF WorkerRestart
<1>7. QED
  BY <1>2, <1>3, <1>4, <1>5, <1>6
     DEF Next, CheckClientId, RunStages, Persist, Abort, vars

LEMMA ReviewInvStep ==
  ASSUME IInv, ReviewInv, [Next]_vars
  PROVE  ReviewInv'
<1>1. /\ rows \in [Submissions -> Row \cup {None}]
      /\ reviews \in [Submissions -> [approved: Nat, rejected: Nat]]
      /\ \A m \in Managers : desk[m] # None => desk[m].verification \in Recorded
  BY DEF IInv, TypeOK, UnderReview, Recorded, Review
<1>2. ASSUME NEW v \in Submissions, Persist(v)
      PROVE  /\ AuditExplainsVerdict'
             /\ \A u \in Submissions : rows'[u] = None => reviews'[u] = Unreviewed
             /\ \A u \in Recorded : Decided(u) => Decided(u)'
  <2>1. UNCHANGED reviews /\ reviews[v] = Unreviewed
    BY <1>2, PersistWrites DEF Persist, ReviewInv
  <2>2. \A u \in Submissions : u # v => rows'[u] = rows[u]
    BY <1>1, <1>2, PersistWrites
  <2>3. /\ rows'[v].status \in MachineStatus /\ rows'[v].reason \in MachineReason
        /\ rows'[v].flag # "none" => rows'[v].status # "VERIFIED"
        /\ rows[v] = None /\ rows'[v] # None
    BY <1>2, PersistWrites, NoneAssumption
  <2>4. AuditExplainsVerdict'
    BY <2>1, <2>2, <2>3
       DEF ReviewInv, AuditExplainsVerdict, Recorded, MachineStatus,
           MachineReason, Unreviewed
  <2>5. QED
    BY <2>1, <2>2, <2>3, <2>4 DEF ReviewInv, Recorded, Decided
<1>3. ASSUME NEW q \in Managers, DecideReview(q)
      PROVE  /\ AuditExplainsVerdict'
             /\ \A u \in Submissions : rows'[u] = None => reviews'[u] = Unreviewed
             /\ \A u \in Recorded : Decided(u) => Decided(u)'
  <2>1. PICK v \in Submissions, action \in {"APPROVE", "REJECT"} :
           /\ rows[v] \in Row /\ rows'[v] \in Row
           /\ rows' = [rows EXCEPT ![v] = rows'[v]]
           /\ rows'[v].status = IF action = "APPROVE" THEN "APPROVED" ELSE "REJECTED"
           /\ action = "APPROVE" => rows'[v].reason = rows[v].reason
           /\ reviews' = [reviews EXCEPT ![v] = CountReview(reviews[v], action)]
    BY <1>3, DecisionWrites
  <2>2. \A u \in Submissions :
          u # v => rows'[u] = rows[u] /\ reviews'[u] = reviews[u]
    BY <1>1, <2>1
  <2>3. /\ reviews[v].approved \in Nat /\ reviews[v].rejected \in Nat
        /\ reviews'[v] = CountReview(reviews[v], action)
    BY <1>1, <2>1
  <2>4. /\ action = "APPROVE" => /\ reviews'[v].approved = reviews[v].approved + 1
                                 /\ reviews'[v].rejected = reviews[v].rejected
        /\ action = "REJECT" => reviews'[v].rejected = reviews[v].rejected + 1
    BY <1>1, <2>3 DEF CountReview
  <2>5. v \in Recorded /\ rows'[v] # None
    BY <2>1, NoneAssumption DEF Recorded
  <2>6. /\ rows'[v].status = "APPROVED" => reviews'[v].approved > 0
        /\ rows'[v].reason = "MANUAL_REJECT" => reviews'[v].rejected > 0
        /\ rows'[v].status \in {"APPROVED", "REJECTED"}
        /\ rows'[v].status = "REJECTED" => reviews'[v].rejected > 0
    BY <2>1, <2>3, <2>4, <2>5 DEF ReviewInv, AuditExplainsVerdict
  <2>7. AuditExplainsVerdict'
    BY <2>2, <2>5, <2>6 DEF ReviewInv, AuditExplainsVerdict, Recorded
  <2>8. QED
    BY <2>2, <2>5, <2>6, <2>7 DEF ReviewInv, Recorded, Decided
<1>4. ASSUME UNCHANGED <<rows, reviews>>
      PROVE  /\ AuditExplainsVerdict'
             /\ \A u \in Submissions : rows'[u] = None => reviews'[u] = Unreviewed
             /\ \A u \in Recorded : Decided(u) => Decided(u)'
  BY <1>4 DEF ReviewInv, AuditExplainsVerdict, Recorded, Decided
<1>5. /\ AuditExplainsVerdict'
      /\ \A u \in Submissions : rows'[u] = None => reviews'[u] = Unreviewed
      /\ \A u \in Recorded : Decided(u) => Decided(u)'
  BY <1>2, <1>3, <1>4, RecordSteps DEF ReviewInv
<1>6. ASSUME NEW m \in Managers, desk'[m] # None
      PROVE  Decided(desk[m].verification)'
  BY <1>1, <1>5, <1>6, DesksOpen DEF ReviewInv, Decided
<1>7. QED
  BY <1>5, <1>6 DEF ReviewInv

LEMMA ReviewInvariance == Spec => []ReviewInv
<1>1. Init => ReviewInv
  BY DEF Init, ReviewInv, AuditExplainsVerdict, Recorded, Unreviewed
<1>2. IInv /\ ReviewInv /\ [Next]_vars => ReviewInv'
  BY ReviewInvStep
<1>3. QED
  BY <1>1, <1>2, Invariance, PTL DEF Spec

\* Every human verdict is in the audit log under its own kind, although two
\* managers may decide one record and the later write the earlier away.
THEOREM AuditHasEveryVerdict == Spec => []AuditExplainsVerdict
<1>1. ReviewInv => AuditExplainsVerdict
  BY DEF ReviewInv
<1>2. QED
  BY <1>1, ReviewInvariance, PTL

\* A record the pipeline settled by itself is never changed.
THEOREM MachineVerdictStands == Spec => MachineVerdictIsFinal
<1> DEFINE Final == \A v \in Recorded :
             rows[v].status # "PENDING" /\ reviews[v] = [approved |-> 0, rejected |-> 0]
               => rows'[v] = rows[v]
<1>1. IInv /\ ReviewInv /\ [Next]_vars => [Final]_vars
  <2> SUFFICES ASSUME IInv, ReviewInv, [Next]_vars, NEW v \in Recorded,
                      rows[v].status # "PENDING", reviews[v] = Unreviewed
               PROVE  rows'[v] = rows[v]
    BY DEF Unreviewed
  <2>1. v \in Submissions /\ rows \in [Submissions -> Row \cup {None}]
    BY DEF Recorded, IInv, TypeOK
  <2>2. ASSUME NEW u \in Submissions, Persist(u) PROVE rows'[v] = rows[v]
    BY <2>1, <2>2, PersistWrites DEF Recorded
  <2>3. ASSUME NEW m \in Managers, DecideReview(m) PROVE rows'[v] = rows[v]
    <3>1. desk[m].verification # v
      BY <2>3 DEF DecideReview, ReviewInv, Decided, Unreviewed
    <3>2. QED
      BY <2>1, <2>3, <3>1, DecisionWrites
  <2>4. QED
    BY <2>2, <2>3, RecordSteps
<1>2. QED
  BY <1>1, Invariance, ReviewInvariance, PTL DEF Spec, MachineVerdictIsFinal

-----------------------------------------------------------------------------
(* One face under two client IDs.  A search finds every enrolled face that *)
(* was recorded before it; whose a face is and whether it is enrolled does *)
(* not change after that.                                                  *)

SameFace(a, b) == a.person = b.person /\ a.client # b.client

FaceInv ==
  /\ \A v \in Submissions : indexed[v] \subseteq Recorded
  /\ \A v \in Submissions : pc[v] = "decided" =>
       \A u \in indexed[v] :
         rows[u].enrolled /\ SameFace(rows[u], ctx[v]) => ctx[v].duplicate
  /\ \A v \in Recorded : rows[v].enrolled =>
       \A u \in indexed[v] : ~(rows[u].enrolled /\ SameFace(rows[u], rows[v]))

\* A step that leaves the searches alone and decides no submission anew.
LEMMA NoSearchStep ==
  ASSUME IInv, FaceInv, [Next]_vars, UNCHANGED indexed,
         \A v \in Submissions : pc'[v] = "decided" =>
           pc[v] = "decided" /\ ctx'[v] = ctx[v],
         \A v \in Recorded' : v \in Recorded \/
           /\ pc[v] = "decided"
           /\ rows'[v].client = ctx[v].client /\ rows'[v].person = ctx[v].person
           /\ ctx[v].duplicate => ~rows'[v].enrolled
  PROVE  FaceInv'
<1>1. \A u \in Recorded : /\ u \in Submissions /\ u \in Recorded'
                          /\ rows'[u].client = rows[u].client
                          /\ rows'[u].person = rows[u].person
                          /\ rows'[u].enrolled = rows[u].enrolled
  BY RecordsStay DEF SameOwner, Recorded
<1>2. \A v \in Submissions : indexed'[v] \subseteq Recorded'
  BY <1>1 DEF FaceInv
<1>3. ASSUME NEW v \in Submissions, pc'[v] = "decided", NEW u \in indexed'[v],
             rows'[u].enrolled, SameFace(rows'[u], ctx'[v])
      PROVE  ctx'[v].duplicate
  <2>1. u \in Recorded /\ rows[u].enrolled /\ SameFace(rows[u], ctx[v])
    BY <1>1, <1>3 DEF FaceInv, SameFace
  <2>2. QED
    BY <1>3, <2>1 DEF FaceInv
<1>4. ASSUME NEW v \in Recorded', rows'[v].enrolled, NEW u \in indexed'[v],
             rows'[u].enrolled, SameFace(rows'[u], rows'[v])
      PROVE  FALSE
  <2>1. v \in Submissions /\ u \in Recorded /\ rows[u].enrolled
    BY <1>1, <1>4 DEF FaceInv, Recorded
  <2>2. CASE v \in Recorded
    <3>1. rows[v].enrolled /\ SameFace(rows[u], rows[v])
      BY <1>1, <1>4, <2>1, <2>2 DEF SameFace
    <3>2. QED
      BY <1>4, <2>1, <2>2, <3>1 DEF FaceInv
  <2>3. CASE v \notin Recorded
    <3>1. pc[v] = "decided" /\ SameFace(rows[u], ctx[v]) /\ ~ctx[v].duplicate
      BY <1>1, <1>4, <2>1, <2>3 DEF SameFace
    <3>2. QED
      BY <1>4, <2>1, <3>1 DEF FaceInv
  <2>4. QED
    BY <2>2, <2>3
<1>5. QED
  BY <1>2, <1>3, <1>4 DEF FaceInv

LEMMA FaceInvStep ==
  ASSUME IInv, FaceInv, [Next]_vars
  PROVE  FaceInv'
<1>1. /\ pc \in [Submissions -> {"new", "checked", "decided", "over"}]
      /\ ctx \in [Submissions -> Request \cup {None}]
      /\ indexed \in [Submissions -> SUBSET Submissions]
      /\ \A v \in Recorded : pc[v] = "over"
  BY DEF IInv, TypeOK
<1>2. ASSUME NEW v \in Submissions, RunStages(v) PROVE FaceInv'
  <2>1. /\ ctx[v] \in Request /\ rows' = rows
        /\ ctx' = [ctx EXCEPT ![v] =
                     [ctx[v] EXCEPT !.duplicate = FoundUnderOtherId(ctx[v])]]
        /\ pc' = [pc EXCEPT ![v] = "decided"]
        /\ indexed' = [indexed EXCEPT ![v] = Recorded]
        /\ Recorded' = Recorded
    BY <1>2 DEF RunStages, IInv, TypeOK, Recorded
  <2>2. /\ ctx'[v].client = ctx[v].client /\ ctx'[v].person = ctx[v].person
        /\ ctx'[v].duplicate = FoundUnderOtherId(ctx[v])
    BY <1>1, <2>1 DEF Request
  <2>3. \A u \in Recorded : rows[u].enrolled /\ SameFace(rows[u], ctx'[v])
                              => ctx'[v].duplicate
    BY <2>2 DEF FoundUnderOtherId, SameFace
  <2>4. v \notin Recorded
    BY <1>1, <1>2 DEF RunStages
  <2>5. \A w \in Submissions : w # v =>
          indexed'[w] = indexed[w] /\ ctx'[w] = ctx[w] /\ pc'[w] = pc[w]
    BY <1>1, <2>1
  <2>6. indexed'[v] = Recorded
    BY <1>1, <2>1
  <2>7. \A w \in Submissions : indexed'[w] \subseteq Recorded'
    BY <2>1, <2>5, <2>6 DEF FaceInv
  <2>8. \A w \in Submissions : pc'[w] = "decided" =>
          \A u \in indexed'[w] :
            rows'[u].enrolled /\ SameFace(rows'[u], ctx'[w]) => ctx'[w].duplicate
    BY <2>1, <2>3, <2>5, <2>6 DEF FaceInv
  <2>9. \A w \in Recorded' : rows'[w].enrolled =>
          \A u \in indexed'[w] :
            ~(rows'[u].enrolled /\ SameFace(rows'[u], rows'[w]))
    BY <2>1, <2>4, <2>5 DEF FaceInv, Recorded
  <2>10. QED
    BY <2>7, <2>8, <2>9 DEF FaceInv
<1>3. ASSUME NEW v \in Submissions, Persist(v) PROVE FaceInv'
  <2>1. /\ pc' = [pc EXCEPT ![v] = "over"] /\ ctx' = [ctx EXCEPT ![v] = None]
        /\ UNCHANGED indexed /\ pc[v] = "decided"
    BY <1>3 DEF Persist, history
  <2>2. \A w \in Recorded' : w = v \/ w \in Recorded
    BY <1>3, PersistWrites DEF Recorded, IInv, TypeOK
  <2>3. QED
    BY <1>1, <1>3, <2>1, <2>2, PersistWrites, NoSearchStep
<1>4. ASSUME NEW v \in Submissions, CheckClientId(v) \/ Abort(v) PROVE FaceInv'
  <2>1. /\ pc'[v] # "decided" /\ UNCHANGED <<rows, indexed>> /\ Recorded' = Recorded
        /\ \A w \in Submissions : w # v => pc'[w] = pc[w] /\ ctx'[w] = ctx[w]
    BY <1>1, <1>4 DEF CheckClientId, Abort, history, Recorded
  <2>2. QED
    BY <2>1, NoSearchStep
<1>5. ASSUME NEW m \in Managers, DecideReview(m) PROVE FaceInv'
  <2>1. UNCHANGED <<pc, ctx, indexed>>
    BY <1>5 DEF DecideReview, history
  <2>2. Recorded' \subseteq Recorded
    BY <1>5, DecisionWrites, NoneAssumption DEF Recorded, IInv, TypeOK
  <2>3. QED
    BY <2>1, <2>2, NoSearchStep
<1>6. ASSUME NEW m \in Managers, OpenReview(m) \/ LoadFlags(m) PROVE FaceInv'
  <2>1. UNCHANGED <<rows, pc, ctx, indexed>> /\ Recorded' = Recorded
    BY <1>6 DEF OpenReview, LoadFlags, history, Recorded
  <2>2. QED
    BY <2>1, NoSearchStep
<1>7. CASE WorkerRestart
  <2>1. /\ UNCHANGED <<rows, indexed>> /\ Recorded' = Recorded
        /\ \A v \in Submissions : pc'[v] # "decided"
    BY <1>1, <1>7 DEF WorkerRestart, history, Recorded
  <2>2. QED
    BY <2>1, NoSearchStep
<1>8. CASE UNCHANGED vars
  <2>1. UNCHANGED <<rows, pc, ctx, indexed>> /\ Recorded' = Recorded
    BY <1>8 DEF vars, Recorded
  <2>2. QED
    BY <2>1, NoSearchStep
<1>9. QED
  BY <1>2, <1>3, <1>4, <1>5, <1>6, <1>7, <1>8 DEF Next

\* One person is enrolled under two client IDs only by pipelines of which
\* neither could see the other's record, for any number of submissions.
THEOREM DoubleEnrolmentOverlapped == Spec => []TwiceEnrolledOverlapped
<1>1. Init => FaceInv
  BY DEF Init, FaceInv, Recorded
<1>2. IInv /\ FaceInv /\ [Next]_vars => FaceInv'
  BY FaceInvStep
<1>3. FaceInv => TwiceEnrolledOverlapped
  BY DEF FaceInv, TwiceEnrolledOverlapped, SameFace, Recorded
<1>4. QED
  BY <1>1, <1>2, <1>3, Invariance, PTL DEF Spec

-----------------------------------------------------------------------------
(* One client ID for two live records.  A client ID is free for a new      *)
(* record only if those recorded under it are REJECTED; such a record is   *)
(* live again only by a decision that another one had come before.         *)

\* Record u does not stand in the way of client, or was decided both ways.
Freed(u, client) ==
  rows[u].client = client =>
    \/ rows[u].status = "REJECTED"
    \/ reviews[u].approved > 0 /\ reviews[u].rejected > 0

IdInv ==
  /\ \A v \in Submissions : checked[v] \subseteq Recorded
  /\ \A v \in Submissions : pc[v] \in {"checked", "decided"} =>
       \A u \in checked[v] : Freed(u, ctx[v].client)
  /\ \A v \in Recorded : \A u \in checked[v] : Freed(u, rows[v].client)

\* What is freed stays freed.
LEMMA FreedStays ==
  ASSUME IInv, ReviewInv, [Next]_vars, NEW u \in Recorded, NEW client,
         Freed(u, client)
  PROVE  rows'[u].client = client =>
           \/ rows'[u].status = "REJECTED"
           \/ reviews'[u].approved > 0 /\ reviews'[u].rejected > 0
<1>1. /\ u \in Submissions /\ rows'[u].client = rows[u].client
      /\ reviews[u].approved \in Nat /\ reviews[u].rejected \in Nat
  BY RecordsStay DEF SameOwner, Recorded, IInv, TypeOK
<1>2. ASSUME NEW v \in Submissions, Persist(v)
      PROVE  rows'[u] = rows[u] /\ reviews'[u] = reviews[u]
  BY <1>1, <1>2, PersistWrites DEF Recorded, Persist, IInv, TypeOK
<1>3. ASSUME NEW m \in Managers, DecideReview(m), u # desk[m].verification
      PROVE  rows'[u] = rows[u] /\ reviews'[u] = reviews[u]
  <2>1. PICK v \in Submissions, action \in {"APPROVE", "REJECT"} :
          /\ v = desk[m].verification /\ rows' = [rows EXCEPT ![v] = rows'[v]]
          /\ reviews' = [reviews EXCEPT ![v] = CountReview(reviews[v], action)]
    BY <1>3, DecisionWrites
  <2>2. QED
    BY <1>1, <1>3, <2>1 DEF IInv, TypeOK
<1>4. ASSUME NEW m \in Managers, DecideReview(m), u = desk[m].verification,
             rows[u].client = client
      PROVE  \/ rows'[u].status = "REJECTED"
             \/ reviews'[u].approved > 0 /\ reviews'[u].rejected > 0
  <2>1. PICK action \in {"APPROVE", "REJECT"} :
          /\ rows'[u].status = IF action = "APPROVE" THEN "APPROVED" ELSE "REJECTED"
          /\ reviews' = [reviews EXCEPT ![u] = CountReview(reviews[u], action)]
    BY <1>4, DecisionWrites
  <2>2. reviews[u].rejected > 0
    BY <1>1, <1>4 DEF Freed, ReviewInv, Decided, DecideReview
  <2>3. reviews \in [Submissions -> [approved: Nat, rejected: Nat]]
    BY DEF IInv, TypeOK
  <2>4. action = "APPROVE" => /\ reviews'[u].approved = reviews[u].approved + 1
                              /\ reviews'[u].rejected = reviews[u].rejected
    BY <1>1, <2>1, <2>3 DEF CountReview
  <2>5. QED
    BY <1>1, <2>1, <2>2, <2>4
<1>5. CASE UNCHANGED <<rows, reviews>>
  BY <1>1, <1>5 DEF Freed
<1>6. QED
  BY <1>1, <1>2, <1>3, <1>4, <1>5, RecordSteps DEF Freed

\* A step that checks no client ID.
ChecksNothing ==
  /\ UNCHANGED checked
  /\ \A v \in Submissions : pc'[v] \in {"checked", "decided"} =>
       /\ pc[v] \in {"checked", "decided"}
       /\ ctx'[v].client = ctx[v].client
  /\ \A v \in Submissions : v \in Recorded' =>
       \/ v \in Recorded
       \/ pc[v] = "decided" /\ rows'[v].client = ctx[v].client

LEMMA NoCheckStep ==
  ASSUME IInv, ReviewInv, IdInv, [Next]_vars, ChecksNothing
  PROVE  IdInv'
<1>1. \A u \in Recorded : /\ u \in Submissions /\ u \in Recorded'
                          /\ rows'[u].client = rows[u].client
  BY RecordsStay DEF SameOwner, Recorded
<1>2. \A v \in Submissions : checked'[v] \subseteq Recorded'
  BY <1>1 DEF IdInv, ChecksNothing
<1>3. ASSUME NEW v \in Submissions, NEW u \in checked'[v], NEW client,
             \/ v \in Recorded /\ client = rows[v].client
             \/ pc[v] \in {"checked", "decided"} /\ client = ctx[v].client
      PROVE  rows'[u].client = client =>
               \/ rows'[u].status = "REJECTED"
               \/ reviews'[u].approved > 0 /\ reviews'[u].rejected > 0
  <2>1. u \in Recorded /\ Freed(u, client)
    BY <1>3 DEF IdInv, ChecksNothing
  <2>2. QED
    BY <2>1, FreedStays
<1>4. \A v \in Submissions : pc'[v] \in {"checked", "decided"} =>
        \A u \in checked'[v] :
          rows'[u].client = ctx'[v].client =>
            \/ rows'[u].status = "REJECTED"
            \/ reviews'[u].approved > 0 /\ reviews'[u].rejected > 0
  BY <1>3 DEF ChecksNothing
<1>5. \A v \in Recorded' : \A u \in checked'[v] :
          rows'[u].client = rows'[v].client =>
            \/ rows'[u].status = "REJECTED"
            \/ reviews'[u].approved > 0 /\ reviews'[u].rejected > 0
  BY <1>1, <1>3 DEF ChecksNothing, Recorded
<1>6. QED
  BY <1>2, <1>4, <1>5 DEF IdInv, Freed

LEMMA IdInvStep ==
  ASSUME IInv, ReviewInv, IdInv, [Next]_vars
  PROVE  IdInv'
<1>1. /\ pc \in [Submissions -> {"new", "checked", "decided", "over"}]
      /\ ctx \in [Submissions -> Request \cup {None}]
      /\ checked \in [Submissions -> SUBSET Submissions]
      /\ \A v \in Recorded : pc[v] = "over"
      /\ \A v \in Submissions : pc[v] \in {"checked", "decided"} => ctx[v] \in Request
  BY DEF IInv, TypeOK
<1>2. ASSUME NEW v \in Submissions, CheckClientId(v) PROVE IdInv'
  <2>1. PICK client \in Clients, person \in Persons, capture \in Captures :
          /\ ~\E u \in Recorded : rows[u].client = client /\ Live(rows[u])
          /\ ctx' = [ctx EXCEPT ![v] = [client |-> client, person |-> person,
                                        capture |-> capture, duplicate |-> FALSE]]
    BY <1>2 DEF CheckClientId
  <2>2. /\ pc' = [pc EXCEPT ![v] = "checked"] /\ pc[v] = "new"
        /\ checked' = [checked EXCEPT ![v] = Recorded]
        /\ UNCHANGED <<rows, reviews>> /\ Recorded' = Recorded
    BY <1>2 DEF CheckClientId, Recorded
  <2>3. ctx'[v].client = client /\ checked'[v] = Recorded /\ v \notin Recorded
    BY <1>1, <2>1, <2>2
  <2>4. \A w \in Submissions : w # v =>
          checked'[w] = checked[w] /\ ctx'[w] = ctx[w] /\ pc'[w] = pc[w]
    BY <1>1, <2>1, <2>2
  <2>5. \A u \in Recorded : Freed(u, client)
    BY <2>1 DEF Freed, Live
  <2>7. \A w \in Submissions : checked'[w] \subseteq Recorded'
    BY <2>2, <2>3, <2>4 DEF IdInv
  <2>8. \A w \in Submissions : pc'[w] \in {"checked", "decided"} =>
          \A u \in checked'[w] :
            rows'[u].client = ctx'[w].client =>
              \/ rows'[u].status = "REJECTED"
              \/ reviews'[u].approved > 0 /\ reviews'[u].rejected > 0
    BY <2>2, <2>3, <2>4, <2>5 DEF IdInv, Freed
  <2>9. \A w \in Recorded' : \A u \in checked'[w] :
            rows'[u].client = rows'[w].client =>
              \/ rows'[u].status = "REJECTED"
              \/ reviews'[u].approved > 0 /\ reviews'[u].rejected > 0
    BY <2>2, <2>3, <2>4 DEF IdInv, Freed, Recorded
  <2>10. QED
    BY <2>7, <2>8, <2>9 DEF IdInv, Freed
<1>3. ASSUME NEW v \in Submissions, RunStages(v) PROVE IdInv'
  <2>1. /\ ctx' = [ctx EXCEPT ![v] =
                     [ctx[v] EXCEPT !.duplicate = FoundUnderOtherId(ctx[v])]]
        /\ pc' = [pc EXCEPT ![v] = "decided"] /\ pc[v] = "checked"
        /\ UNCHANGED <<rows, checked>> /\ Recorded' = Recorded
    BY <1>3 DEF RunStages, Recorded
  <2>2. \A w \in Submissions : pc'[w] \in {"checked", "decided"} =>
          /\ pc[w] \in {"checked", "decided"} /\ ctx'[w].client = ctx[w].client
    BY <1>1, <2>1 DEF Request
  <2>3. ChecksNothing
    BY <2>1, <2>2 DEF ChecksNothing
  <2>4. QED
    BY <2>3, NoCheckStep
<1>4. ASSUME NEW v \in Submissions, Persist(v) PROVE IdInv'
  <2>1. /\ pc' = [pc EXCEPT ![v] = "over"] /\ ctx' = [ctx EXCEPT ![v] = None]
        /\ UNCHANGED checked /\ pc[v] = "decided"
    BY <1>4 DEF Persist, history
  <2>2. \A w \in Recorded' : w = v \/ w \in Recorded
    BY <1>4, PersistWrites DEF Recorded, IInv, TypeOK
  <2>3. rows'[v].client = ctx[v].client
    BY <1>4, PersistWrites
  <2>4. ChecksNothing
    BY <1>1, <2>1, <2>2, <2>3 DEF ChecksNothing
  <2>5. QED
    BY <2>4, NoCheckStep
<1>5. ASSUME NEW v \in Submissions, Abort(v) PROVE IdInv'
  <2>1. /\ UNCHANGED <<rows, checked>> /\ Recorded' = Recorded /\ pc'[v] = "over"
        /\ \A w \in Submissions : w # v => pc'[w] = pc[w] /\ ctx'[w] = ctx[w]
    BY <1>1, <1>5 DEF Abort, history, Recorded
  <2>2. ChecksNothing
    BY <2>1 DEF ChecksNothing
  <2>3. QED
    BY <2>2, NoCheckStep
<1>6. ASSUME NEW m \in Managers, DecideReview(m) PROVE IdInv'
  <2>1. UNCHANGED <<pc, ctx, checked>>
    BY <1>6 DEF DecideReview, history
  <2>2. Recorded' \subseteq Recorded
    BY <1>6, DecisionWrites, NoneAssumption DEF Recorded, IInv, TypeOK
  <2>3. ChecksNothing
    BY <2>1, <2>2 DEF ChecksNothing
  <2>4. QED
    BY <2>3, NoCheckStep
<1>7. ASSUME NEW m \in Managers, OpenReview(m) \/ LoadFlags(m) PROVE IdInv'
  <2>1. UNCHANGED <<rows, pc, ctx, checked>> /\ Recorded' = Recorded
    BY <1>7 DEF OpenReview, LoadFlags, history, Recorded
  <2>2. ChecksNothing
    BY <2>1 DEF ChecksNothing
  <2>3. QED
    BY <2>2, NoCheckStep
<1>8. CASE WorkerRestart
  <2>1. /\ UNCHANGED <<rows, checked>> /\ Recorded' = Recorded
        /\ \A v \in Submissions : pc'[v] \notin {"checked", "decided"}
    BY <1>1, <1>8 DEF WorkerRestart, history, Recorded
  <2>2. ChecksNothing
    BY <2>1 DEF ChecksNothing
  <2>3. QED
    BY <2>2, NoCheckStep
<1>9. CASE UNCHANGED vars
  <2>1. UNCHANGED <<rows, pc, ctx, checked>> /\ Recorded' = Recorded
    BY <1>9 DEF vars, Recorded
  <2>2. ChecksNothing
    BY <2>1 DEF ChecksNothing
  <2>3. QED
    BY <2>2, NoCheckStep
<1>10. QED
  BY <1>2, <1>3, <1>4, <1>5, <1>6, <1>7, <1>8, <1>9 DEF Next

\* Two live records share a client ID only if their requests overlapped or one
\* of them was rejected and then approved by a decision opened before that.
THEOREM SharedIdNeedsARace == Spec => []SharedIdRaced
<1>1. Init => IdInv
  BY DEF Init, IdInv, Recorded
<1>2. IInv /\ ReviewInv /\ IdInv /\ [Next]_vars => IdInv'
  BY IdInvStep
<1>3. IdInv => SharedIdRaced
  <2> SUFFICES ASSUME IdInv, NEW u \in Recorded, NEW v \in Recorded,
                      Live(rows[u]), Live(rows[v]),
                      rows[u].client = rows[v].client,
                      u \in checked[v] \/ v \in checked[u]
               PROVE  \E w \in {u, v} : reviews[w].approved > 0 /\ reviews[w].rejected > 0
    BY DEF SharedIdRaced
  <2>1. QED
    BY DEF IdInv, Freed, Live
<1>4. QED
  BY <1>1, <1>2, <1>3, Invariance, ReviewInvariance, PTL DEF Spec

=============================================================================
