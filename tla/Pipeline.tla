------------------------------ MODULE Pipeline ------------------------------
(***************************************************************************)
(* The verification pipeline as a function: from what its stages make of   *)
(* one submission to the verdict, with the early exits between the stages. *)
(* A submission is a record: whether OCR read the document and found it    *)
(* expired, and the percent scores of the liveness and face-match stages;  *)
(* the images and the models that score them are abstracted to these.      *)
(***************************************************************************)
EXTENDS Naturals

\* Percent values of the thresholds; each score is compared with >=.
LivenessThreshold == 60
LivenessReviewThreshold == 30
FaceMatchThreshold == 60
FaceMatchReviewThreshold == 20

Capture == [read: BOOLEAN, expired: BOOLEAN, liveness: 0..100, face: 0..100]

MachineStatus == {"VERIFIED", "PENDING", "REJECTED"}
MachineReason == {"NONE", "OCR_FAILED", "ID_EXPIRED", "LIVENESS_FAILED",
                  "LIVENESS_REVIEW", "FACE_MISMATCH", "FACE_MATCH_REVIEW"}

Verdict(status, reason) == [status |-> status, reason |-> reason]

\* decide(): liveness, then the face match, then the duplicate search; a near
\* miss of either score goes to a manager, as does a duplicate.
Decide(c, duplicate) ==
  CASE c.liveness < LivenessThreshold ->
         IF c.liveness >= LivenessReviewThreshold
           THEN Verdict("PENDING", "LIVENESS_REVIEW")
           ELSE Verdict("REJECTED", "LIVENESS_FAILED")
    [] c.liveness >= LivenessThreshold /\ c.face < FaceMatchThreshold ->
         IF c.face >= FaceMatchReviewThreshold
           THEN Verdict("PENDING", "FACE_MATCH_REVIEW")
           ELSE Verdict("REJECTED", "FACE_MISMATCH")
    [] OTHER -> Verdict(IF duplicate THEN "PENDING" ELSE "VERIFIED", "NONE")

\* A failing stage ends the run: the duplicate search comes last, so only a
\* live, matching selfie is ever searched for.
Searched(c) ==
  /\ c.read /\ ~c.expired
  /\ c.liveness >= LivenessThreshold
  /\ c.face >= FaceMatchThreshold

\* OCR failures and expired documents are rejected before the scores count.
VerdictOn(c, duplicate) ==
  IF ~c.read THEN Verdict("REJECTED", "OCR_FAILED")
  ELSE IF c.expired THEN Verdict("REJECTED", "ID_EXPIRED")
  ELSE Decide(c, Searched(c) /\ duplicate)

\* (Mutant: whoever was searched for is enrolled, duplicates too.)
EnrolSearched(c, duplicate) ==
  [status |-> VerdictOn(c, duplicate).status,
   reason |-> VerdictOn(c, duplicate).reason,
   enrol |-> Searched(c), flagged |-> Searched(c) /\ duplicate]

\* run_verification(): the verdict, whether the selfie is enrolled, and
\* whether a duplicate flag is raised, given what the search would find.
RunVerification(c, duplicate) ==
  [status |-> VerdictOn(c, duplicate).status,
   reason |-> VerdictOn(c, duplicate).reason,
   enrol |-> VerdictOn(c, duplicate).status = "VERIFIED",
   flagged |-> Searched(c) /\ duplicate]

\* partner_verify(): the same run over an empty duplicate index; the answer
\* shows the stages that ran, and nothing is stored.
PartnerVerify(c) ==
  [status |-> RunVerification(c, FALSE).status,
   reason |-> RunVerification(c, FALSE).reason,
   extracted_data |-> c.read,
   liveness |-> c.read /\ ~c.expired,
   face_match |-> c.read /\ ~c.expired /\ c.liveness >= LivenessThreshold]

=============================================================================
