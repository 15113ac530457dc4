---------------------------- MODULE Verifications ----------------------------
(***************************************************************************)
(* The verification records of one MFI: POST /kyc/verify from the check of *)
(* the client ID to the commit, and the managers' review queue.            *)
(*                                                                         *)
(* Between the client-ID check and the commit lie the upload and the       *)
(* machine-learning stages, seconds of them, in a transaction that locks   *)
(* nothing; nothing in the schema makes a client ID unique.  A decision    *)
(* works on the copy of the row that passed the PENDING check, and is      *)
(* committed when the request ends.                                        *)
(***************************************************************************)
EXTENDS Pipeline, OrmSession, FiniteSets

CONSTANTS
  Submissions,   \* the POST /kyc/verify requests that get past metering
  Clients,       \* client IDs
  Persons,       \* the people in front of the camera
  Captures,      \* what the stages may make of a submission
  Managers,      \* review requests under way at once
  None

ASSUME CapturesAssumption == Captures \subseteq Capture

VARIABLES
  rows,      \* rows[v]: the committed record of submission v, None before
  pc,        \* pc[v]: where submission v is
  ctx,       \* ctx[v]: what the request of v works on
  desk,      \* desk[m]: the review m has open, None when idle
  reviews,   \* reviews[v]: audit entries of decisions about v, by kind
  checked,   \* history: the records there were at v's client-ID check
  indexed    \* history: the records whose faces v was compared with

vars == <<rows, pc, ctx, desk, reviews, checked, indexed>>
history == <<checked, indexed>>

Status == MachineStatus \cup {"APPROVED"}
Reason == MachineReason \cup {"MANUAL_REJECT"}
Flag == {"none", "PENDING", "CONFIRMED", "DISMISSED"}

\* `flag` is the resolution of the record's duplicate flag, if it has one;
\* `enrolled`, whether a face embedding was stored with it.
Row == [client: Clients, person: Persons, status: Status, reason: Reason,
        enrolled: BOOLEAN, flag: Flag]

Request == [client: Clients, person: Persons, capture: Captures,
            duplicate: BOOLEAN]

Review == [verification: Submissions, copy: Row]

ASSUME NoneAssumption == None \notin Row \cup Request \cup Review

TypeOK ==
  /\ rows \in [Submissions -> Row \cup {None}]
  /\ pc \in [Submissions -> {"new", "checked", "decided", "over"}]
  /\ ctx \in [Submissions -> Request \cup {None}]
  /\ \A v \in Submissions : pc[v] \in {"checked", "decided"} => ctx[v] \in Request
  /\ desk \in [Managers -> Review \cup {None}]
  /\ reviews \in [Submissions -> [approved: Nat, rejected: Nat]]
  /\ checked \in [Submissions -> SUBSET Submissions]
  /\ indexed \in [Submissions -> SUBSET Submissions]

Init ==
  /\ rows = [v \in Submissions |-> None]
  /\ pc = [v \in Submissions |-> "new"]
  /\ ctx = [v \in Submissions |-> None]
  /\ desk = [m \in Managers |-> None]
  /\ reviews = [v \in Submissions |-> [approved |-> 0, rejected |-> 0]]
  /\ checked = [v \in Submissions |-> {}]
  /\ indexed = [v \in Submissions |-> {}]

Recorded == {v \in Submissions : rows[v] # None}

\* (Mutant: only a finished onboarding reserves its client ID.)
LiveWhenFinal(row) == row.status \in {"VERIFIED", "APPROVED"}

\* A rejected attempt onboarded nobody and frees its client ID.
Live(row) == row.status # "REJECTED"

-----------------------------------------------------------------------------
(* POST /kyc/verify                                                        *)

\* _ensure_unique_client_id; a client ID in use is answered with a conflict.
CheckClientId(v) ==
  /\ pc[v] = "new"
  /\ \E client \in Clients, person \in Persons, capture \in Captures :
       /\ ~\E u \in Recorded : rows[u].client = client /\ Live(rows[u])
       /\ ctx' = [ctx EXCEPT ![v] = [client |-> client, person |-> person,
                                     capture |-> capture, duplicate |-> FALSE]]
  /\ pc' = [pc EXCEPT ![v] = "checked"]
  /\ checked' = [checked EXCEPT ![v] = Recorded]
  /\ UNCHANGED <<rows, desk, reviews, indexed>>

\* (Mutant: the search is over the querying client's own faces.)
FoundUnderOwnId(c) ==
  \E u \in Recorded : /\ rows[u].enrolled
                      /\ rows[u].client = c.client
                      /\ rows[u].person = c.person

\* PgVectorDuplicateStore and FaceIndex: the nearest face enrolled by the MFI
\* under another client ID.  Two embeddings are taken to be within the
\* duplicate threshold exactly when they are of one person.
FoundUnderOtherId(c) ==
  \E u \in Recorded : /\ rows[u].enrolled
                      /\ rows[u].client # c.client
                      /\ rows[u].person = c.person

\* The pipeline's stages, up to the duplicate search that reads the database.
RunStages(v) ==
  /\ pc[v] = "checked"
  /\ ctx' = [ctx EXCEPT ![v].duplicate = FoundUnderOtherId(ctx[v])]
  /\ pc' = [pc EXCEPT ![v] = "decided"]
  /\ indexed' = [indexed EXCEPT ![v] = Recorded]
  /\ UNCHANGED <<rows, desk, reviews, checked>>

\* record_usage commits the record with its embedding and duplicate flag.
Persist(v) ==
  /\ pc[v] = "decided"
  /\ LET c == ctx[v]
         output == RunVerification(c.capture, c.duplicate)
     IN rows' = [rows EXCEPT ![v] =
          [client |-> c.client, person |-> c.person,
           status |-> output.status, reason |-> output.reason,
           enrolled |-> output.enrol,
           flag |-> IF output.flagged THEN "PENDING" ELSE "none"]]
  /\ pc' = [pc EXCEPT ![v] = "over"]
  /\ ctx' = [ctx EXCEPT ![v] = None]
  /\ UNCHANGED <<desk, reviews, history>>

\* An error in a stage or in the commit: the transaction is rolled back.
Abort(v) ==
  /\ pc[v] \in {"checked", "decided"}
  /\ pc' = [pc EXCEPT ![v] = "over"]
  /\ ctx' = [ctx EXCEPT ![v] = None]
  /\ UNCHANGED <<rows, desk, reviews, history>>

-----------------------------------------------------------------------------
(* POST /kyc/reviews/{id}/decision                                         *)

\* (Mutant: any record may be decided.)
OpenAnyReview(m) ==
  /\ desk[m] = None
  /\ \E v \in Recorded :
       desk' = [desk EXCEPT ![m] = [verification |-> v, copy |-> rows[v]]]
  /\ UNCHANGED <<rows, pc, ctx, reviews, history>>

OpenReview(m) ==
  /\ desk[m] = None
  /\ \E v \in Recorded :
       /\ rows[v].status = "PENDING"
       /\ desk' = [desk EXCEPT ![m] = [verification |-> v, copy |-> rows[v]]]
  /\ UNCHANGED <<rows, pc, ctx, reviews, history>>

\* The duplicate flags are loaded when the handler gets to them, later than
\* the row: its copy of them may be newer.
LoadFlags(m) ==
  /\ desk[m] # None
  /\ desk' = [desk EXCEPT ![m].copy.flag = rows[desk[m].verification].flag]
  /\ desk' # desk
  /\ UNCHANGED <<rows, pc, ctx, reviews, history>>

\* (Mutant: the flag takes the action's name.)
ResolveByAction(flag, action) == IF flag = "none" THEN "none" ELSE action

Resolve(flag, action) ==
  IF flag = "none" THEN "none"
  ELSE IF action = "APPROVE" THEN "DISMISSED" ELSE "CONFIRMED"

Judge(row, action) ==
  IF action = "APPROVE"
    THEN [row EXCEPT !.status = "APPROVED", !.flag = Resolve(@, action)]
    ELSE [row EXCEPT !.status = "REJECTED", !.reason = "MANUAL_REJECT",
                     !.flag = Resolve(@, action)]

\* (Mutant: one audit action for both decisions.)
CountAsApproved(entry, action) == [entry EXCEPT !.approved = @ + 1]

CountReview(entry, action) ==
  IF action = "APPROVE" THEN [entry EXCEPT !.approved = @ + 1]
                        ELSE [entry EXCEPT !.rejected = @ + 1]

\* The decision is flushed with its audit entry; the commit follows.
DecideReview(m) ==
  /\ desk[m] # None
  /\ LET v == desk[m].verification
         copy == desk[m].copy
     IN \E action \in {"APPROVE", "REJECT"} :
          /\ rows' = [rows EXCEPT ![v] = Flush(@, copy, Judge(copy, action))]
          /\ reviews' = [reviews EXCEPT ![v] = CountReview(@, action)]
  /\ desk' = [desk EXCEPT ![m] = None]
  /\ UNCHANGED <<pc, ctx, history>>

\* The process dies: what was under way is rolled back.
WorkerRestart ==
  /\ pc' = [v \in Submissions |->
              IF pc[v] \in {"checked", "decided"} THEN "over" ELSE pc[v]]
  /\ ctx' = [v \in Submissions |-> None]
  /\ desk' = [m \in Managers |-> None]
  /\ UNCHANGED <<rows, reviews, history>>

Next ==
  \/ \E v \in Submissions :
       CheckClientId(v) \/ RunStages(v) \/ Persist(v) \/ Abort(v)
  \/ \E m \in Managers : OpenReview(m) \/ LoadFlags(m) \/ DecideReview(m)
  \/ WorkerRestart

Spec == Init /\ [][Next]_vars

-----------------------------------------------------------------------------
\* A face is enrolled with a record exactly while the record is VERIFIED: no
\* pending, approved or rejected client is in the duplicate index, and no
\* decision takes a verified one out of step with it.
EnrolledIsVerified ==
  \A v \in Recorded : rows[v].enrolled <=> rows[v].status = "VERIFIED"

\* What the pipeline settled by itself stays as it is, whoever reviews what.
MachineVerdictIsFinal ==
  [][\A v \in Recorded :
       rows[v].status # "PENDING" /\ reviews[v] = [approved |-> 0, rejected |-> 0]
         => rows'[v] = rows[v]]_vars

\* Every human verdict is in the audit log, under its own kind, and a record
\* with a duplicate flag was passed by a human or not at all.
AuditExplainsVerdict ==
  \A v \in Recorded :
    /\ rows[v].status = "APPROVED" => reviews[v].approved > 0
    /\ rows[v].reason = "MANUAL_REJECT" => reviews[v].rejected > 0
    /\ rows[v].status = "PENDING" => reviews[v].approved + reviews[v].rejected = 0
    /\ rows[v].flag # "none" => rows[v].status # "VERIFIED"

\* One face is enrolled under two client IDs only if neither request's search
\* could see the other's enrolment: their pipelines overlapped.
TwiceEnrolledOverlapped ==
  \A u, v \in Recorded :
    /\ rows[u].enrolled /\ rows[v].enrolled
    /\ rows[u].person = rows[v].person
    /\ rows[u].client # rows[v].client
    => u \notin indexed[v] /\ v \notin indexed[u]

\* Two live records share a client ID only if their requests overlapped, or
\* one of them was decided twice: a rejection freed the ID and an approval
\* that had been opened before it came after.
SharedIdRaced ==
  \A u, v \in Recorded :
    /\ u # v
    /\ Live(rows[u]) /\ Live(rows[v])
    /\ rows[u].client = rows[v].client
    => \/ u \notin checked[v] /\ v \notin checked[u]
       \/ \E w \in {u, v} : reviews[w].approved > 0 /\ reviews[w].rejected > 0

\* "The same reference never points at two different people".
OnePersonPerClientId ==
  \A u, v \in Recorded :
    /\ Live(rows[u]) /\ Live(rows[v])
    /\ rows[u].client = rows[v].client
    => rows[u].person = rows[v].person

=============================================================================
