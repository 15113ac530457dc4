------------------------------ MODULE Mailing ------------------------------
(***************************************************************************)
(* Mails to many institutions: the maintenance broadcast of an admin, or   *)
(* the weekly digest of a scheduled script.  Either reads the active       *)
(* accounts once and then sends mail after mail, up to fifteen seconds     *)
(* each, by what it has read.  A broadcast keeps its audit entries until   *)
(* the end.  Where sending is switched off a mail is logged and counts as  *)
(* sent.  Several loops share nothing but the accounts, which they only    *)
(* read, so one is modelled.                                               *)
(***************************************************************************)
EXTENDS Naturals, FiniteSets

CONSTANT Recipients   \* mfi_accounts rows

VARIABLES
  kind,        \* which of the two loops this is
  recipient,   \* recipient[m]: the row of m, with its preference for this kind
  busy,        \* recipients that had verifications in the last week
  loopState,
  read,        \* the rows as the loop read them
  todo, sent, failed,
  received,    \* who got a mail
  audited,     \* who has an audit entry
  steady       \* history: who was to get it at every moment since the loop began

mailVars == <<kind, recipient, busy, loopState, read, todo, sent, failed, received,
              audited, steady>>

RecipientRow == [status: {"ACTIVE", "SUSPENDED"}, wants: BOOLEAN]

MailingTypeOK ==
  /\ kind \in {"maintenance", "weekly"}
  /\ recipient \in [Recipients -> RecipientRow] /\ read \in [Recipients -> RecipientRow]
  /\ loopState \in {"new", "sending", "finished", "died"}
  /\ {busy, todo, sent, failed, received, audited, steady} \subseteq SUBSET Recipients

\* NOTIF_DEFAULTS: maintenance on, weekly off.
NotifDefault(for) == for = "maintenance"

MailingInit ==
  /\ kind \in {"maintenance", "weekly"}
  /\ recipient = [m \in Recipients |-> [status |-> "ACTIVE", wants |-> NotifDefault(kind)]]
  /\ busy = {}
  /\ loopState = "new" /\ read = recipient
  /\ todo = {} /\ sent = {} /\ failed = {}
  /\ received = {} /\ audited = {} /\ steady = {}

-----------------------------------------------------------------------------
Wanted(row) == row.status = "ACTIVE" /\ row.wants

\* A digest of nothing is not sent.
WorthAMail(m) == kind = "weekly" => m \in busy

ToGetIt == {m \in Recipients : Wanted(recipient[m]) /\ WorthAMail(m)}

\* What is still true of every moment since the loop began.
StillSteady == steady' = steady \cap ToGetIt'

\* By an admin or the institution's manager, at any time.
ChangeRecipient ==
  /\ \E m \in Recipients, row \in RecipientRow : recipient' = [recipient EXCEPT ![m] = row]
  /\ UNCHANGED <<kind, busy, loopState, read, todo, sent, failed, received, audited>>
  /\ StillSteady

\* Verifications are made, and the week moves on.
ChangeActivity ==
  /\ busy' \in SUBSET Recipients
  /\ UNCHANGED <<kind, recipient, loopState, read, todo, sent, failed, received, audited>>
  /\ StillSteady

ReadAccounts ==
  /\ loopState = "new"
  /\ loopState' = "sending"
  /\ read' = recipient
  /\ todo' = {m \in Recipients : recipient[m].status = "ACTIVE"}
  /\ steady' = ToGetIt
  /\ UNCHANGED <<kind, recipient, busy, sent, failed, received, audited>>

\* The preference is that of the copy; the digest's figures are queried now.
Skipped(m) == ~read[m].wants \/ ~WorthAMail(m)

PassOver(m) ==
  /\ m \in todo /\ Skipped(m)
  /\ todo' = todo \ {m}
  /\ UNCHANGED <<kind, recipient, busy, loopState, read, sent, failed, received, audited,
                 steady>>

SendMail(m) ==
  /\ m \in todo /\ ~Skipped(m)
  /\ todo' = todo \ {m}
  /\ sent' = sent \cup {m} /\ received' = received \cup {m}
  /\ UNCHANGED <<kind, recipient, busy, loopState, read, failed, audited, steady>>

\* (Mutant: the error ends the loop.)
MailFailsStops(m) ==
  /\ m \in todo /\ ~Skipped(m)
  /\ todo' = {}
  /\ failed' = failed \cup {m}
  /\ \E delivered \in SUBSET {m} : received' = received \cup delivered
  /\ UNCHANGED <<kind, recipient, busy, loopState, read, sent, audited, steady>>

\* An SMTP error or a timeout is logged and the loop goes on; the server may
\* have taken the mail nevertheless.
MailFails(m) ==
  /\ m \in todo /\ ~Skipped(m)
  /\ todo' = todo \ {m}
  /\ failed' = failed \cup {m}
  /\ \E delivered \in SUBSET {m} : received' = received \cup delivered
  /\ UNCHANGED <<kind, recipient, busy, loopState, read, sent, audited, steady>>

\* The broadcast commits its entries; the script has none.
FinishMailing ==
  /\ loopState = "sending" /\ todo = {}
  /\ loopState' = "finished"
  /\ audited' = IF kind = "maintenance" THEN sent ELSE {}
  /\ UNCHANGED <<kind, recipient, busy, read, todo, sent, failed, received, steady>>

\* The process dies between two mails, or the last commit fails.
MailingDies ==
  /\ loopState = "sending"
  /\ loopState' = "died"
  /\ todo' = {}
  /\ UNCHANGED <<kind, recipient, busy, read, sent, failed, received, audited, steady>>

MailingNext ==
  \/ ChangeRecipient
  \/ ChangeActivity
  \/ ReadAccounts
  \/ \E m \in Recipients : PassOver(m) \/ SendMail(m) \/ MailFails(m)
  \/ FinishMailing
  \/ MailingDies

MailingSpec == MailingInit /\ [][MailingNext]_mailVars

-----------------------------------------------------------------------------
\* A loop that finished has reached everybody who was to get its mail all the
\* while, but for failed sends.  Nobody gets one who did not want it when the
\* loop began.  "Each send is recorded": of a broadcast that finished all but
\* those that failed; and no entry is of a mail that was not sent.
MailsAccountedFor ==
  /\ loopState = "finished" => steady \subseteq received \cup failed
  /\ \A m \in received : Wanted(read[m])
  /\ audited \subseteq received
  /\ loopState = "finished" /\ kind = "maintenance" => received \ failed \subseteq audited

=============================================================================
