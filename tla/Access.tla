------------------------------- MODULE Access -------------------------------
(***************************************************************************)
(* One staff account: login with its failure counter and lock, PIN reset   *)
(* links, PIN changes and two-factor enrolment.                            *)
(*                                                                         *)
(* All of it lives in one users row that each request loads once and       *)
(* writes back later (OrmSession), after hashing a PIN, which is slow on   *)
(* purpose, or after sending a mail.  A request is one Begin action and    *)
(* one that writes; a request that is refused writes nothing and is no     *)
(* step.  Tokens carry their expiry and are stored nowhere: of those that  *)
(* were issued only the one that lasts longest matters.                    *)
(***************************************************************************)
EXTENDS OrmSession, StaleCounter

CONSTANTS
  Requests,          \* requests served at once
  Pins, Secrets,     \* PINs; TOTP secrets that can be drawn
  Links,             \* reset links that can be mailed
  LoginMaxAttempts, LockoutTime, SessionTime, ChallengeTime, ResetTime,
  LastTick,          \* bound: the ticks of the clock, 1..LastTick
  None

ASSUME AccessAssumption ==
  /\ LoginMaxAttempts \in Nat \ {0}
  /\ {LockoutTime, SessionTime, ChallengeTime, ResetTime} \subseteq Nat
  /\ None \notin Secrets
  /\ IsFiniteSet(Requests)

VARIABLES
  user,            \* the users row
  role,            \* its role, which never changes
  mfiSuspended,    \* the status of its MFI; an admin has none
  now,             \* the clock
  link,            \* link[l]: a row of pin_resets, once it is committed
  at,              \* at[r]: what request r is doing
  mem,             \* mem[r]: the row as r loaded it, when, and r's link
  sessionUntil,    \* expiry of the longest-lived session token issued
  challengeUntil,  \* and of the longest-lived challenge
  wrong,           \* history: wrong PINs since the last lock or login
  uses,            \* history: uses[l], PINs set with link l
  raced,           \* history: raced[l], requests under way with l at its first use
  confirmed,       \* history: the secret last confirmed with a code
  overlapped       \* history: a two-factor request ran beside another

accessVars == <<user, role, mfiSuspended, now, link, at, mem, sessionUntil,
                challengeUntil, wrong, uses, raced, confirmed, overlapped>>

Never == 0

UserRow == [hashed_pin: Pins, status: {"ACTIVE", "DISABLED"},
            failed_login_count: Nat, locked_until: Nat,
            totp_secret: Secrets \cup {None}, totp_enabled: BOOLEAN]

Copy == [loaded: UserRow, when: Nat, link: Links \cup {None}]

LinkState == {"unknown", "mailed", "live", "used"}

TwoFactor == {"setup", "enable", "disable"}

Doing == {"idle", "login", "forgot", "reset", "change", "update", "repin"} \cup TwoFactor

AccessTypeOK ==
  /\ user \in UserRow
  /\ role \in {"AGENT", "MANAGER", "ADMIN"}
  /\ mfiSuspended \in BOOLEAN
  /\ {now, sessionUntil, challengeUntil, wrong} \subseteq Nat
  /\ link \in [Links -> [state: LinkState, expires_at: Nat]]
  /\ at \in [Requests -> Doing]
  /\ mem \in [Requests -> Copy \cup {None}]
  /\ \A r \in Requests : at[r] # "idle" => mem[r] \in Copy
  /\ uses \in [Links -> Nat] /\ raced \in [Links -> SUBSET Requests]
  /\ confirmed \in Secrets \cup {None}
  /\ overlapped \in BOOLEAN

\* (Mutant: the failure counter has no default.)
NewUserUncounted(pin) ==
  [hashed_pin |-> pin, status |-> "ACTIVE", failed_login_count |-> None,
   locked_until |-> Never, totp_secret |-> None, totp_enabled |-> FALSE]

NewUser(pin) ==
  [hashed_pin |-> pin, status |-> "ACTIVE", failed_login_count |-> 0,
   locked_until |-> Never, totp_secret |-> None, totp_enabled |-> FALSE]

AccessInit ==
  /\ \E pin \in Pins : user = NewUser(pin)
  /\ role \in {"AGENT", "MANAGER", "ADMIN"}
  /\ mfiSuspended = FALSE
  /\ now = 1
  /\ link = [l \in Links |-> [state |-> "unknown", expires_at |-> Never]]
  /\ at = [r \in Requests |-> "idle"]
  /\ mem = [r \in Requests |-> None]
  /\ sessionUntil = Never /\ challengeUntil = Never
  /\ wrong = 0
  /\ uses = [l \in Links |-> 0] /\ raced = [l \in Links |-> {}]
  /\ confirmed = None
  /\ overlapped = FALSE

-----------------------------------------------------------------------------
Later(a, b) == IF a > b THEN a ELSE b

IsLocked(row, time) == row.locked_until > time

\* A session or challenge that ends at `until` is still accepted.
Unexpired(until) == now < until

\* A bearer token is accepted for an active account.  Any unexpired token is
\* one, a challenge too: neither its kind nor the MFI's status is looked at.
SignedIn ==
  /\ Unexpired(sessionUntil) \/ Unexpired(challengeUntil)
  /\ user.status = "ACTIVE"

\* Two-factor enrolment is for platform admins.
SignedInAdmin == SignedIn /\ role = "ADMIN"

IssueSession == sessionUntil' = Later(sessionUntil, now + SessionTime)

IssueChallenge == challengeUntil' = Later(challengeUntil, now + ChallengeTime)

\* A code verifies against the secret it was computed from.
VerifyTotp(secret, code) == code = secret

\* Drawn at random: not one that is stored, confirmed or in a copy.
NewSecret(secret) ==
  /\ secret \notin {user.totp_secret, confirmed}
  /\ \A r \in Requests : mem[r] # None => secret # mem[r].loaded.totp_secret

Begin(r, what, l) ==
  /\ at[r] = "idle"
  /\ at' = [at EXCEPT ![r] = what]
  /\ mem' = [mem EXCEPT ![r] = [loaded |-> user, when |-> now, link |-> l]]

\* The request ends; its copy of the row is dropped.
End(r) ==
  /\ at' = [at EXCEPT ![r] = "idle"]
  /\ mem' = [mem EXCEPT ![r] = None]

Write(r, row) == user' = Flush(user, mem[r].loaded, row)

\* A salted hash differs from every stored one: the column is always written.
SetPin(pin) == user' = [user EXCEPT !.hashed_pin = pin]

-----------------------------------------------------------------------------
(* Login.                                                                  *)

\* (Mutant: a locked account may try.)
BeginLoginLocked(r) ==
  /\ Begin(r, "login", None)
  /\ UNCHANGED <<user, role, mfiSuspended, now, link, sessionUntil, challengeUntil,
                 wrong, uses, raced, confirmed, overlapped>>

BeginLogin(r) ==
  /\ ~IsLocked(user, now)
  /\ Begin(r, "login", None)
  /\ UNCHANGED <<user, role, mfiSuspended, now, link, sessionUntil, challengeUntil,
                 wrong, uses, raced, confirmed, overlapped>>

\* (Mutant: one failure more than the maximum is let pass.)
RegisterFailureLater(row, time) ==
  IF row.failed_login_count + 1 > LoginMaxAttempts
    THEN [row EXCEPT !.failed_login_count = 0, !.locked_until = time + LockoutTime]
    ELSE [row EXCEPT !.failed_login_count = @ + 1]

\* The failure that fills the count locks the account and starts a new count.
RegisterFailure(row, time) ==
  IF row.failed_login_count + 1 >= LoginMaxAttempts
    THEN [row EXCEPT !.failed_login_count = 0, !.locked_until = time + LockoutTime]
    ELSE [row EXCEPT !.failed_login_count = @ + 1]

\* The PIN typed is not the one that was loaded: committed at once, although
\* the request then fails.
LoginWrongPin(r) ==
  /\ at[r] = "login"
  /\ LET mine == RegisterFailure(mem[r].loaded, mem[r].when) IN
       /\ Write(r, mine)
       /\ wrong' = IF mine.locked_until # mem[r].loaded.locked_until THEN 0 ELSE wrong + 1
  /\ End(r)
  /\ UNCHANGED <<role, mfiSuspended, now, link, sessionUntil, challengeUntil, uses, raced,
                 confirmed, overlapped>>

\* The right PIN: refused after all for a disabled account or a suspended MFI;
\* otherwise the streak is cleared, if the copy has one, and a session issued,
\* or a challenge if the copy is enrolled.
LoginRightPin(r) ==
  /\ at[r] = "login"
  /\ mem[r].loaded.status = "ACTIVE"
  /\ role = "ADMIN" \/ ~mfiSuspended
  /\ Write(r, [mem[r].loaded EXCEPT !.failed_login_count = 0, !.locked_until = Never])
  /\ IF mem[r].loaded.totp_enabled /\ mem[r].loaded.totp_secret # None
       THEN IssueChallenge /\ UNCHANGED sessionUntil
       ELSE IssueSession /\ UNCHANGED challengeUntil
  /\ wrong' = 0
  /\ End(r)
  /\ UNCHANGED <<role, mfiSuspended, now, link, uses, raced, confirmed, overlapped>>

\* The second step of a two-factor login reads the row anew and writes nothing;
\* neither the lock nor the MFI is looked at again.
LoginVerify ==
  /\ Unexpired(challengeUntil)
  /\ user.status = "ACTIVE"
  /\ user.totp_enabled
  /\ \E code \in Secrets : VerifyTotp(user.totp_secret, code)
  /\ IssueSession
  /\ UNCHANGED <<user, role, mfiSuspended, now, link, at, mem, challengeUntil, wrong,
                 uses, raced, confirmed, overlapped>>

-----------------------------------------------------------------------------
(* PINs.                                                                   *)

\* A link is mailed before its row is committed, which happens after the
\* handler returned.
BeginForgotPin(r) ==
  /\ role = "MANAGER" /\ user.status = "ACTIVE"
  /\ \E l \in Links :
       /\ link[l].state = "unknown"
       /\ link' = [link EXCEPT ![l] = [state |-> "mailed", expires_at |-> now + ResetTime]]
       /\ Begin(r, "forgot", l)
  /\ UNCHANGED <<user, role, mfiSuspended, now, sessionUntil, challengeUntil, wrong,
                 uses, raced, confirmed, overlapped>>

CommitForgotPin(r) ==
  /\ at[r] = "forgot"
  /\ link' = [link EXCEPT ![mem[r].link].state = "live"]
  /\ UNCHANGED user
  /\ End(r)
  /\ UNCHANGED <<role, mfiSuspended, now, sessionUntil, challengeUntil, wrong,
                 uses, raced, confirmed, overlapped>>

\* (Mutant: a used link is looked up like a fresh one.)
BeginResetPinUsed(r) ==
  /\ role = "MANAGER"
  /\ \E l \in Links :
       /\ link[l].state \in {"live", "used"} /\ link[l].expires_at >= now
       /\ Begin(r, "reset", l)
  /\ UNCHANGED <<user, role, mfiSuspended, now, link, sessionUntil, challengeUntil,
                 wrong, uses, raced, confirmed, overlapped>>

BeginResetPin(r) ==
  /\ role = "MANAGER"
  /\ \E l \in Links :
       /\ link[l].state = "live" /\ link[l].expires_at >= now
       /\ Begin(r, "reset", l)
  /\ UNCHANGED <<user, role, mfiSuspended, now, link, sessionUntil, challengeUntil,
                 wrong, uses, raced, confirmed, overlapped>>

OthersWith(l, r) == {q \in Requests \ {r} : at[q] = "reset" /\ mem[q].link = l}

Left(r) == [l \in Links |-> raced[l] \ {r}]

\* Nothing looks at the link again: its row was loaded before the hash.
CommitResetPin(r) ==
  /\ at[r] = "reset"
  /\ \E pin \in Pins : SetPin(pin)
  /\ link' = [link EXCEPT ![mem[r].link].state = "used"]
  /\ uses' = [uses EXCEPT ![mem[r].link] = @ + 1]
  /\ raced' = IF uses[mem[r].link] = 0
                THEN [raced EXCEPT ![mem[r].link] = OthersWith(mem[r].link, r)]
                ELSE Left(r)
  /\ End(r)
  /\ UNCHANGED <<role, mfiSuspended, now, sessionUntil, challengeUntil, wrong,
                 confirmed, overlapped>>

\* The current PIN was given (a wrong one is refused and not counted).
BeginChangePin(r) ==
  /\ SignedIn
  /\ Begin(r, "change", None)
  /\ UNCHANGED <<user, role, mfiSuspended, now, link, sessionUntil, challengeUntil,
                 wrong, uses, raced, confirmed, overlapped>>

CommitChangePin(r) ==
  /\ at[r] = "change"
  /\ \E pin \in Pins : SetPin(pin)
  /\ End(r)
  /\ UNCHANGED <<role, mfiSuspended, now, link, sessionUntil, challengeUntil, wrong,
                 uses, raced, confirmed, overlapped>>

-----------------------------------------------------------------------------
(* What a manager does to the staff of the MFI, whatever their role, and an *)
(* admin to the MFI.                                                       *)

BeginUpdateAgent(r) ==
  /\ role # "ADMIN"
  /\ Begin(r, "update", None)
  /\ UNCHANGED <<user, role, mfiSuspended, now, link, sessionUntil, challengeUntil,
                 wrong, uses, raced, confirmed, overlapped>>

CommitUpdateAgent(r) ==
  /\ at[r] = "update"
  /\ \E status \in {"ACTIVE", "DISABLED"} :
       Write(r, [mem[r].loaded EXCEPT !.status = status])
  /\ End(r)
  /\ UNCHANGED <<role, mfiSuspended, now, link, sessionUntil, challengeUntil, wrong,
                 uses, raced, confirmed, overlapped>>

BeginResetAgentPin(r) ==
  /\ role # "ADMIN"
  /\ Begin(r, "repin", None)
  /\ UNCHANGED <<user, role, mfiSuspended, now, link, sessionUntil, challengeUntil,
                 wrong, uses, raced, confirmed, overlapped>>

CommitResetAgentPin(r) ==
  /\ at[r] = "repin"
  /\ \E pin \in Pins : SetPin(pin)
  /\ End(r)
  /\ UNCHANGED <<role, mfiSuspended, now, link, sessionUntil, challengeUntil, wrong,
                 uses, raced, confirmed, overlapped>>

SetMfiStatus ==
  /\ mfiSuspended' = ~mfiSuspended
  /\ UNCHANGED <<user, role, now, link, at, mem, sessionUntil, challengeUntil, wrong,
                 uses, raced, confirmed, overlapped>>

-----------------------------------------------------------------------------
(* Two-factor enrolment.                                                   *)

\* (Mutant: setting up again is possible once enabled.)
BeginSetupAnyway(r) ==
  /\ SignedInAdmin
  /\ Begin(r, "setup", None)
  /\ UNCHANGED <<user, role, mfiSuspended, now, link, sessionUntil, challengeUntil,
                 wrong, uses, raced, confirmed, overlapped>>

BeginSetup(r) ==
  /\ SignedInAdmin
  /\ ~user.totp_enabled
  /\ Begin(r, "setup", None)
  /\ UNCHANGED <<user, role, mfiSuspended, now, link, sessionUntil, challengeUntil,
                 wrong, uses, raced, confirmed, overlapped>>

\* Only enabling confirms a secret; disabling forgets it.
BeginEnable(r) ==
  /\ SignedInAdmin
  /\ user.totp_secret # None
  /\ \E code \in Secrets : VerifyTotp(user.totp_secret, code)
  /\ Begin(r, "enable", None)
  /\ UNCHANGED <<user, role, mfiSuspended, now, link, sessionUntil, challengeUntil,
                 wrong, uses, raced, confirmed, overlapped>>

BeginDisable(r) ==
  /\ SignedInAdmin
  /\ user.totp_enabled /\ user.totp_secret # None
  /\ \E code \in Secrets : VerifyTotp(user.totp_secret, code)
  /\ Begin(r, "disable", None)
  /\ UNCHANGED <<user, role, mfiSuspended, now, link, sessionUntil, challengeUntil,
                 wrong, uses, raced, confirmed, overlapped>>

\* Another request was in the middle of enrolment.
NoteOverlap(r) ==
  overlapped' = (overlapped \/ \E other \in Requests \ {r} : at[other] \in TwoFactor)

CommitSetup(r) ==
  /\ at[r] = "setup"
  /\ \E secret \in Secrets :
       NewSecret(secret) /\ Write(r, [mem[r].loaded EXCEPT !.totp_secret = secret])
  /\ NoteOverlap(r)
  /\ End(r)
  /\ UNCHANGED <<role, mfiSuspended, now, link, sessionUntil, challengeUntil, wrong,
                 uses, raced, confirmed>>

CommitEnable(r) ==
  /\ at[r] = "enable"
  /\ Write(r, [mem[r].loaded EXCEPT !.totp_enabled = TRUE])
  /\ confirmed' = mem[r].loaded.totp_secret
  /\ NoteOverlap(r)
  /\ End(r)
  /\ UNCHANGED <<role, mfiSuspended, now, link, sessionUntil, challengeUntil, wrong,
                 uses, raced>>

CommitDisable(r) ==
  /\ at[r] = "disable"
  /\ Write(r, [mem[r].loaded EXCEPT !.totp_enabled = FALSE, !.totp_secret = None])
  /\ confirmed' = None
  /\ NoteOverlap(r)
  /\ End(r)
  /\ UNCHANGED <<role, mfiSuspended, now, link, sessionUntil, challengeUntil, wrong,
                 uses, raced>>

\* scripts/seed_admin on a deploy: an existing admin is made active; forced, its
\* PIN is set and its second factor cleared, behind the back of whoever is
\* enrolling.
SeedAdmin ==
  /\ role = "ADMIN"
  /\ \E pin \in Pins :
       \/ user' = [user EXCEPT !.status = "ACTIVE"] /\ UNCHANGED <<confirmed, overlapped>>
       \/ /\ user' = [user EXCEPT !.status = "ACTIVE", !.hashed_pin = pin,
                                  !.totp_enabled = FALSE, !.totp_secret = None]
          /\ confirmed' = None
          /\ overlapped' = (overlapped \/ \E r \in Requests : at[r] \in TwoFactor)
  /\ UNCHANGED <<role, mfiSuspended, now, link, at, mem, sessionUntil, challengeUntil,
                 wrong, uses, raced>>

-----------------------------------------------------------------------------
\* A request fails before it wrote, or dies with its worker.
AbortRequest(r) ==
  /\ at[r] # "idle"
  /\ UNCHANGED user
  /\ raced' = Left(r)
  /\ End(r)
  /\ UNCHANGED <<role, mfiSuspended, now, link, sessionUntil, challengeUntil, wrong,
                 uses, confirmed, overlapped>>

Tick ==
  /\ now < LastTick
  /\ now' = now + 1
  /\ UNCHANGED <<user, role, mfiSuspended, link, at, mem, sessionUntil,
                 challengeUntil, wrong, uses, raced, confirmed, overlapped>>

AccessNext ==
  \/ \E r \in Requests :
       \/ BeginLogin(r) \/ LoginWrongPin(r) \/ LoginRightPin(r)
       \/ BeginForgotPin(r) \/ CommitForgotPin(r)
       \/ BeginResetPin(r) \/ CommitResetPin(r)
       \/ BeginChangePin(r) \/ CommitChangePin(r)
       \/ BeginUpdateAgent(r) \/ CommitUpdateAgent(r)
       \/ BeginResetAgentPin(r) \/ CommitResetAgentPin(r)
       \/ BeginSetup(r) \/ CommitSetup(r)
       \/ BeginEnable(r) \/ CommitEnable(r)
       \/ BeginDisable(r) \/ CommitDisable(r)
       \/ AbortRequest(r)
  \/ LoginVerify
  \/ SetMfiStatus
  \/ SeedAdmin
  \/ Tick

AccessSpec == AccessInit /\ [][AccessNext]_accessVars

-----------------------------------------------------------------------------
\* However late a failure is written, the lock ends within the lockout time.
LockIsTimeBoxed == user.locked_until <= now + LockoutTime

\* As many as there are ways for the requests to have seen the counter; with two
\* at a time 1 + 2 + ... + LoginMaxAttempts.
WrongPinsThatLock == Cardinality(Profiles(Requests, LoginMaxAttempts - 1))

\* Failures counted from stale copies are lost, but not without bound: an account
\* locks after so many wrong PINs at the latest.
WrongPinsBeforeLock ==
  /\ wrong < WrongPinsThatLock
  /\ Cardinality(Requests) = 2 =>
       wrong < (LoginMaxAttempts * (LoginMaxAttempts + 1)) \div 2

\* "Lockout is always time-boxed", and guessing is bounded although concurrent
\* failures overwrite each other's count.
GuessingIsBounded == LockIsTimeBoxed /\ WrongPinsBeforeLock

\* A lock in force is lifted or shortened only by a login that read the row
\* before this lock was written.
LockLiftedOnlyByOverlap ==
  [][IsLocked(user, now) /\ user'.locked_until < user.locked_until =>
       \E r \in Requests :
         /\ at[r] = "login" /\ at'[r] = "idle"
         /\ mem[r].loaded.locked_until # user.locked_until]_accessVars

\* "Single-use email tokens": a link that has set a PIN sets another only for a
\* request that was already under way with it when it was first used.
LinkReusedOnlyByOverlap ==
  [][\A l \in Links : uses[l] > 0 /\ uses'[l] # uses[l] =>
       \E r \in raced[l] :
         at[r] = "reset" /\ mem[r].link = l /\ at'[r] = "idle"]_accessVars

\* "A half-finished enrolment never locks anyone out": unless enrolment
\* requests overlapped, what the login asks a code for is the secret a code was
\* last confirmed with.
EnabledIsConfirmed ==
  ~overlapped /\ user.totp_enabled => user.totp_secret = confirmed /\ confirmed # None

=============================================================================
