---------------------------- MODULE AccessProofs ----------------------------
(***************************************************************************)
(* Proofs about staff accounts (Access) and API keys (ApiKeys), for any    *)
(* number of requests at a time.                                           *)
(*                                                                         *)
(* A lock is written from a copy of the row that may be old.  What bounds  *)
(* it is the age of the copy: a request that checks a PIN read the clock   *)
(* no later than now and found the account unlocked by that clock.         *)
(***************************************************************************)
EXTENDS MCAccess, StaleCounterProofs, FiniteSetTheorems, TLAPS

\* What a request that checks a PIN has seen.
SawNoLock(r) == mem[r].when <= now /\ ~IsLocked(mem[r].loaded, mem[r].when)

IInv ==
  /\ AccessTypeOK
  /\ LockIsTimeBoxed
  /\ \A r \in Requests : at[r] = "login" => SawNoLock(r)

-----------------------------------------------------------------------------
(* Staff accounts: types.                                                  *)

\* A flush of a row of users leaves a row of users.
LEMMA FlushUser ==
  ASSUME NEW stored \in UserRow, NEW loaded \in UserRow, NEW mine \in UserRow
  PROVE  /\ Flush(stored, loaded, mine) \in UserRow
         /\ Flush(stored, loaded, mine).locked_until =
              IF mine.locked_until = loaded.locked_until THEN stored.locked_until
              ELSE mine.locked_until
         /\ Flush(stored, loaded, mine).failed_login_count =
              IF mine.failed_login_count = loaded.failed_login_count
                THEN stored.failed_login_count
              ELSE mine.failed_login_count
<1>1. DOMAIN stored = {"hashed_pin", "status", "failed_login_count", "locked_until",
                       "totp_secret", "totp_enabled"}
  BY DEF UserRow
<1>2. QED
  BY <1>1 DEF Flush, UserRow

LEMMA BeginType ==
  ASSUME AccessTypeOK, NEW r \in Requests, NEW what \in Doing \ {"idle"},
         NEW l \in Links \cup {None}, Begin(r, what, l)
  PROVE  /\ at' \in [Requests -> Doing]
         /\ mem' \in [Requests -> Copy \cup {None}]
         /\ \A q \in Requests : at'[q] # "idle" => mem'[q] \in Copy
         /\ at'[r] = what /\ mem'[r].loaded = user /\ mem'[r].when = now
         /\ \A q \in Requests \ {r} : at'[q] = at[q] /\ mem'[q] = mem[q]
<1>1. [loaded |-> user, when |-> now, link |-> l] \in Copy
  BY DEF AccessTypeOK, Copy
<1>2. at' = [at EXCEPT ![r] = what]
      /\ mem' = [mem EXCEPT ![r] = [loaded |-> user, when |-> now, link |-> l]]
  BY DEF Begin
<1>3. at \in [Requests -> Doing] /\ mem \in [Requests -> Copy \cup {None}]
      /\ \A q \in Requests : at[q] # "idle" => mem[q] \in Copy
  BY DEF AccessTypeOK
<1>4. QED
  BY <1>1, <1>2, <1>3

LEMMA EndType ==
  ASSUME AccessTypeOK, NEW r \in Requests, End(r)
  PROVE  /\ at' \in [Requests -> Doing]
         /\ mem' \in [Requests -> Copy \cup {None}]
         /\ \A q \in Requests : at'[q] # "idle" => mem'[q] \in Copy
         /\ at'[r] = "idle"
         /\ \A q \in Requests \ {r} : at'[q] = at[q] /\ mem'[q] = mem[q]
BY DEF End, AccessTypeOK, Doing

\* What a write may do to the row.
LEMMA WriteType ==
  ASSUME AccessTypeOK, NEW r \in Requests, at[r] # "idle",
         NEW mine \in UserRow, Write(r, mine)
  PROVE  /\ user' \in UserRow
         /\ mem[r] \in Copy /\ mem[r].loaded \in UserRow
         /\ user'.locked_until =
              IF mine.locked_until = mem[r].loaded.locked_until THEN user.locked_until
              ELSE mine.locked_until
         /\ user'.failed_login_count =
              IF mine.failed_login_count = mem[r].loaded.failed_login_count
                THEN user.failed_login_count
              ELSE mine.failed_login_count
<1>1. mem[r].loaded \in UserRow /\ user \in UserRow /\ mem[r] \in Copy
  BY DEF AccessTypeOK, Copy
<1>2. QED
  BY <1>1, FlushUser DEF Write

-----------------------------------------------------------------------------
(* Staff accounts: the invariant.                                          *)

LEMMA FailureType ==
  ASSUME NEW row \in UserRow, NEW time \in Nat, LockoutTime \in Nat
  PROVE  RegisterFailure(row, time) \in UserRow
<1>1. row.failed_login_count + 1 \in Nat /\ time + LockoutTime \in Nat
  BY DEF UserRow
<1>2. /\ [row EXCEPT !.failed_login_count = row.failed_login_count + 1] \in UserRow
      /\ [row EXCEPT !.failed_login_count = 0, !.locked_until = time + LockoutTime] \in UserRow
  BY <1>1 DEF UserRow
<1>3. QED
  BY <1>2 DEF RegisterFailure

\* A row that a request has loaded, with some columns assigned.
LEMMA CopyType ==
  ASSUME AccessTypeOK, AccessAssumption, NEW r \in Requests, at[r] # "idle"
  PROVE  /\ mem[r] \in Copy /\ mem[r].loaded \in UserRow
         /\ mem[r].when \in Nat /\ mem[r].link \in Links \cup {None}
         /\ RegisterFailure(mem[r].loaded, mem[r].when) \in UserRow
         /\ [mem[r].loaded EXCEPT !.failed_login_count = 0, !.locked_until = Never] \in UserRow
         /\ \A status \in {"ACTIVE", "DISABLED"} :
              [mem[r].loaded EXCEPT !.status = status] \in UserRow
         /\ \A secret \in Secrets : [mem[r].loaded EXCEPT !.totp_secret = secret] \in UserRow
         /\ [mem[r].loaded EXCEPT !.totp_enabled = TRUE] \in UserRow
         /\ [mem[r].loaded EXCEPT !.totp_enabled = FALSE, !.totp_secret = None] \in UserRow
<1>1. mem[r] \in Copy
  BY DEF AccessTypeOK
<1>2. mem[r].loaded \in UserRow /\ mem[r].when \in Nat /\ mem[r].link \in Links \cup {None}
  BY <1>1 DEF Copy
<1>3. LoginMaxAttempts \in Nat /\ LockoutTime \in Nat
  BY DEF AccessAssumption
<1>4. RegisterFailure(mem[r].loaded, mem[r].when) \in UserRow
  BY <1>2, <1>3, FailureType
<1>5. [mem[r].loaded EXCEPT !.failed_login_count = 0, !.locked_until = Never] \in UserRow
  BY <1>2 DEF UserRow, Never
<1>6. /\ \A status \in {"ACTIVE", "DISABLED"} :
           [mem[r].loaded EXCEPT !.status = status] \in UserRow
      /\ \A secret \in Secrets : [mem[r].loaded EXCEPT !.totp_secret = secret] \in UserRow
  BY <1>2 DEF UserRow
<1>7. [mem[r].loaded EXCEPT !.totp_enabled = TRUE] \in UserRow
  BY <1>2 DEF UserRow
<1>8. [mem[r].loaded EXCEPT !.totp_enabled = FALSE, !.totp_secret = None] \in UserRow
  BY <1>2 DEF UserRow
<1>9. QED
  BY <1>1, <1>2, <1>4, <1>5, <1>6, <1>7, <1>8

LEMMA InitIInv == AccessAssumption /\ AccessInit => IInv
<1> SUFFICES ASSUME AccessAssumption, AccessInit PROVE IInv
  OBVIOUS
<1>1. user \in UserRow /\ user.locked_until = 0
  BY DEF AccessInit, NewUser, UserRow, Never
<1>2. AccessTypeOK
  <2>1. link \in [Links -> [state: LinkState, expires_at: Nat]]
    BY DEF AccessInit, Never, LinkState
  <2>2. at \in [Requests -> Doing] /\ mem \in [Requests -> Copy \cup {None}]
    BY DEF AccessInit, Doing
  <2>3. \A r \in Requests : at[r] = "idle"
    BY DEF AccessInit
  <2>4. {now, sessionUntil, challengeUntil, wrong} \subseteq Nat /\ uses \in [Links -> Nat]
    BY DEF AccessInit, Never
  <2>5. raced \in [Links -> SUBSET Requests]
    BY DEF AccessInit
  <2>6. QED
    BY <1>1, <2>1, <2>2, <2>3, <2>4, <2>5 DEF AccessInit, AccessTypeOK
<1>3. LockIsTimeBoxed
  BY <1>1 DEF AccessInit, LockIsTimeBoxed, AccessAssumption
<1>4. QED
  BY <1>2, <1>3 DEF IInv, AccessInit

\* Requests that begin: the account is as it was, and whoever logs in found it
\* unlocked.
LEMMA BeginIInv ==
  ASSUME IInv, AccessAssumption, NEW r \in Requests, NEW what \in Doing \ {"idle"},
         NEW l \in Links \cup {None}, Begin(r, what, l),
         what = "login" => ~IsLocked(user, now),
         UNCHANGED <<user, role, mfiSuspended, now, sessionUntil, challengeUntil, wrong,
                     uses, raced, confirmed, overlapped>>,
         link' \in [Links -> [state: LinkState, expires_at: Nat]]
  PROVE  IInv'
<1>1. AccessTypeOK'
  BY BeginType DEF IInv, AccessTypeOK
<1>2. \A q \in Requests : at'[q] = "login" => SawNoLock(q)'
  BY BeginType DEF IInv, AccessTypeOK, SawNoLock, IsLocked
<1>3. LockIsTimeBoxed'
  BY DEF IInv, LockIsTimeBoxed
<1>4. QED
  BY <1>1, <1>2, <1>3 DEF IInv

\* Requests that end: the lock is not further ahead than allowed, whatever else
\* was written.
LEMMA EndIInv ==
  ASSUME IInv, AccessAssumption, NEW r \in Requests, End(r),
         user' \in UserRow, user'.locked_until <= now + LockoutTime,
         {sessionUntil', challengeUntil', wrong'} \subseteq Nat,
         link' \in [Links -> [state: LinkState, expires_at: Nat]],
         uses' \in [Links -> Nat], raced' \in [Links -> SUBSET Requests],
         confirmed' \in Secrets \cup {None},
         overlapped' \in BOOLEAN,
         UNCHANGED <<role, mfiSuspended, now>>
  PROVE  IInv'
<1>1. AccessTypeOK'
  BY EndType DEF IInv, AccessTypeOK
<1>2. \A q \in Requests : at'[q] = "login" => SawNoLock(q)'
  BY EndType DEF IInv, AccessTypeOK, SawNoLock, IsLocked
<1>3. LockIsTimeBoxed'
  BY DEF LockIsTimeBoxed
<1>4. QED
  BY <1>1, <1>2, <1>3 DEF IInv

\* What is written besides logins leaves the lock and the count as stored.
LEMMA OthersKeepLock ==
  ASSUME AccessTypeOK, AccessAssumption, NEW r \in Requests,
         CommitUpdateAgent(r) \/ CommitSetup(r) \/ CommitEnable(r) \/ CommitDisable(r)
  PROVE  /\ user' \in UserRow /\ user'.locked_until = user.locked_until
         /\ user'.failed_login_count = user.failed_login_count
<1>1. at[r] # "idle"
  BY DEF CommitUpdateAgent, CommitSetup, CommitEnable, CommitDisable
<1>2. mem[r].loaded \in UserRow
  BY <1>1, CopyType
<1>3. CASE CommitUpdateAgent(r)
  <2>1. PICK status \in {"ACTIVE", "DISABLED"} : Write(r, [mem[r].loaded EXCEPT !.status = status])
    BY <1>3 DEF CommitUpdateAgent
  <2> DEFINE mine == [mem[r].loaded EXCEPT !.status = status]
  <2>2. /\ mine \in UserRow /\ mine.locked_until = mem[r].loaded.locked_until
         /\ mine.failed_login_count = mem[r].loaded.failed_login_count
    BY <1>1, <1>2, CopyType DEF UserRow
  <2>3. QED
    BY <1>1, <2>1, <2>2, WriteType
<1>4. CASE CommitSetup(r)
  <2>1. PICK secret \in Secrets : Write(r, [mem[r].loaded EXCEPT !.totp_secret = secret])
    BY <1>4 DEF CommitSetup
  <2> DEFINE mine == [mem[r].loaded EXCEPT !.totp_secret = secret]
  <2>2. /\ mine \in UserRow /\ mine.locked_until = mem[r].loaded.locked_until
         /\ mine.failed_login_count = mem[r].loaded.failed_login_count
    BY <1>1, <1>2, CopyType DEF UserRow
  <2>3. QED
    BY <1>1, <2>1, <2>2, WriteType
<1>5. CASE CommitEnable(r)
  <2> DEFINE mine == [mem[r].loaded EXCEPT !.totp_enabled = TRUE]
  <2>1. Write(r, mine)
    BY <1>5 DEF CommitEnable
  <2>2. /\ mine \in UserRow /\ mine.locked_until = mem[r].loaded.locked_until
         /\ mine.failed_login_count = mem[r].loaded.failed_login_count
    BY <1>1, <1>2, CopyType DEF UserRow
  <2>3. QED
    BY <1>1, <2>1, <2>2, WriteType
<1>6. CASE CommitDisable(r)
  <2> DEFINE mine == [mem[r].loaded EXCEPT !.totp_enabled = FALSE, !.totp_secret = None]
  <2>1. Write(r, mine)
    BY <1>6 DEF CommitDisable
  <2>2. /\ mine \in UserRow /\ mine.locked_until = mem[r].loaded.locked_until
         /\ mine.failed_login_count = mem[r].loaded.failed_login_count
    BY <1>1, <1>2, CopyType DEF UserRow
  <2>3. QED
    BY <1>1, <2>1, <2>2, WriteType
<1>7. QED
  BY <1>3, <1>4, <1>5, <1>6

\* A PIN that is set comes with the lock as it is stored.
LEMMA PinKeepsLock ==
  ASSUME IInv, AccessAssumption, NEW pin \in Pins, SetPin(pin)
  PROVE  user' \in UserRow /\ user'.locked_until <= now + LockoutTime
BY DEF IInv, LockIsTimeBoxed, AccessTypeOK, UserRow, SetPin

\* A request that checked a PIN writes a lock that ends in time, or none.
LEMMA LoginLock ==
  ASSUME IInv, AccessAssumption, NEW r \in Requests, at[r] = "login",
         NEW mine \in UserRow, Write(r, mine),
         \/ mine.locked_until = mem[r].loaded.locked_until
         \/ mine.locked_until = mem[r].when + LockoutTime
         \/ mine.locked_until = Never
  PROVE  /\ user' \in UserRow /\ user'.locked_until <= now + LockoutTime
         /\ user'.locked_until < user.locked_until /\ IsLocked(user, now) =>
              mem[r].loaded.locked_until # user.locked_until
<1>1. /\ user' \in UserRow /\ mem[r] \in Copy /\ mem[r].loaded \in UserRow
      /\ user'.locked_until =
           IF mine.locked_until = mem[r].loaded.locked_until THEN user.locked_until
           ELSE mine.locked_until
  BY WriteType DEF IInv
<1>2. /\ mem[r].when \in Nat /\ mem[r].loaded.locked_until \in Nat /\ user.locked_until \in Nat
      /\ now \in Nat /\ LockoutTime \in Nat
  BY <1>1 DEF IInv, AccessTypeOK, Copy, UserRow, AccessAssumption
<1>3. mem[r].when <= now /\ mem[r].loaded.locked_until <= mem[r].when
  BY <1>2 DEF IInv, SawNoLock, IsLocked
<1>4. user.locked_until <= now + LockoutTime
  BY DEF IInv, LockIsTimeBoxed
<1>5. QED
  BY <1>1, <1>2, <1>3, <1>4 DEF IsLocked, Never

\* The failure that fills the count sets the lock; others leave it alone.
LEMMA FailureLock ==
  ASSUME NEW row \in UserRow, NEW time \in Nat
  PROVE  RegisterFailure(row, time).locked_until \in {row.locked_until, time + LockoutTime}
BY DEF RegisterFailure, UserRow

LEMMA NextIInv ==
  ASSUME AccessAssumption, IInv, [AccessNext]_accessVars
  PROVE  IInv'
<1> USE AccessAssumption
<1>t. AccessTypeOK
  BY DEF IInv
<1>0. CASE UNCHANGED accessVars
  BY <1>0 DEF IInv, accessVars, AccessTypeOK, LockIsTimeBoxed, SawNoLock, IsLocked
<1>1. ASSUME NEW r \in Requests, BeginLogin(r) PROVE IInv'
  <2>1. Begin(r, "login", None)
    BY <1>1 DEF BeginLogin
  <2>2. QED
    BY <1>1, <2>1, <1>t, BeginIInv DEF BeginLogin, AccessTypeOK, Doing, TwoFactor
<1>2. ASSUME NEW r \in Requests, BeginChangePin(r) PROVE IInv'
  <2>1. Begin(r, "change", None)
    BY <1>2 DEF BeginChangePin
  <2>2. QED
    BY <1>2, <2>1, <1>t, BeginIInv DEF BeginChangePin, AccessTypeOK, Doing, TwoFactor
<1>3. ASSUME NEW r \in Requests, BeginUpdateAgent(r) PROVE IInv'
  <2>1. Begin(r, "update", None)
    BY <1>3 DEF BeginUpdateAgent
  <2>2. QED
    BY <1>3, <2>1, <1>t, BeginIInv DEF BeginUpdateAgent, AccessTypeOK, Doing, TwoFactor
<1>4. ASSUME NEW r \in Requests, BeginResetAgentPin(r) PROVE IInv'
  <2>1. Begin(r, "repin", None)
    BY <1>4 DEF BeginResetAgentPin
  <2>2. QED
    BY <1>4, <2>1, <1>t, BeginIInv DEF BeginResetAgentPin, AccessTypeOK, Doing, TwoFactor
<1>5. ASSUME NEW r \in Requests, BeginSetup(r) PROVE IInv'
  <2>1. Begin(r, "setup", None)
    BY <1>5 DEF BeginSetup
  <2>2. QED
    BY <1>5, <2>1, <1>t, BeginIInv DEF BeginSetup, AccessTypeOK, Doing, TwoFactor
<1>6. ASSUME NEW r \in Requests, BeginEnable(r) PROVE IInv'
  <2>1. Begin(r, "enable", None)
    BY <1>6 DEF BeginEnable
  <2>2. QED
    BY <1>6, <2>1, <1>t, BeginIInv DEF BeginEnable, AccessTypeOK, Doing, TwoFactor
<1>7. ASSUME NEW r \in Requests, BeginDisable(r) PROVE IInv'
  <2>1. Begin(r, "disable", None)
    BY <1>7 DEF BeginDisable
  <2>2. QED
    BY <1>7, <2>1, <1>t, BeginIInv DEF BeginDisable, AccessTypeOK, Doing, TwoFactor
<1>8. ASSUME NEW r \in Requests, BeginForgotPin(r) PROVE IInv'
  <2>1. PICK l \in Links :
          /\ link' = [link EXCEPT ![l] = [state |-> "mailed", expires_at |-> now + ResetTime]]
          /\ Begin(r, "forgot", l)
    BY <1>8 DEF BeginForgotPin
  <2>2. link' \in [Links -> [state: LinkState, expires_at: Nat]]
    BY <2>1, <1>t DEF AccessTypeOK, AccessAssumption, LinkState
  <2>3. QED
    BY <1>8, <2>1, <2>2, BeginIInv DEF BeginForgotPin, Doing
<1>9. ASSUME NEW r \in Requests, BeginResetPin(r) PROVE IInv'
  <2>1. PICK l \in Links : Begin(r, "reset", l)
    BY <1>9 DEF BeginResetPin
  <2>2. QED
    BY <1>9, <2>1, <1>t, BeginIInv DEF BeginResetPin, AccessTypeOK, Doing
<1>10. ASSUME NEW r \in Requests, LoginWrongPin(r) PROVE IInv'
  <2> DEFINE mine == RegisterFailure(mem[r].loaded, mem[r].when)
  <2>1. at[r] = "login" /\ Write(r, mine) /\ End(r) /\ wrong' \in Nat
    BY <1>10, <1>t DEF LoginWrongPin, AccessTypeOK
  <2>2. mem[r].loaded \in UserRow /\ mem[r].when \in Nat /\ mine \in UserRow
    BY <2>1, <1>t, CopyType
  <2>3. mine.locked_until \in {mem[r].loaded.locked_until, mem[r].when + LockoutTime}
    BY <2>2, FailureLock
  <2> HIDE DEF mine
  <2>4. user' \in UserRow /\ user'.locked_until <= now + LockoutTime
    BY <2>1, <2>2, <2>3, LoginLock
  <2>5. QED
    BY <1>10, <1>t, <2>1, <2>4, EndIInv DEF LoginWrongPin, AccessTypeOK
<1>11. ASSUME NEW r \in Requests, LoginRightPin(r) PROVE IInv'
  <2> DEFINE mine == [mem[r].loaded EXCEPT !.failed_login_count = 0, !.locked_until = Never]
  <2>1. /\ at[r] = "login" /\ Write(r, mine) /\ End(r) /\ wrong' = 0
        /\ {sessionUntil', challengeUntil'} \subseteq Nat
    BY <1>11, <1>t DEF LoginRightPin, AccessTypeOK, IssueChallenge, IssueSession, Later,
       AccessAssumption
  <2>2. mem[r].loaded \in UserRow /\ mine \in UserRow
    BY <2>1, <1>t, CopyType
  <2>3. mine.locked_until = Never
    BY <2>2 DEF UserRow
  <2> HIDE DEF mine
  <2>4. user' \in UserRow /\ user'.locked_until <= now + LockoutTime
    BY <2>1, <2>2, <2>3, LoginLock
  <2>5. QED
    BY <1>11, <1>t, <2>1, <2>4, EndIInv DEF LoginRightPin, AccessTypeOK
<1>12. ASSUME NEW r \in Requests, CommitForgotPin(r) PROVE IInv'
  <2>1. link' \in [Links -> [state: LinkState, expires_at: Nat]]
    BY <1>12, <1>t DEF CommitForgotPin, AccessTypeOK, LinkState
  <2>2. user' \in UserRow /\ user'.locked_until <= now + LockoutTime
    BY <1>12, <1>t DEF CommitForgotPin, AccessTypeOK, IInv, LockIsTimeBoxed
  <2>3. QED
    BY <1>12, <1>t, <2>1, <2>2, EndIInv DEF CommitForgotPin, AccessTypeOK
<1>13. ASSUME NEW r \in Requests, CommitResetPin(r) PROVE IInv'
  <2>1. link' \in [Links -> [state: LinkState, expires_at: Nat]]
    BY <1>13, <1>t DEF CommitResetPin, AccessTypeOK, LinkState
  <2>2. uses' \in [Links -> Nat]
    <3>1. uses' = [uses EXCEPT ![mem[r].link] = uses[mem[r].link] + 1]
      BY <1>13 DEF CommitResetPin
    <3>2. uses \in [Links -> Nat] /\ \A l \in Links : uses[l] + 1 \in Nat
      BY <1>t DEF AccessTypeOK
    <3>3. QED
      BY <3>1, <3>2
  <2>3. user' \in UserRow /\ user'.locked_until <= now + LockoutTime
    BY <1>13, PinKeepsLock DEF CommitResetPin
  <2>4. raced' \in [Links -> SUBSET Requests]
    BY <1>13, <1>t DEF CommitResetPin, AccessTypeOK, OthersWith, Left
  <2>5. QED
    BY <1>13, <1>t, <2>1, <2>2, <2>3, <2>4, EndIInv DEF CommitResetPin, AccessTypeOK
<1>14. ASSUME NEW r \in Requests, CommitChangePin(r) PROVE IInv'
  <2>1. user' \in UserRow /\ user'.locked_until <= now + LockoutTime
    BY <1>14, PinKeepsLock DEF CommitChangePin
  <2>2. QED
    BY <1>14, <1>t, <2>1, EndIInv DEF CommitChangePin, AccessTypeOK
<1>15. ASSUME NEW r \in Requests, CommitResetAgentPin(r) PROVE IInv'
  <2>1. user' \in UserRow /\ user'.locked_until <= now + LockoutTime
    BY <1>15, PinKeepsLock DEF CommitResetAgentPin
  <2>2. QED
    BY <1>15, <1>t, <2>1, EndIInv DEF CommitResetAgentPin, AccessTypeOK
<1>16. ASSUME NEW r \in Requests, CommitUpdateAgent(r) PROVE IInv'
  <2>1. user' \in UserRow /\ user'.locked_until <= now + LockoutTime
    BY <1>16, <1>t, OthersKeepLock DEF IInv, LockIsTimeBoxed
  <2>2. QED
    BY <1>16, <1>t, <2>1, EndIInv DEF CommitUpdateAgent, AccessTypeOK
<1>17. ASSUME NEW r \in Requests, CommitSetup(r) PROVE IInv'
  <2>1. user' \in UserRow /\ user'.locked_until <= now + LockoutTime
    BY <1>17, <1>t, OthersKeepLock DEF IInv, LockIsTimeBoxed
  <2>2. QED
    BY <1>17, <1>t, <2>1, EndIInv DEF CommitSetup, AccessTypeOK, NoteOverlap
<1>18. ASSUME NEW r \in Requests, CommitEnable(r) PROVE IInv'
  <2>1. user' \in UserRow /\ user'.locked_until <= now + LockoutTime
    BY <1>18, <1>t, OthersKeepLock DEF IInv, LockIsTimeBoxed
  <2>2. confirmed' \in Secrets \cup {None}
    BY <1>18, <1>t, CopyType DEF CommitEnable, UserRow
  <2>3. QED
    BY <1>18, <1>t, <2>1, <2>2, EndIInv DEF CommitEnable, AccessTypeOK, NoteOverlap
<1>19. ASSUME NEW r \in Requests, CommitDisable(r) PROVE IInv'
  <2>1. user' \in UserRow /\ user'.locked_until <= now + LockoutTime
    BY <1>19, <1>t, OthersKeepLock DEF IInv, LockIsTimeBoxed
  <2>2. QED
    BY <1>19, <1>t, <2>1, EndIInv DEF CommitDisable, AccessTypeOK, NoteOverlap
<1>20. ASSUME NEW r \in Requests, AbortRequest(r) PROVE IInv'
  <2>1. raced' \in [Links -> SUBSET Requests]
    BY <1>20, <1>t DEF AbortRequest, AccessTypeOK, Left
  <2>2. QED
    BY <1>20, <1>t, <2>1, EndIInv DEF AbortRequest, AccessTypeOK, IInv, LockIsTimeBoxed
<1>21. CASE LoginVerify
  <2>1. AccessTypeOK'
    BY <1>21, <1>t DEF LoginVerify, AccessTypeOK, IssueSession, Later, AccessAssumption
  <2>2. QED
    BY <1>21, <2>1 DEF LoginVerify, IInv, LockIsTimeBoxed, SawNoLock, IsLocked
<1>22. CASE SetMfiStatus
  <2>1. AccessTypeOK'
    BY <1>22, <1>t DEF SetMfiStatus, AccessTypeOK
  <2>2. QED
    BY <1>22, <2>1 DEF SetMfiStatus, IInv, LockIsTimeBoxed, SawNoLock, IsLocked
<1>23. CASE SeedAdmin
  <2>1. user' \in UserRow /\ user'.locked_until = user.locked_until
    BY <1>23, <1>t DEF SeedAdmin, AccessTypeOK, UserRow
  <2>2. confirmed' \in Secrets \cup {None} /\ overlapped' \in BOOLEAN
    BY <1>23, <1>t DEF SeedAdmin, AccessTypeOK
  <2>3. AccessTypeOK'
    BY <1>23, <1>t, <2>1, <2>2 DEF SeedAdmin, AccessTypeOK
  <2>4. QED
    BY <1>23, <2>1, <2>3 DEF SeedAdmin, IInv, LockIsTimeBoxed, SawNoLock, IsLocked
<1>24. CASE Tick
  <2>1. AccessTypeOK' /\ now' = now + 1
    BY <1>24, <1>t DEF Tick, AccessTypeOK
  <2>2. LockIsTimeBoxed'
    BY <1>24, <1>t, <2>1 DEF Tick, IInv, LockIsTimeBoxed, AccessTypeOK, UserRow,
       AccessAssumption
  <2>3. ASSUME NEW r \in Requests, at'[r] = "login" PROVE SawNoLock(r)'
    <3>1. SawNoLock(r) /\ mem' = mem /\ mem[r].when \in Nat /\ now \in Nat
      BY <1>24, <1>t, <2>3 DEF Tick, IInv, AccessTypeOK, Copy
    <3>2. QED
      BY <2>1, <3>1 DEF SawNoLock, IsLocked
  <2>4. QED
    BY <2>1, <2>2, <2>3 DEF IInv
<1>25. QED
  BY <1>0, <1>1, <1>2, <1>3, <1>4, <1>5, <1>6, <1>7, <1>8, <1>9, <1>10, <1>11, <1>12,
     <1>13, <1>14, <1>15, <1>16, <1>17, <1>18, <1>19, <1>20, <1>21, <1>22, <1>23,
     <1>24 DEF AccessNext

-----------------------------------------------------------------------------
(* Staff accounts: what follows.                                           *)

\* The variables of Access keep their types, for any number of requests at a
\* time, PINs, secrets and links.
THEOREM AccessTypeCorrect == AccessSpec => []AccessTypeOK
<1>1. AccessInit => IInv
  BY InitIInv, AccessAssumption
<1>2. IInv /\ [AccessNext]_accessVars => IInv'
  BY NextIInv, AccessAssumption
<1>3. IInv => AccessTypeOK
  BY DEF IInv
<1>4. QED
  BY <1>1, <1>2, <1>3, PTL DEF AccessSpec

\* "Lockout is always time-boxed": however old the copy from which a failure is
\* written, the lock ends within the lockout time from now.
THEOREM LockNeverOutlasts == AccessSpec => []LockIsTimeBoxed
<1>1. AccessInit => IInv
  BY InitIInv, AccessAssumption
<1>2. IInv /\ [AccessNext]_accessVars => IInv'
  BY NextIInv, AccessAssumption
<1>3. IInv => LockIsTimeBoxed
  BY DEF IInv
<1>4. QED
  BY <1>1, <1>2, <1>3, PTL DEF AccessSpec

\* One step lifts or shortens a lock in force only if it ends a login whose copy
\* of the row is from before the lock was written.
LiftedByOverlap ==
  IsLocked(user, now) /\ user'.locked_until < user.locked_until =>
    \E r \in Requests :
      /\ at[r] = "login" /\ at'[r] = "idle"
      /\ mem[r].loaded.locked_until # user.locked_until

LEMMA StepLifts ==
  ASSUME AccessAssumption, IInv, [AccessNext]_accessVars
  PROVE  LiftedByOverlap
<1> USE AccessAssumption
<1> SUFFICES ASSUME IsLocked(user, now), user'.locked_until < user.locked_until
             PROVE  \E r \in Requests :
                      /\ at[r] = "login" /\ at'[r] = "idle"
                      /\ mem[r].loaded.locked_until # user.locked_until
  BY DEF LiftedByOverlap
<1>t. AccessTypeOK /\ user \in UserRow /\ user.locked_until \in Nat
  BY DEF IInv, AccessTypeOK, UserRow
<1>n. user'.locked_until # user.locked_until
  BY <1>t
<1>1. ASSUME NEW r \in Requests, LoginWrongPin(r)
      PROVE  \E q \in Requests : /\ at[q] = "login" /\ at'[q] = "idle"
                                 /\ mem[q].loaded.locked_until # user.locked_until
  <2> DEFINE mine == RegisterFailure(mem[r].loaded, mem[r].when)
  <2>1. at[r] = "login" /\ Write(r, mine) /\ End(r)
    BY <1>1 DEF LoginWrongPin
  <2>2. mem[r].loaded \in UserRow /\ mem[r].when \in Nat /\ mine \in UserRow
    BY <2>1, <1>t, CopyType
  <2>3. mine.locked_until \in {mem[r].loaded.locked_until, mem[r].when + LockoutTime}
    BY <2>2, FailureLock
  <2> HIDE DEF mine
  <2>4. mem[r].loaded.locked_until # user.locked_until
    BY <2>1, <2>2, <2>3, LoginLock
  <2>5. QED
    BY <2>1, <2>4, <1>t, EndType
<1>2. ASSUME NEW r \in Requests, LoginRightPin(r)
      PROVE  \E q \in Requests : /\ at[q] = "login" /\ at'[q] = "idle"
                                 /\ mem[q].loaded.locked_until # user.locked_until
  <2> DEFINE mine == [mem[r].loaded EXCEPT !.failed_login_count = 0, !.locked_until = Never]
  <2>1. at[r] = "login" /\ Write(r, mine) /\ End(r)
    BY <1>2 DEF LoginRightPin
  <2>2. mem[r].loaded \in UserRow /\ mine \in UserRow
    BY <2>1, <1>t, CopyType
  <2>3. mine.locked_until = Never
    BY <2>2 DEF UserRow
  <2> HIDE DEF mine
  <2>4. mem[r].loaded.locked_until # user.locked_until
    BY <2>1, <2>2, <2>3, LoginLock
  <2>5. QED
    BY <2>1, <2>4, <1>t, EndType
\* Every other step leaves the column alone.
<1>3. ASSUME NEW r \in Requests,
             CommitUpdateAgent(r) \/ CommitSetup(r) \/ CommitEnable(r) \/ CommitDisable(r)
      PROVE  FALSE
  BY <1>3, <1>t, <1>n, OthersKeepLock
<1>4. ASSUME NEW r \in Requests,
             CommitResetPin(r) \/ CommitChangePin(r) \/ CommitResetAgentPin(r)
      PROVE  FALSE
  <2>1. PICK pin \in Pins : SetPin(pin)
    BY <1>4 DEF CommitResetPin, CommitChangePin, CommitResetAgentPin
  <2>2. QED
    BY <2>1, <1>t, <1>n DEF SetPin, UserRow
<1>5. ASSUME SeedAdmin PROVE FALSE
  BY <1>5, <1>t, <1>n DEF SeedAdmin, UserRow
<1>6. ASSUME UNCHANGED user PROVE FALSE
  BY <1>6, <1>n
<1>7. ASSUME NEW r \in Requests,
             \/ BeginLogin(r) \/ BeginForgotPin(r) \/ CommitForgotPin(r) \/ BeginResetPin(r)
             \/ BeginChangePin(r) \/ BeginUpdateAgent(r) \/ BeginResetAgentPin(r)
             \/ BeginSetup(r) \/ BeginEnable(r) \/ BeginDisable(r) \/ AbortRequest(r)
      PROVE  UNCHANGED user
  BY <1>7 DEF BeginLogin, BeginForgotPin, CommitForgotPin, BeginResetPin, BeginChangePin,
     BeginUpdateAgent, BeginResetAgentPin, BeginSetup, BeginEnable, BeginDisable, AbortRequest
<1>8. ASSUME \/ LoginVerify \/ SetMfiStatus \/ Tick \/ UNCHANGED accessVars
      PROVE  UNCHANGED user
  BY <1>8 DEF LoginVerify, SetMfiStatus, Tick, accessVars
<1>9. QED
  BY <1>1, <1>2, <1>3, <1>4, <1>5, <1>6, <1>7, <1>8 DEF AccessNext

\* A lock in force is lifted or shortened only by a login that overlapped the
\* one that wrote it, for any number of requests at a time.
THEOREM LockIsKept == AccessSpec => LockLiftedOnlyByOverlap
<1>1. AccessInit => IInv
  BY InitIInv, AccessAssumption
<1>2. IInv /\ [AccessNext]_accessVars => IInv'
  BY NextIInv, AccessAssumption
<1>3. IInv /\ [AccessNext]_accessVars => [LiftedByOverlap]_accessVars
  BY StepLifts, AccessAssumption
<1>4. QED
  BY <1>1, <1>2, <1>3, PTL DEF AccessSpec, LockLiftedOnlyByOverlap, LiftedByOverlap

-----------------------------------------------------------------------------
(* Staff accounts: how many PINs can be tried.                             *)
(*                                                                         *)
(* A failure is counted from the copy the login loaded, so with two        *)
(* requests at a time a slow one can set the count back to its own value   *)
(* plus one.  The wrong PINs since the last lock are still paid for: a     *)
(* count of k was reached with at most Allowed(k) / 2 of them, the sum of  *)
(* the k largest numbers up to LoginMaxAttempts, and a login that holds an *)
(* older count cannot set the account back below what it has paid.         *)

Allowed(k) == k * (2 * LoginMaxAttempts + 1 - k)

Count == user.failed_login_count

Held(r) == mem[r].loaded.failed_login_count

GuessInv ==
  /\ Count < LoginMaxAttempts
  /\ 2 * wrong <= Allowed(Count)
  /\ \A r \in Requests : at[r] = "login" =>
       Held(r) < LoginMaxAttempts /\ 2 * wrong <= Allowed(Held(r)) + 2 * (Count - Held(r))
  /\ \A r, q \in Requests : r # q /\ at[r] = "login" /\ at[q] = "login" =>
       Count \in {Held(r), Held(q)}

\* There are two requests at a time.
TwoAtATime == \A r, q, s \in Requests : r = q \/ r = s \/ q = s

LEMMA TwoRequests ==
  ASSUME AccessAssumption, Cardinality(Requests) = 2
  PROVE  TwoAtATime
<1>1. IsFiniteSet(Requests)
  BY DEF AccessAssumption
<1>2. SUFFICES ASSUME NEW r \in Requests, NEW q \in Requests, NEW s \in Requests,
                      r # q, r # s, q # s
               PROVE  FALSE
  BY DEF TwoAtATime
<1>3. IsFiniteSet(Requests \ {r}) /\ Cardinality(Requests \ {r}) = 1
  BY <1>1, FS_RemoveElement
<1>4. /\ IsFiniteSet((Requests \ {r}) \ {q})
      /\ Cardinality((Requests \ {r}) \ {q}) = 0
  <2> DEFINE rest == Requests \ {r}
  <2>1. IsFiniteSet(rest) /\ Cardinality(rest) = 1 /\ q \in rest
    BY <1>2, <1>3
  <2> HIDE DEF rest
  <2>2. IsFiniteSet(rest \ {q}) /\ Cardinality(rest \ {q}) = 1 - 1
    BY <2>1, FS_RemoveElement
  <2>3. QED
    BY <2>2 DEF rest
<1>5. (Requests \ {r}) \ {q} = {}
  BY <1>4, FS_EmptySet
<1>6. QED
  BY <1>2, <1>5

\* One more failure costs one of the numbers that are left.
LEMMA AllowedNext ==
  ASSUME LoginMaxAttempts \in Nat, NEW k \in Nat
  PROVE  /\ Allowed(k) \in Int
         /\ Allowed(k + 1) = Allowed(k) + 2 * (LoginMaxAttempts - k)
BY DEF Allowed

\* Each failure up to the last is worth at least one wrong PIN.
LEMMA AllowedGrows ==
  ASSUME LoginMaxAttempts \in Nat, NEW i \in Nat, NEW j \in Nat,
         i <= j, j <= LoginMaxAttempts
  PROVE  Allowed(j) >= Allowed(i) + 2 * (j - i)
<1>0. CASE i = j
  BY <1>0 DEF Allowed
<1> DEFINE more == 2 * LoginMaxAttempts - 1 - i - j
<1>1. CASE i < j
  <2>1. j - i \in Nat /\ more \in Nat
    BY <1>1
  <2>2. (j - i) * more \in Nat
    BY <2>1
  <2>3. Allowed(j) - Allowed(i) - 2 * (j - i) = (j - i) * more
    BY DEF Allowed
  <2>4. Allowed(j) \in Int /\ Allowed(i) \in Int
    BY DEF Allowed
  <2> HIDE DEF more
  <2>5. QED
    BY <2>2, <2>3, <2>4
<1>2. QED
  BY <1>0, <1>1

\* A copy that may be written holds a count that has not been spent.
LEMMA AllowedCovers ==
  ASSUME LoginMaxAttempts \in Nat, NEW c \in Nat, NEW k \in Nat, k < LoginMaxAttempts
  PROVE  0 <= Allowed(k) + 2 * (c - k)
<1>1. Allowed(k) >= Allowed(0) + 2 * k
  BY AllowedGrows
<1>2. Allowed(0) = 0 /\ Allowed(k) \in Int
  BY DEF Allowed
<1>3. QED
  BY <1>1, <1>2

\* The row, the copies of the logins and the numbers in the invariant.
LEMMA CountType ==
  ASSUME IInv, AccessAssumption
  PROVE  /\ Count \in Nat /\ wrong \in Nat /\ LoginMaxAttempts \in Nat \ {0}
         /\ \A r \in Requests : at[r] # "idle" => Held(r) \in Nat
BY DEF IInv, AccessTypeOK, AccessAssumption, Count, Held, UserRow, Copy

\* A step that counts nothing and lets no login begin.
LEMMA QuietStep ==
  ASSUME GuessInv, wrong' = wrong, user'.failed_login_count = user.failed_login_count,
         \A q \in Requests : at'[q] = "login" => at[q] = "login" /\ mem'[q] = mem[q]
  PROVE  GuessInv'
BY DEF GuessInv, Count, Held, Allowed

\* A login that begins holds the count as it is.
LEMMA BeginGuess ==
  ASSUME IInv, AccessAssumption, GuessInv, TwoAtATime, NEW r \in Requests, BeginLogin(r)
  PROVE  GuessInv'
<1>1. /\ wrong' = wrong /\ Count' = Count /\ Held(r)' = Count
      /\ \A q \in Requests \ {r} : at'[q] = at[q] /\ mem'[q] = mem[q]
      /\ \A q \in Requests \ {r} : Held(q)' = Held(q)
  BY BeginType DEF IInv, BeginLogin, Count, Held, Doing, TwoFactor
<1>2. /\ Count' < LoginMaxAttempts /\ 2 * wrong' <= Allowed(Count')
  BY <1>1 DEF GuessInv
<1>3. ASSUME NEW q \in Requests, at'[q] = "login"
      PROVE  /\ Held(q)' < LoginMaxAttempts
             /\ 2 * wrong' <= Allowed(Held(q)') + 2 * (Count' - Held(q)')
  <2>1. CASE q = r
    <3>1. Count \in Nat /\ Allowed(Count) \in Int /\ wrong \in Nat
      BY CountType, AllowedNext
    <3>2. QED
      BY <2>1, <3>1, <1>1, <1>2
  <2>2. CASE q # r
    BY <2>2, <1>1, <1>3 DEF GuessInv
  <2>3. QED
    BY <2>1, <2>2
<1>4. ASSUME NEW p \in Requests, NEW q \in Requests, p # q, at'[p] = "login", at'[q] = "login"
      PROVE  Count' \in {Held(p)', Held(q)'}
  BY <1>1, <1>4 DEF GuessInv
<1>5. QED
  BY <1>2, <1>3, <1>4 DEF GuessInv, Allowed

\* What a login that ends leaves to prove: the other one, if it is a login too,
\* is the only one left.
LEMMA EndGuess ==
  ASSUME IInv, AccessAssumption, TwoAtATime, NEW r \in Requests, End(r),
         Count' < LoginMaxAttempts, 2 * wrong' <= Allowed(Count'),
         \A q \in Requests \ {r} : at[q] = "login" =>
           Held(q) < LoginMaxAttempts /\ 2 * wrong' <= Allowed(Held(q)) + 2 * (Count' - Held(q))
  PROVE  GuessInv'
<1>1. /\ at'[r] = "idle"
      /\ \A q \in Requests \ {r} : at'[q] = at[q] /\ Held(q)' = Held(q)
  BY EndType DEF IInv, Held
<1>2. ASSUME NEW q \in Requests, at'[q] = "login"
      PROVE  /\ Held(q)' < LoginMaxAttempts
             /\ 2 * wrong' <= Allowed(Held(q)') + 2 * (Count' - Held(q)')
  BY <1>1, <1>2
<1>3. ASSUME NEW p \in Requests, NEW q \in Requests, p # q, at'[p] = "login", at'[q] = "login"
      PROVE  FALSE
  BY <1>1, <1>3 DEF TwoAtATime
<1>4. QED
  BY <1>2, <1>3 DEF GuessInv, Allowed

\* A wrong PIN either locks, and a new streak starts, or sets the count to one
\* more than the copy held.
LEMMA WrongGuess ==
  ASSUME IInv, AccessAssumption, LockoutTime > 0, GuessInv, TwoAtATime,
         NEW r \in Requests, LoginWrongPin(r)
  PROVE  GuessInv'
<1> DEFINE mine == RegisterFailure(mem[r].loaded, mem[r].when)
<1>1. /\ at[r] = "login" /\ Write(r, mine) /\ End(r)
      /\ wrong' = IF mine.locked_until # mem[r].loaded.locked_until THEN 0 ELSE wrong + 1
  BY DEF LoginWrongPin
<1>2. /\ mem[r].loaded \in UserRow /\ mem[r].when \in Nat /\ mine \in UserRow
      /\ LoginMaxAttempts \in Nat \ {0} /\ LockoutTime \in Nat
      /\ Count \in Nat /\ wrong \in Nat /\ Held(r) \in Nat
  BY <1>1, CopyType, CountType DEF IInv, AccessAssumption
<1>3. user'.failed_login_count =
        IF mine.failed_login_count = Held(r) THEN Count ELSE mine.failed_login_count
  BY <1>1, <1>2, WriteType DEF IInv, Count, Held
<1>4. /\ Held(r) < LoginMaxAttempts /\ Count < LoginMaxAttempts
      /\ 2 * wrong <= Allowed(Held(r)) + 2 * (Count - Held(r))
      /\ 2 * wrong <= Allowed(Count)
  BY <1>1 DEF GuessInv
<1>5. CASE Held(r) + 1 >= LoginMaxAttempts
  <2>1. mine = [mem[r].loaded EXCEPT !.failed_login_count = 0,
                                     !.locked_until = mem[r].when + LockoutTime]
    BY <1>5 DEF RegisterFailure, Held
  <2>2. mine.failed_login_count = 0 /\ mine.locked_until = mem[r].when + LockoutTime
    BY <2>1, <1>2 DEF UserRow
  <2>3. mem[r].loaded.locked_until \in Nat /\ mem[r].loaded.locked_until <= mem[r].when
    BY <1>1, <1>2 DEF IInv, SawNoLock, IsLocked, UserRow
  <2> HIDE DEF mine
  <2>4. wrong' = 0
    BY <1>1, <1>2, <2>2, <2>3
  <2>5. Count' \in Nat /\ Count' < LoginMaxAttempts
    BY <1>2, <1>3, <1>4, <2>2 DEF Count
  <2>6. 2 * wrong' <= Allowed(Count')
    <3>1. 0 <= Allowed(Count') + 2 * (Count' - Count')
      BY <1>2, <2>5, AllowedCovers
    <3>2. Allowed(Count') \in Int
      BY <1>2, <2>5, AllowedNext
    <3>3. QED
      BY <2>4, <2>5, <3>1, <3>2
  <2>7. ASSUME NEW q \in Requests \ {r}, at[q] = "login"
        PROVE  Held(q) < LoginMaxAttempts /\ 2 * wrong' <= Allowed(Held(q)) + 2 * (Count' - Held(q))
    <3>1. Held(q) \in Nat /\ Held(q) < LoginMaxAttempts
      BY <2>7, CountType DEF GuessInv
    <3>2. 0 <= Allowed(Held(q)) + 2 * (Count' - Held(q))
      BY <1>2, <2>5, <3>1, AllowedCovers
    <3>3. QED
      BY <2>4, <3>1, <3>2
  <2>8. QED
    BY <1>1, <2>5, <2>6, <2>7, EndGuess
<1>6. CASE ~(Held(r) + 1 >= LoginMaxAttempts)
  <2>1. mine = [mem[r].loaded EXCEPT !.failed_login_count = Held(r) + 1]
    BY <1>6 DEF RegisterFailure, Held
  <2>2. mine.failed_login_count = Held(r) + 1
        /\ mine.locked_until = mem[r].loaded.locked_until
    BY <2>1, <1>2 DEF UserRow
  <2> HIDE DEF mine
  <2>3. wrong' = wrong + 1 /\ Count' = Held(r) + 1 /\ Count' < LoginMaxAttempts
    BY <1>1, <1>2, <1>3, <1>6, <2>2 DEF Count
  <2> DEFINE h == Held(r)
  <2>4. /\ Allowed(h) \in Int /\ Allowed(h + 1) \in Int
        /\ Allowed(h + 1) = Allowed(h) + 2 * (LoginMaxAttempts - h)
    BY <1>2, AllowedNext
  <2>5. 2 * (wrong + 1) <= Allowed(h + 1)
    BY <1>2, <1>4, <2>4
  <2>6. ASSUME NEW q \in Requests \ {r}, at[q] = "login"
        PROVE  /\ Held(q) < LoginMaxAttempts
               /\ 2 * (wrong + 1) <= Allowed(Held(q)) + 2 * (h + 1 - Held(q))
    <3> DEFINE o == Held(q)
    <3>1. /\ o \in Nat /\ o < LoginMaxAttempts /\ Allowed(o) \in Int
          /\ 2 * wrong <= Allowed(o) + 2 * (Count - o)
      BY <2>6, <1>2, CountType, AllowedNext DEF GuessInv
    <3>2. Count = h \/ Count = o
      BY <1>1, <2>6 DEF GuessInv
    <3>3. CASE Count = h
      BY <1>2, <3>1, <3>3
    <3>4. CASE Count = o /\ o <= h
      BY <1>2, <1>4, <3>1, <3>4
    <3>5. CASE h + 1 <= o
      <4>1. Allowed(o) >= Allowed(h + 1) + 2 * (o - (h + 1))
        BY <1>2, <3>1, <3>5, AllowedGrows
      <4>2. QED
        BY <1>2, <2>4, <2>5, <3>1, <4>1
    <3>6. QED
      BY <1>2, <3>1, <3>2, <3>3, <3>4, <3>5
  <2>7. 2 * wrong' <= Allowed(Count')
    BY <2>3, <2>5
  <2>8. ASSUME NEW q \in Requests \ {r}, at[q] = "login"
        PROVE  Held(q) < LoginMaxAttempts /\ 2 * wrong' <= Allowed(Held(q)) + 2 * (Count' - Held(q))
    <3>1. Held(q) < LoginMaxAttempts /\ 2 * (wrong + 1) <= Allowed(Held(q)) + 2 * (h + 1 - Held(q))
      BY <2>6, <2>8
    <3> HIDE DEF h
    <3>2. wrong' = wrong + 1 /\ Count' = h + 1 /\ wrong \in Nat /\ h \in Nat
      BY <1>2, <2>3 DEF h
    <3>3. Held(q) \in Nat /\ Allowed(Held(q)) \in Int
      BY <1>2, <2>8, CountType, AllowedNext
    <3>4. QED
      BY <3>1, <3>2, <3>3
  <2>9. QED
    BY <1>1, <2>3, <2>7, <2>8, EndGuess
<1>7. QED
  BY <1>5, <1>6

\* The right PIN starts a new streak.
LEMMA RightGuess ==
  ASSUME IInv, AccessAssumption, GuessInv, TwoAtATime, NEW r \in Requests, LoginRightPin(r)
  PROVE  GuessInv'
<1> DEFINE mine == [mem[r].loaded EXCEPT !.failed_login_count = 0, !.locked_until = Never]
<1>1. at[r] = "login" /\ Write(r, mine) /\ End(r) /\ wrong' = 0
  BY DEF LoginRightPin
<1>2. /\ mem[r].loaded \in UserRow /\ mine \in UserRow /\ mine.failed_login_count = 0
      /\ LoginMaxAttempts \in Nat \ {0} /\ Count \in Nat
  BY <1>1, CopyType, CountType DEF IInv, UserRow
<1> HIDE DEF mine
<1>3. user'.failed_login_count \in {0, Count}
  BY <1>1, <1>2, WriteType DEF IInv, Count
<1>4. Count' \in Nat /\ Count' < LoginMaxAttempts
  BY <1>2, <1>3 DEF GuessInv, Count
<1>5. 2 * wrong' <= Allowed(Count')
  <2>1. 0 <= Allowed(Count') + 2 * (Count' - Count') /\ Allowed(Count') \in Int
    BY <1>2, <1>4, AllowedCovers, AllowedNext
  <2>2. QED
    BY <1>1, <1>4, <2>1
<1>6. ASSUME NEW q \in Requests \ {r}, at[q] = "login"
      PROVE  Held(q) < LoginMaxAttempts /\ 2 * wrong' <= Allowed(Held(q)) + 2 * (Count' - Held(q))
  <2>1. Held(q) \in Nat /\ Held(q) < LoginMaxAttempts
    BY <1>6, CountType DEF GuessInv
  <2>2. 0 <= Allowed(Held(q)) + 2 * (Count' - Held(q))
    BY <1>2, <1>4, <2>1, AllowedCovers
  <2>3. QED
    BY <1>1, <2>1, <2>2
<1>7. QED
  BY <1>1, <1>4, <1>5, <1>6, EndGuess

LEMMA NextGuess ==
  ASSUME AccessAssumption, LockoutTime > 0, TwoAtATime, IInv, GuessInv,
         [AccessNext]_accessVars
  PROVE  GuessInv'
<1> USE AccessAssumption
<1>t. AccessTypeOK /\ user \in UserRow
  BY DEF IInv, AccessTypeOK
<1>1. ASSUME NEW r \in Requests, LoginWrongPin(r) PROVE GuessInv'
  BY <1>1, WrongGuess
<1>2. ASSUME NEW r \in Requests, LoginRightPin(r) PROVE GuessInv'
  BY <1>2, RightGuess
<1>3. ASSUME NEW r \in Requests, BeginLogin(r) PROVE GuessInv'
  BY <1>3, BeginGuess
<1>4. ASSUME NEW r \in Requests, NEW what \in Doing \ {"idle", "login"},
             NEW l \in Links \cup {None}, Begin(r, what, l), UNCHANGED <<user, wrong>>
      PROVE  GuessInv'
  <2>1. \A q \in Requests : at'[q] = "login" => at[q] = "login" /\ mem'[q] = mem[q]
    BY <1>4, <1>t, BeginType
  <2>2. QED
    BY <1>4, <2>1, QuietStep
<1>5. ASSUME NEW r \in Requests, End(r), wrong' = wrong,
             user'.failed_login_count = user.failed_login_count
      PROVE  GuessInv'
  <2>1. \A q \in Requests : at'[q] = "login" => at[q] = "login" /\ mem'[q] = mem[q]
    BY <1>5, <1>t, EndType
  <2>2. QED
    BY <1>5, <2>1, QuietStep
<1>6. ASSUME NEW r \in Requests,
             \/ BeginResetPin(r) \/ BeginForgotPin(r) \/ BeginChangePin(r) \/ BeginUpdateAgent(r)
             \/ BeginResetAgentPin(r) \/ BeginSetup(r) \/ BeginEnable(r) \/ BeginDisable(r)
      PROVE  GuessInv'
  <2>1. /\ \E what \in Doing \ {"idle", "login"}, l \in Links \cup {None} : Begin(r, what, l)
        /\ UNCHANGED <<user, wrong>>
    BY <1>6 DEF BeginResetPin, BeginForgotPin, BeginChangePin, BeginUpdateAgent,
       BeginResetAgentPin, BeginSetup, BeginEnable, BeginDisable, Doing, TwoFactor
  <2>2. QED
    BY <2>1, <1>4
<1>7. ASSUME NEW r \in Requests,
             CommitUpdateAgent(r) \/ CommitSetup(r) \/ CommitEnable(r) \/ CommitDisable(r)
      PROVE  GuessInv'
  <2>1. End(r) /\ wrong' = wrong
    BY <1>7 DEF CommitUpdateAgent, CommitSetup, CommitEnable, CommitDisable
  <2>2. QED
    BY <1>7, <1>t, <2>1, <1>5, OthersKeepLock
<1>8. ASSUME NEW r \in Requests,
             CommitResetPin(r) \/ CommitChangePin(r) \/ CommitResetAgentPin(r)
      PROVE  GuessInv'
  <2>1. End(r) /\ wrong' = wrong /\ \E pin \in Pins : SetPin(pin)
    BY <1>8 DEF CommitResetPin, CommitChangePin, CommitResetAgentPin
  <2>2. user'.failed_login_count = user.failed_login_count
    BY <2>1, <1>t DEF SetPin, UserRow
  <2>3. QED
    BY <2>1, <2>2, <1>5
<1>9. ASSUME NEW r \in Requests, CommitForgotPin(r) \/ AbortRequest(r) PROVE GuessInv'
  <2>1. End(r) /\ UNCHANGED <<user, wrong>>
    BY <1>9 DEF CommitForgotPin, AbortRequest
  <2>2. QED
    BY <2>1, <1>5
<1>10. ASSUME LoginVerify \/ SetMfiStatus \/ SeedAdmin \/ Tick \/ UNCHANGED accessVars
       PROVE  GuessInv'
  <2>1. UNCHANGED <<at, mem, wrong>>
    BY <1>10 DEF LoginVerify, SetMfiStatus, SeedAdmin, Tick, accessVars
  <2>2. user'.failed_login_count = user.failed_login_count
    BY <1>10, <1>t DEF LoginVerify, SetMfiStatus, SeedAdmin, Tick, accessVars, UserRow
  <2>3. QED
    BY <2>1, <2>2, QuietStep
<1>11. QED
  BY <1>1, <1>2, <1>3, <1>6, <1>7, <1>8, <1>9, <1>10 DEF AccessNext

LEMMA GuessBound ==
  ASSUME AccessAssumption, IInv, GuessInv
  PROVE  wrong < (LoginMaxAttempts * (LoginMaxAttempts + 1)) \div 2
<1> DEFINE all == LoginMaxAttempts * (LoginMaxAttempts + 1)
<1>1. Count \in Nat /\ wrong \in Nat /\ LoginMaxAttempts \in Nat \ {0} /\ all \in Nat
  BY CountType
<1>2. Count + 1 <= LoginMaxAttempts /\ 2 * wrong <= Allowed(Count)
  BY <1>1 DEF GuessInv
<1>3. /\ Allowed(Count) \in Int
      /\ Allowed(Count + 1) = Allowed(Count) + 2 * (LoginMaxAttempts - Count)
      /\ Allowed(Count + 1) \in Int
  BY <1>1, AllowedNext
<1>4. Allowed(LoginMaxAttempts) >= Allowed(Count + 1) + 2 * (LoginMaxAttempts - (Count + 1))
  BY <1>1, <1>2, AllowedGrows
<1>5. Allowed(LoginMaxAttempts) = all
  BY <1>1 DEF Allowed
<1> HIDE DEF all
<1>6. 2 * (wrong + 1) <= all
  BY <1>1, <1>2, <1>3, <1>4, <1>5
<1>7. wrong < all \div 2
  BY <1>1, <1>6
<1>8. QED
  BY <1>7 DEF all

-----------------------------------------------------------------------------
(* Staff accounts: how many PINs can be tried, for any number of requests  *)
(* (StaleCounterProofs).                                                   *)

Counts == 0..LoginMaxAttempts - 1

SeenBy(r) == IF at[r] = "login" /\ Held(r) < Count THEN Held(r) ELSE Count

Seen == [r \in Requests |-> SeenBy(r)]

WrongPaid(n, seen) == Paid(Requests, LoginMaxAttempts - 1, n, seen)

StreakInv ==
  /\ Count < LoginMaxAttempts
  /\ \A r \in Requests : at[r] = "login" => Held(r) < LoginMaxAttempts
  /\ WrongPaid(wrong, Seen)

\* The lemmas about such counters, for this one.
LEMMA WrongPinsPay ==
  ASSUME AccessAssumption, NEW n \in Nat, NEW f \in [Requests -> Counts]
  PROVE  /\ WrongPaid(0, f)
         /\ WrongPaid(n, f) => n < WrongPinsThatLock
         /\ \A e \in [Requests -> Counts] :
              /\ WrongPaid(n, e)
              /\ \A q \in Requests : e[q] <= f[q]
              => WrongPaid(n, f)
         /\ \A e \in [Requests -> Counts], r \in Requests :
              /\ WrongPaid(n, e) /\ e[r] < f[r]
              /\ \A q \in Requests : e[q] < e[r] \/ f[q] <= e[r] => f[q] = e[q]
              => WrongPaid(n + 1, f)
<1> DEFINE top == LoginMaxAttempts - 1
<1>1. IsFiniteSet(Requests) /\ top \in Nat /\ Counts = 0..top
  BY DEF AccessAssumption, Counts
<1>2. WrongPinsThatLock = Cardinality(Profiles(Requests, top))
      /\ \A i, seen : WrongPaid(i, seen) <=> Paid(Requests, top, i, seen)
  BY DEF WrongPaid, WrongPinsThatLock
<1> HIDE DEF top
<1>3. WrongPaid(0, f) /\ (WrongPaid(n, f) => n < WrongPinsThatLock)
  BY <1>1, <1>2, NothingToPay, FewerThanProfiles
<1>4. ASSUME NEW e \in [Requests -> Counts], WrongPaid(n, e),
             \A q \in Requests : e[q] <= f[q]
      PROVE  WrongPaid(n, f)
  BY <1>1, <1>2, <1>4, RaisedPays
<1>5. ASSUME NEW e \in [Requests -> Counts], NEW r \in Requests,
             WrongPaid(n, e), e[r] < f[r],
             \A q \in Requests : e[q] < e[r] \/ f[q] <= e[r] => f[q] = e[q]
      PROVE  WrongPaid(n + 1, f)
  BY <1>1, <1>2, <1>5, IncrementPays
<1>6. QED
  BY <1>3, <1>4, <1>5

LEMMA SeenType ==
  ASSUME IInv, AccessAssumption, Count < LoginMaxAttempts
  PROVE  Seen \in [Requests -> Counts]
<1>1. Count \in Nat /\ LoginMaxAttempts \in Nat
      /\ \A r \in Requests : at[r] # "idle" => Held(r) \in Nat
  BY CountType
<1>2. ASSUME NEW r \in Requests PROVE SeenBy(r) \in Counts
  <2>1. CASE at[r] = "login" /\ Held(r) < Count
    <3>1. Held(r) \in Nat
      BY <1>1, <2>1
    <3>2. QED
      BY <1>1, <2>1, <3>1 DEF SeenBy, Counts
  <2>2. CASE ~(at[r] = "login" /\ Held(r) < Count)
    BY <1>1, <2>2 DEF SeenBy, Counts
  <2>3. QED
    BY <2>1, <2>2
<1>3. QED
  BY <1>2 DEF Seen

\* A step that counts nothing: what the requests have seen is as it was, but for
\* one that is dropped.
LEMMA QuietStreak ==
  ASSUME IInv, AccessAssumption, StreakInv, wrong' = wrong,
         user'.failed_login_count = user.failed_login_count, NEW r \in Requests,
         \A q \in Requests \ {r} : at'[q] = at[q] /\ mem'[q] = mem[q],
         at'[r] = "login" => at[r] = "login" /\ mem'[r] = mem[r]
  PROVE  StreakInv'
<1>1. Count' = Count /\ Count < LoginMaxAttempts /\ Count \in Nat /\ wrong \in Nat
  BY CountType DEF StreakInv, Count
<1>2. \A q \in Requests : at'[q] = "login" => at[q] = "login" /\ Held(q)' = Held(q)
  BY DEF Held
<1>3. \A q \in Requests \ {r} : SeenBy(q)' = SeenBy(q)
  BY <1>1 DEF SeenBy, Held
<1>4. SeenBy(r)' = SeenBy(r) \/ (SeenBy(r)' = Count /\ SeenBy(r) < Count)
  BY <1>1, <1>2 DEF SeenBy
<1> DEFINE e == Seen
           f == Seen'
<1>5. e \in [Requests -> Counts] /\ f \in [Requests -> Counts]
  <2>1. e \in [Requests -> Counts]
    BY <1>1, SeenType
  <2>2. f \in [Requests -> Counts]
    <3>1. \A q \in Requests : SeenBy(q) \in Counts
      BY <2>1 DEF Seen
    <3>2. Count \in Counts
      BY <1>1, CountType DEF Counts
    <3>3. \A q \in Requests : SeenBy(q)' \in Counts
      BY <1>3, <1>4, <3>1, <3>2
    <3>4. QED
      BY <3>3 DEF Seen
  <2>3. QED
    BY <2>1, <2>2
<1>6. \A q \in Requests : e[q] = SeenBy(q) /\ f[q] = SeenBy(q)'
  BY DEF Seen
<1>7. WrongPaid(wrong, e)
  BY DEF StreakInv
<1> HIDE DEF e, f
<1>8. WrongPaid(wrong, f)
  <2>1. \A q \in Requests : e[q] <= f[q]
    BY <1>3, <1>4, <1>5, <1>6 DEF Counts
  <2>2. QED
    BY <1>1, <1>5, <1>7, <2>1, WrongPinsPay
<1>9. QED
  BY <1>1, <1>2, <1>8 DEF StreakInv, f

\* A step of no request, or a request that begins and has seen the count as it is.
LEMMA SameStreak ==
  ASSUME IInv, AccessAssumption, StreakInv, wrong' = wrong,
         user'.failed_login_count = user.failed_login_count,
         \/ UNCHANGED <<at, mem>>
         \/ \E r \in Requests, what \in Doing \ {"idle"}, l \in Links \cup {None} :
              Begin(r, what, l)
  PROVE  StreakInv'
<1>1. Count' = Count /\ Count < LoginMaxAttempts /\ Count \in Nat
  BY CountType DEF StreakInv, Count
<1>2. \A q \in Requests : at'[q] = "login" =>
        Held(q)' = Count \/ (at[q] = "login" /\ Held(q)' = Held(q))
  <2>1. CASE UNCHANGED <<at, mem>>
    BY <2>1 DEF Held
  <2>2. CASE \E r \in Requests, what \in Doing \ {"idle"}, l \in Links \cup {None} :
               Begin(r, what, l)
    BY <2>2, BeginType DEF IInv, Held, Count
  <2>3. QED
    BY <2>1, <2>2
<1>3. \A q \in Requests : SeenBy(q)' = SeenBy(q)
  <2>1. CASE UNCHANGED <<at, mem>>
    BY <1>1, <2>1 DEF SeenBy, Held
  <2>2. ASSUME NEW r \in Requests, NEW what \in Doing \ {"idle"}, NEW l \in Links \cup {None},
               Begin(r, what, l)
        PROVE  \A q \in Requests : SeenBy(q)' = SeenBy(q)
    <3>1. /\ at[r] = "idle" /\ mem'[r].loaded = user
          /\ \A q \in Requests \ {r} : at'[q] = at[q] /\ mem'[q] = mem[q]
      BY <2>2, BeginType DEF IInv, Begin
    <3>2. Held(r)' = Count /\ SeenBy(r) = Count
      BY <3>1 DEF Held, Count, SeenBy
    <3>3. SeenBy(r)' = Count
      BY <1>1, <3>2 DEF SeenBy
    <3>4. \A q \in Requests \ {r} : SeenBy(q)' = SeenBy(q)
      BY <1>1, <3>1 DEF SeenBy, Held
    <3>5. QED
      BY <3>2, <3>3, <3>4
  <2>3. QED
    BY <2>1, <2>2
<1>4. Seen' = Seen
  BY <1>3 DEF Seen
<1>5. WrongPaid(wrong', Seen')
  BY <1>4 DEF StreakInv
<1>6. \A q \in Requests : at'[q] = "login" => Held(q)' < LoginMaxAttempts
  BY <1>1, <1>2 DEF StreakInv
<1>7. QED
  BY <1>1, <1>5, <1>6 DEF StreakInv

\* A login that ends and starts a new streak.
LEMMA StreakEnds ==
  ASSUME IInv, AccessAssumption, StreakInv, NEW r \in Requests, End(r), wrong' = 0,
         Count' \in Nat, Count' < LoginMaxAttempts
  PROVE  StreakInv'
<1>1. /\ at'[r] = "idle"
      /\ \A q \in Requests \ {r} : at'[q] = at[q] /\ Held(q)' = Held(q)
  BY EndType DEF IInv, Held
<1>2. ASSUME NEW q \in Requests, at'[q] = "login"
      PROVE  Held(q)' \in Nat /\ Held(q)' < LoginMaxAttempts
  BY <1>1, <1>2, CountType DEF StreakInv
<1>3. \A q \in Requests : SeenBy(q)' \in Counts
  BY <1>2, CountType DEF SeenBy, Counts
<1>4. Seen' \in [Requests -> Counts]
  BY <1>3 DEF Seen
<1>5. WrongPaid(wrong', Seen')
  BY <1>4, WrongPinsPay
<1>6. QED
  BY <1>2, <1>5 DEF StreakInv

LEMMA WrongStreak ==
  ASSUME IInv, AccessAssumption, LockoutTime > 0, StreakInv,
         NEW r \in Requests, LoginWrongPin(r)
  PROVE  StreakInv'
<1> DEFINE mine == RegisterFailure(mem[r].loaded, mem[r].when)
<1>1. /\ at[r] = "login" /\ Write(r, mine) /\ End(r)
      /\ wrong' = IF mine.locked_until # mem[r].loaded.locked_until THEN 0 ELSE wrong + 1
  BY DEF LoginWrongPin
<1>2. /\ mem[r].loaded \in UserRow /\ mem[r].when \in Nat /\ mine \in UserRow
      /\ LoginMaxAttempts \in Nat \ {0} /\ LockoutTime \in Nat
      /\ Count \in Nat /\ wrong \in Nat /\ Held(r) \in Nat
  BY <1>1, CopyType, CountType DEF IInv, AccessAssumption
<1>3. user'.failed_login_count =
        IF mine.failed_login_count = Held(r) THEN Count ELSE mine.failed_login_count
  BY <1>1, <1>2, WriteType DEF IInv, Count, Held
<1>4. Held(r) < LoginMaxAttempts /\ Count < LoginMaxAttempts /\ WrongPaid(wrong, Seen)
  BY <1>1 DEF StreakInv
<1>5. CASE Held(r) + 1 >= LoginMaxAttempts
  <2>1. mine = [mem[r].loaded EXCEPT !.failed_login_count = 0,
                                     !.locked_until = mem[r].when + LockoutTime]
    BY <1>5 DEF RegisterFailure, Held
  <2>2. mine.failed_login_count = 0 /\ mine.locked_until = mem[r].when + LockoutTime
    BY <2>1, <1>2 DEF UserRow
  <2>3. mem[r].loaded.locked_until \in Nat /\ mem[r].loaded.locked_until <= mem[r].when
    BY <1>1, <1>2 DEF IInv, SawNoLock, IsLocked, UserRow
  <2> HIDE DEF mine
  <2>4. wrong' = 0
    BY <1>1, <1>2, <2>2, <2>3
  <2>5. Count' \in Nat /\ Count' < LoginMaxAttempts
    BY <1>2, <1>3, <1>4, <2>2 DEF Count
  <2>6. QED
    BY <1>1, <2>4, <2>5, StreakEnds
<1>6. CASE ~(Held(r) + 1 >= LoginMaxAttempts)
  <2>1. mine = [mem[r].loaded EXCEPT !.failed_login_count = Held(r) + 1]
    BY <1>6 DEF RegisterFailure, Held
  <2>2. mine.failed_login_count = Held(r) + 1
        /\ mine.locked_until = mem[r].loaded.locked_until
    BY <2>1, <1>2 DEF UserRow
  <2> HIDE DEF mine
  <2>3. wrong' = wrong + 1 /\ Count' = Held(r) + 1 /\ Count' < LoginMaxAttempts
    BY <1>1, <1>2, <1>3, <1>6, <2>2 DEF Count
  <2>4. /\ at'[r] = "idle"
        /\ \A q \in Requests \ {r} : at'[q] = at[q] /\ Held(q)' = Held(q)
    BY <1>1, EndType DEF IInv, Held
  <2>5. ASSUME NEW q \in Requests, at'[q] = "login"
        PROVE  Held(q)' \in Nat /\ Held(q)' < LoginMaxAttempts
    BY <2>4, <2>5, CountType DEF StreakInv
  <2> DEFINE e == Seen
             f == Seen'
             h == Held(r)
             c == Count
  <2>6. /\ e \in [Requests -> Counts]
        /\ e[r] = IF h < c THEN h ELSE c
        /\ \A q \in Requests \ {r} :
             e[q] = IF at[q] = "login" /\ Held(q) < c THEN Held(q) ELSE c
    <3>1. e \in [Requests -> Counts]
      BY <1>4, SeenType
    <3>2. QED
      BY <3>1, <1>1 DEF Seen, SeenBy
  <2>7. /\ f \in [Requests -> Counts]
        /\ f[r] = h + 1
        /\ \A q \in Requests \ {r} :
             f[q] = IF at[q] = "login" /\ Held(q) < h + 1 THEN Held(q) ELSE h + 1
    <3>1. \A q \in Requests : SeenBy(q)' \in Counts
      BY <1>2, <2>3, <2>5 DEF SeenBy, Counts
    <3>2. f \in [Requests -> Counts] /\ \A q \in Requests : f[q] = SeenBy(q)'
      BY <3>1 DEF Seen
    <3>3. QED
      BY <3>2, <2>3, <2>4 DEF SeenBy
  <2>8. \A q \in Requests : at[q] = "login" => Held(q) \in Nat
    BY CountType
  <2>9. h \in Nat /\ c \in Nat /\ WrongPaid(wrong, e)
    BY <1>2, <1>4
  <2> HIDE DEF e, f, h, c
  <2>10. e[r] < f[r] /\ \A q \in Requests : e[q] < e[r] \/ f[q] <= e[r] => f[q] = e[q]
    <3>1. e[r] < f[r] /\ e[r] <= h /\ e[r] <= c
      BY <2>6, <2>7, <2>9
    <3>2. ASSUME NEW q \in Requests \ {r}, e[q] < e[r] \/ f[q] <= e[r] PROVE f[q] = e[q]
      <4>1. CASE at[q] = "login"
        BY <4>1, <3>1, <3>2, <2>6, <2>7, <2>8, <2>9
      <4>2. CASE at[q] # "login"
        BY <4>2, <3>1, <3>2, <2>6, <2>7, <2>9
      <4>3. QED
        BY <4>1, <4>2
    <3>3. QED
      BY <3>1, <3>2, <2>6, <2>7, <2>9
  <2>11. WrongPaid(wrong + 1, f)
    BY <1>2, <2>6, <2>7, <2>9, <2>10, WrongPinsPay
  <2>12. QED
    BY <2>3, <2>5, <2>11 DEF StreakInv, f
<1>7. QED
  BY <1>5, <1>6

LEMMA RightStreak ==
  ASSUME IInv, AccessAssumption, StreakInv, NEW r \in Requests, LoginRightPin(r)
  PROVE  StreakInv'
<1> DEFINE mine == [mem[r].loaded EXCEPT !.failed_login_count = 0, !.locked_until = Never]
<1>1. at[r] = "login" /\ Write(r, mine) /\ End(r) /\ wrong' = 0
  BY DEF LoginRightPin
<1>2. /\ mem[r].loaded \in UserRow /\ mine \in UserRow /\ mine.failed_login_count = 0
      /\ LoginMaxAttempts \in Nat \ {0} /\ Count \in Nat
  BY <1>1, CopyType, CountType DEF IInv, UserRow
<1> HIDE DEF mine
<1>3. user'.failed_login_count \in {0, Count}
  BY <1>1, <1>2, WriteType DEF IInv, Count
<1>4. Count' \in Nat /\ Count' < LoginMaxAttempts
  BY <1>2, <1>3 DEF StreakInv, Count
<1>5. QED
  BY <1>1, <1>4, StreakEnds

LEMMA NextStreak ==
  ASSUME AccessAssumption, LockoutTime > 0, IInv, StreakInv, [AccessNext]_accessVars
  PROVE  StreakInv'
<1> USE AccessAssumption
<1>t. AccessTypeOK /\ user \in UserRow
  BY DEF IInv, AccessTypeOK
<1>1. ASSUME NEW r \in Requests, LoginWrongPin(r) PROVE StreakInv'
  BY <1>1, WrongStreak
<1>2. ASSUME NEW r \in Requests, LoginRightPin(r) PROVE StreakInv'
  BY <1>2, RightStreak
<1>3. ASSUME NEW r \in Requests,
             \/ BeginLogin(r) \/ BeginResetPin(r) \/ BeginForgotPin(r) \/ BeginChangePin(r)
             \/ BeginUpdateAgent(r) \/ BeginResetAgentPin(r)
             \/ BeginSetup(r) \/ BeginEnable(r) \/ BeginDisable(r)
      PROVE  StreakInv'
  <2>1. /\ \E what \in Doing \ {"idle"}, l \in Links \cup {None} : Begin(r, what, l)
        /\ UNCHANGED <<user, wrong>>
    BY <1>3 DEF BeginLogin, BeginResetPin, BeginForgotPin, BeginChangePin, BeginUpdateAgent,
       BeginResetAgentPin, BeginSetup, BeginEnable, BeginDisable, Doing, TwoFactor
  <2>2. QED
    BY <2>1, SameStreak
<1>4. ASSUME NEW r \in Requests, End(r), wrong' = wrong,
             user'.failed_login_count = user.failed_login_count
      PROVE  StreakInv'
  <2>1. /\ at'[r] = "idle"
        /\ \A q \in Requests \ {r} : at'[q] = at[q] /\ mem'[q] = mem[q]
    BY <1>4, <1>t, EndType
  <2>2. QED
    BY <1>4, <2>1, QuietStreak
<1>5. ASSUME NEW r \in Requests,
             CommitUpdateAgent(r) \/ CommitSetup(r) \/ CommitEnable(r) \/ CommitDisable(r)
      PROVE  StreakInv'
  <2>1. End(r) /\ wrong' = wrong
    BY <1>5 DEF CommitUpdateAgent, CommitSetup, CommitEnable, CommitDisable
  <2>2. QED
    BY <1>5, <1>t, <2>1, <1>4, OthersKeepLock
<1>6. ASSUME NEW r \in Requests,
             CommitResetPin(r) \/ CommitChangePin(r) \/ CommitResetAgentPin(r)
      PROVE  StreakInv'
  <2>1. End(r) /\ wrong' = wrong /\ \E pin \in Pins : SetPin(pin)
    BY <1>6 DEF CommitResetPin, CommitChangePin, CommitResetAgentPin
  <2>2. user'.failed_login_count = user.failed_login_count
    BY <2>1, <1>t DEF SetPin, UserRow
  <2>3. QED
    BY <2>1, <2>2, <1>4
<1>7. ASSUME NEW r \in Requests, CommitForgotPin(r) \/ AbortRequest(r) PROVE StreakInv'
  <2>1. End(r) /\ UNCHANGED <<user, wrong>>
    BY <1>7 DEF CommitForgotPin, AbortRequest
  <2>2. QED
    BY <2>1, <1>4
<1>8. ASSUME LoginVerify \/ SetMfiStatus \/ SeedAdmin \/ Tick \/ UNCHANGED accessVars
      PROVE  StreakInv'
  <2>1. UNCHANGED <<at, mem, wrong>>
    BY <1>8 DEF LoginVerify, SetMfiStatus, SeedAdmin, Tick, accessVars
  <2>2. user'.failed_login_count = user.failed_login_count
    BY <1>8, <1>t DEF LoginVerify, SetMfiStatus, SeedAdmin, Tick, accessVars, UserRow
  <2>3. QED
    BY <2>1, <2>2, SameStreak
<1>9. QED
  BY <1>1, <1>2, <1>3, <1>5, <1>6, <1>7, <1>8 DEF AccessNext

LEMMA StreakBound ==
  ASSUME AccessAssumption, IInv, StreakInv
  PROVE  wrong < WrongPinsThatLock
<1>1. wrong \in Nat /\ Seen \in [Requests -> Counts] /\ WrongPaid(wrong, Seen)
  BY CountType, SeenType DEF StreakInv
<1>2. QED
  BY <1>1, WrongPinsPay

LEMMA InitStreak ==
  ASSUME AccessAssumption, AccessInit
  PROVE  StreakInv
<1>1. IInv /\ LoginMaxAttempts \in Nat \ {0}
  BY InitIInv DEF AccessAssumption
<1>2. Count = 0 /\ wrong = 0 /\ \A r \in Requests : at[r] = "idle"
  BY DEF AccessInit, NewUser, Count
<1>3. Seen \in [Requests -> Counts]
  BY <1>1, <1>2, SeenType
<1>4. WrongPaid(wrong, Seen)
  BY <1>2, <1>3, WrongPinsPay
<1>5. QED
  BY <1>1, <1>2, <1>4 DEF StreakInv

\* Guessing is bounded although concurrent failures overwrite each other's
\* count, for any number of requests at a time and whatever the settings, as
\* long as a lock lasts at all (LOGIN_LOCKOUT_MINUTES, 15 by default): the
\* account locks after at most as many wrong PINs as there are ways for the
\* requests to have seen the count; two at a time after 1 + 2 + ... +
\* LoginMaxAttempts.
THEOREM GuessingBounded ==
  ASSUME LockoutTime > 0
  PROVE  AccessSpec => []GuessingIsBounded
<1>1. AccessInit => IInv /\ StreakInv
  BY InitIInv, InitStreak, AccessAssumption
<1>2. IInv /\ StreakInv /\ [AccessNext]_accessVars => IInv' /\ StreakInv'
  BY NextIInv, NextStreak, AccessAssumption
<1>3. CASE Cardinality(Requests) = 2
  <2>0. TwoAtATime
    BY <1>3, TwoRequests, AccessAssumption
  <2>1. AccessInit => GuessInv
    BY AccessAssumption DEF AccessInit, GuessInv, NewUser, Count, Allowed, AccessAssumption
  <2>2. IInv /\ GuessInv /\ [AccessNext]_accessVars => GuessInv'
    BY <2>0, NextGuess, AccessAssumption
  <2>3. IInv /\ StreakInv /\ GuessInv => GuessingIsBounded
    BY GuessBound, StreakBound, AccessAssumption
    DEF IInv, GuessingIsBounded, WrongPinsBeforeLock
  <2>4. QED
    BY <1>1, <1>2, <2>1, <2>2, <2>3, PTL DEF AccessSpec
<1>4. CASE Cardinality(Requests) # 2
  <2>1. IInv /\ StreakInv => GuessingIsBounded
    BY <1>4, StreakBound, AccessAssumption DEF IInv, GuessingIsBounded, WrongPinsBeforeLock
  <2>2. QED
    BY <1>1, <1>2, <2>1, PTL DEF AccessSpec
<1>5. QED
  BY <1>3, <1>4

-----------------------------------------------------------------------------
(* Staff accounts: two-factor enrolment.                                   *)
(*                                                                         *)
(* As long as no two of its requests have overlapped, the copy of one that *)
(* is under way agrees with the row, since nobody else writes these two    *)
(* columns; so what it confirms is what is stored.                         *)

\* The copy of a request in the middle of enrolment.
CopyIsCurrent(r) ==
  /\ mem[r].loaded.totp_secret = user.totp_secret
  /\ mem[r].loaded.totp_enabled = user.totp_enabled
  /\ at[r] = "setup" => ~user.totp_enabled
  /\ at[r] = "enable" => user.totp_secret # None

EnrolmentInv ==
  /\ EnabledIsConfirmed
  /\ ~overlapped => \A r \in Requests : at[r] \in TwoFactor => CopyIsCurrent(r)

\* What a write does to the two columns.
LEMMA FlushEnrolment ==
  ASSUME AccessTypeOK, NEW r \in Requests, at[r] # "idle",
         NEW mine \in UserRow, Write(r, mine)
  PROVE  /\ user'.totp_secret =
              IF mine.totp_secret = mem[r].loaded.totp_secret THEN user.totp_secret
              ELSE mine.totp_secret
         /\ user'.totp_enabled =
              IF mine.totp_enabled = mem[r].loaded.totp_enabled THEN user.totp_enabled
              ELSE mine.totp_enabled
<1>1. DOMAIN user = {"hashed_pin", "status", "failed_login_count", "locked_until",
                     "totp_secret", "totp_enabled"}
  BY DEF AccessTypeOK, UserRow
<1>2. user' = Flush(user, mem[r].loaded, mine)
  BY DEF Write
<1>3. QED
  BY <1>1, <1>2 DEF Flush

\* A request that begins keeps the invariant, if enrolment begins as it should.
LEMMA BeginEnrolment ==
  ASSUME AccessTypeOK, EnrolmentInv, NEW r \in Requests, NEW what \in Doing \ {"idle"},
         NEW l \in Links \cup {None}, Begin(r, what, l),
         UNCHANGED <<user, confirmed, overlapped>>,
         what = "setup" => ~user.totp_enabled,
         what = "enable" => user.totp_secret # None
  PROVE  EnrolmentInv'
<1>1. \A q \in Requests : at'[q] \in TwoFactor /\ ~overlapped => CopyIsCurrent(q)'
  BY BeginType DEF EnrolmentInv, CopyIsCurrent
<1>2. QED
  BY <1>1 DEF EnrolmentInv, EnabledIsConfirmed

\* One that ends and wrote other columns only keeps it, too.
LEMMA EndEnrolment ==
  ASSUME AccessTypeOK, EnrolmentInv, NEW r \in Requests, End(r),
         user'.totp_secret = user.totp_secret, user'.totp_enabled = user.totp_enabled,
         UNCHANGED <<confirmed, overlapped>>
  PROVE  EnrolmentInv'
<1>1. \A q \in Requests : at'[q] \in TwoFactor /\ ~overlapped => CopyIsCurrent(q)'
  BY EndType DEF EnrolmentInv, CopyIsCurrent, TwoFactor
<1>2. QED
  BY <1>1 DEF EnrolmentInv, EnabledIsConfirmed

\* One that wrote these columns was the only one under way, or has overlapped.
LEMMA EndTwoFactor ==
  ASSUME AccessTypeOK, NEW r \in Requests, End(r), NoteOverlap(r), EnabledIsConfirmed'
  PROVE  EnrolmentInv'
<1>1. ASSUME NEW q \in Requests, at'[q] \in TwoFactor, ~overlapped' PROVE FALSE
  <2>1. q # r
    BY <1>1, EndType DEF TwoFactor
  <2>2. at[q] \in TwoFactor
    BY <1>1, <2>1, EndType
  <2>3. QED
    BY <1>1, <2>1, <2>2 DEF NoteOverlap
<1>2. QED
  BY <1>1 DEF EnrolmentInv

LEMMA EnrolmentStep ==
  ASSUME AccessAssumption, AccessTypeOK, EnrolmentInv, [AccessNext]_accessVars
  PROVE  EnrolmentInv'
<1> USE AccessAssumption
<1>0. CASE UNCHANGED accessVars
  BY <1>0 DEF EnrolmentInv, CopyIsCurrent, EnabledIsConfirmed, accessVars
<1>1. ASSUME NEW r \in Requests,
             \/ BeginLogin(r) \/ BeginChangePin(r) \/ BeginUpdateAgent(r)
             \/ BeginResetAgentPin(r) \/ BeginForgotPin(r) \/ BeginResetPin(r)
      PROVE  EnrolmentInv'
  <2>1. PICK what \in {"login", "change", "update", "repin", "forgot", "reset"},
             l \in Links \cup {None} : Begin(r, what, l)
    BY <1>1 DEF BeginLogin, BeginChangePin, BeginUpdateAgent, BeginResetAgentPin,
       BeginForgotPin, BeginResetPin
  <2>2. UNCHANGED <<user, confirmed, overlapped>>
    BY <1>1 DEF BeginLogin, BeginChangePin, BeginUpdateAgent, BeginResetAgentPin,
       BeginForgotPin, BeginResetPin
  <2>3. what \in Doing \ {"idle"}
    BY DEF Doing
  <2>4. QED
    BY <2>1, <2>2, <2>3, BeginEnrolment
<1>2. ASSUME NEW r \in Requests, BeginSetup(r) \/ BeginEnable(r) \/ BeginDisable(r)
      PROVE  EnrolmentInv'
  <2>1. PICK what \in TwoFactor :
          /\ Begin(r, what, None)
          /\ what = "setup" => ~user.totp_enabled
          /\ what = "enable" => user.totp_secret # None
    BY <1>2 DEF BeginSetup, BeginEnable, BeginDisable, TwoFactor
  <2>2. UNCHANGED <<user, confirmed, overlapped>>
    BY <1>2 DEF BeginSetup, BeginEnable, BeginDisable
  <2>3. what \in Doing \ {"idle"}
    BY DEF Doing, TwoFactor
  <2>4. QED
    BY <2>1, <2>2, <2>3, BeginEnrolment
<1>3. ASSUME NEW r \in Requests, LoginWrongPin(r) PROVE EnrolmentInv'
  <2> DEFINE mine == RegisterFailure(mem[r].loaded, mem[r].when)
  <2>1. at[r] = "login" /\ Write(r, mine) /\ End(r) /\ UNCHANGED <<confirmed, overlapped>>
    BY <1>3 DEF LoginWrongPin
  <2>2. mem[r].loaded \in UserRow /\ mine \in UserRow
    BY <2>1, CopyType
  <2>3. /\ mine.totp_secret = mem[r].loaded.totp_secret
        /\ mine.totp_enabled = mem[r].loaded.totp_enabled
    BY <2>2 DEF RegisterFailure, UserRow
  <2> HIDE DEF mine
  <2>4. QED
    BY <2>1, <2>2, <2>3, FlushEnrolment, EndEnrolment
<1>4. ASSUME NEW r \in Requests, LoginRightPin(r) PROVE EnrolmentInv'
  <2> DEFINE mine == [mem[r].loaded EXCEPT !.failed_login_count = 0, !.locked_until = Never]
  <2>1. at[r] = "login" /\ Write(r, mine) /\ End(r) /\ UNCHANGED <<confirmed, overlapped>>
    BY <1>4 DEF LoginRightPin
  <2>2. mem[r].loaded \in UserRow /\ mine \in UserRow
    BY <2>1, CopyType
  <2>3. /\ mine.totp_secret = mem[r].loaded.totp_secret
        /\ mine.totp_enabled = mem[r].loaded.totp_enabled
    BY <2>2 DEF UserRow
  <2> HIDE DEF mine
  <2>4. QED
    BY <2>1, <2>2, <2>3, FlushEnrolment, EndEnrolment
<1>5. ASSUME NEW r \in Requests, CommitUpdateAgent(r) PROVE EnrolmentInv'
  <2>1. PICK status \in {"ACTIVE", "DISABLED"} :
          Write(r, [mem[r].loaded EXCEPT !.status = status])
    BY <1>5 DEF CommitUpdateAgent
  <2>2. at[r] = "update" /\ End(r) /\ UNCHANGED <<confirmed, overlapped>>
    BY <1>5 DEF CommitUpdateAgent
  <2> DEFINE mine == [mem[r].loaded EXCEPT !.status = status]
  <2>3. mem[r].loaded \in UserRow /\ mine \in UserRow
    BY <2>2, CopyType
  <2>4. /\ mine.totp_secret = mem[r].loaded.totp_secret
        /\ mine.totp_enabled = mem[r].loaded.totp_enabled
    BY <2>3 DEF UserRow
  <2> HIDE DEF mine
  <2>5. Write(r, mine)
    BY <2>1 DEF mine
  <2>6. QED
    BY <2>2, <2>3, <2>4, <2>5, FlushEnrolment, EndEnrolment
<1>6. ASSUME NEW r \in Requests,
             CommitResetPin(r) \/ CommitChangePin(r) \/ CommitResetAgentPin(r)
      PROVE  EnrolmentInv'
  <2>1. End(r) /\ UNCHANGED <<confirmed, overlapped>> /\ \E pin \in Pins : SetPin(pin)
    BY <1>6 DEF CommitResetPin, CommitChangePin, CommitResetAgentPin
  <2>2. user'.totp_secret = user.totp_secret /\ user'.totp_enabled = user.totp_enabled
    BY <2>1 DEF SetPin, AccessTypeOK, UserRow
  <2>3. QED
    BY <2>1, <2>2, EndEnrolment
<1>7. ASSUME NEW r \in Requests, CommitForgotPin(r) \/ AbortRequest(r)
      PROVE  EnrolmentInv'
  BY <1>7, EndEnrolment DEF CommitForgotPin, AbortRequest
<1>8. ASSUME NEW r \in Requests, CommitSetup(r) PROVE EnrolmentInv'
  <2>1. PICK secret \in Secrets : Write(r, [mem[r].loaded EXCEPT !.totp_secret = secret])
    BY <1>8 DEF CommitSetup
  <2>2. at[r] = "setup" /\ End(r) /\ NoteOverlap(r) /\ UNCHANGED confirmed
    BY <1>8 DEF CommitSetup
  <2> DEFINE mine == [mem[r].loaded EXCEPT !.totp_secret = secret]
  <2>3. mem[r].loaded \in UserRow /\ mine \in UserRow
    BY <2>2, CopyType
  <2>4. mine.totp_enabled = mem[r].loaded.totp_enabled
    BY <2>3 DEF UserRow
  <2> HIDE DEF mine
  <2>5. Write(r, mine)
    BY <2>1 DEF mine
  <2>6. user'.totp_enabled = user.totp_enabled
    BY <2>2, <2>3, <2>4, <2>5, FlushEnrolment
  <2>7. ~overlapped' => ~overlapped /\ ~user.totp_enabled
    BY <2>2 DEF NoteOverlap, EnrolmentInv, CopyIsCurrent, TwoFactor
  <2>8. EnabledIsConfirmed'
    BY <2>6, <2>7 DEF EnabledIsConfirmed
  <2>9. QED
    BY <2>2, <2>8, EndTwoFactor
<1>9. ASSUME NEW r \in Requests, CommitEnable(r) PROVE EnrolmentInv'
  <2> DEFINE mine == [mem[r].loaded EXCEPT !.totp_enabled = TRUE]
  <2>1. /\ at[r] = "enable" /\ Write(r, mine) /\ End(r) /\ NoteOverlap(r)
        /\ confirmed' = mem[r].loaded.totp_secret
    BY <1>9 DEF CommitEnable
  <2>2. mem[r].loaded \in UserRow /\ mine \in UserRow
    BY <2>1, CopyType
  <2>3. mine.totp_secret = mem[r].loaded.totp_secret
    BY <2>2 DEF UserRow
  <2> HIDE DEF mine
  <2>4. user'.totp_secret = user.totp_secret
    BY <2>1, <2>2, <2>3, FlushEnrolment
  <2>5. ~overlapped' => CopyIsCurrent(r)
    BY <2>1 DEF NoteOverlap, EnrolmentInv, TwoFactor
  <2>6. EnabledIsConfirmed'
    BY <2>1, <2>4, <2>5 DEF EnabledIsConfirmed, CopyIsCurrent
  <2>7. QED
    BY <2>1, <2>6, EndTwoFactor
<1>10. ASSUME NEW r \in Requests, CommitDisable(r) PROVE EnrolmentInv'
  <2> DEFINE mine == [mem[r].loaded EXCEPT !.totp_enabled = FALSE, !.totp_secret = None]
  <2>1. at[r] = "disable" /\ Write(r, mine) /\ End(r) /\ NoteOverlap(r)
    BY <1>10 DEF CommitDisable
  <2>2. mem[r].loaded \in UserRow /\ mine \in UserRow
    BY <2>1, CopyType
  <2>3. mine.totp_enabled = FALSE
    BY <2>2 DEF UserRow
  <2> HIDE DEF mine
  <2>4. user'.totp_enabled = IF mem[r].loaded.totp_enabled = FALSE THEN user.totp_enabled
                             ELSE FALSE
    BY <2>1, <2>2, <2>3, FlushEnrolment
  <2>5. ~overlapped' => CopyIsCurrent(r)
    BY <2>1 DEF NoteOverlap, EnrolmentInv, TwoFactor
  <2>6. EnabledIsConfirmed'
    BY <2>4, <2>5 DEF EnabledIsConfirmed, CopyIsCurrent
  <2>7. QED
    BY <2>1, <2>6, EndTwoFactor
<1>11. CASE SeedAdmin
  <2>1. UNCHANGED <<at, mem>>
    BY <1>11 DEF SeedAdmin
  <2>2. CASE user' = [user EXCEPT !.status = "ACTIVE"] /\ UNCHANGED <<confirmed, overlapped>>
    <3>1. user'.totp_secret = user.totp_secret /\ user'.totp_enabled = user.totp_enabled
      BY <2>2 DEF AccessTypeOK, UserRow
    <3>2. QED
      BY <2>1, <2>2, <3>1 DEF EnrolmentInv, CopyIsCurrent, EnabledIsConfirmed
  <2>3. CASE /\ user'.totp_enabled = FALSE
             /\ overlapped' = (overlapped \/ \E r \in Requests : at[r] \in TwoFactor)
    BY <2>1, <2>3 DEF EnrolmentInv, EnabledIsConfirmed
  <2>4. ASSUME NEW pin \in Pins,
               user' = [user EXCEPT !.status = "ACTIVE", !.hashed_pin = pin,
                                    !.totp_enabled = FALSE, !.totp_secret = None]
        PROVE  user'.totp_enabled = FALSE
    BY <2>4 DEF AccessTypeOK, UserRow
  <2>5. QED
    BY <1>11, <2>2, <2>3, <2>4 DEF SeedAdmin
<1>12. CASE LoginVerify \/ SetMfiStatus \/ Tick
  BY <1>12 DEF LoginVerify, SetMfiStatus, Tick, EnrolmentInv, CopyIsCurrent,
     EnabledIsConfirmed
<1>13. QED
  BY <1>0, <1>1, <1>2, <1>3, <1>4, <1>5, <1>6, <1>7, <1>8, <1>9, <1>10, <1>11, <1>12
     DEF AccessNext

\* "A half-finished enrolment never locks anyone out", for any number of
\* requests at a time: unless enrolment requests overlapped, a second factor
\* that is asked for was confirmed with a code of the stored secret.
THEOREM EnrolmentIsConfirmed == AccessSpec => []EnabledIsConfirmed
<1>1. AccessInit => IInv /\ EnrolmentInv
  <2>1. AccessInit => EnrolmentInv
    BY DEF AccessInit, EnrolmentInv, EnabledIsConfirmed, NewUser, TwoFactor
  <2>2. QED
    BY <2>1, InitIInv, AccessAssumption
<1>2. IInv /\ EnrolmentInv /\ [AccessNext]_accessVars => (IInv /\ EnrolmentInv)'
  BY NextIInv, EnrolmentStep, AccessAssumption DEF IInv
<1>3. EnrolmentInv => EnabledIsConfirmed
  BY DEF EnrolmentInv
<1>4. QED
  BY <1>1, <1>2, <1>3, PTL DEF AccessSpec

-----------------------------------------------------------------------------
(* Staff accounts: reset links.                                            *)
(*                                                                         *)
(* A used link is found by no request that begins, so those about to set a *)
(* PIN with it were so when it was first used.                             *)

\* The requests that are about to set a PIN with link l.
Pending(l) == {r \in Requests : at[r] = "reset" /\ mem[r].link = l}

LinkInv ==
  /\ \A r \in Requests : at[r] = "forgot" =>
       mem[r].link \in Links /\ link[mem[r].link].state = "mailed"
  /\ \A r, q \in Requests : at[r] = "forgot" /\ at[q] = "forgot" /\ r # q =>
       mem[r].link # mem[q].link
  /\ \A r \in Requests : at[r] = "reset" =>
       mem[r].link \in Links /\ link[mem[r].link].state \in {"live", "used"}
  /\ \A l \in Links :
       IF link[l].state = "used" THEN Pending(l) \subseteq raced[l] ELSE uses[l] = 0

\* A link that was used before the step or is not after it.
LEMMA FewerPending ==
  ASSUME LinkInv, NEW l \in Links,
         Pending(l)' \subseteq Pending(l), uses'[l] = uses[l],
         Pending(l)' \cap raced[l] \subseteq raced'[l],
         link'[l].state = "used" <=> link[l].state = "used"
  PROVE  IF link'[l].state = "used" THEN Pending(l)' \subseteq raced'[l]
                                    ELSE uses'[l] = 0
BY DEF LinkInv

\* What leaves the links alone and begins no request about them.
LEMMA OtherLinkStep ==
  ASSUME AccessTypeOK, LinkInv, UNCHANGED <<link, uses>>,
         \A r \in Requests : at'[r] \in {"forgot", "reset"} =>
           at'[r] = at[r] /\ mem'[r] = mem[r],
         raced' = raced \/ \E r \in Requests : raced' = Left(r) /\ at'[r] = "idle"
  PROVE  LinkInv'
<1>1. ASSUME NEW l \in Links
      PROVE  Pending(l)' \subseteq Pending(l) /\ Pending(l)' \cap raced[l] \subseteq raced'[l]
  BY <1>1 DEF Pending, Left
<1>2. \A l \in Links : IF link'[l].state = "used" THEN Pending(l)' \subseteq raced'[l]
                                                  ELSE uses'[l] = 0
  BY <1>1, FewerPending
<1>3. QED
  BY <1>2 DEF LinkInv

LEMMA LinkStep ==
  ASSUME AccessTypeOK, LinkInv, [AccessNext]_accessVars
  PROVE  LinkInv'
<1>0. CASE UNCHANGED accessVars
  BY <1>0, OtherLinkStep DEF accessVars
<1>1. ASSUME NEW r \in Requests, NEW what \in Doing \ {"idle", "forgot", "reset"},
             Begin(r, what, None), UNCHANGED <<link, uses, raced>>
      PROVE  LinkInv'
  BY <1>1, BeginType, OtherLinkStep
<1>2. ASSUME NEW r \in Requests, End(r), UNCHANGED <<link, uses>>,
             raced' = raced \/ raced' = Left(r)
      PROVE  LinkInv'
  BY <1>2, EndType, OtherLinkStep
<1>3. ASSUME NEW r \in Requests,
             \/ BeginLogin(r) \/ BeginChangePin(r) \/ BeginUpdateAgent(r)
             \/ BeginResetAgentPin(r) \/ BeginSetup(r) \/ BeginEnable(r) \/ BeginDisable(r)
      PROVE  LinkInv'
  <2>1. PICK what \in {"login", "change", "update", "repin", "setup", "enable", "disable"} :
          Begin(r, what, None)
    BY <1>3 DEF BeginLogin, BeginChangePin, BeginUpdateAgent, BeginResetAgentPin,
       BeginSetup, BeginEnable, BeginDisable
  <2>2. UNCHANGED <<link, uses, raced>>
    BY <1>3 DEF BeginLogin, BeginChangePin, BeginUpdateAgent, BeginResetAgentPin,
       BeginSetup, BeginEnable, BeginDisable
  <2>3. what \in Doing \ {"idle", "forgot", "reset"}
    BY DEF Doing, TwoFactor
  <2>4. QED
    BY <1>1, <2>1, <2>2, <2>3
<1>4. ASSUME NEW r \in Requests,
             \/ LoginWrongPin(r) \/ LoginRightPin(r) \/ CommitChangePin(r)
             \/ CommitUpdateAgent(r) \/ CommitResetAgentPin(r) \/ CommitSetup(r)
             \/ CommitEnable(r) \/ CommitDisable(r) \/ AbortRequest(r)
      PROVE  LinkInv'
  <2>1. End(r) /\ UNCHANGED <<link, uses>> /\ (raced' = raced \/ raced' = Left(r))
    BY <1>4 DEF LoginWrongPin, LoginRightPin, CommitChangePin, CommitUpdateAgent,
       CommitResetAgentPin, CommitSetup, CommitEnable, CommitDisable, AbortRequest
  <2>2. QED
    BY <1>2, <2>1
<1>5. ASSUME NEW r \in Requests, BeginForgotPin(r) PROVE LinkInv'
  <2>1. PICK l \in Links :
          /\ link[l].state = "unknown"
          /\ link' = [link EXCEPT ![l] = [state |-> "mailed", expires_at |-> now + ResetTime]]
          /\ Begin(r, "forgot", l) /\ UNCHANGED <<uses, raced>>
    BY <1>5 DEF BeginForgotPin
  <2>2. /\ at'[r] = "forgot" /\ mem'[r].link = l
        /\ \A q \in Requests \ {r} : at'[q] = at[q] /\ mem'[q] = mem[q]
    BY <2>1 DEF Begin, AccessTypeOK
  <2>3. /\ link'[l].state = "mailed"
        /\ \A k \in Links \ {l} : link'[k] = link[k]
    BY <2>1 DEF AccessTypeOK
  <2>4. \A k \in Links : Pending(k)' \subseteq Pending(k)
    BY <2>2 DEF Pending
  <2>5. \A k \in Links : IF link'[k].state = "used"
                           THEN Pending(k)' \subseteq raced'[k] ELSE uses'[k] = 0
    BY <2>1, <2>3, <2>4, FewerPending
  <2>6. \A q \in Requests \ {r} : at[q] = "forgot" => mem[q].link # l
    BY <2>1 DEF LinkInv
  <2>7. \A q \in Requests \ {r} : at[q] = "reset" => mem[q].link # l
    BY <2>1 DEF LinkInv
  <2>8. QED
    BY <2>2, <2>3, <2>5, <2>6, <2>7 DEF LinkInv
<1>6. ASSUME NEW r \in Requests, CommitForgotPin(r) PROVE LinkInv'
  <2>1. PICK l \in Links :
          /\ l = mem[r].link /\ link[l].state = "mailed" /\ End(r) /\ UNCHANGED <<uses, raced>>
          /\ link' = [link EXCEPT ![l].state = "live"]
    BY <1>6 DEF CommitForgotPin, LinkInv
  <2>2. at'[r] = "idle" /\ \A q \in Requests \ {r} : at'[q] = at[q] /\ mem'[q] = mem[q]
    BY <2>1, EndType
  <2>3. link'[l].state = "live" /\ \A k \in Links \ {l} : link'[k] = link[k]
    BY <2>1 DEF AccessTypeOK
  <2>4. \A k \in Links : Pending(k)' \subseteq Pending(k)
    BY <2>2 DEF Pending
  <2>5. \A k \in Links : IF link'[k].state = "used"
                           THEN Pending(k)' \subseteq raced'[k] ELSE uses'[k] = 0
    BY <2>1, <2>3, <2>4, FewerPending
  <2>6. \A q \in Requests \ {r} : at[q] = "forgot" => mem[q].link # l
    BY <1>6, <2>1 DEF LinkInv, CommitForgotPin
  <2>7. QED
    BY <2>1, <2>2, <2>3, <2>5, <2>6 DEF LinkInv
<1>7. ASSUME NEW r \in Requests, BeginResetPin(r) PROVE LinkInv'
  <2>1. PICK l \in Links : link[l].state = "live" /\ Begin(r, "reset", l)
    BY <1>7 DEF BeginResetPin
  <2>2. UNCHANGED <<link, uses, raced>>
    BY <1>7 DEF BeginResetPin
  <2>3. /\ at'[r] = "reset" /\ mem'[r].link = l
        /\ \A q \in Requests \ {r} : at'[q] = at[q] /\ mem'[q] = mem[q]
    BY <2>1 DEF Begin, AccessTypeOK
  <2>4. \A k \in Links \ {l} : Pending(k)' \subseteq Pending(k)
    BY <2>3 DEF Pending
  <2>5. \A k \in Links : IF link'[k].state = "used"
                           THEN Pending(k)' \subseteq raced'[k] ELSE uses'[k] = 0
    <3>1. uses[l] = 0
      BY <2>1 DEF LinkInv
    <3>2. link'[l].state = "live" /\ uses'[l] = 0
      BY <2>1, <2>2, <3>1
    <3>3. ASSUME NEW k \in Links \ {l}
          PROVE  IF link'[k].state = "used"
                   THEN Pending(k)' \subseteq raced'[k] ELSE uses'[k] = 0
      BY <2>2, <2>4, FewerPending
    <3>4. QED
      BY <3>2, <3>3
  <2>6. QED
    BY <2>1, <2>2, <2>3, <2>5 DEF LinkInv
<1>8. ASSUME NEW r \in Requests, CommitResetPin(r) PROVE LinkInv'
  <2>1. PICK l \in Links :
          l = mem[r].link /\ at[r] = "reset" /\ End(r) /\ link[l].state \in {"live", "used"}
    BY <1>8 DEF CommitResetPin, LinkInv
  <2>2. /\ link' = [link EXCEPT ![l].state = "used"]
        /\ uses' = [uses EXCEPT ![l] = @ + 1]
    BY <1>8, <2>1 DEF CommitResetPin
  <2>3. at'[r] = "idle" /\ \A q \in Requests \ {r} : at'[q] = at[q] /\ mem'[q] = mem[q]
    BY <2>1, EndType
  <2>4. link'[l].state = "used" /\ \A k \in Links \ {l} : link'[k] = link[k]
    BY <2>1, <2>2 DEF AccessTypeOK
  <2>5. uses'[l] = uses[l] + 1 /\ uses[l] \in Nat /\ \A k \in Links \ {l} : uses'[k] = uses[k]
    BY <2>1, <2>2 DEF AccessTypeOK
  <2>6. /\ \A k \in Links \ {l} : Pending(k)' \subseteq Pending(k) /\ r \notin Pending(k)
        /\ Pending(l)' = Pending(l) \ {r} /\ Pending(l)' \subseteq OthersWith(l, r)
    BY <2>1, <2>3 DEF Pending, OthersWith
  <2>7. raced' = IF uses[l] = 0 THEN [raced EXCEPT ![l] = OthersWith(l, r)] ELSE Left(r)
    BY <1>8, <2>1 DEF CommitResetPin
  <2>8. Pending(l)' \subseteq raced'[l]
    <3>1. CASE uses[l] = 0
      BY <2>6, <2>7, <3>1 DEF AccessTypeOK
    <3>2. CASE uses[l] # 0
      <4>1. Pending(l) \subseteq raced[l]
        BY <2>1, <3>2 DEF LinkInv
      <4>2. QED
        BY <2>6, <2>7, <3>2, <4>1 DEF Left
    <3>3. QED
      BY <3>1, <3>2
  <2>9. \A k \in Links \ {l} : Pending(k)' \cap raced[k] \subseteq raced'[k]
    BY <2>6, <2>7 DEF Left, AccessTypeOK
  <2>10. \A k \in Links : IF link'[k].state = "used"
                            THEN Pending(k)' \subseteq raced'[k] ELSE uses'[k] = 0
    <3>1. ASSUME NEW k \in Links \ {l}
          PROVE  IF link'[k].state = "used"
                   THEN Pending(k)' \subseteq raced'[k] ELSE uses'[k] = 0
      BY <2>4, <2>5, <2>6, <2>9, FewerPending
    <3>2. QED
      BY <2>4, <2>8, <3>1
  <2>11. \A q \in Requests : at[q] = "forgot" => mem[q].link # l
    BY <2>1 DEF LinkInv
  <2>12. QED
    BY <2>1, <2>3, <2>4, <2>10, <2>11 DEF LinkInv
<1>9. CASE LoginVerify \/ SetMfiStatus \/ SeedAdmin \/ Tick
  BY <1>9, OtherLinkStep DEF LoginVerify, SetMfiStatus, SeedAdmin, Tick
<1>10. QED
  BY <1>0, <1>3, <1>4, <1>5, <1>6, <1>7, <1>8, <1>9 DEF AccessNext

\* Only CommitResetPin uses a link, and it ends a request that is resetting.
LEMMA LinkUse ==
  ASSUME AccessTypeOK, LinkInv, [AccessNext]_accessVars,
         NEW l \in Links, uses[l] > 0, uses'[l] # uses[l]
  PROVE  \E r \in raced[l] : at[r] = "reset" /\ mem[r].link = l /\ at'[r] = "idle"
<1>1. PICK r \in Requests : CommitResetPin(r)
  BY DEF AccessNext, accessVars, BeginLogin, LoginWrongPin, LoginRightPin, BeginForgotPin,
     CommitForgotPin, BeginResetPin, BeginChangePin, CommitChangePin, BeginUpdateAgent,
     CommitUpdateAgent, BeginResetAgentPin, CommitResetAgentPin, BeginSetup, CommitSetup,
     BeginEnable, CommitEnable, BeginDisable, CommitDisable, AbortRequest, LoginVerify,
     SetMfiStatus, SeedAdmin, Tick
<1>2. at[r] = "reset" /\ uses' = [uses EXCEPT ![mem[r].link] = @ + 1] /\ at'[r] = "idle"
  BY <1>1, EndType DEF CommitResetPin
<1>3. mem[r].link = l
  BY <1>2 DEF AccessTypeOK
<1>4. uses[l] # 0
  BY DEF AccessTypeOK
<1>5. Pending(l) \subseteq raced[l]
  BY <1>4 DEF LinkInv
<1>6. QED
  BY <1>2, <1>3, <1>5 DEF Pending

\* For any number of requests, links and PINs, a reset link that was used sets
\* a PIN again only for a request under way with it at its first use.
THEOREM LinkReuseIsOverlap == AccessSpec => LinkReusedOnlyByOverlap
<1> DEFINE Reuse == \A l \in Links : uses[l] > 0 /\ uses'[l] # uses[l] =>
                      \E r \in raced[l] :
                        at[r] = "reset" /\ mem[r].link = l /\ at'[r] = "idle"
<1>1. AccessInit => IInv /\ LinkInv
  <2>1. AccessInit => LinkInv
    BY DEF AccessInit, LinkInv
  <2>2. QED
    BY <2>1, InitIInv, AccessAssumption
<1>2. IInv /\ LinkInv /\ [AccessNext]_accessVars => (IInv /\ LinkInv)'
  BY NextIInv, LinkStep, AccessAssumption DEF IInv
<1>3. IInv /\ LinkInv /\ [AccessNext]_accessVars => [Reuse]_accessVars
  BY LinkUse DEF IInv
<1> HIDE DEF Reuse
<1>4. AccessSpec => [][Reuse]_accessVars
  BY <1>1, <1>2, <1>3, PTL DEF AccessSpec
<1>5. QED
  BY <1>4 DEF LinkReusedOnlyByOverlap, Reuse

-----------------------------------------------------------------------------
(* API keys.                                                               *)

KeysIInv ==
  /\ KeysTypeOK
  /\ \A c \in Callers : call[c] # NoKey => key[call[c].key] # NoKey

Revoked(row) == row # NoKey /\ ~row.is_active

\* A stamp or a revocation leaves a row, and one that is inactive if it was, or
\* if that is what is written.
LEMMA FlushKey ==
  ASSUME NEW stored \in KeyRow, NEW loaded \in KeyRow, NEW mine \in KeyRow,
         mine.is_active => loaded.is_active
  PROVE  /\ Flush(stored, loaded, mine) \in KeyRow
         /\ ~stored.is_active => ~Flush(stored, loaded, mine).is_active
<1>1. DOMAIN stored = {"is_active", "last_used_at"}
  BY DEF KeyRow
<1>2. QED
  BY <1>1 DEF Flush, KeyRow

LEMMA KeysStep ==
  ASSUME KeysAssumption, KeysIInv, [KeysNext]_keyVars
  PROVE  KeysIInv' /\ \A k \in Keys : Revoked(key[k]) => Revoked(key'[k])
<1> USE KeysAssumption
<1>t. /\ key \in [Keys -> KeyRow \cup {NoKey}] /\ call \in [Callers -> Call \cup {NoKey}]
      /\ \A c \in Callers : call[c] # NoKey => key[call[c].key] # NoKey
  BY DEF KeysIInv, KeysTypeOK
<1>0. CASE UNCHANGED keyVars
  BY <1>0 DEF KeysIInv, KeysTypeOK, keyVars
<1>1. CASE CreateApiKey \/ ProvisionKey
  <2>1. /\ \E k \in Keys : GenerateApiKey(k)
        /\ UNCHANGED <<apiAccess, suspended, call>>
    BY <1>1 DEF CreateApiKey, ProvisionKey
  <2>2. PICK k \in Keys : /\ key[k] = NoKey
                          /\ key' = [key EXCEPT ![k] = [is_active |-> TRUE, last_used_at |-> 0]]
    BY <2>1 DEF GenerateApiKey
  <2>3. [is_active |-> TRUE, last_used_at |-> 0] \in KeyRow
    BY DEF KeyRow
  <2>4. \A j \in Keys : key[j] # NoKey => key'[j] = key[j]
    BY <2>2, <1>t
  <2>5. key' \in [Keys -> KeyRow \cup {NoKey}]
    BY <2>2, <2>3, <1>t
  <2>6. \A c \in Callers : call[c] # NoKey => call[c].key \in Keys
    BY <1>t DEF Call
  <2>7. QED
    BY <2>1, <2>4, <2>5, <2>6, <1>t DEF KeysIInv, KeysTypeOK, Revoked
<1>2. ASSUME NEW c \in Callers, Authenticate(c) \/ BeginRevoke(c)
      PROVE  KeysIInv' /\ \A k \in Keys : Revoked(key[k]) => Revoked(key'[k])
  <2>1. PICK k \in Keys, does \in {"use", "revoke"} : Load(c, does, k)
    BY <1>2 DEF Authenticate, BeginRevoke
  <2>2. UNCHANGED <<apiAccess, suspended, key>>
    BY <1>2 DEF Authenticate, BeginRevoke
  <2>3. key[k] \in KeyRow /\ call' = [call EXCEPT ![c] = [does |-> does, key |-> k,
                                                         loaded |-> key[k]]]
    BY <2>1, <1>t DEF Load
  <2>4. [does |-> does, key |-> k, loaded |-> key[k]] \in Call
    BY <2>3 DEF Call
  <2>5. QED
    BY <2>1, <2>2, <2>3, <2>4, <1>t DEF KeysIInv, KeysTypeOK, Load
<1>3. ASSUME NEW c \in Callers, Stamp(c) \/ CommitRevoke(c)
      PROVE  KeysIInv' /\ \A k \in Keys : Revoked(key[k]) => Revoked(key'[k])
  <2>1. call[c] # NoKey /\ UNCHANGED <<apiAccess, suspended>>
    BY <1>3 DEF Stamp, CommitRevoke
  <2> DEFINE loaded == call[c].loaded
             k == call[c].key
  <2>2. loaded \in KeyRow /\ k \in Keys /\ key[k] \in KeyRow
    BY <2>1, <1>t DEF Call
  <2>3. PICK mine \in KeyRow : Store(c, mine) /\ (mine.is_active => loaded.is_active)
    <3>1. CASE Stamp(c)
      BY <3>1, <2>2 DEF Stamp, KeyRow
    <3>2. CASE CommitRevoke(c)
      BY <3>2, <2>2 DEF CommitRevoke, KeyRow
    <3>3. QED
      BY <1>3, <3>1, <3>2
  <2> DEFINE row == Flush(key[k], loaded, mine)
  <2>4. row \in KeyRow /\ (~key[k].is_active => ~row.is_active)
    BY <2>2, <2>3, FlushKey
  <2>5. key' = [key EXCEPT ![k] = row] /\ call' = [call EXCEPT ![c] = NoKey]
    BY <2>3 DEF Store
  <2> HIDE DEF row
  <2>6. \A j \in Keys : key[j] # NoKey => key'[j] # NoKey
    BY <2>2, <2>4, <2>5, <1>t
  <2>7. \A d \in Callers : call[d] # NoKey => call[d].key \in Keys
    BY <1>t DEF Call
  <2>8. QED
    BY <2>1, <2>2, <2>4, <2>5, <2>6, <2>7, <1>t DEF KeysIInv, KeysTypeOK, Revoked
<1>4. ASSUME NEW c \in Callers, LoseCall(c)
      PROVE  KeysIInv' /\ \A k \in Keys : Revoked(key[k]) => Revoked(key'[k])
  BY <1>4, <1>t DEF LoseCall, KeysIInv, KeysTypeOK
<1>5. CASE ChangeAccount
  BY <1>5 DEF ChangeAccount, KeysIInv, KeysTypeOK
<1>6. QED
  BY <1>0, <1>1, <1>2, <1>3, <1>4, <1>5 DEF KeysNext

\* The variables of ApiKeys keep their types.
THEOREM KeysTypeCorrect == KeysSpec => []KeysTypeOK
<1>1. KeysInit => KeysIInv
  BY DEF KeysInit, KeysIInv, KeysTypeOK
<1>2. KeysIInv /\ [KeysNext]_keyVars => KeysIInv'
  BY KeysStep, KeysAssumption
<1>3. KeysIInv => KeysTypeOK
  BY DEF KeysIInv
<1>4. QED
  BY <1>1, <1>2, <1>3, PTL DEF KeysSpec

\* A revoked key stays revoked, for any number of requests that authenticated
\* with it before and stamp its row afterwards.
THEOREM RevocationStands == KeysSpec => RevokedStaysRevoked
<1>1. KeysInit => KeysIInv
  BY DEF KeysInit, KeysIInv, KeysTypeOK
<1>2. KeysIInv /\ [KeysNext]_keyVars => KeysIInv'
  BY KeysStep, KeysAssumption
<1>3. KeysIInv /\ [KeysNext]_keyVars =>
        [\A k \in Keys : key[k] # NoKey /\ ~key[k].is_active =>
                           key'[k] # NoKey /\ ~key'[k].is_active]_keyVars
  BY KeysStep, KeysAssumption DEF Revoked
<1>4. QED
  BY <1>1, <1>2, <1>3, PTL DEF KeysSpec, RevokedStaysRevoked

-----------------------------------------------------------------------------
(* The two side by side.                                                   *)

\* Where accounts and keys are explored together each does what it does alone,
\* so whatever is proved of one of them holds there too.
THEOREM BothKeepTheirSpecs == Spec => AccessSpec /\ KeysSpec
<1>1. Init => AccessInit /\ KeysInit
  BY DEF Init
<1>2. [Next]_vars => [AccessNext]_accessVars
  BY DEF Next, vars
<1>3. [Next]_vars => [KeysNext]_keyVars
  BY DEF Next, vars
<1>4. QED
  BY <1>1, <1>2, <1>3, PTL DEF Spec, AccessSpec, KeysSpec

\* The account and the keys keep their types, for every value of the constants.
THEOREM StaffTypeCorrect == Spec => []TypeOK
<1>1. AccessTypeOK /\ KeysTypeOK => TypeOK
  BY DEF TypeOK
<1>2. QED
  BY <1>1, BothKeepTheirSpecs, AccessTypeCorrect, KeysTypeCorrect, PTL

=============================================================================
