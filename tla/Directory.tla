----------------------------- MODULE Directory -----------------------------
(***************************************************************************)
(* Who belongs to whom: signup invites, the accounts they make, staff      *)
(* and branches, created under the limits of a plan.                       *)
(*                                                                         *)
(* Every handler looks first and inserts later, in the flush and commit    *)
(* after a PIN was hashed or a mail sent: a Begin action makes the checks, *)
(* a Commit action the insert.  The database keeps some columns unique     *)
(* (of two inserts of one value the second waits for the first and fails); *)
(* nothing keeps a count.                                                  *)
(***************************************************************************)
EXTENDS Naturals, FiniteSets

CONSTANTS
  Tasks,             \* requests served at once
  Invites, Emails, Phones, BranchNames,
  Mfis,              \* ids of mfi_accounts rows
  PlanNames, PlanOf, \* the plans and their limits (PlanDefinitions)
  Unlimited, Nothing

VARIABLES
  invite,    \* invite[i]: a row of signup_invites
  mfi,       \* mfi[m]: a row of mfi_accounts, or Nothing
  staff,     \* rows of users
  branch,    \* rows of branches
  task,      \* task[t]: what request t is about to insert or write, or Nothing
  granted    \* history: granted[m], the most that m's plans have allowed

directoryVars == <<invite, mfi, staff, branch, task, granted>>

InviteRow == [state: {"unsent", "mailed", "open", "expired", "completed"},
              email: Emails \cup {Nothing}, plan: PlanNames \cup {Nothing}]
MfiRow == [email: Emails, plan: PlanNames, from: Invites \cup {Nothing}]
StaffRow == [mfi: Mfis, email: Emails \cup {Nothing}, phone: Phones \cup {Nothing},
             role: {"MANAGER", "AGENT"}]
BranchRow == [mfi: Mfis, name: BranchNames]

Task ==
       [kind: {"start"}, invite: Invites]
  \cup [kind: {"complete"}, invite: Invites, phone: Phones \cup {Nothing}]
  \cup [kind: {"agent"}, mfi: Mfis, phone: Phones]
  \cup [kind: {"branch"}, mfi: Mfis, name: BranchNames]
  \cup [kind: {"email"}, mfi: Mfis, email: Emails]

ASSUME DirectoryAssumption ==
  /\ PlanOf \in [PlanNames -> [max_branches: (Nat \ {0}) \cup {Unlimited},
                               max_agents: (Nat \ {0}) \cup {Unlimited},
                               api_access: BOOLEAN]]
  /\ Unlimited \notin Nat
  /\ Nothing \notin Invites \cup Mfis \cup Emails \cup Phones
  /\ Nothing \notin MfiRow /\ Nothing \notin Task
  /\ IsFiniteSet(Tasks)

DirectoryTypeOK ==
  /\ invite \in [Invites -> InviteRow]
  /\ mfi \in [Mfis -> MfiRow \cup {Nothing}]
  /\ staff \subseteq StaffRow
  /\ branch \subseteq BranchRow
  /\ task \in [Tasks -> Task \cup {Nothing}]
  /\ granted \in [Mfis -> [branches: Nat \cup {Unlimited}, agents: Nat \cup {Unlimited}]]

DirectoryInit ==
  /\ invite = [i \in Invites |-> [state |-> "unsent", email |-> Nothing, plan |-> Nothing]]
  /\ mfi = [m \in Mfis |-> Nothing]
  /\ staff = {} /\ branch = {}
  /\ task = [t \in Tasks |-> Nothing]
  /\ granted = [m \in Mfis |-> [branches |-> 0, agents |-> 0]]

-----------------------------------------------------------------------------
Accounts == {m \in Mfis : mfi[m] # Nothing}

Take(t, job) == task[t] = Nothing /\ task' = [task EXCEPT ![t] = job]

Working(t, kind) == task[t] # Nothing /\ task[t].kind = kind

\* The request ends, its work committed, refused by the database or lost.
Done(t) == task' = [task EXCEPT ![t] = Nothing]

EmailTaken(email) ==
  \/ \E m \in Accounts : mfi[m].email = email
  \/ \E person \in staff : person.email = email

PhoneTaken(phone) == \E person \in staff : person.phone = phone

StaffOf(m) == {person \in staff : person.mfi = m}

BranchesOf(m) == {b \in branch : b.mfi = m}

\* (Mutant: one more than the limit.)
BelowOrAt(count, limit) == limit # Unlimited => count <= limit

Below(count, limit) == limit # Unlimited => count < limit

More(a, b) ==
  IF Unlimited \in {a, b} THEN Unlimited ELSE IF a > b THEN a ELSE b

Grant(m, plan) ==
  granted' = [granted EXCEPT
    ![m] = [branches |-> More(@.branches, PlanOf[plan].max_branches),
            agents   |-> More(@.agents, PlanOf[plan].max_agents)]]

\* (Mutant: the users table lets an e-mail address repeat.)
StaffUniqueByPhone(person) ==
  \A other \in staff : person.phone = Nothing \/ other.phone # person.phone

\* The unique columns of users; a missing value repeats freely.
StaffUnique(person) ==
  \A other \in staff :
    /\ person.email = Nothing \/ other.email # person.email
    /\ person.phone = Nothing \/ other.phone # person.phone

\* The unique column of mfi_accounts.
MfiUnique(email, except) == \A m \in Accounts \ {except} : mfi[m].email # email

-----------------------------------------------------------------------------
(* Onboarding.                                                             *)

\* The link is mailed before the invite is committed.
BeginStart(t) ==
  /\ \E i \in Invites, email \in Emails, plan \in PlanNames :
       /\ invite[i].state = "unsent"
       /\ invite' = [invite EXCEPT ![i] = [state |-> "mailed", email |-> email, plan |-> plan]]
       /\ Take(t, [kind |-> "start", invite |-> i])
  /\ UNCHANGED <<mfi, staff, branch, granted>>

CommitStart(t) ==
  /\ Working(t, "start")
  /\ invite' = [invite EXCEPT ![task[t].invite].state = "open"]
  /\ Done(t)
  /\ UNCHANGED <<mfi, staff, branch, granted>>

ExpireInvite(i) ==
  /\ invite[i].state = "open"
  /\ invite' = [invite EXCEPT ![i].state = "expired"]
  /\ UNCHANGED <<mfi, staff, branch, task, granted>>

BeginComplete(t) ==
  /\ \E i \in Invites, phone \in Phones \cup {Nothing} :
       /\ invite[i].state = "open"
       /\ ~EmailTaken(invite[i].email)
       /\ phone = Nothing \/ ~PhoneTaken(phone)
       /\ Take(t, [kind |-> "complete", invite |-> i, phone |-> phone])
  /\ UNCHANGED <<invite, mfi, staff, branch, granted>>

\* Account, manager and the invite's completion commit together, or not at all.
CommitComplete(t) ==
  /\ Working(t, "complete")
  /\ LET i == task[t].invite
         email == invite[i].email
     IN \E m \in Mfis \ Accounts :
          LET manager == [mfi |-> m, email |-> email, phone |-> task[t].phone,
                          role |-> "MANAGER"]
          IN /\ MfiUnique(email, Nothing) /\ StaffUnique(manager)
             /\ mfi' = [mfi EXCEPT ![m] = [email |-> email, plan |-> invite[i].plan,
                                           from |-> i]]
             /\ staff' = staff \cup {manager}
             /\ Grant(m, invite[i].plan)
             /\ invite' = [invite EXCEPT ![i].state = "completed"]
  /\ Done(t)
  /\ UNCHANGED <<branch>>

-----------------------------------------------------------------------------
(* Agents, branches and the account's address.                             *)

BeginCreateAgent(t) ==
  /\ \E m \in Accounts, phone \in Phones :
       /\ Below(Cardinality(StaffOf(m)), PlanOf[mfi[m].plan].max_agents)
       /\ ~PhoneTaken(phone)
       /\ BranchesOf(m) # {}
       /\ Take(t, [kind |-> "agent", mfi |-> m, phone |-> phone])
  /\ UNCHANGED <<invite, mfi, staff, branch, granted>>

CommitCreateAgent(t) ==
  /\ Working(t, "agent")
  /\ LET agent == [mfi |-> task[t].mfi, email |-> Nothing, phone |-> task[t].phone,
                   role |-> "AGENT"]
     IN StaffUnique(agent) /\ staff' = staff \cup {agent}
  /\ Done(t)
  /\ UNCHANGED <<invite, mfi, branch, granted>>

BeginCreateBranch(t) ==
  /\ \E m \in Accounts, name \in BranchNames :
       /\ Below(Cardinality(BranchesOf(m)), PlanOf[mfi[m].plan].max_branches)
       /\ [mfi |-> m, name |-> name] \notin branch
       /\ Take(t, [kind |-> "branch", mfi |-> m, name |-> name])
  /\ UNCHANGED <<invite, mfi, staff, branch, granted>>

CommitCreateBranch(t) ==
  /\ Working(t, "branch")
  /\ LET b == [mfi |-> task[t].mfi, name |-> task[t].name]
     IN b \notin branch /\ branch' = branch \cup {b}
  /\ Done(t)
  /\ UNCHANGED <<invite, mfi, staff, granted>>

\* The contact address is the account's; the manager's login keeps its own.
BeginChangeEmail(t) ==
  /\ \E m \in Accounts, email \in Emails :
       /\ MfiUnique(email, m)
       /\ Take(t, [kind |-> "email", mfi |-> m, email |-> email])
  /\ UNCHANGED <<invite, mfi, staff, branch, granted>>

CommitChangeEmail(t) ==
  /\ Working(t, "email")
  /\ MfiUnique(task[t].email, task[t].mfi)
  /\ mfi' = [mfi EXCEPT ![task[t].mfi].email = task[t].email]
  /\ Done(t)
  /\ UNCHANGED <<invite, staff, branch, granted>>

\* A settled payment (Payments) puts the account on another plan; nothing is
\* taken from an account that has more than the new plan allows.
ChangePlan ==
  /\ \E m \in Accounts, plan \in PlanNames :
       /\ mfi' = [mfi EXCEPT ![m].plan = plan]
       /\ Grant(m, plan)
  /\ UNCHANGED <<invite, staff, branch, task>>

\* A script creates an account without staff (and gives it a key, ApiKeys).
Provision ==
  /\ \E m \in Mfis \ Accounts, email \in Emails, plan \in PlanNames :
       /\ MfiUnique(email, Nothing)
       /\ mfi' = [mfi EXCEPT ![m] = [email |-> email, plan |-> plan, from |-> Nothing]]
       /\ Grant(m, plan)
  /\ UNCHANGED <<invite, staff, branch, task>>

-----------------------------------------------------------------------------
\* The insert is refused, the mail fails, or the worker dies.
FailTask(t) ==
  /\ task[t] # Nothing
  /\ Done(t)
  /\ UNCHANGED <<invite, mfi, staff, branch, granted>>

DirectoryNext ==
  \/ \E t \in Tasks :
       \/ BeginStart(t) \/ CommitStart(t)
       \/ BeginComplete(t) \/ CommitComplete(t)
       \/ BeginCreateAgent(t) \/ CommitCreateAgent(t)
       \/ BeginCreateBranch(t) \/ CommitCreateBranch(t)
       \/ BeginChangeEmail(t) \/ CommitChangeEmail(t)
       \/ FailTask(t)
  \/ \E i \in Invites : ExpireInvite(i)
  \/ ChangePlan
  \/ Provision

DirectorySpec == DirectoryInit /\ [][DirectoryNext]_directoryVars

-----------------------------------------------------------------------------
\* One invite makes one account, however often its link is completed at once
\* and whatever becomes of the account's address meanwhile; and that account
\* has its manager.
InviteMakesOneAccount ==
  \A i \in Invites :
    LET made == {m \in Accounts : mfi[m].from = i} IN
      /\ Cardinality(made) <= 1
      /\ made # {} <=> invite[i].state = "completed"
      /\ \A m \in made : \E p \in StaffOf(m) : p.role = "MANAGER" /\ p.email = invite[i].email

\* The plan's limits are exceeded by no more than the creations that ran side
\* by side, measured by the most generous plan the account has been on.
LimitsOverrunBounded ==
  \A m \in Accounts :
    /\ granted[m].agents # Unlimited =>
         Cardinality(StaffOf(m)) < granted[m].agents + Cardinality(Tasks)
    /\ granted[m].branches # Unlimited =>
         Cardinality(BranchesOf(m)) < granted[m].branches + Cardinality(Tasks)

=============================================================================
