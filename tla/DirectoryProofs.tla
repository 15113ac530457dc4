-------------------------- MODULE DirectoryProofs --------------------------
(***************************************************************************)
(* Proofs about onboarding (Directory), for any number of requests at a    *)
(* time, plans and accounts.                                               *)
(*                                                                         *)
(* Invites: completing a link twice at once is stopped by nothing but the  *)
(* unique e-mail address of its manager, who is never removed and whose    *)
(* address never changes; the account's address may change.                *)
(*                                                                         *)
(* A plan's limits are exceeded by less than the requests served at once.  *)
(* A creation counts rows that are committed; what the count misses are    *)
(* the creations under way, each of which was itself begun below the limit *)
(* of a plan the account has been on.                                      *)
(***************************************************************************)
EXTENDS Directory, FiniteSetTheorems, TLAPS

\* What requests under way have seen is still so.
TaskInv ==
  /\ \A t \in Tasks : Working(t, "start") => invite[task[t].invite].state = "mailed"
  /\ \A t, u \in Tasks : Working(t, "start") /\ Working(u, "start") /\ t # u =>
       task[t].invite # task[u].invite
  /\ \A t \in Tasks : Working(t, "complete") =>
       invite[task[t].invite].state \in {"open", "expired", "completed"}
  /\ \A t \in Tasks : Working(t, "agent") \/ Working(t, "branch") \/ Working(t, "email") =>
       task[t].mfi \in Accounts

\* The manager of the account that an invite made.
Founder(m, i, person) ==
  person.mfi = m /\ person.role = "MANAGER" /\ person.email = invite[i].email

InviteInv ==
  /\ \A i \in Invites : invite[i].state # "unsent" =>
       invite[i].email \in Emails /\ invite[i].plan \in PlanNames
  /\ \A p, q \in staff : p.email = q.email /\ p.email # Nothing => p = q
  /\ \A m \in Accounts : mfi[m].from # Nothing =>
       /\ invite[mfi[m].from].state = "completed"
       /\ \E person \in staff : Founder(m, mfi[m].from, person)
  /\ \A i \in Invites : invite[i].state = "completed" =>
       \E m \in Accounts : mfi[m].from = i

DirectoryInv == DirectoryTypeOK /\ TaskInv /\ InviteInv

-----------------------------------------------------------------------------
(* Types.                                                                  *)

LEMMA InitDirectoryInv == DirectoryAssumption /\ DirectoryInit => DirectoryInv
<1> SUFFICES ASSUME DirectoryAssumption, DirectoryInit PROVE DirectoryInv
  OBVIOUS
<1>1. DirectoryTypeOK
  BY DEF DirectoryInit, DirectoryTypeOK, InviteRow
<1>2. TaskInv /\ InviteInv
  BY DEF DirectoryInit, TaskInv, InviteInv, Working, Accounts
<1>3. QED
  BY <1>1, <1>2 DEF DirectoryInv

\* A request that begins has its job, the others have theirs.
LEMMA TakeType ==
  ASSUME DirectoryTypeOK, NEW t \in Tasks, NEW job \in Task, Take(t, job)
  PROVE  /\ task' \in [Tasks -> Task \cup {Nothing}]
         /\ task[t] = Nothing /\ task'[t] = job
         /\ \A u \in Tasks \ {t} : task'[u] = task[u]
BY DEF DirectoryTypeOK, Take

LEMMA DoneType ==
  ASSUME DirectoryTypeOK, NEW t \in Tasks, Done(t)
  PROVE  /\ task' \in [Tasks -> Task \cup {Nothing}]
         /\ task'[t] = Nothing
         /\ \A u \in Tasks \ {t} : task'[u] = task[u]
BY DEF DirectoryTypeOK, Done

LEMMA JobType ==
  ASSUME DirectoryTypeOK, NEW t \in Tasks
  PROVE  /\ Working(t, "start") => task[t].invite \in Invites
         /\ Working(t, "complete") =>
              task[t].invite \in Invites /\ task[t].phone \in Phones \cup {Nothing}
         /\ Working(t, "agent") => task[t].mfi \in Mfis /\ task[t].phone \in Phones
         /\ Working(t, "branch") => task[t].mfi \in Mfis /\ task[t].name \in BranchNames
         /\ Working(t, "email") => task[t].mfi \in Mfis /\ task[t].email \in Emails
<1>1. task[t] # Nothing => task[t] \in Task
  BY DEF DirectoryTypeOK
<1>2. QED
  BY <1>1 DEF Working, Task

LEMMA GrantType ==
  ASSUME DirectoryAssumption, DirectoryTypeOK, NEW m \in Mfis, NEW plan \in PlanNames,
         Grant(m, plan)
  PROVE  granted' \in [Mfis -> [branches: Nat \cup {Unlimited}, agents: Nat \cup {Unlimited}]]
<1>1. /\ PlanOf[plan].max_branches \in Nat \cup {Unlimited}
      /\ PlanOf[plan].max_agents \in Nat \cup {Unlimited}
  BY DEF DirectoryAssumption
<1>2. /\ granted[m].branches \in Nat \cup {Unlimited} /\ granted[m].agents \in Nat \cup {Unlimited}
  BY DEF DirectoryTypeOK
<1>3. /\ More(granted[m].branches, PlanOf[plan].max_branches) \in Nat \cup {Unlimited}
      /\ More(granted[m].agents, PlanOf[plan].max_agents) \in Nat \cup {Unlimited}
  BY <1>1, <1>2 DEF More
<1>4. QED
  BY <1>3 DEF Grant, DirectoryTypeOK

-----------------------------------------------------------------------------
(* What steps have in common.                                              *)

Sent == {"open", "expired", "completed"}

\* A request that begins and has seen what it should.
LEMMA TakeTask ==
  ASSUME DirectoryInv, NEW t \in Tasks, NEW job \in Task, Take(t, job), job.kind # "start",
         job.kind = "complete" => invite[job.invite].state \in Sent,
         job.kind \in {"agent", "branch", "email"} => job.mfi \in Accounts,
         UNCHANGED <<invite, mfi, staff, branch, granted>>
  PROVE  DirectoryInv'
<1>1. /\ task' \in [Tasks -> Task \cup {Nothing}] /\ task'[t] = job
      /\ \A u \in Tasks \ {t} : task'[u] = task[u]
  BY TakeType DEF DirectoryInv
<1>2. DirectoryTypeOK'
  BY <1>1 DEF DirectoryInv, DirectoryTypeOK
<1>3. \A u \in Tasks, kind \in {"start", "complete", "agent", "branch", "email"} :
        Working(u, kind)' => \/ u = t /\ job.kind = kind
                             \/ u # t /\ Working(u, kind)
  BY <1>1 DEF Working
<1>4. Accounts' = Accounts
  BY DEF Accounts
<1>5. TaskInv'
  BY <1>1, <1>3, <1>4 DEF DirectoryInv, TaskInv, Sent
<1>6. InviteInv'
  BY <1>4 DEF DirectoryInv, InviteInv, Founder
<1>7. QED
  BY <1>2, <1>5, <1>6 DEF DirectoryInv

\* Requests that go on still see what they saw, when one ends or none does.
LEMMA TasksGoOn ==
  ASSUME DirectoryTypeOK, TaskInv, NEW ended \in SUBSET Tasks,
         \A u \in Tasks : IF u \in ended THEN task'[u] = Nothing ELSE task'[u] = task[u],
         \A i \in Invites : invite[i].state = "mailed" =>
           \/ invite'[i].state = "mailed"
           \/ \E t \in ended : Working(t, "start") /\ task[t].invite = i,
         \A i \in Invites : invite[i].state \in Sent => invite'[i].state \in Sent,
         Accounts \subseteq Accounts'
  PROVE  TaskInv'
<1>1. \A u \in Tasks : \A kind : Working(u, kind)' =>
        u \notin ended /\ Working(u, kind) /\ task'[u] = task[u]
  BY DEF Working
<1>2. ASSUME NEW u \in Tasks, Working(u, "start")'
      PROVE  invite'[task'[u].invite].state = "mailed"
  <2>1. u \notin ended /\ Working(u, "start") /\ task'[u] = task[u]
    BY <1>1, <1>2
  <2>2. task[u].invite \in Invites /\ invite[task[u].invite].state = "mailed"
    BY <2>1, JobType DEF TaskInv
  <2>3. \A t \in ended : Working(t, "start") => task[t].invite # task[u].invite
    BY <2>1 DEF TaskInv
  <2>4. QED
    BY <2>1, <2>2, <2>3
<1>3. ASSUME NEW u \in Tasks, Working(u, "complete")'
      PROVE  invite'[task'[u].invite].state \in Sent
  <2>1. Working(u, "complete") /\ task'[u] = task[u]
    BY <1>1, <1>3
  <2>2. task[u].invite \in Invites /\ invite[task[u].invite].state \in Sent
    BY <2>1, JobType DEF TaskInv, Sent
  <2>3. QED
    BY <2>1, <2>2
<1>4. \A t, u \in Tasks : Working(t, "start")' /\ Working(u, "start")' /\ t # u =>
        task'[t].invite # task'[u].invite
  BY <1>1 DEF TaskInv
<1>5. \A t \in Tasks : Working(t, "agent")' \/ Working(t, "branch")' \/ Working(t, "email")' =>
        task'[t].mfi \in Accounts'
  BY <1>1 DEF TaskInv
<1>6. QED
  BY <1>2, <1>3, <1>4, <1>5 DEF TaskInv, Sent

\* Accounts keep the invite that made them.
LEMMA AccountsKeepInvite ==
  ASSUME InviteInv, UNCHANGED <<invite, staff>>,
         Accounts \subseteq Accounts',
         \A m \in Accounts : mfi'[m].from = mfi[m].from,
         \A m \in Accounts' \ Accounts : mfi'[m].from = Nothing
  PROVE  InviteInv'
<1>1. ASSUME NEW m \in Accounts', mfi'[m].from # Nothing
      PROVE  /\ invite'[mfi'[m].from].state = "completed"
             /\ \E person \in staff' : person.mfi = m /\ person.role = "MANAGER"
                                       /\ person.email = invite'[mfi'[m].from].email
  <2>1. m \in Accounts /\ mfi'[m].from = mfi[m].from
    BY <1>1
  <2>2. /\ invite[mfi[m].from].state = "completed"
        /\ \E person \in staff : person.mfi = m /\ person.role = "MANAGER"
                                 /\ person.email = invite[mfi[m].from].email
    BY <1>1, <2>1 DEF InviteInv, Founder
  <2>3. QED
    BY <2>1, <2>2
<1>2. \A i \in Invites : invite'[i].state = "completed" => \E m \in Accounts' : mfi'[m].from = i
  BY DEF InviteInv
<1>3. /\ \A i \in Invites : invite'[i].state # "unsent" =>
           invite'[i].email \in Emails /\ invite'[i].plan \in PlanNames
      /\ \A p, q \in staff' : p.email = q.email /\ p.email # Nothing => p = q
  BY DEF InviteInv
<1>4. QED
  BY <1>1, <1>2, <1>3 DEF InviteInv, Founder

\* Staff that joins has an address of its own, or none.
LEMMA StaffJoins ==
  ASSUME InviteInv, NEW person, StaffUnique(person), staff' = staff \cup {person},
         UNCHANGED <<invite, mfi>>
  PROVE  InviteInv'
<1>1. \A p, q \in staff' : p.email = q.email /\ p.email # Nothing => p = q
  BY DEF StaffUnique, InviteInv
<1>2. Accounts' = Accounts
  BY DEF Accounts
<1>3. QED
  BY <1>1, <1>2 DEF InviteInv, Founder

\* The rows of accounts that are there after one of them is written.
LEMMA AccountsAfter ==
  ASSUME DirectoryAssumption, DirectoryTypeOK, NEW m \in Mfis, NEW row \in MfiRow,
         mfi' = [mfi EXCEPT ![m] = row]
  PROVE  /\ mfi' \in [Mfis -> MfiRow \cup {Nothing}]
         /\ Accounts' = Accounts \cup {m}
         /\ mfi'[m] = row /\ \A k \in Mfis \ {m} : mfi'[k] = mfi[k]
BY DEF DirectoryAssumption, DirectoryTypeOK, Accounts

LEMMA NextDirectoryInv ==
  ASSUME DirectoryAssumption, DirectoryInv, [DirectoryNext]_directoryVars
  PROVE  DirectoryInv'
<1> USE DirectoryAssumption
<1>t. /\ DirectoryTypeOK /\ TaskInv /\ InviteInv
      /\ invite \in [Invites -> InviteRow] /\ mfi \in [Mfis -> MfiRow \cup {Nothing}]
      /\ staff \subseteq StaffRow /\ branch \subseteq BranchRow
      /\ task \in [Tasks -> Task \cup {Nothing}]
  BY DEF DirectoryInv, DirectoryTypeOK
<1>a. \A m \in Accounts : m \in Mfis /\ mfi[m] \in MfiRow
  BY <1>t DEF Accounts
<1>0. CASE UNCHANGED directoryVars
  BY <1>0 DEF DirectoryInv, directoryVars, DirectoryTypeOK, TaskInv, InviteInv, Working, Accounts,
     Founder
<1>1. ASSUME NEW t \in Tasks, BeginStart(t) PROVE DirectoryInv'
  <2>1. PICK i \in Invites, email \in Emails, plan \in PlanNames :
          /\ invite[i].state = "unsent"
          /\ invite' = [invite EXCEPT ![i] = [state |-> "mailed", email |-> email, plan |-> plan]]
          /\ Take(t, [kind |-> "start", invite |-> i])
    BY <1>1 DEF BeginStart
  <2>2. UNCHANGED <<mfi, staff, branch, granted>> /\ Accounts' = Accounts
    BY <1>1 DEF BeginStart, Accounts
  <2> DEFINE job == [kind |-> "start", invite |-> i]
  <2>3. job \in Task
    BY DEF Task
  <2>4. /\ task' \in [Tasks -> Task \cup {Nothing}] /\ task'[t] = job
        /\ \A u \in Tasks \ {t} : task'[u] = task[u]
    BY <1>t, <2>1, <2>3, TakeType
  <2>5. /\ invite' \in [Invites -> InviteRow] /\ invite'[i].state = "mailed"
        /\ invite'[i].email = email /\ invite'[i].plan = plan
        /\ \A k \in Invites \ {i} : invite'[k] = invite[k]
    BY <1>t, <2>1 DEF InviteRow
  <2>6. DirectoryTypeOK'
    BY <1>t, <2>2, <2>4, <2>5 DEF DirectoryTypeOK
  <2>7. \A u \in Tasks, kind \in {"start", "complete", "agent", "branch", "email"} :
          Working(u, kind)' => \/ u = t /\ kind = "start"
                               \/ u # t /\ Working(u, kind)
    BY <2>4 DEF Working
  <2>8. \A u \in Tasks : Working(u, "start") \/ Working(u, "complete") =>
          task[u].invite \in Invites \ {i}
    BY <1>t, <2>1, JobType DEF TaskInv
  <2>9. TaskInv'
    BY <1>t, <2>2, <2>4, <2>5, <2>7, <2>8 DEF TaskInv
  <2>10. \A m \in Accounts : mfi[m].from # Nothing => mfi[m].from \in Invites \ {i}
    BY <1>t, <1>a, <2>1 DEF InviteInv, MfiRow
  <2>11. InviteInv'
    BY <1>t, <2>1, <2>2, <2>5, <2>10 DEF InviteInv, Founder
  <2>12. QED
    BY <2>6, <2>9, <2>11 DEF DirectoryInv
<1>2. ASSUME NEW t \in Tasks, CommitStart(t) PROVE DirectoryInv'
  <2>1. Working(t, "start") /\ Done(t) /\ UNCHANGED <<mfi, staff, branch, granted>>
    BY <1>2 DEF CommitStart
  <2>2. PICK i \in Invites : i = task[t].invite /\ invite[i].state = "mailed"
    BY <1>t, <2>1, JobType DEF TaskInv
  <2>3. invite' = [invite EXCEPT ![i].state = "open"]
    BY <1>2, <2>2 DEF CommitStart
  <2>4. /\ invite' \in [Invites -> InviteRow] /\ invite'[i].state = "open"
        /\ invite'[i].email = invite[i].email /\ invite'[i].plan = invite[i].plan
        /\ \A k \in Invites \ {i} : invite'[k] = invite[k]
    BY <1>t, <2>3 DEF InviteRow
  <2>5. /\ task' \in [Tasks -> Task \cup {Nothing}] /\ task'[t] = Nothing
        /\ \A u \in Tasks \ {t} : task'[u] = task[u]
    BY <1>t, <2>1, DoneType
  <2>6. DirectoryTypeOK'
    BY <1>t, <2>1, <2>4, <2>5 DEF DirectoryTypeOK
  <2>7. Accounts' = Accounts
    BY <2>1 DEF Accounts
  <2>8. TaskInv'
    <3>1. \A u \in Tasks : IF u \in {t} THEN task'[u] = Nothing ELSE task'[u] = task[u]
      BY <2>5
    <3>2. \A k \in Invites : invite[k].state = "mailed" =>
            \/ invite'[k].state = "mailed"
            \/ \E u \in {t} : Working(u, "start") /\ task[u].invite = k
      BY <2>1, <2>2, <2>4
    <3>3. \A k \in Invites : invite[k].state \in Sent => invite'[k].state \in Sent
      BY <2>2, <2>4 DEF Sent
    <3>4. QED
      BY <1>t, <2>7, <3>1, <3>2, <3>3, TasksGoOn
  <2>9. \A m \in Accounts : mfi[m].from # Nothing => mfi[m].from \in Invites \ {i}
    BY <1>t, <1>a, <2>2 DEF InviteInv, MfiRow
  <2>10. InviteInv'
    BY <1>t, <2>1, <2>2, <2>4, <2>7, <2>9 DEF InviteInv, Founder
  <2>11. QED
    BY <2>6, <2>8, <2>10 DEF DirectoryInv
<1>3. ASSUME NEW i \in Invites, ExpireInvite(i) PROVE DirectoryInv'
  <2>1. /\ invite[i].state = "open" /\ invite' = [invite EXCEPT ![i].state = "expired"]
        /\ UNCHANGED <<mfi, staff, branch, task, granted>>
    BY <1>3 DEF ExpireInvite
  <2>2. /\ invite' \in [Invites -> InviteRow] /\ invite'[i].state = "expired"
        /\ invite'[i].email = invite[i].email /\ invite'[i].plan = invite[i].plan
        /\ \A k \in Invites \ {i} : invite'[k] = invite[k]
    BY <1>t, <2>1 DEF InviteRow
  <2>3. DirectoryTypeOK' /\ Accounts' = Accounts
    BY <1>t, <2>1, <2>2 DEF DirectoryTypeOK, Accounts
  <2>4. TaskInv'
    <3>1. \A u \in Tasks : IF u \in {} THEN task'[u] = Nothing ELSE task'[u] = task[u]
      BY <2>1
    <3>2. \A k \in Invites : invite[k].state = "mailed" =>
            \/ invite'[k].state = "mailed"
            \/ \E u \in {} : Working(u, "start") /\ task[u].invite = k
      BY <2>1, <2>2
    <3>3. \A k \in Invites : invite[k].state \in Sent => invite'[k].state \in Sent
      BY <2>1, <2>2 DEF Sent
    <3>4. {} \in SUBSET Tasks
      OBVIOUS
    <3>5. QED
      BY <1>t, <2>3, <3>1, <3>2, <3>3, <3>4, TasksGoOn
  <2>5. \A m \in Accounts : mfi[m].from # Nothing => mfi[m].from \in Invites \ {i}
    BY <1>t, <1>a, <2>1 DEF InviteInv, MfiRow
  <2>6. InviteInv'
    BY <1>t, <2>1, <2>2, <2>3, <2>5 DEF InviteInv, Founder
  <2>7. QED
    BY <2>3, <2>4, <2>6 DEF DirectoryInv
<1>4. ASSUME NEW t \in Tasks, BeginComplete(t) PROVE DirectoryInv'
  <2>1. PICK i \in Invites, phone \in Phones \cup {Nothing} :
          /\ invite[i].state = "open"
          /\ Take(t, [kind |-> "complete", invite |-> i, phone |-> phone])
    BY <1>4 DEF BeginComplete
  <2>2. [kind |-> "complete", invite |-> i, phone |-> phone] \in Task
    BY DEF Task
  <2>3. QED
    BY <1>4, <2>1, <2>2, TakeTask DEF BeginComplete, Sent
<1>5. ASSUME NEW t \in Tasks, CommitComplete(t) PROVE DirectoryInv'
  <2>1. Working(t, "complete") /\ Done(t) /\ UNCHANGED branch
    BY <1>5 DEF CommitComplete
  <2>2. PICK i \in Invites : i = task[t].invite /\ invite[i].state \in Sent
    BY <1>t, <2>1, JobType DEF TaskInv, Sent
  <2>3. invite[i].email \in Emails /\ invite[i].plan \in PlanNames
    BY <1>t, <2>2 DEF InviteInv, Sent
  <2> DEFINE account == [email |-> invite[i].email, plan |-> invite[i].plan, from |-> i]
             manager(m) == [mfi |-> m, email |-> invite[i].email, phone |-> task[t].phone,
                            role |-> "MANAGER"]
  <2>4. PICK m \in Mfis \ Accounts :
          /\ StaffUnique(manager(m))
          /\ mfi' = [mfi EXCEPT ![m] = account]
          /\ staff' = staff \cup {manager(m)}
          /\ Grant(m, invite[i].plan)
          /\ invite' = [invite EXCEPT ![i].state = "completed"]
    BY <1>5, <2>2 DEF CommitComplete
  <2>5. account \in MfiRow /\ manager(m) \in StaffRow
    BY <1>t, <2>1, <2>3, JobType DEF MfiRow, StaffRow
  <2>6. /\ mfi' \in [Mfis -> MfiRow \cup {Nothing}] /\ Accounts' = Accounts \cup {m}
        /\ mfi'[m] = account /\ \A k \in Mfis \ {m} : mfi'[k] = mfi[k]
    BY <1>t, <2>4, <2>5, AccountsAfter
  <2>7. /\ invite' \in [Invites -> InviteRow] /\ invite'[i].state = "completed"
        /\ \A k \in Invites : invite'[k].email = invite[k].email /\ invite'[k].plan = invite[k].plan
        /\ \A k \in Invites \ {i} : invite'[k] = invite[k]
    BY <1>t, <2>4 DEF InviteRow
  <2>8. /\ task' \in [Tasks -> Task \cup {Nothing}] /\ task'[t] = Nothing
        /\ \A u \in Tasks \ {t} : task'[u] = task[u]
    BY <1>t, <2>1, DoneType
  <2>9. granted' \in [Mfis -> [branches: Nat \cup {Unlimited}, agents: Nat \cup {Unlimited}]]
    BY <1>t, <2>3, <2>4, GrantType
  <2>10. DirectoryTypeOK'
    BY <1>t, <2>1, <2>4, <2>5, <2>6, <2>7, <2>8, <2>9 DEF DirectoryTypeOK
  <2>11. TaskInv'
    <3>1. \A u \in Tasks : IF u \in {t} THEN task'[u] = Nothing ELSE task'[u] = task[u]
      BY <2>8
    <3>2. \A k \in Invites : invite[k].state = "mailed" => invite'[k].state = "mailed"
      BY <2>2, <2>7 DEF Sent
    <3>3. \A k \in Invites : invite[k].state \in Sent => invite'[k].state \in Sent
      BY <2>7 DEF Sent
    <3>4. QED
      BY <1>t, <2>6, <3>1, <3>2, <3>3, TasksGoOn
  <2>12. \A p, q \in staff' : p.email = q.email /\ p.email # Nothing => p = q
    BY <1>t, <2>4 DEF InviteInv, StaffUnique
  <2>13. ASSUME NEW k \in Accounts', mfi'[k].from # Nothing
         PROVE  /\ invite'[mfi'[k].from].state = "completed"
                /\ \E person \in staff' : person.mfi = k /\ person.role = "MANAGER"
                                          /\ person.email = invite'[mfi'[k].from].email
    <3>1. CASE k = m
      <4>1. mfi'[k].from = i /\ manager(m) \in staff'
        BY <2>4, <2>6, <3>1
      <4>2. /\ manager(m).mfi = k /\ manager(m).role = "MANAGER"
            /\ manager(m).email = invite'[i].email
        BY <2>7, <3>1
      <4>3. QED
        BY <2>7, <4>1, <4>2
    <3>2. CASE k # m
      <4>1. k \in Accounts /\ mfi'[k] = mfi[k]
        BY <1>a, <2>6, <2>13, <3>2
      <4>2. mfi[k].from \in Invites
        BY <1>a, <2>13, <4>1 DEF MfiRow
      <4>3. invite[mfi[k].from].state = "completed"
        BY <1>t, <2>13, <4>1 DEF InviteInv
      <4>4. PICK person \in staff : Founder(k, mfi[k].from, person)
        BY <1>t, <2>13, <4>1 DEF InviteInv
      <4>5. QED
        BY <2>4, <2>7, <4>1, <4>2, <4>3, <4>4 DEF Founder
    <3>3. QED
      BY <3>1, <3>2
  <2>14. ASSUME NEW k \in Invites, invite'[k].state = "completed"
         PROVE  \E a \in Accounts' : mfi'[a].from = k
    <3>1. CASE k = i
      BY <2>6, <3>1
    <3>2. CASE k # i
      <4>1. PICK a \in Accounts : mfi[a].from = k
        BY <1>t, <2>7, <2>14, <3>2 DEF InviteInv
      <4>2. QED
        BY <1>a, <2>4, <2>6, <4>1
    <3>3. QED
      BY <3>1, <3>2
  <2>15. \A k \in Invites : invite'[k].state # "unsent" =>
           invite'[k].email \in Emails /\ invite'[k].plan \in PlanNames
    BY <1>t, <2>3, <2>7 DEF InviteInv
  <2>16. InviteInv'
    BY <2>12, <2>13, <2>14, <2>15 DEF InviteInv, Founder
  <2>17. QED
    BY <2>10, <2>11, <2>16 DEF DirectoryInv
<1>6. ASSUME NEW t \in Tasks, BeginCreateAgent(t) PROVE DirectoryInv'
  <2>1. PICK m \in Accounts, phone \in Phones :
          Take(t, [kind |-> "agent", mfi |-> m, phone |-> phone])
    BY <1>6 DEF BeginCreateAgent
  <2>2. [kind |-> "agent", mfi |-> m, phone |-> phone] \in Task
    BY <1>a DEF Task
  <2>3. QED
    BY <1>6, <2>1, <2>2, TakeTask DEF BeginCreateAgent
<1>7. ASSUME NEW t \in Tasks, BeginCreateBranch(t) PROVE DirectoryInv'
  <2>1. PICK m \in Accounts, name \in BranchNames :
          Take(t, [kind |-> "branch", mfi |-> m, name |-> name])
    BY <1>7 DEF BeginCreateBranch
  <2>2. [kind |-> "branch", mfi |-> m, name |-> name] \in Task
    BY <1>a DEF Task
  <2>3. QED
    BY <1>7, <2>1, <2>2, TakeTask DEF BeginCreateBranch
<1>8. ASSUME NEW t \in Tasks, BeginChangeEmail(t) PROVE DirectoryInv'
  <2>1. PICK m \in Accounts, email \in Emails :
          Take(t, [kind |-> "email", mfi |-> m, email |-> email])
    BY <1>8 DEF BeginChangeEmail
  <2>2. [kind |-> "email", mfi |-> m, email |-> email] \in Task
    BY <1>a DEF Task
  <2>3. QED
    BY <1>8, <2>1, <2>2, TakeTask DEF BeginChangeEmail
\* A request that ends and leaves the invites alone.
<1>9. ASSUME NEW t \in Tasks, Done(t), UNCHANGED invite, Accounts \subseteq Accounts'
      PROVE  task' \in [Tasks -> Task \cup {Nothing}] /\ TaskInv'
  <2>1. /\ task' \in [Tasks -> Task \cup {Nothing}] /\ task'[t] = Nothing
        /\ \A u \in Tasks \ {t} : task'[u] = task[u]
    BY <1>t, <1>9, DoneType
  <2>2. \A u \in Tasks : IF u \in {t} THEN task'[u] = Nothing ELSE task'[u] = task[u]
    BY <2>1
  <2>3. /\ \A k \in Invites : invite[k].state = "mailed" =>
             \/ invite'[k].state = "mailed"
             \/ \E u \in {t} : Working(u, "start") /\ task[u].invite = k
        /\ \A k \in Invites : invite[k].state \in Sent => invite'[k].state \in Sent
    BY <1>9
  <2>4. {t} \in SUBSET Tasks /\ DirectoryTypeOK /\ TaskInv /\ Accounts \subseteq Accounts'
    BY <1>t, <1>9
  <2>5. TaskInv'
    BY <2>2, <2>3, <2>4, TasksGoOn
  <2>6. QED
    BY <2>1, <2>5
<1>10. ASSUME NEW t \in Tasks, CommitCreateAgent(t) PROVE DirectoryInv'
  <2> DEFINE agent == [mfi |-> task[t].mfi, email |-> Nothing, phone |-> task[t].phone,
                       role |-> "AGENT"]
  <2>1. /\ Working(t, "agent") /\ Done(t) /\ UNCHANGED <<invite, mfi, branch, granted>>
        /\ StaffUnique(agent) /\ staff' = staff \cup {agent}
    BY <1>10 DEF CommitCreateAgent
  <2>2. agent \in StaffRow /\ Accounts' = Accounts
    BY <1>t, <2>1, JobType DEF StaffRow, Accounts
  <2> HIDE DEF agent
  <2>3. task' \in [Tasks -> Task \cup {Nothing}] /\ TaskInv'
    BY <1>9, <2>1, <2>2
  <2>4. DirectoryTypeOK'
    BY <1>t, <2>1, <2>2, <2>3 DEF DirectoryTypeOK
  <2>5. InviteInv'
    BY <1>t, <2>1, StaffJoins
  <2>6. QED
    BY <2>3, <2>4, <2>5 DEF DirectoryInv
<1>11. ASSUME NEW t \in Tasks, CommitCreateBranch(t) PROVE DirectoryInv'
  <2> DEFINE b == [mfi |-> task[t].mfi, name |-> task[t].name]
  <2>1. /\ Working(t, "branch") /\ Done(t) /\ UNCHANGED <<invite, mfi, staff, granted>>
        /\ branch' = branch \cup {b}
    BY <1>11 DEF CommitCreateBranch
  <2>2. b \in BranchRow /\ Accounts' = Accounts
    BY <1>t, <2>1, JobType DEF BranchRow, Accounts
  <2> HIDE DEF b
  <2>3. task' \in [Tasks -> Task \cup {Nothing}] /\ TaskInv'
    BY <1>9, <2>1, <2>2
  <2>4. DirectoryTypeOK'
    BY <1>t, <2>1, <2>2, <2>3 DEF DirectoryTypeOK
  <2>5. InviteInv'
    BY <1>t, <2>1, <2>2 DEF InviteInv, Founder
  <2>6. QED
    BY <2>3, <2>4, <2>5 DEF DirectoryInv
<1>12. ASSUME NEW t \in Tasks, CommitChangeEmail(t) PROVE DirectoryInv'
  <2>1. Working(t, "email") /\ Done(t) /\ UNCHANGED <<invite, staff, branch, granted>>
    BY <1>12 DEF CommitChangeEmail
  <2>2. PICK m \in Accounts, email \in Emails : m = task[t].mfi /\ email = task[t].email
    BY <1>t, <2>1, JobType DEF TaskInv
  <2> DEFINE row == [mfi[m] EXCEPT !.email = email]
  <2>3. mfi' = [mfi EXCEPT ![m] = row]
    BY <1>12, <2>2 DEF CommitChangeEmail
  <2>4. row \in MfiRow /\ row.from = mfi[m].from /\ m \in Mfis
    BY <1>a DEF MfiRow
  <2> HIDE DEF row
  <2>5. /\ mfi' \in [Mfis -> MfiRow \cup {Nothing}] /\ Accounts' = Accounts
        /\ \A k \in Accounts : mfi'[k].from = mfi[k].from
    <3>1. /\ mfi' \in [Mfis -> MfiRow \cup {Nothing}] /\ Accounts' = Accounts \cup {m}
          /\ mfi'[m] = row /\ \A k \in Mfis \ {m} : mfi'[k] = mfi[k]
      BY <1>t, <2>3, <2>4, AccountsAfter
    <3>2. QED
      BY <1>a, <2>4, <3>1
  <2>6. task' \in [Tasks -> Task \cup {Nothing}] /\ TaskInv'
    BY <1>9, <2>1, <2>5
  <2>7. DirectoryTypeOK'
    BY <1>t, <2>1, <2>5, <2>6 DEF DirectoryTypeOK
  <2>8. InviteInv'
    BY <1>t, <2>1, <2>5, AccountsKeepInvite
  <2>9. QED
    BY <2>6, <2>7, <2>8 DEF DirectoryInv
<1>13. ASSUME NEW t \in Tasks, FailTask(t) PROVE DirectoryInv'
  <2>1. Done(t) /\ UNCHANGED <<invite, mfi, staff, branch, granted>> /\ Accounts' = Accounts
    BY <1>13 DEF FailTask, Accounts
  <2>2. task' \in [Tasks -> Task \cup {Nothing}] /\ TaskInv'
    BY <1>9, <2>1
  <2>3. DirectoryTypeOK'
    BY <1>t, <2>1, <2>2 DEF DirectoryTypeOK
  <2>4. InviteInv'
    BY <1>t, <2>1 DEF InviteInv, Founder
  <2>5. QED
    BY <2>2, <2>3, <2>4 DEF DirectoryInv
\* A step of no request, which writes one account.
<1>14. ASSUME NEW m \in Mfis, NEW row \in MfiRow, NEW plan \in PlanNames,
              mfi' = [mfi EXCEPT ![m] = row], Grant(m, plan),
              row.from = IF m \in Accounts THEN mfi[m].from ELSE Nothing,
              UNCHANGED <<invite, staff, branch, task>>
       PROVE  DirectoryInv'
  <2>1. /\ mfi' \in [Mfis -> MfiRow \cup {Nothing}] /\ Accounts' = Accounts \cup {m}
        /\ mfi'[m] = row /\ \A k \in Mfis \ {m} : mfi'[k] = mfi[k]
    BY <1>t, <1>14, AccountsAfter
  <2>2. DirectoryTypeOK'
    BY <1>t, <1>14, <2>1, GrantType DEF DirectoryTypeOK
  <2>3. TaskInv'
    BY <1>t, <1>14, <2>1 DEF TaskInv, Working
  <2>4. InviteInv'
    BY <1>t, <1>a, <1>14, <2>1, AccountsKeepInvite
  <2>5. QED
    BY <2>2, <2>3, <2>4 DEF DirectoryInv
<1>15. CASE ChangePlan
  <2>1. PICK m \in Accounts, plan \in PlanNames :
          /\ mfi' = [mfi EXCEPT ![m].plan = plan] /\ Grant(m, plan)
          /\ UNCHANGED <<invite, staff, branch, task>>
    BY <1>15 DEF ChangePlan
  <2> DEFINE row == [mfi[m] EXCEPT !.plan = plan]
  <2>2. row \in MfiRow /\ row.from = mfi[m].from /\ m \in Mfis
    BY <1>a DEF MfiRow
  <2>3. mfi' = [mfi EXCEPT ![m] = row]
    BY <2>1
  <2> HIDE DEF row
  <2>4. QED
    BY <1>14, <2>1, <2>2, <2>3
<1>16. CASE Provision
  <2>1. PICK m \in Mfis \ Accounts, email \in Emails, plan \in PlanNames :
          /\ mfi' = [mfi EXCEPT ![m] = [email |-> email, plan |-> plan, from |-> Nothing]]
          /\ Grant(m, plan) /\ UNCHANGED <<invite, staff, branch, task>>
    BY <1>16 DEF Provision
  <2>2. [email |-> email, plan |-> plan, from |-> Nothing] \in MfiRow
    BY DEF MfiRow
  <2>3. QED
    BY <1>14, <2>1, <2>2
<1>17. QED
  BY <1>0, <1>1, <1>2, <1>3, <1>4, <1>5, <1>6, <1>7, <1>8, <1>10, <1>11, <1>12, <1>13,
     <1>15, <1>16 DEF DirectoryNext

-----------------------------------------------------------------------------
\* The accounts of one invite have one manager, so they are one.
LEMMA OneAccount ==
  ASSUME DirectoryAssumption, DirectoryInv
  PROVE  InviteMakesOneAccount
<1> SUFFICES ASSUME NEW i \in Invites
             PROVE  LET made == {m \in Accounts : mfi[m].from = i} IN
                      /\ Cardinality(made) <= 1
                      /\ made # {} <=> invite[i].state = "completed"
                      /\ \A m \in made : \E p \in StaffOf(m) :
                           p.role = "MANAGER" /\ p.email = invite[i].email
  BY DEF InviteMakesOneAccount
<1> DEFINE made == {m \in Accounts : mfi[m].from = i}
<1>1. \A m \in made : /\ invite[i].state = "completed"
                      /\ \E person \in staff : Founder(m, i, person)
  <2>1. i # Nothing
    BY DEF DirectoryAssumption
  <2>2. QED
    BY <2>1 DEF DirectoryInv, InviteInv
<1>2. made # {} <=> invite[i].state = "completed"
  BY <1>1 DEF DirectoryInv, InviteInv
<1>3. \A m \in made : \E p \in StaffOf(m) : p.role = "MANAGER" /\ p.email = invite[i].email
  BY <1>1 DEF StaffOf, Founder
<1>4. Cardinality(made) <= 1
  <2>1. CASE made = {}
    <3>1. Cardinality({}) = 0
      BY FS_EmptySet
    <3> HIDE DEF made
    <3>2. QED
      BY <2>1, <3>1
  <2>2. CASE made # {}
    <3>1. PICK m \in made : TRUE
      BY <2>2
    <3>2. ASSUME NEW k \in made PROVE k = m
      <4>1. PICK p \in staff, q \in staff : Founder(m, i, p) /\ Founder(k, i, q)
        BY <1>1, <3>1
      <4>2. invite[i].state = "completed" /\ invite[i].email \in Emails
        BY <1>1, <3>1 DEF DirectoryInv, InviteInv
      <4>3. p.email = q.email /\ p.email # Nothing
        BY <4>1, <4>2 DEF Founder, DirectoryAssumption
      <4>4. p = q
        BY <4>3 DEF DirectoryInv, InviteInv
      <4>5. QED
        BY <4>1, <4>4 DEF Founder
    <3>3. made = {m}
      BY <3>1, <3>2
    <3>4. Cardinality({m}) = 1
      BY FS_Singleton
    <3> HIDE DEF made
    <3>5. QED
      BY <3>3, <3>4
  <2>3. QED
    BY <2>1, <2>2
<1>5. QED
  BY <1>2, <1>3, <1>4

\* The variables of Directory keep their types.
THEOREM DirectoryTypeCorrect == DirectorySpec => []DirectoryTypeOK
<1>1. DirectoryInit => DirectoryInv
  BY InitDirectoryInv, DirectoryAssumption
<1>2. DirectoryInv /\ [DirectoryNext]_directoryVars => DirectoryInv'
  BY NextDirectoryInv, DirectoryAssumption
<1>3. DirectoryInv => DirectoryTypeOK
  BY DEF DirectoryInv
<1>4. QED
  BY <1>1, <1>2, <1>3, PTL DEF DirectorySpec

\* One invite makes one account with its manager, for any number of requests
\* that complete its link at once.
THEOREM InviteIsUsedOnce == DirectorySpec => []InviteMakesOneAccount
<1>1. DirectoryInit => DirectoryInv
  BY InitDirectoryInv, DirectoryAssumption
<1>2. DirectoryInv /\ [DirectoryNext]_directoryVars => DirectoryInv'
  BY NextDirectoryInv, DirectoryAssumption
<1>3. DirectoryInv => InviteMakesOneAccount
  BY OneAccount, DirectoryAssumption
<1>4. QED
  BY <1>1, <1>2, <1>3, PTL DEF DirectorySpec

-----------------------------------------------------------------------------
(* The limits.                                                             *)

\* Creations under way.
Creating(kind, m) == {t \in Tasks : Working(t, kind) /\ task[t].mfi = m}

\* Rows and creations together, against the most that was granted.
Within(rows, creations, most) ==
  most # Unlimited => Cardinality(rows) + Cardinality(creations) < most + Cardinality(Tasks)

AtLeast(most, limit) == most # Unlimited => limit # Unlimited /\ limit <= most

KeptWithin(m) ==
  /\ Within(StaffOf(m), Creating("agent", m), granted[m].agents)
  /\ Within(BranchesOf(m), Creating("branch", m), granted[m].branches)
  /\ AtLeast(granted[m].agents, PlanOf[mfi[m].plan].max_agents)
  /\ AtLeast(granted[m].branches, PlanOf[mfi[m].plan].max_branches)

LimitsInv ==
  /\ IsFiniteSet(staff) /\ IsFiniteSet(branch)
  /\ \A person \in staff : person.mfi \in Accounts
  /\ \A b \in branch : b.mfi \in Accounts
  /\ \A m \in Accounts : KeptWithin(m)

Limit == Nat \cup {Unlimited}

-----------------------------------------------------------------------------
(* Counting.                                                               *)

LEMMA WithinFewer ==
  ASSUME DirectoryAssumption, NEW rows, IsFiniteSet(rows), NEW before \in SUBSET Tasks,
         NEW after \in SUBSET before, NEW most \in Limit, NEW more \in Limit,
         AtLeast(more, most), Within(rows, before, most)
  PROVE  Within(rows, after, more)
<1>1. IsFiniteSet(before) /\ IsFiniteSet(after)
  BY FS_Subset DEF DirectoryAssumption
<1>2. /\ Cardinality(rows) \in Nat /\ Cardinality(before) \in Nat /\ Cardinality(after) \in Nat
      /\ Cardinality(Tasks) \in Nat
  BY <1>1, FS_CardinalityType DEF DirectoryAssumption
<1>3. Cardinality(after) <= Cardinality(before)
  BY <1>1, FS_Subset
<1>4. QED
  BY <1>2, <1>3 DEF Within, AtLeast, Limit, DirectoryAssumption

\* A creation begins below the plan's limit.
LEMMA WithinBegin ==
  ASSUME DirectoryAssumption, NEW rows, IsFiniteSet(rows), NEW creations \in SUBSET Tasks,
         NEW most \in Limit, NEW limit \in Limit, AtLeast(most, limit),
         Below(Cardinality(rows), limit)
  PROVE  Within(rows, creations, most)
<1>1. Cardinality(creations) <= Cardinality(Tasks) /\ Cardinality(creations) \in Nat
  BY FS_Subset, FS_CardinalityType DEF DirectoryAssumption
<1>2. Cardinality(rows) \in Nat /\ Cardinality(Tasks) \in Nat
  BY FS_CardinalityType DEF DirectoryAssumption
<1>3. QED
  BY <1>1, <1>2 DEF Within, AtLeast, Below, Limit, DirectoryAssumption

\* It ends with a row.
LEMMA WithinCommit ==
  ASSUME DirectoryAssumption, NEW rows, IsFiniteSet(rows), NEW row,
         NEW creations \in SUBSET Tasks, NEW t \in creations, NEW most \in Limit,
         Within(rows, creations, most)
  PROVE  Within(rows \cup {row}, creations \ {t}, most)
<1>1. IsFiniteSet(creations)
  BY FS_Subset DEF DirectoryAssumption
<1>2. /\ Cardinality(rows) \in Nat /\ Cardinality(creations) \in Nat
      /\ Cardinality(Tasks) \in Nat
  BY <1>1, FS_CardinalityType DEF DirectoryAssumption
<1>3. Cardinality(creations \ {t}) = Cardinality(creations) - 1
  BY <1>1, FS_RemoveElement
<1>4. Cardinality(rows \cup {row}) \in {Cardinality(rows), Cardinality(rows) + 1}
  BY FS_AddElement
<1>5. QED
  BY <1>2, <1>3, <1>4 DEF Within, Limit, DirectoryAssumption

\* A new account has no rows and no creations, or its manager only.
LEMMA WithinNone ==
  ASSUME DirectoryAssumption, NEW most \in Limit, NEW limit \in (Nat \ {0}) \cup {Unlimited},
         AtLeast(most, limit)
  PROVE  /\ Within({}, {}, most)
         /\ \A row : Tasks # {} => Within({row}, {}, most)
<1>1. Cardinality({}) = 0 /\ Cardinality(Tasks) \in Nat
  BY FS_EmptySet, FS_CardinalityType DEF DirectoryAssumption
<1>2. Tasks # {} => Cardinality(Tasks) # 0
  BY FS_EmptySet DEF DirectoryAssumption
<1>3. most # Unlimited => most \in Nat /\ most >= 1
  BY DEF AtLeast, Limit, DirectoryAssumption
<1>4. Within({}, {}, most)
  BY <1>1, <1>3 DEF Within
<1>5. ASSUME NEW row, Tasks # {} PROVE Within({row}, {}, most)
  <2>1. Cardinality({row}) = 1
    BY FS_Singleton
  <2>2. QED
    BY <1>1, <1>2, <1>3, <1>5, <2>1 DEF Within
<1>6. QED
  BY <1>4, <1>5

\* A grant is no less than what was granted, and than the plan's limit.
LEMMA GrantRaises ==
  ASSUME DirectoryAssumption, DirectoryTypeOK, NEW m \in Mfis, NEW plan \in PlanNames,
         Grant(m, plan)
  PROVE  /\ \A k \in Mfis : /\ granted'[k].agents \in Limit /\ granted'[k].branches \in Limit
                            /\ AtLeast(granted'[k].agents, granted[k].agents)
                            /\ AtLeast(granted'[k].branches, granted[k].branches)
         /\ AtLeast(granted'[m].agents, PlanOf[plan].max_agents)
         /\ AtLeast(granted'[m].branches, PlanOf[plan].max_branches)
         /\ \A k \in Mfis \ {m} : granted'[k] = granted[k]
<1>1. /\ PlanOf[plan].max_branches \in Limit /\ PlanOf[plan].max_agents \in Limit
      /\ Unlimited \notin Nat
  BY DEF DirectoryAssumption, Limit
<1>2. \A k \in Mfis : granted[k].branches \in Limit /\ granted[k].agents \in Limit
  BY DEF DirectoryTypeOK, Limit
<1>3. \A a, b \in Limit : /\ More(a, b) \in Limit /\ AtLeast(More(a, b), a)
                          /\ AtLeast(More(a, b), b)
  BY <1>1 DEF More, AtLeast, Limit
<1>4. /\ \A k \in Mfis \ {m} : granted'[k] = granted[k]
      /\ granted'[m].agents = More(granted[m].agents, PlanOf[plan].max_agents)
      /\ granted'[m].branches = More(granted[m].branches, PlanOf[plan].max_branches)
  BY DEF Grant, DirectoryTypeOK
<1>5. \A a \in Limit : AtLeast(a, a)
  BY <1>1 DEF AtLeast, Limit
<1>6. QED
  BY <1>1, <1>2, <1>3, <1>4, <1>5

-----------------------------------------------------------------------------
(* Steps.                                                                  *)

\* What is granted and counted has its type.
LEMMA KeptTypes ==
  ASSUME DirectoryAssumption, DirectoryInv, LimitsInv, NEW m \in Accounts
  PROVE  /\ m \in Mfis /\ mfi[m] \in MfiRow /\ mfi[m].plan \in PlanNames
         /\ granted[m].agents \in Limit /\ granted[m].branches \in Limit
         /\ PlanOf[mfi[m].plan].max_agents \in Limit
         /\ PlanOf[mfi[m].plan].max_branches \in Limit
         /\ IsFiniteSet(StaffOf(m)) /\ IsFiniteSet(BranchesOf(m))
         /\ Creating("agent", m) \in SUBSET Tasks /\ Creating("branch", m) \in SUBSET Tasks
<1>1. m \in Mfis /\ mfi[m] \in MfiRow
  BY DEF Accounts, DirectoryInv, DirectoryTypeOK
<1>2. mfi[m].plan \in PlanNames
  BY <1>1 DEF MfiRow
<1>3. granted[m].agents \in Limit /\ granted[m].branches \in Limit
  BY <1>1 DEF DirectoryInv, DirectoryTypeOK, Limit
<1>4. PlanOf[mfi[m].plan].max_agents \in Limit /\ PlanOf[mfi[m].plan].max_branches \in Limit
  BY <1>2 DEF DirectoryAssumption, Limit
<1>5. IsFiniteSet(StaffOf(m)) /\ IsFiniteSet(BranchesOf(m))
  BY FS_Subset DEF LimitsInv, StaffOf, BranchesOf
<1>6. QED
  BY <1>1, <1>2, <1>3, <1>4, <1>5 DEF Creating

\* Rows as they were, no more creations, no less granted: the bound stands.
LEMMA StillKept ==
  ASSUME DirectoryAssumption, DirectoryInv, LimitsInv, NEW m \in Accounts,
         NEW plan \in PlanNames, mfi'[m].plan = plan,
         StaffOf(m)' = StaffOf(m), BranchesOf(m)' = BranchesOf(m),
         Creating("agent", m)' \subseteq Creating("agent", m),
         Creating("branch", m)' \subseteq Creating("branch", m),
         granted'[m].agents \in Limit, granted'[m].branches \in Limit,
         AtLeast(granted'[m].agents, granted[m].agents),
         AtLeast(granted'[m].branches, granted[m].branches),
         AtLeast(granted'[m].agents, PlanOf[plan].max_agents),
         AtLeast(granted'[m].branches, PlanOf[plan].max_branches)
  PROVE  KeptWithin(m)'
<1>1. KeptWithin(m)
  BY DEF LimitsInv
<1>2. Within(StaffOf(m), Creating("agent", m)', granted'[m].agents)
  BY <1>1, KeptTypes, WithinFewer DEF KeptWithin
<1>3. Within(BranchesOf(m), Creating("branch", m)', granted'[m].branches)
  BY <1>1, KeptTypes, WithinFewer DEF KeptWithin
<1>4. QED
  BY <1>2, <1>3 DEF KeptWithin, Within

\* Nobody works at, or for, an account that does not exist.
LEMMA NothingYet ==
  ASSUME DirectoryInv, LimitsInv, NEW m \in Mfis \ Accounts
  PROVE  /\ StaffOf(m) = {} /\ BranchesOf(m) = {}
         /\ Creating("agent", m) = {} /\ Creating("branch", m) = {}
BY DEF DirectoryInv, TaskInv, LimitsInv, StaffOf, BranchesOf, Creating

\* An account is made: the others are as they were.
LEMMA OthersKept ==
  ASSUME DirectoryAssumption, DirectoryInv, LimitsInv, NEW m \in Mfis, NEW plan \in PlanNames,
         Grant(m, plan), NEW k \in Accounts, k # m, mfi'[k] = mfi[k],
         StaffOf(k)' = StaffOf(k), BranchesOf(k)' = BranchesOf(k),
         Creating("agent", k)' \subseteq Creating("agent", k),
         Creating("branch", k)' \subseteq Creating("branch", k)
  PROVE  KeptWithin(k)'
<1>1. /\ KeptWithin(k) /\ k \in Mfis /\ mfi[k].plan \in PlanNames /\ mfi'[k].plan = mfi[k].plan
      /\ granted[k].agents \in Limit /\ granted[k].branches \in Limit
  BY KeptTypes DEF LimitsInv
<1>2. granted'[k] = granted[k]
  BY <1>1, GrantRaises DEF DirectoryInv
<1>3. \A most \in Limit : AtLeast(most, most)
  BY DEF AtLeast, Limit
<1>4. QED
  BY <1>1, <1>2, <1>3, StillKept DEF KeptWithin

\* Steps that touch neither rows nor grants, and begin no creation.
LEMMA OtherKept ==
  ASSUME DirectoryAssumption, DirectoryInv, LimitsInv, UNCHANGED <<staff, branch, granted>>,
         Accounts' = Accounts, \A m \in Accounts : mfi'[m].plan = mfi[m].plan,
         \A t \in Tasks : Working(t, "agent")' \/ Working(t, "branch")' => task'[t] = task[t]
  PROVE  LimitsInv'
<1>1. ASSUME NEW m \in Accounts PROVE KeptWithin(m)'
  <2>1. StaffOf(m)' = StaffOf(m) /\ BranchesOf(m)' = BranchesOf(m)
    BY DEF StaffOf, BranchesOf
  <2>2. /\ Creating("agent", m)' \subseteq Creating("agent", m)
        /\ Creating("branch", m)' \subseteq Creating("branch", m)
    BY DEF Creating, Working
  <2>3. \A most \in Limit : AtLeast(most, most)
    BY DEF AtLeast, Limit
  <2>4. KeptWithin(m)
    BY <1>1 DEF LimitsInv
  <2>5. QED
    BY <1>1, <2>1, <2>2, <2>3, <2>4, KeptTypes, StillKept DEF KeptWithin
<1>2. QED
  BY <1>1 DEF LimitsInv

LEMMA LimitsStep ==
  ASSUME DirectoryAssumption, DirectoryInv, LimitsInv, [DirectoryNext]_directoryVars
  PROVE  LimitsInv'
<1> USE DirectoryAssumption
<1>t. /\ DirectoryTypeOK /\ task \in [Tasks -> Task \cup {Nothing}]
      /\ mfi \in [Mfis -> MfiRow \cup {Nothing}]
  BY DEF DirectoryInv, DirectoryTypeOK
<1>a. \A m \in Accounts : m \in Mfis /\ mfi[m] \in MfiRow
  BY KeptTypes
<1>r. \A most \in Limit : AtLeast(most, most)
  BY DEF AtLeast, Limit
<1>0. CASE UNCHANGED directoryVars
  BY <1>0, OtherKept DEF directoryVars, Accounts
<1>1. ASSUME NEW t \in Tasks, NEW job \in Task, Take(t, job),
             job.kind \notin {"agent", "branch"}, UNCHANGED <<mfi, staff, branch, granted>>
      PROVE  LimitsInv'
  <2>1. task'[t] = job /\ \A u \in Tasks \ {t} : task'[u] = task[u]
    BY <1>t, <1>1, TakeType
  <2>2. \A u \in Tasks : Working(u, "agent")' \/ Working(u, "branch")' => task'[u] = task[u]
    BY <1>1, <2>1 DEF Working
  <2>3. QED
    BY <1>1, <2>2, OtherKept DEF Accounts
<1>2. ASSUME NEW t \in Tasks, Done(t), UNCHANGED <<staff, branch, granted>>,
             Accounts' = Accounts, \A m \in Accounts : mfi'[m].plan = mfi[m].plan
      PROVE  LimitsInv'
  <2>1. task'[t] = Nothing /\ \A u \in Tasks \ {t} : task'[u] = task[u]
    BY <1>t, <1>2, DoneType
  <2>2. \A u \in Tasks : Working(u, "agent")' \/ Working(u, "branch")' => task'[u] = task[u]
    BY <2>1 DEF Working
  <2>3. QED
    BY <1>2, <2>2, OtherKept
<1>3. ASSUME NEW t \in Tasks, BeginStart(t) \/ BeginComplete(t) \/ BeginChangeEmail(t)
      PROVE  LimitsInv'
  <2>1. CASE BeginStart(t)
    <3>1. PICK i \in Invites : Take(t, [kind |-> "start", invite |-> i])
      BY <2>1 DEF BeginStart
    <3>2. [kind |-> "start", invite |-> i] \in Task
      BY DEF Task
    <3>3. QED
      BY <1>1, <2>1, <3>1, <3>2 DEF BeginStart
  <2>2. CASE BeginComplete(t)
    <3>1. PICK i \in Invites, phone \in Phones \cup {Nothing} :
            Take(t, [kind |-> "complete", invite |-> i, phone |-> phone])
      BY <2>2 DEF BeginComplete
    <3>2. [kind |-> "complete", invite |-> i, phone |-> phone] \in Task
      BY DEF Task
    <3>3. QED
      BY <1>1, <2>2, <3>1, <3>2 DEF BeginComplete
  <2>3. CASE BeginChangeEmail(t)
    <3>1. PICK m \in Accounts, email \in Emails :
            Take(t, [kind |-> "email", mfi |-> m, email |-> email])
      BY <2>3 DEF BeginChangeEmail
    <3>2. [kind |-> "email", mfi |-> m, email |-> email] \in Task
      BY <1>a DEF Task
    <3>3. QED
      BY <1>1, <2>3, <3>1, <3>2 DEF BeginChangeEmail
  <2>4. QED
    BY <1>3, <2>1, <2>2, <2>3
<1>4. ASSUME NEW t \in Tasks, CommitStart(t) \/ FailTask(t) PROVE LimitsInv'
  BY <1>2, <1>4 DEF CommitStart, FailTask, Accounts
<1>5. ASSUME NEW t \in Tasks, CommitChangeEmail(t) PROVE LimitsInv'
  <2>1. Working(t, "email") /\ Done(t) /\ UNCHANGED <<invite, staff, branch, granted>>
    BY <1>5 DEF CommitChangeEmail
  <2>2. PICK m \in Accounts, email \in Emails : m = task[t].mfi /\ email = task[t].email
    BY <1>t, <2>1, JobType DEF DirectoryInv, TaskInv
  <2> DEFINE row == [mfi[m] EXCEPT !.email = email]
  <2>3. mfi' = [mfi EXCEPT ![m] = row]
    BY <1>5, <2>2 DEF CommitChangeEmail
  <2>4. row \in MfiRow /\ row.plan = mfi[m].plan /\ m \in Mfis
    BY <1>a DEF MfiRow
  <2> HIDE DEF row
  <2>5. /\ Accounts' = Accounts \cup {m} /\ mfi'[m] = row
        /\ \A k \in Mfis \ {m} : mfi'[k] = mfi[k]
    BY <1>t, <2>3, <2>4, AccountsAfter
  <2>6. Accounts' = Accounts /\ \A k \in Accounts : mfi'[k].plan = mfi[k].plan
    BY <1>a, <2>4, <2>5
  <2>7. QED
    BY <1>2, <2>1, <2>6
<1>6. ASSUME NEW i \in Invites, ExpireInvite(i) PROVE LimitsInv'
  BY <1>6, OtherKept DEF ExpireInvite, Accounts
<1>7. ASSUME NEW t \in Tasks, BeginCreateAgent(t) PROVE LimitsInv'
  <2>1. PICK m \in Accounts, phone \in Phones :
          /\ Below(Cardinality(StaffOf(m)), PlanOf[mfi[m].plan].max_agents)
          /\ Take(t, [kind |-> "agent", mfi |-> m, phone |-> phone])
    BY <1>7 DEF BeginCreateAgent
  <2>2. UNCHANGED <<mfi, staff, branch, granted>> /\ Accounts' = Accounts
    BY <1>7 DEF BeginCreateAgent, Accounts
  <2> DEFINE job == [kind |-> "agent", mfi |-> m, phone |-> phone]
  <2>3. job \in Task
    BY <1>a DEF Task
  <2>4. task'[t] = job /\ \A u \in Tasks \ {t} : task'[u] = task[u]
    BY <1>t, <2>1, <2>3, TakeType
  <2>5. ASSUME NEW k \in Accounts PROVE KeptWithin(k)'
    <3>1. KeptWithin(k) /\ StaffOf(k)' = StaffOf(k) /\ BranchesOf(k)' = BranchesOf(k)
      BY <2>2 DEF LimitsInv, StaffOf, BranchesOf
    <3>2. /\ Creating("branch", k)' \subseteq Creating("branch", k)
          /\ k # m => Creating("agent", k)' \subseteq Creating("agent", k)
      BY <2>4 DEF Creating, Working
    <3>3. CASE k = m
      <4>1. Creating("agent", k)' \in SUBSET Tasks
        BY DEF Creating
      <4>2. Within(StaffOf(k), Creating("agent", k)', granted[k].agents)
        BY <2>1, <3>1, <3>3, <4>1, KeptTypes, WithinBegin DEF KeptWithin
      <4>3. Within(BranchesOf(k), Creating("branch", k)', granted[k].branches)
        BY <1>r, <3>1, <3>2, KeptTypes, WithinFewer DEF KeptWithin
      <4>4. QED
        BY <2>2, <3>1, <4>2, <4>3 DEF KeptWithin, Within
    <3>4. CASE k # m
      BY <1>r, <2>2, <3>1, <3>2, <3>4, KeptTypes, StillKept DEF KeptWithin
    <3>5. QED
      BY <3>3, <3>4
  <2>6. QED
    BY <2>2, <2>5 DEF LimitsInv
<1>8. ASSUME NEW t \in Tasks, BeginCreateBranch(t) PROVE LimitsInv'
  <2>1. PICK m \in Accounts, name \in BranchNames :
          /\ Below(Cardinality(BranchesOf(m)), PlanOf[mfi[m].plan].max_branches)
          /\ Take(t, [kind |-> "branch", mfi |-> m, name |-> name])
    BY <1>8 DEF BeginCreateBranch
  <2>2. UNCHANGED <<mfi, staff, branch, granted>> /\ Accounts' = Accounts
    BY <1>8 DEF BeginCreateBranch, Accounts
  <2> DEFINE job == [kind |-> "branch", mfi |-> m, name |-> name]
  <2>3. job \in Task
    BY <1>a DEF Task
  <2>4. task'[t] = job /\ \A u \in Tasks \ {t} : task'[u] = task[u]
    BY <1>t, <2>1, <2>3, TakeType
  <2>5. ASSUME NEW k \in Accounts PROVE KeptWithin(k)'
    <3>1. KeptWithin(k) /\ StaffOf(k)' = StaffOf(k) /\ BranchesOf(k)' = BranchesOf(k)
      BY <2>2 DEF LimitsInv, StaffOf, BranchesOf
    <3>2. /\ Creating("agent", k)' \subseteq Creating("agent", k)
          /\ k # m => Creating("branch", k)' \subseteq Creating("branch", k)
      BY <2>4 DEF Creating, Working
    <3>3. CASE k = m
      <4>1. Creating("branch", k)' \in SUBSET Tasks
        BY DEF Creating
      <4>2. Within(BranchesOf(k), Creating("branch", k)', granted[k].branches)
        BY <2>1, <3>1, <3>3, <4>1, KeptTypes, WithinBegin DEF KeptWithin
      <4>3. Within(StaffOf(k), Creating("agent", k)', granted[k].agents)
        BY <1>r, <3>1, <3>2, KeptTypes, WithinFewer DEF KeptWithin
      <4>4. QED
        BY <2>2, <3>1, <4>2, <4>3 DEF KeptWithin, Within
    <3>4. CASE k # m
      BY <1>r, <2>2, <3>1, <3>2, <3>4, KeptTypes, StillKept DEF KeptWithin
    <3>5. QED
      BY <3>3, <3>4
  <2>6. QED
    BY <2>2, <2>5 DEF LimitsInv
<1>9. ASSUME NEW t \in Tasks, CommitCreateAgent(t) PROVE LimitsInv'
  <2>1. Working(t, "agent") /\ Done(t) /\ UNCHANGED <<invite, mfi, branch, granted>>
    BY <1>9 DEF CommitCreateAgent
  <2>2. PICK m \in Accounts : m = task[t].mfi
    BY <2>1 DEF DirectoryInv, TaskInv
  <2>3. PICK row : row.mfi = m /\ staff' = staff \cup {row}
    BY <1>9, <2>2 DEF CommitCreateAgent
  <2>4. task'[t] = Nothing /\ \A u \in Tasks \ {t} : task'[u] = task[u]
    BY <1>t, <2>1, DoneType
  <2>5. Accounts' = Accounts /\ IsFiniteSet(staff')
    BY <2>1, <2>3, FS_AddElement DEF Accounts, LimitsInv
  <2>6. ASSUME NEW k \in Accounts PROVE KeptWithin(k)'
    <3>1. KeptWithin(k) /\ BranchesOf(k)' = BranchesOf(k)
      BY <2>1 DEF LimitsInv, StaffOf, BranchesOf
    <3>2. Creating("branch", k)' \subseteq Creating("branch", k)
      BY <2>4 DEF Creating, Working
    <3>3. CASE k = m
      <4>1. StaffOf(k)' = StaffOf(k) \cup {row}
        BY <2>3, <3>3 DEF StaffOf
      <4>2. t \in Creating("agent", k)
        BY <2>1, <2>2, <3>3 DEF Creating
      <4>3. Creating("agent", k)' = Creating("agent", k) \ {t}
        BY <2>4 DEF Creating, Working
      <4>4. Within(StaffOf(k) \cup {row}, Creating("agent", k) \ {t}, granted[k].agents)
        BY <3>1, <4>2, KeptTypes, WithinCommit DEF KeptWithin
      <4>5. Within(BranchesOf(k), Creating("branch", k)', granted[k].branches)
        BY <1>r, <3>1, <3>2, KeptTypes, WithinFewer DEF KeptWithin
      <4>6. QED
        BY <2>1, <3>1, <4>1, <4>3, <4>4, <4>5 DEF KeptWithin, Within
    <3>4. CASE k # m
      <4>1. StaffOf(k)' = StaffOf(k)
        BY <2>3, <3>4 DEF StaffOf
      <4>2. Creating("agent", k)' \subseteq Creating("agent", k)
        BY <2>4 DEF Creating, Working
      <4>3. QED
        BY <1>r, <2>1, <3>1, <3>2, <4>1, <4>2, KeptTypes, StillKept DEF KeptWithin
    <3>5. QED
      BY <3>3, <3>4
  <2>7. QED
    BY <2>1, <2>3, <2>5, <2>6 DEF LimitsInv
<1>10. ASSUME NEW t \in Tasks, CommitCreateBranch(t) PROVE LimitsInv'
  <2>1. Working(t, "branch") /\ Done(t) /\ UNCHANGED <<invite, mfi, staff, granted>>
    BY <1>10 DEF CommitCreateBranch
  <2>2. PICK m \in Accounts : m = task[t].mfi
    BY <2>1 DEF DirectoryInv, TaskInv
  <2>3. PICK row : row.mfi = m /\ branch' = branch \cup {row}
    BY <1>10, <2>2 DEF CommitCreateBranch
  <2>4. task'[t] = Nothing /\ \A u \in Tasks \ {t} : task'[u] = task[u]
    BY <1>t, <2>1, DoneType
  <2>5. Accounts' = Accounts /\ IsFiniteSet(branch')
    BY <2>1, <2>3, FS_AddElement DEF Accounts, LimitsInv
  <2>6. ASSUME NEW k \in Accounts PROVE KeptWithin(k)'
    <3>1. KeptWithin(k) /\ StaffOf(k)' = StaffOf(k)
      BY <2>1 DEF LimitsInv, StaffOf, BranchesOf
    <3>2. Creating("agent", k)' \subseteq Creating("agent", k)
      BY <2>4 DEF Creating, Working
    <3>3. CASE k = m
      <4>1. BranchesOf(k)' = BranchesOf(k) \cup {row}
        BY <2>3, <3>3 DEF BranchesOf
      <4>2. t \in Creating("branch", k)
        BY <2>1, <2>2, <3>3 DEF Creating
      <4>3. Creating("branch", k)' = Creating("branch", k) \ {t}
        BY <2>4 DEF Creating, Working
      <4>4. Within(BranchesOf(k) \cup {row}, Creating("branch", k) \ {t}, granted[k].branches)
        BY <3>1, <4>2, KeptTypes, WithinCommit DEF KeptWithin
      <4>5. Within(StaffOf(k), Creating("agent", k)', granted[k].agents)
        BY <1>r, <3>1, <3>2, KeptTypes, WithinFewer DEF KeptWithin
      <4>6. QED
        BY <2>1, <3>1, <4>1, <4>3, <4>4, <4>5 DEF KeptWithin, Within
    <3>4. CASE k # m
      <4>1. BranchesOf(k)' = BranchesOf(k)
        BY <2>3, <3>4 DEF BranchesOf
      <4>2. Creating("branch", k)' \subseteq Creating("branch", k)
        BY <2>4 DEF Creating, Working
      <4>3. QED
        BY <1>r, <2>1, <3>1, <3>2, <4>1, <4>2, KeptTypes, StillKept DEF KeptWithin
    <3>5. QED
      BY <3>3, <3>4
  <2>7. QED
    BY <2>1, <2>3, <2>5, <2>6 DEF LimitsInv
<1>11. ASSUME NEW t \in Tasks, CommitComplete(t) PROVE LimitsInv'
  <2>1. Working(t, "complete") /\ Done(t) /\ UNCHANGED branch
    BY <1>11 DEF CommitComplete
  <2>2. PICK i \in Invites : i = task[t].invite /\ invite[i].state \in Sent
    BY <1>t, <2>1, JobType DEF DirectoryInv, TaskInv, Sent
  <2>3. PICK plan \in PlanNames, email \in Emails :
          plan = invite[i].plan /\ email = invite[i].email
    BY <2>2 DEF DirectoryInv, InviteInv, Sent
  <2>4. PICK m \in Mfis \ Accounts :
          /\ mfi' = [mfi EXCEPT ![m] = [email |-> email, plan |-> plan, from |-> i]]
          /\ \E manager : manager.mfi = m /\ staff' = staff \cup {manager}
          /\ Grant(m, plan)
    BY <1>11, <2>2, <2>3 DEF CommitComplete
  <2>5. PICK manager : manager.mfi = m /\ staff' = staff \cup {manager}
    BY <2>4
  <2>6. /\ mfi' = [mfi EXCEPT ![m] = [email |-> email, plan |-> plan, from |-> i]]
        /\ manager.mfi = m /\ staff' = staff \cup {manager}
        /\ Grant(m, plan)
    BY <2>4, <2>5
  <2> DEFINE row == [email |-> email, plan |-> plan, from |-> i]
  <2>7. row \in MfiRow /\ row.plan = plan
    BY DEF MfiRow
  <2>8. mfi' = [mfi EXCEPT ![m] = row]
    BY <2>6
  <2> HIDE DEF row
  <2>9. /\ Accounts' = Accounts \cup {m} /\ mfi'[m] = row
        /\ \A k \in Mfis \ {m} : mfi'[k] = mfi[k]
    BY <1>t, <2>7, <2>8, AccountsAfter
  <2>10. task'[t] = Nothing /\ \A u \in Tasks \ {t} : task'[u] = task[u]
    BY <1>t, <2>1, DoneType
  <2>11. \A k, kind : Creating(kind, k)' \subseteq Creating(kind, k)
    BY <2>10 DEF Creating, Working
  <2>12. ASSUME NEW k \in Accounts PROVE KeptWithin(k)'
    <3>1. k # m /\ mfi'[k] = mfi[k]
      BY <1>a, <2>6, <2>9
    <3>2. StaffOf(k)' = StaffOf(k) /\ BranchesOf(k)' = BranchesOf(k)
      BY <2>1, <2>6, <3>1 DEF StaffOf, BranchesOf
    <3>3. /\ Creating("agent", k)' \subseteq Creating("agent", k)
          /\ Creating("branch", k)' \subseteq Creating("branch", k)
      BY <2>11
    <3>4. QED
      BY <2>6, <3>1, <3>2, <3>3, OthersKept
  <2>13. KeptWithin(m)'
    <3>1. /\ StaffOf(m) = {} /\ BranchesOf(m) = {}
          /\ Creating("agent", m) = {} /\ Creating("branch", m) = {}
      BY <2>6, NothingYet
    <3>2. /\ StaffOf(m)' = {manager} /\ BranchesOf(m)' = {}
          /\ Creating("agent", m)' = {} /\ Creating("branch", m)' = {}
      BY <2>1, <2>6, <2>11, <3>1 DEF StaffOf, BranchesOf
    <3>3. /\ granted'[m].agents \in Limit /\ granted'[m].branches \in Limit
          /\ AtLeast(granted'[m].agents, PlanOf[plan].max_agents)
          /\ AtLeast(granted'[m].branches, PlanOf[plan].max_branches)
      BY <1>t, <2>6, GrantRaises
    <3>4. /\ PlanOf[plan].max_agents \in (Nat \ {0}) \cup {Unlimited}
          /\ PlanOf[plan].max_branches \in (Nat \ {0}) \cup {Unlimited}
      BY DEF DirectoryAssumption
    <3>5. /\ Within({manager}, {}, granted'[m].agents)
          /\ Within({}, {}, granted'[m].branches)
      BY <3>3, <3>4, WithinNone
    <3>6. QED
      BY <2>7, <2>9, <3>2, <3>3, <3>5 DEF KeptWithin, Within
  <2>14. IsFiniteSet(staff')
    BY <2>6, FS_AddElement DEF LimitsInv
  <2>15. QED
    BY <2>1, <2>6, <2>9, <2>12, <2>13, <2>14 DEF LimitsInv
<1>12. ASSUME ChangePlan PROVE LimitsInv'
  <2>1. PICK m \in Accounts, plan \in PlanNames :
          mfi' = [mfi EXCEPT ![m].plan = plan] /\ Grant(m, plan)
    BY <1>12 DEF ChangePlan
  <2>2. UNCHANGED <<staff, branch, task>>
    BY <1>12 DEF ChangePlan
  <2> DEFINE row == [mfi[m] EXCEPT !.plan = plan]
  <2>3. mfi' = [mfi EXCEPT ![m] = row]
    BY <2>1
  <2>4. row \in MfiRow /\ row.plan = plan /\ m \in Mfis
    BY <1>a DEF MfiRow
  <2> HIDE DEF row
  <2>5. /\ Accounts' = Accounts \cup {m} /\ mfi'[m] = row
        /\ \A k \in Mfis \ {m} : mfi'[k] = mfi[k]
    BY <1>t, <2>3, <2>4, AccountsAfter
  <2>6. ASSUME NEW k \in Accounts
        PROVE  /\ StaffOf(k)' = StaffOf(k) /\ BranchesOf(k)' = BranchesOf(k)
               /\ Creating("agent", k)' \subseteq Creating("agent", k)
               /\ Creating("branch", k)' \subseteq Creating("branch", k)
    BY <2>2 DEF StaffOf, BranchesOf, Creating, Working
  <2>7. ASSUME NEW k \in Accounts, k # m PROVE KeptWithin(k)'
    <3>1. mfi'[k] = mfi[k]
      BY <1>a, <2>5, <2>7
    <3>2. QED
      BY <2>1, <2>4, <2>6, <2>7, <3>1, OthersKept
  <2>8. KeptWithin(m)'
    <3>1. /\ granted'[m].agents \in Limit /\ granted'[m].branches \in Limit
          /\ AtLeast(granted'[m].agents, granted[m].agents)
          /\ AtLeast(granted'[m].branches, granted[m].branches)
          /\ AtLeast(granted'[m].agents, PlanOf[plan].max_agents)
          /\ AtLeast(granted'[m].branches, PlanOf[plan].max_branches)
      BY <1>t, <2>1, <2>4, GrantRaises
    <3>2. mfi'[m].plan = plan
      BY <2>4, <2>5
    <3>3. QED
      BY <2>6, <3>1, <3>2, StillKept
  <2>9. QED
    BY <2>2, <2>5, <2>7, <2>8 DEF LimitsInv
<1>13. ASSUME Provision PROVE LimitsInv'
  <2>1. PICK m \in Mfis \ Accounts, email \in Emails, plan \in PlanNames :
          /\ mfi' = [mfi EXCEPT ![m] = [email |-> email, plan |-> plan, from |-> Nothing]]
          /\ Grant(m, plan)
    BY <1>13 DEF Provision
  <2>2. UNCHANGED <<staff, branch, task>>
    BY <1>13 DEF Provision
  <2> DEFINE row == [email |-> email, plan |-> plan, from |-> Nothing]
  <2>3. mfi' = [mfi EXCEPT ![m] = row]
    BY <2>1
  <2>4. row \in MfiRow /\ row.plan = plan
    BY DEF MfiRow
  <2> HIDE DEF row
  <2>5. /\ Accounts' = Accounts \cup {m} /\ mfi'[m] = row
        /\ \A k \in Mfis \ {m} : mfi'[k] = mfi[k]
    BY <1>t, <2>3, <2>4, AccountsAfter
  <2>6. ASSUME NEW k
        PROVE  /\ StaffOf(k)' = StaffOf(k) /\ BranchesOf(k)' = BranchesOf(k)
               /\ Creating("agent", k)' = Creating("agent", k)
               /\ Creating("branch", k)' = Creating("branch", k)
    BY <2>2 DEF StaffOf, BranchesOf, Creating, Working
  <2>7. ASSUME NEW k \in Accounts PROVE KeptWithin(k)'
    <3>1. k # m /\ mfi'[k] = mfi[k]
      BY <1>a, <2>1, <2>5
    <3>2. QED
      BY <2>1, <2>6, <3>1, OthersKept
  <2>8. KeptWithin(m)'
    <3>1. /\ StaffOf(m) = {} /\ BranchesOf(m) = {}
          /\ Creating("agent", m) = {} /\ Creating("branch", m) = {}
      BY <2>1, NothingYet
    <3>2. /\ granted'[m].agents \in Limit /\ granted'[m].branches \in Limit
          /\ AtLeast(granted'[m].agents, PlanOf[plan].max_agents)
          /\ AtLeast(granted'[m].branches, PlanOf[plan].max_branches)
      BY <1>t, <2>1, GrantRaises
    <3>3. /\ PlanOf[plan].max_agents \in (Nat \ {0}) \cup {Unlimited}
          /\ PlanOf[plan].max_branches \in (Nat \ {0}) \cup {Unlimited}
      BY DEF DirectoryAssumption
    <3>4. Within({}, {}, granted'[m].agents) /\ Within({}, {}, granted'[m].branches)
      BY <3>2, <3>3, WithinNone
    <3>5. QED
      BY <2>4, <2>5, <2>6, <3>1, <3>2, <3>4 DEF KeptWithin, Within
  <2>9. QED
    BY <2>2, <2>5, <2>7, <2>8 DEF LimitsInv
<1>14. QED
  BY <1>0, <1>3, <1>4, <1>5, <1>6, <1>7, <1>8, <1>9, <1>10, <1>11, <1>12, <1>13
  DEF DirectoryNext

-----------------------------------------------------------------------------
LEMMA InitLimits == DirectoryAssumption /\ DirectoryInit => LimitsInv
BY FS_EmptySet DEF DirectoryInit, LimitsInv, Accounts

LEMMA OverrunFromLimits ==
  ASSUME DirectoryAssumption, DirectoryInv, LimitsInv
  PROVE  LimitsOverrunBounded
<1>1. ASSUME NEW m \in Accounts
      PROVE  /\ granted[m].agents # Unlimited =>
                  Cardinality(StaffOf(m)) < granted[m].agents + Cardinality(Tasks)
             /\ granted[m].branches # Unlimited =>
                  Cardinality(BranchesOf(m)) < granted[m].branches + Cardinality(Tasks)
  <2>1. /\ granted[m].agents \in Limit /\ granted[m].branches \in Limit
        /\ IsFiniteSet(StaffOf(m)) /\ IsFiniteSet(BranchesOf(m))
        /\ IsFiniteSet(Creating("agent", m)) /\ IsFiniteSet(Creating("branch", m))
    BY KeptTypes, FS_Subset DEF DirectoryAssumption
  <2>2. /\ Cardinality(StaffOf(m)) \in Nat /\ Cardinality(BranchesOf(m)) \in Nat
        /\ Cardinality(Creating("agent", m)) \in Nat
        /\ Cardinality(Creating("branch", m)) \in Nat /\ Cardinality(Tasks) \in Nat
    BY <2>1, FS_CardinalityType DEF DirectoryAssumption
  <2>3. /\ Within(StaffOf(m), Creating("agent", m), granted[m].agents)
        /\ Within(BranchesOf(m), Creating("branch", m), granted[m].branches)
    BY DEF LimitsInv, KeptWithin
  <2>4. QED
    BY <2>1, <2>2, <2>3 DEF Within, Limit
<1>2. QED
  BY <1>1 DEF LimitsOverrunBounded

\* Staff and branches exceed the limits of an account's most generous plan by
\* less than the number of requests served at once.
THEOREM LimitsHoldUpToOverlap == DirectorySpec => []LimitsOverrunBounded
<1>1. DirectoryInit => DirectoryInv /\ LimitsInv
  BY InitDirectoryInv, InitLimits, DirectoryAssumption
<1>2. DirectoryInv /\ LimitsInv /\ [DirectoryNext]_directoryVars => (DirectoryInv /\ LimitsInv)'
  BY NextDirectoryInv, LimitsStep, DirectoryAssumption
<1>3. DirectoryInv /\ LimitsInv => LimitsOverrunBounded
  BY OverrunFromLimits, DirectoryAssumption
<1>4. QED
  BY <1>1, <1>2, <1>3, PTL DEF DirectorySpec

=============================================================================
