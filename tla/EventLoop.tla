----------------------------- MODULE EventLoop -----------------------------
(***************************************************************************)
(* One server process: an event loop that starts and ends requests, a      *)
(* threadpool that runs ordinary handlers, a pool of database connections, *)
(* and the lock of one mfi_accounts row.                                   *)
(*                                                                         *)
(* PATCH /account updates the row in its handler and leaves the commit to  *)
(* get_db, whose end the loop must schedule.  The payment webhook is       *)
(* `async def` and runs its database work on the loop itself, so while it  *)
(* waits, for a connection or for the row, nothing is scheduled.  Waiting  *)
(* for a connection gives up in the end; waiting for a row does not.       *)
(*                                                                         *)
(* The PATCH also merges notification preferences into one JSON column.    *)
(***************************************************************************)
EXTENDS Naturals, FiniteSets

CONSTANTS
  Patches,       \* PATCH /account requests served at once
  Webhooks,      \* webhook requests served at once
  Connections,   \* size of the connection pool
  PrefKeys,      \* the notification preferences
  Defaults,      \* NOTIF_DEFAULTS
  Free

ASSUME LoopAssumption ==
  /\ Connections \in Nat \ {0}
  /\ Defaults \in [PrefKeys -> BOOLEAN]
  /\ Patches \cap Webhooks = {}
  /\ Free \notin Patches \cup Webhooks /\ Free \notin [PrefKeys -> BOOLEAN]

Jobs == Patches \cup Webhooks

Prefs == [PrefKeys -> BOOLEAN]

VARIABLES
  loop,        \* the webhook that runs on the loop, or Free
  stage,       \* stage[j]: where request j is
  rowLock,     \* the request whose transaction has updated the row, or Free
  prefs,       \* notification_prefs as committed
  mine,        \* mine[p]: the preferences in p's session
  latest,      \* history: the preferences, had each toggle changed only its key
  sideBySide   \* history: a PATCH was committed while another was under way

loopVars == <<loop, stage, rowLock, prefs, mine, latest, sideBySide>>

\* "started": it has no connection yet; "loaded": its rows are read;
\* "handling": its handler runs; "returned": it has run, and what get_db does
\* afterwards is not scheduled yet; "ending": it is.
Stage == {"idle", "started", "loaded", "handling", "returned", "ending"}

Connected == {j \in Jobs : stage[j] \notin {"idle", "started"}}

LoopTypeOK ==
  /\ loop \in Webhooks \cup {Free}
  /\ stage \in [Jobs -> Stage]
  /\ rowLock \in Patches \cup {Free}
  /\ prefs \in Prefs /\ latest \in Prefs
  /\ mine \in [Patches -> Prefs \cup {Free}]
  /\ Cardinality(Connected) <= Connections
  /\ sideBySide \in BOOLEAN

LoopInit ==
  /\ loop = Free /\ rowLock = Free
  /\ stage = [j \in Jobs |-> "idle"]
  /\ prefs = Defaults /\ latest = Defaults
  /\ mine = [p \in Patches |-> Free]
  /\ sideBySide = FALSE

Goto(j, label) == stage' = [stage EXCEPT ![j] = label]

PoolHasOne == Cardinality(Connected) < Connections

-----------------------------------------------------------------------------
(* PATCH /account.                                                         *)

StartPatch(p) ==
  /\ stage[p] = "idle" /\ loop = Free
  /\ Goto(p, "started")
  /\ UNCHANGED <<loop, rowLock, prefs, mine, latest, sideBySide>>

\* Authentication, in a thread: the first query takes a connection, and the
\* account is loaded.
LoadAccount(p) ==
  /\ stage[p] = "started" /\ PoolHasOne
  /\ Goto(p, "loaded")
  /\ mine' = [mine EXCEPT ![p] = prefs]
  /\ UNCHANGED <<loop, rowLock, prefs, latest, sideBySide>>

\* The handler is scheduled: one toggle is merged onto the loaded preferences.
MergeToggle(p) ==
  /\ stage[p] = "loaded" /\ loop = Free
  /\ Goto(p, "handling")
  /\ UNCHANGED <<loop, rowLock, prefs, mine, latest, sideBySide>>

\* Its flush updates the row, waiting in its thread for whoever has updated it.
FlushAccount(p) ==
  /\ stage[p] = "handling" /\ rowLock = Free
  /\ rowLock' = p
  /\ Goto(p, "returned")
  /\ UNCHANGED <<loop, prefs, mine, latest, sideBySide>>

\* (Mutant: a partial update is completed with defaults.)
CommitAccountDefaults(p) ==
  /\ stage[p] = "ending"
  /\ rowLock' = Free
  /\ \E k \in PrefKeys, value \in BOOLEAN :
       /\ prefs' = [Defaults EXCEPT ![k] = value]
       /\ latest' = [latest EXCEPT ![k] = value]
  /\ sideBySide' = (sideBySide \/ \E q \in Patches \ {p} : mine[q] # Free)
  /\ mine' = [mine EXCEPT ![p] = Free]
  /\ Goto(p, "idle")
  /\ UNCHANGED loop

CommitAccount(p) ==
  /\ stage[p] = "ending"
  /\ rowLock' = Free
  /\ \E k \in PrefKeys, value \in BOOLEAN :
       /\ prefs' = [mine[p] EXCEPT ![k] = value]
       /\ latest' = [latest EXCEPT ![k] = value]
  /\ sideBySide' = (sideBySide \/ \E q \in Patches \ {p} : mine[q] # Free)
  /\ mine' = [mine EXCEPT ![p] = Free]
  /\ Goto(p, "idle")
  /\ UNCHANGED loop

-----------------------------------------------------------------------------
(* The webhook.                                                            *)

StartWebhook(h) ==
  /\ stage[h] = "idle" /\ loop = Free
  /\ loop' = h
  /\ Goto(h, "started")
  /\ UNCHANGED <<rowLock, prefs, mine, latest, sideBySide>>

\* A payment already settled, or one that failed, leaves the account alone.
ReadPayment(h) ==
  /\ stage[h] = "started" /\ PoolHasOne
  /\ \/ Goto(h, "handling") /\ UNCHANGED loop
     \/ Goto(h, "returned") /\ loop' = Free
  /\ UNCHANGED <<rowLock, prefs, mine, latest, sideBySide>>

\* The settlement activates the account and commits, on the loop.
SettleOnLoop(h) ==
  /\ stage[h] = "handling" /\ rowLock = Free
  /\ loop' = Free
  /\ Goto(h, "returned")
  /\ UNCHANGED <<rowLock, prefs, mine, latest, sideBySide>>

CloseWebhook(h) ==
  /\ stage[h] = "ending"
  /\ Goto(h, "idle")
  /\ UNCHANGED <<loop, rowLock, prefs, mine, latest, sideBySide>>

-----------------------------------------------------------------------------
\* The loop schedules the end of a request whose handler has returned.
ScheduleEnd(j) ==
  /\ stage[j] = "returned" /\ loop = Free
  /\ Goto(j, "ending")
  /\ UNCHANGED <<loop, rowLock, prefs, mine, latest, sideBySide>>

\* (Mutant: a request waits for a connection as long as it takes.)
NeverTimeOut(j) == FALSE

\* The pool's timeout: the request fails.
TimeOut(j) ==
  /\ stage[j] = "started" /\ ~PoolHasOne
  /\ Goto(j, "idle")
  /\ loop' = IF loop = j THEN Free ELSE loop
  /\ UNCHANGED <<rowLock, prefs, mine, latest, sideBySide>>

LoopNext ==
  \/ \E p \in Patches :
       \/ StartPatch(p) \/ LoadAccount(p) \/ MergeToggle(p)
       \/ FlushAccount(p) \/ CommitAccount(p)
  \/ \E h \in Webhooks :
       StartWebhook(h) \/ ReadPayment(h) \/ SettleOnLoop(h) \/ CloseWebhook(h)
  \/ \E j \in Jobs : ScheduleEnd(j) \/ TimeOut(j)

\* Threads run; the loop, the pool and the row lock each serve their queue in
\* order, so what they can do again and again for a request they do in the end.
LoopFairness ==
  /\ \A p \in Patches :
       /\ SF_loopVars(LoadAccount(p) \/ TimeOut(p)) /\ SF_loopVars(MergeToggle(p))
       /\ SF_loopVars(FlushAccount(p)) /\ WF_loopVars(CommitAccount(p))
  /\ \A h \in Webhooks :
       /\ WF_loopVars(ReadPayment(h) \/ TimeOut(h))
       /\ WF_loopVars(SettleOnLoop(h)) /\ WF_loopVars(CloseWebhook(h))
  /\ \A j \in Jobs : SF_loopVars(ScheduleEnd(j))

LoopSpec == LoopInit /\ [][LoopNext]_loopVars /\ LoopFairness

-----------------------------------------------------------------------------
\* The loop waits for a row whose owner waits for the loop.
Hung ==
  /\ loop # Free /\ stage[loop] = "handling"
  /\ rowLock # Free /\ stage[rowLock] = "returned"

\* Every request ends, unless the process hangs in exactly this way: between
\* the flush of a PATCH and its commit a webhook came that activates the same
\* account.  Waiting for connections never makes it hang.
RequestsEndOrHang ==
  \A j \in Jobs : stage[j] # "idle" ~> (stage[j] = "idle" \/ Hung)

\* "A partial toggle update is preserved", of requests that do not overlap; two
\* that do may lose the toggle of the first.
TogglesKept == ~sideBySide => prefs = latest

=============================================================================
