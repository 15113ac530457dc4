----------------------------- MODULE AuditTrail -----------------------------
(***************************************************************************)
(* The audit log and the paging through it.  An entry is stamped with the  *)
(* start of its transaction and seen from the commit, so the log does not  *)
(* only grow at its top; the entries of one transaction share a stamp, and *)
(* nothing orders equal stamps, from one page to the next either.          *)
(***************************************************************************)
EXTENDS Naturals, FiniteSets

CONSTANTS
  Entries,
  Browsers,    \* readers that page through the log
  PageSize,    \* limit
  MaxTransactions,  \* bound: transactions that write entries
  Unwritten

ASSUME TrailAssumption ==
  /\ IsFiniteSet(Entries)
  /\ PageSize \in Nat \ {0} /\ Unwritten \notin Nat

VARIABLES
  lastStamp,   \* the newest transaction's start; no two start at once
  stampOf,     \* stampOf[e]: the stamp of entry e, or Unwritten
  logged,      \* entries that are committed
  browser      \* browser[b]: how far b is

trailVars == <<lastStamp, stampOf, logged, browser>>

Browsing == [offset: Nat, seen: SUBSET Entries, had: SUBSET Entries,
             state: {"new", "paging", "done"}]

TrailTypeOK ==
  /\ lastStamp \in Nat
  /\ stampOf \in [Entries -> Nat \cup {Unwritten}]
  /\ logged \subseteq {e \in Entries : stampOf[e] # Unwritten}
  /\ browser \in [Browsers -> Browsing]

TrailInit ==
  /\ lastStamp = 0
  /\ stampOf = [e \in Entries |-> Unwritten]
  /\ logged = {}
  /\ browser = [b \in Browsers |-> [offset |-> 0, seen |-> {}, had |-> {}, state |-> "new"]]

\* A transaction adds entries: most of them one, a broadcast one per mail.
RecordEntries ==
  /\ lastStamp < MaxTransactions
  /\ \E added \in SUBSET {e \in Entries : stampOf[e] = Unwritten} :
       /\ added # {}
       /\ stampOf' = [e \in Entries |-> IF e \in added THEN lastStamp + 1 ELSE stampOf[e]]
  /\ lastStamp' = lastStamp + 1
  /\ UNCHANGED <<logged, browser>>

EntriesAt(stamp) == {e \in Entries : stampOf[e] = stamp}

Uncommitted == {stampOf[e] : e \in {f \in Entries \ logged : stampOf[f] # Unwritten}}

CommitEntries ==
  /\ \E stamp \in Uncommitted : logged' = logged \cup EntriesAt(stamp)
  /\ UNCHANGED <<lastStamp, stampOf, browser>>

RollBackEntries ==
  /\ \E stamp \in Uncommitted :
       stampOf' = [e \in Entries |-> IF stampOf[e] = stamp THEN Unwritten ELSE stampOf[e]]
  /\ UNCHANGED <<lastStamp, logged, browser>>

-----------------------------------------------------------------------------
\* (Mutant: the rows come in whatever order.)
IsTopUnordered(top) == top \subseteq logged

\* These entries come first when the log is sorted, newest first.
IsTop(top) ==
  /\ top \subseteq logged
  /\ \A e \in top, below \in logged \ top : stampOf[below] <= stampOf[e]

\* A page: the entries after the first `offset`, at most PageSize of them.
IsPage(page, offset) ==
  \E skipped \in SUBSET logged :
    /\ IsTop(skipped) /\ IsTop(skipped \cup page)
    /\ page \cap skipped = {}
    /\ IF Cardinality(logged) <= offset
         THEN page = {}
         ELSE /\ Cardinality(skipped) = offset
              /\ \/ Cardinality(page) = PageSize
                 \/ Cardinality(page) < PageSize /\ skipped \cup page = logged

\* Page after page until one is not full.
ReadPage(b) ==
  /\ browser[b].state # "done"
  /\ \E page \in SUBSET logged :
       /\ IsPage(page, browser[b].offset)
       /\ browser' = [browser EXCEPT ![b] =
            [offset |-> @.offset + PageSize,
             seen   |-> @.seen \cup page,
             had    |-> IF @.state = "new" THEN logged ELSE @.had,
             state  |-> IF Cardinality(page) < PageSize THEN "done" ELSE "paging"]]
  /\ UNCHANGED <<lastStamp, stampOf, logged>>

TrailNext ==
  \/ RecordEntries
  \/ CommitEntries
  \/ RollBackEntries
  \/ \E b \in Browsers : ReadPage(b)

TrailSpec == TrailInit /\ [][TrailNext]_trailVars

-----------------------------------------------------------------------------
\* Whoever pages to the end has seen every entry that was there when the first
\* page was read, whatever is committed meanwhile, above it or in the middle;
\* only one that shares its stamp with another may be missed.
NothingSkipped ==
  \A b \in Browsers : browser[b].state = "done" =>
    \A e \in browser[b].had \ browser[b].seen :
      Cardinality(EntriesAt(stampOf[e])) > 1

=============================================================================
