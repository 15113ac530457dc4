------------------------------ MODULE Figures ------------------------------
(***************************************************************************)
(* Statistics, reports and dashboards.  A payload is put together from     *)
(* several queries, each of which sees what was committed when it ran,     *)
(* while verifications are submitted, committed and decided.  What a query *)
(* counts is kept as the rows it counted, with their status; averages and  *)
(* the filter by branch, whose rows move with their agents, are left out.  *)
(*                                                                         *)
(* A verification is dated by the start of its transaction, before the     *)
(* pipeline runs, and seen from its commit.                                *)
(***************************************************************************)
EXTENDS Naturals, Sequences, FiniteSets

CONSTANTS
  Institutions, Cases,
  Readers,       \* requests for a payload, served at once
  Lookback,      \* how far dashboards, digests and drift windows look back
  LastDate,      \* bound: dates are 1..LastDate
  Absent

VARIABLES
  date,          \* today; a month is one date long in the drill-down
  institution,   \* rows of mfi_accounts
  case,          \* case[v]: a verification with its stage results
  reader,        \* reader[r]: a payload in the making
  published      \* published[r]: the queries that are done, with their rows

figureVars == <<date, institution, case, reader, published>>

\* The stages with results: document, which has none if no field was read, liveness,
\* face; only the last is searched.
Outcome ==
  {o \in [verdict: {"VERIFIED", "PENDING", "REJECTED"}, stages: 0..3, flagged: BOOLEAN] :
     /\ o.verdict = "VERIFIED" => o.stages = 3
     /\ o.verdict = "PENDING" => o.stages >= 2
     /\ o.flagged => o.verdict = "PENDING" /\ o.stages = 3}

CaseStatus == {"open", "VERIFIED", "PENDING", "REJECTED", "APPROVED"}

\* A submission with an API key has no agent.
CaseRow == [of: Institutions, byAgent: BOOLEAN, created: 1..LastDate, status: CaseStatus,
            is: Outcome]

ASSUME FiguresAssumption ==
  /\ Lookback \in Nat \ {0} /\ LastDate \in Nat \ {0}
  /\ Absent \notin Institutions \cup CaseRow

View == {"stats", "report", "drift", "digest", "detail", "list", "platform", "models",
         "operations"}

Request == [view: View, of: Institutions, first: Nat, last: Nat, on: Nat,
            late: SUBSET Cases]

FiguresTypeOK ==
  /\ date \in 1..LastDate
  /\ institution \subseteq Institutions
  /\ case \in [Cases -> CaseRow \cup {Absent}]
  /\ \A v \in Cases : case[v] # Absent => case[v].of \in institution
  /\ reader \in [Readers -> Request \cup {Absent}]
  /\ published \in [Readers -> Seq(UNION {[rows -> {"COUNTED"} \cup CaseStatus] :
                                            rows \in SUBSET (Cases \cup Institutions)})]

FiguresInit ==
  /\ date = 1
  /\ institution = {}
  /\ case = [v \in Cases |-> Absent]
  /\ reader = [r \in Readers |-> Absent]
  /\ published = [r \in Readers |-> <<>>]

-----------------------------------------------------------------------------
(* The queries of each payload, in the order in which they run.            *)

\* By day and status; by branch.
StatsQueries == <<"period", "period">>

\* The snapshot, when the report is generated; its rows, at every export.
ReportQueries == <<"period", "period">>

DriftQueries == <<"reference", "current">>

\* By status; awaiting review; duplicates.
DigestQueries == <<"this week", "own pending", "this week's flagged">>

\* (Mutant: the outcomes are counted before the months.)
DetailQueriesSwapped ==
  <<"own", "this month", "last month", "own flagged", "own by agent">>

\* The months; outcomes; duplicates; by agent, which leaves out what has none.
DetailQueries == <<"this month", "last month", "own", "own flagged", "own by agent">>

\* Institutions that have verifications; institutions.
ListQueries == <<"owners", "institutions">>

\* By status; verifications; by plan; their quotas; by day.
PlatformQueries ==
  <<"institutions", "all", "institutions", "institutions", "recent">>

\* Face matches, per institution, in bins; liveness, failures, bins; documents;
\* flags by resolution, enrolled faces, flags.
ModelQueries ==
  <<"matched", "matched", "matched", "tried", "spoofed", "tried", "read",
    "flagged", "enrolled", "flagged">>

\* By channel; total; embeddings; institutions; latency; by day.
OperationsQueries == <<"all", "all", "enrolled", "institutions", "all", "recent">>

Queries(view) ==
  CASE view = "stats" -> StatsQueries
    [] view = "report" -> ReportQueries
    [] view = "drift" -> DriftQueries
    [] view = "digest" -> DigestQueries
    [] view = "detail" -> DetailQueries
    [] view = "list" -> ListQueries
    [] view = "platform" -> PlatformQueries
    [] view = "models" -> ModelQueries
    [] view = "operations" -> OperationsQueries

-----------------------------------------------------------------------------
Committed == {v \in Cases : case[v] # Absent /\ case[v].status # "open"}

Open == {v \in Cases : case[v] # Absent /\ case[v].status = "open"}

\* [start, end): the last day counts to its end.
InPeriod(v, q) == case[v].created \in q.first..q.last

\* The windows end where the request began, and the earlier one where the later
\* begins.
InCurrent(v, q) == case[v].created <= q.on /\ q.on < case[v].created + Lookback

InReference(v, q) ==
  /\ case[v].created + Lookback <= q.on
  /\ q.on < case[v].created + 2 * Lookback

\* One institution's verifications, within a range of dates that the request
\* fixes.
Own(q) == {v \in Committed : case[v].of = q.of}

\* The rows that a query of request q selects now.
Selected(name, q) ==
  CASE name = "period" -> {v \in Own(q) : InPeriod(v, q)}
    [] name = "current" -> {v \in Own(q) : case[v].is.stages = 3 /\ InCurrent(v, q)}
    [] name = "reference" -> {v \in Own(q) : case[v].is.stages = 3 /\ InReference(v, q)}
    [] name = "this week" -> {v \in Own(q) : q.on < case[v].created + Lookback}
    [] name = "this week's flagged" ->
         {v \in Own(q) : case[v].is.flagged /\ q.on < case[v].created + Lookback}
    [] name = "this month" -> {v \in Own(q) : case[v].created >= q.on}
    [] name = "last month" -> {v \in Own(q) : case[v].created + 1 = q.on}
    [] name = "own" -> Own(q)
    [] name = "own by agent" -> {v \in Own(q) : case[v].byAgent}
    [] name = "own pending" -> {v \in Own(q) : case[v].status = "PENDING"}
    [] name = "own flagged" -> {v \in Own(q) : case[v].is.flagged}
    [] name = "all" -> Committed
    [] name = "recent" -> {v \in Committed : date < case[v].created + Lookback}
    [] name = "read" -> {v \in Committed : case[v].is.stages >= 1}
    [] name = "tried" -> {v \in Committed : case[v].is.stages >= 2}
    [] name = "spoofed" -> {v \in Committed : case[v].is.stages = 2}
    [] name = "matched" -> {v \in Committed : case[v].is.stages = 3}
    [] name = "enrolled" -> {v \in Committed : case[v].is.verdict = "VERIFIED"}
    [] name = "flagged" -> {v \in Committed : case[v].is.flagged}
    [] name = "owners" -> {case[v].of : v \in Committed}
    [] name = "institutions" -> institution

\* Only a report's statuses are compared with later ones.
Rows(name, q) ==
  [row \in Selected(name, q) |-> IF q.view = "report" THEN case[row].status ELSE "COUNTED"]

-----------------------------------------------------------------------------
SignUp ==
  /\ \E m \in Institutions \ institution : institution' = institution \cup {m}
  /\ UNCHANGED <<date, case, reader, published>>

SubmitCase(v) ==
  /\ case[v] = Absent
  /\ \E m \in institution, agent \in BOOLEAN, o \in Outcome :
       case' = [case EXCEPT ![v] = [of |-> m, byAgent |-> agent, created |-> date,
                                    status |-> "open", is |-> o]]
  /\ UNCHANGED <<date, institution, reader, published>>

\* Verdict and stage results are committed together.
CommitCase(v) ==
  /\ v \in Open
  /\ case' = [case EXCEPT ![v].status = case[v].is.verdict]
  /\ UNCHANGED <<date, institution, reader, published>>

\* A manager decides; two may have opened the record before either decided.
DecideCase(v) ==
  /\ v \in Committed /\ case[v].is.verdict = "PENDING"
  /\ \E status \in {"APPROVED", "REJECTED"} : case' = [case EXCEPT ![v].status = status]
  /\ UNCHANGED <<date, institution, reader, published>>

NextDate ==
  /\ date < LastDate
  /\ date' = date + 1
  /\ UNCHANGED <<institution, case, reader, published>>

\* Only statistics and reports have a period of the caller's choice.
Ask(r) ==
  /\ reader[r] = Absent
  /\ \E view \in View, m \in institution, first, last \in 1..LastDate :
       LET q == [view |-> view, of |-> m, first |-> first, last |-> last, on |-> date,
                 late |-> {}]
       IN /\ first <= last
          /\ view \notin {"stats", "report"} => first = 1 /\ last = 1
          /\ reader' = [reader EXCEPT ![r] =
               [q EXCEPT !.late = {v \in Open : case[v].of = m /\ InPeriod(v, q)}]]
  /\ UNCHANGED <<date, institution, case, published>>

RunQuery(r) ==
  /\ reader[r] # Absent
  /\ LET queries == Queries(reader[r].view)
         next == Len(published[r]) + 1
     IN /\ next \in DOMAIN queries
        /\ published' = [published EXCEPT ![r] = Append(@, Rows(queries[next], reader[r]))]
  /\ UNCHANGED <<date, institution, case, reader>>

FiguresNext ==
  \/ \E v \in Cases : SubmitCase(v) \/ CommitCase(v) \/ DecideCase(v)
  \/ \E r \in Readers : Ask(r) \/ RunQuery(r)
  \/ SignUp
  \/ NextDate

FiguresSpec == FiguresInit /\ [][FiguresNext]_figureVars

-----------------------------------------------------------------------------
\* Figures and the totals of which they are shown as a part.
PartOfTotal ==
  {<<"detail", "this month", "own">>, <<"detail", "last month", "own">>,
   <<"list", "owners", "institutions">>}

\* Of one selection; its rows stay in it.
Grows == {"period", "own", "own flagged", "all", "read", "tried", "matched", "enrolled",
          "flagged", "institutions"}

\* A part is counted before its total, which leaves out nothing of it, and a figure
\* that is counted again includes what it counted before; it is not so where a part
\* is counted after its total, as duplicates, spoofs and counts by agent are.
FiguresInOrder ==
  \A r \in Readers : \A i, j \in DOMAIN published[r] :
    LET queries == Queries(reader[r].view) IN
      \/ <<reader[r].view, queries[i], queries[j]>> \in PartOfTotal
      \/ queries[i] = queries[j] /\ queries[i] \in Grows /\ i < j
      => DOMAIN published[r][i] \subseteq DOMAIN published[r][j]

\* No score is in both windows of a drift test.
WindowsDisjoint ==
  \A r \in Readers : reader[r] # Absent /\ reader[r].view = "drift" /\ Len(published[r]) = 2 =>
    DOMAIN published[r][1] \cap DOMAIN published[r][2] = {}

\* The rows exported with a report explain its snapshot: verdicts of the
\* pipeline stand, decided records do not become undecided, and if the period
\* was over, only submissions then under way can have joined.
ReportStands ==
  \A r \in Readers : reader[r] # Absent /\ reader[r].view = "report" /\ Len(published[r]) = 2 =>
    LET snapshot == published[r][1]
        export == published[r][2]
    IN /\ \A v \in DOMAIN snapshot :
            /\ export[v] = "VERIFIED" <=> snapshot[v] = "VERIFIED"
            /\ export[v] = "PENDING" => snapshot[v] = "PENDING"
       /\ reader[r].last < reader[r].on =>
            DOMAIN export \ DOMAIN snapshot \subseteq reader[r].late

\* What a payload shows is consistent, although its queries are not of one
\* moment.
FiguresAgree == FiguresInOrder /\ WindowsDisjoint /\ ReportStands

=============================================================================
