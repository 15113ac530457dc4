------------------------------ MODULE MCOffice ------------------------------
(***************************************************************************)
(* Small instances of the parts beside the core: Directory, RateLimiter,   *)
(* the safety of EventLoop, Figures, AuditTrail, Mailing and OcrFields.    *)
(* They share no variable, so each is explored by itself: `scene` says     *)
(* which, and the others stay in one initial state.                        *)
(***************************************************************************)
EXTENDS Directory, RateLimiter, EventLoop, Figures, AuditTrail, Mailing, OcrFields

VARIABLE scene

vars == <<scene, directoryVars, limiterVars, loopVars, figureVars, trailVars, mailVars,
          ocrVars>>

MCPlanOf ==
  [p \in PlanNames |->
     IF p = "starter" THEN [max_branches |-> 1, max_agents |-> 1, api_access |-> FALSE]
     ELSE [max_branches |-> Unlimited, max_agents |-> 1, api_access |-> TRUE]]

MCDefaults == [k \in PrefKeys |-> k = "quota"]

-----------------------------------------------------------------------------
(* Documents whose lines are partly illegible, partly on the wrong side.   *)

Line(label, rest) == [label |-> label, rest |-> rest]

Speckle == [upper |-> <<>>, clean |-> <<<<"speckle">>>>, year |-> <<>>]
Text(name) == [upper |-> name, clean |-> name, year |-> <<>>]
Date(year) == [upper |-> <<>>, clean |-> <<<<"digits">>>>, year |-> <<year>>]

LucXavier == <<<<"luc">>, <<"xavier">>>>
Hyphenated == <<<<"luc", "xavier">>>>
Kamga == <<<<"kamga">>>>

Beside == {Blank, Speckle, Text(LucXavier), Text(Hyphenated), Text(Kamga)}

Fronts ==
  {<<Line("surname", s), Line("given", g), Line("expiry", Date(2027))>> :
     s \in Beside, g \in Beside}
  \cup {<<Line("given", Blank), Line("none", g), Line("sex", Text(<<<<"M">>>>))>> : g \in Beside}

Backs ==
  {<<>>,
   <<Line("id", Text(<<<<"111">>>>)), Line("expiry", Date(2030))>>,
   <<Line("id", Speckle), Line("none", Text(<<<<"111">>>>)), Line("expiry", Blank)>>,
   <<Line("surname", Text(Kamga)), Line("birth", Date(1996)), Line("occupation", Text(Kamga))>>}

Zones ==
  {NoMrz} \cup
  {[NoMrz EXCEPT !.score = s, !.names = n, !.surname = Kamga, !.optional = o,
                 !.number = <<<<"222">>>>, !.birth = <<b>>, !.birthValid = v,
                 !.expiry = <<29>>, !.expiryValid = v] :
     s \in {49, 50}, n \in {<<>>, LucXavier \o LucXavier},
     o \in {<<>>, <<<<"111">>>>}, b \in {12, 96}, v \in BOOLEAN}

NoDocument == [type |-> "NIC", front |-> <<>>, back |-> <<>>, mrz |-> NoMrz]

MCDocuments ==
  {NoDocument}
  \cup {[type |-> "NIC", front |-> f, back |-> b, mrz |-> z] :
     f \in Fronts, b \in Backs, z \in Zones}
  \cup {[type |-> "PASSPORT", front |-> f, back |-> <<>>, mrz |-> z] : f \in Fronts, z \in Zones}

-----------------------------------------------------------------------------
Init ==
  /\ scene \in {"directory", "limiter", "loop", "figures", "trail", "mailing", "ocr"}
  /\ DirectoryInit /\ LimiterInit /\ LoopInit /\ FiguresInit /\ TrailInit
  /\ MailingInit /\ (scene # "mailing" => kind = "weekly")
  /\ IF scene = "ocr" THEN OcrInit
     ELSE /\ paper = NoDocument
          /\ ocrStep = "none" /\ fields = <<>> /\ extracted = NoResult

Next ==
  /\ \/ /\ scene = "directory" /\ DirectoryNext
        /\ UNCHANGED <<limiterVars, loopVars, figureVars, trailVars, mailVars, ocrVars>>
     \/ /\ scene = "limiter" /\ LimiterNext
        /\ UNCHANGED <<directoryVars, loopVars, figureVars, trailVars, mailVars, ocrVars>>
     \/ /\ scene = "loop" /\ LoopNext
        /\ UNCHANGED <<directoryVars, limiterVars, figureVars, trailVars, mailVars, ocrVars>>
     \/ /\ scene = "figures" /\ FiguresNext
        /\ UNCHANGED <<directoryVars, limiterVars, loopVars, trailVars, mailVars, ocrVars>>
     \/ /\ scene = "trail" /\ TrailNext
        /\ UNCHANGED <<directoryVars, limiterVars, loopVars, figureVars, mailVars, ocrVars>>
     \/ /\ scene = "mailing" /\ MailingNext
        /\ UNCHANGED <<directoryVars, limiterVars, loopVars, figureVars, trailVars, ocrVars>>
     \/ /\ scene = "ocr" /\ OcrNext
        /\ UNCHANGED <<directoryVars, limiterVars, loopVars, figureVars, trailVars, mailVars>>
  /\ UNCHANGED scene

Spec == Init /\ [][Next]_vars

\* The part that moves keeps its types.
TypeOK ==
  CASE scene = "directory" -> DirectoryTypeOK
    [] scene = "limiter" -> LimiterTypeOK
    [] scene = "loop" -> LoopTypeOK
    [] scene = "figures" -> FiguresTypeOK
    [] scene = "trail" -> TrailTypeOK
    [] scene = "mailing" -> MailingTypeOK
    [] scene = "ocr" -> OcrTypeOK

\* Five kinds of names in Directory; the other parts use none of them.
Interchangeable ==
  Permutations(Tasks) \cup Permutations(Phones) \cup Permutations(BranchNames)
  \cup Permutations(Emails) \cup Permutations(Mfis)

=============================================================================
