----------------------------- MODULE MCPlatform -----------------------------
(***************************************************************************)
(* One instance of what requests meet besides the ledger: the generation   *)
(* of AI reports, the uploaded files and the limiters.  They share no      *)
(* state, so a behaviour exercises one of them while the others rest.      *)
(***************************************************************************)
EXTENDS AIReports, UploadFiles, RateLimiters

VARIABLE focus  \* what a behaviour exercises

platformVars == <<focus, aiVars, uploadVars, limiterVars>>

PlatformInit ==
  /\ focus \in {"kinds", "editing", "schedule", "uploads", "logins", "requests"}
  /\ AIInit /\ UploadInit /\ LimiterInit

ReportScenarios == {"kinds", "editing", "schedule"}

\* Seven requests to the rate limiter fill its window more than twice.
LetThrough == [a \in Addresses |-> Number(allowed[a])]
RequestScenario ==
  (RequestNext \/ Minute) /\ SumFunctionOnSet(LetThrough', Addresses) <= 7

\* A schedule and edits of what a report is made of concern one kind of it.
OneKind ==
  /\ schedule'.kinds \subseteq {ReportResting.kind}
  /\ \A c \in Generators : gen'[c].kind = ReportResting.kind

PlatformNext ==
  /\ UNCHANGED focus
  /\ \/ /\ UNCHANGED <<uploadVars, limiterVars>>
        /\ \/ focus = "kinds" /\ (GenerateNext \/ AttemptAges)
           \/ focus = "editing" /\ (GenerateNext \/ EditNext) /\ OneKind
           \/ focus = "schedule" /\ (GenerateNext \/ ScheduleNext) /\ OneKind
     \/ /\ UNCHANGED <<aiVars, limiterVars>>
        /\ focus = "uploads" /\ UploadNext
     \/ /\ UNCHANGED <<aiVars, uploadVars>>
        /\ \/ focus = "logins" /\ (LoginNext \/ Minute)
           \/ focus = "requests" /\ RequestScenario

PlatformFairness ==
  /\ \A c \in Generators :
       /\ WF_aiVars(focus \in ReportScenarios /\ GenerateStep(c))
       /\ SF_aiVars(focus \in ReportScenarios /\ Lock(c))
  /\ \A a \in Callers : WF_uploadVars(focus = "uploads" /\ CallStep(a))
  /\ WF_uploadVars(focus = "uploads" /\ NextDay)
  /\ WF_uploadVars(focus = "uploads" /\ CollectorStep)
  /\ SF_uploadVars(focus = "uploads" /\ LockForCollection)

PlatformSpec ==
  PlatformInit /\ [][PlatformNext]_platformVars /\ PlatformFairness

\* Reports and collections come to an end: see GenerationsEnd and
\* OrphansAreCollected.
PlatformWorkEnds ==
  /\ focus \in ReportScenarios => GenerationsEnd
  /\ focus = "uploads" => OrphansAreCollected
=============================================================================
