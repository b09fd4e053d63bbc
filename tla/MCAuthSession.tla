--------------------------- MODULE MCAuthSession ---------------------------
(* A small instance of AuthSession.  Clients are interchangeable. *)
EXTENDS AuthSession, TLC

VARIABLE scenario  \* what a behaviour spends the bounds of the instance on

ClientSymmetry == Permutations(Clients)

InFlight == {c \in Clients : calls'[c] # Idle}

\* Sessions come and go with two requests in flight.
SessionScenario ==
  /\ Next
  /\ Cardinality(InFlight) <= 2
  /\ now' <= 1
  /\ user'.hash <= 2

\* Three requests in flight around a lock that is set and runs out.
LockoutScenario ==
  /\ Next
  /\ Len(issued') <= 2
  /\ user'.hash <= 2

\* Initialisations and changes of password in flight at the same time.
PasswordScenario ==
  /\ Next
  /\ Len(issued') <= 1
  /\ now' = 0

ScenarioInit == Init /\ scenario \in {"sessions", "lockout", "passwords"}

ScenarioSpec ==
  /\ ScenarioInit
  /\ [][ /\ UNCHANGED scenario
         /\ \/ scenario = "sessions" /\ SessionScenario
            \/ scenario = "lockout" /\ LockoutScenario
            \/ scenario = "passwords" /\ PasswordScenario ]_<<vars, scenario>>
=============================================================================
