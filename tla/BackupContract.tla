--------------------------- MODULE BackupContract ---------------------------
(***************************************************************************)
(* What automatic backups promise their user, whatever the scheduler does  *)
(* to keep it: the settings are those the user chose last, and the date    *)
(* they show only moves forward, to a run all of whose files can be        *)
(* restored and stay.                                                      *)
(***************************************************************************)
EXTENDS Integers

CONSTANTS Configs,   \* what a user may choose
          Default,   \* what holds until something is chosen
          Runs,      \* the runs there may be, numbered as they start
          Hours      \* when they may end

VARIABLES
  choice,  \* what the user chose
  last,    \* the last backup: its hour and its run
  usable   \* the runs whose files are all there

contractVars == <<choice, last, usable>>

NoBackup == [at |-> -1, run |-> 0]

Init == choice = Default /\ last = NoBackup /\ usable = {}

\* The user chooses; nothing else does.
Choose(c) == choice' = c /\ UNCHANGED <<last, usable>>

\* A run whose files are all there becomes the last backup.
Complete(run, at) ==
  /\ run \in usable
  /\ run > last.run /\ at >= last.at
  /\ last' = [at |-> at, run |-> run]
  /\ UNCHANGED <<choice, usable>>

\* Files come and go, but those of the last backup stay.
Keep(runs) ==
  /\ last # NoBackup => last.run \in runs
  /\ usable' = runs
  /\ UNCHANGED <<choice, last>>

Next ==
  \/ \E c \in Configs : Choose(c)
  \/ \E run \in Runs, at \in Hours : Complete(run, at)
  \/ \E runs \in SUBSET Runs : Keep(runs)

Spec == Init /\ [][Next]_contractVars
=============================================================================
