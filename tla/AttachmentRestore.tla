-------------------------- MODULE AttachmentRestore --------------------------
(***************************************************************************)
(* The restore of one user's attachments and its recovery at startup:      *)
(* BackupService.RestoreBackup (service/backup.go), the restore plan       *)
(* (service/backup_attachments.go), RecoverAttachmentRestores              *)
(* (service/backup_attachment_recovery.go), the storage barrier            *)
(* (service/attachment_barrier.go) and the uploads that share it.          *)
(*                                                                         *)
(* A backup's files are staged in a directory of their own; the database   *)
(* transaction replaces the ledger and records the staged generation as    *)
(* the desired one; then the directories are renamed.  Two stores that     *)
(* cannot commit together, so every step may be the last one before a      *)
(* crash, every I/O call may fail, and a power loss also takes back the    *)
(* changes of the upload root that were not synced, from the last one      *)
(* backwards.  The database commit itself is durable.                      *)
(***************************************************************************)
EXTENDS Integers, FiniteSets

CONSTANTS
  MaxGen,     \* bound on the restores with a manifest
  Uploads,    \* files a client may upload
  MaxFaults,  \* bound on the I/O calls that fail
  MaxCrashes, \* bound on the crashes
  None        \* no such directory

ASSUME RestoreAssumption ==
  /\ MaxGen \in Nat /\ MaxFaults \in Nat /\ MaxCrashes \in Nat
  /\ \A gen \in 0..MaxGen, complete \in BOOLEAN, uploads \in SUBSET Uploads :
       None # [gen |-> gen, complete |-> complete, uploads |-> uploads]

VARIABLES
  desired,    \* the generation the database rows and the marker belong to
  root,       \* the directories below the upload root
  survivors,  \* the upload roots a power loss may leave
  pc,         \* what the server is doing
  plan,       \* the restore or recovery under way
  drawn,      \* generations drawn so far
  pending,    \* attachmentRecoveryPendingUsers holds the user
  uploading,  \* uploads in flight, under the read side of the barrier
  acked,      \* history: uploads acknowledged since the desired generation
              \* was committed
  faults, crashes

vars == <<desired, root, survivors, pc, plan, drawn, pending, uploading, acked,
          faults, crashes>>

-----------------------------------------------------------------------------
Gens == 1..MaxGen

\* A directory carries the token of its generation, 0 when it was never
\* restored, from the start; complete says that it holds all its files.
Dir == [gen : 0..MaxGen, complete : BOOLEAN, uploads : SUBSET Uploads]

\* The active directory of the user, and .restore-stage-* and
\* .restore-previous-* for each generation.
Root == [active : Dir \cup {None}, stage : [Gens -> Dir \cup {None}],
         previous : [Gens -> Dir \cup {None}]]

NoDirs == [g \in Gens |-> None]

Init ==
  /\ desired = 0
  /\ root \in [active : {None, [gen |-> 0, complete |-> TRUE, uploads |-> {}]},
               stage : {NoDirs}, previous : {NoDirs}]
  /\ survivors = {root}
  /\ pc = "idle"
  /\ plan = [gen |-> 0, recovery |-> FALSE, retries |-> 0]
  /\ drawn = 0
  /\ pending = FALSE
  /\ uploading = {}
  /\ acked = {}
  /\ faults = 0
  /\ crashes = 0

\* Directories, sets and counters keep their types, and what is there now is
\* one of the roots a power loss may leave.
TypeOK ==
  /\ desired \in 0..MaxGen
  /\ root \in Root
  /\ survivors \subseteq Root /\ root \in survivors
  /\ pc \in {"idle", "down", "staging", "staged", "commit", "verify",
             "rollback", "inspect", "aside", "activate", "confirm", "cleanup",
             "failed", "orphans"}
  /\ plan \in [gen : 0..MaxGen, recovery : BOOLEAN, retries : {0, 1}]
  /\ drawn \in 0..MaxGen
  /\ pending \in BOOLEAN
  /\ uploading \subseteq Uploads /\ acked \subseteq Uploads
  /\ faults \in 0..MaxFaults /\ crashes \in 0..MaxCrashes

-----------------------------------------------------------------------------
Fault == faults < MaxFaults /\ faults' = faults + 1
NoFault == UNCHANGED faults

Change(r) == root' = r /\ survivors' = survivors \cup {r}

Synced == survivors' = {root'}
ChangeSynced(r) == root' = r /\ Synced
Goto(next) == pc' = next

\* The write side of the barrier is held from the first step of a restore or
\* of the recovery to its last.
Serving == pc = "idle"

\* What the steps of a restore leave alone.
RestoreStep == UNCHANGED <<drawn, uploading, crashes>>

-----------------------------------------------------------------------------
(***************************************************************************)
(* Preparing and committing a restore.                                     *)
(***************************************************************************)

\* A bug to tell from the code: the barrier does not wait for the uploads.
BarrierIgnored == TRUE
BarrierFree == uploading = {}

StartRestore ==
  /\ Serving
  /\ ~pending
  /\ BarrierFree
  /\ drawn < MaxGen
  /\ drawn' = drawn + 1
  /\ plan' = [gen |-> drawn', recovery |-> FALSE, retries |-> 1]
  /\ Change([root EXCEPT !.stage[drawn'] =
               [gen |-> drawn', complete |-> FALSE, uploads |-> {}]])
  /\ Goto("staging")
  /\ UNCHANGED <<desired, pending, uploading, acked, faults, crashes>>

\* The manifest is written and synced, or the plan is rolled back: a bad
\* digest needs no failing call.
StageFiles ==
  /\ pc = "staging"
  /\ \/ /\ Change([root EXCEPT !.stage[plan.gen].complete = TRUE])
        /\ Goto("staged")
     \/ /\ Goto("rollback")
        /\ UNCHANGED <<root, survivors>>
  /\ RestoreStep /\ NoFault
  /\ UNCHANGED <<desired, plan, pending, acked>>

\* A bug to tell from the code: the staged tree is not synced.
SyncStageSkipped == UNCHANGED <<root, survivors>>
StageIsSynced == UNCHANGED root /\ Synced

SyncStage ==
  /\ pc = "staged"
  /\ \/ StageIsSynced /\ NoFault /\ Goto("commit")
     \/ Fault /\ Goto("rollback") /\ UNCHANGED <<root, survivors>>
  /\ RestoreStep
  /\ UNCHANGED <<desired, plan, pending, acked>>

\* The transaction commits, fails, or commits and reports an error.
CommitDatabase ==
  /\ pc = "commit"
  /\ \/ /\ desired' = plan.gen
        /\ acked' = {}
        /\ \/ NoFault /\ Goto("inspect")
           \/ Fault /\ Goto("verify")
     \/ /\ NoFault /\ Goto("verify")
        /\ UNCHANGED <<desired, acked>>
  /\ RestoreStep
  /\ UNCHANGED <<root, survivors, plan, pending>>

UnreadMarkerKeepsStage == Goto("idle") /\ pending' = TRUE

\* attachmentRestoreMarkerCommitted after an error of the transaction.
VerifyMarker ==
  /\ pc = "verify"
  /\ \/ /\ NoFault
        /\ Goto(IF desired = plan.gen THEN "inspect" ELSE "rollback")
        /\ UNCHANGED pending
     \/ Fault /\ UnreadMarkerKeepsStage
  /\ RestoreStep
  /\ UNCHANGED <<desired, root, survivors, plan, acked>>

\* RemoveAll: the directory goes, or the call fails part way through.
Damaged(d) == IF d = None THEN None ELSE [d EXCEPT !.complete = FALSE]

Rollback ==
  /\ pc = "rollback"
  /\ \/ NoFault /\ ChangeSynced([root EXCEPT !.stage[plan.gen] = None])
     \/ Fault /\ Change([root EXCEPT !.stage[plan.gen] = None])
     \/ Fault /\ Change([root EXCEPT !.stage[plan.gen] = Damaged(@)])
  /\ Goto("idle")
  /\ RestoreStep
  /\ UNCHANGED <<desired, plan, pending, acked>>

-----------------------------------------------------------------------------
(***************************************************************************)
(* Making the desired generation active: attachmentRestorePlan.commit.     *)
(***************************************************************************)
ActiveIs(gen) == root.active # None /\ root.active.gen = gen

Forward == RestoreStep /\ UNCHANGED <<desired, plan, pending, acked>>

FailForward == Fault /\ Goto("failed") /\ UNCHANGED <<root, survivors>>

Ambiguous == root.previous[plan.gen] # None /\ root.active # None
StageUsable == root.stage[plan.gen] # None

\* Reads the tokens and decides how far an earlier attempt got.
Inspect ==
  /\ pc = "inspect"
  /\ \/ FailForward
     \/ /\ NoFault
        /\ \/ ActiveIs(plan.gen) /\ UNCHANGED root /\ Synced /\ Goto("cleanup")
           \/ /\ ~ActiveIs(plan.gen)
              /\ UNCHANGED <<root, survivors>>
              /\ Goto(IF ~StageUsable \/ Ambiguous THEN "failed"
                      ELSE IF root.active # None THEN "aside" ELSE "activate")
  /\ Forward

\* Each rename is one step and its sync is part of it: a sync that fails
\* leaves the rename made but not durable.
MoveAside ==
  LET moved == [root EXCEPT !.previous[plan.gen] = root.active,
                            !.active = None]
  IN
  /\ pc = "aside"
  /\ \/ FailForward
     \/ Fault /\ Change(moved) /\ Goto("failed")
     \/ NoFault /\ ChangeSynced(moved) /\ Goto("activate")
  /\ Forward

Activate ==
  LET moved == [root EXCEPT !.active = root.stage[plan.gen],
                            !.stage[plan.gen] = None]
  IN
  /\ pc = "activate"
  /\ \/ FailForward
     \/ Fault /\ Change(moved) /\ Goto("failed")
     \/ NoFault /\ ChangeSynced(moved) /\ Goto("confirm")
  /\ Forward

\* The token of the directory just activated is read back.
Confirm ==
  /\ pc = "confirm"
  /\ \/ FailForward
     \/ /\ NoFault /\ UNCHANGED <<root, survivors>>
        /\ Goto(IF ActiveIs(plan.gen) THEN "cleanup" ELSE "failed")
  /\ Forward

Finished == IF plan.recovery THEN "orphans" ELSE "idle"

\* The previous directory and what is left of the stage go.  A failure here
\* is a warning, unless the active token cannot be read either.
Cleanup ==
  LET cleaned == [root EXCEPT !.previous[plan.gen] = None,
                              !.stage[plan.gen] = None]
      partly == [root EXCEPT !.previous[plan.gen] = Damaged(@)]
  IN
  /\ pc = "cleanup"
  /\ \/ NoFault /\ ChangeSynced(cleaned) /\ Goto(Finished) /\ pending' = FALSE
     \/ /\ Fault
        /\ Change(cleaned) \/ Change(partly)
        /\ \/ Goto(Finished) /\ pending' = FALSE
           \/ Goto("failed") /\ UNCHANGED pending
  /\ RestoreStep
  /\ UNCHANGED <<desired, plan, acked>>

\* A bug to tell from the code: the request fails but the user stays open.
FailedRestoreServes == Goto("idle") /\ UNCHANGED pending
FailedRestorePends == Goto("idle") /\ pending' = TRUE

\* A restore tries once more and then leaves the user pending; the recovery
\* stops the server (log.Fatalf).
Fail ==
  /\ pc = "failed"
  /\ \/ /\ plan.retries = 1
        /\ plan' = [plan EXCEPT !.retries = 0]
        /\ Goto("inspect")
        /\ UNCHANGED <<pending, uploading>>
     \/ /\ plan.retries = 0
        /\ UNCHANGED plan
        /\ \/ ~plan.recovery /\ FailedRestorePends /\ UNCHANGED uploading
           \/ plan.recovery /\ Goto("down") /\ pending' = FALSE /\ uploading' = {}
  /\ UNCHANGED <<desired, root, survivors, drawn, acked, faults, crashes>>

-----------------------------------------------------------------------------
(***************************************************************************)
(* Crashes and startup.                                                    *)
(***************************************************************************)
Stops ==
  /\ crashes < MaxCrashes
  /\ crashes' = crashes + 1
  /\ pc # "down"
  /\ Goto("down")
  /\ pending' = FALSE
  /\ uploading' = {}
  /\ UNCHANGED <<desired, plan, drawn, faults>>

Crash == Stops /\ UNCHANGED <<root, survivors, acked>>

\* Nothing syncs an upload: what was acknowledged may be lost.
PowerLoss ==
  /\ Stops
  /\ \E r \in survivors : root' = r
  /\ Synced
  /\ acked' = {}

\* RecoverAttachmentRestores, before routes and schedulers start.
\* It stops the server again when the markers cannot be read.
Startup ==
  /\ pc = "down"
  /\ \/ /\ plan' = [gen |-> desired, recovery |-> TRUE, retries |-> 0]
        /\ Goto(IF desired = 0 THEN "orphans" ELSE "inspect")
        /\ NoFault
     \/ Fault /\ UNCHANGED <<plan, pc>>
  /\ UNCHANGED <<desired, root, survivors, drawn, pending, uploading, acked,
                 crashes>>

OrphanStages == Gens \ {desired}

\* cleanupOrphanAttachmentStages; what it cannot remove is a warning.
RemoveOrphans ==
  /\ pc = "orphans"
  /\ \/ /\ NoFault
        /\ \/ /\ \A g \in OrphanStages : root.stage[g] = None
              /\ UNCHANGED <<root, survivors>>
           \/ /\ \E g \in OrphanStages : root.stage[g] # None
              /\ ChangeSynced([root EXCEPT !.stage =
                   [g \in Gens |-> IF g \in OrphanStages THEN None ELSE @[g]]])
     \/ /\ Fault
        /\ \E removed \in SUBSET OrphanStages :
             Change([root EXCEPT !.stage =
               [g \in Gens |-> IF g \in removed THEN None ELSE @[g]]])
  /\ Goto("idle")
  /\ RestoreStep
  /\ UNCHANGED <<desired, plan, pending, acked>>

-----------------------------------------------------------------------------
(***************************************************************************)
(* Uploads, for the time the barrier's read side is held.                  *)
(***************************************************************************)
BeginUpload(f) ==
  /\ Serving
  /\ ~pending
  /\ f \notin uploading \cup acked
  /\ uploading' = uploading \cup {f}
  /\ UNCHANGED <<desired, root, survivors, pc, plan, drawn, pending, acked,
                 faults, crashes>>

\* The first upload makes the directory.
WithUpload(d, f) ==
  IF d = None THEN [gen |-> 0, complete |-> TRUE, uploads |-> {f}]
  ELSE [d EXCEPT !.uploads = @ \cup {f}]

FinishUpload(f) ==
  /\ f \in uploading
  /\ uploading' = uploading \ {f}
  /\ acked' = acked \cup {f}
  /\ Change([root EXCEPT !.active = WithUpload(@, f)])
  /\ UNCHANGED <<desired, pc, plan, drawn, pending, faults, crashes>>

-----------------------------------------------------------------------------
ServerStep ==
  \/ StageFiles \/ SyncStage \/ CommitDatabase \/ VerifyMarker \/ Rollback
  \/ Inspect \/ MoveAside \/ Activate \/ Confirm \/ Cleanup \/ Fail
  \/ RemoveOrphans

Next ==
  \/ StartRestore
  \/ ServerStep
  \/ Startup
  \/ Crash \/ PowerLoss
  \/ \E f \in Uploads : BeginUpload(f) \/ FinishUpload(f)

Spec == Init /\ [][Next]_vars

\* A started request or recovery runs on, and docker-compose restarts a
\* stopped server.  Nothing obliges a client to send anything.
FairSpec == Spec /\ WF_vars(ServerStep) /\ WF_vars(Startup)

-----------------------------------------------------------------------------
(***************************************************************************)
(* Properties.                                                             *)
(***************************************************************************)
HoldsGen(d, gen) == d # None /\ d.gen = gen /\ d.complete

\* Whenever attachments are served, the active directory holds the files of
\* the generation the database rows belong to, complete: neither those of a
\* restore that did not commit nor those it replaced (backup-scope.md).
ServedFilesMatchDatabase ==
  Serving /\ ~pending =>
    \/ HoldsGen(root.active, desired)
    \/ desired = 0 /\ root.active = None

\* At any moment the power may fail and the recovery can still go forward:
\* every root it may find holds the desired files, active or staged, and is
\* not the ambiguous one that forward refuses.
RecoveryCanGoForward ==
  desired # 0 =>
    \A r \in survivors :
      \/ HoldsGen(r.active, desired)
      \/ /\ HoldsGen(r.stage[desired], desired)
         /\ r.previous[desired] = None \/ r.active = None

\* An upload that was acknowledged stays until another restore commits: no
\* restore swaps the directory an upload is writing to (attachment_barrier.go).
AckedUploadsStay ==
  Serving /\ ~pending /\ acked # {} =>
    root.active # None /\ acked \subseteq root.active.uploads

\* Whatever fails and wherever it stops, the server comes back to serving once
\* the failures end: no restore or recovery is stuck.
ServerComesBack == []<>Serving

\* A cleanup that failed is retried: once a startup recovery is over, no
\* previous directory of an earlier generation is left
\* (docs/architecture/backup-scope.md).
ObsoleteFilesAreRetried ==
  [][pc = "orphans" /\ pc' = "idle" =>
       \A g \in Gens \ {desired} : root'.previous[g] = None]_vars

=============================================================================
