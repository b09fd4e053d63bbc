----------------------- MODULE AttachmentRestoreProofs -----------------------
(***************************************************************************)
(* Restores keep files and rows together, for any number of restores,      *)
(* uploads, faults, crashes and power losses.                              *)
(*                                                                         *)
(* The argument is about every root a power loss may leave, never about    *)
(* the current one alone: each of them leads to the generation the         *)
(* database desires, because the staged tree was synced before the         *)
(* database could desire it, and neither rename happens unless the one     *)
(* before it was synced.                                                   *)
(***************************************************************************)
EXTENDS AttachmentRestore, TLAPS

\* The active directory of r is the one that belongs to generation des.
Held(r, des) == HoldsGen(r.active, des) \/ (des = 0 /\ r.active = None)

\* The recovery can make it so.
Recoverable(r, des) ==
  \/ Held(r, des)
  \/ /\ des # 0
     /\ HoldsGen(r.stage[des], des)
     /\ r.previous[des] = None \/ r.active = None

\* Only complete directories become active, and the directories of a
\* generation are new when it is drawn.
SoundRoot(r, des, drw) ==
  /\ r \in Root
  /\ r.active # None => r.active.complete
  /\ Recoverable(r, des)
  /\ \A g \in Gens : g > drw => r.stage[g] = None /\ r.previous[g] = None

RootsSound == \A r \in survivors : SoundRoot(r, desired, drawn)

Types ==
  /\ drawn \in 0..MaxGen /\ desired \in 0..drawn
  /\ plan.gen \in 0..MaxGen
  /\ plan \in [gen : 0..MaxGen, recovery : BOOLEAN, retries : {0, 1}]
  /\ root \in survivors
  /\ pending \in BOOLEAN
  /\ uploading \subseteq Uploads /\ acked \subseteq Uploads

Preparing == {"staging", "staged", "commit", "rollback"}
Forwarding == {"inspect", "aside", "activate", "confirm", "cleanup", "failed"}

\* Until the database commits, the files of the rows are active.
RowsHaveTheirFiles ==
  \/ pc = "idle" /\ ~pending
  \/ pc \in Preparing \cup {"orphans"}
  \/ pc = "verify" /\ desired # plan.gen
  => \A r \in survivors : Held(r, desired)

\* What each step before the commit has made of the stage.
StageIsMade ==
  /\ pc \in Preparing \cup {"verify"} => plan.gen = drawn /\ drawn # 0
  /\ pc \in Preparing => desired # plan.gen
  /\ pc \in {"staging", "staged", "commit"} =>
       /\ root.previous[plan.gen] = None
       /\ root.stage[plan.gen] # None /\ root.stage[plan.gen].gen = plan.gen
  /\ pc \in {"staged", "commit"} => root.stage[plan.gen].complete
  /\ pc = "commit" => survivors = {root}

\* What each step after it has found or made.
ForwardIsMade ==
  /\ pc \in Forwarding => plan.gen = desired /\ desired # 0
  /\ pc = "aside" =>
       /\ root.active # None /\ root.active.gen # desired
       /\ root.previous[desired] = None
  /\ pc = "activate" => root.active = None
  /\ pc \in {"confirm", "cleanup"} =>
       survivors = {root} /\ HoldsGen(root.active, desired)

\* Nobody but a server that is open uploads.
OpenToUploads ==
  /\ pending => pc = "idle"
  /\ uploading # {} => pc = "idle" /\ ~pending

UploadsAreActive ==
  acked # {} => HoldsGen(root.active, desired) /\ acked \subseteq root.active.uploads

RestoreInv ==
  /\ Types
  /\ RootsSound
  /\ RowsHaveTheirFiles
  /\ StageIsMade
  /\ ForwardIsMade
  /\ OpenToUploads
  /\ UploadsAreActive

-----------------------------------------------------------------------------
LEMMA NoneIsNoDir == ASSUME NEW d \in Dir PROVE d # None
<1>1. d = [gen |-> d.gen, complete |-> d.complete, uploads |-> d.uploads]
  BY DEF Dir
<1>2. d.gen \in 0..MaxGen /\ d.complete \in BOOLEAN /\ d.uploads \in SUBSET Uploads
  BY DEF Dir
<1> QED
  BY <1>1, <1>2, RestoreAssumption

LEMMA RootFields ==
  ASSUME NEW r \in Root
  PROVE  /\ r.active \in Dir \cup {None}
         /\ \A g \in Gens : r.stage[g] \in Dir \cup {None}
         /\ \A g \in Gens : r.previous[g] \in Dir \cup {None}
BY DEF Root

LEMMA DirFields ==
  ASSUME NEW d \in Dir
  PROVE  d.gen \in 0..MaxGen /\ d.complete \in BOOLEAN /\ d.uploads \subseteq Uploads
BY DEF Dir

\* A change of the directory a root has for the stage of one generation.
WithStage(r, g, d) == [r EXCEPT !.stage[g] = d]

LEMMA StageChanged ==
  ASSUME NEW r \in Root, NEW g \in Gens, NEW d \in Dir \cup {None},
         NEW q, q = WithStage(r, g, d)
  PROVE  /\ q \in Root /\ q.active = r.active /\ q.previous = r.previous
         /\ q.stage[g] = d
         /\ \A h \in Gens : h # g => q.stage[h] = r.stage[h]
<1>1. r.stage \in [Gens -> Dir \cup {None}]
  BY DEF Root
<1>2. /\ q.active = r.active /\ q.previous = r.previous
      /\ q.stage = [r.stage EXCEPT ![g] = d]
  BY DEF Root, WithStage
<1>3. q \in Root
  BY <1>1, <1>2 DEF Root, WithStage
<1> QED
  BY <1>1, <1>2, <1>3

LEMMA InitHolds == Init => RestoreInv
<1> SUFFICES ASSUME Init PROVE RestoreInv
  OBVIOUS
<1>1. root.active \in {None, [gen |-> 0, complete |-> TRUE, uploads |-> {}]}
      /\ root.stage = NoDirs /\ root.previous = NoDirs
  BY DEF Init
<1>2. 0 \in 0..MaxGen
  BY RestoreAssumption
<1>3. root.active \in Dir \cup {None}
  <2>1. [gen |-> 0, complete |-> TRUE, uploads |-> {}] \in Dir
    BY <1>2 DEF Dir
  <2> QED
    BY <1>1, <2>1
<1>4. root \in Root
  <2>1. NoDirs \in [Gens -> Dir \cup {None}]
    BY DEF NoDirs
  <2>2. root = [active |-> root.active, stage |-> root.stage,
                previous |-> root.previous]
    BY DEF Init
  <2> QED
    BY <1>1, <1>3, <2>1, <2>2 DEF Root
<1>5. Held(root, 0) /\ (root.active # None => root.active.complete)
  BY <1>1 DEF Held, HoldsGen
<1>6. SoundRoot(root, 0, 0)
  BY <1>1, <1>4, <1>5 DEF SoundRoot, Recoverable, NoDirs
<1>7. RootsSound /\ RowsHaveTheirFiles
  BY <1>5, <1>6 DEF Init, RootsSound, RowsHaveTheirFiles
<1>8. Types
  <2>1. plan \in [gen : 0..MaxGen, recovery : BOOLEAN, retries : {0, 1}]
    BY <1>2 DEF Init
  <2>2. plan.gen \in 0..MaxGen /\ drawn \in 0..MaxGen /\ desired \in 0..drawn
    BY <1>2 DEF Init
  <2> QED
    BY <2>1, <2>2 DEF Init, Types
<1> QED
  BY <1>7, <1>8 DEF Init, RestoreInv, StageIsMade, ForwardIsMade, OpenToUploads,
     UploadsAreActive, Preparing, Forwarding

-----------------------------------------------------------------------------
LEMMA StartRestoreHolds == RestoreInv /\ StartRestore => RestoreInv'
<1> SUFFICES ASSUME RestoreInv, StartRestore PROVE RestoreInv'
  OBVIOUS
<1> USE DEF RestoreInv
<1>a. drawn + 1 \in Gens
  BY RestoreAssumption DEF StartRestore, Types, Gens
<1>b. PICK g \in Gens : g = drawn + 1
  BY <1>a
<1>1. /\ drawn' = g /\ g > drawn /\ g # 0
      /\ drawn \in 0..MaxGen /\ desired \in 0..drawn /\ desired \in 0..g
      /\ desired' = desired /\ desired # g
  BY <1>b DEF StartRestore, Types, Gens
<1>2. root \in survivors /\ \A r \in survivors : SoundRoot(r, desired, drawn)
  BY DEF Types, RootsSound
<1>3. \A r \in survivors : Held(r, desired)
  BY DEF RowsHaveTheirFiles, StartRestore, Serving
<1>c. [gen |-> g, complete |-> FALSE, uploads |-> {}] \in Dir
  BY DEF Dir, Gens
<1>4. PICK d \in Dir : d = [gen |-> g, complete |-> FALSE, uploads |-> {}]
  BY <1>c
<1>5. root' = WithStage(root, g, d) /\ survivors' = survivors \cup {root'}
  BY <1>1, <1>4 DEF StartRestore, Change, WithStage
<1>6. /\ root' \in Root /\ root'.active = root.active
      /\ root'.previous = root.previous /\ root'.stage[g] = d
      /\ \A h \in Gens : h # g => root'.stage[h] = root.stage[h]
  <2>1. root \in Root
    BY <1>2 DEF SoundRoot
  <2> QED
    BY <1>5, <2>1, StageChanged
<1>7. Held(root', desired)
  BY <1>2, <1>3, <1>6 DEF Held
<1>8. \A h \in Gens : h > g => h > drawn /\ h # g
  BY <1>1 DEF Gens
<1>9. SoundRoot(root', desired, g)
  BY <1>2, <1>6, <1>7, <1>8 DEF SoundRoot, Recoverable
<1>10. \A r \in survivors' : Held(r, desired') /\ SoundRoot(r, desired', drawn')
  BY <1>1, <1>2, <1>3, <1>5, <1>7, <1>8, <1>9 DEF SoundRoot
<1>11. RootsSound' /\ RowsHaveTheirFiles'
  BY <1>10 DEF RootsSound, RowsHaveTheirFiles
<1>12. plan' = [gen |-> g, recovery |-> FALSE, retries |-> 1] /\ pc' = "staging"
  BY <1>1 DEF StartRestore, Goto
<1>13. Types'
  BY <1>1, <1>5, <1>12 DEF Types, StartRestore, Gens
<1>14. StageIsMade'
  <2>1. root.previous[g] = None
    BY <1>1, <1>2 DEF SoundRoot
  <2>2. d # None /\ d.gen = g
    BY <1>4, NoneIsNoDir
  <2>3. plan'.gen = g /\ drawn' # 0 /\ desired' # g
    BY <1>1, <1>12
  <2> QED
    BY <1>1, <1>6, <1>12, <2>1, <2>2, <2>3 DEF StageIsMade, Preparing
<1>15. ForwardIsMade'
  BY <1>12 DEF ForwardIsMade, Forwarding
<1>16. OpenToUploads'
  BY DEF StartRestore, BarrierFree, OpenToUploads
<1>17. UploadsAreActive'
  BY <1>1, <1>6 DEF UploadsAreActive, StartRestore
<1> QED
  BY <1>11, <1>13, <1>14, <1>15, <1>16, <1>17

LEMMA StageFilesHolds == RestoreInv /\ StageFiles => RestoreInv'
<1> SUFFICES ASSUME RestoreInv, StageFiles PROVE RestoreInv'
  OBVIOUS
<1> USE DEF RestoreInv
<1> DEFINE g == plan.gen
<1>1. /\ g = drawn /\ g \in Gens /\ desired # g /\ pc = "staging"
      /\ desired' = desired /\ drawn' = drawn /\ plan' = plan
      /\ pending' = pending /\ uploading' = uploading /\ acked' = acked
  BY DEF StageFiles, RestoreStep, StageIsMade, Preparing, Types, Gens
<1>2. root \in survivors /\ \A r \in survivors : SoundRoot(r, desired, drawn)
  BY DEF Types, RootsSound
<1>3. \A r \in survivors : Held(r, desired)
  BY <1>1 DEF RowsHaveTheirFiles, Preparing
<1>4. root \in Root /\ root.stage[g] \in Dir /\ root.stage[g].gen = g
  <2>1. root \in Root
    BY <1>2 DEF SoundRoot
  <2> QED
    BY <1>1, <2>1, RootFields DEF StageIsMade
<1>5. OpenToUploads' /\ Types' /\ ForwardIsMade'
  <2>1. pc' \in {"staged", "rollback"} /\ root' \in survivors'
    BY <1>2 DEF StageFiles, Goto, Change
  <2> QED
    BY <1>1, <2>1 DEF OpenToUploads, Types, ForwardIsMade, Forwarding
<1>6. CASE UNCHANGED <<root, survivors>> /\ pc' = "rollback"
  BY <1>1, <1>2, <1>3, <1>5, <1>6 DEF RootsSound, RowsHaveTheirFiles, StageIsMade,
     UploadsAreActive, Preparing
<1>7. CASE Change([root EXCEPT !.stage[g].complete = TRUE]) /\ pc' = "staged"
  <2> DEFINE d == [root.stage[g] EXCEPT !.complete = TRUE]
  <2>1. d \in Dir /\ d # None /\ d.gen = g /\ d.complete
    BY <1>4, NoneIsNoDir DEF Dir
  <2>2. root' = WithStage(root, g, d) /\ survivors' = survivors \cup {root'}
    BY <1>7 DEF Change, WithStage
  <2> HIDE DEF d
  <2>3. /\ root' \in Root /\ root'.active = root.active
        /\ root'.previous = root.previous /\ root'.stage[g] = d
        /\ \A h \in Gens : h # g => root'.stage[h] = root.stage[h]
    BY <1>1, <1>4, <2>1, <2>2, StageChanged
  <2>4. Held(root', desired)
    BY <1>2, <1>3, <2>3 DEF Held
  <2>5. \A h \in Gens : h > drawn => h # g
    BY <1>1 DEF Types, Gens
  <2>6. SoundRoot(root', desired, drawn)
    BY <1>2, <2>3, <2>4, <2>5 DEF SoundRoot, Recoverable
  <2>7. RootsSound' /\ RowsHaveTheirFiles'
    BY <1>1, <1>2, <1>3, <2>2, <2>4, <2>6 DEF RootsSound, RowsHaveTheirFiles
  <2>8. StageIsMade'
    BY <1>1, <1>7, <2>1, <2>3 DEF StageIsMade, Preparing
  <2>9. UploadsAreActive'
    BY <1>1, <2>3 DEF UploadsAreActive
  <2> QED
    BY <1>5, <2>7, <2>8, <2>9
<1> QED
  BY <1>6, <1>7 DEF StageFiles, Goto
LEMMA SyncStageHolds == RestoreInv /\ SyncStage => RestoreInv'
<1> SUFFICES ASSUME RestoreInv, SyncStage PROVE RestoreInv'
  OBVIOUS
<1> USE DEF RestoreInv
<1>1. /\ pc = "staged" /\ desired' = desired /\ drawn' = drawn /\ plan' = plan
      /\ pending' = pending /\ uploading' = uploading /\ acked' = acked
      /\ root' = root /\ survivors' \in {survivors, {root}}
      /\ \/ pc' = "commit" /\ survivors' = {root}
         \/ pc' = "rollback"
  BY DEF SyncStage, StageIsSynced, Synced, Goto, RestoreStep
<1>2. root \in survivors'
  BY <1>1 DEF Types
<1>3. RootsSound' /\ RowsHaveTheirFiles'
  BY <1>1 DEF RootsSound, RowsHaveTheirFiles, Types, Preparing
<1>4. Types' /\ OpenToUploads' /\ UploadsAreActive'
  BY <1>1, <1>2 DEF Types, OpenToUploads, UploadsAreActive
<1>5. StageIsMade' /\ ForwardIsMade'
  BY <1>1 DEF StageIsMade, ForwardIsMade, Preparing, Forwarding
<1> QED
  BY <1>3, <1>4, <1>5

\* The transaction is the one step that changes which files belong to the rows:
\* the only root there is holds the new ones, staged, and no previous directory.
LEMMA CommitDatabaseHolds == RestoreInv /\ CommitDatabase => RestoreInv'
<1> SUFFICES ASSUME RestoreInv, CommitDatabase PROVE RestoreInv'
  OBVIOUS
<1> USE DEF RestoreInv
<1>1. /\ pc = "commit" /\ drawn' = drawn /\ plan' = plan /\ root' = root
      /\ pending' = pending /\ uploading' = uploading
      /\ survivors = {root} /\ survivors' = {root}
      /\ plan.gen = drawn /\ plan.gen \in Gens
  BY DEF CommitDatabase, RestoreStep, StageIsMade, Preparing, Types, Gens
<1>2. root \in survivors /\ SoundRoot(root, desired, drawn)
  BY DEF Types, RootsSound
<1>3. OpenToUploads'
  BY <1>1 DEF OpenToUploads
<1>4. CASE desired' = plan.gen /\ acked' = {} /\ pc' \in {"inspect", "verify"}
  <2>1. HoldsGen(root.stage[plan.gen], plan.gen) /\ root.previous[plan.gen] = None
    BY <1>1 DEF StageIsMade, HoldsGen
  <2>2. Recoverable(root, plan.gen)
    BY <1>1, <2>1 DEF Recoverable, Gens
  <2>3. RootsSound' /\ RowsHaveTheirFiles'
    BY <1>1, <1>2, <1>4, <2>2 DEF RootsSound, SoundRoot, RowsHaveTheirFiles, Preparing
  <2>4. Types'
    BY <1>1, <1>4 DEF Types, Gens
  <2>5. StageIsMade' /\ ForwardIsMade' /\ UploadsAreActive'
    BY <1>1, <1>4 DEF StageIsMade, ForwardIsMade, UploadsAreActive, Preparing,
       Forwarding, Gens
  <2> QED
    BY <1>3, <2>3, <2>4, <2>5
<1>5. CASE pc' = "verify" /\ UNCHANGED <<desired, acked>>
  <2>1. RootsSound' /\ RowsHaveTheirFiles'
    BY <1>1, <1>2, <1>5 DEF RootsSound, RowsHaveTheirFiles, Preparing
  <2>2. Types' /\ StageIsMade' /\ ForwardIsMade' /\ UploadsAreActive'
    BY <1>1, <1>5 DEF Types, StageIsMade, ForwardIsMade, UploadsAreActive, Preparing,
       Forwarding
  <2> QED
    BY <1>3, <2>1, <2>2
<1> QED
  BY <1>4, <1>5 DEF CommitDatabase, Goto

LEMMA VerifyMarkerHolds == RestoreInv /\ VerifyMarker => RestoreInv'
<1> SUFFICES ASSUME RestoreInv, VerifyMarker PROVE RestoreInv'
  OBVIOUS
<1> USE DEF RestoreInv
<1>1. /\ pc = "verify" /\ drawn' = drawn /\ plan' = plan /\ root' = root
      /\ survivors' = survivors /\ desired' = desired
      /\ uploading' = uploading /\ acked' = acked
      /\ \/ pc' = "inspect" /\ desired = plan.gen /\ pending' = pending
         \/ pc' = "rollback" /\ desired # plan.gen /\ pending' = pending
         \/ pc' = "idle" /\ pending' = TRUE
  BY DEF VerifyMarker, UnreadMarkerKeepsStage, RestoreStep, Goto
<1>2. uploading = {}
  BY <1>1 DEF OpenToUploads
<1>3. Types' /\ RootsSound' /\ UploadsAreActive'
  BY <1>1 DEF Types, RootsSound, UploadsAreActive
<1>4. RowsHaveTheirFiles' /\ OpenToUploads'
  BY <1>1, <1>2 DEF RowsHaveTheirFiles, OpenToUploads, Preparing
<1>5. StageIsMade' /\ ForwardIsMade'
  BY <1>1 DEF StageIsMade, ForwardIsMade, Preparing, Forwarding
<1> QED
  BY <1>3, <1>4, <1>5

LEMMA RollbackHolds == RestoreInv /\ Rollback => RestoreInv'
<1> SUFFICES ASSUME RestoreInv, Rollback PROVE RestoreInv'
  OBVIOUS
<1> USE DEF RestoreInv
<1> DEFINE g == plan.gen
<1>1. /\ pc = "rollback" /\ pc' = "idle" /\ g = drawn /\ g \in Gens /\ desired # g
      /\ desired' = desired /\ drawn' = drawn /\ plan' = plan
      /\ pending' = pending /\ uploading' = uploading /\ acked' = acked
  BY DEF Rollback, RestoreStep, StageIsMade, Preparing, Types, Gens, Goto
<1>2. root \in survivors /\ \A r \in survivors : SoundRoot(r, desired, drawn)
  BY DEF Types, RootsSound
<1>3. \A r \in survivors : Held(r, desired)
  BY <1>1 DEF RowsHaveTheirFiles, Preparing
<1>4. root \in Root /\ root.stage[g] \in Dir \cup {None}
  BY <1>1, <1>2, RootFields DEF SoundRoot
<1>5. PICK d \in Dir \cup {None} :
        root' = WithStage(root, g, d) /\ survivors' \subseteq survivors \cup {root'}
        /\ root' \in survivors'
  <2>1. Damaged(root.stage[g]) \in Dir \cup {None}
    BY <1>4 DEF Damaged, Dir
  <2>2. \/ root' = WithStage(root, g, None)
        \/ root' = WithStage(root, g, Damaged(root.stage[g]))
    BY DEF Rollback, Change, ChangeSynced, WithStage
  <2>3. survivors' \subseteq survivors \cup {root'} /\ root' \in survivors'
    BY DEF Rollback, Change, ChangeSynced, Synced
  <2> QED
    BY <2>1, <2>2, <2>3
<1>6. /\ root' \in Root /\ root'.active = root.active
      /\ root'.previous = root.previous
      /\ \A h \in Gens : h # g => root'.stage[h] = root.stage[h]
  BY <1>1, <1>4, <1>5, StageChanged
<1>7. Held(root', desired)
  BY <1>2, <1>3, <1>6 DEF Held
<1>8. \A h \in Gens : h > drawn => h # g
  BY <1>1 DEF Gens
<1>9. SoundRoot(root', desired, drawn)
  BY <1>2, <1>6, <1>7, <1>8 DEF SoundRoot, Recoverable
<1>10. RootsSound' /\ RowsHaveTheirFiles'
  BY <1>1, <1>2, <1>3, <1>5, <1>7, <1>9 DEF RootsSound, RowsHaveTheirFiles
<1>11. Types' /\ OpenToUploads' /\ StageIsMade' /\ ForwardIsMade'
  BY <1>1, <1>5 DEF Types, OpenToUploads, StageIsMade, ForwardIsMade, Preparing,
     Forwarding
<1>12. UploadsAreActive'
  BY <1>1, <1>6 DEF UploadsAreActive
<1> QED
  BY <1>10, <1>11, <1>12

-----------------------------------------------------------------------------
LEMMA InspectHolds == RestoreInv /\ Inspect => RestoreInv'
<1> SUFFICES ASSUME RestoreInv, Inspect PROVE RestoreInv'
  OBVIOUS
<1> USE DEF RestoreInv
<1>1. /\ pc = "inspect" /\ desired' = desired /\ drawn' = drawn /\ plan' = plan
      /\ pending' = pending /\ uploading' = uploading /\ acked' = acked
      /\ root' = root /\ survivors' \in {survivors, {root}}
      /\ plan.gen = desired /\ desired # 0
  BY DEF Inspect, FailForward, Forward, RestoreStep, Synced, ForwardIsMade, Forwarding
<1>2. root \in survivors /\ SoundRoot(root, desired, drawn)
  BY DEF Types, RootsSound
<1>3. /\ pc' \in {"failed", "cleanup", "aside", "activate"}
      /\ pc' = "cleanup" => survivors' = {root} /\ HoldsGen(root.active, desired)
      /\ pc' = "aside" => /\ root.active # None /\ root.active.gen # desired
                          /\ root.previous[desired] = None
      /\ pc' = "activate" => root.active = None
  BY <1>1, <1>2 DEF Inspect, FailForward, Goto, ActiveIs, StageUsable, Ambiguous,
     SoundRoot, HoldsGen, Synced
<1>4. RootsSound' /\ Types' /\ UploadsAreActive' /\ OpenToUploads'
  BY <1>1, <1>3 DEF RootsSound, Types, UploadsAreActive, OpenToUploads
<1>5. RowsHaveTheirFiles' /\ StageIsMade'
  BY <1>3 DEF RowsHaveTheirFiles, StageIsMade, Preparing
<1>6. ForwardIsMade'
  BY <1>1, <1>3 DEF ForwardIsMade
<1> QED
  BY <1>4, <1>5, <1>6

\* A step of the recovery that leaves everything but its own progress.
LEMMA ForwardFails ==
  ASSUME RestoreInv, pc \in Forwarding, Forward, pc' = "failed",
         UNCHANGED <<root, survivors>>
  PROVE  RestoreInv'
<1> USE DEF RestoreInv
<1>1. /\ desired' = desired /\ drawn' = drawn /\ plan' = plan /\ pending' = pending
      /\ uploading' = uploading /\ acked' = acked
  BY DEF Forward, RestoreStep
<1>2. uploading = {} /\ plan.gen = desired /\ desired # 0
  BY DEF OpenToUploads, ForwardIsMade, Forwarding
<1>3. ~pending
  BY DEF OpenToUploads, Forwarding
<1>4. RootsSound' /\ Types' /\ UploadsAreActive'
  BY <1>1 DEF RootsSound, Types, UploadsAreActive
<1>5. OpenToUploads' /\ RowsHaveTheirFiles' /\ StageIsMade' /\ ForwardIsMade'
  BY <1>1, <1>2, <1>3 DEF OpenToUploads, RowsHaveTheirFiles, StageIsMade,
     ForwardIsMade, Preparing
<1> QED
  BY <1>4, <1>5

LEMMA MoveAsideHolds == RestoreInv /\ MoveAside => RestoreInv'
<1> SUFFICES ASSUME RestoreInv, MoveAside PROVE RestoreInv'
  OBVIOUS
<1> USE DEF RestoreInv
<1> DEFINE moved == [root EXCEPT !.previous[plan.gen] = root.active, !.active = None]
<1>1. /\ pc = "aside" /\ Forward /\ plan.gen = desired /\ desired \in Gens
      /\ desired <= drawn
      /\ root.active # None /\ root.active.gen # desired
  BY DEF MoveAside, ForwardIsMade, Forwarding, Types, Gens
<1>2. root \in survivors /\ \A r \in survivors : SoundRoot(r, desired, drawn)
  BY DEF Types, RootsSound
<1>3. CASE FailForward
  BY <1>1, <1>3, ForwardFails DEF FailForward, Goto, Forwarding
<1>4. CASE /\ root' = moved /\ root' \in survivors'
           /\ survivors' \subseteq survivors \cup {root'}
           /\ pc' \in {"failed", "activate"}
  <2>1. /\ desired' = desired /\ drawn' = drawn /\ plan' = plan /\ pending' = pending
        /\ uploading' = uploading /\ acked' = acked
    BY <1>1 DEF Forward, RestoreStep
  <2>2. root \in Root /\ root.active \in Dir
    BY <1>1, <1>2, RootFields DEF SoundRoot
  <2>3. /\ root'.active = None /\ root'.stage = root.stage
        /\ root'.previous = [root.previous EXCEPT ![desired] = root.active]
    BY <1>1, <1>4, <2>2 DEF Root
  <2>4. root' \in Root
    BY <1>1, <1>4, <2>2, <2>3 DEF Root
  <2>5. HoldsGen(root.stage[desired], desired) /\ desired # 0
    BY <1>1, <1>2 DEF SoundRoot, Recoverable, Held, HoldsGen, Gens
  <2>6. \A h \in Gens : h > drawn => root'.previous[h] = root.previous[h]
    BY <1>1, <2>2, <2>3 DEF Root, Gens, Types
  <2>7. SoundRoot(root', desired, drawn)
    BY <1>2, <2>3, <2>4, <2>5, <2>6 DEF SoundRoot, Recoverable
  <2>8. RootsSound' /\ Types'
    BY <1>2, <1>4, <2>1, <2>7 DEF RootsSound, Types
  <2>9. OpenToUploads' /\ RowsHaveTheirFiles' /\ StageIsMade' /\ ForwardIsMade'
    BY <1>1, <1>4, <2>1, <2>3, <2>5 DEF OpenToUploads, RowsHaveTheirFiles, StageIsMade,
       ForwardIsMade, Preparing, Forwarding
  <2>10. UploadsAreActive'
    BY <1>1, <2>1 DEF UploadsAreActive, HoldsGen
  <2> QED
    BY <2>8, <2>9, <2>10
<1> QED
  BY <1>3, <1>4, <1>2 DEF MoveAside, Change, ChangeSynced, Synced, Goto

LEMMA ActivateHolds == RestoreInv /\ Activate => RestoreInv'
<1> SUFFICES ASSUME RestoreInv, Activate PROVE RestoreInv'
  OBVIOUS
<1> USE DEF RestoreInv
<1> DEFINE moved == [root EXCEPT !.active = root.stage[plan.gen], !.stage[plan.gen] = None]
<1>1. /\ pc = "activate" /\ Forward /\ plan.gen = desired /\ desired \in Gens
      /\ desired <= drawn /\ root.active = None
  BY DEF Activate, ForwardIsMade, Forwarding, Types, Gens
<1>2. root \in survivors /\ \A r \in survivors : SoundRoot(r, desired, drawn)
  BY DEF Types, RootsSound
<1>3. CASE FailForward
  BY <1>1, <1>3, ForwardFails DEF FailForward, Goto, Forwarding
<1>4. CASE /\ root' = moved /\ root' \in survivors'
           /\ survivors' \subseteq survivors \cup {root'}
           /\ \/ pc' = "failed"
              \/ pc' = "confirm" /\ survivors' = {root'}
  <2>1. /\ desired' = desired /\ drawn' = drawn /\ plan' = plan /\ pending' = pending
        /\ uploading' = uploading /\ acked' = acked
    BY <1>1 DEF Forward, RestoreStep
  <2>2. root \in Root /\ root.stage[desired] \in Dir \cup {None}
    BY <1>1, <1>2, RootFields DEF SoundRoot
  <2>3. /\ root'.active = root.stage[desired] /\ root'.previous = root.previous
        /\ root'.stage = [root.stage EXCEPT ![desired] = None]
    BY <1>1, <1>4, <2>2 DEF Root
  <2>4. root' \in Root
    BY <1>1, <1>4, <2>2, <2>3 DEF Root
  <2>5. HoldsGen(root'.active, desired)
    BY <1>1, <1>2, <2>3 DEF SoundRoot, Recoverable, Held, HoldsGen, Gens
  <2>6. \A h \in Gens : h > drawn => root'.stage[h] = root.stage[h]
    BY <1>1, <2>2, <2>3 DEF Root, Gens, Types
  <2>7. SoundRoot(root', desired, drawn)
    BY <1>2, <2>3, <2>4, <2>5, <2>6 DEF SoundRoot, Recoverable, Held, HoldsGen
  <2>8. RootsSound' /\ Types'
    BY <1>2, <1>4, <2>1, <2>7 DEF RootsSound, Types
  <2>9. OpenToUploads' /\ RowsHaveTheirFiles' /\ StageIsMade' /\ ForwardIsMade'
    BY <1>1, <1>4, <2>1, <2>5 DEF OpenToUploads, RowsHaveTheirFiles, StageIsMade,
       ForwardIsMade, Preparing, Forwarding, Gens
  <2>10. UploadsAreActive'
    BY <1>1, <2>1 DEF UploadsAreActive, HoldsGen
  <2> QED
    BY <2>8, <2>9, <2>10
<1> QED
  BY <1>3, <1>4, <1>2 DEF Activate, Change, ChangeSynced, Synced, Goto

LEMMA ConfirmHolds == RestoreInv /\ Confirm => RestoreInv'
<1> SUFFICES ASSUME RestoreInv, Confirm PROVE RestoreInv'
  OBVIOUS
<1> USE DEF RestoreInv
<1>1. /\ pc = "confirm" /\ Forward /\ UNCHANGED <<root, survivors>>
      /\ pc' \in {"failed", "cleanup"}
  BY DEF Confirm, FailForward, Goto
<1>2. CASE pc' = "failed"
  BY <1>1, <1>2, ForwardFails DEF Forwarding
<1>3. CASE pc' = "cleanup"
  <2>1. /\ desired' = desired /\ drawn' = drawn /\ plan' = plan /\ pending' = pending
        /\ uploading' = uploading /\ acked' = acked
    BY <1>1 DEF Forward, RestoreStep
  <2>2. RootsSound' /\ Types' /\ UploadsAreActive' /\ OpenToUploads'
    BY <1>1, <1>3, <2>1 DEF RootsSound, Types, UploadsAreActive, OpenToUploads
  <2>3. RowsHaveTheirFiles' /\ StageIsMade' /\ ForwardIsMade'
    BY <1>1, <1>3, <2>1 DEF RowsHaveTheirFiles, StageIsMade, ForwardIsMade, Preparing,
       Forwarding
  <2> QED
    BY <2>2, <2>3
<1> QED
  BY <1>1, <1>2, <1>3

LEMMA CleanupHolds == RestoreInv /\ Cleanup => RestoreInv'
<1> SUFFICES ASSUME RestoreInv, Cleanup PROVE RestoreInv'
  OBVIOUS
<1> USE DEF RestoreInv
<1> DEFINE cleaned == [root EXCEPT !.previous[plan.gen] = None, !.stage[plan.gen] = None]
           partly == [root EXCEPT !.previous[plan.gen] = Damaged(@)]
<1>1. /\ pc = "cleanup" /\ plan.gen = desired /\ desired \in Gens
      /\ survivors = {root} /\ HoldsGen(root.active, desired)
      /\ desired' = desired /\ drawn' = drawn /\ plan' = plan
      /\ uploading' = uploading /\ acked' = acked
      /\ root' \in {cleaned, partly} /\ root' \in survivors'
      /\ survivors' \subseteq {root, root'}
      /\ \/ pc' \in {"orphans", "idle"} /\ pending' = FALSE
         \/ pc' = "failed" /\ pending' = pending
  BY DEF Cleanup, RestoreStep, ForwardIsMade, Forwarding, Change, ChangeSynced, Synced,
     Goto, Finished, Types, Gens
<1>2. root \in Root /\ SoundRoot(root, desired, drawn) /\ uploading = {} /\ ~pending
  BY <1>1 DEF Types, RootsSound, SoundRoot, OpenToUploads
<1>3. root.stage[desired] \in Dir \cup {None} /\ root.previous[desired] \in Dir \cup {None}
  BY <1>1, <1>2, RootFields
<1>4. PICK d \in Dir \cup {None}, e \in Dir \cup {None} :
        /\ root'.active = root.active
        /\ root'.stage = [root.stage EXCEPT ![desired] = d]
        /\ root'.previous = [root.previous EXCEPT ![desired] = e]
        /\ root' = [active |-> root'.active, stage |-> root'.stage,
                    previous |-> root'.previous]
  <2>1. CASE root' = cleaned
    BY <1>1, <1>2, <2>1 DEF Root
  <2>2. CASE root' = partly
    <3>1. Damaged(root.previous[desired]) \in Dir \cup {None}
      BY <1>3 DEF Damaged, Dir
    <3>2. root.stage = [root.stage EXCEPT ![desired] = root.stage[desired]]
      BY <1>1, <1>2 DEF Root
    <3>3. /\ root'.active = root.active /\ root'.stage = root.stage
          /\ root'.previous = [root.previous EXCEPT ![desired] =
                                 Damaged(root.previous[desired])]
          /\ root' = [active |-> root'.active, stage |-> root'.stage,
                      previous |-> root'.previous]
      BY <1>1, <1>2, <2>2 DEF Root
    <3> QED
      BY <1>3, <3>1, <3>2, <3>3
  <2> QED
    BY <1>1, <2>1, <2>2
<1>5. root' \in Root
  BY <1>1, <1>2, <1>4 DEF Root
<1>6. \A h \in Gens : h > drawn =>
        root'.stage[h] = root.stage[h] /\ root'.previous[h] = root.previous[h]
  <2>1. \A h \in Gens : h > drawn => h # desired
    BY DEF Types, Gens
  <2> QED
    BY <1>1, <1>2, <1>4, <2>1 DEF Root
<1>7. Held(root', desired) /\ SoundRoot(root', desired, drawn)
  BY <1>1, <1>2, <1>4, <1>5, <1>6 DEF SoundRoot, Recoverable, Held
<1>8. \A r \in survivors' : Held(r, desired) /\ SoundRoot(r, desired, drawn)
  BY <1>1, <1>2, <1>7 DEF Held
<1>9. RootsSound' /\ RowsHaveTheirFiles'
  BY <1>1, <1>8 DEF RootsSound, RowsHaveTheirFiles
<1>10. Types' /\ OpenToUploads'
  <2>1. /\ root' \in survivors' /\ desired' = desired /\ drawn' = drawn /\ plan' = plan
        /\ uploading' = uploading /\ acked' = acked
    BY <1>1
  <2>2. ~pending'
    BY <1>1, <1>2
  <2>3. pending' \in BOOLEAN
    <3>1. CASE pending' = FALSE
      BY <3>1
    <3>2. CASE pending' = pending
      BY <3>2 DEF Types
    <3> QED
      BY <1>1, <3>1, <3>2
  <2>4. Types'
    BY <2>1, <2>3 DEF Types
  <2>5. OpenToUploads'
    BY <1>2, <2>1, <2>2 DEF OpenToUploads
  <2> QED
    BY <2>4, <2>5
<1>12. StageIsMade' /\ ForwardIsMade'
  BY <1>1 DEF StageIsMade, ForwardIsMade, Preparing, Forwarding, Gens
<1>11. UploadsAreActive'
  BY <1>1, <1>4 DEF UploadsAreActive
<1> QED
  BY <1>9, <1>10, <1>11, <1>12

LEMMA FailHolds == RestoreInv /\ Fail => RestoreInv'
<1> SUFFICES ASSUME RestoreInv, Fail PROVE RestoreInv'
  OBVIOUS
<1> USE DEF RestoreInv
<1>1. /\ pc = "failed" /\ plan.gen = desired /\ desired # 0
      /\ desired' = desired /\ drawn' = drawn /\ acked' = acked
      /\ root' = root /\ survivors' = survivors
      /\ \/ pc' = "inspect" /\ pending' = pending
         \/ pc' = "idle" /\ pending' = TRUE
         \/ pc' = "down" /\ pending' = FALSE
      /\ uploading' \in {uploading, {}}
      /\ plan' \in {plan, [plan EXCEPT !.retries = 0]}
  BY DEF Fail, FailedRestorePends, Goto, ForwardIsMade, Forwarding
<1>2. uploading = {} /\ ~pending
  BY <1>1 DEF OpenToUploads
<1>3. /\ plan' \in [gen : 0..MaxGen, recovery : BOOLEAN, retries : {0, 1}]
      /\ plan'.gen = plan.gen
  BY <1>1 DEF Types
<1>4. Types' /\ RootsSound' /\ UploadsAreActive'
  BY <1>1, <1>3 DEF Types, RootsSound, UploadsAreActive
<1>5. RowsHaveTheirFiles' /\ OpenToUploads' /\ StageIsMade' /\ ForwardIsMade'
  BY <1>1, <1>2, <1>3 DEF RowsHaveTheirFiles, OpenToUploads, StageIsMade, ForwardIsMade,
     Preparing, Forwarding
<1> QED
  BY <1>4, <1>5

-----------------------------------------------------------------------------
\* A crash keeps the root, a power loss leaves any of the survivors.
LEMMA StopsHolds == RestoreInv /\ (Crash \/ PowerLoss) => RestoreInv'
<1> SUFFICES ASSUME RestoreInv, Crash \/ PowerLoss PROVE RestoreInv'
  OBVIOUS
<1> USE DEF RestoreInv
<1>1. /\ pc' = "down" /\ pending' = FALSE /\ uploading' = {}
      /\ desired' = desired /\ drawn' = drawn /\ plan' = plan
      /\ root' \in survivors /\ root' \in survivors' /\ survivors' \subseteq survivors
      /\ \/ acked' = {}
         \/ root' = root /\ acked' = acked
  BY DEF Crash, PowerLoss, Stops, Goto, Synced, Types
<1>2. RootsSound' /\ Types'
  BY <1>1 DEF RootsSound, Types
<1>3. RowsHaveTheirFiles' /\ OpenToUploads' /\ StageIsMade' /\ ForwardIsMade'
  BY <1>1 DEF RowsHaveTheirFiles, OpenToUploads, StageIsMade, ForwardIsMade,
     Preparing, Forwarding
<1>4. UploadsAreActive'
  BY <1>1 DEF UploadsAreActive
<1> QED
  BY <1>2, <1>3, <1>4

LEMMA StartupHolds == RestoreInv /\ Startup => RestoreInv'
<1> SUFFICES ASSUME RestoreInv, Startup PROVE RestoreInv'
  OBVIOUS
<1> USE DEF RestoreInv
<1>1. /\ pc = "down" /\ desired' = desired /\ drawn' = drawn /\ root' = root
      /\ survivors' = survivors /\ pending' = pending /\ uploading' = uploading
      /\ acked' = acked
      /\ \/ /\ plan' = [gen |-> desired, recovery |-> TRUE, retries |-> 0]
            /\ \/ pc' = "orphans" /\ desired = 0
               \/ pc' = "inspect" /\ desired # 0
         \/ plan' = plan /\ pc' = pc
  BY DEF Startup, Goto
<1>2. uploading = {} /\ ~pending
  BY <1>1 DEF OpenToUploads
<1>3. Types'
  <2>1. desired \in 0..MaxGen
    BY RestoreAssumption DEF Types
  <2>2. plan' \in [gen : 0..MaxGen, recovery : BOOLEAN, retries : {0, 1}]
    <3>1. CASE plan' = [gen |-> desired, recovery |-> TRUE, retries |-> 0]
      BY <2>1, <3>1
    <3>2. CASE plan' = plan
      BY <3>2 DEF Types
    <3> QED
      BY <1>1, <3>1, <3>2
  <2>3. plan'.gen \in 0..MaxGen
    BY <2>2
  <2> QED
    BY <1>1, <2>2, <2>3 DEF Types
<1>4. RootsSound' /\ UploadsAreActive'
  BY <1>1 DEF RootsSound, UploadsAreActive
<1>5. desired = 0 => \A r \in survivors : Held(r, desired)
  BY DEF RootsSound, SoundRoot, Recoverable
<1>6. RowsHaveTheirFiles'
  BY <1>1, <1>5 DEF RowsHaveTheirFiles, Preparing
<1>7. OpenToUploads' /\ StageIsMade' /\ ForwardIsMade'
  BY <1>1, <1>2 DEF OpenToUploads, StageIsMade, ForwardIsMade, Preparing, Forwarding
<1> QED
  BY <1>3, <1>4, <1>6, <1>7

\* A root without the stages of some generations.
WithoutStages(r, gone) ==
  [r EXCEPT !.stage = [g \in Gens |-> IF g \in gone THEN None ELSE @[g]]]

LEMMA NothingGone == ASSUME NEW r \in Root PROVE r = WithoutStages(r, {})
<1>1. r.stage = [g \in Gens |-> IF g \in {} THEN None ELSE r.stage[g]]
  BY DEF Root
<1>2. r = [r EXCEPT !.stage = r.stage]
  BY DEF Root
<1> QED
  BY <1>1, <1>2 DEF WithoutStages

LEMMA RemoveOrphansHolds == RestoreInv /\ RemoveOrphans => RestoreInv'
<1> SUFFICES ASSUME RestoreInv, RemoveOrphans PROVE RestoreInv'
  OBVIOUS
<1> USE DEF RestoreInv
<1>1. /\ pc = "orphans" /\ pc' = "idle"
      /\ desired' = desired /\ drawn' = drawn /\ plan' = plan
      /\ pending' = pending /\ uploading' = uploading /\ acked' = acked
  BY DEF RemoveOrphans, RestoreStep, Goto
<1>2. root \in survivors /\ \A r \in survivors : SoundRoot(r, desired, drawn)
  BY DEF Types, RootsSound
<1>3. \A r \in survivors : Held(r, desired)
  BY <1>1 DEF RowsHaveTheirFiles
<1>4. root \in Root
  BY <1>2 DEF SoundRoot
<1>5. PICK gone \in SUBSET Gens :
        /\ root' = WithoutStages(root, gone)
        /\ root' \in survivors' /\ survivors' \subseteq survivors \cup {root'}
  <2>1. CASE UNCHANGED <<root, survivors>>
    <3>1. root' = WithoutStages(root, {})
      BY <1>4, <2>1, NothingGone
    <3> QED
      BY <1>2, <2>1, <3>1
  <2>2. CASE ChangeSynced(WithoutStages(root, OrphanStages))
    BY <2>2 DEF ChangeSynced, Synced, OrphanStages
  <2>3. CASE \E removed \in SUBSET OrphanStages : Change(WithoutStages(root, removed))
    BY <2>3 DEF Change, OrphanStages
  <2> QED
    BY <2>1, <2>2, <2>3 DEF RemoveOrphans, WithoutStages
<1>6. /\ root'.active = root.active /\ root'.previous = root.previous
      /\ root'.stage = [g \in Gens |-> IF g \in gone THEN None ELSE root.stage[g]]
      /\ root' \in Root
  BY <1>4, <1>5 DEF Root, WithoutStages
<1>7. Held(root', desired)
  BY <1>2, <1>3, <1>6 DEF Held
<1>8. SoundRoot(root', desired, drawn)
  BY <1>2, <1>6, <1>7 DEF SoundRoot, Recoverable
<1>9. RootsSound' /\ RowsHaveTheirFiles'
  BY <1>1, <1>2, <1>3, <1>5, <1>7, <1>8 DEF RootsSound, RowsHaveTheirFiles
<1>10. Types' /\ OpenToUploads' /\ StageIsMade' /\ ForwardIsMade'
  BY <1>1, <1>5 DEF Types, OpenToUploads, StageIsMade, ForwardIsMade, Preparing,
     Forwarding
<1>11. UploadsAreActive'
  BY <1>1, <1>6 DEF UploadsAreActive
<1> QED
  BY <1>9, <1>10, <1>11

-----------------------------------------------------------------------------
LEMMA BeginUploadHolds ==
  ASSUME RestoreInv, NEW f \in Uploads, BeginUpload(f)
  PROVE  RestoreInv'
<1> USE DEF RestoreInv
<1>1. RootsSound' /\ Types' /\ RowsHaveTheirFiles' /\ UploadsAreActive'
  BY DEF BeginUpload, RootsSound, Types, RowsHaveTheirFiles, UploadsAreActive
<1>2. OpenToUploads' /\ StageIsMade' /\ ForwardIsMade'
  BY DEF BeginUpload, Serving, OpenToUploads, StageIsMade, ForwardIsMade
<1> QED
  BY <1>1, <1>2

\* An upload adds to the active directory or, before the first restore, may be
\* what makes it.
LEMMA FinishUploadHolds ==
  ASSUME RestoreInv, NEW f \in Uploads, FinishUpload(f)
  PROVE  RestoreInv'
<1> USE DEF RestoreInv
<1>1. /\ pc = "idle" /\ ~pending /\ pc' = pc /\ pending' = pending
      /\ desired' = desired /\ drawn' = drawn /\ plan' = plan
      /\ uploading' \subseteq uploading /\ acked' = acked \cup {f}
      /\ survivors' = survivors \cup {root'}
  BY DEF FinishUpload, OpenToUploads, Change
<1>2. root \in survivors /\ \A r \in survivors :
        SoundRoot(r, desired, drawn) /\ Held(r, desired)
  BY <1>1 DEF Types, RootsSound, RowsHaveTheirFiles
<1>3. root \in Root /\ root.active \in Dir \cup {None}
  BY <1>2, RootFields DEF SoundRoot
<1>4. PICK d \in Dir :
        /\ root' = [root EXCEPT !.active = d] /\ f \in d.uploads
        /\ root.active = None => d.gen = 0 /\ d.complete
        /\ root.active # None =>
             /\ d.gen = root.active.gen /\ d.complete = root.active.complete
             /\ root.active.uploads \subseteq d.uploads
  <2>1. root' = [root EXCEPT !.active = WithUpload(root.active, f)]
    BY DEF FinishUpload, Change
  <2>2. CASE root.active = None
    <3>1. [gen |-> 0, complete |-> TRUE, uploads |-> {f}] \in Dir
      BY RestoreAssumption DEF Dir
    <3> QED
      BY <2>1, <2>2, <3>1 DEF WithUpload
  <2>3. CASE root.active # None
    <3>1. root.active \in Dir
      BY <1>3, <2>3
    <3>2. /\ WithUpload(root.active, f) \in Dir
          /\ WithUpload(root.active, f).uploads = root.active.uploads \cup {f}
          /\ WithUpload(root.active, f).gen = root.active.gen
          /\ WithUpload(root.active, f).complete = root.active.complete
      BY <3>1, <2>3 DEF Dir, WithUpload
    <3> QED
      BY <2>1, <2>3, <3>2
  <2> QED
    BY <2>2, <2>3
<1>5. /\ root'.active = d /\ root'.stage = root.stage
      /\ root'.previous = root.previous /\ root' \in Root
  BY <1>3, <1>4 DEF Root
<1>6. d # None
  BY NoneIsNoDir
<1>7. HoldsGen(root'.active, desired)
  BY <1>2, <1>4, <1>5, <1>6 DEF Held, HoldsGen
<1>8. SoundRoot(root', desired, drawn)
  BY <1>2, <1>5, <1>7 DEF SoundRoot, Recoverable, Held, HoldsGen
<1>9. RootsSound' /\ RowsHaveTheirFiles'
  BY <1>1, <1>2, <1>7, <1>8 DEF RootsSound, RowsHaveTheirFiles, Held
<1>10. acked' \subseteq root'.active.uploads
  BY <1>1, <1>4, <1>5 DEF UploadsAreActive, HoldsGen
<1>11. Types' /\ UploadsAreActive'
  BY <1>1, <1>7, <1>10 DEF Types, UploadsAreActive
<1>12. OpenToUploads' /\ StageIsMade' /\ ForwardIsMade'
  BY <1>1 DEF OpenToUploads, StageIsMade, ForwardIsMade, Preparing, Forwarding
<1> QED
  BY <1>9, <1>11, <1>12

-----------------------------------------------------------------------------
LEMMA StepHolds == RestoreInv /\ [Next]_vars => RestoreInv'
<1> SUFFICES ASSUME RestoreInv, [Next]_vars PROVE RestoreInv'
  OBVIOUS
<1>1. CASE UNCHANGED vars
  BY <1>1 DEF vars, RestoreInv, Types, RootsSound, RowsHaveTheirFiles, StageIsMade,
     ForwardIsMade, OpenToUploads, UploadsAreActive
<1>2. CASE ServerStep
  BY <1>2, StageFilesHolds, SyncStageHolds, CommitDatabaseHolds, VerifyMarkerHolds,
     RollbackHolds, InspectHolds, MoveAsideHolds, ActivateHolds, ConfirmHolds,
     CleanupHolds, FailHolds, RemoveOrphansHolds DEF ServerStep
<1>3. CASE StartRestore \/ Startup \/ Crash \/ PowerLoss
  BY <1>3, StartRestoreHolds, StartupHolds, StopsHolds
<1>4. CASE \E f \in Uploads : BeginUpload(f) \/ FinishUpload(f)
  BY <1>4, BeginUploadHolds, FinishUploadHolds
<1> QED
  BY <1>1, <1>2, <1>3, <1>4 DEF Next

LEMMA InvariantHolds == Spec => []RestoreInv
BY InitHolds, StepHolds, PTL DEF Spec

\* Whenever attachments are served they are those of the rows: a restore that
\* did not commit shows nothing of itself, one that did shows all of itself.
THEOREM FilesFollowTheDatabase == Spec => []ServedFilesMatchDatabase
<1>1. RestoreInv => ServedFilesMatchDatabase
  BY DEF RestoreInv, ServedFilesMatchDatabase, RowsHaveTheirFiles, Types, Serving, Held
<1> QED
  BY <1>1, InvariantHolds, PTL

\* Every root a power loss may leave at any step can be recovered from.
THEOREM RecoveryIsNeverStuck == Spec => []RecoveryCanGoForward
<1>1. RestoreInv => RecoveryCanGoForward
  BY DEF RestoreInv, RecoveryCanGoForward, RootsSound, SoundRoot, Recoverable, Held
<1> QED
  BY <1>1, InvariantHolds, PTL

\* No restore takes away an upload that was acknowledged after the last one.
THEOREM UploadsSurvive == Spec => []AckedUploadsStay
<1>1. RestoreInv => AckedUploadsStay
  BY DEF RestoreInv, AckedUploadsStay, UploadsAreActive, HoldsGen
<1> QED
  BY <1>1, InvariantHolds, PTL
=============================================================================
