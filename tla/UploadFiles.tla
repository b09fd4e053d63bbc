------------------------------ MODULE UploadFiles ------------------------------
(***************************************************************************)
(* Uploaded files, the rows that refer to them and the garbage collector:  *)
(* service/upload.go, upload_validation.go, upload_references.go,          *)
(* upload_gc.go, and the evidence the other services store.  Everything    *)
(* that touches a file holds attachmentStorageBarrier, shared to add a     *)
(* file or a reference and exclusively to remove a file; deleting a row    *)
(* and choosing an avatar do not take it.                                  *)
(*                                                                         *)
(* One user; restores, which swap whole directories, are in                *)
(* AttachmentRestore.                                                      *)
(***************************************************************************)
EXTENDS Integers, FiniteSets

CONSTANTS Callers,           \* requests being served
          Collector,         \* the garbage collector's goroutine
          Rows,              \* transactions, lendings, repayments, reminders
          Profile,           \* the row of the user, whose avatar is a path
          Names,             \* file names, after sanitizeUploadFilename
          Grace,             \* uploadGCGrace, in days
          MaxDay, MaxUploads, MaxRequests, MaxBreaks      \* bounds

ASSUME UploadAssumption ==
  /\ Collector \notin Callers /\ Profile \notin Rows
  /\ "free" \notin Callers \cup {Collector}      \* who holds the barrier, if nobody
  /\ IsFiniteSet(Rows) /\ IsFiniteSet(Names) /\ IsFiniteSet(Callers)
  /\ {Grace, MaxDay, MaxUploads, MaxRequests, MaxBreaks} \subseteq Nat

VARIABLES
  date,        \* the day
  uploaded,    \* uploads so far; each is identified by its number
  stored_files,\* the directory: path -> what it holds
  refs,        \* the paths each row names
  liveRows,    \* rows that are not deleted
  readers, writer,   \* attachmentStorageBarrier
  call,        \* what every request and the collector are doing
  due_gc,      \* the collector's daily tick
  acked,       \* paths given out to clients (history)
  retracted,   \* paths that were visible and went with a failed copy (history)
  requests, breaks

uploadVars == <<date, uploaded, stored_files, refs, liveRows, readers, writer,
                call, due_gc, acked, retracted, requests, breaks>>

Actor == Callers \cup {Collector}
\* A path: its row, its name, and the suffix (an upload's number, 0 for none).
Paths == [row : Rows \cup {Profile}, name : Names, suffix : 0..MaxUploads]
Unheld == "free"
NoCall == [pc |-> "idle", paths |-> {}, row |-> Profile, upload |-> 0,
           cutoff |-> -1, seen |-> {}]
Files == DOMAIN stored_files

UploadTypeOK ==
  /\ date \in 0..MaxDay /\ uploaded \in 0..MaxUploads
  /\ Files \subseteq Paths
  /\ \A p \in Files : stored_files[p] \in
       [content : 1..MaxUploads, at : 0..MaxDay, whole : BOOLEAN]
  /\ refs \in [Rows \cup {Profile} -> SUBSET Paths] /\ liveRows \subseteq Rows
  /\ readers \subseteq Callers /\ writer \in Actor \cup {Unheld}
  /\ writer # Unheld => readers = {}
  /\ \A a \in Actor :
       call[a].pc \in {"idle", "stage", "copy", "attach", "write", "delete",
                       "remove", "due", "read", "sweep"}
  /\ due_gc \in BOOLEAN /\ acked \subseteq Paths /\ retracted \subseteq Paths
  /\ requests \in 0..MaxRequests /\ breaks \in 0..MaxBreaks

UploadInit ==
  /\ date = 0 /\ uploaded = 0 /\ stored_files = <<>> /\ acked = {}
  /\ retracted = {}
  /\ refs = [r \in Rows \cup {Profile} |-> {}] /\ liveRows = Rows
  /\ readers = {} /\ writer = Unheld
  /\ call = [a \in Actor |-> NoCall]
  /\ due_gc = TRUE /\ requests = 0 /\ breaks = 0

-----------------------------------------------------------------------------
With(f, p, v) == [q \in DOMAIN f \cup {p} |-> IF q = p THEN v ELSE f[q]]
Less(f, ps) == [q \in DOMAIN f \ ps |-> f[q]]

Disk == <<date, uploaded, stored_files, acked, retracted>>
Data == <<refs, liveRows>>
UploadLimits == <<requests, breaks>>

AskUpload(a) == call[a].pc = "idle" /\ requests < MaxRequests /\ requests' = requests + 1
Share(a) == writer = Unheld /\ readers' = readers \cup {a} /\ UNCHANGED writer
EndShared(a) ==
  /\ readers' = readers \ {a} /\ UNCHANGED writer
  /\ call' = [call EXCEPT ![a] = NoCall]
EndExclusive(a) ==
  /\ writer' = Unheld /\ UNCHANGED readers
  /\ call' = [call EXCEPT ![a] = NoCall]
Break == breaks < MaxBreaks /\ breaks' = breaks + 1

\* Upload up to the staged copy, whose type, size and content are checked.
StartUpload(a, r, n) ==
  /\ AskUpload(a) /\ Share(a) /\ uploaded < MaxUploads
  /\ uploaded' = uploaded + 1
  /\ call' = [call EXCEPT ![a] = [NoCall EXCEPT !.pc = "stage", !.row = r,
                !.upload = uploaded + 1,
                !.paths = {[row |-> r, name |-> n, suffix |-> 0]}]]
  /\ UNCHANGED <<date, stored_files, acked, retracted, Data, due_gc, breaks>>

\* The upload is refused; the staging file goes with it.
RefuseUpload(a) ==
  /\ call[a].pc = "stage"
  /\ EndShared(a)
  /\ UNCHANGED <<Disk, Data, due_gc, UploadLimits>>

\* Mutant: the name is taken without asking whether it is free.
ClaimAnyway(a, p) ==
  /\ call[a].pc = "stage"
  /\ call[a].paths = {[p EXCEPT !.suffix = 0]} /\ p.suffix = 0
  /\ stored_files' = With(stored_files, p,
                          [content |-> call[a].upload, at |-> date, whole |-> FALSE])
  /\ call' = [call EXCEPT ![a].pc = "copy", ![a].paths = {p}]
  /\ UNCHANGED <<date, uploaded, acked, retracted, Data, readers, writer,
                 due_gc, UploadLimits>>

\* publishStagedUpload: O_EXCL takes the name, or one with the upload's id.
Claim(a, p) ==
  /\ call[a].pc = "stage"
  /\ call[a].paths = {[p EXCEPT !.suffix = 0]}
  /\ p.suffix = (IF call[a].paths \subseteq Files THEN call[a].upload ELSE 0)
  /\ stored_files' = With(stored_files, p,
                          [content |-> call[a].upload, at |-> date, whole |-> FALSE])
  /\ call' = [call EXCEPT ![a].pc = "copy", ![a].paths = {p}]
  /\ UNCHANGED <<date, uploaded, acked, retracted, Data, readers, writer,
                 due_gc, UploadLimits>>

\* The copy is complete and the client learns the path.
FinishUpload(a, p) ==
  /\ call[a].pc = "copy" /\ call[a].paths = {p}
  /\ stored_files' = With(stored_files, p,
       [content |-> call[a].upload, at |-> date, whole |-> TRUE])
  /\ acked' = acked \cup {p}
  /\ EndShared(a)
  /\ UNCHANGED <<date, uploaded, retracted, Data, due_gc, UploadLimits>>

\* The copy fails: the destination, which is this upload's own, is removed.
FailUpload(a) ==
  /\ call[a].pc = "copy" /\ Break
  /\ stored_files' = Less(stored_files, call[a].paths)
  /\ retracted' = retracted \cup call[a].paths
  /\ EndShared(a)
  /\ UNCHANGED <<date, uploaded, acked, Data, due_gc, requests>>

\* A row is given attachments: paths of its own that were given out for it.
StartAttach(a, r, ps) ==
  /\ AskUpload(a) /\ Share(a) /\ r \in liveRows
  /\ call' = [call EXCEPT ![a] = [NoCall EXCEPT !.pc = "attach", !.row = r,
                                                !.paths = ps]]
  /\ UNCHANGED <<Disk, Data, due_gc, breaks>>

\* Mutant: the barrier is released once the files were seen.
ValidatePathsAndRelease(a) ==
  /\ call[a].pc = "attach"
  /\ IF call[a].paths \subseteq Files
     THEN /\ call' = [call EXCEPT ![a].pc = "write"]
          /\ readers' = readers \ {a} /\ UNCHANGED writer
     ELSE EndShared(a)
  /\ UNCHANGED <<Disk, Data, due_gc, UploadLimits>>

\* validateStoredAttachmentPaths: each path is a regular file.
ValidatePaths(a) ==
  /\ call[a].pc = "attach"
  /\ IF call[a].paths \subseteq Files
     THEN call' = [call EXCEPT ![a].pc = "write"] /\ UNCHANGED <<readers, writer>>
     ELSE EndShared(a)
  /\ UNCHANGED <<Disk, Data, due_gc, UploadLimits>>

WriteReferences(a) ==
  /\ call[a].pc = "write"
  /\ refs' = IF call[a].row \in liveRows
             THEN [refs EXCEPT ![call[a].row] = call[a].paths] ELSE refs
  /\ EndShared(a)
  /\ UNCHANGED <<Disk, liveRows, due_gc, UploadLimits>>

\* UpdateProfile: the avatar is stored as it comes, without the barrier.
ChooseAvatar(ps) ==
  /\ requests < MaxRequests /\ requests' = requests + 1
  /\ refs' = [refs EXCEPT ![Profile] = ps]
  /\ UNCHANGED <<Disk, liveRows, readers, writer, call, due_gc, breaks>>

\* A transaction, a lending or a reminder is deleted; its files stay.
DeleteRow(r) ==
  /\ r \in liveRows
  /\ requests < MaxRequests /\ requests' = requests + 1
  /\ liveRows' = liveRows \ {r}
  /\ UNCHANGED <<Disk, refs, readers, writer, call, due_gc, breaks>>

\* referencedUploadPaths
Referenced == UNION {refs[r] : r \in liveRows \cup {Profile}}

\* UploadService.Delete, under the exclusive barrier.
StartDelete(a, p) ==
  /\ AskUpload(a) /\ writer = Unheld /\ readers = {}
  /\ writer' = a /\ UNCHANGED readers
  /\ call' = [call EXCEPT ![a] = [NoCall EXCEPT !.pc = "delete", !.paths = {p}]]
  /\ UNCHANGED <<Disk, Data, due_gc, breaks>>

CheckUnreferenced(a) ==
  /\ call[a].pc = "delete"
  /\ IF call[a].paths \subseteq Referenced
     THEN EndExclusive(a)
     ELSE call' = [call EXCEPT ![a].pc = "remove"] /\ UNCHANGED <<readers, writer>>
  /\ UNCHANGED <<Disk, Data, due_gc, UploadLimits>>

RemoveFile(a) ==
  /\ call[a].pc = "remove"
  /\ stored_files' = Less(stored_files, call[a].paths)
  /\ EndExclusive(a)
  /\ UNCHANGED <<date, uploaded, acked, retracted, Data, due_gc, UploadLimits>>

\* RunOnce: the cutoff is fixed before the barrier is waited for.
StartCollection ==
  /\ due_gc /\ call[Collector].pc = "idle"
  /\ due_gc' = FALSE
  /\ call' = [call EXCEPT ![Collector] = [NoCall EXCEPT !.pc = "due",
                                                        !.cutoff = date - Grace]]
  /\ UNCHANGED <<Disk, Data, readers, writer, UploadLimits>>

LockForCollection ==
  /\ call[Collector].pc = "due" /\ writer = Unheld /\ readers = {}
  /\ writer' = Collector /\ UNCHANGED readers
  /\ call' = [call EXCEPT ![Collector].pc = "read"]
  /\ UNCHANGED <<Disk, Data, due_gc, UploadLimits>>

ReadReferences ==
  /\ call[Collector].pc = "read"
  /\ call' = [call EXCEPT ![Collector].pc = "sweep", ![Collector].seen = Referenced]
  /\ UNCHANGED <<Disk, Data, readers, writer, due_gc, UploadLimits>>

\* Mutant: the cutoff is not looked at, and so nothing is old enough.
OrphansNever == {p \in Files : stored_files[p].at < call[Collector].cutoff - MaxDay}
\* CollectOrphanedFiles: what the walk removes.
Orphans ==
  {p \in Files : stored_files[p].at <= call[Collector].cutoff} \ call[Collector].seen

Sweep(p) ==
  /\ call[Collector].pc = "sweep" /\ p \in Orphans
  /\ stored_files' = Less(stored_files, {p})
  /\ UNCHANGED <<date, uploaded, acked, retracted, Data, readers, writer,
                 call, due_gc, UploadLimits>>

\* The walk is over, or an error ends it early.
EndCollection ==
  /\ call[Collector].pc \in {"read", "sweep"}
  /\ \/ call[Collector].pc = "sweep" /\ Orphans = {} /\ UNCHANGED breaks
     \/ Break
  /\ EndExclusive(Collector)
  /\ UNCHANGED <<Disk, Data, due_gc, requests>>

\* The collector's ticker; the last day of a run is followed by others like it.
NextDay ==
  /\ date < MaxDay \/ ~due_gc
  /\ date' = IF date < MaxDay THEN date + 1 ELSE date
  /\ due_gc' = TRUE
  /\ UNCHANGED <<uploaded, stored_files, acked, retracted, Data, readers,
                 writer, call, UploadLimits>>

\* The process dies and starts again: half a copy stays under its name.
Reboot ==
  /\ Break
  /\ call' = [a \in Actor |-> NoCall]
  /\ readers' = {} /\ writer' = Unheld /\ due_gc' = TRUE
  /\ UNCHANGED <<Disk, Data, requests>>

PathsGiven(r) == {p \in acked : p.row = r}

CallStep(a) ==
  \/ \E p \in Paths : Claim(a, p) \/ FinishUpload(a, p)
  \/ RefuseUpload(a) \/ FailUpload(a)
  \/ ValidatePaths(a) \/ WriteReferences(a)
  \/ CheckUnreferenced(a) \/ RemoveFile(a)

NewCall(a) ==
  \/ \E r \in Rows \cup {Profile}, n \in Names : StartUpload(a, r, n)
  \/ \E r \in Rows : \E ps \in SUBSET PathsGiven(r) : StartAttach(a, r, ps)
  \/ \E p \in acked : StartDelete(a, p)

CollectorStep ==
  \/ StartCollection \/ LockForCollection \/ ReadReferences \/ EndCollection
  \/ \E p \in Orphans : Sweep(p)

UploadNext ==
  \/ \E a \in Callers : NewCall(a) \/ CallStep(a)
  \/ CollectorStep \/ NextDay \/ Reboot
  \/ \E ps \in {{}} \cup {{p} : p \in PathsGiven(Profile)} : ChooseAvatar(ps)
  \/ \E r \in Rows : DeleteRow(r)

UploadSpec == UploadInit /\ [][UploadNext]_uploadVars

\* Handlers and the collector run; sync.RWMutex starves neither side.
UploadFairness ==
  /\ \A a \in Callers : WF_uploadVars(CallStep(a))
  /\ WF_uploadVars(NextDay) /\ WF_uploadVars(CollectorStep)
  /\ SF_uploadVars(LockForCollection)

-----------------------------------------------------------------------------
(* A live row never names a file that is gone: no deletion or collection    *)
(* comes between the check of its paths and the commit.  What may go is a   *)
(* file seen under its name while it was copied there, when the copy fails. *)
AttachmentRowsHaveFiles ==
  \A r \in liveRows : refs[r] \subseteq Files \cup retracted

(* A complete file stays what it is until someone removes it under the      *)
(* exclusive barrier: of two uploads of one name at once, neither           *)
(* overwrites the other's file or takes it away when it fails.              *)
CompleteFilesStay ==
  [][\A p \in Files : stored_files[p].whole =>
        \/ writer # Unheld /\ p \notin Files'
        \/ p \in Files' /\ stored_files'[p] = stored_files[p]]_uploadVars

Orphaned(p) ==
  p \in Files \ Referenced /\ stored_files[p].at <= MaxDay - Grace

(* Files nothing refers to are collected in the end, even if an error ended *)
(* an earlier walk, the process died or the upload was cut short.           *)
OrphansAreCollected == date = MaxDay ~> \A p \in Paths : ~Orphaned(p)

=============================================================================
