--------------------------- MODULE PlatformProofs ---------------------------
(***************************************************************************)
(* The proofs about what requests meet besides the ledger: the uploaded    *)
(* files, the limiters and the AI reports.  They share no state; each part *)
(* is about the specification of its own module.                           *)
(***************************************************************************)
EXTENDS UploadFiles, RateLimiters, AIReports, SumLemmas

(***************************************************************************)
(* Live rows have their files, and no complete file is overwritten, for    *)
(* any number of requests, rows, names and uploads.                        *)
(*                                                                         *)
(* The argument is what each holder of the barrier may count on: who will  *)
(* write references, that its files stay; who will remove a file, that no  *)
(* row comes to name it; who copies, that the name is its own.             *)
(***************************************************************************)
Shared == {"stage", "copy", "attach", "write"}
Exclusive == {"delete", "remove", "read", "sweep"}
Uploading == {"stage", "copy"}

Calls ==
  [pc : {"idle", "due"} \cup Shared \cup Exclusive, paths : SUBSET Paths,
   row : Rows \cup {Profile}, upload : 0..MaxUploads, cutoff : Int,
   seen : SUBSET Paths]

BarrierIsHeld ==
  \A a \in Actor :
    /\ call[a].pc \in Shared => a \in readers
    /\ call[a].pc \in Exclusive => writer = a

Content == [content : 1..MaxUploads, at : 0..MaxDay, whole : BOOLEAN]

\* An upload's number is its own, ...
NumbersAreOwn ==
  /\ \A q \in Files : q.suffix <= uploaded
  /\ \A a \in Callers : call[a].pc \in Uploading =>
       /\ call[a].upload \in 1..uploaded
       /\ \A b \in Callers \ {a} :
            call[b].pc \in Uploading => call[b].upload # call[a].upload

\* ... no file has it for a suffix before the upload takes a name, ...
StagesAreNew ==
  \A a \in Callers : call[a].pc = "stage" =>
    \A q \in Files : q.suffix # call[a].upload

\* ... and the file it copies to is its own.
CopiesAreOwn ==
  \A a \in Callers : call[a].pc = "copy" =>
    \E p \in Files : /\ call[a].paths = {p}
                     /\ stored_files[p].content = call[a].upload
                     /\ ~stored_files[p].whole

NamesAreOwn == NumbersAreOwn /\ StagesAreNew /\ CopiesAreOwn

WritersMayCount ==
  \A a \in Callers : call[a].pc = "write" => call[a].paths \subseteq Files \cup retracted

RemoversMayCount ==
  /\ \A a \in Callers :
       /\ call[a].pc = "delete" => \E p \in Paths : call[a].paths = {p}
       /\ call[a].pc = "remove" =>
            \A r \in liveRows : refs[r] \cap call[a].paths = {}
  /\ call[Collector].pc = "sweep" =>
       \A r \in liveRows : refs[r] \subseteq call[Collector].seen

UploadInv ==
  /\ UploadTypeOK
  /\ call \in [Actor -> Calls]
  /\ BarrierIsHeld
  /\ NamesAreOwn
  /\ WritersMayCount
  /\ RemoversMayCount
  /\ AttachmentRowsHaveFiles

-----------------------------------------------------------------------------
LEMMA NoCallIsCall == NoCall \in Calls /\ NoCall.pc = "idle"
BY UploadAssumption DEF NoCall, Calls

LEMMA ActorsAreNotFree == \A a \in Actor : a # Unheld
BY UploadAssumption DEF Actor, Unheld

\* What a call becomes, for one actor.
LEMMA CallChanged ==
  ASSUME NEW f \in [Actor -> Calls], NEW a \in Actor, NEW c \in Calls,
         NEW g, g = [f EXCEPT ![a] = c]
  PROVE  /\ g \in [Actor -> Calls] /\ g[a] = c
         /\ \A b \in Actor : b # a => g[b] = f[b]
OBVIOUS

LEMMA PathFields ==
  ASSUME NEW p \in Paths
  PROVE  /\ p.row \in Rows \cup {Profile} /\ p.name \in Names
         /\ p.suffix \in 0..MaxUploads
BY DEF Paths

LEMMA LessFiles ==
  ASSUME NEW f, NEW ps
  PROVE  /\ DOMAIN Less(f, ps) = DOMAIN f \ ps
         /\ \A q \in DOMAIN f \ ps : Less(f, ps)[q] = f[q]
BY DEF Less

LEMMA UploadInitHolds == UploadInit => UploadInv
<1> SUFFICES ASSUME UploadInit PROVE UploadInv
  OBVIOUS
<1>1. Files = {}
  BY DEF UploadInit, Files
<1>2. \A a \in Actor : call[a] = NoCall
  BY DEF UploadInit
<1>3. call \in [Actor -> Calls]
  BY NoCallIsCall DEF UploadInit
<1>4. UploadTypeOK
  BY <1>1, <1>2, NoCallIsCall, UploadAssumption DEF UploadInit, UploadTypeOK
<1>5. BarrierIsHeld /\ WritersMayCount /\ RemoversMayCount
  BY <1>2, NoCallIsCall DEF BarrierIsHeld, WritersMayCount, RemoversMayCount, Actor,
     Shared, Exclusive
<1>6. NamesAreOwn
  BY <1>1, <1>2, NoCallIsCall DEF NamesAreOwn, NumbersAreOwn, StagesAreNew, CopiesAreOwn, Actor, Uploading
<1>7. AttachmentRowsHaveFiles
  BY DEF UploadInit, AttachmentRowsHaveFiles
<1> QED
  BY <1>3, <1>4, <1>5, <1>6, <1>7 DEF UploadInv

-----------------------------------------------------------------------------
(* A call that ends, whoever it is, counts on nothing any more.            *)

LEMMA EndHolds ==
  ASSUME UploadInv, NEW a \in Actor,
         call' = [call EXCEPT ![a] = NoCall],
         \/ readers' = readers \ {a} /\ writer' = writer
         \/ call[a].pc \in Exclusive /\ writer' = Unheld /\ readers' = readers,
         UNCHANGED <<date, uploaded, stored_files, acked, retracted, refs, liveRows>>,
         due_gc' \in BOOLEAN, requests' = requests, breaks' \in 0..MaxBreaks
  PROVE  UploadInv'
<1> USE DEF UploadInv
<1>1. /\ call' \in [Actor -> Calls] /\ call'[a].pc = "idle"
      /\ \A b \in Actor : b # a => call'[b] = call[b]
  BY NoCallIsCall, CallChanged
<1>2. Files' = Files
  BY DEF Files
<1>3. UploadTypeOK'
  BY <1>1, <1>2 DEF UploadTypeOK
<1>4. BarrierIsHeld'
  BY <1>1, ActorsAreNotFree DEF BarrierIsHeld, UploadTypeOK, Shared, Exclusive
<1>5. NamesAreOwn'
  BY <1>1, <1>2 DEF NamesAreOwn, NumbersAreOwn, StagesAreNew, CopiesAreOwn, Uploading, Actor
<1>6. WritersMayCount' /\ RemoversMayCount' /\ AttachmentRowsHaveFiles'
  BY <1>1, <1>2 DEF WritersMayCount, RemoversMayCount, AttachmentRowsHaveFiles, Actor
<1> QED
  BY <1>1, <1>3, <1>4, <1>5, <1>6

LEMMA RefuseUploadHolds ==
  ASSUME UploadInv, NEW a \in Callers, RefuseUpload(a) PROVE UploadInv'
BY EndHolds DEF RefuseUpload, EndShared, Disk, Data, UploadLimits, UploadInv,
   UploadTypeOK, Actor

-----------------------------------------------------------------------------
(* Uploading.                                                              *)

LEMMA StartUploadHolds ==
  ASSUME UploadInv, NEW a \in Callers, NEW r \in Rows \cup {Profile}, NEW n \in Names,
         StartUpload(a, r, n)
  PROVE  UploadInv'
<1> USE DEF UploadInv
<1>1. /\ uploaded < MaxUploads /\ uploaded' = uploaded + 1 /\ call[a].pc = "idle"
      /\ writer = Unheld /\ readers' = readers \cup {a} /\ writer' = writer
      /\ requests < MaxRequests /\ requests' = requests + 1
      /\ UNCHANGED <<date, stored_files, acked, retracted, refs, liveRows, due_gc, breaks>>
  BY DEF StartUpload, AskUpload, Share, Data
<1>2. /\ uploaded \in Nat /\ uploaded + 1 \in 1..MaxUploads /\ uploaded + 1 \in 0..MaxUploads
      /\ requests + 1 \in 0..MaxRequests
  BY <1>1, UploadAssumption DEF UploadTypeOK
<1>3. PICK c \in Calls : /\ call' = [call EXCEPT ![a] = c]
                         /\ c.pc = "stage" /\ c.upload = uploaded + 1
  <2> DEFINE c == [NoCall EXCEPT !.pc = "stage", !.row = r, !.upload = uploaded + 1,
                     !.paths = {[row |-> r, name |-> n, suffix |-> 0]}]
  <2>1. [row |-> r, name |-> n, suffix |-> 0] \in Paths
    BY UploadAssumption DEF Paths
  <2>2. c \in Calls /\ c.pc = "stage" /\ c.upload = uploaded + 1
    BY <1>2, <2>1, NoCallIsCall DEF Calls, NoCall, Shared
  <2>3. call' = [call EXCEPT ![a] = c]
    BY DEF StartUpload
  <2> QED
    BY <2>2, <2>3
<1>4. a \in Actor
  BY DEF Actor
<1>5. /\ call' \in [Actor -> Calls] /\ call'[a] = c
      /\ \A b \in Actor : b # a => call'[b] = call[b]
  BY <1>3, <1>4, CallChanged
<1>6. Files' = Files
  BY <1>1 DEF Files
<1>7. UploadTypeOK'
  BY <1>1, <1>2, <1>3, <1>5, <1>6 DEF UploadTypeOK
<1>8. BarrierIsHeld'
  BY <1>1, <1>3, <1>5 DEF BarrierIsHeld, Shared, Exclusive
<1>9. NamesAreOwn'
  <2>1. \A q \in Files : q.suffix <= uploaded + 1 /\ q.suffix # uploaded + 1
    <3>1. \A q \in Files : q.suffix \in Nat /\ q.suffix <= uploaded
      BY PathFields, UploadAssumption DEF NamesAreOwn, NumbersAreOwn, StagesAreNew, CopiesAreOwn, UploadTypeOK
    <3> QED
      BY <1>2, <3>1
  <2>2. \A b \in Callers : call[b].pc \in Uploading =>
          call[b].upload \in 1..(uploaded + 1) /\ call[b].upload # uploaded + 1
    BY <1>2 DEF NamesAreOwn, NumbersAreOwn, StagesAreNew, CopiesAreOwn
  <2> QED
    BY <1>1, <1>2, <1>3, <1>5, <1>6, <2>1, <2>2 DEF NamesAreOwn, NumbersAreOwn, StagesAreNew, CopiesAreOwn, Uploading, Actor
<1>10. WritersMayCount' /\ RemoversMayCount' /\ AttachmentRowsHaveFiles'
  <2>1. a # Collector
    BY UploadAssumption
  <2> QED
    BY <1>1, <1>3, <1>5, <1>6, <2>1 DEF WritersMayCount, RemoversMayCount,
       AttachmentRowsHaveFiles, Actor
<1> QED
  BY <1>5, <1>7, <1>8, <1>9, <1>10

\* The name that is claimed is free.
LEMMA ClaimedIsFree ==
  ASSUME UploadInv, NEW a \in Callers, NEW p \in Paths, Claim(a, p)
  PROVE  p \notin Files
<1> USE DEF UploadInv
<1>1. /\ call[a].pc = "stage" /\ call[a].paths = {[p EXCEPT !.suffix = 0]}
      /\ p.suffix = (IF call[a].paths \subseteq Files THEN call[a].upload ELSE 0)
  BY DEF Claim
<1>2. CASE call[a].paths \subseteq Files
  BY <1>1, <1>2 DEF NamesAreOwn, NumbersAreOwn, StagesAreNew, CopiesAreOwn
<1>3. CASE ~(call[a].paths \subseteq Files)
  <2>1. p = [p EXCEPT !.suffix = 0]
    BY <1>1, <1>3 DEF Paths
  <2> QED
    BY <1>1, <1>3, <2>1
<1> QED
  BY <1>2, <1>3

LEMMA ClaimHolds ==
  ASSUME UploadInv, NEW a \in Callers, NEW p \in Paths, Claim(a, p)
  PROVE  UploadInv'
<1> USE DEF UploadInv
<1>1. /\ call[a].pc = "stage"
      /\ p.suffix \in {0, call[a].upload}
      /\ UNCHANGED <<date, uploaded, acked, retracted, refs, liveRows, readers, writer,
                     due_gc, requests, breaks>>
  BY DEF Claim, Data, UploadLimits
<1>2. a \in Actor /\ call[a] \in Calls /\ a # Collector
  BY UploadAssumption DEF Actor
<1>3. PICK c \in Calls : /\ call' = [call EXCEPT ![a] = c] /\ c.pc = "copy"
                         /\ c.paths = {p} /\ c.upload = call[a].upload
  <2> DEFINE c == [call[a] EXCEPT !.pc = "copy", !.paths = {p}]
  <2>1. c \in Calls /\ c.pc = "copy" /\ c.paths = {p} /\ c.upload = call[a].upload
    BY <1>2 DEF Calls, Shared
  <2>2. call' = [call EXCEPT ![a] = c]
    BY <1>2 DEF Claim
  <2> QED
    BY <2>1, <2>2
<1>4. /\ call' \in [Actor -> Calls] /\ call'[a] = c
      /\ \A b \in Actor : b # a => call'[b] = call[b]
  BY <1>2, <1>3, CallChanged
<1>5. p \notin Files
  BY ClaimedIsFree
<1>7. /\ call[a].upload \in 1..uploaded /\ uploaded \in 0..MaxUploads
      /\ call[a].upload \in 1..MaxUploads /\ date \in 0..MaxDay
  BY <1>1, UploadAssumption DEF NamesAreOwn, NumbersAreOwn, UploadTypeOK, Uploading
<1>12. PICK v \in Content : /\ v.content = call[a].upload /\ ~v.whole
                           /\ stored_files' = With(stored_files, p, v)
  <2>1. [content |-> call[a].upload, at |-> date, whole |-> FALSE] \in Content
    BY <1>7 DEF Content
  <2> QED
    BY <2>1 DEF Claim
<1>6. /\ Files' = Files \cup {p} /\ stored_files'[p] = v
      /\ \A q \in Files : stored_files'[q] = stored_files[q]
  BY <1>5, <1>12 DEF With, Files
<1>8. UploadTypeOK'
  <2>1. \A q \in Files' : stored_files'[q] \in
          [content : 1..MaxUploads, at : 0..MaxDay, whole : BOOLEAN]
    BY <1>6, <1>12 DEF UploadTypeOK, Content
  <2>2. \A b \in Actor :
          call'[b].pc \in {"idle", "stage", "copy", "attach", "write", "delete",
                           "remove", "due", "read", "sweep"}
    BY <1>3, <1>4 DEF UploadTypeOK
  <2>3. Files' \subseteq Paths
    BY <1>6 DEF UploadTypeOK
  <2> QED
    BY <1>1, <2>1, <2>2, <2>3 DEF UploadTypeOK
<1>9. BarrierIsHeld'
  BY <1>1, <1>3, <1>4 DEF BarrierIsHeld, Shared, Exclusive
<1>10. NamesAreOwn'
  <2>1. p.suffix <= uploaded
    BY <1>1, <1>7, UploadAssumption
  <2>2. \A b \in Callers : call[b].pc \in Uploading =>
          call[b].upload \in 1..uploaded /\ (b # a => call[b].upload # call[a].upload)
    BY <1>1 DEF NamesAreOwn, NumbersAreOwn, StagesAreNew, CopiesAreOwn, Uploading
  <2>3. \A b \in Callers : b # a /\ call[b].pc = "stage" => p.suffix # call[b].upload
    BY <1>1, <1>7, <2>2 DEF Uploading
  <2>4. \A b \in Callers : call'[b].upload = call[b].upload
          /\ (call'[b].pc \in Uploading <=> call[b].pc \in Uploading)
    BY <1>1, <1>3, <1>4 DEF Uploading, Actor
  <2>5. \A b \in Callers : call'[b].pc = "copy" =>
          \E q \in Files' : /\ call'[b].paths = {q}
                            /\ stored_files'[q].content = call'[b].upload
                            /\ ~stored_files'[q].whole
    <3>1. \A b \in Callers \ {a} : call'[b] = call[b]
      BY <1>4 DEF Actor
    <3> QED
      BY <1>3, <1>4, <1>6, <1>12, <3>1 DEF NamesAreOwn, CopiesAreOwn
  <2>6. \A b \in Callers : call'[b].pc = "stage" =>
          \A q \in Files' : q.suffix # call'[b].upload
    BY <1>3, <1>4, <1>6, <2>3, <2>4 DEF NamesAreOwn, StagesAreNew, Actor
  <2>7. NumbersAreOwn'
    BY <1>1, <1>6, <2>1, <2>2, <2>4 DEF NamesAreOwn, NumbersAreOwn
  <2>8. StagesAreNew' /\ CopiesAreOwn'
    BY <2>5, <2>6 DEF StagesAreNew, CopiesAreOwn
  <2> QED
    BY <2>7, <2>8 DEF NamesAreOwn
<1>11. WritersMayCount' /\ RemoversMayCount' /\ AttachmentRowsHaveFiles'
  BY <1>1, <1>2, <1>3, <1>4, <1>6 DEF WritersMayCount, RemoversMayCount,
     AttachmentRowsHaveFiles, Actor
<1> QED
  BY <1>4, <1>8, <1>9, <1>10, <1>11

\* The file a copy ends for is its own.
LEMMA CopyIsOwn ==
  ASSUME UploadInv, NEW a \in Callers, call[a].pc = "copy"
  PROVE  \E p \in Files :
           /\ call[a].paths = {p} /\ p \in Paths /\ ~stored_files[p].whole
           /\ \A b \in Callers : b # a /\ call[b].pc = "copy" => call[b].paths # {p}
<1> USE DEF UploadInv
<1>1. PICK p \in Files : /\ call[a].paths = {p} /\ ~stored_files[p].whole
                        /\ stored_files[p].content = call[a].upload
  BY DEF NamesAreOwn, CopiesAreOwn
<1>2. ASSUME NEW b \in Callers, b # a, call[b].pc = "copy", call[b].paths = {p}
      PROVE  FALSE
  <2>1. stored_files[p].content = call[b].upload
    BY <1>2 DEF NamesAreOwn, CopiesAreOwn
  <2>2. call[b].upload # call[a].upload
    BY <1>2 DEF NamesAreOwn, NumbersAreOwn, Uploading
  <2> QED
    BY <1>1, <2>1, <2>2
<1> QED
  BY <1>1, <1>2 DEF UploadTypeOK

LEMMA FinishUploadHolds ==
  ASSUME UploadInv, NEW a \in Callers, NEW p \in Paths, FinishUpload(a, p)
  PROVE  UploadInv'
<1> USE DEF UploadInv
<1>1. /\ call[a].pc = "copy" /\ call[a].paths = {p}
      /\ acked' = acked \cup {p} /\ readers' = readers \ {a}
      /\ call' = [call EXCEPT ![a] = NoCall]
      /\ UNCHANGED <<date, uploaded, retracted, refs, liveRows, writer, due_gc,
                     requests, breaks>>
  BY DEF FinishUpload, EndShared, Data, UploadLimits
<1>2. a \in Actor /\ a # Collector
  BY UploadAssumption DEF Actor
<1>3. /\ call' \in [Actor -> Calls] /\ call'[a].pc = "idle"
      /\ \A b \in Actor : b # a => call'[b] = call[b]
  BY <1>1, <1>2, NoCallIsCall, CallChanged
<1>4. /\ p \in Files
      /\ \A b \in Callers : b # a /\ call[b].pc = "copy" => call[b].paths # {p}
  BY <1>1, CopyIsOwn
<1>6. call[a].upload \in 1..MaxUploads /\ date \in 0..MaxDay
  BY <1>1, UploadAssumption DEF NamesAreOwn, NumbersAreOwn, UploadTypeOK, Uploading
<1>11. PICK v \in Content : stored_files' = With(stored_files, p, v)
  <2>1. [content |-> call[a].upload, at |-> date, whole |-> TRUE] \in Content
    BY <1>6 DEF Content
  <2> QED
    BY <2>1 DEF FinishUpload
<1>5. /\ Files' = Files /\ stored_files'[p] = v
      /\ \A q \in Files : q # p => stored_files'[q] = stored_files[q]
  BY <1>4, <1>11 DEF With, Files
<1>7. UploadTypeOK'
  <2>1. \A q \in Files' : stored_files'[q] \in
          [content : 1..MaxUploads, at : 0..MaxDay, whole : BOOLEAN]
    BY <1>5, <1>11 DEF UploadTypeOK, Content
  <2>2. \A b \in Actor :
          call'[b].pc \in {"idle", "stage", "copy", "attach", "write", "delete",
                           "remove", "due", "read", "sweep"}
    BY <1>3 DEF UploadTypeOK
  <2> QED
    BY <1>1, <1>5, <2>1, <2>2 DEF UploadTypeOK
<1>8. BarrierIsHeld'
  BY <1>1, <1>3 DEF BarrierIsHeld, Shared, Exclusive
<1>9. NamesAreOwn'
  <2>1. \A b \in Callers : call'[b].pc \in Uploading => b # a /\ call'[b] = call[b]
    BY <1>3 DEF Uploading, Actor
  <2>2. NumbersAreOwn' /\ StagesAreNew'
    BY <1>1, <1>5, <2>1 DEF NamesAreOwn, NumbersAreOwn, StagesAreNew, Uploading
  <2>3. CopiesAreOwn'
    <3> SUFFICES ASSUME NEW b \in Callers, call'[b].pc = "copy"
                 PROVE  \E q \in Files' : /\ call'[b].paths = {q}
                                         /\ stored_files'[q].content = call'[b].upload
                                         /\ ~stored_files'[q].whole
      BY DEF CopiesAreOwn
    <3>1. b # a /\ call'[b] = call[b]
      BY <2>1 DEF Uploading
    <3>2. PICK q \in Files : /\ call[b].paths = {q}
                            /\ stored_files[q].content = call[b].upload
                            /\ ~stored_files[q].whole
      BY <3>1 DEF NamesAreOwn, CopiesAreOwn
    <3>3. q # p
      BY <1>4, <3>1, <3>2
    <3> QED
      BY <1>5, <3>1, <3>2, <3>3
  <2> QED
    BY <2>2, <2>3 DEF NamesAreOwn
<1>10. WritersMayCount' /\ RemoversMayCount' /\ AttachmentRowsHaveFiles'
  BY <1>1, <1>2, <1>3, <1>5 DEF WritersMayCount, RemoversMayCount,
     AttachmentRowsHaveFiles, Actor
<1> QED
  BY <1>3, <1>7, <1>8, <1>9, <1>10

\* A copy that fails takes its own file with it.
LEMMA FailUploadHolds ==
  ASSUME UploadInv, NEW a \in Callers, FailUpload(a)
  PROVE  UploadInv'
<1> USE DEF UploadInv
<1>1. /\ call[a].pc = "copy"
      /\ retracted' = retracted \cup call[a].paths
      /\ readers' = readers \ {a} /\ call' = [call EXCEPT ![a] = NoCall]
      /\ breaks < MaxBreaks /\ breaks' = breaks + 1
      /\ UNCHANGED <<date, uploaded, acked, refs, liveRows, writer, due_gc, requests>>
  BY DEF FailUpload, EndShared, Data, Break
<1>2. a \in Actor /\ a # Collector
  BY UploadAssumption DEF Actor
<1>3. /\ call' \in [Actor -> Calls] /\ call'[a].pc = "idle"
      /\ \A b \in Actor : b # a => call'[b] = call[b]
  BY <1>1, <1>2, NoCallIsCall, CallChanged
<1>4. PICK p \in Files :
        /\ call[a].paths = {p} /\ p \in Paths
        /\ \A b \in Callers : b # a /\ call[b].pc = "copy" => call[b].paths # {p}
  BY <1>1, CopyIsOwn
<1>5. /\ Files' = Files \ {p}
      /\ \A q \in Files \ {p} : stored_files'[q] = stored_files[q]
  <2>1. stored_files' = Less(stored_files, {p})
    BY <1>4 DEF FailUpload
  <2> QED
    BY <2>1, LessFiles DEF Files
<1>6. UploadTypeOK'
  <2>1. \A q \in Files' : stored_files'[q] \in
          [content : 1..MaxUploads, at : 0..MaxDay, whole : BOOLEAN]
    BY <1>5 DEF UploadTypeOK
  <2>2. \A b \in Actor :
          call'[b].pc \in {"idle", "stage", "copy", "attach", "write", "delete",
                           "remove", "due", "read", "sweep"}
    BY <1>3 DEF UploadTypeOK
  <2>3. breaks' \in 0..MaxBreaks /\ Files' \subseteq Paths /\ retracted' \subseteq Paths
    BY <1>1, <1>4, <1>5, UploadAssumption DEF UploadTypeOK
  <2> QED
    BY <1>1, <2>1, <2>2, <2>3 DEF UploadTypeOK
<1>7. BarrierIsHeld'
  BY <1>1, <1>3 DEF BarrierIsHeld, Shared, Exclusive
<1>8. NamesAreOwn'
  <2>1. \A b \in Callers : call'[b].pc \in Uploading => b # a /\ call'[b] = call[b]
    BY <1>3 DEF Uploading, Actor
  <2>2. NumbersAreOwn' /\ StagesAreNew'
    BY <1>1, <1>5, <2>1 DEF NamesAreOwn, NumbersAreOwn, StagesAreNew, Uploading
  <2>3. CopiesAreOwn'
    <3> SUFFICES ASSUME NEW b \in Callers, call'[b].pc = "copy"
                 PROVE  \E q \in Files' : /\ call'[b].paths = {q}
                                         /\ stored_files'[q].content = call'[b].upload
                                         /\ ~stored_files'[q].whole
      BY DEF CopiesAreOwn
    <3>1. b # a /\ call'[b] = call[b]
      BY <2>1 DEF Uploading
    <3>2. PICK q \in Files : /\ call[b].paths = {q}
                            /\ stored_files[q].content = call[b].upload
                            /\ ~stored_files[q].whole
      BY <3>1 DEF NamesAreOwn, CopiesAreOwn
    <3>3. q # p
      BY <1>4, <3>1, <3>2
    <3> QED
      BY <1>5, <3>1, <3>2, <3>3
  <2> QED
    BY <2>2, <2>3 DEF NamesAreOwn
<1>9. WritersMayCount' /\ RemoversMayCount' /\ AttachmentRowsHaveFiles'
  BY <1>1, <1>2, <1>3, <1>4, <1>5 DEF WritersMayCount, RemoversMayCount,
     AttachmentRowsHaveFiles, Actor
<1> QED
  BY <1>3, <1>6, <1>7, <1>8, <1>9

-----------------------------------------------------------------------------
(* Steps that only move one call on, under the barrier it holds.           *)

LEMMA MovesHold ==
  ASSUME UploadInv, NEW a \in Actor, NEW c \in Calls, call' = [call EXCEPT ![a] = c],
         c.pc \notin Uploading,
         c.pc \in Shared => a \in readers',
         c.pc \in Exclusive => writer' = a,
         readers \subseteq readers', readers' \subseteq Callers,
         writer' = writer \/ (writer = Unheld /\ writer' = a /\ readers = {}),
         writer' # Unheld => readers' = {},
         a \in Callers /\ c.pc = "write" => c.paths \subseteq Files \cup retracted,
         a \in Callers /\ c.pc = "delete" => \E p \in Paths : c.paths = {p},
         a \in Callers /\ c.pc = "remove" =>
           \A r \in liveRows : refs[r] \cap c.paths = {},
         a = Collector /\ c.pc = "sweep" => \A r \in liveRows : refs[r] \subseteq c.seen,
         UNCHANGED <<date, uploaded, stored_files, acked, retracted, refs, liveRows>>,
         due_gc' \in BOOLEAN, requests' \in 0..MaxRequests, breaks' = breaks
  PROVE  UploadInv'
<1> USE DEF UploadInv
<1>1. /\ call' \in [Actor -> Calls] /\ call'[a] = c
      /\ \A b \in Actor : b # a => call'[b] = call[b]
  BY CallChanged
<1>2. Files' = Files
  BY DEF Files
<1>3. UploadTypeOK'
  <2>1. \A b \in Actor :
          call'[b].pc \in {"idle", "stage", "copy", "attach", "write", "delete",
                           "remove", "due", "read", "sweep"}
    BY <1>1 DEF Calls, Shared, Exclusive
  <2>2. writer' \in Actor \cup {Unheld}
    BY DEF UploadTypeOK
  <2> QED
    BY <1>2, <2>1, <2>2 DEF UploadTypeOK
<1>4. BarrierIsHeld'
  <2>1. \A b \in Actor : call[b].pc \in Exclusive => writer = b /\ b # Unheld
    BY ActorsAreNotFree DEF BarrierIsHeld
  <2> QED
    BY <1>1, <2>1 DEF BarrierIsHeld
<1>5. NamesAreOwn'
  <2>1. \A b \in Callers : call'[b].pc \in Uploading => b # a /\ call'[b] = call[b]
    BY <1>1 DEF Actor
  <2> QED
    BY <1>2, <2>1 DEF NamesAreOwn, NumbersAreOwn, StagesAreNew, CopiesAreOwn, Uploading
<1>6. WritersMayCount'
  BY <1>1, <1>2 DEF WritersMayCount, Actor
<1>7. RemoversMayCount'
  BY <1>1 DEF RemoversMayCount, Actor
<1>8. AttachmentRowsHaveFiles'
  BY <1>2 DEF AttachmentRowsHaveFiles
<1> QED
  BY <1>1, <1>3, <1>4, <1>5, <1>6, <1>7, <1>8

LEMMA StartAttachHolds ==
  ASSUME UploadInv, NEW a \in Callers, NEW r \in Rows, NEW ps \in SUBSET PathsGiven(r),
         StartAttach(a, r, ps)
  PROVE  UploadInv'
<1> USE DEF UploadInv
<1>1. /\ writer = Unheld /\ writer' = writer /\ readers' = readers \cup {a}
      /\ requests < MaxRequests /\ requests' = requests + 1
      /\ UNCHANGED <<date, uploaded, stored_files, acked, retracted, refs, liveRows,
                     due_gc, breaks>>
  BY DEF StartAttach, AskUpload, Share, Disk, Data
<1>2. requests' \in 0..MaxRequests
  BY <1>1, UploadAssumption DEF UploadTypeOK
<1>3. PICK c \in Calls : call' = [call EXCEPT ![a] = c] /\ c.pc = "attach"
  <2> DEFINE c == [NoCall EXCEPT !.pc = "attach", !.row = r, !.paths = ps]
  <2>1. ps \subseteq Paths
    BY DEF PathsGiven, UploadTypeOK
  <2>2. c \in Calls /\ c.pc = "attach"
    BY <2>1, NoCallIsCall DEF Calls, NoCall, Shared
  <2>3. call' = [call EXCEPT ![a] = c]
    BY DEF StartAttach
  <2> QED
    BY <2>2, <2>3
<1> QED
  BY <1>1, <1>2, <1>3, MovesHold DEF Actor, UploadTypeOK, Uploading, Exclusive

\* The barrier is kept from the check to the write.
LEMMA ValidatePathsHolds ==
  ASSUME UploadInv, NEW a \in Callers, ValidatePaths(a)
  PROVE  UploadInv'
<1> USE DEF UploadInv
<1>1. /\ call[a].pc = "attach" /\ a \in Actor /\ a # Collector
      /\ UNCHANGED <<date, uploaded, stored_files, acked, retracted, refs, liveRows,
                     due_gc, requests, breaks>>
  BY UploadAssumption DEF ValidatePaths, Disk, Data, UploadLimits, Actor
<1>2. CASE ~(call[a].paths \subseteq Files)
  BY <1>1, <1>2, EndHolds DEF ValidatePaths, EndShared, UploadTypeOK
<1>3. CASE call[a].paths \subseteq Files
  <2> DEFINE c == [call[a] EXCEPT !.pc = "write"]
  <2>1. c \in Calls /\ c.pc = "write" /\ c.paths = call[a].paths
    BY <1>1 DEF Calls, Shared
  <2>2. call' = [call EXCEPT ![a] = c] /\ UNCHANGED <<readers, writer>>
    BY <1>1, <1>3 DEF ValidatePaths
  <2>3. a \in readers
    BY <1>1 DEF BarrierIsHeld, Shared
  <2> HIDE DEF c
  <2> QED
    BY <1>1, <1>3, <2>1, <2>2, <2>3, MovesHold DEF UploadTypeOK, Uploading, Exclusive
<1> QED
  BY <1>2, <1>3

LEMMA StartDeleteHolds ==
  ASSUME UploadInv, NEW a \in Callers, NEW p \in acked, StartDelete(a, p)
  PROVE  UploadInv'
<1> USE DEF UploadInv
<1>1. /\ writer = Unheld /\ writer' = a /\ readers = {} /\ readers' = readers
      /\ requests < MaxRequests /\ requests' = requests + 1
      /\ UNCHANGED <<date, uploaded, stored_files, acked, retracted, refs, liveRows,
                     due_gc, breaks>>
  BY DEF StartDelete, AskUpload, Disk, Data
<1>2. requests' \in 0..MaxRequests /\ p \in Paths /\ a \in Actor /\ a # Collector
  BY <1>1, UploadAssumption DEF UploadTypeOK, Actor
<1>3. PICK c \in Calls : call' = [call EXCEPT ![a] = c] /\ c.pc = "delete" /\ c.paths = {p}
  <2> DEFINE c == [NoCall EXCEPT !.pc = "delete", !.paths = {p}]
  <2>1. c \in Calls /\ c.pc = "delete" /\ c.paths = {p}
    BY <1>2, NoCallIsCall DEF Calls, NoCall, Exclusive
  <2>2. call' = [call EXCEPT ![a] = c]
    BY DEF StartDelete
  <2> QED
    BY <2>1, <2>2
<1> QED
  BY <1>1, <1>2, <1>3, MovesHold DEF UploadTypeOK, Uploading, Shared

\* No row comes to name a file between the check and its removal: that takes
\* the shared barrier.
LEMMA CheckUnreferencedHolds ==
  ASSUME UploadInv, NEW a \in Callers, CheckUnreferenced(a)
  PROVE  UploadInv'
<1> USE DEF UploadInv
<1>1. /\ call[a].pc = "delete" /\ a \in Actor /\ a # Collector /\ writer = a
      /\ UNCHANGED <<date, uploaded, stored_files, acked, retracted, refs, liveRows,
                     due_gc, requests, breaks>>
  BY UploadAssumption DEF CheckUnreferenced, Disk, Data, UploadLimits, Actor,
     BarrierIsHeld, Exclusive
<1>2. CASE call[a].paths \subseteq Referenced
  BY <1>1, <1>2, EndHolds DEF CheckUnreferenced, EndExclusive, UploadTypeOK, Exclusive
<1>3. CASE ~(call[a].paths \subseteq Referenced)
  <2> DEFINE c == [call[a] EXCEPT !.pc = "remove"]
  <2>1. c \in Calls /\ c.pc = "remove" /\ c.paths = call[a].paths
    BY <1>1 DEF Calls, Exclusive
  <2>2. call' = [call EXCEPT ![a] = c] /\ UNCHANGED <<readers, writer>>
    BY <1>1, <1>3 DEF CheckUnreferenced
  <2>3. \A r \in liveRows : refs[r] \cap c.paths = {}
    <3>1. PICK p \in Paths : call[a].paths = {p}
      BY <1>1 DEF RemoversMayCount
    <3>2. p \notin Referenced
      BY <1>3, <3>1
    <3> QED
      BY <2>1, <3>1, <3>2 DEF Referenced
  <2> HIDE DEF c
  <2> QED
    BY <1>1, <2>1, <2>2, <2>3, MovesHold DEF UploadTypeOK, Uploading, Shared
<1> QED
  BY <1>2, <1>3

LEMMA CollectorMovesHold ==
  ASSUME UploadInv, StartCollection \/ LockForCollection \/ ReadReferences
  PROVE  UploadInv'
<1> USE DEF UploadInv
<1>1. /\ Collector \in Actor /\ Collector \notin Callers /\ call[Collector] \in Calls
      /\ NoCall \in Calls
  BY UploadAssumption, NoCallIsCall DEF Actor
<1>2. CASE StartCollection
  <2> DEFINE c == [NoCall EXCEPT !.pc = "due", !.cutoff = date - Grace]
  <2>1. date - Grace \in Int
    BY UploadAssumption DEF UploadTypeOK
  <2>2. c \in Calls /\ c.pc = "due"
    BY <1>1, <2>1 DEF Calls, NoCall
  <2>3. /\ call' = [call EXCEPT ![Collector] = c] /\ due_gc' = FALSE
        /\ UNCHANGED <<date, uploaded, stored_files, acked, retracted, refs, liveRows,
                       readers, writer, requests, breaks>>
    BY <1>2 DEF StartCollection, Disk, Data, UploadLimits
  <2> HIDE DEF c
  <2> QED
    BY <1>1, <2>2, <2>3, MovesHold DEF UploadTypeOK, Uploading, Shared, Exclusive
<1>3. CASE LockForCollection
  <2> DEFINE c == [call[Collector] EXCEPT !.pc = "read"]
  <2>1. c \in Calls /\ c.pc = "read"
    BY <1>1 DEF Calls, Exclusive
  <2>2. /\ call' = [call EXCEPT ![Collector] = c]
        /\ writer = Unheld /\ readers = {} /\ writer' = Collector /\ readers' = readers
        /\ UNCHANGED <<date, uploaded, stored_files, acked, retracted, refs, liveRows,
                       due_gc, requests, breaks>>
    BY <1>1, <1>3 DEF LockForCollection, Disk, Data, UploadLimits
  <2> HIDE DEF c
  <2> QED
    BY <1>1, <2>1, <2>2, MovesHold DEF UploadTypeOK, Uploading, Shared, Exclusive
<1>4. CASE ReadReferences
  <2> DEFINE c == [call[Collector] EXCEPT !.pc = "sweep", !.seen = Referenced]
  <2>1. Referenced \subseteq Paths /\ \A r \in liveRows : refs[r] \subseteq Referenced
    BY DEF Referenced, UploadTypeOK
  <2>2. c \in Calls /\ c.pc = "sweep" /\ c.seen = Referenced
    BY <1>1, <2>1 DEF Calls, Exclusive
  <2>3. /\ call' = [call EXCEPT ![Collector] = c] /\ call[Collector].pc = "read"
        /\ UNCHANGED <<date, uploaded, stored_files, acked, retracted, refs, liveRows,
                       readers, writer, due_gc, requests, breaks>>
    BY <1>1, <1>4 DEF ReadReferences, Disk, Data, UploadLimits
  <2>4. writer = Collector
    BY <1>1, <2>3 DEF BarrierIsHeld, Exclusive
  <2> HIDE DEF c
  <2> QED
    BY <1>1, <2>1, <2>2, <2>3, <2>4, MovesHold DEF UploadTypeOK, Uploading, Shared,
       Exclusive
<1> QED
  BY <1>2, <1>3, <1>4

-----------------------------------------------------------------------------
(* Removing files: nobody shares the barrier.                              *)

LEMMA RemovingHolds ==
  ASSUME UploadInv, NEW a \in Actor, call[a].pc \in Exclusive, NEW gone,
         stored_files' = Less(stored_files, gone),
         \A r \in liveRows : refs[r] \cap gone = {},
         \/ call' = [call EXCEPT ![a] = NoCall] /\ writer' = Unheld
         \/ UNCHANGED <<call, writer>>,
         UNCHANGED <<date, uploaded, acked, retracted, refs, liveRows, readers, due_gc,
                     requests, breaks>>
  PROVE  UploadInv'
<1> USE DEF UploadInv
<1>1. /\ Files' = Files \ gone
      /\ \A q \in Files' : stored_files'[q] = stored_files[q]
  BY DEF Less, Files
<1>2. writer = a /\ readers = {} /\ a # Unheld
  BY ActorsAreNotFree DEF BarrierIsHeld, UploadTypeOK
<1>3. \A b \in Actor : call[b].pc \notin Shared
  BY <1>2 DEF BarrierIsHeld
<1>4. /\ call' \in [Actor -> Calls]
      /\ \A b \in Actor : call'[b] \in {call[b], NoCall}
      /\ writer' = Unheld => call'[a] = NoCall
  BY <1>2, NoCallIsCall
<1>5. UploadTypeOK'
  <2>1. \A q \in Files' : stored_files'[q] \in
          [content : 1..MaxUploads, at : 0..MaxDay, whole : BOOLEAN]
    BY <1>1 DEF UploadTypeOK
  <2>2. \A b \in Actor :
          call'[b].pc \in {"idle", "stage", "copy", "attach", "write", "delete",
                           "remove", "due", "read", "sweep"}
    BY <1>4, NoCallIsCall DEF UploadTypeOK
  <2>3. writer' \in Actor \cup {Unheld}
    BY DEF UploadTypeOK
  <2> QED
    BY <1>1, <1>2, <2>1, <2>2, <2>3 DEF UploadTypeOK
<1>6. BarrierIsHeld'
  <2>1. \A b \in Actor \ {a} : call[b].pc \notin Exclusive
    BY <1>2 DEF BarrierIsHeld
  <2>2. \A b \in Actor : call'[b].pc \notin Shared
    BY <1>3, <1>4, NoCallIsCall DEF Shared
  <2>3. \A b \in Actor : call'[b].pc \in Exclusive => call'[b] = call[b] /\ b = a
    BY <1>4, <2>1, NoCallIsCall DEF Exclusive
  <2>4. call'[a].pc \in Exclusive => writer' = a
    BY <1>2, <1>4, NoCallIsCall DEF Exclusive
  <2> QED
    BY <2>2, <2>3, <2>4 DEF BarrierIsHeld
<1>7. NamesAreOwn'
  <2>1. \A b \in Callers : call'[b].pc \notin Uploading /\ call'[b].pc # "write"
    BY <1>3, <1>4, NoCallIsCall DEF Shared, Uploading, Actor
  <2> QED
    BY <1>1, <2>1 DEF NamesAreOwn, NumbersAreOwn, StagesAreNew, CopiesAreOwn, Uploading
<1>8. WritersMayCount'
  BY <1>3, <1>4, NoCallIsCall DEF WritersMayCount, Shared, Actor
<1>9. RemoversMayCount'
  BY <1>4, NoCallIsCall DEF RemoversMayCount, Actor
<1>10. AttachmentRowsHaveFiles'
  BY <1>1 DEF AttachmentRowsHaveFiles
<1> QED
  BY <1>4, <1>5, <1>6, <1>7, <1>8, <1>9, <1>10

LEMMA RemoveFileHolds ==
  ASSUME UploadInv, NEW a \in Callers, RemoveFile(a)
  PROVE  UploadInv'
<1>1. \A r \in liveRows : refs[r] \cap call[a].paths = {}
  BY DEF RemoveFile, UploadInv, RemoversMayCount
<1> QED
  BY <1>1, RemovingHolds DEF RemoveFile, EndExclusive, Data, UploadLimits, Exclusive, Actor

LEMMA SweepHolds ==
  ASSUME UploadInv, NEW p, Sweep(p)
  PROVE  UploadInv'
<1>1. \A r \in liveRows : refs[r] \cap {p} = {}
  BY DEF Sweep, Orphans, UploadInv, RemoversMayCount
<1> QED
  BY <1>1, RemovingHolds DEF Sweep, Data, UploadLimits, Exclusive, Actor

LEMMA EndCollectionHolds == UploadInv /\ EndCollection => UploadInv'
<1> SUFFICES ASSUME UploadInv, EndCollection PROVE UploadInv'
  OBVIOUS
<1>1. breaks' \in 0..MaxBreaks /\ due_gc' \in BOOLEAN
  BY UploadAssumption DEF EndCollection, Break, UploadInv, UploadTypeOK
<1> QED
  BY <1>1, EndHolds DEF EndCollection, EndExclusive, Disk, Data, Exclusive, Actor

-----------------------------------------------------------------------------
(* Changes of the rows.                                                    *)

\* Whoever writes references shares the barrier, so nobody removes files.
LEMMA WriteReferencesHolds ==
  ASSUME UploadInv, NEW a \in Callers, WriteReferences(a)
  PROVE  UploadInv'
<1> USE DEF UploadInv
<1>1. /\ call[a].pc = "write" /\ readers' = readers \ {a} /\ writer' = writer
      /\ call' = [call EXCEPT ![a] = NoCall]
      /\ refs' = IF call[a].row \in liveRows
                 THEN [refs EXCEPT ![call[a].row] = call[a].paths] ELSE refs
      /\ UNCHANGED <<date, uploaded, stored_files, acked, retracted, liveRows, due_gc,
                     requests, breaks>>
  BY DEF WriteReferences, EndShared, Disk, UploadLimits
<1>2. /\ a \in Actor /\ a # Collector /\ call[a] \in Calls /\ a \in readers
      /\ Collector \in Actor
  BY <1>1, UploadAssumption DEF Actor, BarrierIsHeld, Shared
<1>3. /\ call' \in [Actor -> Calls] /\ call'[a].pc = "idle"
      /\ \A b \in Actor : b # a => call'[b] = call[b]
  BY <1>1, <1>2, NoCallIsCall, CallChanged
<1>4. Files' = Files
  BY <1>1 DEF Files
<1>5. refs' \in [Rows \cup {Profile} -> SUBSET Paths]
  BY <1>1, <1>2 DEF Calls, UploadTypeOK
<1>6. UploadTypeOK'
  BY <1>1, <1>3, <1>4, <1>5 DEF UploadTypeOK
<1>7. BarrierIsHeld'
  BY <1>1, <1>3 DEF BarrierIsHeld, Shared, Exclusive
<1>8. NamesAreOwn'
  <2>1. \A b \in Callers : call'[b].pc \in Uploading => call'[b] = call[b]
    BY <1>3 DEF Uploading, Actor
  <2> QED
    BY <1>1, <1>4, <2>1 DEF NamesAreOwn, NumbersAreOwn, StagesAreNew, CopiesAreOwn,
       Uploading
<1>9. WritersMayCount'
  BY <1>1, <1>3, <1>4 DEF WritersMayCount, Actor
<1>10. RemoversMayCount'
  <2>1. \A b \in Actor : call[b].pc \notin Exclusive
    BY <1>2, ActorsAreNotFree DEF BarrierIsHeld, UploadTypeOK
  <2> QED
    BY <1>2, <1>3, <2>1 DEF RemoversMayCount, Exclusive, Actor
<1>11. AttachmentRowsHaveFiles'
  <2>1. call[a].paths \subseteq Files \cup retracted
    BY <1>1 DEF WritersMayCount
  <2>2. \A r \in liveRows : refs'[r] \in {refs[r], call[a].paths}
    BY <1>1 DEF UploadTypeOK
  <2> QED
    BY <1>1, <1>4, <2>1, <2>2 DEF AttachmentRowsHaveFiles
<1> QED
  BY <1>3, <1>6, <1>7, <1>8, <1>9, <1>10, <1>11

\* Choosing an avatar and deleting a row take no barrier and name nothing.
LEMMA RowsChangeHolds ==
  ASSUME UploadInv, refs' \in [Rows \cup {Profile} -> SUBSET Paths],
         liveRows' \subseteq liveRows,
         \A r \in Rows : refs'[r] = refs[r],
         UNCHANGED <<date, uploaded, stored_files, acked, retracted, readers, writer,
                     call, due_gc, breaks>>,
         requests' \in 0..MaxRequests
  PROVE  UploadInv'
<1> USE DEF UploadInv
<1>1. Files' = Files
  BY DEF Files
<1>2. liveRows \subseteq Rows
  BY DEF UploadTypeOK
<1>3. UploadTypeOK'
  BY <1>1 DEF UploadTypeOK
<1>4. BarrierIsHeld' /\ NamesAreOwn' /\ WritersMayCount'
  BY <1>1 DEF BarrierIsHeld, NamesAreOwn, NumbersAreOwn, StagesAreNew, CopiesAreOwn,
     WritersMayCount
<1>5. RemoversMayCount' /\ AttachmentRowsHaveFiles'
  BY <1>1, <1>2 DEF RemoversMayCount, AttachmentRowsHaveFiles
<1> QED
  BY <1>3, <1>4, <1>5

LEMMA ChooseAvatarHolds ==
  ASSUME UploadInv, NEW ps \in {{}} \cup {{p} : p \in PathsGiven(Profile)},
         ChooseAvatar(ps)
  PROVE  UploadInv'
<1>1. ps \subseteq Paths
  BY DEF PathsGiven, UploadInv, UploadTypeOK
<1>2. /\ refs' \in [Rows \cup {Profile} -> SUBSET Paths]
      /\ \A r \in Rows : refs'[r] = refs[r]
  BY <1>1, UploadAssumption DEF ChooseAvatar, UploadInv, UploadTypeOK
<1>3. requests' \in 0..MaxRequests
  BY UploadAssumption DEF ChooseAvatar, UploadInv, UploadTypeOK
<1> QED
  BY <1>2, <1>3, RowsChangeHolds DEF ChooseAvatar, Disk

LEMMA DeleteRowHolds ==
  ASSUME UploadInv, NEW r \in Rows, DeleteRow(r)
  PROVE  UploadInv'
<1>1. requests' \in 0..MaxRequests /\ refs' \in [Rows \cup {Profile} -> SUBSET Paths]
  BY UploadAssumption DEF DeleteRow, UploadInv, UploadTypeOK
<1> QED
  BY <1>1, RowsChangeHolds DEF DeleteRow, Disk

-----------------------------------------------------------------------------
LEMMA NextDayHolds == UploadInv /\ NextDay => UploadInv'
<1> SUFFICES ASSUME UploadInv, NextDay PROVE UploadInv'
  OBVIOUS
<1> USE DEF UploadInv
<1>1. /\ date' \in 0..MaxDay /\ due_gc' = TRUE
      /\ UNCHANGED <<uploaded, stored_files, acked, retracted, refs, liveRows, readers,
                     writer, call, requests, breaks>>
  BY UploadAssumption DEF NextDay, Data, UploadLimits, UploadTypeOK
<1>2. Files' = Files
  BY <1>1 DEF Files
<1>3. UploadTypeOK' /\ BarrierIsHeld'
  BY <1>1, <1>2 DEF UploadTypeOK, BarrierIsHeld
<1>4. NamesAreOwn' /\ WritersMayCount' /\ RemoversMayCount' /\ AttachmentRowsHaveFiles'
  BY <1>1, <1>2 DEF NamesAreOwn, NumbersAreOwn, StagesAreNew, CopiesAreOwn,
     WritersMayCount, RemoversMayCount, AttachmentRowsHaveFiles
<1> QED
  BY <1>1, <1>3, <1>4

LEMMA RebootHolds == UploadInv /\ Reboot => UploadInv'
<1> SUFFICES ASSUME UploadInv, Reboot PROVE UploadInv'
  OBVIOUS
<1> USE DEF UploadInv
<1>1. /\ breaks' \in 0..MaxBreaks /\ due_gc' = TRUE /\ readers' = {} /\ writer' = Unheld
      /\ call' = [a \in Actor |-> NoCall]
      /\ UNCHANGED <<date, uploaded, stored_files, acked, retracted, refs, liveRows,
                     requests>>
  BY UploadAssumption DEF Reboot, Break, Disk, Data, UploadTypeOK
<1>2. Files' = Files /\ \A a \in Actor : call'[a].pc = "idle"
  BY <1>1, NoCallIsCall DEF Files
<1>3. UploadTypeOK' /\ call' \in [Actor -> Calls]
  BY <1>1, <1>2, NoCallIsCall DEF UploadTypeOK
<1>4. BarrierIsHeld' /\ WritersMayCount' /\ RemoversMayCount'
  BY <1>2 DEF BarrierIsHeld, WritersMayCount, RemoversMayCount, Shared, Exclusive, Actor
<1>5. NamesAreOwn' /\ AttachmentRowsHaveFiles'
  BY <1>1, <1>2 DEF NamesAreOwn, NumbersAreOwn, StagesAreNew, CopiesAreOwn, Uploading,
     AttachmentRowsHaveFiles, Actor
<1> QED
  BY <1>3, <1>4, <1>5

LEMMA UploadStepHolds == UploadInv /\ [UploadNext]_uploadVars => UploadInv'
<1> SUFFICES ASSUME UploadInv, [UploadNext]_uploadVars PROVE UploadInv'
  OBVIOUS
<1>1. CASE UNCHANGED uploadVars
  <2>1. Files' = Files
    BY <1>1 DEF uploadVars, Files
  <2> QED
    BY <1>1, <2>1 DEF uploadVars, UploadInv, UploadTypeOK, BarrierIsHeld, NamesAreOwn,
       NumbersAreOwn, StagesAreNew, CopiesAreOwn, WritersMayCount, RemoversMayCount,
       AttachmentRowsHaveFiles
<1>2. CASE \E a \in Callers : NewCall(a)
  BY <1>2, StartUploadHolds, StartAttachHolds, StartDeleteHolds DEF NewCall
<1>3. CASE \E a \in Callers : CallStep(a)
  BY <1>3, ClaimHolds, FinishUploadHolds, RefuseUploadHolds, FailUploadHolds,
     ValidatePathsHolds, WriteReferencesHolds, CheckUnreferencedHolds, RemoveFileHolds
     DEF CallStep
<1>4. CASE CollectorStep
  BY <1>4, CollectorMovesHold, EndCollectionHolds, SweepHolds DEF CollectorStep
<1>5. CASE \/ \E ps \in {{}} \cup {{p} : p \in PathsGiven(Profile)} : ChooseAvatar(ps)
           \/ \E r \in Rows : DeleteRow(r)
  BY <1>5, ChooseAvatarHolds, DeleteRowHolds
<1>6. CASE NextDay \/ Reboot
  BY <1>6, NextDayHolds, RebootHolds
<1> QED
  BY <1>1, <1>2, <1>3, <1>4, <1>5, <1>6 DEF UploadNext

LEMMA InvariantHolds == UploadSpec => []UploadInv
BY UploadInitHolds, UploadStepHolds, PTL DEF UploadSpec

\* No deletion and no collection takes a file that a live row comes to name.
THEOREM RowsKeepTheirFiles == UploadSpec => []AttachmentRowsHaveFiles
<1>1. UploadInv => AttachmentRowsHaveFiles
  BY DEF UploadInv
<1> QED
  BY <1>1, InvariantHolds, PTL

\* Of any number of uploads of one name, none overwrites another's file or
\* takes it away when it fails.
THEOREM FilesAreNeverOverwritten == UploadSpec => CompleteFilesStay
<1> DEFINE Stays(p) ==
      stored_files[p].whole =>
        \/ writer # Unheld /\ p \notin Files'
        \/ p \in Files' /\ stored_files'[p] = stored_files[p]
<1>1. ASSUME UploadInv, UploadNext, NEW p \in Files PROVE Stays(p)
  <2> USE <1>1
  <2>1. ASSUME NEW a \in Callers, NEW q \in Paths, Claim(a, q) PROVE Stays(p)
    BY <2>1, ClaimedIsFree DEF Claim, With, Files
  <2>2. ASSUME NEW a \in Callers, NEW q \in Paths, FinishUpload(a, q) PROVE Stays(p)
    <3>1. ~stored_files[q].whole
      BY <2>2, CopyIsOwn DEF FinishUpload
    <3> QED
      BY <2>2, <3>1 DEF FinishUpload, With, Files
  <2>3. ASSUME NEW a \in Callers, FailUpload(a) PROVE Stays(p)
    <3>1. PICK q \in Files : call[a].paths = {q} /\ ~stored_files[q].whole
      BY <2>3, CopyIsOwn DEF FailUpload
    <3> QED
      BY <2>3, <3>1 DEF FailUpload, Less, Files
  <2>4. ASSUME NEW a \in Callers, RemoveFile(a) PROVE Stays(p)
    <3>1. writer # Unheld
      BY <2>4, ActorsAreNotFree DEF RemoveFile, UploadInv, BarrierIsHeld, Exclusive, Actor
    <3> QED
      BY <2>4, <3>1 DEF RemoveFile, Less, Files
  <2>5. ASSUME NEW q \in Orphans, Sweep(q) PROVE Stays(p)
    <3>1. writer # Unheld
      BY <2>5, ActorsAreNotFree DEF Sweep, UploadInv, BarrierIsHeld, Exclusive, Actor
    <3> QED
      BY <2>5, <3>1 DEF Sweep, Less, Files
  <2>6. CASE UNCHANGED stored_files
    BY <2>6 DEF Files
  <2> QED
    BY <2>1, <2>2, <2>3, <2>4, <2>5, <2>6 DEF UploadNext, NewCall, CallStep,
       CollectorStep, StartUpload, StartAttach, StartDelete, RefuseUpload, ValidatePaths,
       WriteReferences, CheckUnreferenced, StartCollection, LockForCollection,
       ReadReferences, EndCollection, NextDay, Reboot, ChooseAvatar, DeleteRow, Disk
<1>2. UploadInv /\ [UploadNext]_uploadVars =>
        [\A p \in Files : stored_files[p].whole =>
           \/ writer # Unheld /\ p \notin Files'
           \/ p \in Files' /\ stored_files'[p] = stored_files[p]]_uploadVars
  BY <1>1
<1> QED
  BY <1>2, InvariantHolds, PTL DEF UploadSpec, CompleteFilesStay

-----------------------------------------------------------------------------
(***************************************************************************)
(* Rate limiters.  A lock that was announced is in the map until it ends;  *)
(* the failures of a key and the logins that passed its check make up no   *)
(* more than the limit and the logins there are; and what is remembered of *)
(* an address is no less than what it was allowed within the window.       *)
(***************************************************************************)
TimesList == [Minutes -> Nat]
LoginAttempt == [times : TimesList, until : Int, seen : Minutes]
LoginCall == [pc : {"idle", "account", "judge"},
              ip : Addresses \cup {NoLogin.ip},
              account : Accounts \cup {NoLogin.account}]

EntriesTyped(map) ==
  /\ DOMAIN map \subseteq LimiterKeys
  /\ \A k \in DOMAIN map : map[k] \in LoginAttempt

LoginTypes ==
  /\ minute \in Minutes
  /\ EntriesTyped(attempts)
  /\ logins \in [Logins -> LoginCall]
  /\ \A l \in Logins : logins[l].pc # "idle" =>
                         logins[l].ip \in Addresses /\ logins[l].account \in Accounts
  /\ refusedTill \in [LimiterKeys -> Int]

\* A lock a key was told of is kept until it ends.
LocksKept(map, told) ==
  \A k \in LimiterKeys : told[k] > minute =>
    k \in DOMAIN map /\ map[k].until >= told[k]

\* The logins that passed the check of k and may still count against it.
Passed(k) ==
  {l \in Logins : \/ logins[l].pc = "judge" /\ k \in {logins[l].ip, logins[l].account}
                  \/ logins[l].pc = "account" /\ k = logins[l].ip}

FailuresCounted ==
  \A k \in DOMAIN attempts :
    Number(attempts[k].times) + Cardinality(Passed(k))
      <= MaxLoginAttempts - 1 + Cardinality(Logins)

EntriesFit(map) ==
  /\ Cardinality(DOMAIN map \cap Addresses) <= MaxEntries
  /\ Cardinality(DOMAIN map \cap Accounts) <= MaxEntries

LoginInv ==
  /\ LoginTypes
  /\ LocksKept(attempts, refusedTill)
  /\ FailuresCounted
  /\ EntriesFit(attempts)

-----------------------------------------------------------------------------
(* Lists of times. *)

LEMMA LimiterNumbers ==
  /\ MaxLoginAttempts \in Nat \ {0} /\ Window \in Nat \ {0}
  /\ LockDuration \in Nat \ {0} /\ MaxEntries \in Nat \ {0}
  /\ RequestLimit \in Nat \ {0} /\ RequestWindow \in Nat \ {0}
  /\ EndOfTime \in Nat /\ MaxLogins \in Nat
BY LimiterAssumption

LEMMA MinutesFinite == IsFiniteSet(Minutes) /\ Minutes \subseteq Nat
BY LimiterNumbers, FS_Interval DEF Minutes

LEMMA NumberNat ==
  ASSUME NEW f \in TimesList
  PROVE  /\ Number(f) \in Nat
         /\ \A t \in Minutes : f[t] <= Number(f)
<1>1. \A t \in Minutes : f[t] \in Nat
  BY DEF TimesList
<1>. QED
  BY <1>1, MinutesFinite, SumNat DEF Number

LEMMA NumberRecent ==
  ASSUME NEW f \in TimesList, NEW w \in Nat, minute \in Nat
  PROVE  /\ Recent(f, w) \in TimesList
         /\ Number(Recent(f, w)) <= Number(f)
         /\ \A t \in Minutes : minute - t < w => Recent(f, w)[t] = f[t]
<1> DEFINE g == Recent(f, w)
<1>1. \A t \in Minutes : /\ minute - t < w => g[t] = f[t]
                         /\ ~(minute - t < w) => g[t] = 0
                         /\ f[t] \in Nat
  BY DEF Recent, TimesList
<1>2. g \in TimesList
  <2>1. g = [t \in Minutes |-> IF minute - t < w THEN f[t] ELSE 0]
    BY DEF Recent
  <2>. QED
    BY <1>1, <2>1 DEF TimesList
<1>3. \A t \in Minutes : g[t] \in Int /\ f[t] \in Int /\ g[t] <= f[t]
  BY <1>1
<1> HIDE DEF g
<1>4. Number(g) <= Number(f)
  BY <1>3, MinutesFinite, SumMonotone DEF Number
<1>. QED
  BY <1>1, <1>2, <1>4 DEF g

\* One more now.
LEMMA NumberWithNow ==
  ASSUME NEW f \in TimesList, minute \in Minutes
  PROVE  /\ WithNow(f) \in TimesList
         /\ Number(WithNow(f)) = Number(f) + 1
         /\ WithNow(f)[minute] = f[minute] + 1
         /\ \A t \in Minutes \ {minute} : WithNow(f)[t] = f[t]
<1> DEFINE g == WithNow(f)
<1>1. /\ g \in TimesList /\ g[minute] = f[minute] + 1
      /\ \A t \in Minutes \ {minute} : g[t] = f[t]
  BY DEF WithNow, TimesList
<1> HIDE DEF g
<1>2. \A t \in Minutes : f[t] \in Int /\ g[t] \in Int
  BY <1>1 DEF TimesList
<1>3. \A t \in Minutes \ {minute} : f[t] = g[t]
  BY <1>1
<1>4. Number(g) = Number(f) + (g[minute] - f[minute])
  <2> DEFINE T == Minutes
             m == minute
  <2>1. /\ IsFiniteSet(T) /\ m \in T
        /\ \A t \in T : f[t] \in Int /\ g[t] \in Int
        /\ \A t \in T \ {m} : g[t] = f[t]
    BY <1>2, <1>3, MinutesFinite
  <2> HIDE DEF T, m
  <2>2. SumFunctionOnSet(g, T) = SumFunctionOnSet(f, T) + (g[m] - f[m])
    BY <2>1, SumChange
  <2>. QED
    BY <2>2 DEF Number, T, m
<1>5. Number(f) \in Nat
  BY NumberNat
<1>6. g[minute] - f[minute] = 1
  BY <1>1, <1>2
<1>. QED
  BY <1>1, <1>4, <1>5, <1>6 DEF g

LEMMA NumberNoTimes == NoTimes \in TimesList /\ Number(NoTimes) = 0
<1>1. \A t \in Minutes : NoTimes[t] = 0
  BY DEF NoTimes
<1>2. Number(NoTimes) = 0
  BY <1>1, MinutesFinite, SumZero DEF Number
<1>. QED
  BY <1>2 DEF NoTimes, TimesList

-----------------------------------------------------------------------------
(* The check of a key. *)

\* What a check of k makes of the entries.
CheckResult(k, c) ==
  /\ c.ok \in BOOLEAN
  /\ EntriesTyped(c.entries)
  /\ DOMAIN c.entries \subseteq DOMAIN attempts
  /\ \A j \in DOMAIN attempts \ {k} :
       j \in DOMAIN c.entries /\ c.entries[j] = attempts[j]
  /\ k \in DOMAIN c.entries => Number(c.entries[k].times) <= Number(attempts[k].times)
  /\ k \in DOMAIN attempts /\ k \notin DOMAIN c.entries => minute >= attempts[k].until
  /\ c.ok =>
       /\ k \in DOMAIN attempts => minute >= attempts[k].until
       /\ k \in DOMAIN c.entries => Number(c.entries[k].times) <= MaxLoginAttempts - 1
  /\ ~c.ok => k \in DOMAIN c.entries

LEMMA PutEntry ==
  ASSUME LoginTypes, NEW k \in DOMAIN attempts, NEW e \in LoginAttempt, NEW f,
         f = Put(attempts, k, e)
  PROVE  /\ EntriesTyped(f) /\ DOMAIN f = DOMAIN attempts /\ f[k] = e
         /\ \A j \in DOMAIN attempts \ {k} : f[j] = attempts[j]
<1>1. /\ DOMAIN f = DOMAIN attempts /\ f[k] = e
      /\ \A j \in DOMAIN attempts \ {k} : f[j] = attempts[j]
  BY DEF Put
<1>. QED
  BY <1>1 DEF LoginTypes, EntriesTyped

LEMMA CleanedEntry ==
  ASSUME LoginTypes, NEW k \in DOMAIN attempts
  PROVE  /\ Entry(k) \in LoginAttempt /\ Cleaned(k) \in LoginAttempt
         /\ attempts[k] \in LoginAttempt
         /\ Entry(k).times = attempts[k].times /\ Entry(k).until = attempts[k].until
         /\ Cleaned(k).until = attempts[k].until
         /\ Number(Cleaned(k).times) <= Number(attempts[k].times)
         /\ Number(Cleaned(k).times) \in Nat /\ Number(attempts[k].times) \in Nat
         /\ \A u \in Int : [Cleaned(k) EXCEPT !.until = u] \in LoginAttempt
         /\ \A u \in Int : [Cleaned(k) EXCEPT !.until = u].times = Cleaned(k).times
<1>1. attempts[k] \in LoginAttempt /\ minute \in Minutes /\ minute \in Nat
  BY MinutesFinite DEF LoginTypes, EntriesTyped
<1>2. attempts[k].times \in TimesList
  BY <1>1 DEF LoginAttempt
<1> DEFINE recent == Recent(attempts[k].times, Window)
<1>3. recent \in TimesList /\ Number(recent) <= Number(attempts[k].times)
  BY <1>1, <1>2, NumberRecent, LimiterNumbers
<1>4. /\ Entry(k) \in LoginAttempt
      /\ Entry(k).times = attempts[k].times /\ Entry(k).until = attempts[k].until
  BY <1>1 DEF Entry, LoginAttempt
<1>5. Cleaned(k) = [Entry(k) EXCEPT !.times = recent]
  BY <1>4 DEF Cleaned
<1> HIDE DEF recent
<1>6. /\ Cleaned(k) \in LoginAttempt /\ Cleaned(k).times = recent
      /\ Cleaned(k).until = attempts[k].until
  BY <1>3, <1>4, <1>5 DEF LoginAttempt
<1>7. Number(recent) \in Nat /\ Number(attempts[k].times) \in Nat
  BY <1>2, <1>3, NumberNat
<1>8. /\ \A u \in Int : [Cleaned(k) EXCEPT !.until = u] \in LoginAttempt
      /\ \A u \in Int : [Cleaned(k) EXCEPT !.until = u].times = Cleaned(k).times
  BY <1>6 DEF LoginAttempt
<1>. QED
  BY <1>1, <1>3, <1>4, <1>6, <1>7, <1>8

LEMMA CheckedSound ==
  ASSUME LoginTypes, NEW k \in LimiterKeys
  PROVE  CheckResult(k, Checked(k))
<1> DEFINE c == Checked(k)
<1>0. minute \in Nat /\ EntriesTyped(attempts)
  BY MinutesFinite DEF LoginTypes
<1>1. CASE k \notin DOMAIN attempts
  <2>1. c.ok = TRUE /\ c.entries = attempts
    BY <1>1 DEF Checked
  <2> HIDE DEF c
  <2>. QED
    BY <1>0, <1>1, <2>1 DEF CheckResult, c
<1>2. CASE k \in DOMAIN attempts /\ ~Unlocked(k)
  <2>1. c.ok = FALSE /\ c.entries = Put(attempts, k, Entry(k))
    BY <1>2 DEF Checked
  <2> HIDE DEF c
  <2>2. /\ Entry(k) \in LoginAttempt
        /\ Number(Entry(k).times) <= Number(attempts[k].times)
    <3>1. /\ Entry(k) \in LoginAttempt /\ Entry(k).times = attempts[k].times
          /\ Number(attempts[k].times) \in Nat
      BY <1>2, CleanedEntry
    <3>. QED
      BY <3>1
  <2>3. /\ EntriesTyped(c.entries) /\ DOMAIN c.entries = DOMAIN attempts
        /\ c.entries[k] = Entry(k)
        /\ \A j \in DOMAIN attempts \ {k} : c.entries[j] = attempts[j]
    BY <1>2, <2>1, <2>2, PutEntry
  <2>. QED
    BY <1>2, <2>1, <2>2, <2>3 DEF CheckResult, c
<1>3. CASE k \in DOMAIN attempts /\ Unlocked(k) /\ Number(Cleaned(k).times) = 0
  <2>1. c.ok = TRUE /\ c.entries = WithoutEntries(attempts, {k})
    BY <1>3 DEF Checked
  <2> HIDE DEF c
  <2>2. /\ EntriesTyped(c.entries) /\ DOMAIN c.entries = DOMAIN attempts \ {k}
        /\ \A j \in DOMAIN attempts \ {k} : c.entries[j] = attempts[j]
    <3> DEFINE ks == {k}
               f == c.entries
    <3>1. f = WithoutEntries(attempts, ks)
      BY <2>1
    <3> HIDE DEF ks, f
    <3>2. /\ DOMAIN f = DOMAIN attempts \ ks
          /\ \A j \in DOMAIN attempts \ ks : f[j] = attempts[j]
      BY <3>1 DEF WithoutEntries
    <3>3. EntriesTyped(f)
      BY <3>2 DEF LoginTypes, EntriesTyped
    <3>. QED
      BY <3>2, <3>3 DEF ks, f
  <2>3. minute >= attempts[k].until
    BY <1>3 DEF Unlocked
  <2>. QED
    BY <1>3, <2>1, <2>2, <2>3 DEF CheckResult, c
<1>4. CASE /\ k \in DOMAIN attempts /\ Unlocked(k) /\ Number(Cleaned(k).times) # 0
           /\ Number(Cleaned(k).times) >= MaxLoginAttempts
  <2> DEFINE e == [Cleaned(k) EXCEPT !.until = minute + LockDuration]
  <2>1. c.ok = FALSE /\ c.entries = Put(attempts, k, e)
    BY <1>4 DEF Checked
  <2>2. minute + LockDuration \in Int
    BY <1>0, LimiterNumbers
  <2>3. /\ e \in LoginAttempt /\ e.times = Cleaned(k).times
        /\ Number(Cleaned(k).times) <= Number(attempts[k].times)
    BY <1>4, <2>2, CleanedEntry
  <2> HIDE DEF c, e
  <2>4. /\ EntriesTyped(c.entries) /\ DOMAIN c.entries = DOMAIN attempts
        /\ c.entries[k] = e
        /\ \A j \in DOMAIN attempts \ {k} : c.entries[j] = attempts[j]
    BY <1>4, <2>1, <2>3, PutEntry
  <2>. QED
    BY <1>4, <2>1, <2>3, <2>4 DEF CheckResult, c
<1>5. CASE /\ k \in DOMAIN attempts /\ Unlocked(k) /\ Number(Cleaned(k).times) # 0
           /\ ~(Number(Cleaned(k).times) >= MaxLoginAttempts)
  <2>1. c.ok = TRUE /\ c.entries = Put(attempts, k, Cleaned(k))
    BY <1>5 DEF Checked
  <2>2. /\ Cleaned(k) \in LoginAttempt
        /\ Number(Cleaned(k).times) <= Number(attempts[k].times)
        /\ Number(Cleaned(k).times) \in Nat
    BY <1>5, CleanedEntry
  <2>3. Number(Cleaned(k).times) <= MaxLoginAttempts - 1
    BY <1>5, <2>2, LimiterNumbers
  <2> HIDE DEF c
  <2>4. /\ EntriesTyped(c.entries) /\ DOMAIN c.entries = DOMAIN attempts
        /\ c.entries[k] = Cleaned(k)
        /\ \A j \in DOMAIN attempts \ {k} : c.entries[j] = attempts[j]
    BY <1>5, <2>1, <2>2, PutEntry
  <2>5. minute >= attempts[k].until
    BY <1>5 DEF Unlocked
  <2>. QED
    BY <1>5, <2>1, <2>2, <2>3, <2>4, <2>5 DEF CheckResult, c
<1>. QED
  BY <1>1, <1>2, <1>3, <1>4, <1>5

-----------------------------------------------------------------------------
(* What the check of a key keeps. *)

LEMMA FewerLogins ==
  ASSUME NEW A \in SUBSET Logins, NEW B \in SUBSET A
  PROVE  /\ Cardinality(A) \in Nat /\ Cardinality(B) \in Nat /\ Cardinality(Logins) \in Nat
         /\ Cardinality(B) <= Cardinality(A) /\ Cardinality(A) <= Cardinality(Logins)
<1>1. IsFiniteSet(Logins)
  BY LimiterAssumption
<1>2. IsFiniteSet(A)
  BY <1>1, FS_Subset
<1>. QED
  BY <1>1, <1>2, FS_Subset, FS_CardinalityType

LEMMA PassedLogins == \A k : Passed(k) \in SUBSET Logins /\ Passed(k)' \in SUBSET Logins
BY DEF Passed

LEMMA KeysFinite ==
  /\ IsFiniteSet(Addresses) /\ IsFiniteSet(Accounts) /\ IsFiniteSet(LimiterKeys)
  /\ Addresses \cap Accounts = {}
BY LimiterAssumption, FS_Union DEF LimiterKeys

\* Fewer entries fit as well.
LEMMA FewerEntriesFit ==
  ASSUME EntriesTyped(attempts), EntriesFit(attempts),
         DOMAIN attempts' \subseteq DOMAIN attempts
  PROVE  EntriesFit(attempts')
<1> DEFINE A == DOMAIN attempts \cap Addresses
           B == DOMAIN attempts \cap Accounts
           C == DOMAIN attempts' \cap Addresses
           D == DOMAIN attempts' \cap Accounts
<1>1. IsFiniteSet(A) /\ IsFiniteSet(B)
  BY KeysFinite, FS_Subset
<1>2. C \subseteq A /\ D \subseteq B
  OBVIOUS
<1>3. Cardinality(A) <= MaxEntries /\ Cardinality(B) <= MaxEntries
  BY DEF EntriesFit
<1>4. SUFFICES Cardinality(C) <= MaxEntries /\ Cardinality(D) <= MaxEntries
  BY DEF EntriesFit
<1> HIDE DEF A, B, C, D
<1>5. /\ Cardinality(C) <= Cardinality(A) /\ Cardinality(D) <= Cardinality(B)
      /\ Cardinality(C) \in Nat /\ Cardinality(D) \in Nat
      /\ Cardinality(A) \in Nat /\ Cardinality(B) \in Nat
  BY <1>1, <1>2, FS_Subset, FS_CardinalityType
<1>. QED
  BY <1>3, <1>5, LimiterNumbers

\* A key that keeps an entry and has fewer failures and logins is counted as before.
LEMMA CountedAsBefore ==
  ASSUME LoginTypes, FailuresCounted, EntriesTyped(attempts'),
         NEW k \in DOMAIN attempts', k \in DOMAIN attempts,
         Number(attempts'[k].times) <= Number(attempts[k].times),
         Passed(k)' \subseteq Passed(k)
  PROVE  Number(attempts'[k].times) + Cardinality(Passed(k)')
           <= MaxLoginAttempts - 1 + Cardinality(Logins)
<1>1. /\ Cardinality(Passed(k)') <= Cardinality(Passed(k))
      /\ Cardinality(Passed(k)') \in Nat /\ Cardinality(Passed(k)) \in Nat
      /\ Cardinality(Logins) \in Nat
  BY PassedLogins, FewerLogins
<1>2. Number(attempts[k].times) \in Nat /\ Number(attempts'[k].times) \in Nat
  BY NumberNat DEF LoginTypes, EntriesTyped, LoginAttempt
<1>3. Number(attempts[k].times) + Cardinality(Passed(k))
        <= MaxLoginAttempts - 1 + Cardinality(Logins)
  BY DEF FailuresCounted
<1>. QED
  BY <1>1, <1>2, <1>3, LimiterNumbers

CheckStep(k, c) ==
  /\ CheckResult(k, c)
  /\ attempts' = c.entries /\ refusedTill' = Told(k, c) /\ minute' = minute
  /\ \A j : j # k \/ ~c.ok => Passed(j)' \subseteq Passed(j)

LEMMA CheckKeeps ==
  ASSUME LoginInv, NEW k \in LimiterKeys, NEW c, CheckStep(k, c)
  PROVE  /\ EntriesTyped(attempts') /\ refusedTill' \in [LimiterKeys -> Int]
         /\ LocksKept(attempts, refusedTill)'
         /\ FailuresCounted' /\ EntriesFit(attempts')
<1>1. /\ EntriesTyped(attempts') /\ DOMAIN attempts' \subseteq DOMAIN attempts
      /\ attempts' = c.entries
  BY DEF CheckStep, CheckResult
<1>2. /\ refusedTill' \in [LimiterKeys -> Int]
      /\ \A j \in LimiterKeys \ {k} : refusedTill'[j] = refusedTill[j]
      /\ c.ok => refusedTill'[k] = refusedTill[k]
      /\ ~c.ok => k \in DOMAIN attempts' /\ refusedTill'[k] = attempts'[k].until
  <2>1. ~c.ok => k \in DOMAIN attempts' /\ attempts'[k].until \in Int
    BY <1>1 DEF CheckStep, CheckResult, EntriesTyped, LoginAttempt
  <2>. QED
    BY <1>1, <2>1 DEF CheckStep, CheckResult, Told, LoginInv, LoginTypes
<1>3. LocksKept(attempts, refusedTill)'
  <2>1. ASSUME NEW j \in LimiterKeys, refusedTill'[j] > minute'
        PROVE  j \in DOMAIN attempts' /\ attempts'[j].until >= refusedTill'[j]
    <3>0. /\ minute' = minute /\ minute \in Nat
          /\ refusedTill'[j] \in Int /\ refusedTill[j] \in Int
      BY <1>2, MinutesFinite DEF CheckStep, LoginInv, LoginTypes
    <3>1. CASE j # k
      <4>1. j \in DOMAIN attempts /\ attempts[j].until >= refusedTill[j]
        BY <1>2, <2>1, <3>0, <3>1 DEF LoginInv, LocksKept
      <4>2. j \in DOMAIN attempts' /\ attempts'[j] = attempts[j]
        BY <1>1, <3>1, <4>1 DEF CheckStep, CheckResult
      <4>. QED
        BY <1>2, <3>1, <4>1, <4>2
    <3>2. CASE j = k /\ ~c.ok
      <4>1. attempts'[k].until \in Int
        BY <1>1, <1>2, <3>2 DEF EntriesTyped, LoginAttempt
      <4>. QED
        BY <1>2, <3>2, <4>1
    <3>3. CASE j = k /\ c.ok
      <4>1. refusedTill[k] > minute
        BY <1>2, <2>1, <3>0, <3>3
      <4>2. k \in DOMAIN attempts /\ attempts[k].until >= refusedTill[k]
        BY <4>1 DEF LoginInv, LocksKept
      <4>3. minute >= attempts[k].until /\ attempts[k].until \in Int
        BY <3>3, <4>2 DEF CheckStep, CheckResult, LoginInv, LoginTypes, EntriesTyped,
           LoginAttempt
      <4>. QED
        BY <3>0, <3>3, <4>1, <4>2, <4>3
    <3>. QED
      BY <3>1, <3>2, <3>3 DEF CheckStep, CheckResult
  <2>. QED
    BY <2>1 DEF LocksKept
<1>4. FailuresCounted'
  <2>1. ASSUME NEW j \in DOMAIN attempts'
        PROVE  Number(attempts'[j].times) + Cardinality(Passed(j)')
                 <= MaxLoginAttempts - 1 + Cardinality(Logins)
    <3>0. j \in DOMAIN attempts /\ j \in LimiterKeys
      BY <1>1 DEF EntriesTyped
    <3>1. /\ attempts[j].times \in TimesList /\ attempts'[j].times \in TimesList
          /\ Number(attempts[j].times) \in Nat /\ Number(attempts'[j].times) \in Nat
      BY <1>1, <3>0, NumberNat DEF LoginInv, LoginTypes, EntriesTyped, LoginAttempt
    <3>2. CASE j # k
      <4>1. attempts'[j] = attempts[j] /\ Passed(j)' \subseteq Passed(j)
        BY <1>1, <3>0, <3>2 DEF CheckStep, CheckResult
      <4>. QED
        BY <1>1, <3>0, <3>1, <4>1, CountedAsBefore DEF LoginInv
    <3>3. CASE j = k /\ ~c.ok
      <4>1. /\ Number(attempts'[j].times) <= Number(attempts[j].times)
            /\ Passed(j)' \subseteq Passed(j)
        BY <1>1, <3>0, <3>3 DEF CheckStep, CheckResult
      <4>. QED
        BY <1>1, <3>0, <4>1, CountedAsBefore DEF LoginInv
    <3>4. CASE j = k /\ c.ok
      <4>1. Number(attempts'[j].times) <= MaxLoginAttempts - 1
        BY <1>1, <3>0, <3>4 DEF CheckStep, CheckResult
      <4>2. /\ Cardinality(Passed(j)') \in Nat /\ Cardinality(Logins) \in Nat
            /\ Cardinality(Passed(j)') <= Cardinality(Logins)
        BY PassedLogins, FewerLogins
      <4>. QED
        BY <3>1, <4>1, <4>2, LimiterNumbers
    <3>. QED
      BY <3>2, <3>3, <3>4 DEF CheckStep, CheckResult
  <2>. QED
    BY <2>1 DEF FailuresCounted
<1>. QED
  BY <1>1, <1>2, <1>3, <1>4, FewerEntriesFit DEF LoginInv, LoginTypes

-----------------------------------------------------------------------------
(* The steps of a login. *)

LEMMA LoginInvInit ==
  ASSUME LimiterInit
  PROVE  LoginInv
<1>1. /\ minute = 0 /\ DOMAIN attempts = {}
      /\ logins = [l \in Logins |-> NoLogin]
      /\ refusedTill = [k \in LimiterKeys |-> -1]
  BY DEF LimiterInit
<1>2. minute \in Minutes
  BY <1>1, LimiterNumbers DEF Minutes
<1>3. NoLogin \in LoginCall /\ NoLogin.pc = "idle"
  BY DEF NoLogin, LoginCall
<1>4. LoginTypes
  BY <1>1, <1>2, <1>3 DEF LoginTypes, EntriesTyped
<1>5. LocksKept(attempts, refusedTill) /\ FailuresCounted
  BY <1>1 DEF LocksKept, FailuresCounted
<1>6. EntriesFit(attempts)
  <2>1. DOMAIN attempts \cap Addresses = {} /\ DOMAIN attempts \cap Accounts = {}
    BY <1>1
  <2>. QED
    BY <2>1, FS_EmptySet, LimiterNumbers DEF EntriesFit
<1>. QED
  BY <1>4, <1>5, <1>6 DEF LoginInv

\* A login that moves on keeps the types of the logins.
LEMMA LoginMoves ==
  ASSUME LoginTypes, NEW l \in Logins, NEW r \in LoginCall,
         r.pc # "idle" => r.ip \in Addresses /\ r.account \in Accounts,
         logins' = [logins EXCEPT ![l] = r]
  PROVE  /\ logins' \in [Logins -> LoginCall]
         /\ \A m \in Logins : logins'[m].pc # "idle" =>
                                logins'[m].ip \in Addresses /\ logins'[m].account \in Accounts
BY DEF LoginTypes

LEMMA IdleLogin == NoLogin \in LoginCall /\ NoLogin.pc = "idle"
BY DEF NoLogin, LoginCall

LEMMA CheckIPKeeps ==
  ASSUME LoginInv, NEW l \in Logins, NEW ip \in Addresses, NEW account \in Accounts,
         CheckIP(l, ip, account)
  PROVE  LoginInv'
<1> DEFINE c == Checked(ip)
           r == [pc |-> "account", ip |-> ip, account |-> account]
<1>1. /\ attempts' = c.entries /\ refusedTill' = Told(ip, c) /\ minute' = minute
      /\ logins[l].pc = "idle"
      /\ c.ok => logins' = [logins EXCEPT ![l] = r]
      /\ ~c.ok => logins' = logins
  BY DEF CheckIP
<1>2. ip \in LimiterKeys /\ LoginTypes
  BY DEF LimiterKeys, LoginInv
<1>3. CheckResult(ip, c)
  BY <1>2, CheckedSound
<1>4. r \in LoginCall /\ r.ip = ip /\ r.account = account /\ r.pc = "account"
  BY DEF LoginCall
<1> HIDE DEF c, r
<1>5. \A j : j # ip \/ ~c.ok => Passed(j)' \subseteq Passed(j)
  <2>1. ASSUME NEW j, j # ip, c.ok
        PROVE  Passed(j)' \subseteq Passed(j)
    BY <1>1, <1>2, <1>4, <2>1 DEF Passed, LoginTypes
  <2>2. ASSUME NEW j, ~c.ok
        PROVE  Passed(j)' \subseteq Passed(j)
    BY <1>1, <2>2 DEF Passed
  <2>. QED
    BY <2>1, <2>2
<1>6. CheckStep(ip, c)
  BY <1>1, <1>3, <1>5 DEF CheckStep
<1>7. /\ logins' \in [Logins -> LoginCall]
      /\ \A m \in Logins : logins'[m].pc # "idle" =>
                             logins'[m].ip \in Addresses /\ logins'[m].account \in Accounts
  <2>1. CASE c.ok
    BY <1>1, <1>2, <1>4, <2>1, LoginMoves
  <2>2. CASE ~c.ok
    BY <1>1, <1>2, <2>2 DEF LoginTypes
  <2>. QED
    BY <2>1, <2>2
<1>. QED
  BY <1>1, <1>2, <1>6, <1>7, CheckKeeps DEF LoginInv, LoginTypes

LEMMA CheckAccountKeeps ==
  ASSUME LoginInv, NEW l \in Logins, CheckAccount(l)
  PROVE  LoginInv'
<1> DEFINE k == logins[l].account
           c == Checked(k)
           r == IF c.ok THEN [logins[l] EXCEPT !.pc = "judge"] ELSE NoLogin
<1>1. /\ attempts' = c.entries /\ refusedTill' = Told(k, c) /\ minute' = minute
      /\ logins[l].pc = "account"
      /\ logins' = [logins EXCEPT ![l] = r]
  BY DEF CheckAccount
<1>2. /\ LoginTypes /\ logins[l] \in LoginCall /\ logins \in [Logins -> LoginCall]
      /\ logins[l].ip \in Addresses /\ k \in Accounts /\ k \in LimiterKeys
  BY <1>1 DEF LimiterKeys, LoginInv, LoginTypes
<1>3. CheckResult(k, c)
  BY <1>2, CheckedSound
<1>4. /\ r \in LoginCall
      /\ c.ok => r.pc = "judge" /\ r.ip = logins[l].ip /\ r.account = k
      /\ ~c.ok => r.pc = "idle"
  BY <1>2, IdleLogin DEF LoginCall
<1>5. r.pc # "idle" => r.ip \in Addresses /\ r.account \in Accounts
  BY <1>2, <1>4
<1> HIDE DEF c, r, k
<1>6. \A j : j # k \/ ~c.ok => Passed(j)' \subseteq Passed(j)
  BY <1>1, <1>2, <1>4 DEF Passed
<1>7. CheckStep(k, c)
  BY <1>1, <1>3, <1>6 DEF CheckStep
<1>8. /\ logins' \in [Logins -> LoginCall]
      /\ \A m \in Logins : logins'[m].pc # "idle" =>
                             logins'[m].ip \in Addresses /\ logins'[m].account \in Accounts
  BY <1>1, <1>2, <1>4, <1>5, LoginMoves
<1>. QED
  BY <1>1, <1>2, <1>7, <1>8, CheckKeeps DEF LoginInv, LoginTypes

\* A login that ends, with nothing counted for it.
LoginEnds(l) ==
  /\ logins[l].pc = "judge" /\ logins' = [logins EXCEPT ![l] = NoLogin]
  /\ minute' = minute

LEMMA EndKeeps ==
  ASSUME LoginTypes, NEW l \in Logins, LoginEnds(l)
  PROVE  /\ logins' \in [Logins -> LoginCall] /\ minute' \in Minutes
         /\ \A m \in Logins : logins'[m].pc # "idle" =>
                                logins'[m].ip \in Addresses /\ logins'[m].account \in Accounts
         /\ \A j : Passed(j)' = Passed(j) \ {l}
         /\ logins[l].ip \in Addresses /\ logins[l].account \in Accounts
         /\ l \in Passed(logins[l].ip) /\ l \in Passed(logins[l].account)
<1>1. /\ logins[l].pc = "judge" /\ logins' = [logins EXCEPT ![l] = NoLogin]
      /\ minute' = minute /\ logins \in [Logins -> LoginCall]
  BY DEF LoginEnds, LoginTypes
<1>2. /\ logins' \in [Logins -> LoginCall]
      /\ \A m \in Logins : logins'[m].pc # "idle" =>
                             logins'[m].ip \in Addresses /\ logins'[m].account \in Accounts
  BY <1>1, IdleLogin, LoginMoves
<1>3. \A m \in Logins : IF m = l THEN logins'[m] = NoLogin ELSE logins'[m] = logins[m]
  BY <1>1
<1>4. ASSUME NEW j PROVE Passed(j)' = Passed(j) \ {l}
  <2>1. ASSUME NEW m \in Logins
        PROVE  m \in Passed(j)' <=> m \in Passed(j) \ {l}
    BY <1>3, IdleLogin DEF Passed
  <2>. QED
    BY <2>1, PassedLogins
<1>. QED
  BY <1>1, <1>2, <1>4 DEF LoginTypes, Passed

\* A step that drops entries or shortens their lists, and forgets a lock with them.
ForgetStep ==
  /\ EntriesTyped(attempts') /\ DOMAIN attempts' \subseteq DOMAIN attempts
  /\ \A k \in DOMAIN attempts' :
       /\ attempts'[k].until = attempts[k].until
       /\ Number(attempts'[k].times) <= Number(attempts[k].times)
       /\ Passed(k)' \subseteq Passed(k)
  /\ refusedTill' \in [LimiterKeys -> Int]
  /\ \A k \in LimiterKeys : refusedTill'[k] > minute' =>
       /\ refusedTill'[k] = refusedTill[k] /\ refusedTill[k] > minute
       /\ k \in DOMAIN attempts => k \in DOMAIN attempts'

LEMMA ForgetKeeps ==
  ASSUME LoginInv, ForgetStep
  PROVE  /\ LocksKept(attempts, refusedTill)' /\ FailuresCounted' /\ EntriesFit(attempts')
<1>1. LocksKept(attempts, refusedTill)'
  BY DEF LoginInv, LocksKept, ForgetStep
<1>2. ASSUME NEW k \in DOMAIN attempts'
      PROVE  Number(attempts'[k].times) + Cardinality(Passed(k)')
               <= MaxLoginAttempts - 1 + Cardinality(Logins)
  BY <1>2, CountedAsBefore DEF LoginInv, ForgetStep
<1>. QED
  BY <1>1, <1>2, FewerEntriesFit DEF LoginInv, LoginTypes, ForgetStep, FailuresCounted

LEMMA ResetAccountKeeps ==
  ASSUME LoginInv, NEW l \in Logins, ResetAccount(l)
  PROVE  LoginInv'
<1> DEFINE a == logins[l].account
<1>1. /\ LoginEnds(l) /\ LoginTypes
      /\ attempts' = WithoutEntries(attempts, {a})
      /\ refusedTill' = [refusedTill EXCEPT ![a] = -1]
  BY DEF ResetAccount, LoginEnds, LoginInv
<1>2. /\ logins' \in [Logins -> LoginCall] /\ minute' \in Minutes
      /\ \A m \in Logins : logins'[m].pc # "idle" =>
                             logins'[m].ip \in Addresses /\ logins'[m].account \in Accounts
      /\ \A j : Passed(j)' = Passed(j) \ {l}
      /\ a \in Accounts /\ a \in LimiterKeys
  BY <1>1, EndKeeps DEF LimiterKeys
<1> HIDE DEF a
<1>3. /\ DOMAIN attempts' = DOMAIN attempts \ {a}
      /\ \A j \in DOMAIN attempts' : attempts'[j] = attempts[j]
  BY <1>1 DEF WithoutEntries
<1>4. EntriesTyped(attempts')
  BY <1>1, <1>3 DEF LoginTypes, EntriesTyped
<1>5. \A j \in DOMAIN attempts' : Number(attempts'[j].times) <= Number(attempts[j].times)
  <2>1. \A j \in DOMAIN attempts' : Number(attempts[j].times) \in Nat
    BY <1>1, <1>3, NumberNat DEF LoginTypes, EntriesTyped, LoginAttempt
  <2>. QED
    BY <1>3, <2>1
<1>6. /\ refusedTill' \in [LimiterKeys -> Int] /\ refusedTill'[a] = -1
      /\ \A k \in LimiterKeys \ {a} : refusedTill'[k] = refusedTill[k]
      /\ minute' = minute /\ minute \in Nat
  BY <1>1, <1>2, MinutesFinite DEF LoginTypes, LoginEnds
<1>7. ForgetStep
  BY <1>2, <1>3, <1>4, <1>5, <1>6 DEF ForgetStep
<1>. QED
  BY <1>2, <1>4, <1>6, <1>7, ForgetKeeps DEF LoginInv, LoginTypes

LEMMA LoginFailsKeeps ==
  ASSUME LoginInv, NEW l \in Logins, LoginFails(l)
  PROVE  LoginInv'
<1>1. LoginEnds(l) /\ LoginTypes /\ attempts' = attempts /\ refusedTill' = refusedTill
  BY DEF LoginFails, LoginEnds, LoginInv
<1>2. /\ logins' \in [Logins -> LoginCall] /\ minute' \in Minutes /\ minute' = minute
      /\ \A m \in Logins : logins'[m].pc # "idle" =>
                             logins'[m].ip \in Addresses /\ logins'[m].account \in Accounts
      /\ \A j : Passed(j)' = Passed(j) \ {l}
  BY <1>1, EndKeeps DEF LoginEnds
<1>3. \A j \in DOMAIN attempts : Number(attempts[j].times) \in Nat
  BY <1>1, NumberNat DEF LoginTypes, EntriesTyped, LoginAttempt
<1>4. ForgetStep
  BY <1>1, <1>2, <1>3 DEF ForgetStep, LoginTypes
<1>. QED
  BY <1>1, <1>2, <1>4, ForgetKeeps DEF LoginInv, LoginTypes

LEMMA CleanupKeeps ==
  ASSUME LoginInv, Cleanup
  PROVE  LoginInv'
<1> DEFINE expired == {k \in DOMAIN attempts : Number(Cleaned(k).times) = 0 /\ Unlocked(k)}
<1>1. /\ LoginTypes /\ minute' = minute /\ logins' = logins /\ refusedTill' = refusedTill
      /\ attempts' = [k \in DOMAIN attempts \ expired |->
                        [attempts[k] EXCEPT !.times = Recent(@, Window)]]
  BY DEF Cleanup, LoginInv
<1>2. \A k \in expired : minute >= attempts[k].until
  BY DEF Unlocked
<1>3. expired \subseteq DOMAIN attempts
  OBVIOUS
<1> HIDE DEF expired
<1>4. minute \in Nat
  BY <1>1, MinutesFinite DEF LoginTypes
<1>5. ASSUME NEW k \in DOMAIN attempts'
      PROVE  /\ k \in DOMAIN attempts /\ attempts'[k] \in LoginAttempt
             /\ attempts'[k].until = attempts[k].until
             /\ Number(attempts'[k].times) <= Number(attempts[k].times)
  <2> DEFINE recent == Recent(attempts[k].times, Window)
  <2>1. /\ k \in DOMAIN attempts /\ attempts[k] \in LoginAttempt
        /\ attempts[k].times \in TimesList
    BY <1>1 DEF LoginTypes, EntriesTyped, LoginAttempt
  <2>2. recent \in TimesList /\ Number(recent) <= Number(attempts[k].times)
    BY <1>4, <2>1, NumberRecent, LimiterNumbers
  <2>3. attempts'[k] = [attempts[k] EXCEPT !.times = recent]
    BY <1>1
  <2> HIDE DEF recent
  <2>. QED
    BY <2>1, <2>2, <2>3 DEF LoginAttempt
<1>6. EntriesTyped(attempts')
  BY <1>1, <1>5 DEF EntriesTyped, LoginTypes
<1>7. \A j : Passed(j)' = Passed(j)
  BY <1>1 DEF Passed
<1>8. ASSUME NEW k \in LimiterKeys, refusedTill'[k] > minute', k \in DOMAIN attempts
      PROVE  k \in DOMAIN attempts'
  <2>1. attempts[k].until >= refusedTill[k] /\ refusedTill[k] > minute
    BY <1>1, <1>8 DEF LoginInv, LocksKept
  <2>2. attempts[k].until \in Int /\ refusedTill[k] \in Int
    BY <1>1, <1>8 DEF LoginTypes, EntriesTyped, LoginAttempt
  <2>3. k \notin expired
    BY <1>2, <1>4, <2>1, <2>2
  <2>. QED
    BY <1>1, <1>8, <2>3
<1>9. ForgetStep
  BY <1>1, <1>5, <1>6, <1>7, <1>8 DEF ForgetStep, LoginTypes
<1>. QED
  BY <1>1, <1>6, <1>9, ForgetKeeps DEF LoginInv, LoginTypes

LEMMA MinuteKeeps ==
  ASSUME LoginInv, Minute
  PROVE  LoginInv'
<1>1. /\ LoginTypes /\ attempts' = attempts /\ logins' = logins
      /\ refusedTill' = refusedTill /\ minute' = minute + 1 /\ minute < EndOfTime
  BY DEF Minute, LimiterState, LoginInv
<1>2. minute \in Nat /\ minute' \in Minutes /\ minute' > minute
  BY <1>1, MinutesFinite, LimiterNumbers DEF LoginTypes, Minutes
<1>3. \A j : Passed(j)' = Passed(j)
  BY <1>1 DEF Passed
<1>4. \A j \in DOMAIN attempts : Number(attempts[j].times) \in Nat
  BY <1>1, NumberNat DEF LoginTypes, EntriesTyped, LoginAttempt
<1>5. \A k \in LimiterKeys : refusedTill[k] \in Int
  BY <1>1 DEF LoginTypes
<1>6. EntriesTyped(attempts') /\ refusedTill' \in [LimiterKeys -> Int]
  BY <1>1 DEF LoginTypes, EntriesTyped
<1>7. \A k \in LimiterKeys : refusedTill[k] > minute' => refusedTill[k] > minute
  BY <1>1, <1>2, <1>5
<1>8. ForgetStep
  BY <1>1, <1>3, <1>4, <1>6, <1>7 DEF ForgetStep
<1>. QED
  BY <1>1, <1>2, <1>6, <1>8, ForgetKeeps DEF LoginInv, LoginTypes

\* What the requests do leaves the logins alone.
LEMMA LoginStutter ==
  ASSUME LoginInv, UNCHANGED <<minute, LimiterState>>
  PROVE  LoginInv'
<1>1. /\ minute' = minute /\ attempts' = attempts /\ logins' = logins
      /\ refusedTill' = refusedTill
  BY DEF LimiterState
<1>. QED
  BY <1>1 DEF LoginInv, LoginTypes, EntriesTyped, LocksKept, FailuresCounted, EntriesFit,
     Passed, Number

-----------------------------------------------------------------------------
(* A wrong password. *)

RecordStep(e, k, gone, r) ==
  /\ EntriesTyped(r)
  /\ DOMAIN r = (DOMAIN e \ gone) \cup {k}
  /\ \A j \in DOMAIN r \ {k} : r[j] = e[j]
  /\ k \in DOMAIN e => /\ r[k].until = e[k].until
                       /\ Number(r[k].times) = Number(e[k].times) + 1
  /\ k \notin DOMAIN e => Number(r[k].times) = 1

LEMMA RecordedSound ==
  ASSUME minute \in Minutes, NEW e, EntriesTyped(e), NEW k \in LimiterKeys, NEW gone,
         k \in DOMAIN e => gone = {}
  PROVE  RecordStep(e, k, gone, Recorded(e, k, gone))
<1> DEFINE r == Recorded(e, k, gone)
<1>1. CASE k \in DOMAIN e
  <2> DEFINE times == WithNow(e[k].times)
             entry == [e[k] EXCEPT !.times = times, !.seen = minute]
  <2>1. e[k] \in LoginAttempt /\ e[k].times \in TimesList
    BY <1>1 DEF EntriesTyped, LoginAttempt
  <2>2. times \in TimesList /\ Number(times) = Number(e[k].times) + 1
    BY <2>1, NumberWithNow
  <2>3. entry \in LoginAttempt /\ entry.until = e[k].until /\ entry.times = times
    BY <2>1, <2>2 DEF LoginAttempt
  <2>4. DOMAIN r = DOMAIN e /\ r[k] = entry /\ \A j \in DOMAIN r \ {k} : r[j] = e[j]
    BY <1>1 DEF Recorded
  <2> HIDE DEF r, entry, times
  <2>5. EntriesTyped(r)
    BY <1>1, <2>3, <2>4 DEF EntriesTyped
  <2>6. DOMAIN r = (DOMAIN e \ gone) \cup {k}
    BY <1>1, <2>4
  <2>. QED
    BY <1>1, <2>2, <2>3, <2>4, <2>5, <2>6 DEF RecordStep, r
<1>2. CASE k \notin DOMAIN e
  <2> DEFINE times == WithNow(NoTimes)
             entry == [times |-> times, until |-> -1, seen |-> minute]
  <2>1. NoTimes \in TimesList /\ Number(NoTimes) = 0
    BY NumberNoTimes
  <2>2. times \in TimesList /\ Number(times) = 0 + 1
    BY <2>1, NumberWithNow
  <2>3. entry \in LoginAttempt /\ entry.times = times
    BY <2>2 DEF LoginAttempt
  <2>4. r = Put(WithoutEntries(e, gone), k, entry)
    BY <1>2 DEF Recorded
  <2> HIDE DEF r, entry, times
  <2>5. /\ DOMAIN r = (DOMAIN e \ gone) \cup {k} /\ r[k] = entry
        /\ \A j \in DOMAIN r \ {k} : r[j] = e[j]
    BY <2>4 DEF Put, WithoutEntries
  <2>6. EntriesTyped(r)
    BY <2>3, <2>5 DEF EntriesTyped
  <2>. QED
    BY <1>2, <2>2, <2>3, <2>5, <2>6 DEF RecordStep, r
<1>. QED
  BY <1>1, <1>2

\* One key in, and room made for it.
LEMMA RoomMade ==
  ASSUME NEW kind, IsFiniteSet(kind), NEW k \in kind, k \notin DOMAIN attempts,
         NEW gone \in Evictable(kind), Cardinality(DOMAIN attempts \cap kind) <= MaxEntries
  PROVE  /\ gone \subseteq DOMAIN attempts \cap kind
         /\ Cardinality(((DOMAIN attempts \cap kind) \ gone) \cup {k}) <= MaxEntries
<1> DEFINE held == DOMAIN attempts \cap kind
           rest == held \ gone
<1>1. IsFiniteSet(held)
  BY FS_Subset
<1>2. k \notin rest
  OBVIOUS
<1>3. Cardinality(held) \in Nat /\ Cardinality(held) <= MaxEntries
  BY <1>1, FS_CardinalityType
<1>4. CASE Cardinality(held) < MaxEntries
  <2>1. gone = {} /\ rest = held
    BY <1>4 DEF Evictable
  <2>2. Cardinality(held \cup {k}) = Cardinality(held) + 1
    BY <1>1, FS_AddElement
  <2>. QED
    BY <1>3, <1>4, <2>1, <2>2, LimiterNumbers
<1>5. CASE ~(Cardinality(held) < MaxEntries)
  <2>1. PICK x \in held : gone = {x}
    BY <1>5 DEF Evictable
  <2>2. IsFiniteSet(rest) /\ Cardinality(rest) = Cardinality(held) - 1
    BY <1>1, <2>1, FS_RemoveElement
  <2>3. Cardinality(rest \cup {k}) = Cardinality(rest) + 1
    BY <1>2, <2>2, FS_AddElement
  <2>. QED
    BY <1>3, <2>1, <2>2, <2>3, LimiterNumbers
<1>. QED
  BY <1>4, <1>5

\* The failures of both keys of a login are recorded.
RecordedBoth(l, ips, accounts) ==
  LET ip == logins[l].ip
      account == logins[l].account
      gone == ips \cup accounts
      counted == {ip, account}
  IN  /\ EntriesTyped(attempts') /\ LoginEnds(l)
      /\ DOMAIN attempts' = (DOMAIN attempts \ gone) \cup counted
      /\ \A j \in DOMAIN attempts' \ counted : attempts'[j] = attempts[j]
      /\ \A j \in counted \cap DOMAIN attempts :
           /\ j \notin gone /\ attempts'[j].until = attempts[j].until
           /\ Number(attempts'[j].times) = Number(attempts[j].times) + 1
      /\ \A j \in counted \ DOMAIN attempts : Number(attempts'[j].times) = 1
      /\ refusedTill' = [k \in LimiterKeys |-> IF k \in gone THEN -1 ELSE refusedTill[k]]
      /\ DOMAIN attempts' \cap Addresses
           = ((DOMAIN attempts \cap Addresses) \ ips) \cup {ip}
      /\ DOMAIN attempts' \cap Accounts
           = ((DOMAIN attempts \cap Accounts) \ accounts) \cup {account}
      /\ ip \in DOMAIN attempts => ips = {}
      /\ account \in DOMAIN attempts => accounts = {}
      /\ ip \notin DOMAIN attempts => ips \in Evictable(Addresses)
      /\ account \notin DOMAIN attempts => accounts \in Evictable(Accounts)

LEMMA RecordedBothSound ==
  ASSUME LoginInv, NEW l \in Logins, RecordAttempt(l)
  PROVE  \E ips \in SUBSET Addresses, accounts \in SUBSET Accounts :
           RecordedBoth(l, ips, accounts)
<1> DEFINE ip == logins[l].ip
           account == logins[l].account
<1>1. /\ LoginEnds(l) /\ LoginTypes /\ minute \in Minutes /\ EntriesTyped(attempts)
      /\ EntriesFit(attempts)
  BY DEF RecordAttempt, LoginEnds, LoginInv, LoginTypes
<1>2. /\ ip \in Addresses /\ account \in Accounts /\ ip # account
      /\ ip \in LimiterKeys /\ account \in LimiterKeys
  BY <1>1, EndKeeps, KeysFinite DEF LimiterKeys
<1>3. PICK ips \in IF ip \in DOMAIN attempts THEN {{}} ELSE Evictable(Addresses),
           accounts \in IF account \in DOMAIN attempts THEN {{}} ELSE Evictable(Accounts) :
        /\ attempts' = Recorded(Recorded(attempts, ip, ips), account, accounts)
        /\ refusedTill' = [k \in LimiterKeys |-> IF k \in ips \cup accounts THEN -1
                                          ELSE refusedTill[k]]
  BY DEF RecordAttempt
<1>4. /\ ip \in DOMAIN attempts => ips = {}
      /\ account \in DOMAIN attempts => accounts = {}
      /\ ip \notin DOMAIN attempts => ips \in Evictable(Addresses)
      /\ account \notin DOMAIN attempts => accounts \in Evictable(Accounts)
  BY <1>3
<1> HIDE DEF ip, account
<1>5. ips \in SUBSET Addresses /\ accounts \in SUBSET Accounts
  BY <1>4 DEF Evictable
<1> DEFINE e == Recorded(attempts, ip, ips)
<1>6. RecordStep(attempts, ip, ips, e)
  BY <1>1, <1>2, <1>4, RecordedSound
<1>7. EntriesTyped(e) /\ DOMAIN e = (DOMAIN attempts \ ips) \cup {ip}
  BY <1>6 DEF RecordStep
<1>8. account \in DOMAIN e <=> account \in DOMAIN attempts
  BY <1>2, <1>5, <1>7, KeysFinite
<1>9. attempts' = Recorded(e, account, accounts)
  BY <1>3 DEF e
<1> HIDE DEF e
<1>10. RecordStep(e, account, accounts, Recorded(e, account, accounts))
  BY <1>1, <1>2, <1>4, <1>7, <1>8, RecordedSound
<1>11. RecordStep(e, account, accounts, attempts')
  BY <1>9, <1>10
<1>12. /\ EntriesTyped(attempts')
       /\ DOMAIN attempts' = (DOMAIN e \ accounts) \cup {account}
       /\ \A j \in DOMAIN attempts' \ {account} : attempts'[j] = e[j]
  BY <1>11 DEF RecordStep
<1>13. ip \notin accounts /\ account \notin ips
  BY <1>2, <1>5, KeysFinite
<1>14. DOMAIN attempts' = (DOMAIN attempts \ (ips \cup accounts)) \cup {ip, account}
  BY <1>7, <1>12, <1>13
<1>15. \A j \in DOMAIN attempts' \ {ip, account} : attempts'[j] = attempts[j]
  BY <1>6, <1>7, <1>12 DEF RecordStep
<1>16. /\ ip \in DOMAIN attempts =>
            /\ ip \notin ips \cup accounts /\ attempts'[ip].until = attempts[ip].until
            /\ Number(attempts'[ip].times) = Number(attempts[ip].times) + 1
       /\ ip \notin DOMAIN attempts => Number(attempts'[ip].times) = 1
  BY <1>2, <1>4, <1>6, <1>12, <1>13, <1>14 DEF RecordStep
<1>17. /\ account \in DOMAIN attempts =>
            /\ account \notin ips \cup accounts
            /\ attempts'[account].until = attempts[account].until
            /\ Number(attempts'[account].times) = Number(attempts[account].times) + 1
       /\ account \notin DOMAIN attempts => Number(attempts'[account].times) = 1
  <2>1. account \in DOMAIN attempts => e[account] = attempts[account]
    BY <1>2, <1>6, <1>7, <1>8 DEF RecordStep
  <2>. QED
    BY <1>4, <1>8, <1>11, <1>13, <2>1 DEF RecordStep
<1>18. /\ DOMAIN attempts' \cap Addresses
            = ((DOMAIN attempts \cap Addresses) \ ips) \cup {ip}
       /\ DOMAIN attempts' \cap Accounts
            = ((DOMAIN attempts \cap Accounts) \ accounts) \cup {account}
  BY <1>2, <1>5, <1>14, KeysFinite
<1>19. RecordedBoth(l, ips, accounts)
  BY <1>1, <1>3, <1>4, <1>12, <1>14, <1>15, <1>16, <1>17, <1>18
  DEF RecordedBoth, ip, account
<1>. QED
  BY <1>5, <1>19

LEMMA RecordAttemptKeeps ==
  ASSUME LoginInv, NEW l \in Logins, RecordAttempt(l)
  PROVE  LoginInv'
<1> DEFINE ip == logins[l].ip
           account == logins[l].account
           counted == {ip, account}
<1>1. PICK ips \in SUBSET Addresses, accounts \in SUBSET Accounts :
        RecordedBoth(l, ips, accounts)
  BY RecordedBothSound
<1> DEFINE gone == ips \cup accounts
<1>2. /\ LoginTypes /\ LoginEnds(l) /\ EntriesTyped(attempts') /\ EntriesTyped(attempts)
      /\ minute' = minute /\ minute \in Nat
  BY <1>1, MinutesFinite DEF RecordedBoth, LoginInv, LoginTypes, LoginEnds
<1>3. /\ logins' \in [Logins -> LoginCall] /\ minute' \in Minutes
      /\ \A m \in Logins : logins'[m].pc # "idle" =>
                             logins'[m].ip \in Addresses /\ logins'[m].account \in Accounts
      /\ \A j : Passed(j)' = Passed(j) \ {l}
      /\ ip \in Addresses /\ account \in Accounts
      /\ l \in Passed(ip) /\ l \in Passed(account)
  BY <1>2, EndKeeps
<1>4. /\ DOMAIN attempts' = (DOMAIN attempts \ gone) \cup counted
      /\ \A j \in DOMAIN attempts' \ counted : attempts'[j] = attempts[j]
      /\ \A j \in counted \cap DOMAIN attempts :
           /\ j \notin gone /\ attempts'[j].until = attempts[j].until
           /\ Number(attempts'[j].times) = Number(attempts[j].times) + 1
      /\ \A j \in counted \ DOMAIN attempts : Number(attempts'[j].times) = 1
      /\ refusedTill' = [k \in LimiterKeys |-> IF k \in gone THEN -1 ELSE refusedTill[k]]
  BY <1>1 DEF RecordedBoth
<1>5. EntriesFit(attempts')
  <2>1. /\ DOMAIN attempts' \cap Addresses
             = ((DOMAIN attempts \cap Addresses) \ ips) \cup {ip}
        /\ DOMAIN attempts' \cap Accounts
             = ((DOMAIN attempts \cap Accounts) \ accounts) \cup {account}
        /\ ip \in DOMAIN attempts => ips = {}
        /\ account \in DOMAIN attempts => accounts = {}
        /\ ip \notin DOMAIN attempts => ips \in Evictable(Addresses)
        /\ account \notin DOMAIN attempts => accounts \in Evictable(Accounts)
    BY <1>1 DEF RecordedBoth
  <2>2. /\ Cardinality(DOMAIN attempts \cap Addresses) <= MaxEntries
        /\ Cardinality(DOMAIN attempts \cap Accounts) <= MaxEntries
    BY DEF LoginInv, EntriesFit
  <2>3. Cardinality(DOMAIN attempts' \cap Addresses) <= MaxEntries
    <3>1. CASE ip \in DOMAIN attempts
      <4>1. DOMAIN attempts' \cap Addresses = DOMAIN attempts \cap Addresses
        BY <1>3, <2>1, <3>1
      <4>. QED
        BY <2>2, <4>1
    <3>2. CASE ip \notin DOMAIN attempts
      BY <1>3, <2>1, <2>2, <3>2, KeysFinite, RoomMade
    <3>. QED
      BY <3>1, <3>2
  <2>4. Cardinality(DOMAIN attempts' \cap Accounts) <= MaxEntries
    <3>1. CASE account \in DOMAIN attempts
      <4>1. DOMAIN attempts' \cap Accounts = DOMAIN attempts \cap Accounts
        BY <1>3, <2>1, <3>1
      <4>. QED
        BY <2>2, <4>1
    <3>2. CASE account \notin DOMAIN attempts
      BY <1>3, <2>1, <2>2, <3>2, KeysFinite, RoomMade
    <3>. QED
      BY <3>1, <3>2
  <2>. QED
    BY <2>3, <2>4 DEF EntriesFit
<1> HIDE DEF ip, account, gone, counted
<1>6. refusedTill \in [LimiterKeys -> Int] /\ refusedTill' \in [LimiterKeys -> Int]
  BY <1>2, <1>4 DEF LoginTypes
<1>7. LocksKept(attempts, refusedTill)'
  <2>1. ASSUME NEW j \in LimiterKeys, refusedTill'[j] > minute'
        PROVE  j \in DOMAIN attempts' /\ attempts'[j].until >= refusedTill'[j]
    <3>1. j \notin gone /\ refusedTill'[j] = refusedTill[j]
      BY <1>2, <1>4, <2>1
    <3>2. j \in DOMAIN attempts /\ attempts[j].until >= refusedTill[j]
      BY <1>2, <2>1, <3>1 DEF LoginInv, LocksKept
    <3>. QED
      BY <1>4, <3>1, <3>2
  <2>. QED
    BY <2>1 DEF LocksKept
<1>8. FailuresCounted'
  <2>1. ASSUME NEW j \in DOMAIN attempts'
        PROVE  Number(attempts'[j].times) + Cardinality(Passed(j)')
                 <= MaxLoginAttempts - 1 + Cardinality(Logins)
    <3>1. CASE j \notin counted
      <4>1. /\ j \in DOMAIN attempts /\ attempts'[j] = attempts[j]
            /\ Passed(j)' \subseteq Passed(j)
        BY <1>3, <1>4, <3>1
      <4>2. Number(attempts[j].times) \in Nat
        BY <1>2, <4>1, NumberNat DEF EntriesTyped, LoginAttempt
      <4>. QED
        BY <1>2, <4>1, <4>2, CountedAsBefore DEF LoginInv
    <3>2. CASE j \in counted
      <4>1. /\ l \in Passed(j) /\ Passed(j)' = Passed(j) \ {l}
            /\ Passed(j) \in SUBSET Logins
        BY <1>3, <3>2, PassedLogins DEF counted
      <4>2. IsFiniteSet(Passed(j))
        BY <4>1, LimiterAssumption, FS_Subset
      <4>3. Cardinality(Passed(j)') = Cardinality(Passed(j)) - 1
        BY <4>1, <4>2, FS_RemoveElement
      <4>4. /\ Cardinality(Passed(j)) \in Nat /\ Cardinality(Logins) \in Nat
            /\ Cardinality(Passed(j)) <= Cardinality(Logins)
        BY <4>1, FewerLogins
      <4>5. CASE j \in DOMAIN attempts
        <5>1. Number(attempts'[j].times) = Number(attempts[j].times) + 1
          BY <1>4, <3>2, <4>5
        <5>2. Number(attempts[j].times) + Cardinality(Passed(j))
                <= MaxLoginAttempts - 1 + Cardinality(Logins)
          BY <4>5 DEF LoginInv, FailuresCounted
        <5>3. Number(attempts[j].times) \in Nat
          BY <1>2, <4>5, NumberNat DEF EntriesTyped, LoginAttempt
        <5>. QED
          BY <4>3, <4>4, <5>1, <5>2, <5>3, LimiterNumbers
      <4>6. CASE j \notin DOMAIN attempts
        <5>1. Number(attempts'[j].times) = 1
          BY <1>4, <3>2, <4>6
        <5>. QED
          BY <4>3, <4>4, <5>1, LimiterNumbers
      <4>. QED
        BY <4>5, <4>6
    <3>. QED
      BY <3>1, <3>2
  <2>. QED
    BY <2>1 DEF FailuresCounted
<1>. QED
  BY <1>2, <1>3, <1>5, <1>6, <1>7, <1>8 DEF LoginInv, LoginTypes

-----------------------------------------------------------------------------
(* Requests. *)

Held(r, a) == IF a \in DOMAIN r THEN r[a] ELSE NoTimes

\* What was allowed within the window is remembered.
Remembers(r, times, now) ==
  \A a \in Addresses, t \in Minutes :
    now - t < RequestWindow => times[a][t] <= Held(r, a)[t]

TimesFit(times) ==
  \A t \in Minutes :
    SumFunctionOnSet(times, {s \in Minutes : t <= s /\ s < t + RequestWindow})
      <= RequestLimit

RequestsTyped(r) == DOMAIN r \subseteq Addresses /\ \A a \in DOMAIN r : r[a] \in TimesList

RequestInv ==
  /\ minute \in Minutes
  /\ RequestsTyped(requestTimes)
  /\ allowed \in [Addresses -> TimesList]
  /\ \A a \in Addresses, t \in Minutes : t > minute => allowed[a][t] = 0
  /\ Remembers(requestTimes, allowed, minute)
  /\ \A a \in Addresses : TimesFit(allowed[a])
  /\ Cardinality(DOMAIN requestTimes) <= MaxEntries

LEMMA HeldTyped ==
  ASSUME NEW r, RequestsTyped(r), NEW a
  PROVE  Held(r, a) \in TimesList /\ \A t \in Minutes : Held(r, a)[t] \in Nat
<1>1. Held(r, a) \in TimesList
  BY NumberNoTimes DEF Held, RequestsTyped
<1>. QED
  BY <1>1 DEF TimesList

\* One more request fits, if what is remembered leaves room for it.
LEMMA OneMoreFits ==
  ASSUME minute \in Minutes, NEW f \in TimesList, NEW valid \in TimesList,
         \A t \in Minutes : minute - t < RequestWindow => f[t] <= valid[t],
         Number(valid) <= RequestLimit - 1, TimesFit(f)
  PROVE  TimesFit(WithNow(f))
<1> DEFINE g == WithNow(f)
<1>1. /\ g \in TimesList /\ g[minute] = f[minute] + 1
      /\ \A t \in Minutes \ {minute} : g[t] = f[t]
  BY NumberWithNow
<1>2. \A t \in Minutes : f[t] \in Nat /\ g[t] \in Nat /\ valid[t] \in Nat
  BY <1>1 DEF TimesList
<1> HIDE DEF g
<1>3. ASSUME NEW t \in Minutes
      PROVE  SumFunctionOnSet(g, {s \in Minutes : t <= s /\ s < t + RequestWindow})
               <= RequestLimit
  <2> DEFINE T == {s \in Minutes : t <= s /\ s < t + RequestWindow}
             m == minute
  <2>1. IsFiniteSet(T) /\ T \in SUBSET Minutes
    BY MinutesFinite, FS_Subset
  <2>2. SumFunctionOnSet(f, T) <= RequestLimit
    BY DEF TimesFit
  <2>3. CASE m \notin T
    <3>1. \A s \in T : f[s] = g[s] /\ f[s] \in Int /\ g[s] \in Int
      BY <1>1, <1>2, <2>1, <2>3
    <3> HIDE DEF T, m
    <3>2. SumFunctionOnSet(f, T) = SumFunctionOnSet(g, T)
      BY <2>1, <3>1, SumEqual
    <3>. QED
      BY <2>2, <3>2 DEF T
  <2>4. CASE m \in T
    <3>1. \A s \in T : minute - s < RequestWindow
      BY <2>4, MinutesFinite, LimiterNumbers
    <3>2. \A s \in T : f[s] \in Int /\ valid[s] \in Int /\ f[s] <= valid[s]
      BY <1>2, <2>1, <3>1
    <3>3. /\ \A s \in T : f[s] \in Int /\ g[s] \in Int
          /\ \A s \in T \ {m} : f[s] = g[s]
          /\ f[m] \in Int /\ g[m] - f[m] = 1
      BY <1>1, <1>2, <2>1, <2>4
    <3> HIDE DEF T, m
    <3>4. SumFunctionOnSet(f, T) <= SumFunctionOnSet(valid, T)
      BY <2>1, <3>2, SumMonotone
    <3>5. SumFunctionOnSet(g, T) = SumFunctionOnSet(f, T) + (g[m] - f[m])
      BY <2>1, <2>4, <3>3, SumChange
    <3>6. SumFunctionOnSet(valid, T) <= SumFunctionOnSet(valid, Minutes)
      BY <1>2, <2>1, MinutesFinite, SumSubset
    <3>7. /\ SumFunctionOnSet(f, T) \in Int /\ SumFunctionOnSet(valid, T) \in Int
          /\ SumFunctionOnSet(valid, Minutes) \in Int
      <4>1. SumFunctionOnSet(f, T) \in Int /\ SumFunctionOnSet(valid, T) \in Int
        BY <2>1, <3>2, SumInt
      <4>2. SumFunctionOnSet(valid, Minutes) \in Nat
        BY NumberNat DEF Number
      <4>. QED
        BY <4>1, <4>2
    <3>8. SumFunctionOnSet(valid, Minutes) <= RequestLimit - 1
      BY DEF Number
    <3>9. SumFunctionOnSet(g, T) = SumFunctionOnSet(f, T) + 1
      BY <3>3, <3>5
    <3>10. SumFunctionOnSet(g, T) <= RequestLimit
      BY <3>4, <3>6, <3>7, <3>8, <3>9, LimiterNumbers
    <3>. QED
      BY <3>10 DEF T
  <2>. QED
    BY <2>3, <2>4
<1>. QED
  BY <1>3 DEF TimesFit, g

LEMMA NothingFits == TimesFit(NoTimes)
<1>1. ASSUME NEW t \in Minutes
      PROVE  SumFunctionOnSet(NoTimes, {s \in Minutes : t <= s /\ s < t + RequestWindow})
               <= RequestLimit
  <2> DEFINE T == {s \in Minutes : t <= s /\ s < t + RequestWindow}
  <2>1. IsFiniteSet(T) /\ \A s \in T : NoTimes[s] = 0
    BY MinutesFinite, FS_Subset DEF NoTimes
  <2> HIDE DEF T
  <2>2. SumFunctionOnSet(NoTimes, T) = 0
    BY <2>1, SumZero
  <2>. QED
    BY <2>2, LimiterNumbers DEF T
<1>. QED
  BY <1>1 DEF TimesFit

LEMMA RequestInvInit ==
  ASSUME LimiterInit
  PROVE  RequestInv
<1>1. /\ minute = 0 /\ DOMAIN requestTimes = {} /\ allowed = [a \in Addresses |-> NoTimes]
  BY DEF LimiterInit
<1>2. minute \in Minutes
  BY <1>1, LimiterNumbers DEF Minutes
<1>3. /\ allowed \in [Addresses -> TimesList]
      /\ \A a \in Addresses : allowed[a] = NoTimes
      /\ \A a \in Addresses : TimesFit(allowed[a])
  BY <1>1, NumberNoTimes, NothingFits
<1>4. \A t \in Minutes : NoTimes[t] = 0
  BY DEF NoTimes
<1>5. \A a \in Addresses : Held(requestTimes, a) = NoTimes
  BY <1>1 DEF Held
<1>6. Remembers(requestTimes, allowed, minute)
  BY <1>3, <1>4, <1>5 DEF Remembers
<1>7. Cardinality(DOMAIN requestTimes) <= MaxEntries
  BY <1>1, FS_EmptySet, LimiterNumbers
<1>. QED
  BY <1>1, <1>2, <1>3, <1>4, <1>6, <1>7 DEF RequestInv, RequestsTyped

\* The part of the list within the window.
LEMMA RecentRequests ==
  ASSUME RequestInv, NEW a \in DOMAIN requestTimes
  PROVE  /\ Recent(requestTimes[a], RequestWindow) \in TimesList
         /\ \A t \in Minutes : minute - t < RequestWindow =>
              /\ allowed[a][t] <= Recent(requestTimes[a], RequestWindow)[t]
              /\ Recent(requestTimes[a], RequestWindow)[t] = Held(requestTimes, a)[t]
<1>1. /\ requestTimes[a] \in TimesList /\ a \in Addresses /\ minute \in Nat
      /\ Held(requestTimes, a) = requestTimes[a]
  BY MinutesFinite DEF RequestInv, RequestsTyped, Held
<1> DEFINE recent == Recent(requestTimes[a], RequestWindow)
<1>2. /\ recent \in TimesList
      /\ \A t \in Minutes : minute - t < RequestWindow => recent[t] = requestTimes[a][t]
  BY <1>1, NumberRecent, LimiterNumbers
<1> HIDE DEF recent
<1>3. \A t \in Minutes : minute - t < RequestWindow => allowed[a][t] <= requestTimes[a][t]
  BY <1>1 DEF RequestInv, Remembers
<1>. QED
  BY <1>1, <1>2, <1>3 DEF recent

LEMMA AllowedNat ==
  ASSUME RequestInv
  PROVE  /\ minute \in Minutes /\ minute \in Nat
         /\ \A a \in Addresses : /\ allowed[a] \in TimesList
                                 /\ \A t \in Minutes : allowed[a][t] \in Nat
BY MinutesFinite DEF RequestInv, TimesList

LEMMA AllowKeeps ==
  ASSUME RequestInv, NEW ip \in Addresses, Allow(ip)
  PROVE  RequestInv'
<1> DEFINE valid == Recent(requestTimes[ip], RequestWindow)
<1>1. /\ ip \in DOMAIN requestTimes /\ minute' = minute
      /\ Number(valid) >= RequestLimit =>
           requestTimes' = [requestTimes EXCEPT ![ip] = valid] /\ allowed' = allowed
      /\ ~(Number(valid) >= RequestLimit) =>
           /\ requestTimes' = [requestTimes EXCEPT ![ip] = WithNow(valid)]
           /\ allowed' = [allowed EXCEPT ![ip] = WithNow(allowed[ip])]
  BY DEF Allow
<1>2. /\ valid \in TimesList
      /\ \A t \in Minutes : minute - t < RequestWindow =>
           allowed[ip][t] <= valid[t] /\ valid[t] = Held(requestTimes, ip)[t]
  BY <1>1, RecentRequests
<1>3. /\ Number(valid) \in Nat /\ \A t \in Minutes : valid[t] \in Nat
  BY <1>2, NumberNat DEF TimesList
<1> HIDE DEF valid
<1>4. /\ minute \in Minutes /\ minute \in Nat
      /\ \A a \in Addresses : /\ allowed[a] \in TimesList
                              /\ \A t \in Minutes : allowed[a][t] \in Nat
      /\ allowed \in [Addresses -> TimesList]
      /\ RequestsTyped(requestTimes)
  BY AllowedNat DEF RequestInv
<1>5. CASE Number(valid) >= RequestLimit
  <2>1. /\ requestTimes' = [requestTimes EXCEPT ![ip] = valid] /\ allowed' = allowed
        /\ DOMAIN requestTimes' = DOMAIN requestTimes
    BY <1>1, <1>5
  <2>2. RequestsTyped(requestTimes')
    BY <1>2, <1>4, <2>1 DEF RequestsTyped
  <2>3. \A a \in Addresses : /\ a = ip => Held(requestTimes', a) = valid
                             /\ a # ip => Held(requestTimes', a) = Held(requestTimes, a)
    BY <1>1, <2>1 DEF Held
  <2>4. Remembers(requestTimes', allowed', minute')
    BY <1>1, <1>2, <2>1, <2>3 DEF Remembers, RequestInv
  <2>. QED
    BY <1>1, <2>1, <2>2, <2>4 DEF RequestInv
<1>6. CASE ~(Number(valid) >= RequestLimit)
  <2>1. /\ requestTimes' = [requestTimes EXCEPT ![ip] = WithNow(valid)]
        /\ allowed' = [allowed EXCEPT ![ip] = WithNow(allowed[ip])]
        /\ DOMAIN requestTimes' = DOMAIN requestTimes
    BY <1>1, <1>6
  <2>2. /\ WithNow(valid) \in TimesList /\ WithNow(valid)[minute] = valid[minute] + 1
        /\ \A t \in Minutes \ {minute} : WithNow(valid)[t] = valid[t]
    BY <1>2, <1>4, NumberWithNow
  <2>3. /\ WithNow(allowed[ip]) \in TimesList
        /\ WithNow(allowed[ip])[minute] = allowed[ip][minute] + 1
        /\ \A t \in Minutes \ {minute} : WithNow(allowed[ip])[t] = allowed[ip][t]
    BY <1>4, NumberWithNow
  <2>4. RequestsTyped(requestTimes')
    BY <1>4, <2>1, <2>2 DEF RequestsTyped
  <2>5. \A a \in Addresses : /\ a = ip => Held(requestTimes', a) = WithNow(valid)
                             /\ a # ip => Held(requestTimes', a) = Held(requestTimes, a)
    BY <1>1, <2>1 DEF Held
  <2>6. /\ allowed' \in [Addresses -> TimesList]
        /\ allowed'[ip] = WithNow(allowed[ip])
        /\ \A a \in Addresses \ {ip} : allowed'[a] = allowed[a]
    BY <1>4, <2>1, <2>3
  <2>7. ASSUME NEW a \in Addresses, NEW t \in Minutes, minute' - t < RequestWindow
        PROVE  allowed'[a][t] <= Held(requestTimes', a)[t]
    <3>1. CASE a = ip
      <4>1. /\ allowed'[a] = WithNow(allowed[ip]) /\ Held(requestTimes', a) = WithNow(valid)
            /\ minute - t < RequestWindow
        BY <1>1, <2>5, <2>6, <2>7, <3>1
      <4>2. /\ allowed[ip][t] <= valid[t]
            /\ allowed[ip][t] \in Nat /\ valid[t] \in Nat
        BY <1>2, <1>3, <1>4, <4>1
      <4>3. \/ /\ t = minute /\ WithNow(allowed[ip])[t] = allowed[ip][t] + 1
               /\ WithNow(valid)[t] = valid[t] + 1
            \/ /\ WithNow(allowed[ip])[t] = allowed[ip][t]
               /\ WithNow(valid)[t] = valid[t]
        BY <2>2, <2>3
      <4>4. WithNow(allowed[ip])[t] <= WithNow(valid)[t]
        BY <4>2, <4>3
      <4>. QED
        BY <4>1, <4>4
    <3>2. CASE a # ip
      BY <1>1, <2>5, <2>6, <2>7, <3>2 DEF RequestInv, Remembers
    <3>. QED
      BY <3>1, <3>2
  <2>8. Remembers(requestTimes', allowed', minute')
    BY <2>7 DEF Remembers
  <2>9. Number(valid) <= RequestLimit - 1
    BY <1>3, <1>6, LimiterNumbers
  <2>10. TimesFit(WithNow(allowed[ip]))
    BY <1>2, <1>4, <2>9, OneMoreFits DEF RequestInv
  <2>11. \A a \in Addresses : TimesFit(allowed'[a])
    BY <2>6, <2>10 DEF RequestInv
  <2>12. \A a \in Addresses, t \in Minutes : t > minute' => allowed'[a][t] = 0
    BY <1>1, <1>4, <2>3, <2>6 DEF RequestInv
  <2>. QED
    BY <1>1, <1>4, <2>1, <2>4, <2>6, <2>8, <2>11, <2>12 DEF RequestInv
<1>. QED
  BY <1>5, <1>6

\* The list of addresses, cleaned, still remembers.
LEMMA CleanedRequestsSound ==
  ASSUME RequestInv
  PROVE  /\ RequestsTyped(CleanedRequests)
         /\ DOMAIN CleanedRequests \subseteq DOMAIN requestTimes
         /\ Remembers(CleanedRequests, allowed, minute)
<1> DEFINE kept(a) == Recent(requestTimes[a], RequestWindow)
           c == CleanedRequests
<1>1. /\ DOMAIN c = {a \in DOMAIN requestTimes : Number(kept(a)) # 0}
      /\ \A a \in DOMAIN c : c[a] = kept(a)
  BY DEF CleanedRequests
<1>2. \A a \in DOMAIN requestTimes :
        /\ kept(a) \in TimesList
        /\ \A t \in Minutes : minute - t < RequestWindow => allowed[a][t] <= kept(a)[t]
  BY RecentRequests
<1> HIDE DEF kept, c
<1>3. RequestsTyped(c)
  BY <1>1, <1>2 DEF RequestInv, RequestsTyped
<1>4. ASSUME NEW a \in Addresses, NEW t \in Minutes, minute - t < RequestWindow
      PROVE  allowed[a][t] <= Held(c, a)[t]
  <2>1. CASE a \in DOMAIN c
    BY <1>1, <1>2, <1>4, <2>1 DEF Held
  <2>2. CASE a \in DOMAIN requestTimes /\ a \notin DOMAIN c
    <3>1. Number(kept(a)) = 0 /\ Held(c, a) = NoTimes
      BY <1>1, <2>2 DEF Held
    <3>2. kept(a)[t] <= 0 /\ kept(a)[t] \in Nat
      BY <1>2, <2>2, <3>1, NumberNat DEF TimesList
    <3>3. allowed[a][t] <= kept(a)[t] /\ allowed[a][t] \in Nat
      BY <1>2, <1>4, <2>2, AllowedNat
    <3>4. NoTimes[t] = 0
      BY DEF NoTimes
    <3>. QED
      BY <3>1, <3>2, <3>3, <3>4
  <2>3. CASE a \notin DOMAIN requestTimes
    <3>1. Held(c, a) = NoTimes /\ Held(requestTimes, a) = NoTimes
      BY <1>1, <2>3 DEF Held
    <3>. QED
      BY <1>4, <3>1 DEF RequestInv, Remembers
  <2>. QED
    BY <2>1, <2>2, <2>3
<1>. QED
  BY <1>1, <1>3, <1>4 DEF Remembers, c

\* A set of addresses that is not larger.
LEMMA FewerAddresses ==
  ASSUME NEW A \in SUBSET Addresses, NEW B \in SUBSET A, Cardinality(A) <= MaxEntries
  PROVE  IsFiniteSet(B) /\ Cardinality(B) \in Nat /\ Cardinality(B) <= MaxEntries
<1>1. IsFiniteSet(A)
  BY KeysFinite, FS_Subset
<1>2. /\ IsFiniteSet(B) /\ Cardinality(B) <= Cardinality(A)
      /\ Cardinality(A) \in Nat /\ Cardinality(B) \in Nat
  BY <1>1, FS_Subset, FS_CardinalityType
<1>. QED
  BY <1>2, LimiterNumbers

LEMMA CleanupRequestsKeeps ==
  ASSUME RequestInv, CleanupRequests
  PROVE  RequestInv'
<1>1. /\ requestTimes' = CleanedRequests /\ minute' = minute /\ allowed' = allowed
  BY DEF CleanupRequests
<1>2. /\ RequestsTyped(requestTimes') /\ DOMAIN requestTimes' \subseteq DOMAIN requestTimes
      /\ Remembers(requestTimes', allowed', minute')
  BY <1>1, CleanedRequestsSound
<1>3. Cardinality(DOMAIN requestTimes') <= MaxEntries
  BY <1>2, FewerAddresses DEF RequestInv, RequestsTyped
<1>. QED
  BY <1>1, <1>2, <1>3 DEF RequestInv

\* Room for one more address.
LEMMA RoomForAddress ==
  ASSUME NEW r, RequestsTyped(r), Cardinality(DOMAIN r) <= MaxEntries,
         NEW gone \in Oldest(r), NEW ip \in Addresses, ip \notin DOMAIN r
  PROVE  gone \subseteq DOMAIN r /\ Cardinality((DOMAIN r \ gone) \cup {ip}) <= MaxEntries
<1> DEFINE held == DOMAIN r
           rest == held \ gone
<1>1. IsFiniteSet(held) /\ Cardinality(held) \in Nat
  BY KeysFinite, FS_Subset, FS_CardinalityType DEF RequestsTyped
<1>2. CASE Cardinality(held) < MaxEntries
  <2>1. gone = {} /\ rest = held
    BY <1>2 DEF Oldest
  <2>2. Cardinality(held \cup {ip}) = Cardinality(held) + 1
    BY <1>1, FS_AddElement
  <2>. QED
    BY <1>1, <1>2, <2>1, <2>2, LimiterNumbers
<1>3. CASE ~(Cardinality(held) < MaxEntries)
  <2>1. PICK x \in held : gone = {x}
    BY <1>3 DEF Oldest
  <2>2. IsFiniteSet(rest) /\ Cardinality(rest) = Cardinality(held) - 1
    BY <1>1, <2>1, FS_RemoveElement
  <2>3. Cardinality(rest \cup {ip}) = Cardinality(rest) + 1
    BY <2>2, FS_AddElement
  <2>. QED
    BY <1>1, <2>1, <2>2, <2>3, LimiterNumbers
<1>. QED
  BY <1>2, <1>3

LEMMA AllowNewKeeps ==
  ASSUME RequestInv, NEW ip \in Addresses, AllowNew(ip)
  PROVE  RequestInv'
<1> DEFINE kept == IF Cardinality(DOMAIN requestTimes) >= MaxEntries THEN CleanedRequests
                   ELSE requestTimes
           one == WithNow(NoTimes)
           more == WithNow(allowed[ip])
<1>1. PICK gone \in Oldest(kept) :
        /\ requestTimes' = Put(WithoutEntries(kept, gone), ip, one)
        /\ allowed' = [a \in Addresses |-> IF a \in gone THEN NoTimes
                                           ELSE IF a = ip THEN WithNow(allowed[a])
                                           ELSE allowed[a]]
  BY DEF AllowNew
<1>2. ip \notin DOMAIN requestTimes /\ minute' = minute
  BY DEF AllowNew
<1>3. /\ RequestsTyped(kept) /\ DOMAIN kept \subseteq DOMAIN requestTimes
      /\ Remembers(kept, allowed, minute)
  BY CleanedRequestsSound DEF RequestInv
<1> HIDE DEF kept
<1>4. Cardinality(DOMAIN kept) <= MaxEntries /\ ip \notin DOMAIN kept
  BY <1>2, <1>3, FewerAddresses DEF RequestInv, RequestsTyped
<1>5. /\ gone \subseteq DOMAIN kept /\ ip \notin gone
      /\ Cardinality((DOMAIN kept \ gone) \cup {ip}) <= MaxEntries
  BY <1>1, <1>3, <1>4, RoomForAddress
<1>6. /\ minute \in Minutes /\ minute \in Nat
      /\ \A a \in Addresses : /\ allowed[a] \in TimesList
                              /\ \A t \in Minutes : allowed[a][t] \in Nat
      /\ NoTimes \in TimesList /\ Number(NoTimes) = 0
      /\ \A t \in Minutes : NoTimes[t] = 0
  BY AllowedNat, NumberNoTimes DEF NoTimes
<1>7. /\ one \in TimesList /\ one[minute] = NoTimes[minute] + 1
      /\ \A t \in Minutes \ {minute} : one[t] = NoTimes[t]
  BY <1>6, NumberWithNow
<1>8. /\ more \in TimesList /\ more[minute] = allowed[ip][minute] + 1
      /\ \A t \in Minutes \ {minute} : more[t] = allowed[ip][t]
  BY <1>6, NumberWithNow
<1> HIDE DEF one, more
<1>9. /\ DOMAIN requestTimes' = (DOMAIN kept \ gone) \cup {ip}
      /\ requestTimes'[ip] = one
      /\ \A a \in DOMAIN requestTimes' \ {ip} : requestTimes'[a] = kept[a]
  BY <1>1 DEF Put, WithoutEntries
<1>10. RequestsTyped(requestTimes')
  BY <1>3, <1>7, <1>9 DEF RequestsTyped
<1>11. /\ \A a \in gone : a \in Addresses /\ allowed'[a] = NoTimes
       /\ allowed'[ip] = more
       /\ \A a \in Addresses : a \notin gone /\ a # ip => allowed'[a] = allowed[a]
  BY <1>1, <1>3, <1>5 DEF more, RequestsTyped
<1>12. allowed' \in [Addresses -> TimesList]
  <2>1. \A a \in Addresses : allowed'[a] \in TimesList
    BY <1>6, <1>8, <1>11
  <2>. QED
    BY <1>1, <2>1
<1>13. \A t \in Minutes : minute - t < RequestWindow => allowed[ip][t] <= NoTimes[t]
  BY <1>3, <1>4 DEF Remembers, Held
<1>14. ASSUME NEW a \in Addresses, NEW t \in Minutes, minute - t < RequestWindow
       PROVE  allowed'[a][t] <= Held(requestTimes', a)[t]
  <2>1. CASE a \in gone
    <3>1. allowed'[a] = NoTimes /\ a \notin DOMAIN requestTimes'
      BY <1>5, <1>9, <1>11, <2>1
    <3>2. Held(requestTimes', a) = NoTimes
      BY <3>1 DEF Held
    <3>. QED
      BY <1>6, <3>1, <3>2
  <2>2. CASE a = ip
    <3>1. allowed'[a] = more /\ Held(requestTimes', a) = one
      BY <1>9, <1>11, <2>2 DEF Held
    <3>2. allowed[ip][t] = 0
      BY <1>6, <1>13, <1>14
    <3>3. more[t] = one[t]
      BY <1>6, <1>7, <1>8, <3>2
    <3>4. one[t] \in Nat
      BY <1>7 DEF TimesList
    <3>. QED
      BY <3>1, <3>3, <3>4
  <2>3. CASE a \notin gone /\ a # ip
    <3>1. allowed'[a] = allowed[a] /\ Held(requestTimes', a) = Held(kept, a)
      BY <1>9, <1>11, <2>3 DEF Held
    <3>. QED
      BY <1>3, <1>14, <3>1 DEF Remembers
  <2>. QED
    BY <2>1, <2>2, <2>3
<1>15. Remembers(requestTimes', allowed', minute')
  BY <1>2, <1>14 DEF Remembers
<1>16. TimesFit(more)
  <2>1. Number(NoTimes) <= RequestLimit - 1
    BY <1>6, LimiterNumbers
  <2>. QED
    BY <1>6, <1>13, <2>1, OneMoreFits DEF RequestInv, more
<1>17. \A a \in Addresses : TimesFit(allowed'[a])
  BY <1>11, <1>16, NothingFits DEF RequestInv
<1>18. ASSUME NEW a \in Addresses, NEW t \in Minutes, t > minute'
       PROVE  allowed'[a][t] = 0
  <2>1. allowed[a][t] = 0 /\ t # minute
    BY <1>2, <1>6, <1>18 DEF RequestInv
  <2>. QED
    BY <1>6, <1>8, <1>11, <2>1
<1>. QED
  BY <1>2, <1>5, <1>6, <1>9, <1>10, <1>12, <1>15, <1>17, <1>18 DEF RequestInv

LEMMA RequestMinute ==
  ASSUME RequestInv, Minute
  PROVE  RequestInv'
<1>1. /\ requestTimes' = requestTimes /\ allowed' = allowed
      /\ minute' = minute + 1 /\ minute < EndOfTime
  BY DEF Minute, RequestState
<1>2. /\ minute \in Minutes /\ minute \in Nat
      /\ \A a \in Addresses, t \in Minutes : allowed[a][t] \in Nat
  BY AllowedNat
<1>3. minute' \in Minutes
  BY <1>1, <1>2, LimiterNumbers DEF Minutes
<1>4. \A t \in Minutes : t \in Nat
  BY MinutesFinite
<1>5. \A a \in Addresses, t \in Minutes : t > minute' => allowed'[a][t] = 0
  BY <1>1, <1>2, <1>4 DEF RequestInv
<1>6. ASSUME NEW a \in Addresses, NEW t \in Minutes, minute' - t < RequestWindow
      PROVE  allowed'[a][t] <= Held(requestTimes', a)[t]
  <2>1. minute - t < RequestWindow
    BY <1>1, <1>2, <1>4, <1>6, LimiterNumbers
  <2>. QED
    BY <1>1, <2>1 DEF RequestInv, Remembers
<1>7. Remembers(requestTimes', allowed', minute')
  BY <1>6 DEF Remembers
<1>. QED
  BY <1>1, <1>3, <1>5, <1>7 DEF RequestInv

LEMMA RequestStutter ==
  ASSUME RequestInv, UNCHANGED <<minute, RequestState>>
  PROVE  RequestInv'
<1>1. minute' = minute /\ requestTimes' = requestTimes /\ allowed' = allowed
  BY DEF RequestState
<1>. QED
  BY <1>1 DEF RequestInv

-----------------------------------------------------------------------------
(* The limits and the locks. *)

LimiterInv == LoginInv /\ RequestInv

LEMMA LimiterStep ==
  ASSUME LimiterInv, [LimiterNext]_limiterVars
  PROVE  LimiterInv'
<1>1. CASE LoginNext
  <2>1. RequestInv'
    BY <1>1, RequestStutter
    DEF LimiterInv, LoginNext, CheckIP, CheckAccount, RecordAttempt, ResetAccount,
        LoginFails, Cleanup
  <2>2. LoginInv'
    BY <1>1, CheckIPKeeps, CheckAccountKeeps, RecordAttemptKeeps, ResetAccountKeeps,
       LoginFailsKeeps, CleanupKeeps DEF LimiterInv, LoginNext
  <2>. QED
    BY <2>1, <2>2 DEF LimiterInv
<1>2. CASE RequestNext
  <2>1. LoginInv'
    BY <1>2, LoginStutter DEF LimiterInv, RequestNext, Allow, AllowNew, CleanupRequests
  <2>2. RequestInv'
    BY <1>2, AllowKeeps, AllowNewKeeps, CleanupRequestsKeeps DEF LimiterInv, RequestNext
  <2>. QED
    BY <2>1, <2>2 DEF LimiterInv
<1>3. CASE Minute
  BY <1>3, MinuteKeeps, RequestMinute DEF LimiterInv
<1>4. CASE UNCHANGED limiterVars
  BY <1>4, LoginStutter, RequestStutter DEF limiterVars, LimiterInv, LimiterState,
     RequestState
<1>. QED
  BY <1>1, <1>2, <1>3, <1>4 DEF LimiterNext

LEMMA LimiterInvHolds == LimiterSpec => []LimiterInv
<1>1. LimiterInit => LimiterInv
  BY LoginInvInit, RequestInvInit DEF LimiterInv
<1>2. LimiterInv /\ [LimiterNext]_limiterVars => LimiterInv'
  BY LimiterStep
<1>. QED
  BY <1>1, <1>2, PTL DEF LimiterSpec

\* What the invariant says of the limits.
LEMMA LimitsFollow ==
  ASSUME LimiterInv
  PROVE  LimitsHold
<1>1. FailuresAreBounded
  <2>1. ASSUME NEW k \in DOMAIN attempts
        PROVE  Number(attempts[k].times) <= MaxLoginAttempts - 1 + Cardinality(Logins)
    <3>1. Number(attempts[k].times) + Cardinality(Passed(k))
            <= MaxLoginAttempts - 1 + Cardinality(Logins)
      BY DEF LimiterInv, LoginInv, FailuresCounted
    <3>2. Cardinality(Passed(k)) \in Nat /\ Cardinality(Logins) \in Nat
      BY PassedLogins, FewerLogins
    <3>3. Number(attempts[k].times) \in Nat
      BY NumberNat DEF LimiterInv, LoginInv, LoginTypes, EntriesTyped, LoginAttempt
    <3>. QED
      BY <3>1, <3>2, <3>3, LimiterNumbers
  <2>. QED
    BY <2>1 DEF FailuresAreBounded
<1>2. RequestsAreBounded
  BY DEF LimiterInv, RequestInv, TimesFit, RequestsAreBounded
<1>3. MapsAreBounded
  BY DEF LimiterInv, LoginInv, EntriesFit, RequestInv, MapsAreBounded
<1>. QED
  BY <1>1, <1>2, <1>3 DEF LimitsHold

(* However many addresses, accounts and logins there are: the failures a    *)
(* key collects, the requests an address gets through in any window, and    *)
(* the entries of the maps stay within the limits of rate_limiter.go.       *)
THEOREM LimitsAlwaysHold == LimiterSpec => []LimitsHold
<1>1. LimiterInv => LimitsHold
  BY LimitsFollow
<1>. QED
  BY <1>1, LimiterInvHolds, PTL

\* A check that is passed comes after the lock.
LEMMA PassedAfterLock ==
  ASSUME LoginInv, NEW k \in LimiterKeys, Checked(k).ok
  PROVE  minute >= refusedTill[k]
<1> DEFINE c == Checked(k)
<1>1. CheckResult(k, c)
  BY CheckedSound DEF LoginInv
<1> HIDE DEF c
<1>2. c.ok
  BY DEF c
<1>3. k \in DOMAIN attempts => minute >= attempts[k].until
  BY <1>1, <1>2 DEF CheckResult
<1>4. refusedTill[k] > minute => k \in DOMAIN attempts /\ attempts[k].until >= refusedTill[k]
  BY DEF LoginInv, LocksKept
<1>5. minute \in Nat /\ refusedTill[k] \in Int /\
      (k \in DOMAIN attempts => attempts[k].until \in Int)
  BY MinutesFinite DEF LoginInv, LoginTypes, EntriesTyped, LoginAttempt
<1>. QED
  BY <1>3, <1>4, <1>5

\* What LocksHold says of one step.
LockStep ==
  \A l \in Logins :
    /\ logins[l].pc = "idle" /\ logins'[l].pc = "account"
         => minute >= refusedTill[logins'[l].ip]
    /\ logins[l].pc = "account" /\ logins'[l].pc = "judge"
         => minute >= refusedTill[logins[l].account]

LEMMA LockStepHolds ==
  ASSUME LimiterInv, [LimiterNext]_limiterVars
  PROVE  [LockStep]_limiterVars
<1>1. /\ LoginInv /\ LoginTypes /\ logins \in [Logins -> LoginCall]
      /\ NoLogin.pc = "idle"
  BY IdleLogin DEF LimiterInv, LoginInv, LoginTypes
<1>2. ASSUME NEW l \in Logins, NEW ip \in Addresses, NEW account \in Accounts,
             CheckIP(l, ip, account)
      PROVE  LockStep
  <2>1. ip \in LimiterKeys
    BY DEF LimiterKeys
  <2>2. CASE Checked(ip).ok
    <3> DEFINE r == [pc |-> "account", ip |-> ip, account |-> account]
    <3>1. logins' = [logins EXCEPT ![l] = r] /\ logins[l].pc = "idle"
      BY <1>2, <2>2 DEF CheckIP
    <3>2. r.ip = ip /\ r.pc = "account"
      OBVIOUS
    <3> HIDE DEF r
    <3>3. minute >= refusedTill[ip]
      BY <1>1, <2>1, <2>2, PassedAfterLock
    <3>4. \A m \in Logins : IF m = l THEN logins'[m] = r ELSE logins'[m] = logins[m]
      BY <1>1, <3>1
    <3>. QED
      BY <3>1, <3>2, <3>3, <3>4 DEF LockStep
  <2>3. CASE ~Checked(ip).ok
    <3>1. logins' = logins
      BY <1>2, <2>3 DEF CheckIP
    <3>. QED
      BY <3>1 DEF LockStep
  <2>. QED
    BY <2>2, <2>3
<1>3. ASSUME NEW l \in Logins, CheckAccount(l)
      PROVE  LockStep
  <2> DEFINE k == logins[l].account
             c == Checked(k)
             r == IF c.ok THEN [logins[l] EXCEPT !.pc = "judge"] ELSE NoLogin
  <2>1. /\ logins' = [logins EXCEPT ![l] = r] /\ logins[l].pc = "account"
        /\ k \in LimiterKeys
    BY <1>1, <1>3 DEF CheckAccount, LoginTypes, LimiterKeys
  <2>2. /\ c.ok => minute >= refusedTill[k]
        /\ ~c.ok => r.pc = "idle"
    BY <1>1, <2>1, PassedAfterLock
  <2> HIDE DEF c, r
  <2>3. \A m \in Logins : IF m = l THEN logins'[m] = r ELSE logins'[m] = logins[m]
    BY <1>1, <2>1
  <2>. QED
    BY <2>1, <2>2, <2>3 DEF LockStep
<1>4. ASSUME NEW l \in Logins, logins' = [logins EXCEPT ![l] = NoLogin]
      PROVE  LockStep
  <2>1. \A m \in Logins : IF m = l THEN logins'[m] = NoLogin ELSE logins'[m] = logins[m]
    BY <1>1, <1>4
  <2>. QED
    BY <1>1, <2>1 DEF LockStep
<1>5. ASSUME logins' = logins
      PROVE  LockStep
  BY <1>5 DEF LockStep
<1>6. CASE LoginNext
  <2>1. ASSUME NEW l \in Logins, RecordAttempt(l) \/ ResetAccount(l) \/ LoginFails(l)
        PROVE  LockStep
    BY <1>4, <2>1 DEF RecordAttempt, ResetAccount, LoginFails
  <2>2. ASSUME Cleanup PROVE LockStep
    BY <1>5, <2>2 DEF Cleanup
  <2>. QED
    BY <1>2, <1>3, <1>6, <2>1, <2>2 DEF LoginNext
<1>7. CASE RequestNext
  BY <1>5, <1>7 DEF RequestNext, Allow, AllowNew, CleanupRequests, LimiterState
<1>8. CASE Minute
  BY <1>5, <1>8 DEF Minute, LimiterState
<1>. QED
  BY <1>6, <1>7, <1>8 DEF LimiterNext

(* A lock that a key was told of keeps: no login gets past the check of its *)
(* address or of its account before the end of the lock, whatever is        *)
(* cleaned, recorded or checked in between.                                 *)
THEOREM LocksAlwaysHold == LimiterSpec => LocksHold
<1>1. LimiterInv /\ [LimiterNext]_limiterVars => [LockStep]_limiterVars
  BY LockStepHolds
<1>. QED
  BY <1>1, LimiterInvHolds, PTL DEF LimiterSpec, LocksHold, LockStep

-----------------------------------------------------------------------------
(***************************************************************************)
(* AI reports.  Whoever uses a lock uses the one the map holds for its     *)
(* kind, and its references are its users: so the map keeps it until the   *)
(* last of them leaves, and two callers for a kind wait for each other.    *)
(* And a kind that is not marked for a day has run that day only in the    *)
(* round that is on, or before a restart.                                  *)
(***************************************************************************)
Using == {"lock", "look", "permit", "call", "leave", "drop"}
Holding == {"look", "permit", "call", "leave"}

\* What a caller is doing, as a record, whatever report it has.
CallerShape(r) ==
  r = [pc |-> r.pc, kind |-> r.kind, lock |-> r.lock, report |-> r.report,
       facts |-> r.facts, rev |-> r.rev, since |-> r.since]

CallerRow(r) ==
  /\ CallerShape(r)
  /\ r.pc \in {"rest", "enter"} \cup Using
  /\ r.pc # "rest" => r.kind \in Kinds

CallersTyped ==
  /\ gen = [c \in Generators |-> gen[c]]
  /\ \A c \in Generators : CallerRow(gen[c])

\* What a caller has got is no older than its request, which is in the past.
FreshRow(r, now, rev) ==
  /\ r.pc # "rest" => /\ r.since[1] \in Int /\ r.since[2] \in Int
                      /\ r.since[1] <= now /\ r.since[2] <= rev
  /\ r.pc \in {"enter", "lock", "look"} => r.report = 0
  /\ r.pc \in {"permit", "call"} \/ (r.pc = "leave" /\ r.report # 0) =>
       /\ r.facts \in Int /\ r.rev \in Int
       /\ r.facts >= r.since[1] /\ r.rev >= r.since[2]

CallersFresh ==
  /\ facts \in Int /\ provider.rev \in Int
  /\ \A c \in Generators : FreshRow(gen[c], facts, provider.rev)

Users(e) == {c \in Generators : gen[c].pc \in Using /\ gen[c].lock = e}
Calling == {c \in Generators : gen[c].pc = "call"}

LocksTyped ==
  /\ entries \in [Kinds -> LockIds \cup {NoLock}]
  /\ locks \in [LockIds -> [refs : Nat, holder : Generators \cup {NoCaller}]]

\* A user of a lock found it in the map, where it stays; a holder has it alone.
LocksUsed ==
  \A c \in Generators :
    /\ gen[c].pc \in Using => /\ gen[c].lock \in LockIds
                              /\ entries[gen[c].kind] = gen[c].lock
    /\ gen[c].pc \in Holding => locks[gen[c].lock].holder = c

RefsAreUsers == \A e \in LockIds : locks[e].refs = Cardinality(Users(e))

LockInv == LocksTyped /\ LocksUsed /\ RefsAreUsers

ScheduleTypes ==
  /\ day \in 0..MaxReportDay /\ aiRestarts \in Nat
  /\ schedule = [kinds |-> schedule.kinds, marks |-> schedule.marks]
  /\ schedule.marks \in [Kinds -> Int]
  /\ \A k \in Kinds : schedule.marks[k] <= day
  /\ round \in [on : BOOLEAN, todo : SUBSET Kinds, done : SUBSET Kinds,
                day : 0..MaxReportDay, forced : BOOLEAN]
  /\ schedule.kinds \subseteq Kinds
  /\ automatic \in [Kinds -> [0..MaxReportDay -> Nat]]

\* What the round is to generate on its own is not marked yet.
RoundIsDue ==
  round.on =>
    /\ round.day <= day
    /\ ~round.forced => \A k \in round.todo :
         schedule.marks[k] < round.day /\ k \notin round.done

\* The round has already run the kind for the day, and will mark it.
RunInRound(k, d) == round.on /\ ~round.forced /\ round.day = d /\ k \in round.done

RunsAreMarked ==
  \A k \in Kinds, d \in 0..MaxReportDay :
    /\ automatic[k][d] <= 1 + aiRestarts
    /\ schedule.marks[k] < d /\ ~RunInRound(k, d) => automatic[k][d] <= aiRestarts

RoundInv == ScheduleTypes /\ RoundIsDue /\ RunsAreMarked

AIInv ==
  /\ CallersTyped /\ CallersFresh /\ LockInv /\ SlotsAreCalls
  /\ RoundInv

-----------------------------------------------------------------------------
LEMMA AINumbers ==
  /\ MaxConcurrent \in Nat \ {0} /\ MaxReportAttempts \in Nat \ {0}
  /\ MaxReportDay \in Nat /\ MaxReports \in Nat /\ MaxVersion \in Nat
  /\ MaxRestarts \in Nat
BY AIReportAssumption

LEMMA GeneratorsFinite ==
  /\ IsFiniteSet(Generators) /\ Scheduler \in Generators
  /\ ReportRequests \subseteq Generators /\ NoCaller \notin Generators
BY AIReportAssumption, FS_AddElement DEF Generators

LEMMA CallersCounted ==
  ASSUME NEW A \in SUBSET Generators
  PROVE  /\ IsFiniteSet(A) /\ Cardinality(A) \in Nat
         /\ \A c : c \in A => Cardinality(A \ {c}) = Cardinality(A) - 1
         /\ \A c : c \notin A => Cardinality(A \cup {c}) = Cardinality(A) + 1
         /\ Cardinality(A) = 0 <=> A = {}
<1>1. IsFiniteSet(A)
  BY GeneratorsFinite, FS_Subset
<1>. QED
  BY <1>1, FS_CardinalityType, FS_AddElement, FS_RemoveElement, FS_EmptySet

LEMMA ShapeKept ==
  ASSUME NEW x, CallerShape(x), NEW p, NEW k, NEW e, NEW i, NEW f, NEW v, NEW s
  PROVE  /\ CallerShape([x EXCEPT !.pc = p])
         /\ CallerShape([x EXCEPT !.pc = p, !.lock = e])
         /\ CallerShape([x EXCEPT !.pc = p, !.report = i])
         /\ CallerShape([x EXCEPT !.pc = p, !.kind = k, !.since = s])
         /\ CallerShape([x EXCEPT !.pc = p, !.report = i, !.facts = f, !.rev = v])
<1>. DEFINE y == [x EXCEPT !.pc = p]
            z == [y EXCEPT !.lock = e]
            a == [y EXCEPT !.report = i]
            b == [a EXCEPT !.facts = f]
            c == [b EXCEPT !.rev = v]
            d == [y EXCEPT !.kind = k]
            w == [d EXCEPT !.since = s]
<1>1. CallerShape(y)
  BY DEF CallerShape
<1> HIDE DEF y
<1>2. CallerShape(z)
  BY <1>1 DEF CallerShape
<1>3. CallerShape(a)
  BY <1>1 DEF CallerShape
<1>4. CallerShape(d)
  BY <1>1 DEF CallerShape
<1> HIDE DEF z, a, d
<1>5. CallerShape(b)
  BY <1>3 DEF CallerShape
<1>6. CallerShape(w)
  BY <1>4 DEF CallerShape
<1> HIDE DEF b, w
<1>7. CallerShape(c)
  BY <1>5 DEF CallerShape
<1> HIDE DEF c
<1>8. /\ y = [x EXCEPT !.pc = p] /\ z = [x EXCEPT !.pc = p, !.lock = e]
      /\ a = [x EXCEPT !.pc = p, !.report = i]
      /\ w = [x EXCEPT !.pc = p, !.kind = k, !.since = s]
      /\ c = [x EXCEPT !.pc = p, !.report = i, !.facts = f, !.rev = v]
  BY DEF y, z, a, b, c, d, w
<1>. QED
  BY <1>1, <1>2, <1>3, <1>6, <1>7, <1>8

LEMMA RestingRow ==
  /\ CallerRow(ReportResting) /\ ReportResting.pc = "rest"
  /\ \A now, rev : FreshRow(ReportResting, now, rev)
BY DEF CallerRow, CallerShape, FreshRow, ReportResting, Using

\* One caller moves on, to the row r.
Moves(c, r) ==
  /\ gen' = [gen EXCEPT ![c] = r]
  /\ CallerRow(r) /\ FreshRow(r, facts, provider.rev)
  /\ facts' = facts /\ provider' = provider

LEMMA MoveTyped ==
  ASSUME CallersTyped, NEW c \in Generators, NEW r, gen' = [gen EXCEPT ![c] = r]
  PROVE  /\ gen' = [d \in Generators |-> gen'[d]]
         /\ \A d \in Generators : gen'[d] = IF d = c THEN r ELSE gen[d]
<1>1. DOMAIN gen = Generators
  BY DEF CallersTyped
<1>. QED
  BY <1>1

LEMMA MoveKeeps ==
  ASSUME CallersTyped, CallersFresh, NEW c \in Generators, NEW r, Moves(c, r)
  PROVE  /\ CallersTyped' /\ CallersFresh'
         /\ \A d \in Generators \ {c} : gen'[d] = gen[d]
         /\ gen'[c] = r
         /\ \A e : /\ r.pc \in Using /\ r.lock = e => Users(e)' = Users(e) \cup {c}
                   /\ ~(r.pc \in Using /\ r.lock = e) => Users(e)' = Users(e) \ {c}
         /\ r.pc = "call" => Calling' = Calling \cup {c}
         /\ r.pc # "call" => Calling' = Calling \ {c}
<1>1. gen' = [d \in Generators |-> gen'[d]]
  BY MoveTyped DEF Moves
<1>2. gen'[c] = r /\ \A d \in Generators \ {c} : gen'[d] = gen[d]
  BY MoveTyped DEF Moves
<1>3. CallersTyped'
  BY <1>1, <1>2 DEF Moves, CallersTyped
<1>4. CallersFresh'
  BY <1>2 DEF Moves, CallersFresh
<1>5. ASSUME NEW e
      PROVE  /\ r.pc \in Using /\ r.lock = e => Users(e)' = Users(e) \cup {c}
             /\ ~(r.pc \in Using /\ r.lock = e) => Users(e)' = Users(e) \ {c}
  BY <1>2 DEF Users
<1>6. /\ r.pc = "call" => Calling' = Calling \cup {c}
      /\ r.pc # "call" => Calling' = Calling \ {c}
  BY <1>2 DEF Calling
<1>. QED
  BY <1>2, <1>3, <1>4, <1>5, <1>6

\* A caller that goes on with the lock it uses, and holds no more than before.
SameLock(r, q) ==
  /\ q.pc \in Using <=> r.pc \in Using
  /\ r.pc \in Using => q.lock = r.lock /\ q.kind = r.kind
  /\ q.pc \in Holding => r.pc \in Holding

LEMMA SameLockKeeps ==
  ASSUME CallersTyped, CallersFresh, LockInv, NEW c \in Generators, NEW r, Moves(c, r),
         SameLock(gen[c], r), UNCHANGED <<entries, locks>>
  PROVE  LockInv'
<1>1. /\ \A d \in Generators \ {c} : gen'[d] = gen[d]
      /\ gen'[c] = r
      /\ \A e : /\ r.pc \in Using /\ r.lock = e => Users(e)' = Users(e) \cup {c}
                /\ ~(r.pc \in Using /\ r.lock = e) => Users(e)' = Users(e) \ {c}
  BY MoveKeeps
<1>2. \A e : Users(e)' = Users(e)
  BY <1>1 DEF SameLock, Users
<1>3. LocksUsed'
  <2>1. Holding \subseteq Using
    BY DEF Holding, Using
  <2>. QED
    BY <1>1, <2>1 DEF LockInv, LocksUsed, SameLock
<1>4. LocksTyped'
  BY DEF LockInv, LocksTyped
<1>5. RefsAreUsers'
  BY <1>2 DEF LockInv, RefsAreUsers
<1>. QED
  BY <1>3, <1>4, <1>5 DEF LockInv

-----------------------------------------------------------------------------
(* Generate. *)

\* What a step of a caller leaves alone.
GenerateFrame == UNCHANGED <<facts, provider, scheduleVars, aiRestarts>>

\* A caller that neither begins nor ends a call.
LEMMA SameCalls ==
  ASSUME CallersTyped, CallersFresh, SlotsAreCalls, NEW c \in Generators, NEW r,
         Moves(c, r), r.pc # "call", gen[c].pc # "call", activeCalls' = activeCalls
  PROVE  SlotsAreCalls'
<1>1. Calling' = Calling \ {c}
  BY MoveKeeps
<1>2. Calling' = Calling
  BY <1>1 DEF Calling
<1>. QED
  BY <1>2 DEF SlotsAreCalls, Calling

CallerInv == CallersTyped /\ CallersFresh /\ LockInv /\ SlotsAreCalls

LEMMA QuietMove ==
  ASSUME CallerInv, NEW c \in Generators, NEW r, Moves(c, r), SameLock(gen[c], r),
         r.pc # "call", gen[c].pc # "call", UNCHANGED <<entries, locks, activeCalls>>
  PROVE  CallerInv'
<1>1. CallersTyped' /\ CallersFresh'
  BY MoveKeeps DEF CallerInv
<1>2. LockInv'
  BY SameLockKeeps DEF CallerInv
<1>3. SlotsAreCalls'
  BY SameCalls DEF CallerInv
<1>. QED
  BY <1>1, <1>2, <1>3 DEF CallerInv

LEMMA RowOf ==
  ASSUME CallerInv, NEW c \in Generators
  PROVE  /\ CallerRow(gen[c]) /\ FreshRow(gen[c], facts, provider.rev)
         /\ facts \in Int /\ provider.rev \in Int
BY DEF CallerInv, CallersTyped, CallersFresh

LEMMA AskKeeps ==
  ASSUME CallerInv, NEW c \in Generators, NEW kind \in Kinds, gen[c].pc = "rest",
         AskReport(c, kind), UNCHANGED <<facts, provider, entries, locks, activeCalls>>
  PROVE  CallerInv'
<1> DEFINE asked == [ReportResting EXCEPT !.pc = "enter", !.kind = kind,
                                          !.since = <<facts, provider.rev>>]
           r == IF provider.enabled THEN asked ELSE ReportResting
<1>1. gen' = [gen EXCEPT ![c] = r]
  BY DEF AskReport
<1>2. facts \in Int /\ provider.rev \in Int
  BY RowOf
<1>3. /\ asked.pc = "enter" /\ asked.kind = kind /\ asked.report = 0
      /\ asked.since = <<facts, provider.rev>>
  BY DEF ReportResting
<1>30. CallerShape(asked)
  BY RestingRow, ShapeKept DEF CallerRow
<1> HIDE DEF asked
<1>31. CallerRow(asked) /\ FreshRow(asked, facts, provider.rev)
  BY <1>2, <1>3, <1>30 DEF CallerRow, FreshRow
<1>4. /\ CallerRow(r) /\ FreshRow(r, facts, provider.rev) /\ r.pc \in {"rest", "enter"}
  BY <1>3, <1>31, RestingRow
<1> HIDE DEF r
<1>5. Moves(c, r)
  BY <1>1, <1>4 DEF Moves
<1>6. SameLock(gen[c], r)
  BY <1>4 DEF SameLock, Using, Holding
<1>. QED
  BY <1>4, <1>5, <1>6, QuietMove

LEMMA EnterKeeps ==
  ASSUME CallerInv, NEW c \in Generators, Enter(c)
  PROVE  CallerInv'
<1> DEFINE k == gen[c].kind
<1>1. PICK e \in IF entries[k] = NoLock
                 THEN {f \in FreeLocks : \A g \in FreeLocks : f <= g}
                 ELSE {entries[k]} :
        /\ entries' = [entries EXCEPT ![k] = e]
        /\ locks' = [locks EXCEPT ![e].refs = @ + 1]
        /\ gen' = [gen EXCEPT ![c].pc = "lock", ![c].lock = e]
  BY DEF Enter
<1>2. /\ gen[c].pc = "enter" /\ UNCHANGED <<facts, provider, activeCalls>>
  BY DEF Enter
<1>3. /\ CallerRow(gen[c]) /\ FreshRow(gen[c], facts, provider.rev) /\ k \in Kinds
      /\ DOMAIN gen = Generators
      /\ LocksTyped /\ LocksUsed /\ RefsAreUsers
  BY <1>2, RowOf DEF CallerRow, CallerInv, CallersTyped, LockInv
<1>4. e \in LockIds
  BY <1>1, <1>3 DEF LocksTyped, FreeLocks
<1> DEFINE r == [gen[c] EXCEPT !.pc = "lock", !.lock = e]
<1>5. gen' = [gen EXCEPT ![c] = r]
  BY <1>1, <1>3
<1>6. /\ r.pc = "lock" /\ r.lock = e /\ r.kind = k /\ r.since = gen[c].since
      /\ r.report = gen[c].report
      /\ CallerShape(r)
  <2>1. CallerShape(gen[c])
    BY <1>3 DEF CallerRow
  <2>2. CallerShape(r)
    BY <2>1, ShapeKept
  <2>. QED
    BY <2>1, <2>2 DEF CallerShape
<1> HIDE DEF r, k
<1>7. Moves(c, r)
  BY <1>2, <1>3, <1>5, <1>6 DEF Moves, CallerRow, FreshRow, Using
<1>8. /\ CallersTyped' /\ CallersFresh'
      /\ \A d \in Generators \ {c} : gen'[d] = gen[d]
      /\ gen'[c] = r
      /\ Users(e)' = Users(e) \cup {c}
      /\ \A f : f # e => Users(f)' = Users(f) \ {c}
  BY <1>6, <1>7, MoveKeeps DEF CallerInv, Using
<1>9. \A f : c \notin Users(f)
  BY <1>2 DEF Users, Using
<1>10. SlotsAreCalls'
  BY <1>2, <1>6, <1>7, SameCalls DEF CallerInv
<1>11. /\ locks' \in [LockIds -> [refs : Nat, holder : Generators \cup {NoCaller}]]
       /\ \A f \in LockIds : /\ locks'[f].holder = locks[f].holder
                             /\ f # e => locks'[f].refs = locks[f].refs
       /\ locks'[e].refs = locks[e].refs + 1
  BY <1>1, <1>3, <1>4 DEF LocksTyped
<1>12. /\ entries' \in [Kinds -> LockIds \cup {NoLock}] /\ entries'[k] = e
       /\ \A j \in Kinds \ {k} : entries'[j] = entries[j]
       /\ entries[k] # NoLock => entries' = entries
  BY <1>1, <1>3, <1>4 DEF LocksTyped
<1>13. RefsAreUsers'
  <2>1. ASSUME NEW f \in LockIds
        PROVE  locks'[f].refs = Cardinality(Users(f)')
    <3>1. locks[f].refs = Cardinality(Users(f)) /\ Users(f) \in SUBSET Generators
      BY <1>3 DEF RefsAreUsers, Users
    <3>2. CASE f = e
      BY <1>8, <1>9, <1>11, <3>1, <3>2, CallersCounted
    <3>3. CASE f # e
      <4>1. Users(f)' = Users(f)
        BY <1>8, <1>9, <3>3
      <4>. QED
        BY <1>11, <3>1, <3>3, <4>1
    <3>. QED
      BY <3>2, <3>3
  <2>. QED
    BY <2>1 DEF RefsAreUsers
<1>14. LocksUsed'
  <2>1. ASSUME NEW d \in Generators, gen'[d].pc \in Using
        PROVE  /\ gen'[d].lock \in LockIds
               /\ entries'[gen'[d].kind] = gen'[d].lock
    <3>1. CASE d = c
      BY <1>4, <1>6, <1>8, <1>12, <3>1
    <3>2. CASE d # c
      <4>1. /\ gen'[d] = gen[d] /\ gen[d].lock \in LockIds
            /\ entries[gen[d].kind] = gen[d].lock /\ gen[d].kind \in Kinds
        BY <1>3, <1>8, <2>1, <3>2 DEF LocksUsed, CallerInv, CallersTyped, CallerRow, Using
      <4>2. gen[d].lock # NoLock
        BY <4>1, GeneratorsFinite, FS_CardinalityType DEF LockIds, NoLock
      <4>. QED
        BY <1>12, <4>1, <4>2
    <3>. QED
      BY <3>1, <3>2
  <2>2. ASSUME NEW d \in Generators, gen'[d].pc \in Holding
        PROVE  locks'[gen'[d].lock].holder = d
    <3>1. d # c
      BY <1>6, <1>8, <2>2 DEF Holding
    <3>2. gen'[d] = gen[d] /\ locks[gen[d].lock].holder = d /\ gen[d].lock \in LockIds
      BY <1>3, <1>8, <2>2, <3>1 DEF LocksUsed, Holding, Using
    <3>. QED
      BY <1>11, <3>2
  <2>. QED
    BY <2>1, <2>2 DEF LocksUsed
<1>. QED
  BY <1>8, <1>10, <1>11, <1>12, <1>13, <1>14 DEF CallerInv, LockInv, LocksTyped

LEMMA LockKeeps ==
  ASSUME CallerInv, NEW c \in Generators, Lock(c)
  PROVE  CallerInv'
<1> DEFINE e == gen[c].lock
           r == [gen[c] EXCEPT !.pc = "look"]
<1>1. /\ gen[c].pc = "lock" /\ locks[e].holder = NoCaller
      /\ locks' = [locks EXCEPT ![e].holder = c]
      /\ gen' = [gen EXCEPT ![c] = r]
      /\ UNCHANGED <<facts, provider, activeCalls, entries>>
  BY DEF Lock
<1>2. /\ CallerRow(gen[c]) /\ FreshRow(gen[c], facts, provider.rev)
      /\ e \in LockIds /\ entries[gen[c].kind] = e
      /\ LocksTyped /\ LocksUsed /\ RefsAreUsers
  BY <1>1, RowOf DEF CallerInv, LockInv, LocksUsed, Using
<1>3. /\ r.pc = "look" /\ r.lock = e /\ r.kind = gen[c].kind /\ r.since = gen[c].since
      /\ r.report = gen[c].report
      /\ CallerShape(r)
  <2>1. CallerShape(gen[c])
    BY <1>2 DEF CallerRow
  <2>2. CallerShape(r)
    BY <2>1, ShapeKept
  <2>. QED
    BY <2>1, <2>2 DEF CallerShape
<1> HIDE DEF r, e
<1>4. Moves(c, r)
  BY <1>1, <1>2, <1>3 DEF Moves, CallerRow, FreshRow, Using
<1>5. /\ CallersTyped' /\ CallersFresh'
      /\ \A d \in Generators \ {c} : gen'[d] = gen[d]
      /\ gen'[c] = r
      /\ \A f : /\ r.pc \in Using /\ r.lock = f => Users(f)' = Users(f) \cup {c}
                /\ ~(r.pc \in Using /\ r.lock = f) => Users(f)' = Users(f) \ {c}
  BY <1>4, MoveKeeps DEF CallerInv
<1>6. \A f : Users(f)' = Users(f)
  <2>1. \A f : c \in Users(f) <=> f = e
    BY <1>1 DEF Users, Using, e
  <2>. QED
    BY <1>3, <1>5, <2>1 DEF Using
<1>7. SlotsAreCalls'
  BY <1>1, <1>3, <1>4, SameCalls DEF CallerInv
<1>8. /\ locks' \in [LockIds -> [refs : Nat, holder : Generators \cup {NoCaller}]]
      /\ \A f \in LockIds : locks'[f].refs = locks[f].refs
      /\ locks'[e].holder = c
      /\ \A f \in LockIds \ {e} : locks'[f].holder = locks[f].holder
  BY <1>1, <1>2 DEF LocksTyped
<1>9. RefsAreUsers'
  BY <1>2, <1>6, <1>8 DEF RefsAreUsers
<1>10. ASSUME NEW d \in Generators
       PROVE  /\ gen'[d].pc \in Using => /\ gen'[d].lock \in LockIds
                                         /\ entries[gen'[d].kind] = gen'[d].lock
              /\ gen'[d].pc \in Holding => locks'[gen'[d].lock].holder = d
  <2>1. CASE d = c
    BY <1>2, <1>3, <1>5, <1>8, <2>1
  <2>2. CASE d # c
    <3>1. gen'[d] = gen[d]
      BY <1>5, <2>2
    <3>2. ASSUME gen[d].pc \in Holding
          PROVE  gen[d].lock \in LockIds \ {e} /\ locks[gen[d].lock].holder = d
      BY <1>1, <1>2, <3>2, GeneratorsFinite DEF LocksUsed, Holding, Using
    <3>. QED
      BY <1>2, <1>8, <3>1, <3>2 DEF LocksUsed
  <2>. QED
    BY <2>1, <2>2
<1>11. LocksUsed'
  BY <1>1, <1>10 DEF LocksUsed
<1>12. LocksTyped'
  BY <1>1, <1>2, <1>8 DEF LocksTyped
<1>. QED
  BY <1>5, <1>7, <1>9, <1>11, <1>12 DEF CallerInv, LockInv

\* The step of a caller within the lock it uses, whatever it does to the reports.
LEMMA LookKeeps ==
  ASSUME CallerInv, NEW c \in Generators, Look(c)
  PROVE  CallerInv'
<1>1. /\ gen[c].pc = "look" /\ UNCHANGED <<facts, provider, entries, locks, activeCalls>>
  BY DEF Look
<1>2. /\ CallerRow(gen[c]) /\ FreshRow(gen[c], facts, provider.rev)
      /\ CallerShape(gen[c]) /\ facts \in Int /\ provider.rev \in Int
  BY RowOf DEF CallerRow
<1>3. ASSUME NEW r, gen' = [gen EXCEPT ![c] = r], CallerShape(r),
             r.pc \in {"leave", "permit"}, r.kind = gen[c].kind, r.lock = gen[c].lock,
             r.since = gen[c].since,
             \/ r.pc = "leave" /\ r.report = 0
             \/ r.facts = facts /\ r.rev = provider.rev
      PROVE  CallerInv'
  <2>1. CallerRow(r)
    BY <1>1, <1>2, <1>3 DEF CallerRow, Using
  <2>2. FreshRow(r, facts, provider.rev)
    BY <1>1, <1>2, <1>3 DEF FreshRow
  <2>3. SameLock(gen[c], r)
    BY <1>1, <1>3 DEF SameLock, Using, Holding
  <2>4. Moves(c, r)
    BY <1>1, <1>3, <2>1, <2>2 DEF Moves
  <2>. QED
    BY <1>1, <1>3, <2>3, <2>4, QuietMove
<1>4. CASE gen' = [gen EXCEPT ![c].pc = "leave"]
  <2> DEFINE r == [gen[c] EXCEPT !.pc = "leave"]
  <2>1. CallerShape(r)
    BY <1>2, ShapeKept
  <2>2. gen' = [gen EXCEPT ![c] = r]
    BY <1>4
  <2>3. /\ r.pc = "leave" /\ r.kind = gen[c].kind /\ r.lock = gen[c].lock
        /\ r.since = gen[c].since /\ r.report = gen[c].report
    BY <1>2 DEF CallerShape
  <2>4. gen[c].report = 0
    BY <1>1, <1>2 DEF FreshRow
  <2> HIDE DEF r
  <2>. QED
    BY <1>3, <2>1, <2>2, <2>3, <2>4
<1>5. ASSUME NEW p \in {"leave", "permit"}, NEW i, NEW f, NEW v,
             f = facts, v = provider.rev,
             gen' = [gen EXCEPT ![c].pc = p, ![c].report = i, ![c].facts = f,
                                ![c].rev = v]
      PROVE  CallerInv'
  <2> DEFINE r == [gen[c] EXCEPT !.pc = p, !.report = i, !.facts = f, !.rev = v]
  <2>1. CallerShape(r)
    BY <1>2, ShapeKept
  <2>2. gen' = [gen EXCEPT ![c] = r]
    <3>1. DOMAIN gen = Generators
      BY DEF CallerInv, CallersTyped
    <3>. QED
      BY <1>5, <3>1
  <2>3. /\ r.pc = p /\ r.kind = gen[c].kind /\ r.lock = gen[c].lock
        /\ r.since = gen[c].since /\ r.facts = f /\ r.rev = v
    BY <1>2 DEF CallerShape
  <2> HIDE DEF r
  <2>. QED
    BY <1>3, <1>5, <2>1, <2>2, <2>3
<1>6. CASE \E i \in Reusable(gen[c].kind) :
             gen' = [gen EXCEPT ![c].pc = "leave", ![c].report = i,
                                ![c].facts = reports[i].facts,
                                ![c].rev = reports[i].rev]
  <2>1. PICK i \in Reusable(gen[c].kind) :
             gen' = [gen EXCEPT ![c].pc = "leave", ![c].report = i,
                                ![c].facts = reports[i].facts,
                                ![c].rev = reports[i].rev]
    BY <1>6
  <2>2. reports[i].facts = facts /\ reports[i].rev = provider.rev
    BY DEF Reusable
  <2>. QED
    BY <1>5, <2>1, <2>2
<1>7. CASE \E i : gen' = [gen EXCEPT ![c].pc = "permit", ![c].report = i,
                                     ![c].facts = facts, ![c].rev = provider.rev]
  BY <1>5, <1>7
<1>. QED
  BY <1>4, <1>6, <1>7 DEF Look

LEMMA PermitKeeps ==
  ASSUME CallerInv, NEW c \in Generators, Permit(c)
  PROVE  CallerInv'
<1>1. /\ gen[c].pc = "permit" /\ UNCHANGED <<facts, provider, entries, locks>>
  BY DEF Permit
<1>2. /\ CallerRow(gen[c]) /\ FreshRow(gen[c], facts, provider.rev)
      /\ CallerShape(gen[c]) /\ DOMAIN gen = Generators
  BY RowOf DEF CallerRow, CallerInv, CallersTyped
<1>3. CASE activeCalls' = activeCalls + 1 /\ gen' = [gen EXCEPT ![c].pc = "call"]
  <2> DEFINE r == [gen[c] EXCEPT !.pc = "call"]
  <2>1. CallerShape(r)
    BY <1>2, ShapeKept
  <2>2. gen' = [gen EXCEPT ![c] = r]
    BY <1>3
  <2>3. /\ r.pc = "call" /\ r.kind = gen[c].kind /\ r.lock = gen[c].lock
        /\ r.since = gen[c].since /\ r.facts = gen[c].facts /\ r.rev = gen[c].rev
    BY <1>2 DEF CallerShape
  <2> HIDE DEF r
  <2>4. Moves(c, r)
    BY <1>1, <1>2, <2>1, <2>2, <2>3 DEF Moves, CallerRow, FreshRow, Using
  <2>5. SameLock(gen[c], r)
    BY <1>1, <2>3 DEF SameLock, Using, Holding
  <2>6. CallersTyped' /\ CallersFresh' /\ Calling' = Calling \cup {c}
    BY <2>3, <2>4, MoveKeeps DEF CallerInv
  <2>7. LockInv'
    BY <1>1, <2>4, <2>5, SameLockKeeps DEF CallerInv
  <2>8. SlotsAreCalls'
    <3>1. c \notin Calling /\ Calling \in SUBSET Generators
      BY <1>1 DEF Calling
    <3>2. Cardinality(Calling') = Cardinality(Calling) + 1
      BY <2>6, <3>1, CallersCounted
    <3>. QED
      BY <1>3, <3>2 DEF CallerInv, SlotsAreCalls, Calling
  <2>. QED
    BY <2>6, <2>7, <2>8 DEF CallerInv
<1>4. CASE activeCalls' = activeCalls
           /\ gen' = [gen EXCEPT ![c].pc = "leave", ![c].report = 0]
  <2> DEFINE r == [gen[c] EXCEPT !.pc = "leave", !.report = 0]
  <2>1. CallerShape(r)
    BY <1>2, ShapeKept
  <2>2. gen' = [gen EXCEPT ![c] = r]
    BY <1>2, <1>4
  <2>3. /\ r.pc = "leave" /\ r.kind = gen[c].kind /\ r.lock = gen[c].lock
        /\ r.since = gen[c].since /\ r.report = 0
    BY <1>2 DEF CallerShape
  <2> HIDE DEF r
  <2>4. Moves(c, r)
    BY <1>1, <1>2, <2>1, <2>2, <2>3 DEF Moves, CallerRow, FreshRow, Using
  <2>5. SameLock(gen[c], r)
    BY <1>1, <2>3 DEF SameLock, Using, Holding
  <2>. QED
    BY <1>1, <1>4, <2>3, <2>4, <2>5, QuietMove
<1>. QED
  BY <1>3, <1>4 DEF Permit

LEMMA AnswerKeeps ==
  ASSUME CallerInv, NEW c \in Generators, NEW status, Answer(c, status)
  PROVE  CallerInv'
<1> DEFINE i == IF status = "completed" THEN gen[c].report ELSE 0
           r == [gen[c] EXCEPT !.pc = "leave", !.report = i]
<1>1. /\ gen[c].pc = "call" /\ UNCHANGED <<facts, provider, entries, locks>>
      /\ activeCalls' = activeCalls - 1
  BY DEF Answer
<1>2. /\ CallerRow(gen[c]) /\ FreshRow(gen[c], facts, provider.rev)
      /\ CallerShape(gen[c]) /\ DOMAIN gen = Generators
  BY RowOf DEF CallerRow, CallerInv, CallersTyped
<1>3. gen' = [gen EXCEPT ![c] = r]
  <2>1. gen' = [gen EXCEPT ![c].pc = "leave",
                           ![c].report = IF status = "completed" THEN @ ELSE 0]
    BY DEF Answer
  <2>. QED
    BY <1>2, <2>1 DEF CallerShape
<1>4. CallerShape(r)
  BY <1>2, ShapeKept
<1>5. /\ r.pc = "leave" /\ r.kind = gen[c].kind /\ r.lock = gen[c].lock
      /\ r.since = gen[c].since /\ r.facts = gen[c].facts /\ r.rev = gen[c].rev
  BY <1>2 DEF CallerShape
<1> HIDE DEF r, i
<1>6. Moves(c, r)
  BY <1>1, <1>2, <1>3, <1>4, <1>5 DEF Moves, CallerRow, FreshRow, Using
<1>7. SameLock(gen[c], r)
  BY <1>1, <1>5 DEF SameLock, Using, Holding
<1>8. CallersTyped' /\ CallersFresh' /\ Calling' = Calling \ {c}
  BY <1>5, <1>6, MoveKeeps DEF CallerInv
<1>9. LockInv'
  BY <1>1, <1>6, <1>7, SameLockKeeps DEF CallerInv
<1>10. SlotsAreCalls'
  <2>1. c \in Calling /\ Calling \in SUBSET Generators
    BY <1>1 DEF Calling
  <2>2. Cardinality(Calling') = Cardinality(Calling) - 1
    BY <1>8, <2>1, CallersCounted
  <2>. QED
    BY <1>1, <2>2 DEF CallerInv, SlotsAreCalls, Calling
<1>. QED
  BY <1>8, <1>9, <1>10 DEF CallerInv

LEMMA UnlockKeeps ==
  ASSUME CallerInv, NEW c \in Generators, Unlock(c)
  PROVE  CallerInv'
<1> DEFINE e == gen[c].lock
           r == [gen[c] EXCEPT !.pc = "drop"]
<1>1. /\ gen[c].pc = "leave"
      /\ locks' = [locks EXCEPT ![e].holder = NoCaller]
      /\ gen' = [gen EXCEPT ![c] = r]
      /\ UNCHANGED <<facts, provider, activeCalls, entries>>
  BY DEF Unlock
<1>2. /\ CallerRow(gen[c]) /\ CallerShape(gen[c])
      /\ FreshRow(gen[c], facts, provider.rev)
      /\ e \in LockIds /\ entries[gen[c].kind] = e /\ locks[e].holder = c
      /\ LocksTyped /\ LocksUsed /\ RefsAreUsers
  BY <1>1, RowOf DEF CallerRow, CallerInv, LockInv, LocksUsed, Using, Holding
<1>3. CallerShape(r)
  BY <1>2, ShapeKept
<1>4. /\ r.pc = "drop" /\ r.lock = e /\ r.kind = gen[c].kind /\ r.since = gen[c].since
  BY <1>2 DEF CallerShape
<1> HIDE DEF r, e
<1>5. Moves(c, r)
  BY <1>1, <1>2, <1>3, <1>4 DEF Moves, CallerRow, FreshRow, Using
<1>6. /\ CallersTyped' /\ CallersFresh'
      /\ \A d \in Generators \ {c} : gen'[d] = gen[d]
      /\ gen'[c] = r
      /\ \A f : /\ r.pc \in Using /\ r.lock = f => Users(f)' = Users(f) \cup {c}
                /\ ~(r.pc \in Using /\ r.lock = f) => Users(f)' = Users(f) \ {c}
  BY <1>5, MoveKeeps DEF CallerInv
<1>7. \A f : Users(f)' = Users(f)
  <2>1. \A f : c \in Users(f) <=> f = e
    BY <1>1 DEF Users, Using, e
  <2>. QED
    BY <1>4, <1>6, <2>1 DEF Using
<1>8. SlotsAreCalls'
  BY <1>1, <1>4, <1>5, SameCalls DEF CallerInv
<1>9. /\ locks' \in [LockIds -> [refs : Nat, holder : Generators \cup {NoCaller}]]
      /\ \A f \in LockIds : locks'[f].refs = locks[f].refs
      /\ \A f \in LockIds \ {e} : locks'[f].holder = locks[f].holder
  BY <1>1, <1>2 DEF LocksTyped
<1>10. RefsAreUsers'
  BY <1>2, <1>7, <1>9 DEF RefsAreUsers
<1>11. ASSUME NEW d \in Generators
       PROVE  /\ gen'[d].pc \in Using => /\ gen'[d].lock \in LockIds
                                         /\ entries[gen'[d].kind] = gen'[d].lock
              /\ gen'[d].pc \in Holding => locks'[gen'[d].lock].holder = d
  <2>1. CASE d = c
    BY <1>2, <1>4, <1>6, <2>1 DEF Holding
  <2>2. CASE d # c
    <3>1. gen'[d] = gen[d]
      BY <1>6, <2>2
    <3>2. ASSUME gen[d].pc \in Holding
          PROVE  gen[d].lock \in LockIds \ {e} /\ locks[gen[d].lock].holder = d
      BY <1>2, <2>2, <3>2 DEF LocksUsed, Holding, Using
    <3>. QED
      BY <1>2, <1>9, <3>1, <3>2 DEF LocksUsed
  <2>. QED
    BY <2>1, <2>2
<1>12. LocksUsed'
  BY <1>1, <1>11 DEF LocksUsed
<1>13. LocksTyped'
  BY <1>1, <1>2, <1>9 DEF LocksTyped
<1>. QED
  BY <1>6, <1>8, <1>10, <1>12, <1>13 DEF CallerInv, LockInv

LEMMA DropReferenceKeeps ==
  ASSUME CallerInv, NEW c \in Generators, DropReference(c)
  PROVE  CallerInv'
<1> DEFINE e == gen[c].lock
           k == gen[c].kind
<1>1. /\ gen[c].pc = "drop"
      /\ locks' = [locks EXCEPT ![e].refs = @ - 1]
      /\ gen' = [gen EXCEPT ![c] = ReportResting]
      /\ entries' = [entries EXCEPT ![k] =
           IF locks[e].refs = 1 /\ @ = e THEN NoLock ELSE @]
      /\ UNCHANGED <<facts, provider, activeCalls>>
  BY DEF DropReference
<1>2. /\ CallerRow(gen[c]) /\ k \in Kinds
      /\ e \in LockIds /\ entries[k] = e
      /\ LocksTyped /\ LocksUsed /\ RefsAreUsers
  BY <1>1, RowOf DEF CallerRow, CallerInv, LockInv, LocksUsed, Using
<1>3. \A f : c \in Users(f) <=> f = e
  BY <1>1 DEF Users, Using
<1> HIDE DEF e
<1>4. Moves(c, ReportResting)
  BY <1>1, RestingRow DEF Moves
<1>5. /\ CallersTyped' /\ CallersFresh'
      /\ \A d \in Generators \ {c} : gen'[d] = gen[d]
      /\ gen'[c] = ReportResting
      /\ \A f : Users(f)' = Users(f) \ {c}
  BY <1>4, RestingRow, MoveKeeps DEF CallerInv, Using
<1>6. SlotsAreCalls'
  BY <1>1, <1>4, RestingRow, SameCalls DEF CallerInv
<1>7. locks[e].refs = Cardinality(Users(e)) /\ Users(e) \in SUBSET Generators
  BY <1>2 DEF RefsAreUsers, Users
<1>8. ASSUME NEW f, f = e
      PROVE  /\ Cardinality(Users(f)') = locks[e].refs - 1
             /\ locks[e].refs \in Nat /\ locks[e].refs - 1 \in Nat
             /\ locks[e].refs = 1 => Users(e) \ {c} = {}
  <2>1. Users(f)' = Users(f) \ {c} /\ c \in Users(f)
    BY <1>3, <1>5, <1>8
  <2> DEFINE A == Users(f)
             B == Users(f) \ {c}
  <2>2. A \in SUBSET Generators /\ B \in SUBSET Generators /\ c \in A
    BY <1>7, <1>8, <2>1
  <2>3. locks[e].refs = Cardinality(A)
    BY <1>7, <1>8
  <2> HIDE DEF A
  <2>4. /\ Cardinality(A \ {c}) = Cardinality(A) - 1 /\ Cardinality(A) \in Nat
        /\ Cardinality(A \ {c}) \in Nat
        /\ Cardinality(A \ {c}) = 0 <=> A \ {c} = {}
    BY <2>2, CallersCounted DEF A
  <2>. QED
    BY <1>8, <2>1, <2>3, <2>4 DEF A
<1>9. /\ locks' \in [LockIds -> [refs : Nat, holder : Generators \cup {NoCaller}]]
      /\ \A f \in LockIds : /\ locks'[f].holder = locks[f].holder
                            /\ f # e => locks'[f].refs = locks[f].refs
      /\ locks'[e].refs = locks[e].refs - 1
  BY <1>1, <1>2, <1>8 DEF LocksTyped
<1>10. /\ entries' \in [Kinds -> LockIds \cup {NoLock}]
       /\ \A j \in Kinds \ {k} : entries'[j] = entries[j]
       /\ locks[e].refs # 1 => entries'[k] = entries[k]
  BY <1>1, <1>2 DEF LocksTyped
<1>11. RefsAreUsers'
  <2>1. ASSUME NEW f \in LockIds
        PROVE  locks'[f].refs = Cardinality(Users(f)')
    <3>1. CASE f = e
      BY <1>8, <1>9, <3>1
    <3>2. CASE f # e
      <4>1. Users(f)' = Users(f)
        BY <1>3, <1>5, <3>2
      <4>. QED
        BY <1>2, <1>9, <3>2, <4>1 DEF RefsAreUsers
    <3>. QED
      BY <3>1, <3>2
  <2>. QED
    BY <2>1 DEF RefsAreUsers
<1>12. ASSUME NEW d \in Generators
       PROVE  /\ gen'[d].pc \in Using => /\ gen'[d].lock \in LockIds
                                         /\ entries'[gen'[d].kind] = gen'[d].lock
              /\ gen'[d].pc \in Holding => locks'[gen'[d].lock].holder = d
  <2>1. CASE d = c
    BY <1>5, <2>1, RestingRow DEF Using, Holding
  <2>2. CASE d # c /\ gen[d].pc \in Using
    <3>1. /\ gen'[d] = gen[d] /\ gen[d].lock \in LockIds /\ gen[d].kind \in Kinds
          /\ entries[gen[d].kind] = gen[d].lock
          /\ gen[d].pc \in Holding => locks[gen[d].lock].holder = d
      BY <1>2, <1>5, <2>2 DEF LocksUsed, CallerInv, CallersTyped, CallerRow, Using
    <3>2. entries'[gen[d].kind] = entries[gen[d].kind]
      <4>1. CASE gen[d].kind = k
        <5>1. d \in Users(e)
          BY <1>2, <2>2, <3>1, <4>1 DEF Users
        <5>2. locks[e].refs # 1
          BY <1>8, <2>2, <5>1
        <5>. QED
          BY <1>10, <4>1, <5>2
      <4>2. CASE gen[d].kind # k
        BY <1>10, <3>1, <4>2
      <4>. QED
        BY <4>1, <4>2
    <3>. QED
      BY <1>9, <3>1, <3>2
  <2>3. CASE d # c /\ gen[d].pc \notin Using
    BY <1>5, <2>3 DEF Using, Holding
  <2>. QED
    BY <2>1, <2>2, <2>3
<1>13. LocksUsed'
  BY <1>12 DEF LocksUsed
<1>. QED
  BY <1>5, <1>6, <1>9, <1>10, <1>11, <1>13 DEF CallerInv, LockInv, LocksTyped

LEMMA GenerateKeeps ==
  ASSUME CallerInv, NEW c \in Generators, GenerateStep(c)
  PROVE  CallerInv'
BY EnterKeeps, LockKeeps, LookKeeps, PermitKeeps, AnswerKeeps, UnlockKeeps,
   DropReferenceKeeps DEF GenerateStep

\* Nothing that concerns the callers changes, but facts and provider may be newer.
LEMMA CallersRest ==
  ASSUME CallerInv, UNCHANGED <<gen, entries, locks, activeCalls>>,
         facts' \in Int, facts <= facts', provider'.rev \in Int,
         provider.rev <= provider'.rev
  PROVE  CallerInv'
<1>1. CallersTyped' /\ LockInv' /\ SlotsAreCalls'
  BY DEF CallerInv, CallersTyped, LockInv, LocksTyped, LocksUsed, RefsAreUsers, Users,
         SlotsAreCalls
<1>2. ASSUME NEW c \in Generators PROVE FreshRow(gen'[c], facts', provider'.rev)
  BY RowOf DEF FreshRow
<1>. QED
  BY <1>1, <1>2 DEF CallerInv, CallersFresh

LEMMA CallerInvInit ==
  ASSUME gen = [c \in Generators |-> ReportResting], activeCalls = 0,
         entries = [k \in Kinds |-> NoLock],
         locks = [e \in LockIds |-> [refs |-> 0, holder |-> NoCaller]],
         facts \in Int, provider.rev \in Int
  PROVE  CallerInv
<1>1. \A c \in Generators : gen[c] = ReportResting
  OBVIOUS
<1>2. CallersTyped
  BY <1>1, RestingRow DEF CallersTyped
<1>3. CallersFresh
  BY <1>1, RestingRow DEF CallersFresh
<1>4. /\ \A e \in LockIds : Users(e) = {}
      /\ {c \in Generators : gen[c].pc = "call"} = {}
  BY <1>1, RestingRow DEF Users, Using
<1>5. LocksTyped /\ LocksUsed
  BY <1>1, RestingRow DEF LocksTyped, LocksUsed, Using, Holding
<1>6. RefsAreUsers /\ SlotsAreCalls
  BY <1>4, FS_EmptySet DEF RefsAreUsers, SlotsAreCalls
<1>. QED
  BY <1>2, <1>3, <1>5, <1>6 DEF CallerInv, LockInv

LEMMA CallerInvRestart ==
  ASSUME CallerInv, RestartReports
  PROVE  CallerInv'
<1>1. /\ gen' = [c \in Generators |-> ReportResting] /\ activeCalls' = 0
      /\ entries' = [k \in Kinds |-> NoLock]
      /\ locks' = [e \in LockIds |-> [refs |-> 0, holder |-> NoCaller]]
      /\ facts' = facts /\ provider' = provider
      /\ facts \in Int /\ provider.rev \in Int
  BY DEF RestartReports, CallerInv, CallersFresh
<1>2. \A c \in Generators : gen'[c] = ReportResting
  BY <1>1
<1>3. CallersTyped'
  BY <1>1, <1>2, RestingRow DEF CallersTyped
<1>4. CallersFresh'
  BY <1>1, <1>2, RestingRow DEF CallersFresh
<1>5. /\ \A e \in LockIds : Users(e)' = {}
      /\ Calling' = {}
  BY <1>2, RestingRow DEF Users, Using, Calling
<1>6. LocksTyped' /\ LocksUsed'
  BY <1>1, <1>2, RestingRow DEF LocksTyped, LocksUsed, Using, Holding
<1>7. RefsAreUsers'
  BY <1>1, <1>5, FS_EmptySet DEF RefsAreUsers
<1>8. SlotsAreCalls'
  BY <1>1, <1>5, FS_EmptySet DEF SlotsAreCalls, Calling
<1>. QED
  BY <1>3, <1>4, <1>6, <1>7, <1>8 DEF CallerInv, LockInv

-----------------------------------------------------------------------------
(* The schedule. *)

LEMMA RoundInvInit ==
  ASSUME AIInit
  PROVE  RoundInv
<1>1. /\ day = 0 /\ aiRestarts = 0 /\ round = NoRound
      /\ schedule = [kinds |-> {}, marks |-> [k \in Kinds |-> -1]]
      /\ automatic = [k \in Kinds |-> [d \in 0..MaxReportDay |-> 0]]
  BY DEF AIInit
<1>2. 0 \in 0..MaxReportDay
  BY AINumbers
<1>3. NoRound \in [on : BOOLEAN, todo : SUBSET Kinds, done : SUBSET Kinds,
                   day : 0..MaxReportDay, forced : BOOLEAN] /\ NoRound.on = FALSE
  BY <1>2 DEF NoRound
<1>4. ScheduleTypes
  BY <1>1, <1>2, <1>3 DEF ScheduleTypes
<1>5. \A k \in Kinds, d \in 0..MaxReportDay : automatic[k][d] = 0
  BY <1>1
<1>6. RoundIsDue /\ RunsAreMarked
  BY <1>1, <1>3, <1>5 DEF RoundIsDue, RunsAreMarked
<1>. QED
  BY <1>4, <1>6 DEF RoundInv

LEMMA RoundRests ==
  ASSUME RoundInv, UNCHANGED <<day, round, automatic, aiRestarts>>,
         schedule'.marks = schedule.marks, schedule'.kinds \subseteq Kinds,
         schedule' = [kinds |-> schedule'.kinds, marks |-> schedule'.marks]
  PROVE  RoundInv'
BY DEF RoundInv, ScheduleTypes, RoundIsDue, RunsAreMarked, RunInRound

LEMMA ScheduleFields ==
  ASSUME ScheduleTypes
  PROVE  /\ round.on \in BOOLEAN /\ round.forced \in BOOLEAN
         /\ round.todo \subseteq Kinds /\ round.done \subseteq Kinds
         /\ round.day \in 0..MaxReportDay /\ day \in Nat /\ round.day \in Nat
         /\ \A k \in Kinds : schedule.marks[k] \in Int /\ schedule.marks[k] <= day
         /\ \A k \in Kinds, d \in 0..MaxReportDay : automatic[k][d] \in Nat
         /\ \A d \in 0..MaxReportDay : d \in Nat
         /\ aiRestarts \in Nat
BY AINumbers DEF ScheduleTypes

LEMMA NextDayKeeps ==
  ASSUME RoundInv, NextReportDay
  PROVE  RoundInv'
<1>1. /\ day < MaxReportDay /\ day' = day + 1
      /\ UNCHANGED <<schedule, round, automatic, aiRestarts>>
      /\ ScheduleTypes
  BY DEF NextReportDay, RoundInv
<1>2. day' \in 0..MaxReportDay /\ \A k \in Kinds : schedule.marks[k] <= day'
  BY <1>1, ScheduleFields, AINumbers
<1>3. ScheduleTypes'
  BY <1>1, <1>2 DEF ScheduleTypes
<1>4. RoundIsDue'
  BY <1>1, ScheduleFields DEF RoundInv, RoundIsDue
<1>5. RunsAreMarked'
  BY <1>1 DEF RoundInv, RunsAreMarked, RunInRound
<1>. QED
  BY <1>3, <1>4, <1>5 DEF RoundInv

LEMMA BeginRoundKeeps ==
  ASSUME RoundInv, NEW forced \in BOOLEAN, BeginRound(forced)
  PROVE  RoundInv'
<1> DEFINE todo == {k \in schedule.kinds : forced \/ schedule.marks[k] # day}
<1>1. /\ ~round.on /\ ScheduleTypes
      /\ round' = [on |-> TRUE, done |-> {}, day |-> day, forced |-> forced,
                   todo |-> todo]
      /\ UNCHANGED <<day, schedule, automatic, aiRestarts>>
  BY DEF BeginRound, RoundInv
<1>2. /\ todo \subseteq Kinds
      /\ \A k \in todo : forced \/ schedule.marks[k] # day
  BY <1>1 DEF ScheduleTypes
<1> HIDE DEF todo
<1>3. /\ round'.on /\ round'.done = {} /\ round'.day = day /\ round'.forced = forced
      /\ round'.todo = todo
  BY <1>1
<1>4. ScheduleTypes'
  BY <1>1, <1>2 DEF ScheduleTypes
<1>5. RoundIsDue'
  BY <1>1, <1>2, <1>3, ScheduleFields DEF RoundIsDue
<1>6. RunsAreMarked'
  BY <1>1 DEF RoundInv, RunsAreMarked, RunInRound
<1>. QED
  BY <1>4, <1>5, <1>6 DEF RoundInv

LEMMA RoundStepKeeps ==
  ASSUME RoundInv, NEW kind \in Kinds, RoundStep(kind)
  PROVE  RoundInv'
<1>1. /\ round.on /\ kind \in round.todo /\ ScheduleTypes
      /\ round' = [round EXCEPT !.todo = @ \ {kind}, !.done = @ \cup {kind}]
      /\ UNCHANGED <<day, schedule, aiRestarts>>
      /\ round.forced => automatic' = automatic
      /\ ~round.forced => automatic' = [automatic EXCEPT ![kind][round.day] = @ + 1]
  BY DEF RoundStep, RoundInv
<1>2. /\ round'.on = round.on /\ round'.day = round.day /\ round'.forced = round.forced
      /\ round'.todo = round.todo \ {kind} /\ round'.done = round.done \cup {kind}
      /\ round' \in [on : BOOLEAN, todo : SUBSET Kinds, done : SUBSET Kinds,
                     day : 0..MaxReportDay, forced : BOOLEAN]
  BY <1>1 DEF ScheduleTypes
<1>3. RoundIsDue'
  BY <1>1, <1>2 DEF RoundInv, RoundIsDue
<1>4. CASE round.forced
  <2>1. ScheduleTypes'
    BY <1>1, <1>2, <1>4 DEF ScheduleTypes
  <2>2. RunsAreMarked'
    BY <1>1, <1>2, <1>4 DEF RoundInv, RunsAreMarked, RunInRound
  <2>. QED
    BY <1>3, <2>1, <2>2 DEF RoundInv
<1>5. CASE ~round.forced
  <2>1. /\ automatic' \in [Kinds -> [0..MaxReportDay -> Nat]]
        /\ automatic'[kind][round.day] = automatic[kind][round.day] + 1
        /\ \A k \in Kinds, d \in 0..MaxReportDay : k # kind \/ d # round.day =>
             automatic'[k][d] = automatic[k][d]
    <3>1. automatic \in [Kinds -> [0..MaxReportDay -> Nat]] /\ round.day \in 0..MaxReportDay
      BY <1>1 DEF ScheduleTypes
    <3> DEFINE D == round.day
               Days == 0..MaxReportDay
               row == [automatic[kind] EXCEPT ![D] = @ + 1]
    <3>2. automatic' = [automatic EXCEPT ![kind] = row]
      BY <1>1, <1>5
    <3>3. automatic[kind] \in [Days -> Nat] /\ D \in Days
      BY <3>1
    <3> HIDE DEF D, Days
    <3>4. /\ row \in [Days -> Nat] /\ row[D] = automatic[kind][D] + 1
          /\ \A d \in Days \ {D} : row[d] = automatic[kind][d]
      BY <3>3
    <3> HIDE DEF row
    <3>5. /\ automatic' \in [Kinds -> [Days -> Nat]] /\ automatic'[kind] = row
          /\ \A k \in Kinds \ {kind} : automatic'[k] = automatic[k]
      BY <3>1, <3>2, <3>4 DEF Days
    <3>. QED
      BY <3>4, <3>5 DEF D, Days
  <2>2. ScheduleTypes'
    BY <1>1, <1>2, <2>1 DEF ScheduleTypes
  <2>3. automatic[kind][round.day] <= aiRestarts
    BY <1>1, <1>5, ScheduleFields DEF RoundInv, RoundIsDue, RunsAreMarked, RunInRound
  <2>4. ASSUME NEW k \in Kinds, NEW d \in 0..MaxReportDay
        PROVE  /\ automatic'[k][d] <= 1 + aiRestarts
               /\ schedule.marks[k] < d /\ ~RunInRound(k, d)' => automatic'[k][d] <= aiRestarts
    <3>1. CASE k = kind /\ d = round.day
      <4>1. RunInRound(k, d)'
        BY <1>1, <1>2, <1>5, <3>1 DEF RunInRound
      <4>2. automatic'[k][d] <= 1 + aiRestarts
        BY <1>1, <2>1, <2>3, <3>1, ScheduleFields
      <4>. QED
        BY <4>1, <4>2
    <3>2. CASE k # kind \/ d # round.day
      BY <1>2, <2>1, <3>2 DEF RoundInv, RunsAreMarked, RunInRound
    <3>. QED
      BY <3>1, <3>2
  <2>5. RunsAreMarked'
    BY <1>1, <2>4 DEF RunsAreMarked
  <2>. QED
    BY <1>3, <2>2, <2>5 DEF RoundInv
<1>. QED
  BY <1>4, <1>5

LEMMA EndRoundKeeps ==
  ASSUME RoundInv, EndRound
  PROVE  RoundInv'
<1> DEFINE marks == [k \in Kinds |-> IF k \in round.done /\ round.day > schedule.marks[k]
                                     THEN round.day ELSE schedule.marks[k]]
<1>1. /\ round.on /\ round' = NoRound /\ ScheduleTypes
      /\ UNCHANGED <<day, automatic, aiRestarts>>
      /\ schedule' = [schedule EXCEPT !.marks = marks]
  BY DEF EndRound, RoundInv
<1>2. round.day <= day
  BY <1>1 DEF RoundInv, RoundIsDue
<1>3. \A k \in Kinds :
        /\ marks[k] \in Int /\ marks[k] <= day /\ marks[k] >= schedule.marks[k]
        /\ k \in round.done => marks[k] >= round.day
  BY <1>1, <1>2, ScheduleFields
<1>4. marks \in [Kinds -> Int]
  BY <1>3
<1> HIDE DEF marks
<1>5. /\ schedule' = [kinds |-> schedule'.kinds, marks |-> schedule'.marks]
      /\ schedule'.marks = marks /\ schedule'.kinds = schedule.kinds
  BY <1>1 DEF ScheduleTypes
<1>6. NoRound \in [on : BOOLEAN, todo : SUBSET Kinds, done : SUBSET Kinds,
                   day : 0..MaxReportDay, forced : BOOLEAN] /\ NoRound.on = FALSE
  BY AINumbers DEF NoRound
<1>7. ScheduleTypes'
  BY <1>1, <1>3, <1>4, <1>5, <1>6 DEF ScheduleTypes
<1>8. RoundIsDue'
  BY <1>1, <1>6 DEF RoundIsDue
<1>9. ASSUME NEW k \in Kinds, NEW d \in 0..MaxReportDay, marks[k] < d
      PROVE  automatic[k][d] <= aiRestarts
  <2>1. schedule.marks[k] < d
    BY <1>1, <1>3, <1>9, ScheduleFields
  <2>2. ~RunInRound(k, d)
    <3>1. k \in round.done => round.day # d
      <4>1. ASSUME k \in round.done PROVE round.day < d
        <5>1. /\ marks[k] >= round.day /\ marks[k] \in Int /\ marks[k] < d
              /\ d \in Nat /\ round.day \in Nat
          BY <1>1, <1>3, <1>9, <4>1, ScheduleFields
        <5>. QED
          BY <5>1
      <4>2. round.day \in Nat /\ d \in Nat
        BY <1>1, ScheduleFields
      <4>. QED
        BY <4>1, <4>2
    <3>. QED
      BY <3>1 DEF RunInRound
  <2>. QED
    BY <2>1, <2>2 DEF RoundInv, RunsAreMarked
<1>10. RunsAreMarked'
  BY <1>1, <1>5, <1>9 DEF RoundInv, RunsAreMarked
<1>. QED
  BY <1>7, <1>8, <1>10 DEF RoundInv

LEMMA RoundRestart ==
  ASSUME RoundInv, RestartReports
  PROVE  RoundInv'
<1>1. /\ aiRestarts' = aiRestarts + 1 /\ round' = NoRound
      /\ UNCHANGED <<day, schedule, automatic>> /\ ScheduleTypes
  BY DEF RestartReports, RoundInv
<1>2. NoRound \in [on : BOOLEAN, todo : SUBSET Kinds, done : SUBSET Kinds,
                   day : 0..MaxReportDay, forced : BOOLEAN] /\ NoRound.on = FALSE
  BY AINumbers DEF NoRound
<1>3. ScheduleTypes' /\ RoundIsDue'
  BY <1>1, <1>2 DEF ScheduleTypes, RoundIsDue
<1>4. ASSUME NEW k \in Kinds, NEW d \in 0..MaxReportDay
      PROVE  automatic[k][d] <= aiRestarts' /\ automatic[k][d] <= 1 + aiRestarts'
  <2>1. automatic[k][d] <= 1 + aiRestarts
    BY DEF RoundInv, RunsAreMarked
  <2>. QED
    BY <1>1, <2>1, ScheduleFields
<1>5. RunsAreMarked'
  BY <1>1, <1>4 DEF RunsAreMarked
<1>. QED
  BY <1>3, <1>5 DEF RoundInv

-----------------------------------------------------------------------------
(* Both together. *)

LEMMA AIInvStep ==
  ASSUME AIInv, [AINext]_aiVars
  PROVE  AIInv'
<1>1. CallerInv /\ RoundInv /\ ScheduleTypes
  BY DEF AIInv, CallerInv, RoundInv
<1>2. SUFFICES CallerInv' /\ RoundInv'
  BY DEF AIInv, CallerInv
<1>3. /\ schedule = [kinds |-> schedule.kinds, marks |-> schedule.marks]
      /\ schedule.kinds \subseteq Kinds /\ facts \in Int /\ provider.rev \in Int
  BY <1>1 DEF ScheduleTypes, CallerInv, CallersFresh
<1>4. ASSUME scheduleVars' = scheduleVars, aiRestarts' = aiRestarts
      PROVE  RoundInv'
  BY <1>1, <1>3, <1>4, RoundRests DEF scheduleVars
<1>5. ASSUME serviceVars' = serviceVars, facts' = facts, provider' = provider
      PROVE  CallerInv'
  BY <1>1, <1>3, <1>5, CallersRest DEF serviceVars
<1>6. CASE GenerateNext
  <2>1. ASSUME NEW q \in ReportRequests, NEW kind \in Kinds, AskByRequest(q, kind)
        PROVE  CallerInv' /\ RoundInv'
    BY <1>1, <1>4, <2>1, AskKeeps, GeneratorsFinite DEF AskByRequest
  <2>2. ASSUME NEW c \in Generators, GenerateStep(c)
        PROVE  CallerInv' /\ RoundInv'
    <3>1. scheduleVars' = scheduleVars /\ aiRestarts' = aiRestarts
      BY <2>2 DEF GenerateStep, Enter, Lock, Look, Permit, Answer, Unlock, DropReference
    <3>. QED
      BY <1>1, <1>4, <2>2, <3>1, GenerateKeeps
  <2>. QED
    BY <1>6, <2>1, <2>2 DEF GenerateNext
<1>7. CASE EditNext
  <2>1. scheduleVars' = scheduleVars /\ aiRestarts' = aiRestarts
    BY <1>7 DEF EditNext, AttemptAges, EditLedger, DeleteReport, EditProvider
  <2>2. /\ UNCHANGED <<gen, entries, locks, activeCalls>>
        /\ facts' \in {facts, facts + 1}
        /\ provider'.rev \in {provider.rev, provider.rev + 1}
    BY <1>7 DEF EditNext, AttemptAges, EditLedger, DeleteReport, EditProvider, serviceVars
  <2>3. /\ facts' \in Int /\ facts <= facts'
        /\ provider'.rev \in Int /\ provider.rev <= provider'.rev
    BY <1>3, <2>2
  <2>. QED
    BY <1>1, <1>4, <2>1, <2>2, <2>3, CallersRest
<1>8. CASE ScheduleNext
  <2>1. CASE NextReportDay
    BY <1>1, <1>5, <2>1, NextDayKeeps DEF NextReportDay
  <2>2. CASE EndRound
    BY <1>1, <1>5, <2>2, EndRoundKeeps DEF EndRound
  <2>3. CASE RestartReports
    BY <1>1, <2>3, CallerInvRestart, RoundRestart
  <2>4. ASSUME NEW kinds \in SUBSET Kinds, SaveSchedule(kinds)
        PROVE  CallerInv' /\ RoundInv'
    <3>1. /\ schedule' = [schedule EXCEPT !.kinds = kinds]
          /\ UNCHANGED <<day, round, automatic, aiRestarts>>
          /\ serviceVars' = serviceVars /\ facts' = facts /\ provider' = provider
      BY <2>4 DEF SaveSchedule
    <3>2. /\ schedule'.marks = schedule.marks /\ schedule'.kinds = kinds
          /\ schedule' = [kinds |-> schedule'.kinds, marks |-> schedule'.marks]
      BY <1>3, <3>1
    <3>. QED
      BY <1>1, <1>5, <3>1, <3>2, RoundRests
  <2>5. ASSUME NEW forced \in BOOLEAN, BeginRound(forced)
        PROVE  CallerInv' /\ RoundInv'
    BY <1>1, <1>5, <2>5, BeginRoundKeeps DEF BeginRound
  <2>6. ASSUME NEW kind \in Kinds, RoundStep(kind)
        PROVE  CallerInv' /\ RoundInv'
    <3>1. /\ gen[Scheduler].pc = "rest"
          /\ AskReport(Scheduler, kind) \/ UNCHANGED gen
          /\ UNCHANGED <<facts, provider, entries, locks, activeCalls>>
      BY <2>6 DEF RoundStep
    <3>2. CallerInv'
      BY <1>1, <1>3, <3>1, AskKeeps, CallersRest, GeneratorsFinite
    <3>. QED
      BY <1>1, <2>6, <3>2, RoundStepKeeps
  <2>. QED
    BY <1>8, <2>1, <2>2, <2>3, <2>4, <2>5, <2>6 DEF ScheduleNext
<1>9. CASE UNCHANGED aiVars
  BY <1>4, <1>5, <1>9 DEF aiVars, serviceVars, scheduleVars
<1>. QED
  BY <1>6, <1>7, <1>8, <1>9 DEF AINext

LEMMA AIInvHolds == AISpec => []AIInv
<1>1. AIInit => AIInv
  <2> SUFFICES ASSUME AIInit PROVE AIInv
    OBVIOUS
  <2>1. /\ gen = [c \in Generators |-> ReportResting] /\ activeCalls = 0
        /\ entries = [k \in Kinds |-> NoLock]
        /\ locks = [e \in LockIds |-> [refs |-> 0, holder |-> NoCaller]]
        /\ facts \in Int /\ provider.rev \in Int
    BY DEF AIInit
  <2>2. CallerInv
    BY <2>1, CallerInvInit
  <2>. QED
    BY <2>2, RoundInvInit DEF AIInv, CallerInv
<1>2. AIInv /\ [AINext]_aiVars => AIInv'
  BY AIInvStep
<1>. QED
  BY <1>1, <1>2, PTL DEF AISpec

(* A report is generated by one caller at a time, although its lock is made *)
(* on demand and dropped with its last reference, and every slot of the     *)
(* concurrency limit belongs to a call: for any number of callers.          *)
THEOREM GenerationsAreAlwaysCounted == AISpec => []GenerationsAreCounted
<1>1. AIInv => GenerationsAreCounted
  <2> SUFFICES ASSUME AIInv PROVE GenerationsAreCounted
    OBVIOUS
  <2>1. ASSUME NEW c \in Generators, NEW d \in Generators,
               {gen[c].pc, gen[d].pc} \subseteq {"look", "permit", "call"},
               gen[c].kind = gen[d].kind
        PROVE  c = d
    <3>1. /\ gen[c].pc \in Using /\ gen[d].pc \in Using
          /\ gen[c].pc \in Holding /\ gen[d].pc \in Holding
      BY <2>1 DEF Using, Holding
    <3>2. gen[c].lock = gen[d].lock
      BY <2>1, <3>1 DEF AIInv, LockInv, LocksUsed
    <3>. QED
      BY <3>1, <3>2 DEF AIInv, LockInv, LocksUsed
  <2>. QED
    BY <2>1 DEF OneGenerationPerReport, GenerationsAreCounted, AIInv
<1>. QED
  BY <1>1, AIInvHolds, PTL

(* No answer is older than its request, in the facts it was made of or in   *)
(* the provider's configuration, also when it is another request's report.  *)
THEOREM AnswersAreAlwaysFresh == AISpec => []AnswersAreFresh
<1>1. AIInv => AnswersAreFresh
  BY DEF AIInv, CallersFresh, FreshRow, AnswersAreFresh
<1>. QED
  BY <1>1, AIInvHolds, PTL

(* The schedule runs a kind once a day, and once more for every restart,    *)
(* whatever is saved, run by hand or switched off in between.               *)
THEOREM ScheduleRunsOnceADay == AISpec => []OneAutomaticRunPerDay
<1>1. AIInv => OneAutomaticRunPerDay
  BY DEF AIInv, RoundInv, RunsAreMarked, OneAutomaticRunPerDay
<1>. QED
  BY <1>1, AIInvHolds, PTL

=============================================================================
