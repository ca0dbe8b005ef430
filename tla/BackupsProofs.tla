---------------------------- MODULE BackupsProofs ----------------------------
(***************************************************************************)
(* Proofs about Backups, for every number of backups and of deletions      *)
(* under way.                                                              *)
(*                                                                         *)
(* Whatever the settings, an archive that counts as verified is intact,    *)
(* and no upload is left unattended while the process lives.  The other    *)
(* results are about one uploader at a time, that is, without the          *)
(* schedule's automatic upload: with it the job and the sweep can send one *)
(* backup at once, and what the row says of the object need not be so.     *)
(***************************************************************************)
EXTENDS Backups, TLAPS, FiniteSetTheorems, WellFoundedInduction

(***************************************************************************)
(* The invariant, whatever the settings                                    *)
(***************************************************************************)
Holding == {"insert", "verify", "fetch", "accept", "upload", "check", "mark", "clear",
            "reclaimed", "purge_uploaded", "purge_stray", "unlink"}

\* A worker has a backup in hand, or a list to take one from.
InHand(t) ==
  /\ t.at \in Holding => t.b \in Backups
  /\ t.at \in {"pick", "reclaim", "purge"} => t.todo # {}

\* Rows are of backups that were made.
Numbered ==
  /\ \A b \in Backups : row[b].in => b <= last
  /\ task["job"].at \in {"insert", "verify", "fetch", "accept"} => task["job"].b <= last

\* What is being imported is not registered as present.
ImportApart ==
  task["job"].at \in {"fetch", "accept"} =>
    ~(row[task["job"].b].in /\ row[task["job"].b].here)

BaseInv ==
  /\ TypeOK /\ Numbered /\ ImportApart /\ VerifiedArchiveIsGood
  /\ \A w \in Workers : InHand(task[w])

(***************************************************************************)
(* One uploader                                                            *)
(***************************************************************************)
Sending == {"upload", "check", "mark", "clear"}

\* Only the job uploads.
JobUploads ==
  \A w \in Workers \ {"job"} :
    /\ task[w].at \in {"idle", "expire", "purge", "purge_uploaded", "purge_stray", "unlink"}
    /\ task[w].op # "upload"

\* The row of a backup that is being sent says so, or is gone.
RowSaysSending ==
  task["job"].at \in Sending /\ row[task["job"].b].in => row[task["job"].b].up = "uploading"

\* What is about to be recorded as uploaded is there, or somebody deleted it.
Present(b) == b \in gone \/ remote[b] = "good"
AboutToRecord ==
  /\ task["job"].at = "mark" => Present(task["job"].b)
  /\ task["job"].at = "accept" /\ file[task["job"].b] = "good" => Present(task["job"].b)

\* What is still to be reclaimed is there.
ToReclaim ==
  task["job"].at \in {"reclaim", "reclaimed"} => \A b \in task["job"].todo : Present(b)

\* uploadBackup sends its own backup, which then is the newest object and is
\* not on the lists of retention.
OwnUpload(t) ==
  t.op = "upload" =>
    /\ t.at # "scan"
    /\ t.at = "pick" => t.todo = {t.own}
    /\ t.at \in Sending => t.b = t.own /\ t.todo = {}
    /\ t.at \in {"check", "mark", "list"} => \A c \in Backups : <<c, t.own>> \notin newer
    /\ t.at \in {"prune", "purge", "purge_uploaded", "purge_stray", "unlink"} => t.own \notin t.todo

ManualInv ==
  /\ ~AutoUpload
  /\ JobUploads /\ RowSaysSending /\ AboutToRecord /\ ToReclaim /\ UploadedMeansRemote
  /\ OwnUpload(task["job"])

-----------------------------------------------------------------------------
(***************************************************************************)
(* The operators of the model                                              *)
(***************************************************************************)

\* A set of numbers has a least one.
LEMMA LeastExists ==
  ASSUME NEW S \in SUBSET Nat, S # {}
  PROVE  \E x \in S : \A y \in S : x <= y
<1> DEFINE R == OpToRel(<, Nat)
<1>1. IsWellFoundedOn(R, Nat)
  BY NatLessThanWellFounded
<1>2. \A x, y \in Nat : x < y => <<x, y>> \in R
  BY DEF OpToRel
<1> HIDE DEF R
<1>3. PICK x \in S : \A y \in S : ~(<<y, x>> \in R)
  BY <1>1, WFMin
<1>4. ASSUME NEW y \in S PROVE x <= y
  <2>1. x \in Nat /\ y \in Nat
    OBVIOUS
  <2>2. ~(y < x)
    BY <1>2, <1>3, <2>1
  <2> QED BY <2>1, <2>2
<1> QED BY <1>4

\* The oldest and the newest of a list are on it.
LEMMA OldestIn ==
  ASSUME NEW S \in SUBSET Backups, S # {}
  PROVE  Oldest(S) \in S
<1>1. S \in SUBSET Nat
  BY BoundAssumption DEF Backups
<1> QED BY <1>1, LeastExists DEF Oldest

LEMMA NewestIn ==
  ASSUME NEW S \in SUBSET Backups, S # {}
  PROVE  Newest(S) \in S
<1> DEFINE T == {MaxBackups - b : b \in S}
<1>1. S \subseteq Int /\ \A b \in S : b <= MaxBackups
  BY BoundAssumption DEF Backups
<1>2. T \in SUBSET Nat /\ T # {}
  <2>1. ASSUME NEW x \in T PROVE x \in Nat
    <3>1. PICK b \in S : x = MaxBackups - b
      OBVIOUS
    <3>2. b \in Int /\ b <= MaxBackups /\ MaxBackups \in Nat
      BY <1>1, BoundAssumption
    <3> QED BY <3>1, <3>2
  <2> QED BY <2>1
<1>3. PICK x \in T : \A y \in T : x <= y
  BY <1>2, LeastExists
<1>4. PICK b \in S : x = MaxBackups - b
  OBVIOUS
<1>5. ASSUME NEW c \in S PROVE c <= b
  <2>1. MaxBackups - b <= MaxBackups - c
    BY <1>3, <1>4
  <2>2. b \in Int /\ c \in Int /\ MaxBackups \in Int
    BY <1>1, BoundAssumption
  <2> QED BY <2>1, <2>2
<1> QED BY <1>5 DEF Newest

\* The fields of a task and of a row
LEMMA TaskFields ==
  ASSUME NEW t \in Task
  PROVE  t.at \in Steps /\ t.b \in Backups \cup {0} /\ t.own \in Backups \cup {0}
         /\ t.todo \subseteq Backups /\ t.read \in Copy
BY DEF Task

LEMMA RowFields ==
  ASSUME NEW r \in Row
  PROVE  r.in \in BOOLEAN /\ r.here \in BOOLEAN /\ r.key \in BOOLEAN
         /\ r.ver \in {"unverified", "verified", "failed"}
         /\ r.up \in {"pending", "uploading", "uploaded", "failed"}
BY DEF Row

LEMMA Nulls ==
  /\ NoRow \in Row /\ ~NoRow.in /\ NoRow.up = "pending"
  /\ Inserted \in Row /\ Inserted.in /\ Inserted.up = "pending" /\ Inserted.ver = "unverified"
  /\ Idle \in Task /\ Idle.at = "idle" /\ Idle.op = "idle"
BY DEF NoRow, Inserted, Row, Idle, Task, Steps, Copy

\* One worker goes on.
LEMMA TaskPut ==
  ASSUME TypeOK, NEW w \in Workers, NEW k \in Task, Go(w, k)
  PROVE  /\ task' \in [Workers -> Task] /\ task'[w] = k
         /\ \A v \in Workers \ {w} : task'[v] = task[v]
BY DEF TypeOK, Go

\* One row is updated, if it is there.
LEMMA RowPut ==
  ASSUME TypeOK, NEW b \in Backups, NEW r \in Row, Update(b, r)
  PROVE  /\ row' \in [Backups -> Row] /\ (row[b].in => row'[b] = r)
         /\ (~row[b].in => row'[b] = row[b])
         /\ \A c \in Backups \ {b} : row'[c] = row[c]
BY DEF TypeOK, Update

\* The loops go on with what they have left.
LEMMA LoopSteps ==
  ASSUME NEW t \in Task
  PROVE  /\ Picking(t) \in Task /\ Picking(t).at = (IF t.todo = {} THEN "list" ELSE "pick")
         /\ Picking(t).todo = t.todo /\ Picking(t).own = t.own /\ Picking(t).op = t.op
         /\ Reclaiming(t) \in Task
         /\ Reclaiming(t).at = (IF t.todo = {} THEN "expire" ELSE "reclaim")
         /\ Reclaiming(t).todo = t.todo /\ Reclaiming(t).own = t.own /\ Reclaiming(t).op = t.op
         /\ InHand(Picking(t)) /\ InHand(Reclaiming(t))
<1>1. /\ Picking(t) \in Task /\ Picking(t).at = (IF t.todo = {} THEN "list" ELSE "pick")
      /\ Picking(t).todo = t.todo /\ Picking(t).own = t.own /\ Picking(t).op = t.op
  BY DEF Picking, Task, Steps
<1>2. /\ Reclaiming(t) \in Task
      /\ Reclaiming(t).at = (IF t.todo = {} THEN "expire" ELSE "reclaim")
      /\ Reclaiming(t).todo = t.todo /\ Reclaiming(t).own = t.own /\ Reclaiming(t).op = t.op
  BY DEF Reclaiming, Task, Steps
<1> QED BY <1>1, <1>2 DEF InHand, Holding

\* Local retention goes on with what it has left, or the worker is done.
LEMMA ExpiringIs ==
  ASSUME NEW t \in Task
  PROVE  /\ Expiring(t) \in Task /\ InHand(Expiring(t))
         /\ \/ Expiring(t) = Idle
            \/ /\ Expiring(t).at = "purge" /\ Expiring(t).todo = t.todo
               /\ Expiring(t).own = t.own /\ Expiring(t).op = t.op
<1>1. CASE t.todo = {}
  BY <1>1, Nulls DEF Expiring, InHand, Holding
<1>2. CASE t.todo # {}
  <2> DEFINE k == [t EXCEPT !.at = "purge", !.b = 0]
  <2>1. k \in Task /\ k.at = "purge" /\ k.todo = t.todo /\ k.own = t.own /\ k.op = t.op
    BY DEF Task, Steps
  <2>2. Expiring(t) = k
    BY <1>2 DEF Expiring
  <2> HIDE DEF k
  <2> QED BY <1>2, <2>1, <2>2 DEF InHand, Holding
<1> QED BY <1>1, <1>2

\* A backup is about to be purged.
LEMMA PurgingIs ==
  ASSUME NEW t \in Task, NEW b \in Backups
  PROVE  /\ Purging(t, b) \in Task /\ InHand(Purging(t, b))
         /\ Purging(t, b).at \in {"purge_uploaded", "purge_stray"}
         /\ Purging(t, b).b = b /\ Purging(t, b).todo = t.todo \ {b}
         /\ Purging(t, b).own = t.own /\ Purging(t, b).op = t.op
<1> DEFINE k == Purging(t, b)
<1>1. k \in Task /\ k.at \in {"purge_uploaded", "purge_stray"} /\ k.b = b
      /\ k.todo = t.todo \ {b} /\ k.own = t.own /\ k.op = t.op
  <2>1. CASE row[b].up = "uploaded"
    <3>1. k = [t EXCEPT !.b = b, !.todo = t.todo \ {b}, !.at = "purge_uploaded"]
      BY <2>1 DEF Purging
    <3> HIDE DEF k
    <3> QED BY <3>1 DEF Task, Steps
  <2>2. CASE row[b].up # "uploaded"
    <3>1. k = [t EXCEPT !.b = b, !.todo = t.todo \ {b}, !.at = "purge_stray"]
      BY <2>2 DEF Purging
    <3> HIDE DEF k
    <3> QED BY <3>1 DEF Task, Steps
  <2> QED BY <2>1, <2>2
<1> HIDE DEF k
<1>2. InHand(k)
  BY <1>1 DEF InHand
<1> QED BY <1>1, <1>2 DEF k

\* A worker goes on to another step.
LEMMA AtIs ==
  ASSUME NEW t \in Task, NEW step \in Steps
  PROVE  LET k == [t EXCEPT !.at = step]
         IN  k \in Task /\ k.at = step /\ k.b = t.b /\ k.todo = t.todo /\ k.own = t.own /\ k.op = t.op
BY DEF Task

\* The destination, after an object was sent or deleted
LEMMA PutIs ==
  ASSUME TypeOK, NEW b \in Backups, NEW copy \in {"good", "bad"}, Put(b, copy)
  PROVE  /\ remote' \in [Backups -> Copy] /\ newer' \subseteq Backups \X Backups
         /\ gone' \subseteq Backups /\ remote'[b] = copy /\ gone' = gone \ {b}
         /\ \A c \in Backups \ {b} : remote'[c] = remote[c]
         /\ \A c \in Backups : <<c, b>> \notin newer'
<1>1. remote' \in [Backups -> Copy] /\ remote'[b] = copy /\ gone' = gone \ {b}
      /\ \A c \in Backups \ {b} : remote'[c] = remote[c]
  BY DEF Put, TypeOK, Copy
<1>2. newer' \subseteq Backups \X Backups
  BY DEF Put, TypeOK
<1>3. \A c \in Backups : <<c, b>> \notin newer'
  BY DEF Put
<1> QED BY <1>1, <1>2, <1>3 DEF TypeOK

LEMMA RemoveIs ==
  ASSUME TypeOK, NEW b \in Backups, Remove(b)
  PROVE  /\ remote' \in [Backups -> Copy] /\ newer' \subseteq Backups \X Backups
         /\ newer' \subseteq newer /\ \A c \in Backups \ {b} : remote'[c] = remote[c]
BY DEF Remove, TypeOK, Copy

LEMMA WithdrawIs ==
  ASSUME TypeOK, NEW b \in Backups, Withdraw(b)
  PROVE  /\ remote' \in [Backups -> Copy] /\ newer' \subseteq Backups \X Backups
         /\ newer' \subseteq newer /\ gone' \subseteq Backups /\ gone' = gone \cup {b}
         /\ \A c \in Backups \ {b} : remote'[c] = remote[c]
BY RemoveIs DEF Withdraw, TypeOK

-----------------------------------------------------------------------------
(***************************************************************************)
(* Steps that keep the first invariant                                     *)
(***************************************************************************)

\* Rows change in their upload state, lose the archive, or go; archives go.
Shrinks ==
  \A b \in Backups :
    /\ row'[b].in => row[b].in /\ row'[b].ver = row[b].ver /\ (row'[b].here => row[b].here)
    /\ file'[b] \in {file[b], "none"}

Jobs == {"insert", "verify", "fetch", "accept"}

LEMMA ShrinkStep ==
  ASSUME BaseInv, NEW w \in Workers, NEW k \in Task, Go(w, k), InHand(k), k.at \notin Jobs,
         last' = last, row' \in [Backups -> Row], file' \in [Backups -> Copy], Shrinks,
         remote' \in [Backups -> Copy], newer' \subseteq Backups \X Backups, gone' \subseteq Backups
  PROVE  BaseInv'
<1>1. task' \in [Workers -> Task] /\ task'[w] = k /\ \A v \in Workers \ {w} : task'[v] = task[v]
  BY TaskPut DEF BaseInv
<1>2. TypeOK'
  BY <1>1 DEF BaseInv, TypeOK
<1>3. \A v \in Workers : InHand(task'[v])
  BY <1>1 DEF BaseInv
<1>4. "job" \in Workers
  BY DEF Workers
<1>5. task'["job"].at \in Jobs => task'["job"] = task["job"]
  BY <1>1, <1>4
<1>6. Numbered'
  BY <1>5 DEF BaseInv, Numbered, Jobs, Shrinks
<1>7. ImportApart'
  <2>1. task["job"].at \in {"fetch", "accept"} => task["job"].b \in Backups
    BY <1>4 DEF BaseInv, InHand, Holding
  <2> QED BY <1>5, <2>1 DEF BaseInv, ImportApart, Jobs, Shrinks
<1>8. VerifiedArchiveIsGood'
  BY DEF BaseInv, VerifiedArchiveIsGood, Rows, Shrinks
<1> QED BY <1>2, <1>3, <1>6, <1>7, <1>8 DEF BaseInv, InHand

(***************************************************************************)
(* Steps that keep the other invariants                                    *)
(***************************************************************************)

\* No upload is left: a row says `uploading` for a worker that sends it.
LEMMA AttendedStep ==
  ASSUME TypeOK, UploadingHasUploader, NEW w \in Workers, NEW k \in Task, Go(w, k),
         \A b \in Backups : row'[b].in /\ row'[b].up = "uploading" =>
           \/ row[b].in /\ row[b].up = "uploading"
           \/ w \in Uploaders /\ k.b = b /\ k.at \in Sending,
         \/ task[w].at \notin Sending
         \/ k.at \in Sending /\ k.b = task[w].b
         \/ ~row'[task[w].b].in \/ row'[task[w].b].up # "uploading"
  PROVE  UploadingHasUploader'
<1>1. task' \in [Workers -> Task] /\ task'[w] = k /\ \A v \in Workers \ {w} : task'[v] = task[v]
  BY TaskPut
<1>2. Uploaders \subseteq Workers
  BY DEF Uploaders, Workers
<1> SUFFICES ASSUME NEW b \in Backups, row'[b].in, row'[b].up = "uploading"
             PROVE  \E v \in Uploaders : task'[v].b = b /\ task'[v].at \in Sending
  BY DEF UploadingHasUploader, Rows, Sending
<1>3. CASE w \in Uploaders /\ k.b = b /\ k.at \in Sending
  BY <1>1, <1>3
<1>4. CASE row[b].in /\ row[b].up = "uploading"
  <2>1. PICK v \in Uploaders : task[v].b = b /\ task[v].at \in Sending
    BY <1>4 DEF UploadingHasUploader, Rows, Sending
  <2>2. CASE v = w
    BY <1>1, <2>1, <2>2
  <2>3. CASE v # w
    BY <1>1, <1>2, <2>1, <2>3
  <2> QED BY <2>2, <2>3
<1> QED BY <1>3, <1>4

\* The job goes on, and is the only one that uploads.
LEMMA JobStep ==
  ASSUME BaseInv, ManualInv, NEW k \in Task, Go("job", k), InHand(k),
         k.at \in Sending /\ row'[k.b].in => row'[k.b].up = "uploading",
         k.at = "mark" => Present(k.b)',
         k.at = "accept" /\ file'[k.b] = "good" => Present(k.b)',
         k.at \in {"reclaim", "reclaimed"} => \A b \in k.todo : Present(b)',
         \A b \in Backups : row'[b].in /\ row'[b].up = "uploaded" =>
           \/ Present(b)'
           \/ row[b].in /\ row[b].up = "uploaded" /\ (Present(b) => Present(b)'),
         OwnUpload(k)'
  PROVE  ManualInv'
<1>0. "job" \in Workers
  BY DEF Workers
<1>1. task'["job"] = k /\ \A v \in Workers \ {"job"} : task'[v] = task[v]
  BY <1>0, TaskPut DEF BaseInv
<1>2. JobUploads'
  BY <1>1 DEF ManualInv, JobUploads
<1>3. RowSaysSending' /\ AboutToRecord' /\ ToReclaim'
  BY <1>1 DEF RowSaysSending, AboutToRecord, ToReclaim, Present
<1>4. UploadedMeansRemote'
  BY DEF ManualInv, UploadedMeansRemote, Rows, Present
<1>5. OwnUpload(task["job"])'
  BY <1>1 DEF OwnUpload
<1> QED BY <1>2, <1>3, <1>4, <1>5 DEF ManualInv

\* A worker that only deletes
LEMMA OtherStep ==
  ASSUME BaseInv, ManualInv, NEW w \in Workers \ {"job"}, NEW k \in Task, Go(w, k),
         k.at \in {"idle", "expire", "purge", "purge_uploaded", "purge_stray", "unlink"},
         k.op # "upload",
         \A b \in Backups : row'[b] = row[b] \/ ~row'[b].in,
         \A b \in Backups : file'[b] \in {file[b], "none"},
         \A b \in Backups : Present(b) => Present(b)',
         newer' \subseteq newer
  PROVE  ManualInv'
<1>0. "job" \in Workers /\ task["job"] \in Task /\ InHand(task["job"])
  BY DEF Workers, BaseInv, TypeOK
<1>1. task'["job"] = task["job"] /\ task'[w] = k /\ \A v \in Workers \ {w} : task'[v] = task[v]
  BY <1>0, TaskPut DEF BaseInv
<1>2. JobUploads'
  BY <1>1 DEF ManualInv, JobUploads
<1>3. RowSaysSending'
  <2>1. task["job"].at \in Sending => task["job"].b \in Backups
    BY <1>0 DEF InHand, Holding, Sending
  <2> QED BY <1>1, <2>1 DEF ManualInv, RowSaysSending
<1>4. AboutToRecord'
  <2>1. task["job"].at \in {"mark", "accept"} => task["job"].b \in Backups
    BY <1>0 DEF InHand, Holding
  <2>2. task'["job"].at = "mark" => Present(task["job"].b)'
    BY <1>1, <2>1 DEF ManualInv, AboutToRecord, Present
  <2>3. task'["job"].at = "accept" /\ file'[task'["job"].b] = "good" => Present(task["job"].b)'
    BY <1>1, <2>1 DEF ManualInv, AboutToRecord, Present
  <2> QED BY <2>2, <2>3 DEF AboutToRecord
<1>5. ToReclaim'
  <2>1. task["job"].todo \subseteq Backups
    BY <1>0, TaskFields
  <2> QED BY <1>1, <2>1 DEF ManualInv, ToReclaim, Present
<1>6. UploadedMeansRemote'
  BY DEF ManualInv, UploadedMeansRemote, Rows, Present
<1>7. OwnUpload(task["job"])'
  BY <1>1 DEF ManualInv, OwnUpload
<1> QED BY <1>2, <1>3, <1>4, <1>5, <1>6, <1>7 DEF ManualInv

\* What a step is to keep
Kept ==
  BaseInv' /\ (ManualInv => ManualInv') /\ (UploadingHasUploader => UploadingHasUploader')

\* What the job may hold when it is the only uploader
JobHolds(k) ==
  /\ k.at \in Sending /\ row[k.b].in => row[k.b].up = "uploading"
  /\ k.at = "mark" => Present(k.b)
  /\ k.at = "accept" /\ file[k.b] = "good" => Present(k.b)
  /\ k.at \in {"reclaim", "reclaimed"} => \A b \in k.todo : Present(b)
  /\ OwnUpload(k)

DeletingSteps == {"idle", "expire", "purge", "purge_uploaded", "purge_stray", "unlink"}

\* Only a worker changes: it looks, decides, and waits again.
LEMMA TaskStep ==
  ASSUME BaseInv, NEW w \in Workers, NEW k \in Task, Go(w, k), InHand(k), k.at \notin Jobs,
         UNCHANGED <<last, row, file, remote, newer, gone>>,
         task[w].at \in Sending => k.at \in Sending /\ k.b = task[w].b,
         ManualInv => IF w = "job" THEN JobHolds(k)
                                   ELSE k.at \in DeletingSteps /\ k.op # "upload"
  PROVE  Kept
<1>1. row \in [Backups -> Row] /\ file \in [Backups -> Copy] /\ TypeOK
      /\ remote \in [Backups -> Copy] /\ newer \subseteq Backups \X Backups /\ gone \subseteq Backups
  BY DEF BaseInv, TypeOK
<1>2. BaseInv'
  <2>1. Shrinks
    BY <1>1, RowFields DEF Shrinks
  <2> QED BY <1>1, <2>1, ShrinkStep
<1>3. UploadingHasUploader => UploadingHasUploader'
  BY <1>1, AttendedStep
<1>4. ASSUME ManualInv, w = "job" PROVE ManualInv'
  <2>1. JobHolds(k)
    BY <1>4
  <2>2. \A b : Present(b)' <=> Present(b)
    BY DEF Present
  <2>3. OwnUpload(k)'
    BY <2>1 DEF JobHolds, OwnUpload
  <2>4. /\ k.at \in Sending /\ row'[k.b].in => row'[k.b].up = "uploading"
        /\ k.at = "mark" => Present(k.b)'
        /\ k.at = "accept" /\ file'[k.b] = "good" => Present(k.b)'
        /\ k.at \in {"reclaim", "reclaimed"} => \A b \in k.todo : Present(b)'
    BY <2>1, <2>2 DEF JobHolds
  <2>5. \A b \in Backups : row'[b].in /\ row'[b].up = "uploaded" =>
           \/ Present(b)'
           \/ row[b].in /\ row[b].up = "uploaded" /\ (Present(b) => Present(b)')
    BY <2>2
  <2> QED BY <1>4, <2>3, <2>4, <2>5, JobStep
<1>5. ASSUME ManualInv, w # "job" PROVE ManualInv'
  <2>1. \A b : Present(b)' <=> Present(b)
    BY DEF Present
  <2>2. \A b \in Backups : file'[b] \in {file[b], "none"}
    OBVIOUS
  <2>3. \A b \in Backups : row'[b] = row[b] \/ ~row'[b].in
    OBVIOUS
  <2> QED BY <1>5, <2>1, <2>2, <2>3, OtherStep DEF DeletingSteps
<1> QED BY <1>2, <1>3, <1>4, <1>5 DEF Kept

\* A worker writes a row and goes on.
LEMMA RowStep ==
  ASSUME BaseInv, NEW w \in Workers, NEW k \in Task, Go(w, k), InHand(k), k.at \notin Jobs,
         UNCHANGED <<last, file, remote, newer, gone>>,
         NEW b \in Backups, NEW r \in Row, Update(b, r),
         row[b].in => r.ver = row[b].ver /\ (r.here => row[b].here),
         r.up = "uploading" => w \in Uploaders /\ k.b = b /\ k.at \in Sending,
         task[w].at \in Sending => task[w].b = b /\ r.up # "uploading",
         ManualInv => /\ w = "job" /\ OwnUpload(k)
                      /\ k.at \in Sending => k.at = "upload" /\ k.b = b /\ r.up = "uploading"
                      /\ k.at \in {"reclaim", "reclaimed"} => \A c \in k.todo : Present(c)
                      /\ row[b].in /\ r.up = "uploaded" => row[b].up = "uploaded" \/ Present(b)
  PROVE  Kept
<1>1. TypeOK /\ row[b] \in Row
  BY DEF BaseInv, TypeOK
<1>2. /\ row' \in [Backups -> Row] /\ (row[b].in => row'[b] = r)
      /\ (~row[b].in => row'[b] = row[b])
      /\ \A c \in Backups \ {b} : row'[c] = row[c]
  BY <1>1, RowPut
<1>3. BaseInv'
  <2>1. Shrinks
    <3> SUFFICES ASSUME NEW c \in Backups
                 PROVE  /\ row'[c].in => /\ row[c].in /\ row'[c].ver = row[c].ver
                                         /\ row'[c].here => row[c].here
                        /\ file'[c] \in {file[c], "none"}
      BY DEF Shrinks
    <3>1. CASE c = b
      BY <1>2, <3>1
    <3>2. CASE c # b
      BY <1>2, <3>2
    <3> QED BY <3>1, <3>2
  <2>2. /\ file' \in [Backups -> Copy] /\ remote' \in [Backups -> Copy]
        /\ newer' \subseteq Backups \X Backups /\ gone' \subseteq Backups
    BY DEF BaseInv, TypeOK
  <2> QED BY <1>2, <2>1, <2>2, ShrinkStep
<1>4. ASSUME UploadingHasUploader PROVE UploadingHasUploader'
  <2>1. \A c \in Backups : row'[c].in /\ row'[c].up = "uploading" =>
          \/ row[c].in /\ row[c].up = "uploading"
          \/ w \in Uploaders /\ k.b = c /\ k.at \in Sending
    BY <1>2
  <2>2. \/ task[w].at \notin Sending
        \/ ~row'[task[w].b].in \/ row'[task[w].b].up # "uploading"
    BY <1>2
  <2> QED BY <1>1, <1>4, <2>1, <2>2, AttendedStep
<1>5. ASSUME ManualInv PROVE ManualInv'
  <2>1. \A c : Present(c)' <=> Present(c)
    BY DEF Present
  <2>2. OwnUpload(k)'
    BY <1>5 DEF OwnUpload
  <2>3. \A c \in Backups : row'[c].in /\ row'[c].up = "uploaded" =>
          \/ Present(c)'
          \/ row[c].in /\ row[c].up = "uploaded" /\ (Present(c) => Present(c)')
    BY <1>2, <1>5, <2>1
  <2>4. k.at \in Sending /\ row'[k.b].in => row'[k.b].up = "uploading"
    BY <1>2, <1>5
  <2>5. k.at # "mark" /\ k.at # "accept"
    BY <1>5 DEF Sending, Jobs
  <2>6. k.at \in {"reclaim", "reclaimed"} => \A c \in k.todo : Present(c)'
    BY <1>5, <2>1
  <2>7. w = "job"
    BY <1>5
  <2> QED BY <1>5, <2>2, <2>3, <2>4, <2>5, <2>6, <2>7, JobStep
<1> QED BY <1>3, <1>4, <1>5 DEF Kept

\* A worker that is at a step no deletion has is the job, if that alone uploads.
LEMMA OneUploader ==
  ASSUME ManualInv, NEW w \in Workers, task[w].at \notin DeletingSteps
  PROVE  w = "job"
BY DEF ManualInv, JobUploads, DeletingSteps

\* The workers' tasks
LEMMA TaskIs ==
  ASSUME BaseInv, NEW w \in Workers
  PROVE  task[w] \in Task /\ InHand(task[w]) /\ task[w].todo \subseteq Backups
         /\ task[w].own \in Backups \cup {0}
BY TaskFields DEF BaseInv, TypeOK

-----------------------------------------------------------------------------
(***************************************************************************)
(* reconcile and uploadBackup                                              *)
(***************************************************************************)
LEMMA ScanKeeps ==
  ASSUME BaseInv, NEW w \in Uploaders, Scan(w)
  PROVE  Kept
<1>0. w \in Workers /\ task[w] \in Task /\ task[w].at = "scan"
  BY TaskIs DEF Uploaders, Workers, Scan
<1> DEFINE t == [task[w] EXCEPT !.todo = Candidates]
           k == Picking(t)
<1>1. t \in Task /\ t.op = task[w].op
  BY <1>0 DEF Task, Candidates, Rows
<1> HIDE DEF t
<1>2. k \in Task /\ k.at \in {"list", "pick"} /\ k.op = task[w].op /\ InHand(k)
  BY <1>1, LoopSteps
<1>3. Go(w, k) /\ UNCHANGED <<last, row, file, remote, newer, gone>>
  BY DEF Scan, t
<1> HIDE DEF k
<1>4. ASSUME ManualInv PROVE w = "job" /\ JobHolds(k)
  <2>1. w = "job"
    BY <1>0, <1>4, OneUploader DEF DeletingSteps
  <2>2. k.op # "upload"
    BY <1>0, <1>2, <1>4, <2>1 DEF ManualInv, OwnUpload
  <2> QED BY <1>2, <2>1, <2>2 DEF JobHolds, OwnUpload, Sending
<1> QED BY <1>0, <1>2, <1>3, <1>4, TaskStep DEF Jobs, Sending

LEMMA PickKeeps ==
  ASSUME BaseInv, NEW w \in Uploaders, Pick(w)
  PROVE  Kept
<1> DEFINE t == task[w]
           b == Oldest(t.todo)
<1>0. w \in Workers /\ t \in Task /\ t.at = "pick" /\ t.todo \subseteq Backups /\ t.todo # {}
  BY TaskIs DEF Uploaders, Workers, Pick, InHand
<1>1. b \in t.todo /\ b \in Backups
  BY <1>0, OldestIn
<1>2. ManualInv => w = "job"
  BY <1>0, OneUploader DEF DeletingSteps
<1>3. ASSUME ManualInv, t.op = "upload" PROVE t.todo = {t.own} /\ b = t.own
  BY <1>0, <1>1, <1>2, <1>3 DEF ManualInv, OwnUpload
<1>4. CASE ~row[b].in /\ Go(w, Idle) /\ row' = row
  <2>1. InHand(Idle) /\ Idle \in Task /\ JobHolds(Idle) /\ Idle.at = "idle"
    BY Nulls DEF InHand, Holding, JobHolds, OwnUpload, Sending
  <2> QED BY <1>0, <1>2, <1>4, <2>1, TaskStep DEF Pick, Jobs, Sending
<1>5. CASE row[b].in /\ ~row[b].here /\ row' = row /\ t.op = "upload"
           /\ Go(w, [t EXCEPT !.at = "expire", !.todo = {}])
  <2> DEFINE k == [t EXCEPT !.at = "expire", !.todo = {}]
  <2>1. k \in Task /\ k.at = "expire" /\ k.todo = {}
    BY <1>0 DEF Task, Steps
  <2>2. Go(w, k)
    BY <1>5
  <2> HIDE DEF k
  <2>3. InHand(k) /\ JobHolds(k)
    BY <2>1 DEF InHand, Holding, JobHolds, OwnUpload, Sending
  <2> QED BY <1>0, <1>2, <1>5, <2>1, <2>2, <2>3, TaskStep DEF Pick, Jobs, Sending
<1>6. CASE row[b].in /\ ~row[b].here /\ row' = row /\ t.op # "upload"
           /\ Go(w, Picking([t EXCEPT !.todo = @ \ {b}]))
  <2> DEFINE s == [t EXCEPT !.todo = @ \ {b}]
             k == Picking(s)
  <2>1. s \in Task /\ s.op = t.op
    BY <1>0 DEF Task
  <2>2. Go(w, k)
    BY <1>6
  <2> HIDE DEF s
  <2>3. k \in Task /\ k.at \in {"list", "pick"} /\ k.op = t.op /\ InHand(k)
    BY <2>1, LoopSteps
  <2> HIDE DEF k
  <2>4. JobHolds(k)
    BY <1>6, <2>3 DEF JobHolds, OwnUpload, Sending
  <2> QED BY <1>0, <1>2, <1>6, <2>2, <2>3, <2>4, TaskStep DEF Pick, Jobs, Sending
<1>7. CASE /\ row[b].in /\ row[b].here /\ Update(b, [row[b] EXCEPT !.up = "uploading"])
           /\ Go(w, [t EXCEPT !.at = "upload", !.b = b, !.todo = @ \ {b}, !.read = file[b]])
  <2> DEFINE k == [t EXCEPT !.at = "upload", !.b = b, !.todo = @ \ {b}, !.read = file[b]]
             r == [row[b] EXCEPT !.up = "uploading"]
  <2>1. file[b] \in Copy /\ row[b] \in Row /\ TypeOK
    BY <1>1 DEF BaseInv, TypeOK
  <2>2. k \in Task /\ k.at = "upload" /\ k.b = b /\ k.todo = t.todo \ {b} /\ k.op = t.op
        /\ k.own = t.own
    <3> HIDE DEF b
    <3> QED BY <1>0, <1>1, <2>1 DEF Task, Steps
  <2>3. r \in Row /\ r.in = row[b].in /\ r.ver = row[b].ver /\ r.here = row[b].here
        /\ r.up = "uploading"
    BY <2>1 DEF Row
  <2>4. Go(w, k) /\ Update(b, r)
    BY <1>7
  <2> HIDE DEF k, r, b
  <2>5. InHand(k)
    BY <1>1, <2>2 DEF InHand
  <2>6. ManualInv => OwnUpload(k)
    BY <1>3, <2>2 DEF OwnUpload, Sending
  <2> QED BY <1>0, <1>1, <1>2, <2>2, <2>3, <2>4, <2>5, <2>6, RowStep DEF Pick, Jobs, Sending
<1> QED BY <1>4, <1>5, <1>6, <1>7 DEF Pick

\* An object is sent, whole or damaged.
LEMMA PutStep ==
  ASSUME BaseInv, NEW w \in Uploaders, task[w].at = "upload", NEW copy \in {"good", "bad"},
         Put(task[w].b, copy), UNCHANGED <<last, row, file>>,
         NEW k \in Task, Go(w, k), k.at \in {"check", "clear"}, k.b = task[w].b,
         k.todo = task[w].todo, k.own = task[w].own, k.op = task[w].op
  PROVE  Kept
<1>0. w \in Workers /\ task[w] \in Task /\ InHand(task[w]) /\ TypeOK
  BY TaskIs DEF Uploaders, Workers, BaseInv
<1> DEFINE b == task[w].b
<1>1. b \in Backups
  BY <1>0 DEF InHand, Holding
<1>2. /\ remote' \in [Backups -> Copy] /\ newer' \subseteq Backups \X Backups
      /\ gone' \subseteq Backups /\ gone' = gone \ {b}
      /\ \A c \in Backups \ {b} : remote'[c] = remote[c]
      /\ \A c \in Backups : <<c, b>> \notin newer'
  BY <1>0, <1>1, PutIs
<1>3. InHand(k)
  BY <1>1 DEF InHand
<1>4. BaseInv'
  <2>1. Shrinks
    BY <1>0 DEF Shrinks, TypeOK
  <2>2. row' \in [Backups -> Row] /\ file' \in [Backups -> Copy]
    BY <1>0 DEF TypeOK
  <2> QED BY <1>0, <1>2, <1>3, <2>1, <2>2, ShrinkStep DEF Jobs
<1>5. ASSUME UploadingHasUploader PROVE UploadingHasUploader'
  <2>1. k.at \in Sending
    BY DEF Sending
  <2> QED BY <1>0, <1>5, <2>1, AttendedStep
<1>6. ASSUME ManualInv PROVE ManualInv'
  <2>1. w = "job"
    BY <1>0, <1>6, OneUploader DEF DeletingSteps
  <2>2. row[b].in => row[b].up = "uploading"
    BY <1>6, <2>1 DEF ManualInv, RowSaysSending, Sending
  <2>3. \A c \in Backups \ {b} : Present(c) => Present(c)'
    BY <1>2 DEF Present
  <2>4. OwnUpload(k)'
    <3>1. task[w].op = "upload" => b = task[w].own /\ task[w].todo = {}
      BY <1>6, <2>1 DEF ManualInv, OwnUpload, Sending
    <3> QED BY <1>2, <3>1 DEF OwnUpload, Sending
  <2>5. \A c \in Backups : row'[c].in /\ row'[c].up = "uploaded" =>
          \/ Present(c)'
          \/ row[c].in /\ row[c].up = "uploaded" /\ (Present(c) => Present(c)')
    BY <2>2, <2>3
  <2> HIDE DEF b
  <2>6. k.b = b /\ row' = row
    BY DEF b
  <2> QED BY <1>3, <1>6, <2>1, <2>2, <2>4, <2>5, <2>6, JobStep
<1> QED BY <1>4, <1>5, <1>6 DEF Kept

LEMMA UploadKeeps ==
  ASSUME BaseInv, NEW w \in Uploaders, Upload(w)
  PROVE  Kept
<1>0. w \in Workers /\ task[w] \in Task
  BY TaskIs DEF Uploaders, Workers
<1> DEFINE k == [task[w] EXCEPT !.at = "check", !.read = "none"]
<1>1. k \in Task /\ k.at = "check" /\ k.b = task[w].b /\ k.todo = task[w].todo
      /\ k.own = task[w].own /\ k.op = task[w].op
  BY <1>0 DEF Task, Steps, Copy
<1>2. Go(w, k) /\ task[w].at = "upload" /\ UNCHANGED <<last, row, file>>
  BY DEF Upload
<1>3. PICK copy \in {task[w].read, "bad"} : Put(task[w].b, copy)
  BY DEF Upload
<1>4. copy \in {"good", "bad"}
  BY <1>0, TaskFields DEF Copy, Upload
<1> HIDE DEF k
<1> QED BY <1>1, <1>2, <1>3, <1>4, PutStep

LEMMA UploadFailsKeeps ==
  ASSUME BaseInv, NEW w \in Uploaders, UploadFails(w)
  PROVE  Kept
<1>0. w \in Workers /\ task[w] \in Task /\ InHand(task[w])
  BY TaskIs DEF Uploaders, Workers
<1> DEFINE k == [task[w] EXCEPT !.at = "clear", !.read = "none"]
<1>1. k \in Task /\ k.at = "clear" /\ k.b = task[w].b /\ k.todo = task[w].todo
      /\ k.own = task[w].own /\ k.op = task[w].op
  BY <1>0 DEF Task, Steps, Copy
<1>2. Go(w, k) /\ task[w].at = "upload" /\ UNCHANGED <<last, row, file>>
  BY DEF UploadFails
<1> HIDE DEF k
<1>3. CASE Put(task[w].b, "bad")
  BY <1>1, <1>2, <1>3, PutStep
<1>4. CASE UNCHANGED <<remote, newer, gone>>
  <2>1. InHand(k)
    BY <1>0, <1>1, <1>2 DEF InHand, Holding
  <2>2. ASSUME ManualInv PROVE w = "job" /\ JobHolds(k)
    <3>1. w = "job"
      BY <1>0, <1>2, <2>2, OneUploader DEF DeletingSteps
    <3>2. row[k.b].in => row[k.b].up = "uploading"
      BY <1>1, <1>2, <2>2, <3>1 DEF ManualInv, RowSaysSending, Sending
    <3>3. OwnUpload(k)
      BY <1>1, <1>2, <2>2, <3>1 DEF ManualInv, OwnUpload, Sending
    <3> QED BY <1>1, <3>1, <3>2, <3>3 DEF JobHolds
  <2> QED BY <1>0, <1>1, <1>2, <1>4, <2>1, <2>2, TaskStep DEF Jobs, Sending
<1> QED BY <1>3, <1>4 DEF UploadFails

\* verifyRemoteCopy: `mark` only after the object was found to be good.
LEMMA CheckKeeps ==
  ASSUME BaseInv, NEW w \in Uploaders, Check(w) \/ CheckFails(w)
  PROVE  Kept
<1>0. w \in Workers /\ task[w] \in Task /\ InHand(task[w])
  BY TaskIs DEF Uploaders, Workers
<1>1. PICK step \in {"mark", "clear"} : At(w, step) /\ (step = "mark" => Checked(task[w].b))
  BY DEF Check, CheckFails
<1> DEFINE k == [task[w] EXCEPT !.at = step]
<1>2. step \in Steps
  BY DEF Steps
<1>3. k \in Task /\ k.at = step /\ k.b = task[w].b /\ k.todo = task[w].todo
      /\ k.own = task[w].own /\ k.op = task[w].op
  BY <1>0, <1>2, AtIs
<1>4. Go(w, k) /\ task[w].at = "check" /\ UNCHANGED <<last, row, file, remote, newer, gone>>
  BY <1>1 DEF Check, CheckFails, At
<1> HIDE DEF k
<1>5. InHand(k)
  BY <1>0, <1>3, <1>4 DEF InHand, Holding
<1>6. ASSUME ManualInv PROVE w = "job" /\ JobHolds(k)
  <2>1. w = "job"
    BY <1>0, <1>4, <1>6, OneUploader DEF DeletingSteps
  <2>2. row[k.b].in => row[k.b].up = "uploading"
    BY <1>3, <1>4, <1>6, <2>1 DEF ManualInv, RowSaysSending, Sending
  <2>3. OwnUpload(k)
    BY <1>3, <1>4, <1>6, <2>1 DEF ManualInv, OwnUpload, Sending
  <2>4. k.at = "mark" => Present(k.b)
    BY <1>1, <1>3 DEF Present, Checked
  <2> QED BY <1>3, <2>1, <2>2, <2>3, <2>4 DEF JobHolds
<1> QED BY <1>0, <1>3, <1>4, <1>5, <1>6, TaskStep DEF Jobs, Sending

LEMMA MarkKeeps ==
  ASSUME BaseInv, NEW w \in Uploaders, Mark(w)
  PROVE  Kept
<1> DEFINE b == task[w].b
           k == Picking(task[w])
           r == [row[b] EXCEPT !.up = "uploaded", !.key = TRUE]
<1>0. w \in Workers /\ task[w] \in Task /\ InHand(task[w]) /\ task[w].at = "mark"
  BY TaskIs DEF Uploaders, Workers, Mark
<1>1. b \in Backups /\ row[b] \in Row
  BY <1>0 DEF InHand, Holding, BaseInv, TypeOK
<1>2. /\ k \in Task /\ k.at = (IF task[w].todo = {} THEN "list" ELSE "pick") /\ InHand(k)
      /\ k.todo = task[w].todo /\ k.own = task[w].own /\ k.op = task[w].op
  BY <1>0, LoopSteps
<1>3. r \in Row /\ r.up = "uploaded" /\ r.ver = row[b].ver /\ r.here = row[b].here
  BY <1>1 DEF Row
<1>4. Go(w, k) /\ Update(b, r) /\ UNCHANGED <<last, file, remote, newer, gone>>
  BY DEF Mark
<1> HIDE DEF k, r
<1>5. ASSUME ManualInv PROVE w = "job" /\ OwnUpload(k) /\ Present(b)
  <2>1. w = "job"
    BY <1>0, <1>5, OneUploader DEF DeletingSteps
  <2>2. Present(b)
    BY <1>0, <1>5, <2>1 DEF ManualInv, AboutToRecord
  <2>3. OwnUpload(k)
    BY <1>0, <1>2, <1>5, <2>1 DEF ManualInv, OwnUpload, Sending
  <2> QED BY <2>1, <2>2, <2>3
<1> QED BY <1>0, <1>1, <1>2, <1>3, <1>4, <1>5, RowStep DEF Jobs, Sending

LEMMA ClearKeeps ==
  ASSUME BaseInv, NEW w \in Uploaders, Clear(w)
  PROVE  Kept
<1> DEFINE b == task[w].b
           K == IF task[w].op = "upload" THEN [task[w] EXCEPT !.at = "expire", !.b = 0]
                ELSE Picking(task[w])
           r == [row[b] EXCEPT !.up = "failed"]
<1>0. w \in Workers /\ task[w] \in Task /\ InHand(task[w]) /\ task[w].at = "clear" /\ TypeOK
  BY TaskIs DEF Uploaders, Workers, Clear, BaseInv
<1>1. b \in Backups /\ row[b] \in Row
  BY <1>0 DEF InHand, Holding, BaseInv, TypeOK
<1>k. PICK k : k = K
  OBVIOUS
<1>2. /\ k \in Task /\ InHand(k) /\ k.op = task[w].op
      /\ IF task[w].op = "upload" THEN k.at = "expire" ELSE k.at \in {"list", "pick"}
  <2>1. CASE task[w].op = "upload"
    <3>1. k = [task[w] EXCEPT !.at = "expire", !.b = 0]
      BY <1>k, <2>1
    <3>2. k \in Task /\ k.at = "expire" /\ k.op = task[w].op
      BY <1>0, <3>1 DEF Task, Steps
    <3> QED BY <2>1, <3>2 DEF InHand, Holding
  <2>2. CASE task[w].op # "upload"
    BY <1>0, <1>k, <2>2, LoopSteps
  <2> QED BY <2>1, <2>2
<1>3. r \in Row /\ r.up = "failed" /\ r.ver = row[b].ver /\ r.here = row[b].here
  BY <1>1 DEF Row
<1>4. Go(w, k) /\ Update(b, r) /\ UNCHANGED <<last, file, gone>>
  BY <1>k DEF Clear
<1>5. /\ remote' \in [Backups -> Copy] /\ newer' \subseteq Backups \X Backups
      /\ \A c \in Backups \ {b} : remote'[c] = remote[c]
  BY <1>0, <1>1, RemoveIs DEF Clear, TypeOK
<1> HIDE DEF r, K
<1>6. /\ row' \in [Backups -> Row] /\ (row[b].in => row'[b] = r)
      /\ (~row[b].in => row'[b] = row[b])
      /\ \A c \in Backups \ {b} : row'[c] = row[c]
  BY <1>0, <1>1, <1>3, <1>4, RowPut
<1>7. BaseInv'
  <2>1. Shrinks
    <3> HIDE DEF b
    <3> QED BY <1>1, <1>3, <1>4, <1>6 DEF Shrinks
  <2>2. file' \in [Backups -> Copy] /\ gone' \subseteq Backups
    BY <1>0, <1>4 DEF TypeOK
  <2> QED BY <1>0, <1>2, <1>4, <1>5, <1>6, <2>1, <2>2, ShrinkStep DEF Jobs
<1>8. ASSUME UploadingHasUploader PROVE UploadingHasUploader'
  <2>1. \A c \in Backups : row'[c].in /\ row'[c].up = "uploading" =>
          row[c].in /\ row[c].up = "uploading"
    BY <1>3, <1>6
  <2>2. ~row'[task[w].b].in \/ row'[task[w].b].up # "uploading"
    BY <1>3, <1>6
  <2> QED BY <1>0, <1>2, <1>4, <1>8, <2>1, <2>2, AttendedStep
<1>9. ASSUME ManualInv PROVE ManualInv'
  <2>1. w = "job"
    BY <1>0, <1>9, OneUploader DEF DeletingSteps
  <2>2. \A c \in Backups \ {b} : Present(c) => Present(c)'
    BY <1>4, <1>5 DEF Present
  <2>3. \A c \in Backups : row'[c].in /\ row'[c].up = "uploaded" =>
          row[c].in /\ row[c].up = "uploaded" /\ (Present(c) => Present(c)')
    <3> HIDE DEF b
    <3> QED BY <1>3, <1>6, <2>2
  <2>4. OwnUpload(k)'
    BY <1>2 DEF OwnUpload, Sending
  <2>5. k.at \notin Sending /\ k.at \notin {"mark", "accept", "reclaim", "reclaimed"}
    BY <1>2 DEF Sending
  <2> QED BY <1>2, <1>4, <1>9, <2>1, <2>3, <2>4, <2>5, JobStep
<1> QED BY <1>7, <1>8, <1>9 DEF Kept

-----------------------------------------------------------------------------
(***************************************************************************)
(* Retention, staging and deletion                                         *)
(***************************************************************************)

\* A worker takes things away: objects on purpose, rows, archives, an upload
\* that is no longer there.
LEMMA DropStep ==
  ASSUME BaseInv, NEW w \in Workers, task[w].at \notin Sending, NEW k \in Task, Go(w, k), InHand(k),
         k.at \notin Jobs, k.at \notin Sending, last' = last,
         row' \in [Backups -> Row], file' \in [Backups -> Copy], remote' \in [Backups -> Copy],
         newer' \subseteq newer, gone' \subseteq Backups,
         \A b \in Backups : Present(b) => Present(b)',
         \A b \in Backups : file'[b] \in {file[b], "none"},
         \A b \in Backups : \/ row'[b] = row[b] \/ ~row'[b].in
                            \/ /\ row[b].in /\ row'[b].ver = row[b].ver
                               /\ row'[b].here => row[b].here
                               /\ row'[b].up \in {row[b].up, "pending"}
                               /\ ManualInv => w = "job",
         ManualInv => \/ /\ w = "job" /\ OwnUpload(k)
                         /\ k.at \in {"reclaim", "reclaimed"} => \A b \in k.todo : Present(b)
                      \/ w # "job" /\ k.at \in DeletingSteps /\ k.op # "upload"
  PROVE  Kept
<1>1. TypeOK
  BY DEF BaseInv
<1>2. BaseInv'
  <2>1. Shrinks
    BY RowFields DEF Shrinks
  <2>2. newer' \subseteq Backups \X Backups
    BY <1>1 DEF TypeOK
  <2> QED BY <2>1, <2>2, ShrinkStep
<1>3. ASSUME UploadingHasUploader PROVE UploadingHasUploader'
  <2>1. \A b \in Backups : row'[b].in /\ row'[b].up = "uploading" =>
          row[b].in /\ row[b].up = "uploading"
    OBVIOUS
  <2> QED BY <1>1, <1>3, <2>1, AttendedStep
<1>4. ASSUME ManualInv, w = "job" PROVE ManualInv'
  <2>1. OwnUpload(k)'
    BY <1>4 DEF OwnUpload
  <2>2. \A b \in Backups : row'[b].in /\ row'[b].up = "uploaded" =>
          row[b].in /\ row[b].up = "uploaded" /\ (Present(b) => Present(b)')
    OBVIOUS
  <2>3. k.at \in {"reclaim", "reclaimed"} => \A b \in k.todo : Present(b)'
    BY <1>4, TaskFields
  <2>4. k.at \notin Sending /\ k.at # "mark" /\ k.at # "accept"
    BY DEF Sending, Jobs
  <2> QED BY <1>4, <2>1, <2>2, <2>3, <2>4, JobStep
<1>5. ASSUME ManualInv, w # "job" PROVE ManualInv'
  <2>1. \A b \in Backups : row'[b] = row[b] \/ ~row'[b].in
    BY <1>5
  <2> QED BY <1>5, <2>1, OtherStep DEF DeletingSteps
<1> QED BY <1>2, <1>3, <1>4, <1>5 DEF Kept

\* The same, and rows stay.
LEMMA LookStep ==
  ASSUME BaseInv, NEW w \in Workers, task[w].at \notin Sending, NEW k \in Task, Go(w, k), InHand(k),
         k.at \notin Jobs, k.at \notin Sending, UNCHANGED <<last, row, file>>,
         remote' \in [Backups -> Copy], newer' \subseteq newer, gone' \subseteq Backups,
         \A b \in Backups : Present(b) => Present(b)',
         ManualInv => \/ /\ w = "job" /\ OwnUpload(k)
                         /\ k.at \in {"reclaim", "reclaimed"} => \A b \in k.todo : Present(b)
                      \/ w # "job" /\ k.at \in DeletingSteps /\ k.op # "upload"
  PROVE  Kept
<1>1. row' \in [Backups -> Row] /\ file' \in [Backups -> Copy]
  BY DEF BaseInv, TypeOK
<1>2. \A b \in Backups : file'[b] \in {file[b], "none"}
  OBVIOUS
<1>3. \A b \in Backups : \/ row'[b] = row[b] \/ ~row'[b].in
                         \/ /\ row[b].in /\ row'[b].ver = row[b].ver
                            /\ row'[b].here => row[b].here
                            /\ row'[b].up \in {row[b].up, "pending"}
                            /\ ManualInv => w = "job"
  OBVIOUS
<1> QED BY <1>1, <1>2, <1>3, DropStep

\* The destination may have lost an object that somebody deletes.
LEMMA MaybeWithdrawn ==
  ASSUME TypeOK, NEW b \in Backups, Withdraw(b) \/ UNCHANGED <<remote, newer, gone>>
  PROVE  /\ remote' \in [Backups -> Copy] /\ newer' \subseteq newer /\ gone' \subseteq Backups
         /\ \A c \in Backups : Present(c) => Present(c)'
<1>1. CASE Withdraw(b)
  BY <1>1, WithdrawIs DEF Present
<1>2. CASE UNCHANGED <<remote, newer, gone>>
  BY <1>2 DEF TypeOK, Present
<1> QED BY <1>1, <1>2

\* What a worker that ends holds
LEMMA IdleHolds ==
  /\ Idle \in Task /\ InHand(Idle) /\ Idle.at = "idle" /\ Idle.op # "upload" /\ OwnUpload(Idle)
  /\ Idle.at \notin Jobs /\ Idle.at \notin Sending /\ Idle.at \in DeletingSteps
BY Nulls DEF InHand, Holding, OwnUpload, Jobs, Sending, DeletingSteps

LEMMA ListKeeps ==
  ASSUME BaseInv, NEW w \in Uploaders, List(w)
  PROVE  Kept
<1>0. w \in Workers /\ task[w] \in Task /\ task[w].at = "list" /\ TypeOK
      /\ task[w].own \in Backups \cup {0}
  BY TaskIs DEF Uploaders, Workers, List, BaseInv
<1>1. PICK keep \in 1 .. Keep : Go(w, [task[w] EXCEPT !.at = "prune", !.todo = Prunable(keep)])
  BY DEF List
<1> DEFINE k == [task[w] EXCEPT !.at = "prune", !.todo = Prunable(keep)]
<1>2. Prunable(keep) \subseteq Backups
  BY DEF Prunable, selectBackupsForDeletion, Objects
<1>3. k \in Task /\ k.at = "prune" /\ k.todo = Prunable(keep) /\ k.own = task[w].own
      /\ k.op = task[w].op
  <2> HIDE DEF Prunable
  <2> QED BY <1>0, <1>2 DEF Task, Steps
<1>4. Go(w, k) /\ UNCHANGED <<last, row, file, remote, newer, gone>>
  BY <1>1 DEF List
<1> HIDE DEF k
<1>5. InHand(k)
  BY <1>3 DEF InHand, Holding
<1>6. ASSUME ManualInv PROVE w = "job" /\ OwnUpload(k)
  <2>1. w = "job"
    BY <1>0, <1>6, OneUploader DEF DeletingSteps
  <2>2. ASSUME k.op = "upload" PROVE k.own \notin k.todo
    <3>1. \A c \in Backups : <<c, k.own>> \notin newer
      BY <1>0, <1>3, <1>6, <2>1, <2>2 DEF ManualInv, OwnUpload
    <3>2. {c \in Objects : <<c, k.own>> \in newer} = {}
      BY <3>1 DEF Objects
    <3>3. Cardinality({c \in Objects : <<c, k.own>> \in newer}) = 0
      BY <3>2, FS_EmptySet
    <3>4. ~(0 >= keep)
      BY BoundAssumption
    <3> QED BY <1>3, <3>3, <3>4 DEF Prunable, selectBackupsForDeletion
  <2> QED BY <1>3, <2>1, <2>2 DEF OwnUpload, Sending
<1>7. \A b \in Backups : Present(b) => Present(b)'
  BY <1>4 DEF Present
<1> QED BY <1>0, <1>3, <1>4, <1>5, <1>6, <1>7, LookStep DEF Jobs, Sending, TypeOK

LEMMA RetentionFailsKeeps ==
  ASSUME BaseInv, NEW w \in Uploaders, RetentionFails(w)
  PROVE  Kept
<1>0. w \in Workers /\ TypeOK /\ task[w].at \in {"list", "prune"} /\ task[w].todo \subseteq Backups
      /\ Go(w, Idle) /\ UNCHANGED <<last, row, file>>
  BY TaskIs DEF Uploaders, Workers, RetentionFails, BaseInv
<1>1. /\ remote' \in [Backups -> Copy] /\ newer' \subseteq newer /\ gone' \subseteq Backups
      /\ \A c \in Backups : Present(c) => Present(c)'
  <2>1. CASE UNCHANGED <<remote, newer, gone>>
    BY <1>0, <2>1 DEF TypeOK, Present
  <2>2. ASSUME NEW b \in task[w].todo, Withdraw(b)
        PROVE  /\ remote' \in [Backups -> Copy] /\ newer' \subseteq newer /\ gone' \subseteq Backups
               /\ \A c \in Backups : Present(c) => Present(c)'
    BY <1>0, <2>2, MaybeWithdrawn
  <2> QED BY <2>1, <2>2 DEF RetentionFails
<1>2. ManualInv => w = "job"
  BY <1>0, OneUploader DEF DeletingSteps
<1> QED BY <1>0, <1>1, <1>2, IdleHolds, LookStep DEF Sending

LEMMA PruneKeeps ==
  ASSUME BaseInv, NEW w \in Uploaders, Prune(w)
  PROVE  Kept
<1>0. w \in Workers /\ TypeOK /\ task[w] \in Task /\ task[w].at = "prune"
      /\ task[w].todo \subseteq Backups
  BY TaskIs DEF Uploaders, Workers, Prune, BaseInv
<1>1. PICK b \in task[w].todo :
        /\ Withdraw(b)
        /\ row' = IF row[b].in /\ row[b].key THEN [row EXCEPT ![b] = Unlisted(b)] ELSE row
        /\ Go(w, [task[w] EXCEPT !.todo = @ \ {b}])
  BY DEF Prune
<1> DEFINE k == [task[w] EXCEPT !.todo = @ \ {b}]
<1>2. k \in Task /\ k.at = "prune" /\ k.todo = task[w].todo \ {b} /\ k.own = task[w].own
      /\ k.op = task[w].op
  BY <1>0 DEF Task
<1>3. Go(w, k) /\ UNCHANGED <<last, file>>
  BY <1>1 DEF Prune
<1> HIDE DEF k
<1>4. b \in Backups /\ row[b] \in Row /\ row \in [Backups -> Row]
  BY <1>0 DEF TypeOK
<1>5. /\ remote' \in [Backups -> Copy] /\ newer' \subseteq newer /\ gone' \subseteq Backups
      /\ \A c \in Backups : Present(c) => Present(c)'
  BY <1>0, <1>1, <1>4, MaybeWithdrawn
<1>6. /\ Unlisted(b) \in Row
      /\ \/ ~Unlisted(b).in
         \/ /\ Unlisted(b).in = row[b].in /\ Unlisted(b).ver = row[b].ver
            /\ Unlisted(b).here = row[b].here /\ Unlisted(b).up = "pending"
  <2>1. CASE row[b].here
    <3> DEFINE r == [row[b] EXCEPT !.up = "pending", !.key = FALSE]
    <3>1. r \in Row /\ r.in = row[b].in /\ r.ver = row[b].ver /\ r.here = row[b].here
          /\ r.up = "pending"
      BY <1>4 DEF Row
    <3>2. Unlisted(b) = r
      BY <2>1 DEF Unlisted
    <3> HIDE DEF r
    <3> QED BY <3>1, <3>2
  <2>2. CASE ~row[b].here
    BY <2>2, Nulls DEF Unlisted
  <2> QED BY <2>1, <2>2
<1>7. ManualInv => w = "job"
  BY <1>0, OneUploader DEF DeletingSteps
<1>8. row' \in [Backups -> Row]
      /\ \A c \in Backups : \/ row'[c] = row[c] \/ ~row'[c].in
                            \/ /\ row[c].in /\ row'[c].ver = row[c].ver
                               /\ row'[c].here => row[c].here
                               /\ row'[c].up \in {row[c].up, "pending"}
                               /\ ManualInv => w = "job"
  <2>1. CASE row[b].in /\ row[b].key
    <3>1. row' = [row EXCEPT ![b] = Unlisted(b)]
      BY <1>1, <2>1
    <3>2. row' \in [Backups -> Row] /\ row'[b] = Unlisted(b)
          /\ \A c \in Backups \ {b} : row'[c] = row[c]
      BY <1>4, <1>6, <3>1
    <3> QED BY <1>4, <1>6, <1>7, <2>1, <3>2
  <2>2. CASE ~(row[b].in /\ row[b].key)
    BY <1>1, <1>4, <2>2
  <2> QED BY <2>1, <2>2
<1>9. ManualInv => OwnUpload(k)
  BY <1>0, <1>2, <1>7 DEF ManualInv, OwnUpload, Sending
<1>10. InHand(k)
  BY <1>2 DEF InHand, Holding
<1>11. file' \in [Backups -> Copy] /\ \A c \in Backups : file'[c] \in {file[c], "none"}
  BY <1>0, <1>3 DEF TypeOK
<1> QED BY <1>0, <1>2, <1>3, <1>5, <1>7, <1>8, <1>9, <1>10, <1>11, DropStep DEF Jobs, Sending

LEMMA PrunedKeeps ==
  ASSUME BaseInv, NEW w \in Uploaders, Pruned(w)
  PROVE  Kept
<1>0. w \in Workers /\ TypeOK /\ task[w] \in Task /\ task[w].at = "prune"
  BY TaskIs DEF Uploaders, Workers, Pruned, BaseInv
<1> DEFINE t == [task[w] EXCEPT !.todo = Reclaimable]
           k == Reclaiming(t)
<1>1. t \in Task /\ t.todo = Reclaimable
  BY <1>0 DEF Task, Reclaimable, Rows
<1>2. Go(w, k) /\ UNCHANGED <<last, row, file, remote, newer, gone>>
  BY DEF Pruned
<1> HIDE DEF t
<1>3. k \in Task /\ k.at \in {"expire", "reclaim"} /\ k.todo = Reclaimable /\ InHand(k)
  BY <1>1, LoopSteps
<1> HIDE DEF k
<1>4. ASSUME ManualInv PROVE w = "job" /\ OwnUpload(k) /\ \A b \in k.todo : Present(b)
  <2>1. w = "job"
    BY <1>0, <1>4, OneUploader DEF DeletingSteps
  <2>2. \A b \in Reclaimable : Present(b)
    BY <1>4 DEF ManualInv, UploadedMeansRemote, Reclaimable, Present
  <2> QED BY <1>3, <2>1, <2>2 DEF OwnUpload, Sending
<1>5. \A b \in Backups : Present(b) => Present(b)'
  BY <1>2 DEF Present
<1> QED BY <1>0, <1>2, <1>3, <1>4, <1>5, LookStep DEF Jobs, Sending, TypeOK

LEMMA ReclaimKeeps ==
  ASSUME BaseInv, NEW w \in Uploaders, Reclaim(w)
  PROVE  Kept
<1>0. w \in Workers /\ TypeOK /\ task[w] \in Task /\ task[w].at = "reclaim"
      /\ task[w].todo \subseteq Backups /\ task[w].todo # {}
  BY TaskIs DEF Uploaders, Workers, Reclaim, BaseInv, InHand
<1> DEFINE b == Newest(task[w].todo)
           k == [task[w] EXCEPT !.at = "reclaimed", !.b = b, !.todo = @ \ {b}]
<1>1. b \in task[w].todo /\ b \in Backups
  BY <1>0, NewestIn
<1>2. Go(w, k) /\ file' = [file EXCEPT ![b] = "none"] /\ UNCHANGED <<last, row, remote, newer, gone>>
  BY DEF Reclaim
<1> HIDE DEF b
<1>3. k \in Task /\ k.at = "reclaimed" /\ k.b = b /\ k.todo = task[w].todo \ {b}
  BY <1>0, <1>1 DEF Task, Steps
<1> HIDE DEF k
<1>4. ASSUME ManualInv PROVE w = "job" /\ OwnUpload(k) /\ \A c \in k.todo : Present(c)
  <2>1. w = "job"
    BY <1>0, <1>4, OneUploader DEF DeletingSteps
  <2> QED BY <1>0, <1>3, <1>4, <2>1 DEF ManualInv, ToReclaim, OwnUpload, Sending
<1>5. file' \in [Backups -> Copy] /\ \A c \in Backups : file'[c] \in {file[c], "none"}
  BY <1>0, <1>1, <1>2 DEF TypeOK, Copy
<1>6. \A c \in Backups : Present(c) => Present(c)'
  BY <1>2 DEF Present
<1>7. InHand(k)
  BY <1>1, <1>3 DEF InHand
<1>8. row' \in [Backups -> Row] /\ remote' \in [Backups -> Copy] /\ newer' \subseteq newer
      /\ gone' \subseteq Backups /\ \A c \in Backups : row'[c] = row[c]
  BY <1>0, <1>2 DEF TypeOK
<1> QED BY <1>0, <1>2, <1>3, <1>4, <1>5, <1>6, <1>7, <1>8, DropStep DEF Jobs, Sending

LEMMA ReclaimedKeeps ==
  ASSUME BaseInv, NEW w \in Uploaders, Reclaimed(w)
  PROVE  Kept
<1> DEFINE b == task[w].b
           k == Reclaiming(task[w])
           r == [row[b] EXCEPT !.here = FALSE]
<1>0. w \in Workers /\ task[w] \in Task /\ InHand(task[w]) /\ task[w].at = "reclaimed" /\ TypeOK
  BY TaskIs DEF Uploaders, Workers, Reclaimed, BaseInv
<1>1. b \in Backups /\ row[b] \in Row
  BY <1>0 DEF InHand, Holding, TypeOK
<1>2. k \in Task /\ k.at \in {"expire", "reclaim"} /\ k.todo = task[w].todo /\ InHand(k)
  BY <1>0, LoopSteps
<1>3. r \in Row /\ r.in = row[b].in /\ r.up = row[b].up /\ r.ver = row[b].ver /\ ~r.here
  BY <1>1 DEF Row
<1>4. Go(w, k) /\ Update(b, r) /\ UNCHANGED <<last, file, remote, newer, gone>>
  BY DEF Reclaimed
<1> HIDE DEF k, r, b
<1>5. /\ row' \in [Backups -> Row] /\ (row[b].in => row'[b] = r)
      /\ (~row[b].in => row'[b] = row[b])
      /\ \A c \in Backups \ {b} : row'[c] = row[c]
  BY <1>0, <1>1, <1>3, <1>4, RowPut
<1>6. ASSUME ManualInv PROVE w = "job" /\ OwnUpload(k) /\ \A c \in k.todo : Present(c)
  <2>1. w = "job"
    BY <1>0, <1>6, OneUploader DEF DeletingSteps
  <2> QED BY <1>0, <1>2, <1>6, <2>1 DEF ManualInv, ToReclaim, OwnUpload, Sending
<1>7. \A c \in Backups : \/ row'[c] = row[c] \/ ~row'[c].in
                         \/ /\ row[c].in /\ row'[c].ver = row[c].ver
                            /\ row'[c].here => row[c].here
                            /\ row'[c].up \in {row[c].up, "pending"}
                            /\ ManualInv => w = "job"
  BY <1>3, <1>5, <1>6
<1>8. \A c \in Backups : (Present(c) => Present(c)') /\ file'[c] \in {file[c], "none"}
  BY <1>4 DEF Present
<1>9. file' \in [Backups -> Copy] /\ remote' \in [Backups -> Copy] /\ newer' \subseteq newer
      /\ gone' \subseteq Backups
  BY <1>0, <1>4 DEF TypeOK
<1> QED BY <1>0, <1>2, <1>4, <1>5, <1>6, <1>7, <1>8, <1>9, DropStep DEF Jobs, Sending

\* A deleting worker goes on with the list it had, or ends.
Onward(t, k) ==
  \/ k = Idle
  \/ /\ k.at \in {"purge", "purge_uploaded", "purge_stray", "unlink"}
     /\ k.op = t.op /\ k.own = t.own /\ k.todo \subseteq t.todo

LEMMA OnwardHolds ==
  ASSUME BaseInv, NEW w \in Workers, NEW k \in Task, Onward(task[w], k), ManualInv,
         task[w].at \in {"purge", "purge_uploaded", "purge_stray", "unlink"}
  PROVE  \/ w = "job" /\ OwnUpload(k)
         \/ w # "job" /\ k.at \in DeletingSteps /\ k.op # "upload"
<1>1. CASE k = Idle
  BY <1>1, IdleHolds
<1>2. CASE k # Idle /\ w = "job"
  BY <1>2 DEF Onward, ManualInv, OwnUpload, Sending
<1>3. CASE k # Idle /\ w # "job"
  BY <1>3 DEF Onward, ManualInv, JobUploads, DeletingSteps
<1> QED BY <1>1, <1>2, <1>3

LEMMA OnwardAt ==
  ASSUME NEW t, NEW k, Onward(t, k)
  PROVE  k.at \notin Jobs /\ k.at \notin Sending /\ k.at \notin {"reclaim", "reclaimed"}
<1>1. CASE k = Idle
  BY <1>1, IdleHolds
<1>2. CASE k # Idle
  BY <1>2 DEF Onward, Jobs, Sending
<1> QED BY <1>1, <1>2

LEMMA ExpireKeeps ==
  ASSUME BaseInv, NEW w \in Workers, Expire(w)
  PROVE  Kept
<1>0. TypeOK /\ task[w] \in Task /\ task[w].at = "expire"
  BY TaskIs DEF Expire, BaseInv
<1>1. PICK keep \in 1 .. Keep :
        Go(w, Expiring([task[w] EXCEPT !.todo = Expirable(keep, task[w].own)]))
  BY DEF Expire
<1> DEFINE S == Expirable(keep, task[w].own)
           t == [task[w] EXCEPT !.todo = S]
           k == Expiring(t)
<1>2. S \subseteq Backups /\ task[w].own \notin S
  BY DEF Expirable, selectBackupsForDeletion, Rows
<1>3. Go(w, k) /\ UNCHANGED <<last, row, file, remote, newer, gone>>
  BY <1>1 DEF Expire
<1> HIDE DEF S
<1>4. t \in Task /\ t.todo = S /\ t.own = task[w].own /\ t.op = task[w].op
  BY <1>0, <1>2 DEF Task
<1> HIDE DEF t
<1>5. /\ k \in Task /\ InHand(k)
      /\ \/ k = Idle
         \/ k.at = "purge" /\ k.todo = S /\ k.own = t.own /\ k.op = t.op
  BY <1>4, ExpiringIs
<1> HIDE DEF k
<1>6. k.at \in {"idle", "purge"}
  BY <1>5, Nulls
<1>7. ASSUME ManualInv
      PROVE  \/ w = "job" /\ OwnUpload(k)
             \/ w # "job" /\ k.at \in DeletingSteps /\ k.op # "upload"
  <2>1. CASE k = Idle
    BY <2>1, IdleHolds
  <2>2. CASE k # Idle /\ w = "job"
    BY <1>2, <1>4, <1>5, <2>2 DEF OwnUpload, Sending
  <2>3. CASE k # Idle /\ w # "job"
    BY <1>4, <1>5, <1>7, <2>3 DEF ManualInv, JobUploads, DeletingSteps
  <2> QED BY <2>1, <2>2, <2>3
<1>8. \A b \in Backups : Present(b) => Present(b)'
  BY <1>3 DEF Present
<1> QED BY <1>0, <1>3, <1>5, <1>6, <1>7, <1>8, LookStep DEF Jobs, Sending, TypeOK

LEMMA PurgeKeeps ==
  ASSUME BaseInv, NEW w \in Workers, Purge(w)
  PROVE  Kept
<1>0. TypeOK /\ task[w] \in Task /\ task[w].at = "purge"
      /\ task[w].todo \subseteq Backups /\ task[w].todo # {}
  BY TaskIs DEF Purge, BaseInv, InHand
<1> DEFINE b == Newest(task[w].todo)
<1>1. b \in Backups
  BY <1>0, NewestIn
<1>2. PICK k : k = IF row[b].in THEN Purging(task[w], b) ELSE Idle
  OBVIOUS
<1>3. Go(w, k) /\ UNCHANGED <<last, row, file, remote, newer, gone>>
  BY <1>2 DEF Purge
<1> HIDE DEF b
<1>4. k \in Task /\ InHand(k) /\ Onward(task[w], k)
  <2>1. CASE row[b].in
    BY <1>0, <1>1, <1>2, <2>1, PurgingIs DEF Onward
  <2>2. CASE ~row[b].in
    BY <1>2, <2>2, IdleHolds DEF Onward
  <2> QED BY <2>1, <2>2
<1>5. \A c \in Backups : Present(c) => Present(c)'
  BY <1>3 DEF Present
<1>6. k.at \notin Jobs /\ k.at \notin Sending /\ k.at \notin {"reclaim", "reclaimed"}
  BY <1>4, OnwardAt
<1> QED BY <1>0, <1>3, <1>4, <1>5, <1>6, OnwardHolds, LookStep DEF Sending, TypeOK

LEMMA DeleteKeeps ==
  ASSUME BaseInv, NEW h \in Handlers, NEW b \in Backups, Delete(h, b)
  PROVE  Kept
<1>0. TypeOK /\ h \in Workers /\ h # "job" /\ task[h].at = "idle"
  BY WorkerAssumption, Nulls DEF Delete, BaseInv, Workers
<1> DEFINE t == [Idle EXCEPT !.op = "delete"]
           k == Purging(t, b)
<1>1. t \in Task /\ t.op = "delete"
  BY DEF Idle, Task, Steps, Copy
<1>2. Go(h, k) /\ UNCHANGED <<last, row, file, remote, newer, gone>>
  BY DEF Delete
<1> HIDE DEF t
<1>3. k \in Task /\ InHand(k) /\ k.at \in {"purge_uploaded", "purge_stray"} /\ k.op # "upload"
  BY <1>1, PurgingIs
<1> HIDE DEF k
<1>4. \A c \in Backups : Present(c) => Present(c)'
  BY <1>2 DEF Present
<1> QED BY <1>0, <1>2, <1>3, <1>4, LookStep DEF Jobs, Sending, DeletingSteps, TypeOK

\* A purge that takes the row with it
LEMMA PurgedKeeps ==
  ASSUME BaseInv, NEW w \in Workers, Purged(w) \/ PurgeSkipped(w)
  PROVE  Kept
<1> DEFINE b == task[w].b
           k == [task[w] EXCEPT !.at = "unlink"]
<1>0. TypeOK /\ task[w] \in Task /\ InHand(task[w]) /\ task[w].at \in {"purge_uploaded", "purge_stray"}
  BY TaskIs DEF Purged, PurgeSkipped, BaseInv
<1>1. b \in Backups
  BY <1>0 DEF InHand, Holding
<1>2. k \in Task /\ k.at = "unlink" /\ k.b = b /\ k.todo = task[w].todo /\ k.own = task[w].own
      /\ k.op = task[w].op
  <2>1. "unlink" \in Steps
    BY DEF Steps
  <2> QED BY <1>0, <2>1, AtIs
<1>3. Go(w, k) /\ row' = [row EXCEPT ![b] = NoRow] /\ UNCHANGED <<last, file>>
      /\ (Withdraw(b) \/ UNCHANGED <<remote, newer, gone>>)
  BY DEF Purged, PurgeSkipped, At
<1> HIDE DEF k, b
<1>4. /\ remote' \in [Backups -> Copy] /\ newer' \subseteq newer /\ gone' \subseteq Backups
      /\ \A c \in Backups : Present(c) => Present(c)'
  BY <1>0, <1>1, <1>3, MaybeWithdrawn
<1>5. row' \in [Backups -> Row] /\ \A c \in Backups : row'[c] = row[c] \/ ~row'[c].in
  BY <1>0, <1>1, <1>3, Nulls DEF TypeOK
<1>6. InHand(k)
  BY <1>1, <1>2 DEF InHand
<1>7. Onward(task[w], k)
  BY <1>2 DEF Onward
<1>8. file' \in [Backups -> Copy] /\ \A c \in Backups : file'[c] \in {file[c], "none"}
  BY <1>0, <1>3 DEF TypeOK
<1>9. k.at \notin Jobs /\ k.at \notin Sending /\ k.at \notin {"reclaim", "reclaimed"}
  BY <1>7, OnwardAt
<1> QED BY <1>0, <1>2, <1>3, <1>4, <1>5, <1>6, <1>7, <1>8, <1>9, OnwardHolds, DropStep DEF Sending

LEMMA PurgeRefusedKeeps ==
  ASSUME BaseInv, NEW w \in Workers, PurgeRefused(w)
  PROVE  Kept
<1>0. TypeOK /\ InHand(task[w]) /\ task[w].at = "purge_uploaded"
      /\ Go(w, Idle) /\ UNCHANGED <<last, row, file>>
  BY TaskIs DEF PurgeRefused, BaseInv
<1>1. task[w].b \in Backups
  BY <1>0 DEF InHand, Holding
<1>2. /\ remote' \in [Backups -> Copy] /\ newer' \subseteq newer /\ gone' \subseteq Backups
      /\ \A c \in Backups : Present(c) => Present(c)'
  BY <1>0, <1>1, MaybeWithdrawn DEF PurgeRefused
<1> QED BY <1>0, <1>2, IdleHolds, LookStep DEF Sending

LEMMA UnlinkKeeps ==
  ASSUME BaseInv, NEW w \in Workers, Unlink(w)
  PROVE  Kept
<1> DEFINE b == task[w].b
           k == Expiring(task[w])
<1>0. TypeOK /\ task[w] \in Task /\ InHand(task[w]) /\ task[w].at = "unlink"
  BY TaskIs DEF Unlink, BaseInv
<1>1. b \in Backups
  BY <1>0 DEF InHand, Holding
<1>2. k \in Task /\ InHand(k) /\ Onward(task[w], k)
  BY <1>0, ExpiringIs DEF Onward
<1>3. Go(w, k) /\ file' = [file EXCEPT ![b] = "none"] /\ UNCHANGED <<last, row, remote, newer, gone>>
  BY DEF Unlink
<1> HIDE DEF b, k
<1>4. file' \in [Backups -> Copy] /\ \A c \in Backups : file'[c] \in {file[c], "none"}
  BY <1>0, <1>1, <1>3 DEF TypeOK, Copy
<1>5. \A c \in Backups : (Present(c) => Present(c)') /\ row'[c] = row[c]
  BY <1>3 DEF Present
<1>6. row' \in [Backups -> Row] /\ remote' \in [Backups -> Copy] /\ newer' \subseteq newer
      /\ gone' \subseteq Backups
  BY <1>0, <1>3 DEF TypeOK
<1>7. k.at \notin Jobs /\ k.at \notin Sending /\ k.at \notin {"reclaim", "reclaimed"}
  BY <1>2, OnwardAt
<1> QED BY <1>0, <1>2, <1>3, <1>4, <1>5, <1>6, <1>7, OnwardHolds, DropStep DEF Sending

LEMMA SweepKeeps ==
  ASSUME BaseInv, Sweep
  PROVE  Kept
<1>0. TypeOK /\ "sweep" \in Workers /\ task["sweep"].at = "idle"
  BY Nulls DEF Sweep, BaseInv, Workers
<1> DEFINE e == [Idle EXCEPT !.op = "expire", !.at = "expire"]
<1>1. PICK k : k = IF AutoUpload THEN Reconciling ELSE e
  OBVIOUS
<1>2. Go("sweep", k) /\ UNCHANGED <<last, row, file, remote, newer, gone>>
  BY <1>1 DEF Sweep
<1>3. /\ e \in Task /\ e.at = "expire" /\ e.op = "expire"
      /\ Reconciling \in Task /\ Reconciling.at = "scan"
  BY DEF Reconciling, Idle, Task, Steps, Copy
<1> HIDE DEF e
<1>4. k \in Task /\ k.at \in {"scan", "expire"} /\ (ManualInv => k.at = "expire" /\ k.op # "upload")
  BY <1>1, <1>3 DEF ManualInv
<1>5. InHand(k)
  BY <1>4 DEF InHand, Holding
<1>6. \A c \in Backups : Present(c) => Present(c)'
  BY <1>2 DEF Present
<1> QED BY <1>0, <1>2, <1>4, <1>5, <1>6, LookStep DEF Jobs, Sending, DeletingSteps, TypeOK

-----------------------------------------------------------------------------
(***************************************************************************)
(* The jobs                                                                *)
(***************************************************************************)

\* The job goes on while nothing is sent: what is new of a row or of an
\* archive does not say more than it should.
LEMMA JobGoesOn ==
  ASSUME BaseInv, task["job"].at \notin Sending, NEW k \in Task, Go("job", k), InHand(k),
         k.at \notin Sending, k.at \notin {"reclaim", "reclaimed"},
         last' \in 0 .. MaxBackups, row' \in [Backups -> Row], file' \in [Backups -> Copy],
         UNCHANGED <<remote, newer, gone>>,
         \A b \in Backups : row'[b].in => b <= last',
         k.at \in Jobs => k.b <= last',
         k.at \in {"fetch", "accept"} => ~(row'[k.b].in /\ row'[k.b].here),
         \A b \in Backups :
           row'[b].in /\ row'[b].here /\ row'[b].ver = "verified" => file'[b] # "bad",
         \A b \in Backups :
           row'[b].in /\ row'[b].up = "uploading" => row[b].in /\ row[b].up = "uploading",
         ManualInv => /\ OwnUpload(k)
                      /\ k.at = "accept" /\ file'[k.b] = "good" => Present(k.b)
                      /\ \A b \in Backups : row'[b].in /\ row'[b].up = "uploaded" =>
                           Present(b) \/ (row[b].in /\ row[b].up = "uploaded")
  PROVE  Kept
<1>0. TypeOK /\ "job" \in Workers
  BY DEF BaseInv, Workers
<1>1. task' \in [Workers -> Task] /\ task'["job"] = k
      /\ \A v \in Workers \ {"job"} : task'[v] = task[v]
  BY <1>0, TaskPut
<1>2. BaseInv'
  <2>1. TypeOK'
    BY <1>0, <1>1 DEF TypeOK
  <2>2. \A v \in Workers : InHand(task'[v])
    BY <1>1 DEF BaseInv
  <2>3. Numbered'
    BY <1>1 DEF Numbered, Jobs
  <2>4. ImportApart'
    BY <1>1 DEF ImportApart
  <2>5. VerifiedArchiveIsGood'
    BY DEF VerifiedArchiveIsGood, Rows
  <2> QED BY <2>1, <2>2, <2>3, <2>4, <2>5 DEF BaseInv, InHand
<1>3. ASSUME UploadingHasUploader PROVE UploadingHasUploader'
  BY <1>0, <1>3, AttendedStep
<1>4. ASSUME ManualInv PROVE ManualInv'
  <2>1. \A b : Present(b)' <=> Present(b)
    BY DEF Present
  <2>2. OwnUpload(k)'
    BY <1>4 DEF OwnUpload
  <2>3. \A b \in Backups : row'[b].in /\ row'[b].up = "uploaded" =>
          \/ Present(b)'
          \/ row[b].in /\ row[b].up = "uploaded" /\ (Present(b) => Present(b)')
    BY <1>4, <2>1
  <2>4. k.at # "mark" /\ (k.at = "accept" /\ file'[k.b] = "good" => Present(k.b)')
    BY <1>4, <2>1 DEF Sending
  <2> QED BY <1>4, <2>2, <2>3, <2>4, JobStep
<1> QED BY <1>2, <1>3, <1>4 DEF Kept

\* What the invariant says of the rows, backup by backup
LEMMA RowsSay ==
  ASSUME BaseInv, NEW b \in Backups
  PROVE  /\ row[b] \in Row /\ (row[b].in => b <= last)
         /\ row[b].in /\ row[b].here /\ row[b].ver = "verified" => file[b] # "bad"
BY DEF BaseInv, TypeOK, Numbered, VerifiedArchiveIsGood, Rows

LEMMA ArchiveKeeps ==
  ASSUME BaseInv, Archive
  PROVE  Kept
<1>0. TypeOK /\ task["job"].at = "idle"
  BY Nulls DEF Archive, BaseInv
<1>1. /\ last \in Nat /\ last + 1 \in Backups /\ last' = last + 1 /\ last' \in 0 .. MaxBackups
      /\ ~(last + 1 <= last)
  BY <1>0, BoundAssumption DEF Archive, TypeOK, Backups
<1> DEFINE k == [Idle EXCEPT !.op = "create", !.at = "insert", !.b = last + 1]
<1>2. k \in Task /\ k.at = "insert" /\ k.b = last + 1 /\ k.op = "create"
  BY <1>1 DEF Idle, Task, Steps, Copy
<1>3. Go("job", k) /\ UNCHANGED <<row, remote, newer, gone>>
  BY DEF Archive
<1> HIDE DEF k
<1>4. file' \in [Backups -> Copy] /\ \A b \in Backups \ {last + 1} : file'[b] = file[b]
  BY <1>0, <1>1 DEF Archive, TypeOK, Copy
<1>5. InHand(k) /\ OwnUpload(k)
  BY <1>1, <1>2 DEF InHand, OwnUpload
<1>6. k.b <= last'
  BY <1>1, <1>2
<1>7. \A b \in Backups : row'[b].in => b <= last'
  <2> SUFFICES ASSUME NEW b \in Backups, row'[b].in PROVE b <= last'
    OBVIOUS
  <2>1. b <= last /\ b \in Int
    BY <1>3, RowsSay DEF Backups
  <2> QED BY <1>1, <2>1
<1>8. \A b \in Backups :
        row'[b].in /\ row'[b].here /\ row'[b].ver = "verified" => file'[b] # "bad"
  <2> SUFFICES ASSUME NEW b \in Backups, row[b].in, row[b].here, row[b].ver = "verified"
               PROVE  file'[b] # "bad"
    BY <1>3
  <2>1. b # last + 1
    BY <1>1, RowsSay
  <2> QED BY <1>4, <2>1, RowsSay
<1> QED BY <1>0, <1>1, <1>2, <1>3, <1>4, <1>5, <1>6, <1>7, <1>8, JobGoesOn DEF Sending, TypeOK

\* The job's backup
LEMMA JobHolding ==
  ASSUME BaseInv, task["job"].at \in Jobs
  PROVE  /\ TypeOK /\ task["job"] \in Task /\ task["job"].b \in Backups
         /\ task["job"].b <= last /\ task["job"].at \notin Sending /\ last \in 0 .. MaxBackups
         /\ row[task["job"].b] \in Row
<1>1. "job" \in Workers
  BY DEF Workers
<1>2. TypeOK /\ task["job"] \in Task /\ InHand(task["job"]) /\ task["job"].b <= last
  BY <1>1, TaskIs DEF BaseInv, Numbered, Jobs
<1> QED BY <1>2 DEF InHand, Holding, Jobs, Sending, TypeOK

LEMMA InsertKeeps ==
  ASSUME BaseInv, Insert
  PROVE  Kept
<1> DEFINE b == task["job"].b
           k == [task["job"] EXCEPT !.at = "verify"]
<1>0. TypeOK /\ task["job"] \in Task /\ task["job"].at = "insert" /\ b \in Backups /\ b <= last
      /\ last \in 0 .. MaxBackups /\ task["job"].at \notin Sending
  BY JobHolding DEF Insert, Jobs
<1>1. k \in Task /\ k.at = "verify" /\ k.b = b /\ k.op = task["job"].op
  <2>1. "verify" \in Steps
    BY DEF Steps
  <2> QED BY <1>0, <2>1, AtIs
<1>2. Go("job", k) /\ row' = [row EXCEPT ![b] = Inserted] /\ UNCHANGED <<last, file, remote, newer, gone>>
  BY DEF Insert, At
<1> HIDE DEF b, k
<1>3. row' \in [Backups -> Row] /\ row'[b] = Inserted /\ \A c \in Backups \ {b} : row'[c] = row[c]
  BY <1>0, <1>2, Nulls DEF TypeOK
<1>4. InHand(k) /\ OwnUpload(k)
  BY <1>0, <1>1 DEF InHand, OwnUpload, Sending
<1>5. \A c \in Backups :
        /\ row'[c].in => c <= last'
        /\ row'[c].in /\ row'[c].here /\ row'[c].ver = "verified" => file'[c] # "bad"
        /\ row'[c].in /\ row'[c].up \in {"uploading", "uploaded"} => row'[c] = row[c]
  BY <1>0, <1>2, <1>3, RowsSay, Nulls
<1>6. k.b <= last'
  BY <1>0, <1>1, <1>2
<1>7. file' \in [Backups -> Copy]
  BY <1>0, <1>2 DEF TypeOK
<1> QED BY <1>0, <1>1, <1>2, <1>3, <1>4, <1>5, <1>6, <1>7, JobGoesOn DEF Sending

\* What verification writes, of the upload nothing changes.
LEMMA VerifiedRow ==
  ASSUME BaseInv, NEW b \in Backups, Update(b, [row[b] EXCEPT !.ver = Verified(b)]),
         UNCHANGED <<last, file>>
  PROVE  /\ row' \in [Backups -> Row]
         /\ \A c \in Backups :
              /\ row'[c].in => c <= last'
              /\ row'[c].in /\ row'[c].here /\ row'[c].ver = "verified" => file'[c] # "bad"
              /\ row'[c].in => row[c].in /\ row'[c].up = row[c].up
<1> DEFINE r == [row[b] EXCEPT !.ver = Verified(b)]
<1>0. TypeOK /\ row[b] \in Row
  BY DEF BaseInv, TypeOK
<1>1. r \in Row /\ r.up = row[b].up /\ r.in = row[b].in /\ (r.ver = "verified" => file[b] = "good")
  BY <1>0 DEF Row, Verified
<1>2. Update(b, r)
  OBVIOUS
<1> HIDE DEF r
<1>3. /\ row' \in [Backups -> Row] /\ (row[b].in => row'[b] = r)
      /\ (~row[b].in => row'[b] = row[b])
      /\ \A c \in Backups \ {b} : row'[c] = row[c]
  BY <1>0, <1>1, <1>2, RowPut
<1> QED BY <1>1, <1>3, RowsSay

LEMMA UploadOfIs ==
  ASSUME NEW b \in Backups
  PROVE  LET k == UploadOf(b)
         IN  k \in Task /\ k.at = "pick" /\ InHand(k) /\ OwnUpload(k)
<1> DEFINE k == UploadOf(b)
<1>1. k \in Task /\ k.at = "pick" /\ k.own = b /\ k.todo = {b}
  BY DEF UploadOf, Idle, Task, Steps, Copy
<1> HIDE DEF k
<1>2. InHand(k) /\ OwnUpload(k)
  BY <1>1 DEF InHand, Holding, OwnUpload, Sending
<1> QED BY <1>1, <1>2 DEF k

LEMMA CreateVerifiedKeeps ==
  ASSUME BaseInv, CreateVerified
  PROVE  Kept
<1> DEFINE b == task["job"].b
<1>0. TypeOK /\ b \in Backups /\ last \in 0 .. MaxBackups /\ task["job"].at \notin Sending
  BY JobHolding DEF CreateVerified, Jobs
<1>1. PICK k : k = IF row[b].in /\ Verified(b) = "verified" /\ AutoUpload THEN UploadOf(b) ELSE Idle
  OBVIOUS
<1>2. Go("job", k) /\ UNCHANGED <<last, file, remote, newer, gone>>
      /\ Update(b, [row[b] EXCEPT !.ver = Verified(b)])
  BY <1>1 DEF CreateVerified
<1> HIDE DEF b
<1>3. k \in Task /\ InHand(k) /\ OwnUpload(k) /\ k.at \in {"idle", "pick"}
  BY <1>0, <1>1, UploadOfIs, IdleHolds
<1>4. /\ row' \in [Backups -> Row]
      /\ \A c \in Backups :
           /\ row'[c].in => c <= last'
           /\ row'[c].in /\ row'[c].here /\ row'[c].ver = "verified" => file'[c] # "bad"
           /\ row'[c].in => row[c].in /\ row'[c].up = row[c].up
  BY <1>0, <1>2, VerifiedRow
<1>5. file' \in [Backups -> Copy] /\ last' \in 0 .. MaxBackups
  BY <1>0, <1>2 DEF TypeOK
<1> QED BY <1>0, <1>2, <1>3, <1>4, <1>5, JobGoesOn DEF Sending, Jobs

LEMMA VerifyKeeps ==
  ASSUME BaseInv, NEW b \in Backups, Verify(b)
  PROVE  Kept
<1>0. TypeOK /\ task["job"] = Idle /\ UNCHANGED <<last, file, remote, newer, gone>>
      /\ Update(b, [row[b] EXCEPT !.ver = Verified(b)]) /\ task' = task
  BY DEF Verify, BaseInv
<1>1. Go("job", Idle)
  BY <1>0 DEF Go, TypeOK
<1>2. /\ row' \in [Backups -> Row]
      /\ \A c \in Backups :
           /\ row'[c].in => c <= last'
           /\ row'[c].in /\ row'[c].here /\ row'[c].ver = "verified" => file'[c] # "bad"
           /\ row'[c].in => row[c].in /\ row'[c].up = row[c].up
  BY <1>0, VerifiedRow
<1>3. file' \in [Backups -> Copy] /\ last' \in 0 .. MaxBackups
  BY <1>0 DEF TypeOK
<1> QED BY <1>0, <1>1, <1>2, <1>3, IdleHolds, JobGoesOn DEF Sending, Jobs

\* A job begins: nothing but the worker changes.
LEMMA BeginKeeps ==
  ASSUME BaseInv, task["job"] = Idle, NEW k \in Task, Go("job", k), InHand(k), OwnUpload(k),
         UNCHANGED <<last, row, file, remote, newer, gone>>,
         k.at \in {"pick", "scan", "fetch"},
         k.at = "fetch" => k.b <= last /\ ~(row[k.b].in /\ row[k.b].here)
  PROVE  Kept
<1>0. last' \in 0 .. MaxBackups /\ row' \in [Backups -> Row] /\ file' \in [Backups -> Copy]
  BY DEF BaseInv, TypeOK
<1>1. \A b \in Backups :
        /\ row'[b].in => b <= last'
        /\ row'[b].in /\ row'[b].here /\ row'[b].ver = "verified" => file'[b] # "bad"
        /\ row'[b] = row[b]
  BY RowsSay
<1> QED BY <1>0, <1>1, IdleHolds, JobGoesOn DEF Sending, Jobs

LEMMA JobsBegin ==
  ASSUME BaseInv, NEW b \in Backups, UploadJob(b) \/ ImportJob(b)
  PROVE  Kept
<1>1. CASE UploadJob(b)
  BY <1>1, UploadOfIs, BeginKeeps DEF UploadJob
<1>2. CASE ImportJob(b)
  <2> DEFINE S == {c \in Rows : c = b}
             k == [Idle EXCEPT !.op = "import", !.at = "fetch", !.b = b, !.todo = S]
  <2>1. S \subseteq Backups
    BY DEF Rows
  <2>2. /\ Go("job", k) /\ UNCHANGED <<last, row, file, remote, newer, gone>> /\ task["job"] = Idle
        /\ b <= last /\ ~(row[b].in /\ row[b].here)
    BY <1>2 DEF ImportJob
  <2> HIDE DEF S
  <2>3. k \in Task /\ k.at = "fetch" /\ k.op = "import" /\ k.b = b
    BY <2>1 DEF Idle, Task, Steps, Copy
  <2> HIDE DEF k
  <2>4. InHand(k) /\ OwnUpload(k)
    BY <2>3 DEF InHand, Holding, OwnUpload
  <2> QED BY <2>2, <2>3, <2>4, BeginKeeps
<1> QED BY <1>1, <1>2

LEMMA ReconcileJobKeeps ==
  ASSUME BaseInv, ReconcileJob
  PROVE  Kept
<1> DEFINE k == Reconciling
<1>1. k \in Task /\ k.at = "scan" /\ k.op = "reconcile"
  BY DEF Reconciling, Idle, Task, Steps, Copy
<1>2. Go("job", k) /\ UNCHANGED <<last, row, file, remote, newer, gone>> /\ task["job"] = Idle
  BY DEF ReconcileJob
<1> HIDE DEF k
<1>3. InHand(k) /\ OwnUpload(k)
  BY <1>1 DEF InHand, Holding, OwnUpload
<1> QED BY <1>1, <1>2, <1>3, BeginKeeps

\* The archive being imported changes; no row does.
LEMMA FileChanges ==
  ASSUME BaseInv, task["job"].at \in {"fetch", "accept"},
         file' \in [Backups -> Copy], \A c \in Backups \ {task["job"].b} : file'[c] = file[c],
         UNCHANGED <<last, row>>
  PROVE  \A c \in Backups :
           /\ row'[c].in => c <= last'
           /\ row'[c].in /\ row'[c].here /\ row'[c].ver = "verified" => file'[c] # "bad"
           /\ row'[c] = row[c]
<1>1. ~(row[task["job"].b].in /\ row[task["job"].b].here)
  BY DEF BaseInv, ImportApart
<1> QED BY <1>1, RowsSay

LEMMA FetchKeeps ==
  ASSUME BaseInv, Fetch
  PROVE  Kept
<1> DEFINE b == task["job"].b
           k == [task["job"] EXCEPT !.at = "accept"]
<1>0. TypeOK /\ task["job"] \in Task /\ task["job"].at = "fetch" /\ b \in Backups /\ b <= last
      /\ last \in 0 .. MaxBackups /\ task["job"].at \notin Sending
      /\ ~(row[b].in /\ row[b].here)
  BY JobHolding DEF Fetch, Jobs, BaseInv, ImportApart
<1>1. k \in Task /\ k.at = "accept" /\ k.b = b /\ k.op = task["job"].op
  <2>1. "accept" \in Steps
    BY DEF Steps
  <2> QED BY <1>0, <2>1, AtIs
<1>2. Go("job", k) /\ file' = [file EXCEPT ![b] = remote[b]] /\ UNCHANGED <<last, row, remote, newer, gone>>
  BY DEF Fetch, At
<1>3. file' \in [Backups -> Copy] /\ file'[b] = remote[b] /\ \A c \in Backups \ {b} : file'[c] = file[c]
  BY <1>0, <1>2 DEF TypeOK
<1>4. \A c \in Backups :
        /\ row'[c].in => c <= last'
        /\ row'[c].in /\ row'[c].here /\ row'[c].ver = "verified" => file'[c] # "bad"
        /\ row'[c] = row[c]
  BY <1>0, <1>2, <1>3, FileChanges
<1> HIDE DEF b, k
<1>5. InHand(k) /\ OwnUpload(k)
  BY <1>0, <1>1 DEF InHand, OwnUpload, Sending
<1>6. k.at = "accept" /\ file'[k.b] = "good" => Present(k.b)
  BY <1>1, <1>3 DEF Present
<1>7. k.b <= last' /\ last' \in 0 .. MaxBackups /\ row' \in [Backups -> Row]
      /\ ~(row'[k.b].in /\ row'[k.b].here)
  BY <1>0, <1>1, <1>2 DEF TypeOK
<1> QED BY <1>0, <1>1, <1>2, <1>3, <1>4, <1>5, <1>6, <1>7, JobGoesOn DEF Sending

\* An import that ends without a row: the download failed or was refused.
LEMMA ImportEndsKeeps ==
  ASSUME BaseInv, FetchFails \/ AcceptRefused
  PROVE  Kept
<1> DEFINE b == task["job"].b
<1>0. TypeOK /\ task["job"] \in Task /\ task["job"].at \in {"fetch", "accept"} /\ b \in Backups
      /\ last \in 0 .. MaxBackups /\ task["job"].at \notin Sending
  BY JobHolding DEF FetchFails, AcceptRefused, Jobs
<1>1. Go("job", Idle) /\ UNCHANGED <<last, row, remote, newer, gone>>
  BY DEF FetchFails, AcceptRefused
<1>2. file' \in [Backups -> Copy] /\ \A c \in Backups \ {b} : file'[c] = file[c]
  BY <1>0 DEF FetchFails, AcceptRefused, TypeOK, Copy
<1>3. \A c \in Backups :
        /\ row'[c].in => c <= last'
        /\ row'[c].in /\ row'[c].here /\ row'[c].ver = "verified" => file'[c] # "bad"
        /\ row'[c] = row[c]
  BY <1>0, <1>1, <1>2, FileChanges
<1>4. last' \in 0 .. MaxBackups /\ row' \in [Backups -> Row]
  BY <1>0, <1>1 DEF TypeOK
<1> QED BY <1>0, <1>1, <1>2, <1>3, <1>4, IdleHolds, JobGoesOn DEF Sending, Jobs

LEMMA AcceptKeeps ==
  ASSUME BaseInv, Accept
  PROVE  Kept
<1> DEFINE b == task["job"].b
           r == IF task["job"].todo # {} THEN [row[b] EXCEPT !.here = TRUE]
                ELSE [Inserted EXCEPT !.up = "uploaded", !.key = TRUE]
<1>0. TypeOK /\ task["job"] \in Task /\ task["job"].at = "accept" /\ b \in Backups /\ b <= last
      /\ last \in 0 .. MaxBackups /\ task["job"].at \notin Sending /\ row[b] \in Row
      /\ file[b] = "good"
  BY JobHolding DEF Accept, Jobs, Acceptable
<1>1. ManualInv => Present(b)
  BY <1>0 DEF ManualInv, AboutToRecord
<1>2. Go("job", Idle) /\ UNCHANGED <<last, file, remote, newer, gone>>
  BY DEF Accept
<1>3. r \in Row /\ (r.up = "uploaded" \/ (r.up = row[b].up /\ r.in = row[b].in))
  <2>1. CASE task["job"].todo # {}
    <3> DEFINE q == [row[b] EXCEPT !.here = TRUE]
    <3>1. q \in Row /\ q.up = row[b].up /\ q.in = row[b].in
      BY <1>0 DEF Row
    <3> QED BY <2>1, <3>1
  <2>2. CASE task["job"].todo = {}
    <3> DEFINE q == [Inserted EXCEPT !.up = "uploaded", !.key = TRUE]
    <3>1. q \in Row /\ q.up = "uploaded"
      BY DEF Inserted, NoRow, Row
    <3> QED BY <2>2, <3>1
  <2> QED BY <2>1, <2>2
<1>4. row' \in [Backups -> Row] /\ (row'[b] = r \/ row'[b] = row[b])
      /\ \A c \in Backups \ {b} : row'[c] = row[c]
  BY <1>0, <1>3 DEF Accept, Update, TypeOK
<1> HIDE DEF r, b
<1>5. \A c \in Backups :
        /\ row'[c].in => c <= last'
        /\ row'[c].in /\ row'[c].here /\ row'[c].ver = "verified" => file'[c] # "bad"
        /\ row'[c].in /\ row'[c].up = "uploading" => row[c].in /\ row[c].up = "uploading"
  <2> SUFFICES ASSUME NEW c \in Backups
        PROVE  /\ row'[c].in => c <= last'
               /\ row'[c].in /\ row'[c].here /\ row'[c].ver = "verified" => file'[c] # "bad"
               /\ row'[c].in /\ row'[c].up = "uploading" => row[c].in /\ row[c].up = "uploading"
    OBVIOUS
  <2>1. CASE c = b
    BY <1>0, <1>2, <1>3, <1>4, <2>1
  <2>2. CASE c # b
    BY <1>2, <1>4, <2>2, RowsSay
  <2> QED BY <2>1, <2>2
<1>6. ASSUME ManualInv
      PROVE  \A c \in Backups : row'[c].in /\ row'[c].up = "uploaded" =>
               Present(c) \/ (row[c].in /\ row[c].up = "uploaded")
  BY <1>1, <1>4, <1>6
<1>7. file' \in [Backups -> Copy] /\ last' \in 0 .. MaxBackups
  BY <1>0, <1>2 DEF TypeOK
<1> QED BY <1>0, <1>2, <1>4, <1>5, <1>6, <1>7, IdleHolds, JobGoesOn DEF Sending, Jobs

-----------------------------------------------------------------------------
(***************************************************************************)
(* The process dies                                                        *)
(***************************************************************************)
LEMMA DeathStep ==
  ASSUME BaseInv, task' = [w \in Workers |-> Idle], UNCHANGED <<last, row, file>>,
         remote' \in [Backups -> Copy], newer' \subseteq Backups \X Backups, gone' \subseteq Backups,
         ManualInv => \A b \in Backups :
           row[b].in /\ row[b].up = "uploaded" /\ Present(b) => Present(b)'
  PROVE  BaseInv' /\ (ManualInv => ManualInv')
<1>0. TypeOK /\ "job" \in Workers
  BY DEF BaseInv, Workers
<1>1. task' \in [Workers -> Task] /\ \A w \in Workers : task'[w] = Idle
  BY IdleHolds
<1>2. task'["job"].at = "idle" /\ task'["job"].op # "upload"
  BY <1>0, <1>1, IdleHolds
<1>3. BaseInv'
  <2>1. TypeOK'
    BY <1>0, <1>1 DEF TypeOK
  <2>2. \A w \in Workers : InHand(task'[w])
    BY <1>1, IdleHolds
  <2>3. Numbered' /\ ImportApart'
    BY <1>2 DEF BaseInv, Numbered, ImportApart
  <2>4. VerifiedArchiveIsGood'
    BY DEF BaseInv, VerifiedArchiveIsGood, Rows
  <2> QED BY <2>1, <2>2, <2>3, <2>4 DEF BaseInv, InHand
<1>4. ASSUME ManualInv PROVE ManualInv'
  <2>1. JobUploads'
    BY <1>1, IdleHolds DEF JobUploads
  <2>2. RowSaysSending' /\ AboutToRecord' /\ ToReclaim' /\ OwnUpload(task["job"])'
    BY <1>2 DEF RowSaysSending, AboutToRecord, ToReclaim, OwnUpload, Sending
  <2>3. UploadedMeansRemote'
    BY <1>4 DEF ManualInv, UploadedMeansRemote, Rows, Present
  <2> QED BY <1>4, <2>1, <2>2, <2>3 DEF ManualInv
<1> QED BY <1>3, <1>4

LEMMA CrashKeeps ==
  ASSUME BaseInv, Crash
  PROVE  BaseInv' /\ (ManualInv => ManualInv')
<1>1. remote' \in [Backups -> Copy] /\ newer' \subseteq Backups \X Backups /\ gone' \subseteq Backups
      /\ \A b \in Backups : Present(b) => Present(b)'
  BY DEF Crash, BaseInv, TypeOK, Present
<1> QED BY <1>1, DeathStep DEF Crash

LEMMA CutShortKeeps ==
  ASSUME BaseInv, NEW w \in Workers, CutShort(w)
  PROVE  BaseInv' /\ (ManualInv => ManualInv')
<1>0. TypeOK /\ task[w] \in Task /\ InHand(task[w]) /\ task[w].todo \subseteq Backups
  BY TaskIs DEF BaseInv
<1>1. task' = [v \in Workers |-> Idle] /\ UNCHANGED <<last, row, file>>
  BY DEF CutShort
<1>2. CASE task[w].at = "upload" /\ task[w].read # "none" /\ Put(task[w].b, "bad")
  <2> DEFINE b == task[w].b
  <2>1. b \in Backups
    BY <1>0, <1>2 DEF InHand, Holding
  <2>2. /\ remote' \in [Backups -> Copy] /\ newer' \subseteq Backups \X Backups
        /\ gone' \subseteq Backups /\ gone' = gone \ {b}
        /\ \A c \in Backups \ {b} : remote'[c] = remote[c]
    BY <1>0, <1>2, <2>1, PutIs
  <2>3. ManualInv => ~(row[b].in /\ row[b].up = "uploaded")
    <3>1. ManualInv => w = "job"
      BY <1>2, OneUploader DEF DeletingSteps
    <3> QED BY <1>2, <3>1 DEF ManualInv, RowSaysSending, Sending
  <2>4. ManualInv => \A c \in Backups :
          row[c].in /\ row[c].up = "uploaded" /\ Present(c) => Present(c)'
    BY <2>2, <2>3 DEF Present
  <2> QED BY <1>1, <2>2, <2>4, DeathStep
<1>3. CASE \E b \in Doomed(task[w]) : Withdraw(b)
  <2>1. PICK b \in Doomed(task[w]) : Withdraw(b)
    BY <1>3
  <2>2. b \in Backups
    BY <1>0, <2>1 DEF Doomed, InHand, Holding
  <2>3. /\ remote' \in [Backups -> Copy] /\ newer' \subseteq Backups \X Backups
        /\ gone' \subseteq Backups /\ \A c \in Backups : Present(c) => Present(c)'
    BY <1>0, <2>1, <2>2, WithdrawIs, MaybeWithdrawn
  <2> QED BY <1>1, <2>3, DeathStep
<1> QED BY <1>2, <1>3 DEF CutShort

-----------------------------------------------------------------------------
(***************************************************************************)
(* The theorems                                                            *)
(***************************************************************************)
LEMMA InitHolds ==
  ASSUME Init
  PROVE  BaseInv /\ (~AutoUpload => ManualInv) /\ UploadingHasUploader
<1>0. "job" \in Workers /\ task["job"] = Idle /\ \A w \in Workers : task[w] = Idle
  BY DEF Init, Workers
<1>1. \A b \in Backups : row[b] = NoRow
  BY DEF Init
<1>2. TypeOK
  BY BoundAssumption, Nulls DEF Init, TypeOK, Copy
<1>3. BaseInv
  BY <1>0, <1>1, <1>2, IdleHolds, Nulls
     DEF BaseInv, Numbered, ImportApart, VerifiedArchiveIsGood, Rows
<1>4. ASSUME ~AutoUpload PROVE ManualInv
  BY <1>0, <1>1, <1>4, IdleHolds, Nulls
     DEF ManualInv, JobUploads, DeletingSteps, RowSaysSending, AboutToRecord, ToReclaim,
         UploadedMeansRemote, Rows, Sending
<1>5. UploadingHasUploader
  BY <1>1, Nulls DEF UploadingHasUploader, Rows
<1> QED BY <1>3, <1>4, <1>5

LEMMA SteadyKeeps ==
  ASSUME BaseInv, Steady
  PROVE  Kept
<1>1. CASE Archive
  BY <1>1, ArchiveKeeps
<1>2. CASE Insert
  BY <1>2, InsertKeeps
<1>3. CASE CreateVerified
  BY <1>3, CreateVerifiedKeeps
<1>4. CASE ReconcileJob
  BY <1>4, ReconcileJobKeeps
<1>5. CASE Fetch
  BY <1>5, FetchKeeps
<1>6. CASE FetchFails \/ AcceptRefused
  BY <1>6, ImportEndsKeeps
<1>7. CASE Accept
  BY <1>7, AcceptKeeps
<1>8. CASE Sweep
  BY <1>8, SweepKeeps
<1>9. ASSUME NEW b \in Backups, Verify(b) \/ UploadJob(b) \/ ImportJob(b)
      PROVE  Kept
  BY <1>9, VerifyKeeps, JobsBegin
<1>10. ASSUME NEW w \in Uploaders, Uploading(w)
       PROVE  Kept
  BY <1>10, ScanKeeps, PickKeeps, UploadKeeps, UploadFailsKeeps, CheckKeeps, MarkKeeps, ClearKeeps
     DEF Uploading
<1>11. ASSUME NEW w \in Uploaders, Retaining(w)
       PROVE  Kept
  BY <1>11, ListKeeps, RetentionFailsKeeps, PruneKeeps, PrunedKeeps, ReclaimKeeps, ReclaimedKeeps
     DEF Retaining
<1>12. ASSUME NEW w \in Workers, Deleting(w)
       PROVE  Kept
  BY <1>12, ExpireKeeps, PurgeKeeps, PurgedKeeps, PurgeRefusedKeeps, UnlinkKeeps
     DEF Deleting
<1>13. ASSUME NEW h \in Handlers, NEW b \in Backups, Delete(h, b)
       PROVE  Kept
  BY <1>13, DeleteKeeps
<1> QED BY <1>1, <1>2, <1>3, <1>4, <1>5, <1>6, <1>7, <1>8, <1>9, <1>10, <1>11, <1>12, <1>13
        DEF Steady, Local

LEMMA NextKeeps ==
  ASSUME BaseInv, [Next]_vars
  PROVE  BaseInv' /\ (ManualInv => ManualInv')
<1>1. CASE Steady
  BY <1>1, SteadyKeeps DEF Kept
<1>2. CASE Crash
  BY <1>2, CrashKeeps
<1>3. CASE \E w \in Workers : CutShort(w)
  BY <1>3, CutShortKeeps
<1>4. CASE UNCHANGED vars
  BY <1>4 DEF vars, BaseInv, TypeOK, Numbered, ImportApart, VerifiedArchiveIsGood, Rows, InHand,
     ManualInv, JobUploads, RowSaysSending, AboutToRecord, Present, ToReclaim, UploadedMeansRemote,
     OwnUpload
<1> QED BY <1>1, <1>2, <1>3, <1>4 DEF Next

(***************************************************************************)
(* What holds whatever the settings, and whenever the process dies: types, *)
(* that an import concerns no archive that is registered as present, and   *)
(* that every worker's step has the backup it is about.                    *)
(***************************************************************************)
THEOREM BackupsInvariant == Spec => []BaseInv
<1>1. Init => BaseInv
  BY InitHolds
<1>2. BaseInv /\ [Next]_vars => BaseInv'
  BY NextKeeps
<1> QED BY <1>1, <1>2, PTL DEF Spec

(***************************************************************************)
(* No import, interrupted or not, and no deletion that overlaps it leaves  *)
(* a damaged archive behind a row that says present and verified.          *)
(***************************************************************************)
THEOREM VerifiedArchivesAreGood == Spec => []VerifiedArchiveIsGood
<1>1. BaseInv => VerifiedArchiveIsGood
  BY DEF BaseInv
<1> QED BY <1>1, BackupsInvariant, PTL

(***************************************************************************)
(* While the process lives, a row that says `uploading` has a worker that  *)
(* will record how the upload ended, also with two uploaders at work.      *)
(***************************************************************************)
THEOREM UploadsAreAttended == SteadySpec => []UploadingHasUploader
<1> DEFINE I == BaseInv /\ UploadingHasUploader
<1>1. Init => I
  BY InitHolds
<1>2. I /\ [Steady]_vars => I'
  <2> SUFFICES ASSUME BaseInv, UploadingHasUploader, [Steady]_vars
               PROVE  BaseInv' /\ UploadingHasUploader'
    OBVIOUS
  <2>1. CASE Steady
    BY <2>1, SteadyKeeps DEF Kept
  <2>2. CASE UNCHANGED vars
    <3>1. BaseInv'
      BY <2>2, NextKeeps
    <3>2. UploadingHasUploader'
      BY <2>2 DEF vars, UploadingHasUploader, Rows
    <3> QED BY <3>1, <3>2
  <2> QED BY <2>1, <2>2
<1>3. I => UploadingHasUploader
  OBVIOUS
<1> QED BY <1>1, <1>2, <1>3, PTL DEF SteadySpec

LEMMA ManualAlways == ~AutoUpload /\ Spec => [](BaseInv /\ ManualInv)
<1> DEFINE I == BaseInv /\ ManualInv
<1>1. ~AutoUpload /\ Init => I
  BY InitHolds
<1>2. I /\ [Next]_vars => I'
  BY NextKeeps
<1> QED BY <1>1, <1>2, PTL DEF Spec

(***************************************************************************)
(* With one uploader, a row that says `uploaded` has its verified object   *)
(* on the destination, unless somebody chose to delete it.                 *)
(***************************************************************************)
THEOREM UploadedIsRemote == ~AutoUpload /\ Spec => []UploadedMeansRemote
<1>1. ManualInv => UploadedMeansRemote
  BY DEF ManualInv
<1> QED BY <1>1, ManualAlways, PTL

(***************************************************************************)
(* With one uploader, retention takes nothing that must stay: no archive   *)
(* from the staging area whose object is not there, and never the backup   *)
(* that was just uploaded.                                                 *)
(***************************************************************************)
THEOREM RetentionAlwaysHolds == ~AutoUpload /\ Spec => []RetentionHolds
<1>1. ASSUME BaseInv, ManualInv PROVE RetentionHolds
  <2>1. \A w \in Uploaders : w # "job" => task[w].at \in DeletingSteps /\ task[w].op # "upload"
    BY <1>1 DEF ManualInv, JobUploads, DeletingSteps, Uploaders, Workers
  <2>2. ReclaimKeepsCopy
    BY <1>1, <2>1 DEF ManualInv, ToReclaim, Present, ReclaimKeepsCopy, DeletingSteps
  <2>3. OwnUploadIsKept
    BY <1>1, <2>1 DEF ManualInv, OwnUpload, OwnUploadIsKept
  <2> QED BY <2>2, <2>3 DEF RetentionHolds
<1> QED BY <1>1, ManualAlways, PTL
==============================================================================
