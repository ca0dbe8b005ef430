---------------------------- MODULE Destination ----------------------------
(***************************************************************************)
(* The remote destinations of backups, over the requests they are made of  *)
(* (server/src/modules/backups/destinations/s3-destination.ts and          *)
(* ftp-destination.ts): what Backups.tla takes as one step, an object      *)
(* written or deleted, is here a sequence of requests, each of which may   *)
(* be carried out or not and answered or not, beside those of another      *)
(* task, up to the death of the process.                                   *)
(*                                                                         *)
(* One key.  A file is its units 1..size, an object a sequence of them.    *)
(* The store (external) is a bucket, with versions or without, whose       *)
(* provider lists versions, leaves unversioned objects out of the list, or *)
(* has no such list; or an FTP server.                                     *)
(***************************************************************************)
EXTENDS Integers, Sequences, FiniteSets, FiniteSetsExt

CONSTANTS Tasks,        \* workers of the panel: a job, the sweep, a request
          MaxAttempts,  \* MAX_PART_ATTEMPTS
          MaxSize,      \* bound: units of the file
          MaxIds        \* bound: ids of versions and of multipart uploads

VARIABLES
  conf,     \* the destination, the size of the file, and of a part
  versions, \* S3: versions and delete markers of the key; FTP: the one file
  open,     \* S3: multipart uploads and the parts they have
  ids,      \* S3: ids given out
  task,
  excused   \* history: S3: an abort has failed, or the process died, since the last sweep;
            \* FTP: two have worked on the file at once since it was begun

vars == <<conf, versions, open, ids, task, excused>>

\* A file is empty, one part, or a part and a unit (which is a part, or less
\* than one).
Confs ==
  [kind : {"s3"}, versioned : {TRUE}, list : {"all"}, size : 0 .. MaxSize, part : 1 .. MaxSize - 1]
    \cup [kind : {"s3"}, versioned : {FALSE}, list : {"all", "omits", "none"}, size : 0 .. MaxSize,
          part : 1 .. MaxSize - 1]
    \cup [kind : {"ftp"}, versioned : {FALSE}, list : {"none"}, size : 1 .. MaxSize, part : {MaxSize}]

Null == 0  \* the version id of an unversioned object
Marker == <<0>>
File == [i \in 1 .. conf.size |-> i]

Idle == [op |-> "none", at |-> "none", id |-> 0, part |-> 0, tries |-> 0, mark |-> 0,
         found |-> {}, alone |-> TRUE, misled |-> FALSE]

Init ==
  /\ conf \in {c \in Confs : c.size <= c.part + 1}
  /\ versions = {} /\ open = {} /\ ids = 0
  /\ task = [t \in Tasks |-> Idle] /\ excused = FALSE

store == <<versions, open, ids>>
Set(t, r) == task' = [task EXCEPT ![t] = r]
Go(t, step) == Set(t, [task[t] EXCEPT !.at = step])
At(t, op, step) == task[t].op = op /\ task[t].at = step

\* An operation begins; two at once are not alone.
Begin(t, op, step) ==
  /\ task[t] = Idle
  /\ task' = [u \in Tasks |->
       IF u = t THEN [Idle EXCEPT !.op = op, !.at = step, !.alone = \A v \in Tasks \ {t} : task[v] = Idle]
       ELSE IF task[u] = Idle THEN Idle ELSE [task[u] EXCEPT !.alone = FALSE]]
  /\ excused' = (excused \/ (conf.kind = "ftp" /\ \E u \in Tasks : task[u] # Idle))
  /\ UNCHANGED <<conf, store>>

\* A task is done with what it got.
Rest(t) ==
  /\ task[t].at \in {"ok", "failed"}
  /\ Set(t, Idle) /\ UNCHANGED <<conf, store, excused>>

-----------------------------------------------------------------------------
(***************************************************************************)
(* The bucket (external)                                                   *)
(***************************************************************************)
VersionIds == {v.id : v \in versions}
Newest == CHOOSE v \in versions : \A w \in versions : w.id <= v.id
Present == versions # {} /\ Newest.body # Marker

\* A new object, as a version of its own or in place of the one there is.
Stored(body) ==
  IF conf.versioned
  THEN ids < MaxIds /\ ids' = ids + 1 /\ versions' = versions \cup {[id |-> ids + 1, body |-> body]}
  ELSE versions' = {[id |-> Null, body |-> body]} /\ UNCHANGED ids

\* DELETE without a version id.
PlainDeleted == IF conf.versioned THEN Stored(Marker) ELSE versions' = {} /\ UNCHANGED ids

Listed == IF conf.list = "omits" THEN {} ELSE VersionIds

-----------------------------------------------------------------------------
(***************************************************************************)
(* S3: upload                                                              *)
(***************************************************************************)
\* The loop of multipartUpload: part p is what is left, or a part's size.
Offset(p) == (p - 1) * conf.part
PartOf(p) == SubSeq(File, Offset(p) + 1, Min({Offset(p) + conf.part, conf.size}))
LastPart == CHOOSE p \in 1 .. MaxSize : Offset(p) < conf.size /\ Offset(p + 1) >= conf.size

\* upload: the threshold is the size of a part.
UploadS3(t) ==
  /\ conf.kind = "s3"
  /\ Begin(t, "upload", IF conf.size > conf.part THEN "create" ELSE "put")

\* singlePartUpload
PutObject(t, done, ok) ==
  /\ At(t, "upload", "put") /\ (ok => done)
  /\ IF done THEN Stored(File) ELSE UNCHANGED <<versions, ids>>
  /\ Go(t, IF ok THEN "ok" ELSE "failed")
  /\ UNCHANGED <<conf, open, excused>>

\* createMultipart; an upload whose id did not arrive stays open.
CreateMultipart(t, done, ok) ==
  /\ At(t, "upload", "create") /\ (ok => done)
  /\ IF done THEN /\ ids < MaxIds /\ ids' = ids + 1
                  /\ open' = open \cup {[id |-> ids + 1, got |-> {}]}
             ELSE UNCHANGED <<open, ids>>
  /\ Set(t, [task[t] EXCEPT !.at = IF ok THEN "part" ELSE "failed", !.id = IF ok THEN ids' ELSE 0,
                            !.part = 1])
  /\ excused' = (excused \/ (done /\ ~ok))
  /\ UNCHANGED <<conf, versions>>

\* uploadPartWithRetry: an attempt.
UploadPart(t, done, ok) ==
  /\ At(t, "upload", "part") /\ (ok => done)
  /\ LET up == {u \in open : u.id = task[t].id}
         tries == task[t].tries + 1
     IN /\ done => up # {}
        /\ open' = IF done THEN (open \ up) \cup {[u EXCEPT !.got = @ \cup {task[t].part}] : u \in up}
                   ELSE open
        /\ Set(t, IF ok
                  THEN IF task[t].part = LastPart THEN [task[t] EXCEPT !.at = "complete", !.tries = 0]
                       ELSE [task[t] EXCEPT !.part = @ + 1, !.tries = 0]
                  ELSE IF tries < MaxAttempts THEN [task[t] EXCEPT !.tries = tries]
                       ELSE [task[t] EXCEPT !.at = "abort", !.tries = 0])
  /\ UNCHANGED <<conf, versions, ids, excused>>

\* Slip of Answer: any answer with status 200 is good.
AnswerByStatus(told) == told # "error"

\* What completeMultipart makes of the answer: an <Error> in a body with
\* status 200 is a failure.
Answer(told) == told = "good"

\* completeMultipart.  The parts it names are in the upload, or it is refused
\* (and the refusal may come with status 200).
CompleteMultipart(t, done, told) ==
  /\ At(t, "upload", "complete") /\ (told = "good" => done) /\ (told = "error body" => ~done)
  /\ LET up == {u \in open : u.id = task[t].id /\ 1 .. LastPart \subseteq u.got} IN
       IF done THEN /\ up # {} /\ open' = open \ up
                    /\ Stored([i \in 1 .. conf.size |->
                                 LET p == (i - 1) \div conf.part + 1 IN PartOf(p)[i - Offset(p)]])
       ELSE UNCHANGED store
  /\ Go(t, IF Answer(told) THEN "ok" ELSE "abort")
  /\ UNCHANGED <<conf, excused>>

\* abortMultipart, whose failure is swallowed; the upload may be gone.
Abort(t, done) ==
  /\ At(t, "upload", "abort")
  /\ open' = IF done THEN {u \in open : u.id # task[t].id} ELSE open
  /\ Go(t, "failed")
  /\ excused' = (excused \/ ~done)
  /\ UNCHANGED <<conf, versions, ids>>

-----------------------------------------------------------------------------
(***************************************************************************)
(* S3: delete                                                              *)
(***************************************************************************)
DeleteS3(t) == conf.kind = "s3" /\ Begin(t, "delete", "list")

\* listKeyVersions, a page of one version after the other, newest first.  With
\* no such list there is the plain DELETE.
Unseen(t) == {v \in Listed : task[t].mark = 0 \/ v < task[t].mark}
ListPage(t) ==
  /\ task[t].op = "delete" /\ task[t].at \in {"list", "again"}
  /\ conf.list # "none" /\ Unseen(t) # {}
  /\ LET v == Max(Unseen(t))
         more == [task[t] EXCEPT !.found = @ \cup {v}, !.mark = v] IN
       Set(t, IF v = Min(Unseen(t))
              THEN [more EXCEPT !.at = IF @ = "list" THEN "each" ELSE "failed"]
              ELSE more)
  /\ UNCHANGED <<conf, store, excused>>

\* The list ends, with what the pages before had: versions to delete, or none.
ListEnds(t) ==
  /\ task[t].op = "delete" /\ task[t].at \in {"list", "again"}
  /\ conf.list = "none" \/ Unseen(t) = {}
  /\ Go(t, IF conf.list = "none" THEN (IF task[t].at = "list" THEN "plain" ELSE "ok")
           ELSE IF task[t].at = "list" THEN (IF task[t].found = {} THEN "head" ELSE "each")
           ELSE IF task[t].found = {} THEN "ok" ELSE "failed")
  /\ UNCHANGED <<conf, store, excused>>

\* objectExists: 404 is a no, and any other answer a yes, also one that only
\* tells of an error of the store or of a right that is missing.
ObjectExists(t, error) ==
  /\ At(t, "delete", "head")
  /\ Set(t, [task[t] EXCEPT !.at = IF Present \/ error THEN "plain" ELSE "ok", !.misled = error])
  /\ UNCHANGED <<conf, store, excused>>

\* deleteObject of a version.  A provider that does not know the id `null`
\* gets the plain DELETE for it.  When all are gone the list is read again.
DeleteVersion(t, done, ok, literal) ==
  /\ At(t, "delete", "each") /\ (ok => done)
  /\ LET v == Max(task[t].found)
         left == task[t].found \ {v}
     IN /\ ~literal => v = Null
        /\ IF ~done THEN UNCHANGED <<versions, ids>>
           ELSE IF literal THEN versions' = {w \in versions : w.id # v} /\ UNCHANGED ids
           ELSE PlainDeleted
        /\ Set(t, IF ~ok THEN [task[t] EXCEPT !.at = "failed"]
                  ELSE [task[t] EXCEPT !.found = left, !.mark = 0,
                                       !.at = IF left = {} THEN "again" ELSE "each"])
  /\ UNCHANGED <<conf, open, excused>>

DeletePlain(t, done, ok) ==
  /\ At(t, "delete", "plain") /\ (ok => done)
  /\ IF done THEN PlainDeleted ELSE UNCHANGED <<versions, ids>>
  /\ Go(t, IF ok THEN "ok" ELSE "failed")
  /\ UNCHANGED <<conf, open, excused>>

\* A list is refused or not answered, a HEAD is not answered: the operation
\* fails.
AskFails(t) ==
  /\ task[t].op = "delete" /\ task[t].at \in {"list", "again", "head"}
  /\ Go(t, "failed") /\ UNCHANGED <<conf, store, excused>>

-----------------------------------------------------------------------------
(***************************************************************************)
(* S3: cleanupInterruptedUploads                                           *)
(***************************************************************************)
Cleanup(t) == conf.kind = "s3" /\ Begin(t, "cleanup", "uploads")

ListUploads(t, ok) ==
  /\ At(t, "cleanup", "uploads")
  /\ Set(t, [task[t] EXCEPT !.at = IF ok /\ open # {} THEN "aborts" ELSE IF ok THEN "ok" ELSE "failed",
                            !.found = IF ok THEN {u.id : u \in open} ELSE {}])
  /\ excused' = (excused /\ ~(ok /\ open = {}))
  /\ UNCHANGED <<conf, store>>

\* Every upload that was listed, whoever runs it; failures are swallowed.
AbortListed(t, done) ==
  /\ At(t, "cleanup", "aborts")
  /\ LET u == Max(task[t].found)
         left == task[t].found \ {u}
     IN /\ open' = IF done THEN {w \in open : w.id # u} ELSE open
        /\ Set(t, [task[t] EXCEPT !.found = left, !.at = IF left = {} THEN "ok" ELSE @,
                                  !.tries = IF done THEN @ ELSE 1])
        /\ excused' = (excused /\ (left # {} \/ ~done \/ task[t].tries = 1 \/ ~task[t].alone))
  /\ UNCHANGED <<conf, versions, ids>>

-----------------------------------------------------------------------------
(***************************************************************************)
(* FTP                                                                     *)
(***************************************************************************)
Remote == IF versions = {} THEN <<>> ELSE Newest.body
Put(body) == versions' = {[id |-> Null, body |-> body]}

UploadFtp(t) == conf.kind = "ftp" /\ Begin(t, "upload", "size")

\* upload: resume a strictly smaller file (APPE), or send all of it (STOR,
\* which empties what is there).  A size that cannot be had is 0.
Size(t, known) ==
  /\ At(t, "upload", "size")
  /\ LET there == IF known THEN Len(Remote) ELSE 0
         resume == there > 0 /\ there < conf.size
     IN /\ IF resume THEN UNCHANGED versions ELSE Put(<<>>)
        /\ Set(t, [task[t] EXCEPT !.at = "send", !.part = IF resume THEN there + 1 ELSE 1])
        /\ excused' = (excused /\ (resume \/ ~task[t].alone))
  /\ UNCHANGED <<conf, open, ids>>

Send(t) ==
  /\ At(t, "upload", "send") /\ task[t].part <= conf.size
  /\ Put(Append(Remote, task[t].part))
  /\ Set(t, [task[t] EXCEPT !.part = @ + 1])
  /\ UNCHANGED <<conf, open, ids, excused>>

Sent(t) ==
  /\ At(t, "upload", "send") /\ task[t].part > conf.size
  /\ Go(t, "ok") /\ UNCHANGED <<conf, store, excused>>

\* The connection is not made, or breaks; what has arrived stays.
Broken(t) ==
  /\ conf.kind = "ftp" /\ task[t].at \in {"size", "send", "remove"}
  /\ Go(t, "failed") /\ UNCHANGED <<conf, store, excused>>

\* delete: a file that is not there is deleted.
DeleteFtp(t) == conf.kind = "ftp" /\ Begin(t, "delete", "remove")
Remove(t, ok) ==
  /\ At(t, "delete", "remove")
  /\ versions' = {} /\ Go(t, IF ok THEN "ok" ELSE "failed")
  /\ excused' = (excused /\ ~task[t].alone)
  /\ UNCHANGED <<conf, open, ids>>

-----------------------------------------------------------------------------
\* The process dies; requests that were answered to nobody had their effect.
Die ==
  /\ task' = [t \in Tasks |-> Idle]
  /\ excused' = (excused \/ open # {})
  /\ UNCHANGED <<conf, store>>

Next ==
  \/ Die
  \/ \E t \in Tasks :
       \/ UploadS3(t) \/ DeleteS3(t) \/ Cleanup(t) \/ UploadFtp(t) \/ DeleteFtp(t) \/ Rest(t)
       \/ ListPage(t) \/ ListEnds(t) \/ AskFails(t)
       \/ Send(t) \/ Sent(t) \/ Broken(t)
       \/ \E error \in BOOLEAN : ObjectExists(t, error)
       \/ \E ok \in BOOLEAN : ListUploads(t, ok) \/ Remove(t, ok) \/ Size(t, ok)
       \/ \E done \in BOOLEAN :
            \/ Abort(t, done) \/ AbortListed(t, done)
            \/ \E told \in {"good", "error", "error body"} : CompleteMultipart(t, done, told)
            \/ \E ok \in BOOLEAN :
                 \/ PutObject(t, done, ok) \/ CreateMultipart(t, done, ok) \/ UploadPart(t, done, ok)
                 \/ DeletePlain(t, done, ok)
                 \/ \E literal \in BOOLEAN : DeleteVersion(t, done, ok, literal)

Spec == Init /\ [][Next]_vars

-----------------------------------------------------------------------------
TypeOK ==
  /\ conf \in Confs /\ ids \in 0 .. MaxIds
  /\ \A v \in versions : v.id \in 0 .. MaxIds /\ v.body \in Seq(0 .. MaxSize)
  /\ Cardinality(VersionIds) = Cardinality(versions)

\* An upload that succeeds and is alone with the key leaves the whole file,
\* whatever earlier attempts left behind: lost answers, repeated parts, files
\* cut off ("this class just makes one attempt fully succeed or fully fail",
\* s3-destination.ts; resume in ftp-destination.ts).  A file that two uploads
\* have written to at once by FTP is resumed like any other: it takes the
\* uploader's verification to notice.
UploadIsWhole ==
  \A t \in Tasks :
    At(t, "upload", "ok") /\ task[t].alone /\ (conf.kind = "ftp" => ~excused) =>
      Present /\ Newest.body = File

\* On S3 no part of a file is ever an object, however many upload, abort,
\* sweep and die (multipartUpload, completeMultipart).
NeverShort == conf.kind = "s3" => \A v \in versions : v.body \in {Marker, File}

\* A deletion that succeeds and is alone with the key leaves nothing, no older
\* version and no delete marker ("Deletes `key` permanently", delete); but when
\* the HEAD was answered with an error, the plain DELETE that follows leaves a
\* versioned bucket, where nothing was stored any more, a delete marker.
DeleteIsFinal ==
  \A t \in Tasks : At(t, "delete", "ok") /\ task[t].alone =>
    \/ versions = {}
    \/ task[t].misled /\ conf.versioned /\ \E v \in versions : versions = {v} /\ v.body = Marker

\* A multipart upload is left open by a failed abort, a lost answer or a death
\* only; a sweep that is alone and meets no failure clears them all ("so a
\* half-finished upload never lingers", cleanupInterruptedUploads).
NothingLingers ==
  ~excused => \A u \in open : \E t \in Tasks : task[t].op = "upload" /\ task[t].id = u.id
                                               /\ task[t].at \in {"part", "complete", "abort"}

\* A destination does what Backups.tla takes it to do in one step.
DestinationHolds == TypeOK /\ UploadIsWhole /\ NeverShort /\ DeleteIsFinal /\ NothingLingers
=============================================================================
