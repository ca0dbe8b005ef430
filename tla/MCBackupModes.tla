--------------------------- MODULE MCBackupModes ---------------------------
(***************************************************************************)
(* Backups and Storage for TLC.  A behaviour is one of four, and the       *)
(* others rest: "manual", two backups, uploaded by hand, with the death of *)
(* the process at any step; "auto", one backup that is uploaded when it is *)
(* made and may be deleted at any time; "restore"; and "destination".      *)
(***************************************************************************)
EXTENDS Backups, Storage, TLC

VARIABLES mode, last1, row1, file1, remote1, newer1, gone1, task1

autoVars == <<last1, row1, file1, remote1, newer1, gone1, task1>>
all == <<mode, vars, autoVars, restoreVars, destVars>>

Auto == INSTANCE Backups WITH
          MaxBackups <- 1, Handlers <- {"h1"}, Keep <- 1, AutoUpload <- TRUE,
          last <- last1, row <- row1, file <- file1, remote <- remote1, newer <- newer1,
          gone <- gone1, task <- task1

\* Two volumes of the four: one that is written, and one that is not yet.
MCDisks == <<"mail", "state">>

\* To S3 goes a file of one part, or of a part and a shorter one.
MCFiles == {<<1, 1>>, <<3, 2>>}

\* The container of the other image comes when it is replaced.
MCInit ==
  /\ mode \in {"manual", "auto", "restore", "destination"}
  /\ Init /\ Auto!Init
  /\ R!Init /\ arch[1].img = {box.img} /\ (mode # "restore" => arch[1].bad = {})
  /\ D!Init /\ (mode # "destination" => conf.kind = "ftp" /\ conf.size = 1)
  /\ conf.kind = "s3" => <<conf.size, conf.part>> \in MCFiles

MCNext ==
  /\ UNCHANGED mode
  /\ \/ mode = "manual" /\ Next /\ UNCHANGED <<autoVars, restoreVars, destVars>>
     \/ mode = "auto" /\ Auto!Steady /\ UNCHANGED <<vars, restoreVars, destVars>>
     \/ mode = "restore" /\ R!Next /\ UNCHANGED <<vars, autoVars, destVars>>
     \/ mode = "destination" /\ D!Next /\ UNCHANGED <<vars, autoVars, restoreVars>>

MCSpec == MCInit /\ [][MCNext]_all

\* Only invariants are checked, and the workers at a destination are alike.
Symmetry == Permutations(Callers)

\* What the row says of an upload is so.  While one worker at a time uploads, a
\* row that says `uploaded` has its verified object; and while the process
\* lives, a row says `uploading` only as long as a worker sends that backup and
\* will record how it ended, and an archive listed as verified is intact,
\* although the sweep, a job and deletions change the row in between
\* (Backups.tla; #uploadOne, #verifyAndRecord, performImport, remove).
UploadsHold ==
  /\ mode = "manual" => UploadedMeansRemote /\ TypeOK
  /\ mode = "auto" => Auto!UploadingHasUploader /\ Auto!VerifiedArchiveIsGood /\ Auto!TypeOK
=============================================================================
