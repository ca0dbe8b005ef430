------------------------------ MODULE Storage ------------------------------
(***************************************************************************)
(* Where mail is written by more than one: cold backups and restores       *)
(* against the mail server's container (Restore), and the destinations,    *)
(* request by request (Destination).  The two share no state.              *)
(***************************************************************************)
EXTENDS Integers, Sequences

CONSTANTS Disks, MaxArchives, MaxQueue, MaxMail, MaxSwaps, \* of Restore
          Callers, MaxAttempts, MaxSize, MaxIds            \* of Destination

VARIABLES box, data, arch, ask, queue, cur, mail, swaps, owed,
          conf, versions, open, ids, errand, excused

restoreVars == <<box, data, arch, ask, queue, cur, mail, swaps, owed>>
destVars == <<conf, versions, open, ids, errand, excused>>

R == INSTANCE Restore WITH Volumes <- Disks, MaxBackups <- MaxArchives
D == INSTANCE Destination WITH Tasks <- Callers, task <- errand

\* There is a volume, and the first archive has an id.
ASSUME DiskAssumption ==
  /\ Disks \in Seq({Disks[i] : i \in DOMAIN Disks}) /\ Disks # <<>>
  /\ MaxArchives \in Nat \ {0} /\ {MaxQueue, MaxMail, MaxSwaps} \subseteq Nat

ASSUME BucketAssumption == {MaxAttempts, MaxSize, MaxIds} \subseteq Nat

-----------------------------------------------------------------------------
\* Cold backups and restores keep off each other and off the running mail
\* server, whatever administrators do in between (Restore.tla; performCreate,
\* restore, performRestore).
RestoreHolds == R!RestoreHolds

\* Whatever requests are lost and whenever the panel dies, an upload that
\* succeeds is whole, a deletion that succeeds leaves nothing, and nothing
\* lingers (Destination.tla; multipartUpload, delete, upload).
DestinationHolds == D!DestinationHolds
=============================================================================
