--------------------------- MODULE StorageProofs ---------------------------
(***************************************************************************)
(* Proofs about Restore and Destination, for any volumes, callers and      *)
(* bounds.                                                                 *)
(*                                                                         *)
(* Restore's invariant says what a job may rely on at each of its steps,   *)
(* and follows an image's digest from the request through the queue to the *)
(* volumes' write.  A backup's row does not exist while its job makes it,  *)
(* and exists, or did, when a restore of it is asked for: so no job        *)
(* changes the row another one reads.                                      *)
(*                                                                         *)
(* Destination's invariant (DestInv) says what the store and the uploads   *)
(* left open may hold, and what a task that has had the key to itself has  *)
(* come to: at each step of an upload (Stands), of a deletion (Clears) and *)
(* of its aborts (Aborts); and that whoever may leave an upload open still *)
(* has to abort it, or was excused (Attended).  By FTP, what the store has *)
(* is a part of the file, unless two uploads met (Resumes).                *)
(***************************************************************************)
EXTENDS Storage, FiniteSetTheorems, SequenceTheorems, WellFoundedInduction, TLAPS

-----------------------------------------------------------------------------
(***************************************************************************)
(* Restore                                                                 *)
(***************************************************************************)
LEMMA DiskBounds ==
  /\ Disks \in Seq(R!Vols) /\ Disks # <<>>
  /\ MaxArchives \in Nat \ {0} /\ MaxMail \in Nat /\ MaxSwaps \in Nat
BY DiskAssumption DEF R!Vols

Images == {1, 2}
Content == [R!Vols -> R!Contents]
Kinds == {"cold", "warm", "restore"}

ArchRow ==
  [st : {"none", "row", "deleted"}, vol : Content, img : SUBSET Images, bad : SUBSET R!Vols]

AskRow == [at : {"none", "inspect", "fit"}, b : R!Ids, swaps : Nat]

JobRow ==
  [do : Kinds \cup {"none"},
   at : {"none", "digest", "stop", "read", "start", "check", "extract", "layout", "put"},
   b : R!Ids, todo : Seq(R!Vols), got : Content, img : SUBSET Images, bad : SUBSET R!Vols,
   cut : Content, meddled : BOOLEAN, swaps : Nat]

Types ==
  /\ box \in [run : BOOLEAN, img : Images]
  /\ data \in Content
  /\ arch \in [R!Ids -> ArchRow]
  /\ ask \in AskRow
  /\ queue \in Seq(JobRow)
  /\ cur \in JobRow
  /\ mail \in 0 .. MaxMail /\ swaps \in Nat /\ owed \in BOOLEAN

\* The container has one of the images, or was replaced since the request was checked.
AsChecked(img, since) == since <= swaps /\ (box.img \in img \/ since # swaps)

\* Nothing of a misshapen first archive is in what a backup has, or a volume holds.
Clean(content) == arch[1].bad # {} => \A v \in R!Vols : content[v] # R!First

\* The volumes that are no longer to be read are as they were cut.
ReadSoFar(x) ==
  \A v \in R!Vols : (\A i \in 1 .. Len(x.todo) : x.todo[i] # v) => x.got[v] = x.cut[v]

Making == {"digest", "stop", "read"}
Writing == {"check", "extract", "layout", "put"}

\* What the job may rely on
JobInv(x) ==
  /\ x.at \in Making => x.do \in {"cold", "warm"} /\ arch[x.b].st = "none" /\ Clean(x.got)
  /\ x.at = "stop" => x.do = "cold" /\ x.todo = Disks
  /\ x.at = "start" => x.do = "cold"
  /\ x.at \in Writing => arch[x.b].st # "none"
  /\ x.at \in {"check", "extract"} => AsChecked(arch[x.b].img, x.swaps)
  /\ x.at \in {"layout", "put"} => AsChecked(x.img, x.swaps)
  /\ x.at \in {"extract", "layout", "put"} => (box.run => x.meddled)
  /\ x.at = "layout" /\ x.bad = {} => Clean(x.got)
  /\ x.at = "put" => x.todo # <<>> /\ Clean(x.got)
  /\ x.do = "cold" /\ x.at = "read" /\ ~x.meddled => ~box.run /\ x.cut = data /\ ReadSoFar(x)

\* What is known of a request to restore
AskInv ==
  /\ ask.at # "none" => arch[ask.b].st # "none"
  /\ ask.at = "fit" => AsChecked(arch[ask.b].img, ask.swaps)

\* What is known of a job that waits
WaitInv(x) ==
  /\ x.do \in Kinds /\ x.at = "none" /\ x.got = R!NoContent
  /\ x.do # "restore" => arch[x.b].st = "none" /\ (cur.at \in Making => cur.b # x.b)
  /\ x.do = "restore" => arch[x.b].st # "none" /\ AsChecked(arch[x.b].img, x.swaps)

\* No two jobs make the same backup.
Apart == \A i, j \in DOMAIN queue :
  queue[i].do # "restore" /\ queue[j].do # "restore" /\ queue[i].b = queue[j].b => i = j

QueueInv == Apart /\ \A i \in DOMAIN queue : WaitInv(queue[i])

ArchInv ==
  /\ arch[1].st # "none"
  /\ Clean(data)
  /\ \A b \in R!Ids \ {1} : Clean(arch[b].vol)

RInv == Types /\ JobInv(cur) /\ AskInv /\ QueueInv /\ ArchInv /\ R!ComesBack

-----------------------------------------------------------------------------
(***************************************************************************)
(* Types                                                                   *)
(***************************************************************************)

\* Contents, and the rows that stand for nothing, have their types.
LEMMA NullRows ==
  /\ 0 \in R!Contents /\ R!First \in R!Contents /\ 0 # R!First /\ 1 \in R!Ids
  /\ R!NoContent \in Content /\ R!NoArch \in ArchRow /\ R!NoAsk \in AskRow /\ R!NoJob \in JobRow
<1>1. 0 \in R!Contents /\ R!First \in R!Contents /\ 0 # R!First /\ 1 \in R!Ids
  BY DiskBounds DEF R!Contents, R!First, R!Ids
<1>2. R!NoContent \in Content
  BY <1>1 DEF R!NoContent, Content
<1>3. R!NoArch \in ArchRow
  BY <1>2 DEF R!NoArch, ArchRow
<1>4. R!NoAsk \in AskRow
  BY <1>1 DEF R!NoAsk, AskRow
<1>5. R!NoJob \in JobRow
  BY <1>1, <1>2 DEF R!NoJob, JobRow
<1> QED BY <1>1, <1>2, <1>3, <1>4, <1>5

\* The fields of a job have their types.
LEMMA JobFields ==
  ASSUME NEW x \in JobRow
  PROVE  /\ x.do \in Kinds \cup {"none"} /\ x.b \in R!Ids /\ x.todo \in Seq(R!Vols)
         /\ x.at \in {"none", "digest", "stop", "read", "start", "check", "extract", "layout", "put"}
         /\ x.got \in Content /\ x.img \in SUBSET Images /\ x.bad \in SUBSET R!Vols
         /\ x.cut \in Content /\ x.meddled \in BOOLEAN /\ x.swaps \in Nat
BY DEF JobRow

\* The fields of a backup have their types.
LEMMA ArchFields ==
  ASSUME NEW x \in ArchRow
  PROVE  /\ x.st \in {"none", "row", "deleted"} /\ x.vol \in Content
         /\ x.img \in SUBSET Images /\ x.bad \in SUBSET R!Vols
BY DEF ArchRow

\* A new job
LEMMA NewJob ==
  ASSUME NEW kind \in Kinds, NEW b \in R!Ids
  PROVE  /\ R!Job(kind, b) \in JobRow
         /\ R!Job(kind, b).do = kind /\ R!Job(kind, b).b = b /\ R!Job(kind, b).at = "none"
         /\ R!Job(kind, b).got = R!NoContent /\ R!Job(kind, b).swaps = 0
<1>1. /\ R!NoJob \in JobRow /\ R!NoJob.at = "none" /\ R!NoJob.got = R!NoContent /\ R!NoJob.swaps = 0
  BY NullRows DEF R!NoJob
<1>2. ASSUME NEW x \in JobRow
      PROVE  LET r == [x EXCEPT !.do = kind, !.b = b] IN
             /\ r \in JobRow /\ r.do = kind /\ r.b = b /\ r.at = x.at /\ r.got = x.got
             /\ r.swaps = x.swaps
  BY DEF JobRow
<1> QED BY <1>1, <1>2 DEF R!Job

\* A restore, with what was so when it was asked for
LEMMA NewRestore ==
  ASSUME NEW b \in R!Ids, NEW n \in Nat
  PROVE  LET r == [R!Job("restore", b) EXCEPT !.swaps = n] IN
         /\ r \in JobRow /\ r.do = "restore" /\ r.b = b /\ r.at = "none" /\ r.got = R!NoContent
         /\ r.swaps = n
<1>1. ASSUME NEW x \in JobRow
      PROVE  LET r == [x EXCEPT !.swaps = n] IN
             /\ r \in JobRow /\ r.do = x.do /\ r.b = x.b /\ r.at = x.at /\ r.got = x.got
             /\ r.swaps = n
  BY DEF JobRow
<1> DEFINE x == R!Job("restore", b)
<1>2. x \in JobRow /\ x.do = "restore" /\ x.b = b /\ x.at = "none" /\ x.got = R!NoContent
  BY NewJob DEF Kinds
<1> HIDE DEF x
<1>3. LET r == [x EXCEPT !.swaps = n] IN
      /\ r \in JobRow /\ r.do = "restore" /\ r.b = b /\ r.at = "none" /\ r.got = R!NoContent
      /\ r.swaps = n
  BY <1>1, <1>2
<1> QED BY <1>3 DEF x

\* Where a cold backup goes from its try block
LEMMA NewStart ==
  ASSUME NEW b \in R!Ids
  PROVE  LET r == [R!Job("cold", b) EXCEPT !.at = "start"] IN
         r \in JobRow /\ r.do = "cold" /\ r.b = b /\ r.at = "start"
<1>1. ASSUME NEW x \in JobRow
      PROVE  LET r == [x EXCEPT !.at = "start"] IN
             r \in JobRow /\ r.do = x.do /\ r.b = x.b /\ r.at = "start"
  BY DEF JobRow
<1> DEFINE x == R!Job("cold", b)
<1>2. x \in JobRow /\ x.do = "cold" /\ x.b = b
  BY NewJob DEF Kinds
<1> HIDE DEF x
<1>3. LET r == [x EXCEPT !.at = "start"] IN
      r \in JobRow /\ r.do = "cold" /\ r.b = b /\ r.at = "start"
  BY <1>1, <1>2
<1> QED BY <1>3 DEF x

\* The invariant holds when the panel starts.
LEMMA RestoreInit ==
  ASSUME R!Init
  PROVE  RInv
<1>0. /\ 0 \in R!Contents /\ R!First \in R!Contents /\ 0 # R!First /\ 1 \in R!Ids
      /\ R!NoContent \in Content /\ R!NoArch \in ArchRow /\ R!NoAsk \in AskRow /\ R!NoJob \in JobRow
  BY NullRows
<1>1. PICK m \in Images, B \in SUBSET R!Vols :
        arch = [b \in R!Ids |-> IF b > 1 THEN R!NoArch
                              ELSE [st |-> "row", vol |-> [v \in R!Vols |-> R!First], img |-> {m}, bad |-> B]]
  <2>1. PICK first \in {[img |-> 1, bad |-> {}], [img |-> 2, bad |-> {}],
                        [img |-> 1, bad |-> {Disks[Len(Disks)]}]} :
          arch = [b \in R!Ids |-> IF b > 1 THEN R!NoArch
                                ELSE [st |-> "row", vol |-> [v \in R!Vols |-> R!First],
                                      img |-> {first.img}, bad |-> first.bad]]
    BY DEF R!Init
  <2>2. Len(Disks) \in 1 .. Len(Disks) /\ Disks[Len(Disks)] \in R!Vols
    BY EmptySeq, LenProperties, ElementOfSeq, DiskBounds
  <2>3. first.img \in Images /\ first.bad \in SUBSET R!Vols
    BY <2>2 DEF Images
  <2> QED BY <2>1, <2>3
<1> DEFINE one == [st |-> "row", vol |-> [v \in R!Vols |-> R!First], img |-> {m}, bad |-> B]
<1>2. one \in ArchRow
  BY <1>0 DEF ArchRow, Content
<1>3. arch[1] = one /\ \A b \in R!Ids \ {1} : arch[b] = R!NoArch
  BY <1>0, <1>1 DEF R!Ids
<1>4. arch \in [R!Ids -> ArchRow]
  BY <1>0, <1>1, <1>2
<1>5. Types
  <2>1. box \in [run : BOOLEAN, img : Images]
    BY DEF R!Init, Images
  <2>2. queue \in Seq(JobRow)
    BY EmptySeq DEF R!Init
  <2>3. mail \in 0 .. MaxMail /\ swaps \in Nat
    BY DiskBounds DEF R!Init
  <2>5. owed \in BOOLEAN
    BY DEF R!Init
  <2>4. data \in Content /\ ask \in AskRow /\ cur \in JobRow
    BY <1>0 DEF R!Init
  <2> QED BY <1>4, <2>1, <2>2, <2>3, <2>4, <2>5 DEF Types
<1>6. \A v \in R!Vols : R!NoContent[v] = 0
  BY DEF R!NoContent
<1>7. ArchInv
  <2>1. R!NoArch.vol = R!NoContent
    BY DEF R!NoArch
  <2> QED BY <1>0, <1>3, <1>6, <2>1 DEF ArchInv, Clean, R!Init
<1>8. JobInv(cur) /\ R!ComesBack
  BY DEF R!Init, JobInv, R!ComesBack, R!NoJob, Making, Writing
<1>9. AskInv
  BY DEF R!Init, AskInv, R!NoAsk
<1>10. QueueInv
  BY DEF R!Init, QueueInv, Apart
<1> QED BY <1>5, <1>7, <1>8, <1>9, <1>10 DEF RInv

-----------------------------------------------------------------------------
(***************************************************************************)
(* What a step that leaves a part's variables alone keeps                  *)
(***************************************************************************)

\* The container keeps its image, or is replaced.
Moves == (box'.img = box.img /\ swaps' = swaps) \/ swaps' = swaps + 1

\* What was checked stays so.
LEMMA CheckedKept ==
  ASSUME Types, Moves, NEW img, NEW since \in Nat, AsChecked(img, since)
  PROVE  AsChecked(img, since)'
BY DEF AsChecked, Types, Moves

\* Rows, requests and queue are left alone, and cur goes on with its backup or leaves it.
LEMMA WorldStep ==
  ASSUME RInv, UNCHANGED <<arch, ask, queue>>, Moves,
         box' \in [run : BOOLEAN, img : Images], swaps' \in Nat,
         data' \in Content, Clean(data)', mail' \in 0 .. MaxMail,
         cur' \in JobRow, JobInv(cur)',
         cur'.at \in Making => cur.at \in Making /\ cur'.b = cur.b,
         owed' \in BOOLEAN, R!ComesBack'
  PROVE  RInv'
<1>0. Types
  BY DEF RInv
<1>1. \A img : \A since \in Nat : AsChecked(img, since) => AsChecked(img, since)'
  BY <1>0, CheckedKept
<1>2. QueueInv'
  <2>1. ASSUME NEW i \in DOMAIN queue PROVE WaitInv(queue[i])'
    <3>1. queue[i] \in JobRow
      BY <1>0, ElementOfSeq, LenProperties DEF Types
    <3>2. queue[i].swaps \in Nat
      BY <3>1, JobFields
    <3>3. WaitInv(queue[i])
      BY DEF RInv, QueueInv
    <3>4. AsChecked(arch[queue[i].b].img, queue[i].swaps) =>
            AsChecked(arch[queue[i].b].img, queue[i].swaps)'
      BY <3>2, <1>0 DEF AsChecked, Types, Moves
    <3> QED BY <3>3, <3>4 DEF WaitInv
  <2>2. Apart'
    BY DEF RInv, QueueInv, Apart
  <2> QED BY <2>1, <2>2 DEF QueueInv
<1>3. AskInv'
  <2>1. ask.swaps \in Nat
    BY <1>0 DEF Types, AskRow
  <2> QED BY <2>1, <1>0 DEF RInv, AskInv, AsChecked, Types, Moves
<1>4. ArchInv'
  BY DEF RInv, ArchInv, Clean
<1>5. Types'
  BY <1>0 DEF Types
<1> QED BY <1>2, <1>3, <1>4, <1>5 DEF RInv

\* Only the job changes.
LEMMA CurStep ==
  ASSUME RInv, UNCHANGED <<box, data, arch, ask, queue, mail, swaps, owed>>,
         cur' \in JobRow, JobInv(cur)',
         cur'.at \in Making => cur.at \in Making /\ cur'.b = cur.b,
         owed => cur'.do = "cold" /\ cur'.at \in {"read", "start"}
  PROVE  RInv'
<1>1. /\ box' \in [run : BOOLEAN, img : Images] /\ swaps' \in Nat
      /\ data' \in Content /\ mail' \in 0 .. MaxMail /\ owed' \in BOOLEAN
  BY DEF RInv, Types
<1>2. Moves /\ Clean(data)' /\ R!ComesBack'
  BY DEF RInv, Moves, ArchInv, Clean, R!ComesBack
<1> QED BY <1>1, <1>2, WorldStep

\* What a job relies on that has come to its end
LEMMA AtRest ==
  ASSUME NEW x, x.at = "none"
  PROVE  JobInv(x)
BY DEF JobInv, Making, Writing

-----------------------------------------------------------------------------
(***************************************************************************)
(* Requests                                                                *)
(***************************************************************************)

\* A job that is appended: one that makes a backup nobody makes, or a restore.
LEMMA AppendStep ==
  ASSUME RInv, NEW q \in JobRow, queue' = Append(queue, q), WaitInv(q),
         q.do # "restore" => \A i \in DOMAIN queue : queue[i].do # "restore" => queue[i].b # q.b,
         UNCHANGED <<arch, cur, box, swaps>>
  PROVE  queue' \in Seq(JobRow) /\ QueueInv'
<1>1. queue \in Seq(JobRow)
  BY DEF RInv, Types
<1>2. /\ queue' \in Seq(JobRow) /\ Len(queue') = Len(queue) + 1
      /\ \A i \in 1 .. Len(queue) : queue'[i] = queue[i]
      /\ queue'[Len(queue) + 1] = q
  BY <1>1, AppendProperties
<1>3. /\ Len(queue) \in Nat /\ DOMAIN queue = 1 .. Len(queue)
      /\ DOMAIN queue' = 1 .. Len(queue')
  BY <1>1, <1>2, LenProperties
<1>4. DOMAIN queue' = DOMAIN queue \cup {Len(queue) + 1} /\ Len(queue) + 1 \notin DOMAIN queue
  BY <1>2, <1>3
<1> DEFINE n == Len(queue) + 1
<1> HIDE DEF n
<1>5. /\ DOMAIN queue' = DOMAIN queue \cup {n} /\ n \notin DOMAIN queue /\ queue'[n] = q
      /\ \A i \in DOMAIN queue : queue'[i] = queue[i]
  BY <1>2, <1>3, <1>4 DEF n
<1>6. ASSUME NEW i \in DOMAIN queue' PROVE WaitInv(queue[i])'
  <2>1. WaitInv(queue'[i])
    BY <1>5, <1>6 DEF RInv, QueueInv
  <2> QED BY <2>1 DEF WaitInv, AsChecked
<1>7. (\A i \in DOMAIN queue : WaitInv(queue[i]))'
  BY <1>6
<1>8. Apart'
  BY <1>5 DEF RInv, QueueInv, Apart
<1> QED BY <1>2, <1>7, <1>8 DEF QueueInv

\* POST / : create
LEMMA CreateKeeps ==
  ASSUME RInv, NEW kind \in {"cold", "warm"}, NEW b \in R!Ids, R!Create(kind, b)
  PROVE  RInv'
<1> DEFINE q == R!Job(kind, b)
<1>1. q \in JobRow /\ q.do = kind /\ q.b = b /\ q.at = "none" /\ q.got = R!NoContent
  BY NewJob DEF Kinds
<1>2. queue' = Append(queue, q) /\ UNCHANGED <<box, data, arch, ask, cur, mail, swaps, owed>>
  BY DEF R!Create
<1>3. arch[b].st = "none" /\ cur.b # b
  BY DEF R!Create, R!NoArch
<1>4. \A i \in DOMAIN queue : queue[i].do # "restore" => queue[i].b # b
  BY DEF R!Create, R!Pending
<1> HIDE DEF q
<1>5. WaitInv(q)
  BY <1>1, <1>3 DEF WaitInv, Kinds
<1>6. queue' \in Seq(JobRow) /\ QueueInv'
  BY <1>1, <1>2, <1>4, <1>5, AppendStep
<1>7. Types' /\ JobInv(cur)' /\ AskInv' /\ ArchInv' /\ R!ComesBack'
  BY <1>2, <1>6 DEF RInv, Types, JobInv, AskInv, ArchInv, R!ComesBack, AsChecked, Clean, ReadSoFar
<1> QED BY <1>6, <1>7 DEF RInv

\* Only the request changes.
LEMMA AskStep ==
  ASSUME RInv, UNCHANGED <<box, data, arch, queue, cur, mail, swaps, owed>>, ask' \in AskRow, AskInv'
  PROVE  RInv'
<1>1. QueueInv'
  BY DEF RInv, QueueInv, Apart, WaitInv, AsChecked
<1>2. Types' /\ JobInv(cur)' /\ ArchInv' /\ R!ComesBack'
  BY DEF RInv, Types, JobInv, ArchInv, R!ComesBack, AsChecked, Clean, ReadSoFar
<1> QED BY <1>1, <1>2 DEF RInv

\* preflight, its refusal, and what restore() insists on
LEMMA RequestKeeps ==
  ASSUME RInv, R!Inspected \/ R!Refuse \/ \E b \in R!Ids : R!AskRestore(b)
  PROVE  RInv'
<1>1. R!NoAsk \in AskRow /\ R!NoAsk.at = "none"
  BY NullRows DEF R!NoAsk
<1>2. ask \in AskRow /\ swaps \in Nat
  BY DEF RInv, Types
<1>3. ASSUME NEW b \in R!Ids, R!AskRestore(b) PROVE RInv'
  <2>1. ASSUME NEW x \in AskRow
        PROVE  LET r == [x EXCEPT !.at = "inspect", !.b = b] IN
               r \in AskRow /\ r.at = "inspect" /\ r.b = b
    BY DEF AskRow
  <2> DEFINE r == [R!NoAsk EXCEPT !.at = "inspect", !.b = b]
  <2>2. r \in AskRow /\ r.at = "inspect" /\ r.b = b
    BY <1>1, <2>1
  <2>3. ask' = r /\ arch[b].st = "row" /\ UNCHANGED <<box, data, arch, queue, cur, mail, swaps, owed>>
    BY <1>3 DEF R!AskRestore
  <2> HIDE DEF r
  <2>4. AskInv'
    BY <2>2, <2>3 DEF AskInv
  <2> QED BY <2>2, <2>3, <2>4, AskStep
<1>4. CASE R!Refuse
  <2>1. ask' = R!NoAsk /\ UNCHANGED <<box, data, arch, queue, cur, mail, swaps, owed>>
    BY <1>4 DEF R!Refuse
  <2>2. AskInv'
    BY <1>1, <2>1 DEF AskInv
  <2> QED BY <1>1, <2>1, <2>2, AskStep
<1>5. CASE R!Inspected
  <2> DEFINE x == ask
             r == [x EXCEPT !.at = "fit", !.swaps = swaps]
  <2>1. /\ ask' = r /\ x.at = "inspect" /\ box.img \in arch[x.b].img
        /\ UNCHANGED <<box, data, arch, queue, cur, mail, swaps, owed>>
    BY <1>5 DEF R!Inspected
  <2>2. x \in AskRow /\ arch[x.b].st # "none"
    BY <1>2, <2>1 DEF RInv, AskInv
  <2> HIDE DEF x
  <2>3. r \in AskRow /\ r.at = "fit" /\ r.swaps = swaps /\ r.b = x.b
    BY <1>2, <2>2 DEF AskRow
  <2> HIDE DEF r
  <2>4. AskInv'
    BY <1>2, <2>1, <2>2, <2>3 DEF AskInv, AsChecked
  <2> QED BY <2>1, <2>3, <2>4, AskStep
<1> QED BY <1>3, <1>4, <1>5

\* restore() queues the job.
LEMMA AcceptKeeps ==
  ASSUME RInv, R!Accept
  PROVE  RInv'
<1>1. R!NoAsk \in AskRow /\ R!NoAsk.at = "none"
  BY NullRows DEF R!NoAsk
<1>2. ask.b \in R!Ids /\ ask.swaps \in Nat
  BY DEF RInv, Types, AskRow
<1> DEFINE q == [R!Job("restore", ask.b) EXCEPT !.swaps = ask.swaps]
<1>3. /\ q \in JobRow /\ q.do = "restore" /\ q.b = ask.b /\ q.at = "none" /\ q.got = R!NoContent
      /\ q.swaps = ask.swaps
  BY <1>2, NewRestore
<1>4. /\ queue' = Append(queue, q) /\ ask' = R!NoAsk /\ ask.at = "fit"
      /\ UNCHANGED <<box, data, arch, cur, mail, swaps, owed>>
  BY DEF R!Accept
<1> HIDE DEF q
<1>5. WaitInv(q)
  BY <1>3, <1>4 DEF WaitInv, Kinds, RInv, AskInv
<1>6. queue' \in Seq(JobRow) /\ QueueInv'
  BY <1>3, <1>4, <1>5, AppendStep
<1>7. AskInv'
  BY <1>1, <1>4 DEF AskInv
<1>8. Types' /\ JobInv(cur)' /\ ArchInv' /\ R!ComesBack'
  BY <1>1, <1>4, <1>6 DEF RInv, Types, JobInv, ArchInv, R!ComesBack, AsChecked, Clean, ReadSoFar
<1> QED BY <1>6, <1>7, <1>8 DEF RInv

\* A backup's row that changes leaves what others read of it, or of other rows.
LEMMA ArchStep ==
  ASSUME RInv, NEW b \in R!Ids, NEW r \in ArchRow, arch' = [arch EXCEPT ![b] = r],
         UNCHANGED <<box, data, ask, queue, mail, swaps, owed>>,
         r.st # "none", b # 1 => Clean(r.vol),
         \/ /\ arch[b].st = "none" /\ cur.at = "read" /\ cur.b = b
            /\ cur'.at \notin Making \cup Writing /\ JobInv(cur)'
         \/ arch[b].st # "none" /\ r.img = arch[b].img /\ r.bad = arch[b].bad /\ UNCHANGED cur,
         cur' \in JobRow,
         owed => cur'.do = "cold" /\ cur'.at \in {"read", "start"}
  PROVE  RInv'
<1>1. /\ arch' \in [R!Ids -> ArchRow]
      /\ \A a \in R!Ids : arch'[a] = IF a = b THEN r ELSE arch[a]
  BY DEF RInv, Types
<1>2. 1 \in R!Ids /\ cur \in JobRow /\ cur.b \in R!Ids
  BY NullRows, JobFields DEF RInv, Types
<1>3. arch'[1].bad = arch[1].bad /\ arch'[1].st # "none"
  BY <1>1, <1>2 DEF RInv, ArchInv
<1>4. \A c : Clean(c)' = Clean(c)
  BY <1>3 DEF Clean
<1>5. \A a \in R!Ids : arch[a].st # "none" => arch'[a].st # "none" /\ arch'[a].img = arch[a].img
  BY <1>1
<1>6. \A a \in R!Ids : arch[a].st = "none" /\ a # b => arch'[a].st = "none"
  BY <1>1
<1>7. Types'
  BY <1>1 DEF RInv, Types
<1>8. ArchInv'
  <2>1. Clean(data)'
    BY <1>3 DEF RInv, ArchInv, Clean
  <2>2. ASSUME NEW a \in R!Ids \ {1} PROVE Clean(arch[a].vol)'
    <3>1. Clean(arch'[a].vol)
      BY <1>1 DEF RInv, ArchInv
    <3> QED BY <3>1, <1>3 DEF Clean
  <2> QED BY <1>3, <2>1, <2>2 DEF ArchInv
<1>9. AskInv'
  <2>1. ask.b \in R!Ids
    BY DEF RInv, Types, AskRow
  <2> QED BY <2>1, <1>5 DEF RInv, AskInv, AsChecked
<1>10. JobInv(cur)'
  <2>1. CASE cur' = cur /\ arch[b].st # "none"
    <3>1. \A a \in R!Ids : arch[a].st = "none" => arch'[a].st = "none"
      BY <1>6, <2>1
    <3>2. arch[cur.b].st = "none" => arch'[cur.b].st = "none"
      BY <1>2, <3>1
    <3>3. arch[cur.b].st # "none" => arch'[cur.b].st # "none" /\ arch'[cur.b].img = arch[cur.b].img
      BY <1>2, <1>5
    <3> QED BY <2>1, <3>2, <3>3, <1>3 DEF RInv, JobInv, AsChecked, Clean, ReadSoFar
  <2>2. CASE cur'.at \notin Making \cup Writing /\ JobInv(cur)'
    BY <2>2
  <2> QED BY <2>1, <2>2
<1>11. QueueInv'
  <2>1. Apart'
    BY DEF RInv, QueueInv, Apart
  <2>2. ASSUME NEW i \in DOMAIN queue PROVE WaitInv(queue[i])'
    <3>1. WaitInv(queue[i])
      BY DEF RInv, QueueInv
    <3>2. queue[i].b \in R!Ids
      <4>1. queue[i] \in JobRow
        BY ElementOfSeq, LenProperties DEF RInv, Types
      <4> QED BY <4>1, JobFields
    <3>3. cur'.at \in Making => cur' = cur
      OBVIOUS
    <3>4. CASE queue[i].do # "restore"
      <4>1. queue[i].b # b
        BY <3>1, <3>4 DEF WaitInv, Making
      <4> QED BY <3>1, <3>2, <3>3, <3>4, <4>1, <1>6 DEF WaitInv
    <3>5. CASE queue[i].do = "restore"
      BY <3>1, <3>2, <3>5, <1>5 DEF WaitInv, AsChecked
    <3> QED BY <3>4, <3>5
  <2> QED BY <2>1, <2>2 DEF QueueInv
<1>12. R!ComesBack'
  BY DEF R!ComesBack
<1> QED BY <1>7, <1>8, <1>9, <1>10, <1>11, <1>12 DEF RInv

\* delete
LEMMA DeleteKeeps ==
  ASSUME RInv, NEW b \in R!Ids, R!Delete(b)
  PROVE  RInv'
<1> DEFINE x == arch[b]
           r == [R!NoArch EXCEPT !.st = "deleted", !.img = x.img, !.bad = x.bad]
<1>1. x \in ArchRow /\ x.st = "row" /\ arch' = [arch EXCEPT ![b] = r]
  BY DEF RInv, Types, R!Delete
<1>2. R!NoArch \in ArchRow /\ R!NoArch.vol = R!NoContent
  BY NullRows DEF R!NoArch
<1>3. r \in ArchRow /\ r.st = "deleted" /\ r.vol = R!NoContent /\ r.img = x.img /\ r.bad = x.bad
  <2> HIDE DEF x
  <2>1. x.img \in SUBSET Images /\ x.bad \in SUBSET R!Vols
    BY <1>1, ArchFields
  <2>2. r.st = "deleted" /\ r.vol = R!NoContent /\ r.img = x.img /\ r.bad = x.bad
    BY DEF R!NoArch
  <2>3. r \in ArchRow
    BY <1>2, <2>1 DEF ArchRow
  <2> QED BY <2>2, <2>3
<1>4. Clean(R!NoContent)
  BY NullRows DEF Clean, R!NoContent
<1>5. UNCHANGED <<box, data, ask, queue, cur, mail, swaps, owed>>
  BY DEF R!Delete
<1>6. cur' \in JobRow /\ (owed => cur'.do = "cold" /\ cur'.at \in {"read", "start"})
  BY <1>5 DEF RInv, Types, R!ComesBack
<1> HIDE DEF r
<1> QED BY <1>1, <1>3, <1>4, <1>5, <1>6, ArchStep

-----------------------------------------------------------------------------
(***************************************************************************)
(* The job                                                                 *)
(***************************************************************************)

\* pump
LEMMA StartKeeps ==
  ASSUME RInv, R!Start
  PROVE  RInv'
<1> DEFINE q == Head(queue)
           a == IF q.do = "restore" THEN "check" ELSE "digest"
           r == [q EXCEPT !.at = a]
<1>1. queue \in Seq(JobRow) /\ queue # <<>> /\ queue' = Tail(queue) /\ cur' = r
  BY DEF RInv, Types, R!Start
<1>2. UNCHANGED <<box, data, arch, ask, mail, swaps, owed>>
  BY DEF R!Start
<1>3. /\ q \in JobRow /\ queue' \in Seq(JobRow) /\ Len(queue') = Len(queue) - 1
      /\ \A i \in 1 .. Len(queue') : queue'[i] = queue[i + 1]
  BY <1>1, HeadTailProperties
<1>4. /\ Len(queue) \in Nat /\ Len(queue) # 0 /\ DOMAIN queue = 1 .. Len(queue)
      /\ DOMAIN queue' = 1 .. Len(queue') /\ q = queue[1]
  BY <1>1, <1>3, LenProperties, EmptySeq
<1>5. /\ 1 \in DOMAIN queue
      /\ \A i \in DOMAIN queue' : i + 1 \in DOMAIN queue /\ i + 1 # 1
      /\ \A i, j \in DOMAIN queue' : i + 1 = j + 1 => i = j
  BY <1>3, <1>4
<1>6. WaitInv(q)
  BY <1>4, <1>5 DEF RInv, QueueInv
<1> HIDE DEF q
<1>7. /\ r \in JobRow /\ r.do = q.do /\ r.b = q.b /\ r.swaps = q.swaps
      /\ r.got = q.got /\ r.at = a
  BY <1>3 DEF JobRow
<1> HIDE DEF r
<1>8. /\ a \in {"check", "digest"} /\ (a = "check" => q.do = "restore")
      /\ (a = "digest" => q.do # "restore")
  OBVIOUS
<1> HIDE DEF a
<1>9. Clean(R!NoContent)
  BY NullRows DEF Clean, R!NoContent
<1>10. JobInv(r)
  BY <1>6, <1>7, <1>8, <1>9 DEF JobInv, WaitInv, Making, Writing, Kinds
<1>11. JobInv(cur)'
  BY <1>1, <1>2, <1>10 DEF JobInv, AsChecked, Clean, ReadSoFar
<1>12. ~owed
  <2>1. cur.at = "none"
    BY DEF R!Start, R!NoJob
  <2> QED BY <2>1 DEF RInv, R!ComesBack
<1>13. QueueInv'
  <2>1. Apart'
    <3>1. ASSUME NEW i \in DOMAIN queue', NEW j \in DOMAIN queue',
                 queue'[i].do # "restore", queue'[j].do # "restore", queue'[i].b = queue'[j].b
          PROVE  i = j
      <4>1. queue'[i] = queue[i + 1] /\ queue'[j] = queue[j + 1]
        BY <1>3, <1>4
      <4>2. i + 1 = j + 1
        BY <1>5, <3>1, <4>1 DEF RInv, QueueInv, Apart
      <4> QED BY <1>5, <4>2
    <3> QED BY <3>1 DEF Apart
  <2>2. ASSUME NEW i \in DOMAIN queue' PROVE WaitInv(queue[i])'
    <3>1. queue'[i] = queue[i + 1]
      BY <1>3, <1>4
    <3>2. WaitInv(queue'[i])
      BY <1>5, <3>1 DEF RInv, QueueInv
    <3>3. queue'[i].do # "restore" /\ q.do # "restore" => q.b # queue'[i].b
      BY <1>4, <1>5, <3>1 DEF RInv, QueueInv, Apart
    <3>4. cur'.at \in Making => q.do # "restore"
      BY <1>1, <1>7, <1>8 DEF Making
    <3> QED BY <1>1, <1>2, <1>7, <3>2, <3>3, <3>4 DEF WaitInv, AsChecked
  <2> QED BY <2>1, <2>2 DEF QueueInv
<1>14. Types' /\ AskInv' /\ ArchInv' /\ R!ComesBack'
  BY <1>1, <1>2, <1>3, <1>7, <1>12 DEF RInv, Types, AskInv, ArchInv, R!ComesBack, AsChecked, Clean
<1> QED BY <1>11, <1>13, <1>14 DEF RInv

\* Only the job changes, to r.
LEMMA JobStep ==
  ASSUME RInv, UNCHANGED <<box, data, arch, ask, queue, mail, swaps, owed>>,
         NEW r \in JobRow, cur' = r, JobInv(r),
         r.at \in Making => cur.at \in Making /\ r.b = cur.b,
         owed => r.do = "cold" /\ r.at \in {"read", "start"}
  PROVE  RInv'
<1>1. JobInv(cur)'
  BY DEF JobInv, AsChecked, Clean, ReadSoFar
<1> QED BY <1>1, CurStep

\* The digest is read.
LEMMA DigestKeeps ==
  ASSUME RInv, NEW known \in BOOLEAN, R!Digest(known)
  PROVE  RInv'
<1> DEFINE x == cur
           a == IF x.do = "cold" THEN "stop" ELSE "read"
           i == IF known THEN {box.img} ELSE {}
           r == [x EXCEPT !.at = a, !.todo = Disks, !.img = i]
<1>1. /\ x \in JobRow /\ x.at = "digest" /\ cur' = r
      /\ UNCHANGED <<box, data, arch, ask, queue, mail, swaps, owed>>
  BY DEF RInv, Types, R!Digest
<1>2. i \in SUBSET Images
  BY DEF RInv, Types
<1>3. x.do \in {"cold", "warm"} /\ arch[x.b].st = "none" /\ Clean(x.got) /\ ~owed
  BY <1>1 DEF RInv, JobInv, Making, R!ComesBack
<1>4. cur = x
  OBVIOUS
<1> HIDE DEF x, i
<1>5. a \in {"stop", "read"} /\ (a = "stop" => x.do = "cold") /\ (a = "read" => x.do = "warm")
  BY <1>3
<1> HIDE DEF a
<1>6. /\ r \in JobRow /\ r.at = a /\ r.do = x.do /\ r.b = x.b /\ r.todo = Disks /\ r.got = x.got
  BY <1>1, <1>2, <1>5, DiskBounds DEF JobRow
<1> HIDE DEF r
<1>7. JobInv(r)
  BY <1>3, <1>5, <1>6 DEF JobInv, Making, Writing
<1> QED BY <1>1, <1>3, <1>4, <1>6, <1>7, JobStep DEF Making

\* One volume is read.
LEMMA ReadKeeps ==
  ASSUME RInv, R!ReadVolume
  PROVE  RInv'
<1> DEFINE x == cur
           h == Head(x.todo)
           g == [x.got EXCEPT ![h] = data[h]]
           s == Tail(x.todo)
           r == [x EXCEPT !.got = g, !.todo = s]
<1>1. /\ x \in JobRow /\ x.at = "read" /\ x.todo # <<>> /\ cur' = r
      /\ UNCHANGED <<box, data, arch, ask, queue, mail, swaps, owed>>
  BY DEF RInv, Types, R!ReadVolume
<1>2. x.todo \in Seq(R!Vols) /\ x.got \in Content /\ x.cut \in Content
  BY <1>1, JobFields
<1>3. h \in R!Vols /\ s \in Seq(R!Vols) /\ Len(s) = Len(x.todo) - 1
      /\ \A i \in 1 .. Len(s) : s[i] = x.todo[i + 1]
  BY <1>1, <1>2, HeadTailProperties
<1>4. Len(x.todo) \in Nat /\ Len(x.todo) # 0 /\ h = x.todo[1]
  BY <1>1, <1>2, LenProperties, EmptySeq
<1>5. g \in Content /\ \A v \in R!Vols : g[v] = IF v = h THEN data[v] ELSE x.got[v]
  BY <1>2, <1>3 DEF RInv, Types, Content
<1>6. JobInv(x) /\ Clean(data) /\ cur = x /\ (owed => x.do = "cold")
  BY DEF RInv, ArchInv, R!ComesBack
<1> HIDE DEF x, g, s
<1>7. /\ r \in JobRow /\ r.got = g /\ r.todo = s /\ r.at = x.at /\ r.do = x.do /\ r.b = x.b
      /\ r.cut = x.cut /\ r.meddled = x.meddled
  BY <1>1, <1>3, <1>5 DEF JobRow
<1> HIDE DEF r
<1>8. Clean(r.got)
  BY <1>1, <1>5, <1>6, <1>7 DEF JobInv, Clean, Making
<1>9. ASSUME x.do = "cold", ~x.meddled
      PROVE  ~box.run /\ r.cut = data /\ ReadSoFar(r)
  <2>1. ~box.run /\ x.cut = data /\ ReadSoFar(x)
    BY <1>1, <1>6, <1>9 DEF JobInv
  <2>2. ASSUME NEW v \in R!Vols, \A i \in 1 .. Len(s) : s[i] # v PROVE g[v] = x.cut[v]
    <3>1. CASE v = h
      BY <1>5, <2>1, <3>1
    <3>2. CASE v # h
      <4>1. ASSUME NEW i \in 1 .. Len(x.todo) PROVE x.todo[i] # v
        <5>1. CASE i = 1
          BY <5>1, <1>4, <3>2
        <5>2. CASE i # 1
          <6>1. i - 1 \in 1 .. Len(s) /\ (i - 1) + 1 = i
            BY <1>3, <1>4, <5>2
          <6> QED BY <6>1, <1>3, <2>2
        <5> QED BY <5>1, <5>2
      <4> QED BY <4>1, <1>5, <2>1, <3>2 DEF ReadSoFar
    <3> QED BY <3>1, <3>2
  <2> QED BY <1>7, <2>1, <2>2 DEF ReadSoFar
<1>10. JobInv(r)
  BY <1>1, <1>6, <1>7, <1>8, <1>9 DEF JobInv, Making, Writing
<1> QED BY <1>1, <1>6, <1>7, <1>10, JobStep

\* The finally block: a cold backup goes on to start the container.
LEMMA FinallyRow ==
  ASSUME RInv, cur.at = "read"
  PROVE  /\ R!Finally \in JobRow /\ R!Finally.at \in {"none", "start"} /\ JobInv(R!Finally)
         /\ owed => R!Finally.do = "cold" /\ R!Finally.at = "start"
<1>1. cur.b \in R!Ids
  BY JobFields DEF RInv, Types
<1>2. CASE cur.do = "cold"
  <2> DEFINE r == [R!Job("cold", cur.b) EXCEPT !.at = "start"]
  <2>1. r \in JobRow /\ r.do = "cold" /\ r.b = cur.b /\ r.at = "start"
    BY <1>1, NewStart
  <2>2. R!Finally = r
    BY <1>2 DEF R!Finally
  <2> HIDE DEF r
  <2>3. JobInv(r)
    BY <2>1 DEF JobInv, Making, Writing
  <2> QED BY <2>1, <2>2, <2>3
<1>3. CASE cur.do # "cold"
  <2>1. R!Finally = R!NoJob /\ R!NoJob.at = "none" /\ ~owed
    BY <1>3 DEF R!Finally, R!NoJob, RInv, R!ComesBack
  <2> QED BY <2>1, NullRows, AtRest
<1> QED BY <1>2, <1>3

\* A volume could not be read, or the archive not written.
LEMMA ReadFailsKeeps ==
  ASSUME RInv, R!ReadFails
  PROVE  RInv'
<1>1. /\ cur.at = "read" /\ cur' = R!Finally
      /\ UNCHANGED <<box, data, arch, ask, queue, mail, swaps, owed>>
  BY DEF R!ReadFails
<1>2. PICK r : r = R!Finally
  OBVIOUS
<1>3. r \in JobRow /\ r.at \in {"none", "start"} /\ JobInv(r) /\ (owed => r.do = "cold" /\ r.at = "start")
  BY <1>1, <1>2, FinallyRow
<1> QED BY <1>1, <1>2, <1>3, JobStep DEF Making

\* The row is inserted.
LEMMA InsertKeeps ==
  ASSUME RInv, R!Insert
  PROVE  RInv'
<1> DEFINE b == cur.b
           g == cur.got
           i == cur.img
           r == [R!NoArch EXCEPT !.st = "row", !.vol = g, !.img = i]
<1>1. /\ cur.at = "read" /\ cur' = R!Finally /\ arch' = [arch EXCEPT ![b] = r]
      /\ UNCHANGED <<box, data, ask, queue, mail, swaps, owed>>
  BY DEF R!Insert
<1>2. b \in R!Ids /\ g \in Content /\ i \in SUBSET Images
  BY JobFields DEF RInv, Types
<1>3. arch[b].st = "none" /\ Clean(g)
  BY <1>1 DEF RInv, JobInv, Making
<1>4. PICK k, c : k = R!Finally /\ c = b
  OBVIOUS
<1>5. k \in JobRow /\ k.at \in {"none", "start"} /\ JobInv(k) /\ (owed => k.do = "cold" /\ k.at = "start")
  BY <1>1, <1>4, FinallyRow
<1> HIDE DEF g, i
<1>6. r \in ArchRow /\ r.st = "row" /\ r.vol = g
  <2>1. R!NoArch \in ArchRow
    BY NullRows
  <2>2. r.st = "row" /\ r.vol = g
    BY DEF R!NoArch
  <2>3. r \in ArchRow
    BY <1>2, <2>1 DEF ArchRow
  <2> QED BY <2>2, <2>3
<1>7. PICK z : z = r
  OBVIOUS
<1> HIDE DEF r
<1>8. JobInv(cur)'
  BY <1>1, <1>4, <1>5 DEF JobInv, Making, Writing
<1>9. /\ c \in R!Ids /\ z \in ArchRow /\ arch' = [arch EXCEPT ![c] = z] /\ z.st # "none" /\ Clean(z.vol)
      /\ arch[c].st = "none" /\ cur.b = c
  BY <1>1, <1>2, <1>3, <1>4, <1>6, <1>7
<1>10. cur' \in JobRow /\ cur'.at \notin Making \cup Writing
  BY <1>1, <1>4, <1>5 DEF Making, Writing
<1>11. owed => cur'.do = "cold" /\ cur'.at \in {"read", "start"}
  BY <1>1, <1>4, <1>5
<1> QED BY <1>1, <1>8, <1>9, <1>10, <1>11, ArchStep

\* The container is stopped for the backup.
LEMMA StopKeeps ==
  ASSUME RInv, R!Stop
  PROVE  RInv'
<1> DEFINE x == cur
           r == [x EXCEPT !.at = "read", !.cut = data, !.meddled = FALSE]
<1>1. /\ x \in JobRow /\ x.at = "stop" /\ cur' = r /\ box' = [box EXCEPT !.run = FALSE]
      /\ owed' = box.run /\ UNCHANGED <<data, arch, ask, queue, mail, swaps>>
  BY DEF RInv, Types, R!Stop
<1>2. JobInv(x) /\ data \in Content /\ cur = x
  BY DEF RInv, Types
<1>3. /\ box' \in [run : BOOLEAN, img : Images] /\ box'.img = box.img /\ box'.run = FALSE
      /\ owed' \in BOOLEAN
  BY <1>1 DEF RInv, Types
<1> HIDE DEF x
<1>4. /\ r \in JobRow /\ r.at = "read" /\ r.do = x.do /\ r.b = x.b /\ r.todo = x.todo
      /\ r.got = x.got /\ r.cut = data /\ r.meddled = FALSE
  BY <1>1, <1>2 DEF JobRow
<1> HIDE DEF r
<1>5. x.do = "cold" /\ x.todo = Disks /\ arch[x.b].st = "none" /\ Clean(x.got)
  BY <1>1, <1>2 DEF JobInv, Making
<1>6. ReadSoFar(r)
  <2>1. ASSUME NEW v \in R!Vols PROVE \E j \in 1 .. Len(Disks) : Disks[j] = v
    <3>1. DOMAIN Disks = 1 .. Len(Disks)
      BY LenProperties, DiskBounds
    <3> QED BY <3>1 DEF R!Vols
  <2> QED BY <1>4, <1>5, <2>1 DEF ReadSoFar
<1>7. JobInv(cur)'
  BY <1>1, <1>3, <1>4, <1>5, <1>6 DEF JobInv, Making, Writing, Clean, ReadSoFar
<1>8. Moves /\ Clean(data)' /\ R!ComesBack'
  BY <1>1, <1>3, <1>4, <1>5 DEF Moves, RInv, ArchInv, Clean, R!ComesBack
<1>9. swaps' \in Nat /\ data' \in Content /\ mail' \in 0 .. MaxMail
  BY <1>1 DEF RInv, Types
<1> QED BY <1>1, <1>2, <1>3, <1>4, <1>7, <1>8, <1>9, WorldStep DEF Making

\* The job ends; the container may have changed its state.
LEMMA EndStep ==
  ASSUME RInv, cur' = R!NoJob, UNCHANGED <<arch, ask, queue, mail, swaps>>,
         box' \in [run : BOOLEAN, img : Images], box'.img = box.img,
         data' \in Content, Clean(data)', owed' = FALSE
  PROVE  RInv'
<1>1. R!NoJob \in JobRow /\ R!NoJob.at = "none"
  BY NullRows DEF R!NoJob
<1>2. JobInv(cur)'
  BY <1>1 DEF JobInv, Making, Writing
<1>3. Moves /\ R!ComesBack'
  BY DEF Moves, R!ComesBack
<1>4. swaps' \in Nat /\ mail' \in 0 .. MaxMail /\ owed' \in BOOLEAN
  BY DEF RInv, Types
<1> QED BY <1>1, <1>2, <1>3, <1>4, WorldStep DEF Making

\* The calls that end a job: a stop that failed, a start, a restore refused
LEMMA EndsKeep ==
  ASSUME RInv,
         \/ (\E did \in BOOLEAN : R!StopFails(did))
         \/ R!StartAgain \/ R!StartAgainFails \/ R!RestoreFails
  PROVE  RInv'
<1>1. cur' = R!NoJob /\ UNCHANGED <<data, arch, ask, queue, mail, swaps>>
  BY DEF R!StopFails, R!StartAgain, R!StartAgainFails, R!RestoreFails
<1>2. box' \in [run : BOOLEAN, img : Images] /\ box'.img = box.img
  <2>1. box \in [run : BOOLEAN, img : Images]
    BY DEF RInv, Types
  <2>2. ASSUME NEW did \in BOOLEAN, R!StopFails(did)
        PROVE  box' \in [run : BOOLEAN, img : Images] /\ box'.img = box.img
    <3>1. box' = [box EXCEPT !.run = box.run /\ ~did]
      BY <2>2 DEF R!StopFails
    <3> QED BY <2>1, <3>1
  <2>3. CASE R!StartAgain
    BY <2>1, <2>3 DEF R!StartAgain
  <2>4. CASE R!StartAgainFails \/ R!RestoreFails
    BY <2>1, <2>4 DEF R!StartAgainFails, R!RestoreFails
  <2> QED BY <2>2, <2>3, <2>4
<1>3. owed' = FALSE
  <2>1. CASE R!StartAgain \/ R!StartAgainFails
    BY <2>1 DEF R!StartAgain, R!StartAgainFails
  <2>2. CASE R!RestoreFails \/ \E did \in BOOLEAN : R!StopFails(did)
    <3>1. owed' = owed /\ cur.at \notin {"read", "start"}
      BY <2>2 DEF R!RestoreFails, R!StopFails
    <3>2. ~owed /\ owed \in BOOLEAN
      BY <3>1 DEF RInv, R!ComesBack, Types
    <3> QED BY <3>1, <3>2
  <2> QED BY <2>1, <2>2
<1>4. data' \in Content /\ Clean(data)'
  BY <1>1 DEF RInv, Types, ArchInv, Clean
<1> QED BY <1>1, <1>2, <1>3, <1>4, EndStep

\* performRestore looks at the container.
LEMMA CheckKeeps ==
  ASSUME RInv, R!Check
  PROVE  RInv'
<1> DEFINE x == cur
           r == [x EXCEPT !.at = "extract", !.meddled = FALSE]
<1>1. /\ x \in JobRow /\ x.at = "check" /\ ~box.run /\ cur' = r
      /\ UNCHANGED <<box, data, arch, ask, queue, mail, swaps, owed>>
  BY DEF RInv, Types, R!Check
<1>2. JobInv(x) /\ ~owed
  BY <1>1 DEF RInv, R!ComesBack
<1> HIDE DEF x
<1>3. r \in JobRow /\ r.at = "extract" /\ r.b = x.b /\ r.swaps = x.swaps
  BY <1>1 DEF JobRow
<1> HIDE DEF r
<1>4. JobInv(r)
  BY <1>1, <1>2, <1>3 DEF JobInv, Making, Writing
<1> QED BY <1>1, <1>2, <1>3, <1>4, JobStep DEF Making

\* The archive is extracted.
LEMMA ExtractKeeps ==
  ASSUME RInv, R!Extract
  PROVE  RInv'
<1> DEFINE x == cur
           y == arch[x.b]
           r == [x EXCEPT !.at = "layout", !.got = y.vol, !.bad = y.bad, !.img = y.img]
<1>1. /\ x \in JobRow /\ x.at = "extract" /\ cur' = r
      /\ UNCHANGED <<box, data, arch, ask, queue, mail, swaps, owed>>
  BY DEF RInv, Types, R!Extract
<1>2. JobInv(x) /\ ~owed
  BY <1>1 DEF RInv, R!ComesBack
<1>3. x.b \in R!Ids
  BY <1>1, JobFields
<1>4. y \in ArchRow
  BY <1>3 DEF RInv, Types
<1>5. y.vol \in Content /\ y.bad \in SUBSET R!Vols /\ y.img \in SUBSET Images
  BY <1>4, ArchFields
<1>6. y.bad = {} => Clean(y.vol)
  BY <1>3 DEF RInv, ArchInv, Clean
<1>7. y = arch[x.b]
  OBVIOUS
<1> HIDE DEF x, y
<1>8. /\ r \in JobRow /\ r.at = "layout" /\ r.b = x.b /\ r.swaps = x.swaps /\ r.meddled = x.meddled
      /\ r.got = y.vol /\ r.bad = y.bad /\ r.img = y.img
  BY <1>1, <1>5 DEF JobRow
<1> HIDE DEF r
<1>9. JobInv(r)
  BY <1>1, <1>2, <1>6, <1>7, <1>8 DEF JobInv, Making, Writing
<1> QED BY <1>1, <1>2, <1>8, <1>9, JobStep DEF Making

\* Every volume was looked through.
LEMMA LayoutKeeps ==
  ASSUME RInv, R!Layout
  PROVE  RInv'
<1> DEFINE x == cur
           r == [x EXCEPT !.at = "put", !.todo = Disks]
<1>1. /\ x \in JobRow /\ x.at = "layout" /\ x.bad = {} /\ cur' = r
      /\ UNCHANGED <<box, data, arch, ask, queue, mail, swaps, owed>>
  BY DEF RInv, Types, R!Layout
<1>2. JobInv(x) /\ ~owed
  BY <1>1 DEF RInv, R!ComesBack
<1> HIDE DEF x
<1>3. /\ r \in JobRow /\ r.at = "put" /\ r.b = x.b /\ r.swaps = x.swaps /\ r.meddled = x.meddled
      /\ r.got = x.got /\ r.img = x.img /\ r.todo = Disks
  BY <1>1, DiskBounds DEF JobRow
<1> HIDE DEF r
<1>4. JobInv(r)
  BY <1>1, <1>2, <1>3, DiskBounds DEF JobInv, Making, Writing
<1> QED BY <1>1, <1>2, <1>3, <1>4, JobStep DEF Making

\* A volume is written.
LEMMA PutKeeps ==
  ASSUME RInv, NEW ok \in BOOLEAN, R!PutVolume(ok)
  PROVE  RInv'
<1> DEFINE x == cur
           h == Head(x.todo)
           s == Tail(x.todo)
           r == [x EXCEPT !.todo = s]
<1>1. /\ x \in JobRow /\ x.at = "put" /\ data' = [data EXCEPT ![h] = x.got[h]]
      /\ UNCHANGED <<box, arch, ask, queue, mail, swaps, owed>>
      /\ (cur' = r /\ Len(x.todo) > 1) \/ cur' = R!NoJob
  BY DEF RInv, Types, R!PutVolume
<1>2. JobInv(x) /\ ~owed /\ owed \in BOOLEAN /\ cur = x
  BY <1>1 DEF RInv, R!ComesBack, Types
<1>3. x.todo \in Seq(R!Vols) /\ x.got \in Content /\ x.todo # <<>> /\ Clean(x.got)
  BY <1>1, <1>2, JobFields DEF JobInv
<1>4. h \in R!Vols /\ s \in Seq(R!Vols) /\ Len(s) = Len(x.todo) - 1
  BY <1>3, HeadTailProperties
<1>5. /\ data' \in Content /\ \A v \in R!Vols : data'[v] = IF v = h THEN x.got[v] ELSE data[v]
  BY <1>1, <1>3, <1>4 DEF RInv, Types, Content
<1>6. Clean(data)'
  BY <1>1, <1>3, <1>5 DEF RInv, ArchInv, Clean
<1>7. box' \in [run : BOOLEAN, img : Images] /\ box'.img = box.img /\ owed' = FALSE
  BY <1>1, <1>2 DEF RInv, Types
<1>8. CASE cur' = R!NoJob
  BY <1>1, <1>5, <1>6, <1>7, <1>8, EndStep
<1>9. CASE cur' = r /\ Len(x.todo) > 1
  <2>1. s # <<>>
    <3>1. Len(x.todo) \in Nat
      BY <1>3, LenProperties
    <3>2. Len(s) = Len(x.todo) - 1 /\ Len(x.todo) > 1
      BY <1>4, <1>9
    <3> HIDE DEF s, x
    <3>3. Len(s) # 0
      <4>1. ASSUME NEW m \in Nat, NEW n, n = m - 1, m > 1 PROVE n # 0
        BY <4>1
      <4> QED BY <3>1, <3>2, <4>1
    <3> QED BY <3>3, EmptySeq
  <2> HIDE DEF x, s
  <2>2. /\ r \in JobRow /\ r.at = "put" /\ r.b = x.b /\ r.swaps = x.swaps /\ r.meddled = x.meddled
        /\ r.got = x.got /\ r.img = x.img /\ r.todo = s
    BY <1>1, <1>4 DEF JobRow
  <2> HIDE DEF r
  <2>3. JobInv(cur)'
    BY <1>1, <1>2, <1>3, <1>9, <2>1, <2>2 DEF JobInv, Making, Writing, AsChecked, Clean
  <2>4. Moves /\ R!ComesBack' /\ owed' \in BOOLEAN
    BY <1>1, <1>2 DEF Moves, R!ComesBack
  <2>5. swaps' \in Nat /\ mail' \in 0 .. MaxMail
    BY <1>1 DEF RInv, Types
  <2> QED BY <1>1, <1>5, <1>6, <1>7, <1>9, <2>2, <2>3, <2>4, <2>5, WorldStep DEF Making
<1> QED BY <1>1, <1>8, <1>9

-----------------------------------------------------------------------------
(***************************************************************************)
(* Others                                                                  *)
(***************************************************************************)

\* The process dies.
LEMMA DieKeeps ==
  ASSUME RInv, R!Die
  PROVE  RInv'
<1>1. /\ cur' = R!NoJob /\ queue' = <<>> /\ ask' = R!NoAsk /\ owed' = FALSE
      /\ UNCHANGED <<box, data, arch, mail, swaps>>
  BY DEF R!Die
<1>2. R!NoJob \in JobRow /\ R!NoJob.at = "none" /\ R!NoAsk \in AskRow /\ R!NoAsk.at = "none"
  BY NullRows DEF R!NoJob, R!NoAsk
<1>3. <<>> \in Seq(JobRow) /\ DOMAIN <<>> = {}
  BY EmptySeq
<1>4. Types'
  BY <1>1, <1>2, <1>3 DEF RInv, Types
<1>5. JobInv(cur)' /\ AskInv' /\ R!ComesBack'
  BY <1>1, <1>2 DEF JobInv, Making, Writing, AskInv, R!ComesBack
<1>6. QueueInv'
  BY <1>1, <1>3 DEF QueueInv, Apart
<1>7. ArchInv'
  BY <1>1 DEF RInv, ArchInv, Clean
<1> QED BY <1>4, <1>5, <1>6, <1>7 DEF RInv

\* A container that is started or replaced under a job is one others meddled with.
LEMMA MeddleKeeps ==
  ASSUME RInv, R!StartByHand \/ R!Replace
  PROVE  RInv'
<1> DEFINE x == cur
           m == x # R!NoJob
           r == [x EXCEPT !.meddled = m]
<1>1. /\ x \in JobRow /\ cur' = r /\ owed' = FALSE /\ UNCHANGED <<data, arch, ask, queue, mail>>
  BY DEF RInv, Types, R!StartByHand, R!Replace, R!Meddle
<1>2. JobInv(x) /\ Types /\ cur = x
  BY DEF RInv
<1>3. x.at # "none" => m = TRUE
  BY DEF R!NoJob
<1>4. m \in BOOLEAN
  OBVIOUS
<1> HIDE DEF x, m
<1>5. /\ r \in JobRow /\ r.at = x.at /\ r.do = x.do /\ r.b = x.b /\ r.todo = x.todo /\ r.got = x.got
      /\ r.img = x.img /\ r.bad = x.bad /\ r.swaps = x.swaps /\ r.meddled = m
  BY <1>1, <1>4 DEF JobRow
<1> HIDE DEF r
<1>6. Moves /\ box' \in [run : BOOLEAN, img : Images] /\ swaps' \in Nat
  <2>1. CASE R!StartByHand
    BY <1>2, <2>1 DEF R!StartByHand, Moves, Types
  <2>2. CASE R!Replace
    BY <1>2, <2>2 DEF R!Replace, Moves, Types, Images
  <2> QED BY <2>1, <2>2
<1>7. ASSUME NEW i, AsChecked(i, x.swaps) PROVE AsChecked(i, x.swaps)'
  <2>1. x.swaps \in Nat
    BY <1>1, JobFields
  <2> QED BY <1>1, <1>2, <1>5, <1>6, <1>7, <2>1 DEF AsChecked, Moves, Types, x
<1>8. JobInv(cur)'
  <2>1. PICK k : k = x
    OBVIOUS
  <2>2. k.swaps \in Nat
    BY <1>1, <2>1, JobFields
  <2>3. \A i : AsChecked(i, k.swaps) => AsChecked(i, k.swaps)'
    BY <1>2, <1>6, <2>2 DEF AsChecked, Moves, Types
  <2>4. JobInv(k) /\ r.at = k.at /\ r.do = k.do /\ r.b = k.b /\ r.todo = k.todo /\ r.got = k.got
        /\ r.img = k.img /\ r.bad = k.bad /\ r.swaps = k.swaps /\ (k.at # "none" => r.meddled)
    BY <1>2, <1>3, <1>5, <2>1
  <2> QED BY <1>1, <2>3, <2>4 DEF JobInv, Making, Writing, Clean
<1>9. Clean(data)' /\ R!ComesBack' /\ owed' \in BOOLEAN
  BY <1>1 DEF RInv, ArchInv, Clean, R!ComesBack
<1>10. data' \in Content /\ mail' \in 0 .. MaxMail
  BY <1>1, <1>2 DEF Types
<1> QED BY <1>1, <1>2, <1>5, <1>6, <1>8, <1>9, <1>10, WorldStep

\* A container that is stopped by hand, or gets mail
LEMMA OutsideKeeps ==
  ASSUME RInv, R!StopByHand \/ \E v \in R!Vols : R!Deliver(v)
  PROVE  RInv'
<1>1. UNCHANGED <<arch, ask, queue, cur, swaps, owed>> /\ Types /\ JobInv(cur) /\ Clean(data)
  BY DEF RInv, ArchInv, R!StopByHand, R!Deliver
<1>2. cur' \in JobRow /\ swaps' \in Nat /\ owed' \in BOOLEAN /\ R!ComesBack'
  BY <1>1 DEF RInv, Types, R!ComesBack
<1>3. CASE R!StopByHand
  <2>1. /\ box' \in [run : BOOLEAN, img : Images] /\ box'.img = box.img /\ box'.run = FALSE
        /\ UNCHANGED <<data, mail>>
    BY <1>1, <1>3 DEF R!StopByHand, Types
  <2>2. JobInv(cur)'
    BY <1>1, <2>1 DEF JobInv, AsChecked, Clean, ReadSoFar
  <2>3. Moves /\ Clean(data)' /\ data' \in Content /\ mail' \in 0 .. MaxMail
    BY <1>1, <2>1 DEF Moves, Clean, Types
  <2> QED BY <1>1, <1>2, <2>1, <2>2, <2>3, WorldStep
<1>4. ASSUME NEW v \in R!Vols, R!Deliver(v) PROVE RInv'
  <2>1. /\ box.run /\ mail < MaxMail /\ mail' = mail + 1 /\ data' = [data EXCEPT ![v] = mail + 1]
        /\ UNCHANGED box
    BY <1>4 DEF R!Deliver
  <2>2. mail' \in 0 .. MaxMail /\ mail' \in R!Contents /\ mail' # R!First
    BY <1>1, <2>1, DiskBounds DEF Types, R!Contents, R!First
  <2>3. data' \in Content /\ \A w \in R!Vols : data'[w] = IF w = v THEN mail' ELSE data[w]
    BY <1>1, <2>1, <2>2 DEF Types, Content
  <2>4. Clean(data)'
    BY <1>1, <2>2, <2>3 DEF Clean
  <2>5. JobInv(cur)'
    BY <1>1, <2>1 DEF JobInv, AsChecked, Clean
  <2>6. Moves /\ box' \in [run : BOOLEAN, img : Images]
    BY <1>1, <2>1 DEF Moves, Types
  <2> QED BY <1>1, <1>2, <2>2, <2>3, <2>4, <2>5, <2>6, WorldStep
<1> QED BY <1>3, <1>4

-----------------------------------------------------------------------------
(***************************************************************************)
(* The invariant and what it gives                                         *)
(***************************************************************************)

\* Every step keeps the invariant.
LEMMA RestoreStep ==
  ASSUME RInv, [R!Next]_(R!vars)
  PROVE  RInv'
<1>1. CASE UNCHANGED R!vars
  BY <1>1 DEF R!vars, RInv, Types, JobInv, AskInv, QueueInv, Apart, WaitInv, ArchInv, R!ComesBack,
              AsChecked, Clean, ReadSoFar
<1>2. CASE R!Next
  BY <1>2, CreateKeeps, RequestKeeps, AcceptKeeps, DeleteKeeps, StartKeeps, DigestKeeps, StopKeeps,
     EndsKeep, ReadKeeps, InsertKeeps, ReadFailsKeeps, CheckKeeps, ExtractKeeps, LayoutKeeps,
     PutKeeps, DieKeeps, MeddleKeeps, OutsideKeeps
     DEF R!Next
<1> QED BY <1>1, <1>2

\* A cold backup that was read to its end, with nobody else at the container, is what was cut.
LEMMA AllRead ==
  ASSUME RInv, cur.do = "cold", cur.at = "read", ~cur.meddled, cur.todo = <<>>
  PROVE  cur.got = cur.cut
<1>1. cur.got \in Content /\ cur.cut \in Content
  BY JobFields DEF RInv, Types
<1>2. ReadSoFar(cur) /\ 1 .. Len(cur.todo) = {}
  BY EmptySeq DEF RInv, JobInv
<1>3. \A v \in R!Vols : cur.got[v] = cur.cut[v]
  BY <1>2 DEF ReadSoFar
<1> QED BY <1>1, <1>3 DEF Content

\* The invariant's parts are enough.
LEMMA RestoreEnough ==
  ASSUME RInv
  PROVE  R!RestoreHolds
<1>1. R!TypeOK
  <2>1. \A b \in R!Ids : arch[b].vol \in [R!Vols -> R!Contents] /\ arch[b].st \in {"none", "row", "deleted"}
    BY ArchFields DEF RInv, Types, Content
  <2>2. cur.at \in {"none", "digest", "stop", "read", "start", "check", "extract", "layout", "put"}
    BY JobFields DEF RInv, Types
  <2> QED BY <2>1, <2>2 DEF R!TypeOK, RInv, Types, Images, Content
<1>2. R!WrittenAsChecked
  BY DEF R!WrittenAsChecked, RInv, JobInv, AsChecked
<1>3. R!ColdIsConsistent
  BY AllRead DEF R!ColdIsConsistent
<1>4. R!ComesBack /\ R!NothingOfMisshapen
  BY DEF RInv, ArchInv, Clean, R!NothingOfMisshapen
<1> QED BY <1>1, <1>2, <1>3, <1>4 DEF R!RestoreHolds

(***************************************************************************)
(* Whatever is asked for, queued, deleted or meddled with meanwhile: a     *)
(* restore writes to a stopped container of the image that was checked,    *)
(* unless others started or replaced it; a cold backup has its volumes of  *)
(* one instant; the panel starts again what it stopped; and a misshapen    *)
(* archive changes no volume.  (restore, performRestore, performCreate,    *)
(* restoreVolumesFromExtractedArchive)                                     *)
(***************************************************************************)
THEOREM RestoreAlwaysHolds == R!Spec => []RestoreHolds
<1>1. R!Init => RInv
  BY RestoreInit
<1>2. RInv /\ [R!Next]_(R!vars) => RInv'
  BY RestoreStep
<1>3. RInv => RestoreHolds
  BY RestoreEnough DEF RestoreHolds
<1> QED BY <1>1, <1>2, <1>3, PTL DEF R!Spec

-----------------------------------------------------------------------------
(***************************************************************************)
(* Destination: the invariant                                              *)
(***************************************************************************)
LEMMA BucketBounds == MaxIds \in Nat /\ MaxSize \in Nat
BY BucketAssumption

\* A set of naturals has a least one.
LEMMA Least ==
  ASSUME NEW T, T \subseteq Nat, T # {}
  PROVE  \E x \in T : \A y \in T : x <= y
<1>1. IsWellFoundedOn(OpToRel(<, Nat), Nat)
  BY NatLessThanWellFounded
<1>2. PICK x \in T : \A y \in T : ~(<<y, x>> \in OpToRel(<, Nat))
  BY <1>1, WFMin
<1>3. \A y \in T : ~(y < x)
  BY <1>2 DEF OpToRel
<1> QED BY <1>3

\* The steps a task of each operation may be at, on S3 and by FTP
S3Places ==
  {<<"none", "none">>}
    \cup ({"upload"} \X {"create", "put", "part", "complete", "abort", "ok", "failed"})
    \cup ({"delete"} \X {"list", "each", "again", "head", "plain", "ok", "failed"})
    \cup ({"cleanup"} \X {"uploads", "aborts", "ok", "failed"})
FtpPlaces ==
  {<<"none", "none">>} \cup ({"upload"} \X {"size", "send", "ok", "failed"})
    \cup ({"delete"} \X {"remove", "ok", "failed"})
Places(c) == IF c.kind = "s3" THEN S3Places ELSE FtpPlaces

Errand ==
  [op : {"none", "upload", "delete", "cleanup"},
   at : {"none", "create", "put", "part", "complete", "abort", "ok", "failed", "list", "each",
         "again", "head", "plain", "uploads", "aborts", "size", "send", "remove"},
   id : 0 .. MaxIds, part : Nat, tries : Nat, mark : 0 .. MaxIds, found : SUBSET (0 .. MaxIds),
   alone : BOOLEAN, misled : BOOLEAN]

\* The file, the ids there are, the last of the versions, and what an FTP
\* server has of the file
FileOf(c) == [i \in 1 .. c.size |-> i]
IdsOf(V) == {v.id : v \in V}
Latest(V) == CHOOSE v \in V : \A w \in V : w.id <= v.id
BodyOf(V) == IF V = {} THEN <<>> ELSE Latest(V).body

\* Multipart uploads have ids of their own, given out so far.
Uploads(O, i) ==
  /\ O \subseteq [id : 1 .. MaxIds, got : SUBSET Nat]
  /\ \A u \in O : u.id <= i
  /\ \A u, w \in O : u.id = w.id => u = w

Setting(c, O, i, ex) ==
  /\ c \in D!Confs /\ c.size <= c.part + 1 /\ i \in 0 .. MaxIds
  /\ Uploads(O, i) /\ ex \in BOOLEAN

\* Versions have ids of their own, given out so far, or there is one at most;
\* and on S3 each is the whole file or a delete marker.
Stock(c, V, i) ==
  /\ IsFiniteSet(V) /\ \A v \in V : v.id \in 0 .. MaxIds /\ v.body \in Seq(0 .. MaxSize)
  /\ \A v, w \in V : v.id = w.id => v = w
  /\ \A v \in V : IF c.versioned THEN v.id \in 1 .. i ELSE v.id = D!Null
  /\ c.kind = "s3" => \A v \in V : v.body = FileOf(c) \/ (c.versioned /\ v.body = D!Marker)

\* Whoever is alone with the key is.
Crew(c, T) ==
  /\ T \in [Callers -> Errand]
  /\ \A t \in Callers : <<T[t].op, T[t].at>> \in Places(c)
  /\ \A t \in Callers : T[t] # D!Idle /\ T[t].alone => \A u \in Callers \ {t} : T[u] = D!Idle

\* NothingLingers
Attended(O, T, ex) ==
  ~ex => \A u \in O : \E t \in Callers : T[t].op = "upload" /\ T[t].id = u.id
                                        /\ T[t].at \in {"part", "complete", "abort"}

\* By FTP: unless two were at it, what is there is the beginning of the file.
Resumes(c, V, O, T, ex) == c.kind = "ftp" =>
  /\ O = {}
  /\ ~ex =>
       /\ Len(BodyOf(V)) <= c.size /\ \A i \in 1 .. Len(BodyOf(V)) : BodyOf(V)[i] = i
       /\ \A t \in Callers :
            /\ T[t] # D!Idle => T[t].alone
            /\ T[t].op = "upload" /\ T[t].at = "send" => T[t].part = Len(BodyOf(V)) + 1
            /\ T[t].op = "upload" /\ T[t].at = "ok" => Len(BodyOf(V)) = c.size

\* What a task alone with the key has come to: an upload is stored; a deletion
\* has every version in its list, then none is left, or the marker of a plain
\* DELETE that a wrong answer led to; a clean-up has every multipart upload in
\* its list.
Stands(x, c, V) ==
  x.op = "upload" /\ x.at = "ok" /\ x.alone /\ c.kind = "s3" => V # {} /\ Latest(V).body = FileOf(c)
Clears(x, c, V) ==
  x.op = "delete" =>
    /\ x.at = "each" => x.found # {} /\ c.list = "all"
    /\ c.versioned => D!Null \notin x.found
    /\ c.list # "all" => x.found = {}
    /\ x.alone =>
         /\ x.at = "list" /\ c.list # "omits" =>
              \A v \in IdsOf(V) : v \in x.found \/ x.mark = 0 \/ v < x.mark
         /\ x.at = "each" => IdsOf(V) \subseteq x.found
         /\ x.at = "again" => c.list = "all" /\ V = {}
         /\ x.at = "head" => c.list # "none" /\ (c.list = "all" => V = {})
         /\ x.at = "plain" => ~c.versioned \/ (x.misled /\ V = {})
         /\ x.at = "ok" => V = {} \/ (x.misled /\ c.versioned /\ \E v \in V : V = {v} /\ v.body = D!Marker)
Aborts(x, O) ==
  x.op = "cleanup" =>
    /\ x.tries \in {0, 1}
    /\ x.at = "aborts" => x.found # {}
    /\ x.at = "aborts" /\ x.alone /\ x.tries = 0 => \A u \in O : u.id \in x.found
Comes(x, c, V, O) == Stands(x, c, V) /\ Clears(x, c, V) /\ Aborts(x, O)

DestInv(c, V, O, i, T, ex) ==
  /\ Setting(c, O, i, ex) /\ Stock(c, V, i) /\ Crew(c, T)
  /\ Attended(O, T, ex) /\ Resumes(c, V, O, T, ex)
  /\ \A t \in Callers : Comes(T[t], c, V, O)

-----------------------------------------------------------------------------
(***************************************************************************)
(* What there is at a destination                                          *)
(***************************************************************************)
\* The greatest and the least of some ids
LEMMA GreatestId ==
  ASSUME NEW N, N \subseteq 0 .. MaxIds, N # {}
  PROVE  D!Max(N) \in N /\ \A x \in N : x <= D!Max(N)
<1> DEFINE U == {n \in Nat : \A x \in N : x <= n}
<1>1. MaxIds \in U
  BY BucketBounds
<1>2. PICK m \in U : \A y \in U : m <= y
  BY <1>1, Least
<1>3. m \in N
  <2>1. ASSUME m \notin N PROVE FALSE
    <3>1. \A x \in N : x <= m - 1
      BY <1>2, <2>1, BucketBounds
    <3>2. PICK x \in N : TRUE
      OBVIOUS
    <3>3. x \in Nat /\ x <= m - 1
      BY <3>1, <3>2, BucketBounds
    <3>4. m - 1 \in Nat
      BY <1>2, <3>3
    <3>5. m - 1 \in U
      BY <3>1, <3>4
    <3> QED BY <1>2, <3>5
  <2> QED BY <2>1
<1>4. \E x \in N : \A y \in N : x >= y
  BY <1>2, <1>3, BucketBounds
<1>5. D!Max(N) \in N /\ \A y \in N : D!Max(N) >= y
  BY <1>4 DEF D!Max
<1> QED BY <1>5, BucketBounds

\* The least of some ids
LEMMA LeastId ==
  ASSUME NEW N, N \subseteq 0 .. MaxIds, N # {}
  PROVE  D!Min(N) \in N /\ \A x \in N : D!Min(N) <= x
<1>1. N \subseteq Nat
  BY BucketBounds
<1>2. PICK m \in N : \A y \in N : m <= y
  BY <1>1, Least
<1> QED BY <1>2 DEF D!Min

\* Others that are not alone, or idle, do not mind what changes.
LEMMA OthersDoNotMind ==
  ASSUME NEW x, NEW c, NEW V, NEW O, NEW V2, NEW O2, Comes(x, c, V, O), x = D!Idle \/ ~x.alone
  PROVE  Comes(x, c, V2, O2)
BY DEF Comes, Stands, Clears, Aborts, D!Idle

\* A task goes on to r; the others stay.
LEMMA GoesOn ==
  ASSUME NEW c, NEW V, NEW O, NEW T, NEW V2, NEW O2, NEW t \in Callers, NEW r \in Errand,
         Crew(c, T), \A u \in Callers : Comes(T[u], c, V, O),
         T[t] # D!Idle, r.op = T[t].op, r.alone = T[t].alone, <<r.op, r.at>> \in Places(c),
         Comes(r, c, V2, O2)
  PROVE  /\ Crew(c, [T EXCEPT ![t] = r])
         /\ \A u \in Callers : Comes([T EXCEPT ![t] = r][u], c, V2, O2)
<1> DEFINE T2 == [T EXCEPT ![t] = r]
<1>1. T2 \in [Callers -> Errand] /\ T2[t] = r /\ \A u \in Callers \ {t} : T2[u] = T[u]
  BY DEF Crew
<1>2. ASSUME NEW u \in Callers \ {t} PROVE T[u] = D!Idle \/ ~T[u].alone
  BY DEF Crew
<1>3. \A u \in Callers : Comes(T2[u], c, V2, O2)
  BY <1>1, <1>2, OthersDoNotMind
<1>4. Crew(c, T2)
  <2> HIDE DEF T2
  <2>1. \A u \in Callers : <<T2[u].op, T2[u].at>> \in Places(c)
    BY <1>1 DEF Crew
  <2>2. ASSUME NEW u \in Callers, T2[u] # D!Idle, T2[u].alone PROVE \A w \in Callers \ {u} : T2[w] = D!Idle
    BY <1>1, <1>2, <2>2 DEF Crew
  <2> QED BY <1>1, <2>1, <2>2 DEF Crew
<1> QED BY <1>3, <1>4

\* A task has come to its end and is idle.
LEMMA GoesHome ==
  ASSUME NEW c, NEW V, NEW O, NEW T, NEW t \in Callers, Crew(c, T),
         \A u \in Callers : Comes(T[u], c, V, O)
  PROVE  /\ Crew(c, [T EXCEPT ![t] = D!Idle])
         /\ \A u \in Callers : Comes([T EXCEPT ![t] = D!Idle][u], c, V, O)
<1> DEFINE T2 == [T EXCEPT ![t] = D!Idle]
<1>0. D!Idle \in Errand /\ <<D!Idle.op, D!Idle.at>> \in Places(c)
  BY BucketBounds DEF D!Idle, Errand, Places, S3Places, FtpPlaces
<1>1. T2 \in [Callers -> Errand] /\ T2[t] = D!Idle /\ \A u \in Callers \ {t} : T2[u] = T[u]
  BY <1>0 DEF Crew
<1>2. Comes(D!Idle, c, V, O)
  BY DEF Comes, Stands, Clears, Aborts, D!Idle
<1>3. \A u \in Callers : Comes(T2[u], c, V, O)
  BY <1>1, <1>2
<1>4. Crew(c, T2)
  <2> HIDE DEF T2
  <2> QED BY <1>0, <1>1 DEF Crew
<1> QED BY <1>3, <1>4

\* One more version, later than all; or the only one.
LEMMA OneMore ==
  ASSUME NEW c, NEW V, NEW i \in 0 .. MaxIds, NEW b, Stock(c, V, i),
         b \in Seq(0 .. MaxSize), c.kind = "s3" => b = FileOf(c) \/ b = D!Marker,
         i < MaxIds, c.versioned
  PROVE  /\ Stock(c, V \cup {[id |-> i + 1, body |-> b]}, i + 1)
         /\ Latest(V \cup {[id |-> i + 1, body |-> b]}).body = b
<1> DEFINE n == [id |-> i + 1, body |-> b]
           W == V \cup {n}
<1>0. IsFiniteSet(V)
  BY DEF Stock
<1>1. IsFiniteSet(W)
  BY <1>0, FS_AddElement
<1>2. \A v \in W : v = n \/ (v \in V /\ v.id \in 1 .. i)
  BY DEF Stock
<1>3. n.id = i + 1 /\ n.body = b
  OBVIOUS
<1> HIDE DEF n
<1>4. Stock(c, W, i + 1)
  <2>1. \A v, w \in W : v.id = w.id => v = w
    BY <1>2, <1>3 DEF Stock
  <2>2. \A v \in W : v.id \in 0 .. MaxIds /\ v.body \in Seq(0 .. MaxSize)
    BY <1>2, <1>3, BucketBounds DEF Stock
  <2>3. \A v \in W : v.id \in 1 .. i + 1
    BY <1>2, <1>3
  <2>4. c.kind = "s3" => \A v \in W : v.body = FileOf(c) \/ (c.versioned /\ v.body = D!Marker)
    BY <1>2, <1>3 DEF Stock
  <2> QED BY <1>1, <2>1, <2>2, <2>3, <2>4 DEF Stock
<1>5. \A w \in W : w.id <= n.id
  BY <1>2, <1>3
<1>6. Latest(W) \in W /\ n.id <= Latest(W).id
  <2>1. n \in W
    OBVIOUS
  <2>2. \E v \in W : \A w \in W : w.id <= v.id
    BY <1>5, <2>1
  <2> QED BY <2>1, <2>2 DEF Latest
<1>7. Latest(W) = n
  BY <1>2, <1>3, <1>6
<1> QED BY <1>3, <1>4, <1>7 DEF n

\* What a destination may be
LEMMA ConfIs ==
  ASSUME NEW c \in D!Confs
  PROVE  /\ c.kind \in {"s3", "ftp"} /\ c.versioned \in BOOLEAN /\ c.list \in {"all", "omits", "none"}
         /\ c.size \in 0 .. MaxSize /\ c.part \in 1 .. MaxSize
         /\ c.kind = "ftp" => ~c.versioned /\ c.size # 0
         /\ c.list # "all" => ~c.versioned
<1>1. CASE c \in [kind : {"s3"}, versioned : {TRUE}, list : {"all"}, size : 0 .. MaxSize,
                  part : 1 .. MaxSize - 1]
  <2>1. /\ c.kind = "s3" /\ c.versioned = TRUE /\ c.list = "all"
        /\ c.size \in 0 .. MaxSize /\ c.part \in 1 .. MaxSize - 1
    BY <1>1
  <2>2. c.part \in 1 .. MaxSize
    BY <2>1, BucketBounds
  <2> QED BY <2>1, <2>2
<1>2. CASE c \in [kind : {"s3"}, versioned : {FALSE}, list : {"all", "omits", "none"},
                  size : 0 .. MaxSize, part : 1 .. MaxSize - 1]
  <2>1. /\ c.kind = "s3" /\ c.versioned = FALSE /\ c.list \in {"all", "omits", "none"}
        /\ c.size \in 0 .. MaxSize /\ c.part \in 1 .. MaxSize - 1
    BY <1>2
  <2>2. c.part \in 1 .. MaxSize
    BY <2>1, BucketBounds
  <2> QED BY <2>1, <2>2
<1>3. CASE c \in [kind : {"ftp"}, versioned : {FALSE}, list : {"none"}, size : 1 .. MaxSize,
                  part : {MaxSize}]
  <2>1. /\ c.kind = "ftp" /\ c.versioned = FALSE /\ c.list = "none" /\ c.size \in 1 .. MaxSize
        /\ c.part = MaxSize
    BY <1>3
  <2>2. c.size \in 0 .. MaxSize /\ c.size # 0 /\ c.part \in 1 .. MaxSize
    BY <2>1, BucketBounds
  <2> QED BY <2>1, <2>2
<1> QED BY <1>1, <1>2, <1>3 DEF D!Confs

\* The file, and how it differs from a delete marker
LEMMA FileIs ==
  ASSUME NEW c \in D!Confs
  PROVE  /\ FileOf(c) \in Seq(0 .. MaxSize) /\ Len(FileOf(c)) = c.size
         /\ \A j \in 1 .. c.size : FileOf(c)[j] = j
         /\ FileOf(c) # D!Marker /\ D!Marker \in Seq(0 .. MaxSize)
<1>1. c.size \in Nat /\ c.size <= MaxSize
  BY ConfIs, BucketBounds
<1>2. FileOf(c) \in Seq(0 .. MaxSize) /\ Len(FileOf(c)) = c.size
  BY <1>1, BucketBounds DEF FileOf
<1>3. \A j \in 1 .. c.size : FileOf(c)[j] = j
  BY DEF FileOf
<1>4. D!Marker \in Seq(0 .. MaxSize) /\ Len(D!Marker) = 1 /\ D!Marker[1] = 0
  BY BucketBounds DEF D!Marker
<1>5. ASSUME FileOf(c) = D!Marker PROVE FALSE
  <2>1. c.size = 1
    BY <1>2, <1>4, <1>5
  <2>2. FileOf(c)[1] = 1
    BY <1>3, <2>1
  <2> QED BY <1>4, <1>5, <2>2
<1> QED BY <1>2, <1>3, <1>4, <1>5

\* The one object there is
LEMMA OnlyOne ==
  ASSUME NEW c, NEW i \in 0 .. MaxIds, NEW b \in Seq(0 .. MaxSize),
         c.kind = "s3" => b = FileOf(c), ~c.versioned
  PROVE  /\ Stock(c, {[id |-> D!Null, body |-> b]}, i)
         /\ Latest({[id |-> D!Null, body |-> b]}).body = b
         /\ BodyOf({[id |-> D!Null, body |-> b]}) = b
<1> DEFINE n == [id |-> D!Null, body |-> b]
<1>1. IsFiniteSet({n})
  BY FS_Singleton
<1>2. n.id = 0 /\ n.body = b
  BY DEF D!Null
<1> HIDE DEF n
<1>3. Latest({n}) = n
  BY <1>2 DEF Latest
<1>4. Stock(c, {n}, i)
  BY <1>1, <1>2, BucketBounds DEF Stock, D!Null
<1>5. BodyOf({n}) = b
  BY <1>2, <1>3 DEF BodyOf
<1> QED BY <1>2, <1>3, <1>4, <1>5 DEF n

\* More ids than objects
LEMMA MoreIds ==
  ASSUME NEW c, NEW V, NEW i \in Nat, Stock(c, V, i)
  PROVE  Stock(c, V, i + 1)
<1>1. \A v \in V : c.versioned => v.id \in 1 .. i + 1
  BY DEF Stock
<1> QED BY <1>1 DEF Stock

\* Fewer objects
LEMMA FewerObjects ==
  ASSUME NEW c, NEW V, NEW i, Stock(c, V, i), NEW W, W \subseteq V
  PROVE  Stock(c, W, i)
BY FS_Subset DEF Stock

\* The last of one object at most
LEMMA LatestOfOne ==
  ASSUME NEW c, NEW V, NEW i, Stock(c, V, i), ~c.versioned, V # {}
  PROVE  Latest(V) \in V
<1>1. PICK v \in V : TRUE
  OBVIOUS
<1>2. V = {v}
  BY DEF Stock
<1>3. v.id <= v.id
  BY DEF Stock
<1> QED BY <1>2, <1>3 DEF Latest

\* Multipart uploads are still attended.
LEMMA StillAttended ==
  ASSUME NEW O, NEW T \in [Callers -> Errand], NEW ex, Attended(O, T, ex),
         NEW t \in Callers, NEW r \in Errand, NEW O2, NEW ex2,
         \A u \in O2 : \E w \in O : w.id = u.id,
         ex => ex2 \/ O2 = {},
         T[t].op = "upload" /\ T[t].at \in {"part", "complete", "abort"} /\ ~ex2 =>
           \/ r.op = "upload" /\ r.id = T[t].id /\ r.at \in {"part", "complete", "abort"}
           \/ \A u \in O2 : u.id # T[t].id
  PROVE  Attended(O2, [T EXCEPT ![t] = r], ex2)
<1> DEFINE T2 == [T EXCEPT ![t] = r]
<1>0. T2[t] = r /\ \A s \in Callers \ {t} : T2[s] = T[s]
  OBVIOUS
<1> HIDE DEF T2
<1> SUFFICES ASSUME ~ex2, NEW u \in O2
             PROVE  \E s \in Callers : T2[s].op = "upload" /\ T2[s].id = u.id
                                      /\ T2[s].at \in {"part", "complete", "abort"}
  BY DEF Attended, T2
<1>1. ~ex
  OBVIOUS
<1>2. PICK w \in O : w.id = u.id
  OBVIOUS
<1>3. PICK s \in Callers : T[s].op = "upload" /\ T[s].id = u.id /\ T[s].at \in {"part", "complete", "abort"}
  BY <1>1, <1>2 DEF Attended
<1>4. CASE s = t
  BY <1>0, <1>3, <1>4
<1>5. CASE s # t
  BY <1>0, <1>3, <1>5
<1> QED BY <1>4, <1>5

\* A step of one task on S3
LEMMA S3Moves ==
  ASSUME NEW c, NEW V, NEW O, NEW i, NEW T, NEW ex, DestInv(c, V, O, i, T, ex),
         NEW V2, NEW O2, NEW i2, NEW ex2, NEW t \in Callers, NEW r \in Errand,
         c.kind = "s3", T[t].op # "none", r.op = T[t].op, r.alone = T[t].alone,
         <<r.op, r.at>> \in S3Places,
         Setting(c, O2, i2, ex2), Stock(c, V2, i2), Attended(O2, [T EXCEPT ![t] = r], ex2),
         Comes(r, c, V2, O2)
  PROVE  DestInv(c, V2, O2, i2, [T EXCEPT ![t] = r], ex2)
<1>1. T[t] # D!Idle /\ <<r.op, r.at>> \in Places(c)
  BY DEF D!Idle, Places
<1>2. Resumes(c, V2, O2, [T EXCEPT ![t] = r], ex2)
  BY DEF Resumes
<1> QED BY <1>1, <1>2, GoesOn DEF DestInv

\* One that changes nothing but the task
LEMMA S3Waits ==
  ASSUME NEW c, NEW V, NEW O, NEW i, NEW T, NEW ex, DestInv(c, V, O, i, T, ex),
         NEW t \in Callers, NEW r \in Errand, NEW ex2 \in BOOLEAN, ex => ex2 \/ O = {},
         c.kind = "s3", T[t].op # "none", r.op = T[t].op, r.alone = T[t].alone,
         <<r.op, r.at>> \in S3Places, T[t].op # "upload", Comes(r, c, V, O)
  PROVE  DestInv(c, V, O, i, [T EXCEPT ![t] = r], ex2)
<1>0. T \in [Callers -> Errand] /\ Attended(O, T, ex) /\ \A u \in O : \E w \in O : w.id = u.id
  BY DEF DestInv, Crew
<1>1. Attended(O, [T EXCEPT ![t] = r], ex2)
  BY <1>0, StillAttended
<1>2. Setting(c, O, i, ex2)
  BY DEF DestInv, Setting
<1> QED BY <1>1, <1>2, S3Moves DEF DestInv

\* What a step of a task leaves of its record
StepNames ==
  {"none", "create", "put", "part", "complete", "abort", "ok", "failed", "list", "each", "again",
   "head", "plain", "uploads", "aborts", "size", "send", "remove"}
\* A task's record with another step, count of tries or list is one still.
LEMMA AtStep ==
  ASSUME NEW x \in Errand, NEW s \in StepNames
  PROVE  LET r == [x EXCEPT !.at = s]
         IN /\ r \in Errand /\ r.at = s /\ r.op = x.op /\ r.id = x.id /\ r.part = x.part
            /\ r.tries = x.tries /\ r.mark = x.mark /\ r.found = x.found /\ r.alone = x.alone
            /\ r.misled = x.misled
BY DEF Errand, StepNames
LEMMA AtTries ==
  ASSUME NEW x \in Errand, NEW s \in StepNames, NEW n \in Nat, NEW p \in Nat
  PROVE  LET r == [x EXCEPT !.at = s, !.tries = n, !.part = p]
         IN /\ r \in Errand /\ r.at = s /\ r.op = x.op /\ r.id = x.id /\ r.part = p
            /\ r.tries = n /\ r.mark = x.mark /\ r.found = x.found /\ r.alone = x.alone
BY DEF Errand, StepNames
LEMMA AtFound ==
  ASSUME NEW x \in Errand, NEW s \in StepNames, NEW n \in 0 .. MaxIds, NEW F \in SUBSET (0 .. MaxIds)
  PROVE  LET r == [x EXCEPT !.at = s, !.found = F, !.mark = n]
         IN /\ r \in Errand /\ r.at = s /\ r.op = x.op /\ r.id = x.id /\ r.part = x.part
            /\ r.tries = x.tries /\ r.mark = n /\ r.found = F /\ r.alone = x.alone
BY DEF Errand, StepNames

-----------------------------------------------------------------------------
(***************************************************************************)
(* The invariant as it is, and after a step                                *)
(***************************************************************************)
Here == DestInv(conf, versions, open, ids, errand, excused)
There == DestInv(conf', versions', open', ids', errand', excused')

\* A task that is at work, on S3
LEMMA AtWork ==
  ASSUME Here, NEW t \in Callers, conf.kind = "s3"
  PROVE  /\ errand[t] \in Errand /\ <<errand[t].op, errand[t].at>> \in S3Places
         /\ errand \in [Callers -> Errand] /\ Comes(errand[t], conf, versions, open)
         /\ conf \in D!Confs /\ ids \in 0 .. MaxIds /\ excused \in BOOLEAN
         /\ Attended(open, errand, excused) /\ Stock(conf, versions, ids)
BY DEF Here, DestInv, Crew, Places, Setting

\* An object or a delete marker is stored.
LEMMA StoresWell ==
  ASSUME Here, NEW b, b = D!File \/ (conf.versioned /\ b = D!Marker), conf.kind = "s3",
         D!Stored(b)
  PROVE  /\ Stock(conf, versions', ids') /\ ids' \in 0 .. MaxIds /\ ids <= ids'
         /\ versions' # {} /\ Latest(versions').body = b
<1>1. conf \in D!Confs /\ ids \in 0 .. MaxIds /\ Stock(conf, versions, ids)
  BY DEF Here, DestInv, Setting
<1>2. b \in Seq(0 .. MaxSize) /\ (b = FileOf(conf) \/ (conf.versioned /\ b = D!Marker))
  BY <1>1, FileIs DEF D!File, FileOf
<1>3. CASE conf.versioned
  <2>1. ids < MaxIds /\ ids' = ids + 1 /\ versions' = versions \cup {[id |-> ids + 1, body |-> b]}
    BY <1>3 DEF D!Stored
  <2>2. ids' \in 0 .. MaxIds /\ ids <= ids'
    BY <1>1, <2>1, BucketBounds
  <2>3. ids < MaxIds /\ (conf.kind = "s3" => b = FileOf(conf) \/ b = D!Marker)
    BY <1>2, <2>1
  <2>4. /\ Stock(conf, versions \cup {[id |-> ids + 1, body |-> b]}, ids + 1)
        /\ Latest(versions \cup {[id |-> ids + 1, body |-> b]}).body = b
    BY <1>1, <1>2, <1>3, <2>3, OneMore
  <2>5. versions' # {}
    BY <2>1
  <2> QED BY <2>1, <2>2, <2>4, <2>5
<1>4. CASE ~conf.versioned
  <2>1. ids' = ids /\ versions' = {[id |-> D!Null, body |-> b]}
    BY <1>4 DEF D!Stored
  <2> QED BY <1>1, <1>2, <1>4, <2>1, OnlyOne
<1> QED BY <1>3, <1>4

\* A deletion without a version id
LEMMA DeletesPlainly ==
  ASSUME Here, conf.kind = "s3", D!PlainDeleted
  PROVE  /\ Stock(conf, versions', ids') /\ ids' \in 0 .. MaxIds /\ ids <= ids'
         /\ ~conf.versioned => versions' = {}
<1>1. CASE conf.versioned
  BY <1>1, StoresWell DEF D!PlainDeleted
<1>2. CASE ~conf.versioned
  <2>1. versions' = {} /\ ids' = ids
    BY <1>2 DEF D!PlainDeleted
  <2> QED BY <2>1, FewerObjects DEF Here, DestInv, Setting
<1> QED BY <1>1, <1>2

\* What stays, when more ids are given out
LEMMA SettingStays ==
  ASSUME Here, ids' \in 0 .. MaxIds, excused' \in BOOLEAN, Uploads(open', ids')
  PROVE  Setting(conf, open', ids', excused')
BY DEF Here, DestInv, Setting

LEMMA UploadsStay ==
  ASSUME Here, ids' \in 0 .. MaxIds, ids <= ids', NEW O, O \subseteq open
  PROVE  Uploads(O, ids')
<1>1. Uploads(open, ids) /\ ids \in 0 .. MaxIds
  BY DEF Here, DestInv, Setting
<1>2. \A u \in O : u.id \in Nat /\ u.id <= ids
  BY <1>1 DEF Uploads
<1>3. \A u \in O : u.id <= ids'
  BY <1>1, <1>2
<1> QED BY <1>1, <1>3 DEF Uploads

-----------------------------------------------------------------------------
(***************************************************************************)
(* S3: upload                                                              *)
(***************************************************************************)
\* One PUT stores the file or, lost, nothing.
LEMMA PutObjectKeeps ==
  ASSUME Here, NEW t \in Callers, NEW done \in BOOLEAN, NEW ok \in BOOLEAN,
         D!PutObject(t, done, ok), conf.kind = "s3"
  PROVE  There
<1> DEFINE r == [errand[t] EXCEPT !.at = IF ok THEN "ok" ELSE "failed"]
<1>1. /\ errand[t].op = "upload" /\ errand[t].at = "put" /\ (ok => done)
      /\ errand' = [errand EXCEPT ![t] = r] /\ conf' = conf /\ open' = open /\ excused' = excused
      /\ IF done THEN D!Stored(D!File) ELSE versions' = versions /\ ids' = ids
  BY DEF D!PutObject, D!At, D!Go, D!Set
<1>2. /\ r \in Errand /\ r.op = "upload" /\ r.alone = errand[t].alone
      /\ r.at = IF ok THEN "ok" ELSE "failed"
  BY <1>1, AtWork DEF Errand
<1> HIDE DEF r
<1>3. Stock(conf, versions', ids') /\ ids' \in 0 .. MaxIds /\ ids <= ids' /\ (ok => versions' # {} /\ Latest(versions').body = FileOf(conf))
  <2>1. D!File = FileOf(conf)
    BY DEF D!File, FileOf
  <2>2. CASE done
    BY <1>1, <2>1, <2>2, StoresWell
  <2>3. CASE ~done
    <3>1. Stock(conf, versions, ids) /\ ids \in 0 .. MaxIds
      BY AtWork
    <3> QED BY <1>1, <2>3, <3>1
  <2> QED BY <2>2, <2>3
<1>4. Setting(conf, open', ids', excused')
  BY <1>1, <1>3, UploadsStay, SettingStays, AtWork
<1>5. Attended(open', errand', excused')
  BY <1>1, <1>2, StillAttended, AtWork
<1>6. Comes(r, conf, versions', open')
  BY <1>2, <1>3 DEF Comes, Stands, Clears, Aborts
<1>7. <<r.op, r.at>> \in S3Places
  BY <1>2 DEF S3Places
<1> QED BY <1>1, <1>2, <1>3, <1>4, <1>5, <1>6, <1>7, S3Moves DEF Here, There

\* The id of a multipart upload is new.
LEMMA CreateMultipartKeeps ==
  ASSUME Here, NEW t \in Callers, NEW done \in BOOLEAN, NEW ok \in BOOLEAN,
         D!CreateMultipart(t, done, ok), conf.kind = "s3"
  PROVE  There
<1> DEFINE step == IF ok THEN "part" ELSE "failed"
           own == IF ok THEN ids' ELSE 0
           r == [errand[t] EXCEPT !.at = step, !.id = own, !.part = 1]
           n == [id |-> ids + 1, got |-> {}]
<1>1. /\ errand[t].op = "upload" /\ errand[t].at = "create" /\ (ok => done)
      /\ errand' = [errand EXCEPT ![t] = r] /\ conf' = conf /\ versions' = versions
      /\ excused' = (excused \/ (done /\ ~ok))
      /\ IF done THEN ids < MaxIds /\ ids' = ids + 1 /\ open' = open \cup {n}
                 ELSE open' = open /\ ids' = ids
  BY DEF D!CreateMultipart, D!At, D!Set
<1>0. ids \in 0 .. MaxIds /\ MaxIds \in Nat /\ errand[t] \in Errand
  BY AtWork, BucketBounds
<1>2. ids' \in 0 .. MaxIds /\ (done => ids + 1 \in 1 .. MaxIds)
  <2>1. CASE done
    BY <1>0, <1>1, <2>1
  <2>2. CASE ~done
    BY <1>0, <1>1, <2>2
  <2> QED BY <2>1, <2>2
<1>3. /\ r \in Errand /\ r.op = "upload" /\ r.alone = errand[t].alone
      /\ r.at = (IF ok THEN "part" ELSE "failed") /\ (ok => r.id = ids + 1)
  <2>1. step \in {"part", "failed"} /\ own \in 0 .. MaxIds /\ (ok => own = ids + 1)
    BY <1>0, <1>1, <1>2
  <2>2. step = IF ok THEN "part" ELSE "failed"
    OBVIOUS
  <2> HIDE DEF step, own
  <2>3. r \in Errand
    BY <1>0, <2>1 DEF Errand
  <2>4. r.op = errand[t].op /\ r.alone = errand[t].alone /\ r.at = step /\ r.id = own
    BY <1>0 DEF Errand
  <2> QED BY <1>1, <2>1, <2>2, <2>3, <2>4
<1> HIDE DEF r
<1>4. Uploads(open', ids')
  <2>1. Uploads(open, ids)
    BY DEF Here, DestInv, Setting
  <2>2. CASE done
    <3>1. n.id = ids + 1 /\ n \in [id : 1 .. MaxIds, got : SUBSET Nat]
      BY <1>2, <2>2
    <3>2. \A u \in open : u.id \in 1 .. MaxIds /\ u.id <= ids
      BY <2>1 DEF Uploads
    <3>3. ids' = ids + 1 /\ open' = open \cup {n}
      BY <1>1, <2>2
    <3> HIDE DEF n
    <3>4. \A u \in open' : u.id <= ids'
      BY <1>0, <3>1, <3>2, <3>3
    <3>5. \A u \in open : u.id # n.id
      BY <1>0, <3>1, <3>2
    <3> QED BY <2>1, <3>1, <3>3, <3>4, <3>5 DEF Uploads
  <2>3. CASE ~done
    BY <1>1, <2>1, <2>3
  <2> QED BY <2>2, <2>3
<1>5. Setting(conf, open', ids', excused')
  BY <1>1, <1>2, <1>4, SettingStays, AtWork
<1>6. Stock(conf, versions', ids')
  <2>1. Stock(conf, versions, ids) /\ Stock(conf, versions, ids + 1)
    <3>1. Stock(conf, versions, ids)
      BY AtWork
    <3>2. ids \in Nat
      BY <1>0
    <3> QED BY <3>1, <3>2, MoreIds
  <2>2. ids' = ids \/ ids' = ids + 1
    BY <1>1
  <2> QED BY <1>1, <2>1, <2>2
<1>7. Attended(open', errand', excused')
  <2> SUFFICES ASSUME ~excused', NEW u \in open'
               PROVE  \E s \in Callers : errand'[s].op = "upload" /\ errand'[s].id = u.id
                                        /\ errand'[s].at \in {"part", "complete", "abort"}
    BY DEF Attended
  <2>1. CASE u \in open
    <3>1. PICK s \in Callers : errand[s].op = "upload" /\ errand[s].id = u.id
                             /\ errand[s].at \in {"part", "complete", "abort"}
      BY <1>1, <2>1, AtWork DEF Attended
    <3>2. s # t /\ errand'[s] = errand[s]
      BY <1>1, <3>1, AtWork
    <3> QED BY <3>1, <3>2
  <2>2. CASE done /\ u = n
    <3>1. errand'[t] = r /\ r.at = "part" /\ r.id = u.id
      BY <1>1, <1>3, <2>2, AtWork
    <3> QED BY <1>3, <3>1
  <2> QED BY <1>1, <2>1, <2>2
<1>8. Comes(r, conf, versions', open')
  BY <1>3 DEF Comes, Stands, Clears, Aborts
<1>9. <<r.op, r.at>> \in S3Places
  BY <1>3 DEF S3Places
<1> QED BY <1>1, <1>3, <1>5, <1>6, <1>7, <1>8, <1>9, S3Moves DEF Here, There

\* The lesser of two numbers
LEMMA LessOfTwo ==
  ASSUME NEW a \in Int, NEW b \in Int
  PROVE  D!Min({a, b}) = IF a <= b THEN a ELSE b
<1>1. \E x \in {a, b} : \A y \in {a, b} : x <= y
  OBVIOUS
<1>2. D!Min({a, b}) \in {a, b} /\ \A y \in {a, b} : D!Min({a, b}) <= y
  BY <1>1 DEF D!Min
<1> QED BY <1>2

\* The elements of a part of a sequence
LEMMA SubSeqAt ==
  ASSUME NEW f \in Seq(Nat), NEW a \in Nat \ {0}, NEW b \in Nat, b <= Len(f), NEW j \in 1 .. b - a + 1
  PROVE  SubSeq(f, a, b)[j] = f[a + j - 1]
OBVIOUS

\* The parts of an upload make the file.
LEMMA PartsMakeTheFile ==
  ASSUME conf \in D!Confs, conf.size <= conf.part + 1
  PROVE  [i \in 1 .. conf.size |->
            LET p == (i - 1) \div conf.part + 1 IN D!PartOf(p)[i - D!Offset(p)]] = D!File
<1> DEFINE n == conf.size  k == conf.part
<1>1. n \in Nat /\ k \in Nat \ {0} /\ n <= k + 1
  BY ConfIs, BucketBounds
<1>2. D!File \in Seq(Nat) /\ Len(D!File) = n /\ \A i \in 1 .. n : D!File[i] = i
  BY <1>1 DEF D!File
<1>3. ASSUME NEW i \in 1 .. n
      PROVE  (LET p == (i - 1) \div k + 1 IN D!PartOf(p)[i - D!Offset(p)]) = i
  <2>1. CASE i <= k
    <3>1. (i - 1) \div k = 0
      BY <1>1, <2>1
    <3>2. D!Offset(1) = 0
      BY <1>1 DEF D!Offset
    <3>3. PICK m \in Nat : m <= n /\ i <= m /\ D!PartOf(1) = SubSeq(D!File, 1, m)
      <4> DEFINE l == IF k <= n THEN k ELSE n
      <4>1. D!Min({k, n}) = l
        BY <1>1, LessOfTwo
      <4>2. 0 + k = k /\ 0 + 1 = 1
        BY <1>1
      <4>3. D!PartOf(1) = SubSeq(D!File, 1, l)
        BY <3>2, <4>1, <4>2 DEF D!PartOf
      <4>4. l \in Nat /\ l <= n /\ i <= l
        BY <1>1, <2>1
      <4> HIDE DEF l
      <4> QED BY <4>3, <4>4
    <3>4. D!PartOf(1)[i] = D!File[i]
      BY <1>2, <3>3, SubSeqAt
    <3>4a. D!PartOf(1)[i] = i
      BY <1>2, <3>4
    <3> QED BY <3>1, <3>2, <3>4a
  <2>2. CASE i > k
    <3>1. i = k + 1 /\ n = k + 1
      BY <1>1, <2>2
    <3>2. (i - 1) \div k = 1
      BY <1>1, <3>1
    <3>3. D!Offset(2) = k
      BY <1>1 DEF D!Offset
    <3>4. D!PartOf(2) = SubSeq(D!File, k + 1, n)
      BY <1>1, <3>1, <3>3, LessOfTwo DEF D!PartOf
    <3>5. D!PartOf(2)[1] = D!File[k + 1]
      <4> DEFINE a == k + 1
      <4>1. a \in Nat \ {0} /\ n \in Nat /\ n <= Len(D!File) /\ 1 \in 1 .. n - a + 1
        BY <1>1, <1>2, <3>1
      <4>2. a + 1 - 1 = a
        BY <1>1
      <4> HIDE DEF a
      <4>3. SubSeq(D!File, a, n)[1] = D!File[a + 1 - 1]
        BY <1>2, <4>1, SubSeqAt
      <4> QED BY <3>4, <4>2, <4>3 DEF a
    <3>6. D!File[k + 1] = k + 1
      BY <1>1, <1>2, <3>1
    <3>7. (i - 1) \div k + 1 = 2 /\ i - D!Offset(2) = 1
      BY <1>1, <3>1, <3>2, <3>3
    <3> QED BY <3>1, <3>5, <3>6, <3>7
  <2> QED BY <1>1, <2>1, <2>2
<1> QED BY <1>3 DEF D!File

\* A part sent twice is there once.
LEMMA UploadPartKeeps ==
  ASSUME Here, NEW t \in Callers, NEW done \in BOOLEAN, NEW ok \in BOOLEAN,
         D!UploadPart(t, done, ok), conf.kind = "s3"
  PROVE  There
<1> DEFINE up == {u \in open : u.id = errand[t].id}
<1>0. errand[t] \in Errand /\ errand[t].part \in Nat /\ errand[t].tries + 1 \in Nat /\ errand[t].part + 1 \in Nat
  <2>1. errand[t] \in Errand
    BY AtWork
  <2> QED BY <2>1 DEF Errand
<1>1. /\ errand[t].op = "upload" /\ errand[t].at = "part"
      /\ conf' = conf /\ versions' = versions /\ ids' = ids /\ excused' = excused
      /\ open' = IF done THEN (open \ up) \cup {[u EXCEPT !.got = @ \cup {errand[t].part}] : u \in up}
                 ELSE open
  BY DEF D!UploadPart, D!At
<1>2. PICK r \in Errand :
        /\ errand' = [errand EXCEPT ![t] = r]
        /\ r.op = errand[t].op /\ r.alone = errand[t].alone /\ r.id = errand[t].id
        /\ r.at \in {"part", "complete", "abort"}
  <2> DEFINE x == errand[t]
             a == [x EXCEPT !.at = "complete", !.tries = 0]
             b == [x EXCEPT !.part = @ + 1, !.tries = 0]
             c == [x EXCEPT !.tries = x.tries + 1]
             d == [x EXCEPT !.at = "abort", !.tries = 0]
             Fits(y) == y \in Errand /\ y.op = x.op /\ y.alone = x.alone /\ y.id = x.id
                        /\ y.at \in {"part", "complete", "abort"}
  <2>1. \E y \in {a, b, c, d} : errand' = [errand EXCEPT ![t] = y]
    BY DEF D!UploadPart, D!Set
  <2>2. Fits(a)
    BY <1>0, <1>1 DEF Errand
  <2>3. Fits(b)
    BY <1>0, <1>1 DEF Errand
  <2>4. Fits(c)
    BY <1>0, <1>1 DEF Errand
  <2>5. Fits(d)
    BY <1>0, <1>1 DEF Errand
  <2> HIDE DEF a, b, c, d
  <2> QED BY <2>1, <2>2, <2>3, <2>4, <2>5
<1>3. open \subseteq [id : 1 .. MaxIds, got : SUBSET Nat]
  BY DEF Here, DestInv, Setting, Uploads
<1>4. ASSUME NEW u \in open'
      PROVE  u \in [id : 1 .. MaxIds, got : SUBSET Nat] /\ \E w \in open : w.id = u.id
  <2>1. CASE u \in open
    BY <1>3, <2>1
  <2>2. CASE u \notin open
    <3>1. PICK w \in up : u = [w EXCEPT !.got = @ \cup {errand[t].part}]
      BY <1>1, <2>2
    <3>2. w \in open /\ w \in [id : 1 .. MaxIds, got : SUBSET Nat]
      BY <1>3
    <3> QED BY <1>0, <3>1, <3>2
  <2> QED BY <2>1, <2>2
<1>5. Setting(conf, open', ids', excused')
  <2>1. Uploads(open', ids')
    <3>1. Uploads(open, ids)
      BY DEF Here, DestInv, Setting
    <3>2. \A u, w \in up : u = w
      BY <3>1 DEF Uploads
    <3>3. \A u \in open' : u.id <= ids'
      BY <1>1, <1>4, <3>1 DEF Uploads
    <3>4. ASSUME NEW u \in open', NEW w \in open', u.id = w.id PROVE u = w
      <4>1. ASSUME NEW v \in open', done
            PROVE  \/ v \in open /\ v.id # errand[t].id
                   \/ v.id = errand[t].id /\ \E x \in up : v = [x EXCEPT !.got = @ \cup {errand[t].part}]
        <5>1. CASE v \in open \ up
          BY <5>1
        <5>2. CASE v \notin open \ up
          <6>1. PICK x \in up : v = [x EXCEPT !.got = @ \cup {errand[t].part}]
            BY <1>1, <4>1, <5>2
          <6>2. x \in [id : 1 .. MaxIds, got : SUBSET Nat]
            BY <1>3
          <6> QED BY <6>1, <6>2
        <5> QED BY <5>1, <5>2
      <4>2. CASE done
        <5>1. \A v \in {u, w} :
                \/ v \in open /\ v.id # errand[t].id
                \/ v.id = errand[t].id /\ \E x \in up : v = [x EXCEPT !.got = @ \cup {errand[t].part}]
          BY <3>4, <4>1, <4>2
        <5> HIDE DEF up
        <5>2. CASE u.id # errand[t].id
          BY <3>1, <3>4, <5>1, <5>2 DEF Uploads
        <5>3. CASE u.id = errand[t].id
          BY <3>2, <3>4, <5>1, <5>3
        <5> QED BY <5>2, <5>3
      <4>3. CASE ~done
        BY <1>1, <3>1, <3>4, <4>3 DEF Uploads
      <4> QED BY <4>2, <4>3
    <3> QED BY <1>4, <3>3, <3>4 DEF Uploads
  <2> QED BY <1>1, <2>1, SettingStays, AtWork
<1>6. Attended(open', errand', excused')
  <2>1. errand \in [Callers -> Errand] /\ Attended(open, errand, excused)
    BY AtWork
  <2>2. \A u \in open' : \E w \in open : w.id = u.id
    BY <1>4
  <2> HIDE DEF up
  <2>3. r \in Errand /\ (excused => excused' \/ open' = {})
    BY <1>1, <1>2
  <2>4. r.op = "upload" /\ r.id = errand[t].id /\ r.at \in {"part", "complete", "abort"}
    BY <1>1, <1>2
  <2>5. Attended(open', [errand EXCEPT ![t] = r], excused')
    BY <2>1, <2>2, <2>3, <2>4, StillAttended
  <2> QED BY <1>2, <2>5
<1>7. Comes(r, conf, versions', open')
  BY <1>1, <1>2 DEF Comes, Stands, Clears, Aborts
<1>8. <<r.op, r.at>> \in S3Places
  BY <1>1, <1>2 DEF S3Places
<1>9. Stock(conf, versions', ids')
  BY <1>1, AtWork
<1> QED BY <1>1, <1>2, <1>5, <1>6, <1>7, <1>8, <1>9, S3Moves DEF Here, There

\* Completed, the object is the file: every part has been answered.
LEMMA CompleteMultipartKeeps ==
  ASSUME Here, NEW t \in Callers, NEW done \in BOOLEAN, NEW told,
         D!CompleteMultipart(t, done, told), conf.kind = "s3"
  PROVE  There
<1> DEFINE step == IF D!Answer(told) THEN "ok" ELSE "abort"
           r == [errand[t] EXCEPT !.at = step]
<1>1. /\ errand[t].op = "upload" /\ errand[t].at = "complete" /\ (D!Answer(told) => done)
      /\ errand' = [errand EXCEPT ![t] = r] /\ conf' = conf /\ excused' = excused
  BY DEF D!CompleteMultipart, D!At, D!Go, D!Set, D!Answer
<1>2. /\ done => open' = {u \in open : u.id # errand[t].id} /\ D!Stored(D!File)
      /\ ~done => open' = open /\ versions' = versions /\ ids' = ids
  <2>1. ASSUME done PROVE open' = {u \in open : u.id # errand[t].id} /\ D!Stored(D!File)
    <3>1. D!Stored([i \in 1 .. conf.size |->
                    LET p == (i - 1) \div conf.part + 1 IN D!PartOf(p)[i - D!Offset(p)]])
      BY <2>1 DEF D!CompleteMultipart
    <3>2. conf \in D!Confs /\ conf.size <= conf.part + 1
      BY DEF Here, DestInv, Setting
    <3>3. open' = open \ {u \in open : u.id = errand[t].id /\ 1 .. D!LastPart \subseteq u.got}
      BY <2>1 DEF D!CompleteMultipart
    <3>4. PICK y \in open : y.id = errand[t].id /\ 1 .. D!LastPart \subseteq y.got
      BY <2>1 DEF D!CompleteMultipart
    <3>5. \A u \in open : u.id = errand[t].id => u = y
      BY <3>4 DEF Here, DestInv, Setting, Uploads
    <3>6. open' = {u \in open : u.id # errand[t].id}
      BY <3>3, <3>4, <3>5
    <3> QED BY <3>1, <3>2, <3>6, PartsMakeTheFile
  <2>2. ~done => open' = open /\ versions' = versions /\ ids' = ids
    BY DEF D!CompleteMultipart, D!store
  <2> QED BY <2>1, <2>2
<1>3. /\ r \in Errand /\ r.op = "upload" /\ r.alone = errand[t].alone /\ r.id = errand[t].id
      /\ r.at = IF D!Answer(told) THEN "ok" ELSE "abort"
  <2>1. step \in {"ok", "abort"} /\ errand[t] \in Errand
    BY AtWork
  <2>3. step \in StepNames
    BY DEF StepNames
  <2> HIDE DEF step
  <2>2. r \in Errand /\ r.at = step /\ r.op = errand[t].op /\ r.alone = errand[t].alone /\ r.id = errand[t].id
    BY <2>1, <2>3, AtStep
  <2> QED BY <1>1, <2>2 DEF step
<1> HIDE DEF r
<1>4. /\ Stock(conf, versions', ids') /\ ids' \in 0 .. MaxIds /\ ids <= ids'
      /\ D!Answer(told) => versions' # {} /\ Latest(versions').body = FileOf(conf)
  <2>1. D!File = FileOf(conf)
    BY DEF D!File, FileOf
  <2>2. CASE done
    BY <1>1, <1>2, <2>1, <2>2, StoresWell
  <2>3. CASE ~done
    <3>1. Stock(conf, versions, ids) /\ ids \in 0 .. MaxIds
      BY AtWork
    <3> QED BY <1>1, <1>2, <2>3, <3>1
  <2> QED BY <2>2, <2>3
<1>5. Setting(conf, open', ids', excused')
  <2>1. open' \subseteq open
    BY <1>2
  <2>2. excused' \in BOOLEAN
    BY <1>1, AtWork
  <2> QED BY <1>4, <2>1, <2>2, UploadsStay, SettingStays
<1>6. Attended(open', errand', excused')
  <2>1. errand \in [Callers -> Errand] /\ Attended(open, errand, excused)
    BY AtWork
  <2>2. \A u \in open' : \E w \in open : w.id = u.id
    BY <1>2
  <2>3. r.at \in {"part", "complete", "abort"} \/ \A u \in open' : u.id # errand[t].id
    BY <1>1, <1>2, <1>3
  <2>4. r \in Errand /\ r.op = "upload" /\ r.id = errand[t].id /\ (excused => excused' \/ open' = {})
    BY <1>1, <1>3
  <2>5. Attended(open', [errand EXCEPT ![t] = r], excused')
    BY <2>1, <2>2, <2>3, <2>4, StillAttended
  <2> QED BY <1>1, <2>5
<1>7. Comes(r, conf, versions', open')
  BY <1>3, <1>4 DEF Comes, Stands, Clears, Aborts
<1>8. <<r.op, r.at>> \in S3Places
  BY <1>3 DEF S3Places
<1> QED BY <1>1, <1>3, <1>4, <1>5, <1>6, <1>7, <1>8, S3Moves DEF Here, There

\* Only a lost answer excuses what an abort leaves.
LEMMA AbortKeeps ==
  ASSUME Here, NEW t \in Callers, NEW done \in BOOLEAN, D!Abort(t, done), conf.kind = "s3"
  PROVE  There
<1> DEFINE r == [errand[t] EXCEPT !.at = "failed"]
<1>1. /\ errand[t].op = "upload" /\ errand[t].at = "abort"
      /\ open' = IF done THEN {u \in open : u.id # errand[t].id} ELSE open
      /\ errand' = [errand EXCEPT ![t] = r] /\ conf' = conf /\ versions' = versions /\ ids' = ids
      /\ excused' = (excused \/ ~done)
  BY DEF D!Abort, D!At, D!Go, D!Set
<1>2. r \in Errand /\ r.op = "upload" /\ r.alone = errand[t].alone /\ r.at = "failed"
  <2>1. errand[t] \in Errand
    BY AtWork
  <2>2. "failed" \in StepNames
    BY DEF StepNames
  <2>3. r \in Errand /\ r.at = "failed" /\ r.op = errand[t].op /\ r.alone = errand[t].alone
    BY <2>1, <2>2, AtStep
  <2> QED BY <1>1, <2>3
<1> HIDE DEF r
<1>3. errand \in [Callers -> Errand] /\ Attended(open, errand, excused) /\ ids \in 0 .. MaxIds
      /\ Stock(conf, versions, ids) /\ excused \in BOOLEAN
  BY AtWork
<1>4. Setting(conf, open', ids', excused')
  <2>1. open' \subseteq open /\ excused' \in BOOLEAN /\ ids <= ids'
    BY <1>1, <1>3
  <2> QED BY <1>1, <1>3, <2>1, UploadsStay, SettingStays
<1>5. Attended(open', errand', excused')
  <2>1. \A u \in open' : \E w \in open : w.id = u.id
    BY <1>1
  <2>2. ~excused' => \A u \in open' : u.id # errand[t].id
    BY <1>1
  <2>3. excused => excused' \/ open' = {}
    BY <1>1
  <2>4. Attended(open', [errand EXCEPT ![t] = r], excused')
    BY <1>2, <1>3, <2>1, <2>2, <2>3, StillAttended
  <2> QED BY <1>1, <2>4
<1>6. Comes(r, conf, versions', open')
  BY <1>2 DEF Comes, Stands, Clears, Aborts
<1>7. <<r.op, r.at>> \in S3Places
  BY <1>2 DEF S3Places
<1> QED BY <1>1, <1>2, <1>3, <1>4, <1>5, <1>6, <1>7, S3Moves DEF Here, There

-----------------------------------------------------------------------------
(***************************************************************************)
(* S3: deletion and the sweep                                              *)
(***************************************************************************)
\* A step of a deletion that changes the versions
LEMMA S3Deletes ==
  ASSUME Here, NEW t \in Callers, NEW r \in Errand, conf.kind = "s3", errand[t].op = "delete",
         r.op = "delete", r.alone = errand[t].alone, <<r.op, r.at>> \in S3Places,
         Stock(conf, versions', ids'), ids' \in 0 .. MaxIds, ids <= ids',
         Clears(r, conf, versions'),
         errand' = [errand EXCEPT ![t] = r], UNCHANGED <<conf, open, excused>>
  PROVE  There
<1>1. errand \in [Callers -> Errand] /\ Attended(open, errand, excused) /\ excused' \in BOOLEAN
  BY AtWork
<1>2. Setting(conf, open', ids', excused')
  <2>1. Uploads(open, ids')
    BY UploadsStay
  <2> QED BY <1>1, <2>1, SettingStays
<1>3. Attended(open', [errand EXCEPT ![t] = r], excused')
  <2>1. /\ \A u \in open' : \E w \in open : w.id = u.id
        /\ excused => excused' \/ open' = {}
        /\ errand[t].op # "upload"
    OBVIOUS
  <2> QED BY <1>1, <2>1, StillAttended
<1>4. Comes(r, conf, versions', open')
  BY DEF Comes, Stands, Aborts
<1>5. /\ DestInv(conf, versions, open, ids, errand, excused)
      /\ errand[t].op # "none" /\ r.op = errand[t].op
  BY DEF Here
<1>6. DestInv(conf, versions', open', ids', [errand EXCEPT ![t] = r], excused')
  BY <1>2, <1>3, <1>4, <1>5, S3Moves
<1> QED BY <1>6 DEF There

\* A step of a deletion that only asks
LEMMA S3Asks ==
  ASSUME Here, NEW t \in Callers, NEW r \in Errand, conf.kind = "s3", errand[t].op = "delete",
         r.op = "delete", r.alone = errand[t].alone, <<r.op, r.at>> \in S3Places,
         Clears(r, conf, versions),
         errand' = [errand EXCEPT ![t] = r], UNCHANGED <<conf, D!store, excused>>
  PROVE  There
<1>1. /\ versions' = versions /\ ids' = ids /\ open' = open /\ conf' = conf /\ excused' = excused
  BY DEF D!store
<1>0. Stock(conf, versions, ids) /\ ids \in 0 .. MaxIds
  BY AtWork
<1>2. Stock(conf, versions, ids) /\ ids \in 0 .. MaxIds /\ ids <= ids
  BY <1>0, BucketBounds
<1>3. Stock(conf, versions', ids') /\ ids' \in 0 .. MaxIds /\ ids <= ids'
  BY <1>1, <1>2
<1>4. Clears(r, conf, versions')
  BY <1>1
<1> QED BY <1>1, <1>3, <1>4, S3Deletes

\* The ids of the versions
LEMMA IdsAre ==
  ASSUME NEW c, NEW V, NEW i \in 0 .. MaxIds, Stock(c, V, i)
  PROVE  IdsOf(V) \subseteq 0 .. MaxIds /\ (c.versioned => D!Null \notin IdsOf(V))
BY BucketBounds DEF Stock, IdsOf, D!Null

\* A task's list of what it has not seen yet
LEMMA UnseenIs ==
  ASSUME Here, NEW t \in Callers, conf.kind = "s3"
  PROVE  /\ D!Unseen(t) \subseteq IdsOf(versions) /\ D!Unseen(t) \subseteq 0 .. MaxIds
         /\ conf.list # "omits" =>
              D!Unseen(t) = {v \in IdsOf(versions) : errand[t].mark = 0 \/ v < errand[t].mark}
         /\ conf.list = "omits" => D!Unseen(t) = {}
<1>1. D!VersionIds = IdsOf(versions) /\ IdsOf(versions) \subseteq 0 .. MaxIds
  BY AtWork, IdsAre DEF D!VersionIds, IdsOf
<1> QED BY <1>1 DEF D!Unseen, D!Listed

\* What a page leaves in the record of a task, in one
LEMMA PageRead ==
  ASSUME NEW x \in Errand, NEW v
  PROVE  /\ [x EXCEPT !.found = @ \cup {v}, !.mark = v]
              = [x EXCEPT !.at = x.at, !.found = x.found \cup {v}, !.mark = v]
         /\ [[x EXCEPT !.found = @ \cup {v}, !.mark = v]
                EXCEPT !.at = IF @ = "list" THEN "each" ELSE "failed"]
              = [x EXCEPT !.at = IF x.at = "list" THEN "each" ELSE "failed",
                          !.found = x.found \cup {v}, !.mark = v]
BY DEF Errand

\* A page has the greatest ids not seen yet.
LEMMA ListPageKeeps ==
  ASSUME Here, NEW t \in Callers, D!ListPage(t), conf.kind = "s3"
  PROVE  There
<1> DEFINE x == errand[t]
           U == D!Unseen(t)
           v == D!Max(U)
           step == IF v = D!Min(U) THEN IF x.at = "list" THEN "each" ELSE "failed" ELSE x.at
           r == [x EXCEPT !.at = step, !.found = x.found \cup {v}, !.mark = v]
<1>0. x \in Errand /\ Comes(x, conf, versions, open) /\ conf \in D!Confs /\ ids \in 0 .. MaxIds
      /\ Stock(conf, versions, ids)
  BY AtWork
<1>1. /\ x.op = "delete" /\ x.at \in {"list", "again"} /\ conf.list # "none" /\ U # {}
      /\ UNCHANGED <<conf, D!store, excused>>
  BY DEF D!ListPage
<1>2. errand' = [errand EXCEPT ![t] = r]
  <2> DEFINE more == [x EXCEPT !.found = @ \cup {v}, !.mark = v]
             y == IF v = D!Min(U) THEN [more EXCEPT !.at = IF @ = "list" THEN "each" ELSE "failed"] ELSE more
  <2>1. errand' = [errand EXCEPT ![t] = y]
    BY DEF D!ListPage, D!Set
  <2>2. y = r
    <3> HIDE DEF v
    <3>1. CASE v = D!Min(U)
      BY <1>0, <3>1, PageRead
    <3>2. CASE v # D!Min(U)
      BY <1>0, <3>2, PageRead
    <3> QED BY <3>1, <3>2
  <2> QED BY <2>1, <2>2
<1>3. conf.list = "all" /\ U \subseteq IdsOf(versions) /\ U \subseteq 0 .. MaxIds
      /\ U = {w \in IdsOf(versions) : x.mark = 0 \/ w < x.mark}
  BY <1>0, <1>1, ConfIs, UnseenIs
<1> HIDE DEF U
<1>4. /\ v \in U /\ \A w \in U : w <= v
      /\ D!Min(U) \in U /\ \A w \in U : D!Min(U) <= w
  BY <1>1, <1>3, GreatestId, LeastId
<1>5. v \in 0 .. MaxIds /\ v \in IdsOf(versions)
  BY <1>3, <1>4
<1>6. /\ step \in StepNames /\ (step = "each" <=> v = D!Min(U) /\ x.at = "list") /\ step \in {"each", "failed", "list", "again"}
      /\ (step = "list" => x.at = "list") /\ (step = "again" => x.at = "again")
  BY <1>1 DEF StepNames
<1> HIDE DEF v, step
<1>7. /\ r \in Errand /\ r.at = step /\ r.op = x.op /\ r.mark = v /\ r.found = x.found \cup {v}
      /\ r.alone = x.alone
  <2>1. x.found \cup {v} \in SUBSET (0 .. MaxIds)
    BY <1>0, <1>5 DEF Errand
  <2> HIDE DEF x
  <2> QED BY <1>0, <1>5, <1>6, <2>1 DEF Errand, StepNames
<1>8. conf.versioned => D!Null \notin r.found
  BY <1>0, <1>1, <1>5, <1>7, IdsAre DEF Comes, Clears
<1>9. ASSUME r.alone, x.at = "list", NEW w \in IdsOf(versions)
      PROVE  w \in x.found \/ (w \in U /\ w <= v)
  BY <1>0, <1>1, <1>3, <1>4, <1>7, <1>9 DEF Comes, Clears
<1>10. U \subseteq Int /\ v \in Int /\ D!Min(U) \in Int
  BY <1>3, <1>4, BucketBounds
<1>11. ASSUME r.alone, r.at = "list", NEW w \in IdsOf(versions)
       PROVE  w \in r.found \/ r.mark = 0 \/ w < r.mark
  BY <1>6, <1>7, <1>9, <1>10, <1>11
<1>12. ASSUME r.alone, r.at = "each" PROVE IdsOf(versions) \subseteq r.found
  <2>1. v = D!Min(U) /\ x.at = "list"
    BY <1>6, <1>7, <1>12
  <2>2. ASSUME NEW w \in IdsOf(versions) PROVE w \in r.found
    <3>1. CASE w \in x.found
      BY <1>7, <3>1
    <3>2. CASE w \in U /\ w <= v
      BY <1>4, <1>7, <1>10, <2>1, <3>2
    <3> QED BY <1>9, <1>12, <2>1, <3>1, <3>2
  <2> QED BY <2>2
<1>13. ASSUME r.alone, r.at = "again" PROVE FALSE
  <2>1. x.at = "again" /\ x.alone
    BY <1>6, <1>7, <1>13
  <2>2. versions = {}
    BY <1>0, <1>1, <2>1 DEF Comes, Clears
  <2> QED BY <1>5, <2>2 DEF IdsOf
<1>14. Clears(r, conf, versions)
  BY <1>3, <1>6, <1>7, <1>8, <1>11, <1>12, <1>13 DEF Clears
<1>15. <<r.op, r.at>> \in S3Places
  BY <1>1, <1>6, <1>7 DEF S3Places
<1> HIDE DEF r
<1> QED BY <1>1, <1>2, <1>7, <1>14, <1>15, S3Asks

\* A task goes to another step of its deletion, and all else stays.
LEMMA S3GoesTo ==
  ASSUME Here, NEW t \in Callers, NEW step \in StepNames, conf.kind = "s3",
         errand[t].op = "delete", <<"delete", step>> \in S3Places,
         \A r \in Errand : r.at = step /\ r.op = "delete" /\ r.found = errand[t].found
                            /\ r.mark = errand[t].mark /\ r.alone = errand[t].alone
                              => Clears(r, conf, versions),
         D!Go(t, step), UNCHANGED <<conf, D!store, excused>>
  PROVE  There
<1> DEFINE r == [errand[t] EXCEPT !.at = step]
<1>1. errand[t] \in Errand
  BY AtWork
<1>2. /\ r \in Errand /\ r.at = step /\ r.op = "delete" /\ r.found = errand[t].found
      /\ r.mark = errand[t].mark /\ r.alone = errand[t].alone
  BY <1>1, AtStep
<1>3. errand' = [errand EXCEPT ![t] = r]
  BY DEF D!Go, D!Set
<1> HIDE DEF r
<1>4. Clears(r, conf, versions) /\ <<r.op, r.at>> \in S3Places
  BY <1>2
<1> QED BY <1>2, <1>3, <1>4, S3Asks

\* What an unseen list that is empty says
LEMMA ListEndsKeeps ==
  ASSUME Here, NEW t \in Callers, D!ListEnds(t), conf.kind = "s3"
  PROVE  There
<1> DEFINE x == errand[t]
           step == IF conf.list = "none" THEN (IF x.at = "list" THEN "plain" ELSE "ok")
                   ELSE IF x.at = "list" THEN (IF x.found = {} THEN "head" ELSE "each")
                   ELSE IF x.found = {} THEN "ok" ELSE "failed"
<1>0. x \in Errand /\ Comes(x, conf, versions, open) /\ conf \in D!Confs /\ ids \in 0 .. MaxIds
      /\ Stock(conf, versions, ids)
  BY AtWork
<1>1. /\ x.op = "delete" /\ x.at \in {"list", "again"} /\ (conf.list = "none" \/ D!Unseen(t) = {})
      /\ UNCHANGED <<conf, D!store, excused>> /\ D!Go(t, step)
  BY DEF D!ListEnds
<1>2. step \in StepNames /\ <<"delete", step>> \in S3Places
  BY DEF StepNames, S3Places
<1>3. conf.list # "all" => ~conf.versioned
  BY <1>0, ConfIs
<1>4. ASSUME conf.list = "all", NEW v \in IdsOf(versions)
      PROVE  ~(x.mark = 0 \/ v < x.mark)
  BY <1>1, <1>4, UnseenIs
<1>5. Clears(x, conf, versions)
  BY <1>0 DEF Comes
<1>6. conf.list = "all" /\ x.at = "list" /\ x.alone => IdsOf(versions) \subseteq x.found
  BY <1>1, <1>4, <1>5 DEF Clears
<1>7. conf.list = "all" /\ x.at = "list" /\ x.alone /\ x.found = {} => versions = {}
  BY <1>6 DEF IdsOf
<1>8. conf.list \in {"all", "omits", "none"}
  BY <1>0, ConfIs
<1>9. ASSUME NEW r \in Errand, r.at = step, r.op = "delete", r.found = x.found, r.mark = x.mark,
             r.alone = x.alone
      PROVE  Clears(r, conf, versions)
  <2>1. CASE conf.list = "none"
    BY <1>1, <1>3, <1>5, <1>9, <2>1 DEF Clears
  <2>2. CASE conf.list # "none" /\ x.at = "list" /\ x.found = {}
    BY <1>1, <1>3, <1>5, <1>7, <1>9, <2>2 DEF Clears
  <2>3. CASE conf.list # "none" /\ x.at = "list" /\ x.found # {}
    BY <1>1, <1>3, <1>5, <1>6, <1>9, <2>3 DEF Clears
  <2>4. CASE conf.list # "none" /\ x.at = "again"
    BY <1>1, <1>3, <1>5, <1>9, <2>4 DEF Clears
  <2> QED BY <1>1, <2>1, <2>2, <2>3, <2>4
<1> HIDE DEF step
<1> QED BY <1>1, <1>2, <1>9, S3GoesTo

\* The answer to HEAD: on a versioned bucket nothing is left by now, and only a
\* wrong one leads on.
LEMMA ObjectExistsKeeps ==
  ASSUME Here, NEW t \in Callers, NEW error \in BOOLEAN, D!ObjectExists(t, error), conf.kind = "s3"
  PROVE  There
<1> DEFINE x == errand[t]
           step == IF D!Present \/ error THEN "plain" ELSE "ok"
           r == [x EXCEPT !.at = step, !.misled = error]
<1>0. x \in Errand /\ Comes(x, conf, versions, open) /\ conf \in D!Confs /\ ids \in 0 .. MaxIds
      /\ Stock(conf, versions, ids)
  BY AtWork
<1>1. /\ x.op = "delete" /\ x.at = "head" /\ errand' = [errand EXCEPT ![t] = r]
      /\ UNCHANGED <<conf, D!store, excused>>
  BY DEF D!ObjectExists, D!At, D!Set
<1>2. step \in StepNames /\ <<"delete", step>> \in S3Places
  BY DEF StepNames, S3Places
<1>3. conf.list # "all" => ~conf.versioned
  BY <1>0, ConfIs
<1>4. Clears(x, conf, versions)
  BY <1>0 DEF Comes
<1>5. ~conf.versioned /\ versions # {} => D!Present
  <2>1. SUFFICES ASSUME ~conf.versioned, versions # {} PROVE D!Present
    OBVIOUS
  <2>2. Latest(versions) \in versions
    BY <1>0, <2>1, LatestOfOne
  <2>3. Latest(versions).body = FileOf(conf)
    BY <1>0, <2>1, <2>2 DEF Stock
  <2>4. D!Newest = Latest(versions)
    BY DEF D!Newest, Latest
  <2> QED BY <1>0, <2>1, <2>3, <2>4, FileIs DEF D!Present
<1>6. D!Present => versions # {}
  BY DEF D!Present
<1>7. conf.versioned /\ x.alone => versions = {}
  BY <1>1, <1>3, <1>4 DEF Clears
<1>8. /\ step = "plain" => D!Present \/ error
      /\ step = "ok" => ~D!Present
      /\ step \in {"plain", "ok"}
  OBVIOUS
<1> HIDE DEF step
<1>9. /\ r \in Errand /\ r.at = step /\ r.op = "delete" /\ r.found = x.found /\ r.mark = x.mark
      /\ r.alone = x.alone /\ r.misled = error
  <2> HIDE DEF x
  <2> QED BY <1>0, <1>1, <1>2 DEF Errand, StepNames
<1> HIDE DEF r
<1>10. r.alone /\ r.at = "plain" => ~conf.versioned \/ (r.misled /\ versions = {})
  BY <1>6, <1>7, <1>8, <1>9
<1>11. r.alone /\ r.at = "ok" => versions = {}
  BY <1>5, <1>7, <1>8, <1>9
<1>12. Clears(r, conf, versions)
  BY <1>1, <1>4, <1>8, <1>9, <1>10, <1>11 DEF Clears
<1> QED BY <1>1, <1>2, <1>9, <1>12, S3Asks

\* A question that fails ends the deletion.
LEMMA AskFailsKeeps ==
  ASSUME Here, NEW t \in Callers, D!AskFails(t), conf.kind = "s3"
  PROVE  There
<1>1. errand[t].op = "delete" /\ D!Go(t, "failed") /\ UNCHANGED <<conf, D!store, excused>>
  BY DEF D!AskFails
<1>2. "failed" \in StepNames /\ <<"delete", "failed">> \in S3Places
  BY DEF StepNames, S3Places
<1>3. Clears(errand[t], conf, versions)
  BY AtWork DEF Comes
<1>4. ASSUME NEW r \in Errand, r.at = "failed", r.op = "delete", r.found = errand[t].found
      PROVE  Clears(r, conf, versions)
  BY <1>1, <1>3, <1>4 DEF Clears
<1> QED BY <1>1, <1>2, <1>4, S3GoesTo

\* A version is deleted that the list has.
LEMMA DeleteVersionKeeps ==
  ASSUME Here, NEW t \in Callers, NEW done \in BOOLEAN, NEW ok \in BOOLEAN,
         NEW literal \in BOOLEAN, D!DeleteVersion(t, done, ok, literal), conf.kind = "s3"
  PROVE  There
<1> DEFINE x == errand[t]
           v == D!Max(x.found)
           left == x.found \ {v}
           step == IF left = {} THEN "again" ELSE "each"
           a == [x EXCEPT !.at = "failed"]
           b == [x EXCEPT !.found = left, !.mark = 0, !.at = step]
           r == IF ~ok THEN a ELSE b
<1>0. x \in Errand /\ Comes(x, conf, versions, open) /\ conf \in D!Confs /\ ids \in 0 .. MaxIds
      /\ Stock(conf, versions, ids)
  BY AtWork
<1>1. /\ x.op = "delete" /\ x.at = "each" /\ (ok => done) /\ (~literal => v = D!Null)
      /\ errand' = [errand EXCEPT ![t] = r] /\ UNCHANGED <<conf, open, excused>>
      /\ IF ~done THEN UNCHANGED <<versions, ids>>
         ELSE IF literal THEN versions' = {w \in versions : w.id # v} /\ UNCHANGED ids
         ELSE D!PlainDeleted
  BY DEF D!DeleteVersion, D!At, D!Set
<1>2. Clears(x, conf, versions)
  BY <1>0 DEF Comes
<1>3. x.found \subseteq 0 .. MaxIds /\ x.found # {} /\ conf.list = "all"
  BY <1>0, <1>1, <1>2 DEF Errand, Clears
<1>4. v \in x.found
  BY <1>3, GreatestId
<1>5. ASSUME ~literal PROVE ~conf.versioned
  BY <1>1, <1>2, <1>4, <1>5 DEF Clears
<1>6. /\ Stock(conf, versions', ids') /\ ids' \in 0 .. MaxIds /\ ids <= ids'
      /\ done => IdsOf(versions') \subseteq IdsOf(versions) \ {v}
  <2>1. ids \in Int /\ ids <= ids
    BY <1>0, BucketBounds
  <2>2. CASE ~done
    BY <1>0, <1>1, <2>1, <2>2
  <2>3. CASE done /\ literal
    <3>1. versions' = {w \in versions : w.id # v} /\ ids' = ids
      BY <1>1, <2>3
    <3>2. Stock(conf, versions', ids)
      BY <1>0, <3>1, FewerObjects
    <3>3. IdsOf(versions') \subseteq IdsOf(versions) \ {v}
      BY <3>1 DEF IdsOf
    <3> QED BY <1>0, <2>1, <3>1, <3>2, <3>3
  <2>4. CASE done /\ ~literal
    <3>1. versions' = {} /\ Stock(conf, versions', ids') /\ ids' \in 0 .. MaxIds /\ ids <= ids'
      BY <1>1, <1>5, <2>4, DeletesPlainly
    <3>2. IdsOf(versions') = {}
      BY <3>1 DEF IdsOf
    <3> QED BY <3>1, <3>2
  <2> QED BY <2>2, <2>3, <2>4
<1>7. left \in SUBSET (0 .. MaxIds) /\ step \in StepNames /\ "failed" \in StepNames /\ 0 \in 0 .. MaxIds
  BY <1>3, BucketBounds DEF StepNames
<1>8. /\ r \in Errand /\ r.op = "delete" /\ r.alone = x.alone
      /\ r.found = IF ok THEN left ELSE x.found
      /\ r.at = IF ok THEN step ELSE "failed"
  <2> HIDE DEF left, v, x, step
  <2>1. a \in Errand /\ a.op = x.op /\ a.alone = x.alone /\ a.found = x.found /\ a.at = "failed"
    BY <1>0, <1>7, AtStep
  <2>2. b \in Errand /\ b.op = x.op /\ b.alone = x.alone /\ b.found = left /\ b.at = step
    BY <1>0, <1>7 DEF Errand, StepNames
  <2> HIDE DEF a, b
  <2> QED BY <1>1, <2>1, <2>2
<1> HIDE DEF r, a, b
<1>9. x.alone => IdsOf(versions) \subseteq x.found
  BY <1>1, <1>2 DEF Clears
<1>10. ok /\ x.alone => IdsOf(versions') \subseteq left
  BY <1>1, <1>6, <1>9
<1>11. IdsOf(versions') = {} => versions' = {}
  BY DEF IdsOf
<1>12. r.at = "again" /\ r.alone => versions' = {}
  BY <1>8, <1>10, <1>11
<1>13. conf.versioned => D!Null \notin r.found
  BY <1>1, <1>2, <1>8 DEF Clears
<1>14. r.at = "each" => r.found # {}
  BY <1>8
<1>15. r.at = "each" /\ r.alone => IdsOf(versions') \subseteq r.found
  BY <1>8, <1>10
<1>16. r.at \in {"again", "each", "failed"}
  BY <1>8
<1>17. Clears(r, conf, versions')
  BY <1>3, <1>12, <1>13, <1>14, <1>15, <1>16 DEF Clears
<1>18. <<r.op, r.at>> \in S3Places
  BY <1>8, <1>16 DEF S3Places
<1> QED BY <1>1, <1>6, <1>8, <1>17, <1>18, S3Deletes

\* A deletion without a version id is only for a bucket that has none, or, when
\* the HEAD was answered wrongly, puts a marker where there is nothing.
LEMMA DeletePlainKeeps ==
  ASSUME Here, NEW t \in Callers, NEW done \in BOOLEAN, NEW ok \in BOOLEAN,
         D!DeletePlain(t, done, ok), conf.kind = "s3"
  PROVE  There
<1> DEFINE x == errand[t]
           step == IF ok THEN "ok" ELSE "failed"
           r == [x EXCEPT !.at = step]
<1>0. x \in Errand /\ Comes(x, conf, versions, open) /\ ids \in 0 .. MaxIds
      /\ Stock(conf, versions, ids)
  BY AtWork
<1>1. /\ x.op = "delete" /\ x.at = "plain" /\ (ok => done)
      /\ errand' = [errand EXCEPT ![t] = r] /\ UNCHANGED <<conf, open, excused>>
      /\ IF done THEN D!PlainDeleted ELSE UNCHANGED <<versions, ids>>
  BY DEF D!DeletePlain, D!At, D!Go, D!Set
<1>2. Clears(x, conf, versions)
  BY <1>0 DEF Comes
<1>3. step \in StepNames /\ step = IF ok THEN "ok" ELSE "failed"
  BY DEF StepNames
<1>4. r \in Errand /\ r.op = "delete" /\ r.alone = x.alone /\ r.found = x.found /\ r.at = step
      /\ r.misled = x.misled
  <2> HIDE DEF step, x
  <2> QED BY <1>0, <1>1, <1>3, AtStep
<1> HIDE DEF r, step
<1>5. /\ Stock(conf, versions', ids') /\ ids' \in 0 .. MaxIds /\ ids <= ids'
      /\ done /\ ~conf.versioned => versions' = {}
  <2>1. ids \in Int /\ ids <= ids
    BY <1>0, BucketBounds
  <2>2. CASE ~done
    BY <1>0, <1>1, <2>1, <2>2
  <2>3. CASE done
    BY <1>1, <2>3, DeletesPlainly
  <2> QED BY <2>2, <2>3
<1>6. ASSUME done, conf.versioned, versions = {}
      PROVE  \E v \in versions' : versions' = {v} /\ v.body = D!Marker
  <2>1. versions' = versions \cup {[id |-> ids + 1, body |-> D!Marker]}
    BY <1>1, <1>6 DEF D!PlainDeleted, D!Stored
  <2> QED BY <1>6, <2>1
<1>8. r.alone /\ r.at = "ok" =>
        versions' = {} \/ (r.misled /\ conf.versioned /\ \E v \in versions' : versions' = {v} /\ v.body = D!Marker)
  <2>1. SUFFICES ASSUME r.alone, r.at = "ok", versions' # {}
                 PROVE  r.misled /\ conf.versioned /\ \E v \in versions' : versions' = {v} /\ v.body = D!Marker
    OBVIOUS
  <2>2. ok /\ done /\ x.alone
    BY <1>1, <1>3, <1>4, <2>1
  <2>3. conf.versioned
    BY <1>5, <2>1, <2>2
  <2>4. x.misled /\ versions = {}
    BY <1>1, <1>2, <2>2, <2>3 DEF Clears
  <2> QED BY <1>4, <1>6, <2>2, <2>3, <2>4
<1>9. r.at \in {"ok", "failed"}
  BY <1>3, <1>4
<1>10. Clears(r, conf, versions')
  BY <1>1, <1>2, <1>4, <1>8, <1>9 DEF Clears
<1>7. <<r.op, r.at>> \in S3Places
  BY <1>3, <1>4 DEF S3Places
<1> QED BY <1>1, <1>4, <1>5, <1>7, <1>10, S3Deletes

\* The sweep lists every multipart upload.
LEMMA ListUploadsKeeps ==
  ASSUME Here, NEW t \in Callers, NEW ok \in BOOLEAN, D!ListUploads(t, ok), conf.kind = "s3"
  PROVE  There
<1> DEFINE x == errand[t]
           step == IF ok /\ open # {} THEN "aborts" ELSE IF ok THEN "ok" ELSE "failed"
           F == IF ok THEN {u.id : u \in open} ELSE {}
           r == [x EXCEPT !.at = step, !.found = F]
<1>0. x \in Errand /\ Comes(x, conf, versions, open) /\ excused \in BOOLEAN
  BY AtWork
<1>1. /\ x.op = "cleanup" /\ x.at = "uploads" /\ errand' = [errand EXCEPT ![t] = r]
      /\ UNCHANGED <<conf, D!store>> /\ excused' = (excused /\ ~(ok /\ open = {}))
  BY DEF D!ListUploads, D!At, D!Set
<1>2. open \subseteq [id : 1 .. MaxIds, got : SUBSET Nat]
  BY DEF Here, DestInv, Setting, Uploads
<1>3. F \in SUBSET (0 .. MaxIds) /\ step \in StepNames
  BY <1>2, BucketBounds DEF StepNames
<1>4. /\ step = "aborts" => F # {} /\ \A u \in open : u.id \in F
      /\ step \in {"aborts", "ok", "failed"}
  OBVIOUS
<1> HIDE DEF step, F
<1>5. r \in Errand /\ r.op = "cleanup" /\ r.alone = x.alone /\ r.found = F /\ r.at = step /\ r.tries = x.tries
  <2> HIDE DEF x
  <2> QED BY <1>0, <1>1, <1>3 DEF Errand, StepNames
<1> HIDE DEF r
<1>6. Comes(r, conf, versions, open)
  BY <1>0, <1>1, <1>4, <1>5 DEF Comes, Stands, Clears, Aborts
<1>7. <<r.op, r.at>> \in S3Places
  BY <1>4, <1>5 DEF S3Places
<1>8. excused' \in BOOLEAN /\ (excused => excused' \/ open = {})
  BY <1>0, <1>1
<1>9. DestInv(conf, versions, open, ids, [errand EXCEPT ![t] = r], excused')
  <2>1. /\ DestInv(conf, versions, open, ids, errand, excused)
        /\ errand[t].op # "none" /\ errand[t].op # "upload" /\ r.op = errand[t].op
    BY <1>1, <1>5 DEF Here
  <2> QED BY <1>5, <1>6, <1>7, <1>8, <2>1, S3Waits
<1> QED BY <1>1, <1>9 DEF There, D!store

\* The sweep aborts one of its list.
LEMMA AbortListedKeeps ==
  ASSUME Here, NEW t \in Callers, NEW done \in BOOLEAN, D!AbortListed(t, done),
         conf.kind = "s3"
  PROVE  There
<1> DEFINE x == errand[t]
           v == D!Max(x.found)
           left == x.found \ {v}
           step == IF left = {} THEN "ok" ELSE x.at
           n == IF done THEN x.tries ELSE 1
           r == [x EXCEPT !.found = left, !.at = IF left = {} THEN "ok" ELSE @,
                          !.tries = IF done THEN @ ELSE 1]
<1>0. x \in Errand /\ Comes(x, conf, versions, open) /\ excused \in BOOLEAN /\ ids \in 0 .. MaxIds
      /\ Stock(conf, versions, ids) /\ errand \in [Callers -> Errand] /\ Attended(open, errand, excused)
  BY AtWork
<1>1. /\ x.op = "cleanup" /\ x.at = "aborts" /\ errand' = [errand EXCEPT ![t] = r]
      /\ UNCHANGED <<conf, versions, ids>>
      /\ open' = IF done THEN {w \in open : w.id # v} ELSE open
      /\ excused' = (excused /\ (left # {} \/ ~done \/ x.tries = 1 \/ ~x.alone))
  BY DEF D!AbortListed, D!At, D!Set
<1>2. Aborts(x, open)
  BY <1>0 DEF Comes
<1>3. x.found \subseteq 0 .. MaxIds /\ x.found # {} /\ x.tries \in {0, 1}
  BY <1>0, <1>1, <1>2 DEF Errand, Aborts
<1>4. v \in x.found
  BY <1>3, GreatestId
<1>5. step \in StepNames /\ step \in {"ok", "aborts"} /\ (step = "aborts" <=> left # {}) /\ n \in {0, 1}
      /\ left \in SUBSET (0 .. MaxIds) /\ (n = 0 => done /\ x.tries = 0)
  BY <1>1, <1>3 DEF StepNames
<1>6. r \in Errand /\ r.op = "cleanup" /\ r.alone = x.alone /\ r.found = left /\ r.at = step /\ r.tries = n
  <2>1. r = [x EXCEPT !.found = left, !.at = step, !.tries = n]
    OBVIOUS
  <2> HIDE DEF x, left, step, n, r
  <2>2. n \in Nat
    BY <1>5
  <2> QED BY <1>0, <1>1, <1>5, <2>1, <2>2 DEF Errand, StepNames
<1> HIDE DEF r, step, n
<1>7. open' \subseteq open /\ excused' \in BOOLEAN /\ (excused' => excused)
  BY <1>0, <1>1
<1>8. x.alone /\ x.tries = 0 => \A u \in open : u.id \in x.found
  BY <1>1, <1>2 DEF Aborts
<1>9. excused => excused' \/ open' = {}
  <2>1. ASSUME excused, ~excused' PROVE open' = {}
    <3>1. left = {} /\ done /\ x.tries = 0 /\ x.alone
      BY <1>1, <1>3, <2>1
    <3>2. \A u \in open : u.id = v
      BY <1>8, <3>1
    <3> QED BY <1>1, <3>1, <3>2
  <2> QED BY <2>1
<1>10. Attended(open', [errand EXCEPT ![t] = r], excused')
  <2>1. \A u \in open' : \E w \in open : w.id = u.id
    BY <1>7
  <2>2. errand[t].op # "upload" /\ errand \in [Callers -> Errand] /\ Attended(open, errand, excused) /\ r \in Errand
    BY <1>0, <1>1, <1>6
  <2> HIDE DEF left, v, x
  <2> QED BY <1>9, <2>1, <2>2, StillAttended
<1>11. Setting(conf, open', ids', excused')
  <2>1. ids' \in 0 .. MaxIds /\ ids <= ids'
    BY <1>0, <1>1, BucketBounds
  <2> QED BY <1>7, <2>1, UploadsStay, SettingStays
<1>12. ASSUME r.at = "aborts", r.alone, r.tries = 0, NEW u \in open' PROVE u.id \in r.found
  <2>1. done /\ x.tries = 0 /\ x.alone
    BY <1>5, <1>6, <1>12
  <2>2. u \in open /\ u.id # v
    BY <1>1, <1>12, <2>1
  <2> QED BY <1>6, <1>8, <2>1, <2>2
<1>13. Comes(r, conf, versions', open')
  BY <1>5, <1>6, <1>12 DEF Comes, Stands, Clears, Aborts
<1>14. <<r.op, r.at>> \in S3Places
  BY <1>5, <1>6 DEF S3Places
<1>15. Stock(conf, versions', ids') /\ DestInv(conf, versions, open, ids, errand, excused)
       /\ errand[t].op # "none" /\ r.op = errand[t].op
  BY <1>0, <1>1, <1>6 DEF Here
<1>16. DestInv(conf, versions', open', ids', [errand EXCEPT ![t] = r], excused')
  BY <1>6, <1>10, <1>11, <1>13, <1>14, <1>15, S3Moves
<1> QED BY <1>1, <1>16 DEF There

\* A task rests.
LEMMA RestKeeps ==
  ASSUME Here, NEW t \in Callers, D!Rest(t)
  PROVE  There
<1>1. errand[t].at \in {"ok", "failed"} /\ errand' = [errand EXCEPT ![t] = D!Idle]
      /\ UNCHANGED <<conf, D!store, excused>>
  BY DEF D!Rest, D!Set
<1>2. Crew(conf, errand) /\ \A u \in Callers : Comes(errand[u], conf, versions, open)
  BY DEF Here, DestInv
<1>3. Crew(conf, errand') /\ \A u \in Callers : Comes(errand'[u], conf, versions, open)
  BY <1>1, <1>2, GoesHome
<1>4. errand \in [Callers -> Errand] /\ Attended(open, errand, excused)
  BY DEF Here, DestInv, Crew
<1>5. Attended(open, errand', excused)
  <2> SUFFICES ASSUME ~excused, NEW u \in open
               PROVE  \E s \in Callers : errand'[s].op = "upload" /\ errand'[s].id = u.id
                                        /\ errand'[s].at \in {"part", "complete", "abort"}
    BY DEF Attended
  <2>1. PICK s \in Callers : errand[s].op = "upload" /\ errand[s].id = u.id
                           /\ errand[s].at \in {"part", "complete", "abort"}
    BY <1>4 DEF Attended
  <2>2. s # t /\ errand'[s] = errand[s]
    BY <1>1, <1>4, <2>1
  <2> QED BY <2>1, <2>2
<1>6. \A u \in Callers : errand'[u] = errand[u] \/ errand'[u] = D!Idle
  BY <1>1, <1>4
<1>7. Resumes(conf, versions, open, errand', excused)
  <2>1. Resumes(conf, versions, open, errand, excused)
    BY DEF Here, DestInv
  <2>2. D!Idle.op # "upload"
    BY DEF D!Idle
  <2> QED BY <1>6, <2>1, <2>2 DEF Resumes
<1> QED BY <1>1, <1>3, <1>5, <1>7 DEF Here, There, DestInv, D!store

\* The panel dies, and its tasks with it.
LEMMA DeathKeeps ==
  ASSUME Here, D!Die
  PROVE  There
<1>1. errand' = [t \in Callers |-> D!Idle] /\ excused' = (excused \/ open # {}) /\ UNCHANGED <<conf, D!store>>
  BY DEF D!Die
<1>2. \A t \in Callers : errand'[t] = D!Idle
  BY <1>1
<1>3. D!Idle \in Errand /\ <<D!Idle.op, D!Idle.at>> \in Places(conf) /\ D!Idle.op = "none"
  BY BucketBounds DEF D!Idle, Errand, Places, S3Places, FtpPlaces
<1>4. Crew(conf, errand')
  BY <1>1, <1>2, <1>3 DEF Crew
<1>5. Attended(open, errand', excused')
  BY <1>1 DEF Attended
<1>6. Resumes(conf, versions, open, errand', excused')
  BY <1>1, <1>2, <1>3 DEF Here, DestInv, Resumes
<1>7. Comes(D!Idle, conf, versions, open)
  BY DEF Comes, Stands, Clears, Aborts, D!Idle
<1>8. Setting(conf, open, ids, excused')
  BY <1>1 DEF Here, DestInv, Setting
<1> QED BY <1>1, <1>2, <1>4, <1>5, <1>6, <1>7, <1>8 DEF Here, There, DestInv, D!store

\* A task begins; whoever is at work already is not alone any more.
LEMMA BeginKeeps ==
  ASSUME Here, NEW t \in Callers, NEW op \in {"upload", "delete", "cleanup"},
         NEW step \in StepNames, <<op, step>> \in Places(conf), D!Begin(t, op, step),
         op = "upload" => step # "ok" /\ step # "send",
         op = "delete" => step \notin {"each", "again", "head", "plain", "ok"},
         op = "cleanup" => step # "aborts"
  PROVE  There
<1> DEFINE b == \A v \in Callers \ {t} : errand[v] = D!Idle
           r == [D!Idle EXCEPT !.op = op, !.at = step, !.alone = b]
<1>1. /\ errand[t] = D!Idle /\ errand'[t] = r /\ DOMAIN errand' = Callers
      /\ \A u \in Callers \ {t} : errand'[u] = IF errand[u] = D!Idle THEN D!Idle ELSE [errand[u] EXCEPT !.alone = FALSE]
      /\ excused' = (excused \/ (conf.kind = "ftp" /\ \E u \in Callers : errand[u] # D!Idle))
      /\ UNCHANGED <<conf, D!store>> /\ errand' \in [Callers -> {errand'[u] : u \in Callers}]
  BY DEF D!Begin
<1>2. b \in BOOLEAN
  OBVIOUS
<1>3. /\ r \in Errand /\ r.op = op /\ r.at = step /\ r.alone = b /\ r.found = {} /\ r.mark = 0 /\ r.tries = 0
  <2> HIDE DEF b
  <2>1. D!Idle \in Errand /\ D!Idle.found = {} /\ D!Idle.mark = 0 /\ D!Idle.tries = 0
    BY BucketBounds DEF D!Idle, Errand
  <2> QED BY <1>2, <2>1 DEF Errand, StepNames
<1> HIDE DEF r
<1>4. errand \in [Callers -> Errand] /\ Crew(conf, errand) /\ \A u \in Callers : Comes(errand[u], conf, versions, open)
  BY DEF Here, DestInv, Crew
<1>5. ASSUME NEW u \in Callers \ {t}, errand[u] # D!Idle
      PROVE  /\ errand'[u] \in Errand /\ errand'[u].op = errand[u].op /\ errand'[u].at = errand[u].at
             /\ errand'[u].id = errand[u].id /\ errand'[u].found = errand[u].found
             /\ errand'[u].tries = errand[u].tries /\ errand'[u].alone = FALSE
  <2>1. errand'[u] = [errand[u] EXCEPT !.alone = FALSE] /\ errand[u] \in Errand
    BY <1>1, <1>4, <1>5
  <2> QED BY <2>1 DEF Errand
<1>6. ASSUME NEW u \in Callers \ {t}, errand[u] = D!Idle PROVE errand'[u] = D!Idle
  BY <1>1, <1>6
<1>7. D!Idle \in Errand /\ <<D!Idle.op, D!Idle.at>> \in Places(conf) /\ D!Idle.op = "none" /\ op # "none"
  BY BucketBounds DEF D!Idle, Errand, Places, S3Places, FtpPlaces
<1>8. errand' \in [Callers -> Errand]
  BY <1>1, <1>3, <1>5, <1>6, <1>7
<1>9. Crew(conf, errand')
  <2>1. \A u \in Callers : <<errand'[u].op, errand'[u].at>> \in Places(conf)
    BY <1>1, <1>3, <1>4, <1>5, <1>6, <1>7 DEF Crew
  <2>2. ASSUME NEW u \in Callers, errand'[u] # D!Idle, errand'[u].alone
        PROVE  \A w \in Callers \ {u} : errand'[w] = D!Idle
    <3>1. u = t
      BY <1>5, <1>6, <2>2
    <3>2. b
      BY <1>1, <1>3, <2>2, <3>1
    <3> QED BY <1>6, <3>1, <3>2
  <2> QED BY <1>8, <2>1, <2>2 DEF Crew
<1>10. \A u \in Callers : Comes(errand'[u], conf, versions, open)
  <2>1. Comes(r, conf, versions, open)
    BY <1>3 DEF Comes, Stands, Clears, Aborts
  <2>2. ASSUME NEW u \in Callers \ {t}, errand[u] # D!Idle PROVE Comes(errand'[u], conf, versions, open)
    BY <1>4, <1>5, <2>2 DEF Comes, Stands, Clears, Aborts
  <2>3. Comes(D!Idle, conf, versions, open)
    BY DEF Comes, Stands, Clears, Aborts, D!Idle
  <2> QED BY <1>1, <1>6, <2>1, <2>2, <2>3
<1>11. Attended(open, errand', excused')
  <2> SUFFICES ASSUME ~excused', NEW u \in open
               PROVE  \E s \in Callers : errand'[s].op = "upload" /\ errand'[s].id = u.id
                                        /\ errand'[s].at \in {"part", "complete", "abort"}
    BY DEF Attended
  <2>1. PICK s \in Callers : errand[s].op = "upload" /\ errand[s].id = u.id
                           /\ errand[s].at \in {"part", "complete", "abort"}
    BY <1>1 DEF Here, DestInv, Attended
  <2>2. errand[s] # D!Idle /\ s # t
    BY <1>1, <1>7, <2>1
  <2> QED BY <1>5, <2>1, <2>2
<1>12. Resumes(conf, versions, open, errand', excused')
  <2>1. ASSUME conf.kind = "ftp", ~excused'
        PROVE  \A u \in Callers : /\ errand'[u] # D!Idle => errand'[u].alone
                                /\ ~(errand'[u].op = "upload" /\ errand'[u].at \in {"send", "ok"})
    <3>1. \A u \in Callers : errand[u] = D!Idle
      BY <1>1, <2>1
    <3>2. b
      BY <3>1
    <3>3. ASSUME NEW u \in Callers PROVE u = t \/ errand'[u] = D!Idle
      BY <1>6, <3>1
    <3> QED BY <1>1, <1>3, <1>7, <3>2, <3>3
  <2> QED BY <1>1, <2>1 DEF Here, DestInv, Resumes
<1>13. Setting(conf, open, ids, excused')
  BY <1>1 DEF Here, DestInv, Setting
<1> QED BY <1>1, <1>9, <1>10, <1>11, <1>12, <1>13 DEF Here, There, DestInv, D!store

-----------------------------------------------------------------------------
(***************************************************************************)
(* FTP                                                                     *)
(***************************************************************************)
\* A task that is at work, by FTP
LEMMA AtFtp ==
  ASSUME Here, NEW t \in Callers, conf.kind = "ftp"
  PROVE  /\ errand[t] \in Errand /\ <<errand[t].op, errand[t].at>> \in FtpPlaces
         /\ errand \in [Callers -> Errand] /\ Comes(errand[t], conf, versions, open)
         /\ conf \in D!Confs /\ ids \in 0 .. MaxIds /\ excused \in BOOLEAN
         /\ Stock(conf, versions, ids) /\ open = {} /\ ~conf.versioned /\ conf.size \in Nat
         /\ conf.size <= MaxSize /\ conf.size # 0
<1>1. conf \in D!Confs
  BY DEF Here, DestInv, Setting
<1>2. ~conf.versioned /\ conf.size \in Nat /\ conf.size <= MaxSize /\ conf.size # 0
  BY <1>1, ConfIs, BucketBounds
<1>3. /\ errand[t] \in Errand /\ <<errand[t].op, errand[t].at>> \in FtpPlaces
      /\ errand \in [Callers -> Errand] /\ Comes(errand[t], conf, versions, open)
      /\ ids \in 0 .. MaxIds /\ excused \in BOOLEAN
      /\ Stock(conf, versions, ids) /\ open = {}
  BY DEF Here, DestInv, Crew, Places, Setting, Resumes
<1> QED BY <1>1, <1>2, <1>3

\* What an FTP server has of the file
LEMMA RemoteIs ==
  ASSUME Here, conf.kind = "ftp"
  PROVE  /\ D!Remote = BodyOf(versions) /\ D!Remote \in Seq(0 .. MaxSize)
         /\ ~excused => Len(D!Remote) <= conf.size /\ \A i \in 1 .. Len(D!Remote) : D!Remote[i] = i
<1>1. conf \in D!Confs /\ Stock(conf, versions, ids)
  BY DEF Here, DestInv, Setting
<1>2. D!Remote = BodyOf(versions)
  BY DEF D!Remote, BodyOf, D!Newest, Latest
<1>3. D!Remote \in Seq(0 .. MaxSize)
  <2>1. CASE versions = {}
    BY <2>1 DEF D!Remote
  <2>2. CASE versions # {}
    <3>1. Latest(versions) \in versions
      BY <1>1, <2>2, ConfIs, LatestOfOne
    <3> QED BY <1>1, <1>2, <2>2, <3>1 DEF Stock, BodyOf
  <2> QED BY <2>1, <2>2
<1> QED BY <1>2, <1>3 DEF Here, DestInv, Resumes

\* A step of one task by FTP
LEMMA FtpMoves ==
  ASSUME Here, NEW t \in Callers, NEW r \in Errand, NEW V, NEW ex2 \in BOOLEAN,
         conf.kind = "ftp", errand[t].op # "none", r.op = errand[t].op, r.alone = errand[t].alone,
         r.found = errand[t].found,
         <<r.op, r.at>> \in FtpPlaces, Stock(conf, V, ids),
         r.op = "delete" /\ r.at = "ok" /\ r.alone => V = {},
         ~ex2 => r.alone,
         ~ex2 => Len(BodyOf(V)) <= conf.size /\ \A i \in 1 .. Len(BodyOf(V)) : BodyOf(V)[i] = i,
         ~ex2 /\ r.op = "upload" /\ r.at = "send" => r.part = Len(BodyOf(V)) + 1,
         ~ex2 /\ r.op = "upload" /\ r.at = "ok" => Len(BodyOf(V)) = conf.size,
         errand' = [errand EXCEPT ![t] = r], conf' = conf, versions' = V, open' = open, ids' = ids,
         excused' = ex2
  PROVE  There
<1>1. /\ errand[t] # D!Idle /\ <<r.op, r.at>> \in Places(conf)
      /\ Crew(conf, errand) /\ \A u \in Callers : Comes(errand[u], conf, versions, open)
  BY DEF D!Idle, Places, Here, DestInv
<1>2. Comes(errand[t], conf, versions, open) /\ open = {} /\ ~conf.versioned /\ errand \in [Callers -> Errand]
  BY AtFtp
<1>3. Comes(r, conf, V, open)
  <2>1. r.op # "cleanup"
    BY DEF FtpPlaces
  <2>2. r.op = "delete" => r.at \in {"remove", "ok", "failed"}
    BY DEF FtpPlaces
  <2> QED BY <1>2, <2>1, <2>2 DEF Comes, Stands, Clears, Aborts
<1>4. Crew(conf, errand') /\ \A u \in Callers : Comes(errand'[u], conf, V, open)
  <2>1. /\ Crew(conf, [errand EXCEPT ![t] = r])
        /\ \A u \in Callers : Comes([errand EXCEPT ![t] = r][u], conf, V, open)
    BY <1>1, <1>3, GoesOn
  <2> QED BY <2>1
<1>5. errand'[t] = r
  BY <1>2
<1>6. ASSUME ~ex2, NEW u \in Callers \ {t} PROVE errand'[u] = D!Idle
  <2>1. errand'[t] # D!Idle /\ errand'[t].alone
    BY <1>5, <1>6 DEF D!Idle
  <2> QED BY <1>4, <1>6, <2>1 DEF Crew
<1>7. Resumes(conf, V, open, errand', ex2)
  <2>1. ASSUME ~ex2, NEW u \in Callers
        PROVE  /\ errand'[u] # D!Idle => errand'[u].alone
               /\ errand'[u].op = "upload" /\ errand'[u].at = "send" => errand'[u].part = Len(BodyOf(V)) + 1
               /\ errand'[u].op = "upload" /\ errand'[u].at = "ok" => Len(BodyOf(V)) = conf.size
    <3>1. CASE u = t
      BY <1>5, <2>1, <3>1
    <3>2. CASE u # t
      BY <1>6, <2>1, <3>2 DEF D!Idle
    <3> QED BY <3>1, <3>2
  <2> QED BY <1>2, <2>1 DEF Resumes
<1>8. Attended(open, errand', ex2)
  BY <1>2 DEF Attended
<1>9. Setting(conf, open, ids, ex2)
  BY DEF Here, DestInv, Setting
<1> QED BY <1>4, <1>7, <1>8, <1>9 DEF There, DestInv

\* By FTP, while no two have been at it, whoever is at work is alone.
LEMMA FtpAlone ==
  ASSUME Here, conf.kind = "ftp", ~excused, NEW t \in Callers, errand[t].op # "none"
  PROVE  /\ errand[t].alone
         /\ errand[t].op = "upload" /\ errand[t].at = "send" => errand[t].part = Len(BodyOf(versions)) + 1
<1>1. errand[t] # D!Idle
  BY DEF D!Idle
<1> QED BY <1>1 DEF Here, DestInv, Resumes

\* An empty file is the beginning of every file.
LEMMA NothingYet == Len(BodyOf({})) = 0 /\ Len(BodyOf({[id |-> D!Null, body |-> <<>>]})) = 0
<1> DEFINE n == [id |-> D!Null, body |-> <<>>]
<1>1. n.id <= n.id /\ n.body = <<>>
  BY DEF D!Null
<1> HIDE DEF n
<1>2. Latest({n}) = n
  BY <1>1 DEF Latest
<1>3. BodyOf({n}) = <<>> /\ BodyOf({}) = <<>>
  BY <1>1, <1>2 DEF BodyOf
<1> QED BY <1>3 DEF n

\* SIZE says where to go on.
LEMMA SizeKeeps ==
  ASSUME Here, NEW t \in Callers, NEW known \in BOOLEAN, D!Size(t, known), conf.kind = "ftp"
  PROVE  There
<1> DEFINE x == errand[t]
           there == IF known THEN Len(D!Remote) ELSE 0
           resume == there > 0 /\ there < conf.size
           n == IF resume THEN there + 1 ELSE 1
           r == [x EXCEPT !.at = "send", !.part = n]
<1>0. /\ x \in Errand /\ conf \in D!Confs /\ ids \in 0 .. MaxIds /\ excused \in BOOLEAN
      /\ Stock(conf, versions, ids) /\ ~conf.versioned /\ conf.size \in Nat
  BY AtFtp
<1>1. /\ x.op = "upload" /\ x.at = "size" /\ errand' = [errand EXCEPT ![t] = r]
      /\ IF resume THEN versions' = versions ELSE versions' = {[id |-> D!Null, body |-> <<>>]}
      /\ excused' = (excused /\ (resume \/ ~x.alone))
      /\ conf' = conf /\ open' = open /\ ids' = ids
  BY DEF D!Size, D!At, D!Set, D!Put
<1>2. D!Remote = BodyOf(versions) /\ Len(D!Remote) \in Nat
  BY RemoteIs
<1>3. n \in Nat /\ (resume => n = Len(BodyOf(versions)) + 1) /\ (~resume => n = 1) /\ resume \in BOOLEAN
  BY <1>2
<1> HIDE DEF n, resume
<1>4. /\ r \in Errand /\ r.op = "upload" /\ r.at = "send" /\ r.part = n /\ r.alone = x.alone
      /\ r.found = x.found
  <2> HIDE DEF x
  <2> QED BY <1>0, <1>1, <1>3 DEF Errand
<1> HIDE DEF r
<1>5. Stock(conf, versions', ids)
  <2>1. <<>> \in Seq(0 .. MaxSize) /\ conf.kind # "s3"
    OBVIOUS
  <2>2. Stock(conf, {[id |-> D!Null, body |-> <<>>]}, ids)
    BY <1>0, <2>1, OnlyOne
  <2> QED BY <1>0, <1>1, <2>2
<1>6. excused' \in BOOLEAN
  BY <1>0, <1>1, <1>3
<1>7. ~excused' => r.alone
  BY <1>1, <1>4, FtpAlone
<1>8. ASSUME ~excused'
      PROVE  /\ Len(BodyOf(versions')) <= conf.size
             /\ \A i \in 1 .. Len(BodyOf(versions')) : BodyOf(versions')[i] = i
             /\ r.part = Len(BodyOf(versions')) + 1
  <2>1. CASE resume
    <3>1. ~excused
      BY <1>1, <1>8, <2>1
    <3> QED BY <1>1, <1>2, <1>3, <1>4, <2>1, <3>1, RemoteIs
  <2>2. CASE ~resume
    <3>1. Len(BodyOf(versions')) = 0
      BY <1>1, <2>2, NothingYet
    <3> QED BY <1>0, <1>3, <1>4, <2>2, <3>1
  <2> QED BY <1>3, <2>1, <2>2
<1>9. <<r.op, r.at>> \in FtpPlaces
  BY <1>4 DEF FtpPlaces
<1>10. errand[t].op # "none" /\ r.op = errand[t].op /\ r.alone = errand[t].alone /\ r.found = errand[t].found
       /\ r.op # "delete" /\ r.at # "ok"
  BY <1>1, <1>4
<1> QED BY <1>1, <1>4, <1>5, <1>6, <1>7, <1>8, <1>9, <1>10, FtpMoves

\* A piece arrives at its place.
LEMMA SendKeeps ==
  ASSUME Here, NEW t \in Callers, D!Send(t), conf.kind = "ftp"
  PROVE  There
<1> DEFINE x == errand[t]
           n == x.part + 1
           r == [x EXCEPT !.part = n]
           b == Append(D!Remote, x.part)
<1>0. /\ x \in Errand /\ conf \in D!Confs /\ ids \in 0 .. MaxIds /\ excused \in BOOLEAN
      /\ Stock(conf, versions, ids) /\ ~conf.versioned /\ conf.size \in Nat /\ conf.size <= MaxSize
  BY AtFtp
<1>1. /\ x.op = "upload" /\ x.at = "send" /\ x.part <= conf.size
      /\ versions' = {[id |-> D!Null, body |-> b]}
      /\ errand' = [errand EXCEPT ![t] = [x EXCEPT !.part = @ + 1]]
      /\ conf' = conf /\ open' = open /\ ids' = ids /\ excused' = excused
  BY DEF D!Send, D!At, D!Set, D!Put
<1>2. D!Remote = BodyOf(versions) /\ D!Remote \in Seq(0 .. MaxSize)
  BY RemoteIs
<1>3. x.part \in Nat /\ n \in Nat
  BY <1>0 DEF Errand
<1>4. b \in Seq(0 .. MaxSize) /\ Len(b) = Len(D!Remote) + 1
      /\ \A i \in 1 .. Len(b) : b[i] = IF i <= Len(D!Remote) THEN D!Remote[i] ELSE x.part
  <2>1. x.part \in 0 .. MaxSize
    BY <1>0, <1>1, <1>3, BucketBounds
  <2> HIDE DEF x
  <2> QED BY <1>2, <2>1
<1>5. BodyOf(versions') = b /\ Stock(conf, versions', ids)
  <2>1. conf.kind # "s3"
    OBVIOUS
  <2> HIDE DEF b
  <2> QED BY <1>0, <1>1, <1>4, <2>1, OnlyOne
<1>6. /\ r \in Errand /\ r.op = "upload" /\ r.at = "send" /\ r.part = n /\ r.alone = x.alone
      /\ r.found = x.found /\ errand' = [errand EXCEPT ![t] = r]
  <2>1. errand' = [errand EXCEPT ![t] = r]
    BY <1>1
  <2> HIDE DEF x, n
  <2>2. /\ r \in Errand /\ r.op = "upload" /\ r.at = "send" /\ r.part = n /\ r.alone = x.alone
        /\ r.found = x.found
    BY <1>0, <1>1, <1>3 DEF Errand
  <2> QED BY <2>1, <2>2
<1>7. ASSUME ~excused
      PROVE  /\ r.alone /\ Len(b) <= conf.size /\ \A i \in 1 .. Len(b) : b[i] = i
             /\ r.part = Len(b) + 1
  <2>1. x.alone /\ x.part = Len(D!Remote) + 1
    BY <1>1, <1>2, <1>7, FtpAlone
  <2>2. Len(D!Remote) \in Nat /\ \A i \in 1 .. Len(D!Remote) : D!Remote[i] = i
    BY <1>2, <1>7, RemoteIs
  <2> HIDE DEF b, r
  <2>3. \A i \in 1 .. Len(b) : b[i] = i
    BY <1>4, <2>1, <2>2
  <2> QED BY <1>1, <1>4, <1>6, <2>1, <2>2, <2>3
<1> HIDE DEF r, b
<1>8. <<r.op, r.at>> \in FtpPlaces
  BY <1>6 DEF FtpPlaces
<1>9. errand[t].op # "none" /\ r.op = errand[t].op /\ r.alone = errand[t].alone /\ r.found = errand[t].found
       /\ r.op # "delete" /\ r.at # "ok"
  BY <1>1, <1>6
<1>10. ~excused => /\ r.alone /\ Len(BodyOf(versions')) <= conf.size
                   /\ \A i \in 1 .. Len(BodyOf(versions')) : BodyOf(versions')[i] = i
  BY <1>5, <1>7
<1>11. ~excused => r.part = Len(BodyOf(versions')) + 1
  BY <1>5, <1>7
<1> QED BY <1>0, <1>1, <1>5, <1>6, <1>8, <1>9, <1>10, <1>11, FtpMoves

\* All is sent.
LEMMA SentKeeps ==
  ASSUME Here, NEW t \in Callers, D!Sent(t), conf.kind = "ftp"
  PROVE  There
<1> DEFINE x == errand[t]
           r == [x EXCEPT !.at = "ok"]
<1>0. /\ x \in Errand /\ excused \in BOOLEAN /\ Stock(conf, versions, ids) /\ conf.size \in Nat
  BY AtFtp
<1>1. /\ x.op = "upload" /\ x.at = "send" /\ x.part > conf.size
      /\ errand' = [errand EXCEPT ![t] = r]
      /\ conf' = conf /\ versions' = versions /\ open' = open /\ ids' = ids /\ excused' = excused
  BY DEF D!Sent, D!At, D!Go, D!Set, D!store
<1>2. /\ r \in Errand /\ r.op = "upload" /\ r.at = "ok" /\ r.alone = x.alone /\ r.found = x.found
  <2>1. "ok" \in StepNames
    BY DEF StepNames
  <2> HIDE DEF x
  <2> QED BY <1>0, <1>1, <2>1, AtStep
<1> HIDE DEF r
<1>3. ASSUME ~excused
      PROVE  /\ r.alone /\ \A i \in 1 .. Len(BodyOf(versions)) : BodyOf(versions)[i] = i
             /\ Len(BodyOf(versions)) = conf.size
  <2>1. x.alone /\ x.part = Len(BodyOf(versions)) + 1
    BY <1>1, <1>3, FtpAlone
  <2>2. /\ Len(BodyOf(versions)) <= conf.size /\ Len(BodyOf(versions)) \in Nat
        /\ \A i \in 1 .. Len(BodyOf(versions)) : BodyOf(versions)[i] = i
    <3>1. D!Remote = BodyOf(versions) /\ Len(D!Remote) \in Nat
      BY RemoteIs
    <3> QED BY <1>3, <3>1, RemoteIs
  <2> QED BY <1>0, <1>1, <1>2, <2>1, <2>2
<1>8. <<r.op, r.at>> \in FtpPlaces
  BY <1>2 DEF FtpPlaces
<1>9. errand[t].op # "none" /\ r.op = errand[t].op /\ r.alone = errand[t].alone /\ r.found = errand[t].found
       /\ r.op # "delete" /\ r.at # "send" /\ (~excused => Len(BodyOf(versions)) <= conf.size)
  BY <1>0, <1>1, <1>2, <1>3
<1> QED BY <1>0, <1>1, <1>2, <1>3, <1>8, <1>9, FtpMoves

\* The connection breaks.
LEMMA BrokenKeeps ==
  ASSUME Here, NEW t \in Callers, D!Broken(t)
  PROVE  There
<1> DEFINE x == errand[t]
           r == [x EXCEPT !.at = "failed"]
<1>1. /\ conf.kind = "ftp" /\ x.at \in {"size", "send", "remove"}
      /\ errand' = [errand EXCEPT ![t] = r]
      /\ conf' = conf /\ versions' = versions /\ open' = open /\ ids' = ids /\ excused' = excused
  BY DEF D!Broken, D!Go, D!Set, D!store
<1>0. /\ x \in Errand /\ excused \in BOOLEAN /\ Stock(conf, versions, ids) /\ conf.size \in Nat
      /\ <<x.op, x.at>> \in FtpPlaces
  BY <1>1, AtFtp
<1>2. /\ r \in Errand /\ r.op = x.op /\ r.at = "failed" /\ r.alone = x.alone /\ r.found = x.found
  <2>1. "failed" \in StepNames
    BY DEF StepNames
  <2> HIDE DEF x
  <2> QED BY <1>0, <1>1, <2>1, AtStep
<1> HIDE DEF r
<1>3. x.op \in {"upload", "delete"}
  BY <1>0, <1>1 DEF FtpPlaces
<1>4. ~excused => x.alone
  BY <1>1, <1>3, FtpAlone
<1>5. ~excused => /\ Len(BodyOf(versions)) <= conf.size
                  /\ \A i \in 1 .. Len(BodyOf(versions)) : BodyOf(versions)[i] = i
  BY <1>1, RemoteIs
<1>8. <<r.op, r.at>> \in FtpPlaces
  BY <1>2, <1>3 DEF FtpPlaces
<1>9. errand[t].op # "none" /\ r.op = errand[t].op /\ r.alone = errand[t].alone /\ r.found = errand[t].found
       /\ r.at # "send" /\ r.at # "ok" /\ (~excused => r.alone)
  BY <1>2, <1>3, <1>4
<1> QED BY <1>0, <1>1, <1>2, <1>5, <1>8, <1>9, FtpMoves

\* DELE
LEMMA RemoveKeeps ==
  ASSUME Here, NEW t \in Callers, NEW ok \in BOOLEAN, D!Remove(t, ok), conf.kind = "ftp"
  PROVE  There
<1> DEFINE x == errand[t]
           step == IF ok THEN "ok" ELSE "failed"
           r == [x EXCEPT !.at = step]
<1>0. /\ x \in Errand /\ excused \in BOOLEAN /\ Stock(conf, versions, ids) /\ conf.size \in Nat
  BY AtFtp
<1>1. /\ x.op = "delete" /\ x.at = "remove"
      /\ errand' = [errand EXCEPT ![t] = r] /\ excused' = (excused /\ ~x.alone)
      /\ conf' = conf /\ versions' = {} /\ open' = open /\ ids' = ids
  BY DEF D!Remove, D!At, D!Go, D!Set
<1>3. step \in StepNames /\ step \in {"ok", "failed"}
  BY DEF StepNames
<1> HIDE DEF step
<1>2. /\ r \in Errand /\ r.op = "delete" /\ r.at = step /\ r.alone = x.alone /\ r.found = x.found
  <2> HIDE DEF x
  <2> QED BY <1>0, <1>1, <1>3, AtStep
<1> HIDE DEF r
<1>4. ~excused' => x.alone
  BY <1>1, FtpAlone
<1>5. Stock(conf, {}, ids)
  BY <1>0, FewerObjects
<1>6. Len(BodyOf({})) = 0
  BY NothingYet
<1>7. /\ Len(BodyOf({})) <= conf.size /\ \A i \in 1 .. Len(BodyOf({})) : BodyOf({})[i] = i
  BY <1>0, <1>6
<1>8. <<r.op, r.at>> \in FtpPlaces /\ excused' \in BOOLEAN
  BY <1>0, <1>1, <1>2, <1>3 DEF FtpPlaces
<1>9. errand[t].op # "none" /\ r.op = errand[t].op /\ r.alone = errand[t].alone /\ r.found = errand[t].found
       /\ r.op # "upload" /\ (~excused' => r.alone)
  BY <1>1, <1>2, <1>4
<1> QED BY <1>1, <1>2, <1>5, <1>7, <1>8, <1>9, FtpMoves

-----------------------------------------------------------------------------
(***************************************************************************)
(* Every step, and what the invariant gives                                *)
(***************************************************************************)
\* Which of the two a destination is says which actions there are.
LEMMA OnlyOnS3 ==
  ASSUME Here, NEW t \in Callers,
         errand[t].at \in {"create", "put", "part", "complete", "abort", "list", "each", "again", "head",
                         "plain", "uploads", "aborts"}
  PROVE  conf.kind = "s3"
<1>1. conf.kind \in {"s3", "ftp"}
  BY ConfIs DEF Here, DestInv, Setting
<1>2. conf.kind = "ftp" => <<errand[t].op, errand[t].at>> \in FtpPlaces
  BY AtFtp
<1> QED BY <1>1, <1>2 DEF FtpPlaces

\* By FTP
LEMMA OnlyByFtp ==
  ASSUME Here, NEW t \in Callers, errand[t].at \in {"size", "send", "remove"}
  PROVE  conf.kind = "ftp"
<1>1. conf.kind \in {"s3", "ftp"}
  BY ConfIs DEF Here, DestInv, Setting
<1>2. conf.kind = "s3" => <<errand[t].op, errand[t].at>> \in S3Places
  BY AtWork
<1> QED BY <1>1, <1>2 DEF S3Places

\* Any operation begins.
LEMMA BeginsKeep ==
  ASSUME Here, NEW t \in Callers,
         D!UploadS3(t) \/ D!DeleteS3(t) \/ D!Cleanup(t) \/ D!UploadFtp(t) \/ D!DeleteFtp(t)
  PROVE  There
<1>1. CASE D!UploadS3(t)
  <2> DEFINE step == IF conf.size > conf.part THEN "create" ELSE "put"
  <2>1. conf.kind = "s3" /\ D!Begin(t, "upload", step) /\ step \in {"create", "put"}
    BY <1>1 DEF D!UploadS3
  <2> HIDE DEF step
  <2>2. step \in StepNames /\ <<"upload", step>> \in Places(conf)
    BY <2>1 DEF StepNames, Places, S3Places
  <2> QED BY <2>1, <2>2, BeginKeeps
<1>2. CASE D!DeleteS3(t)
  <2>1. D!Begin(t, "delete", "list") /\ "list" \in StepNames /\ <<"delete", "list">> \in Places(conf)
    BY <1>2 DEF D!DeleteS3, StepNames, Places, S3Places
  <2> QED BY <2>1, BeginKeeps
<1>3. CASE D!Cleanup(t)
  <2>1. D!Begin(t, "cleanup", "uploads") /\ "uploads" \in StepNames /\ <<"cleanup", "uploads">> \in Places(conf)
    BY <1>3 DEF D!Cleanup, StepNames, Places, S3Places
  <2> QED BY <2>1, BeginKeeps
<1>4. CASE D!UploadFtp(t)
  <2>1. D!Begin(t, "upload", "size") /\ "size" \in StepNames /\ <<"upload", "size">> \in Places(conf)
    BY <1>4 DEF D!UploadFtp, StepNames, Places, FtpPlaces
  <2> QED BY <2>1, BeginKeeps
<1>5. CASE D!DeleteFtp(t)
  <2>1. D!Begin(t, "delete", "remove") /\ "remove" \in StepNames /\ <<"delete", "remove">> \in Places(conf)
    BY <1>5 DEF D!DeleteFtp, StepNames, Places, FtpPlaces
  <2> QED BY <2>1, BeginKeeps
<1> QED BY <1>1, <1>2, <1>3, <1>4, <1>5

\* The invariant holds at the start.
LEMMA DestBegins ==
  ASSUME D!Init
  PROVE  Here
<1>1. /\ conf \in D!Confs /\ conf.size <= conf.part + 1 /\ versions = {} /\ open = {} /\ ids = 0
      /\ errand = [t \in Callers |-> D!Idle] /\ excused = FALSE
  BY DEF D!Init
<1>2. \A t \in Callers : errand[t] = D!Idle
  BY <1>1
<1>3. D!Idle \in Errand /\ <<D!Idle.op, D!Idle.at>> \in Places(conf) /\ D!Idle.op = "none"
  BY BucketBounds DEF D!Idle, Errand, Places, S3Places, FtpPlaces
<1>4. Crew(conf, errand)
  BY <1>1, <1>2, <1>3 DEF Crew
<1>5. Setting(conf, open, ids, excused)
  <2>1. Uploads({}, 0) /\ 0 \in 0 .. MaxIds
    BY BucketBounds DEF Uploads
  <2> QED BY <1>1, <2>1 DEF Setting
<1>6. Stock(conf, versions, ids)
  BY <1>1, FS_EmptySet DEF Stock
<1>7. Attended(open, errand, excused)
  BY <1>1 DEF Attended
<1>8. Resumes(conf, versions, open, errand, excused)
  <2>1. Len(BodyOf({})) = 0 /\ conf.size \in Nat
    BY <1>1, NothingYet, ConfIs, BucketBounds
  <2> QED BY <1>1, <1>2, <1>3, <2>1 DEF Resumes
<1>9. Comes(D!Idle, conf, versions, open)
  BY DEF Comes, Stands, Clears, Aborts, D!Idle
<1> QED BY <1>2, <1>4, <1>5, <1>6, <1>7, <1>8, <1>9 DEF Here, DestInv

\* The invariant is kept by every step.
LEMMA DestStep ==
  ASSUME Here, [D!Next]_(D!vars)
  PROVE  There
<1>1. CASE D!Die
  BY <1>1, DeathKeeps
<1>2. ASSUME NEW t \in Callers,
             D!UploadS3(t) \/ D!DeleteS3(t) \/ D!Cleanup(t) \/ D!UploadFtp(t) \/ D!DeleteFtp(t)
      PROVE  There
  BY <1>2, BeginsKeep
<1>3. ASSUME NEW t \in Callers, D!Rest(t) PROVE There
  BY <1>3, RestKeeps
<1>4. ASSUME NEW t \in Callers, D!ListPage(t) \/ D!ListEnds(t) \/ D!AskFails(t)
      PROVE  There
  <2>1. conf.kind = "s3"
    BY <1>4, OnlyOnS3 DEF D!ListPage, D!ListEnds, D!AskFails, D!At
  <2> QED BY <1>4, <2>1, ListPageKeeps, ListEndsKeeps, AskFailsKeeps
<1>5. ASSUME NEW t \in Callers, D!Send(t) \/ D!Sent(t) PROVE There
  <2>1. conf.kind = "ftp"
    BY <1>5, OnlyByFtp DEF D!Send, D!Sent, D!At
  <2> QED BY <1>5, <2>1, SendKeeps, SentKeeps
<1>6. ASSUME NEW t \in Callers, D!Broken(t) PROVE There
  BY <1>6, BrokenKeeps
<1>7. ASSUME NEW t \in Callers, NEW ok \in BOOLEAN, D!ListUploads(t, ok) PROVE There
  <2>1. conf.kind = "s3"
    BY <1>7, OnlyOnS3 DEF D!ListUploads, D!At
  <2> QED BY <1>7, <2>1, ListUploadsKeeps
<1>8. ASSUME NEW t \in Callers, NEW ok \in BOOLEAN, D!Remove(t, ok) \/ D!Size(t, ok) PROVE There
  <2>1. conf.kind = "ftp"
    BY <1>8, OnlyByFtp DEF D!Remove, D!Size, D!At
  <2> QED BY <1>8, <2>1, RemoveKeeps, SizeKeeps
<1>9. ASSUME NEW t \in Callers, NEW done \in BOOLEAN, D!Abort(t, done) \/ D!AbortListed(t, done) PROVE There
  <2>1. conf.kind = "s3"
    BY <1>9, OnlyOnS3 DEF D!Abort, D!AbortListed, D!At
  <2> QED BY <1>9, <2>1, AbortKeeps, AbortListedKeeps
<1>10. ASSUME NEW t \in Callers, NEW done \in BOOLEAN, NEW told, D!CompleteMultipart(t, done, told)
       PROVE  There
  <2>1. conf.kind = "s3"
    BY <1>10, OnlyOnS3 DEF D!CompleteMultipart, D!At
  <2> QED BY <1>10, <2>1, CompleteMultipartKeeps
<1>11. ASSUME NEW t \in Callers, NEW done \in BOOLEAN, NEW ok \in BOOLEAN,
              D!PutObject(t, done, ok) \/ D!CreateMultipart(t, done, ok) \/ D!UploadPart(t, done, ok)
       PROVE  There
  <2>1. conf.kind = "s3"
    BY <1>11, OnlyOnS3 DEF D!PutObject, D!CreateMultipart, D!UploadPart, D!At
  <2> QED BY <1>11, <2>1, PutObjectKeeps, CreateMultipartKeeps, UploadPartKeeps
<1>12. ASSUME NEW t \in Callers, NEW done \in BOOLEAN, NEW ok \in BOOLEAN, D!DeletePlain(t, done, ok)
       PROVE  There
  <2>1. conf.kind = "s3"
    BY <1>12, OnlyOnS3 DEF D!DeletePlain, D!At
  <2> QED BY <1>12, <2>1, DeletePlainKeeps
<1>13. ASSUME NEW t \in Callers, NEW done \in BOOLEAN, NEW ok \in BOOLEAN, NEW literal \in BOOLEAN,
              D!DeleteVersion(t, done, ok, literal)
       PROVE  There
  <2>1. conf.kind = "s3"
    BY <1>13, OnlyOnS3 DEF D!DeleteVersion, D!At
  <2> QED BY <1>13, <2>1, DeleteVersionKeeps
<1>14. ASSUME NEW t \in Callers, NEW error \in BOOLEAN, D!ObjectExists(t, error) PROVE There
  <2>1. conf.kind = "s3"
    BY <1>14, OnlyOnS3 DEF D!ObjectExists, D!At
  <2> QED BY <1>14, <2>1, ObjectExistsKeeps
<1>15. CASE UNCHANGED D!vars
  BY <1>15 DEF D!vars, Here, There
<1> QED
  BY <1>1, <1>2, <1>3, <1>4, <1>5, <1>6, <1>7, <1>8, <1>9, <1>10, <1>11, <1>12, <1>13, <1>14, <1>15
     DEF D!Next

\* The whole file
LEMMA WholeFile ==
  ASSUME Here, conf.kind = "ftp", Len(BodyOf(versions)) = conf.size, ~excused
  PROVE  D!Present /\ D!Newest.body = D!File
<1>1. conf \in D!Confs /\ Stock(conf, versions, ids)
  BY DEF Here, DestInv, Setting
<1>2. conf.size \in Nat /\ conf.size # 0
  BY <1>1, ConfIs, BucketBounds
<1>3. D!Remote = BodyOf(versions) /\ D!Remote \in Seq(0 .. MaxSize) /\ \A i \in 1 .. Len(D!Remote) : D!Remote[i] = i
  BY RemoteIs
<1>4. FileOf(conf) \in Seq(0 .. MaxSize) /\ Len(FileOf(conf)) = conf.size
      /\ \A i \in 1 .. conf.size : FileOf(conf)[i] = i
  BY <1>1, FileIs
<1>5. D!Remote = FileOf(conf)
  BY <1>3, <1>4
<1>6. versions # {}
  <2>1. ASSUME versions = {} PROVE FALSE
    BY <1>2, <2>1, NothingYet
  <2> QED BY <2>1
<1>7. D!Newest.body = D!Remote
  BY <1>6 DEF D!Remote
<1>8. D!File = FileOf(conf)
  BY DEF D!File, FileOf
<1> QED BY <1>1, <1>5, <1>6, <1>7, <1>8, FileIs DEF D!Present

\* The invariant gives what the run checks.
LEMMA DestGives ==
  ASSUME Here
  PROVE  D!DestinationHolds
<1>1. conf \in D!Confs /\ ids \in 0 .. MaxIds /\ Stock(conf, versions, ids)
  BY DEF Here, DestInv, Setting
<1>2. D!Newest = Latest(versions) /\ D!File = FileOf(conf)
  BY DEF D!Newest, Latest, D!File, FileOf
<1>3. conf.kind \in {"s3", "ftp"}
  BY <1>1, ConfIs
<1>4. D!TypeOK
  <2>1. Cardinality(D!VersionIds) = Cardinality(versions)
    <3> DEFINE f == [v \in versions |-> v.id]
    <3>1. f \in Bijection(versions, D!VersionIds)
      <4>1. f \in [versions -> D!VersionIds]
        BY DEF D!VersionIds
      <4>2. \A v, w \in versions : f[v] = f[w] => v = w
        BY <1>1 DEF Stock
      <4>3. \A i \in D!VersionIds : \E v \in versions : f[v] = i
        BY DEF D!VersionIds
      <4> HIDE DEF f
      <4> QED BY <4>1, <4>2, <4>3 DEF Bijection, Injection, IsInjective, Surjection
    <3>2. IsFiniteSet(versions)
      BY <1>1 DEF Stock
    <3>3. ExistsBijection(versions, D!VersionIds)
      BY <3>1 DEF ExistsBijection
    <3> QED BY <3>2, <3>3, FS_Bijection
  <2>2. \A K : D!Cardinality(K) = Cardinality(K)
    BY Zenon DEF D!Cardinality, Cardinality
  <2>3. D!Cardinality(D!VersionIds) = D!Cardinality(versions)
    BY <2>1, <2>2, Zenon
  <2> QED BY <1>1, <2>3 DEF D!TypeOK, Stock
<1>5. D!UploadIsWhole
  <2> SUFFICES ASSUME NEW t \in Callers, errand[t].op = "upload", errand[t].at = "ok", errand[t].alone,
                      conf.kind = "ftp" => ~excused
               PROVE  D!Present /\ D!Newest.body = D!File
    BY DEF D!UploadIsWhole, D!At
  <2>1. CASE conf.kind = "s3"
    <3>1. versions # {} /\ Latest(versions).body = FileOf(conf)
      BY <2>1, AtWork DEF Comes, Stands
    <3> QED BY <1>1, <1>2, <3>1, FileIs DEF D!Present
  <2>2. CASE conf.kind = "ftp"
    <3>1. Len(BodyOf(versions)) = conf.size /\ ~excused
      BY <2>2 DEF Here, DestInv, Resumes
    <3> QED BY <2>2, <3>1, WholeFile
  <2> QED BY <1>3, <2>1, <2>2
<1>6. D!NeverShort
  BY <1>1, <1>2 DEF D!NeverShort, Stock
<1>7. D!DeleteIsFinal
  BY DEF D!DeleteIsFinal, D!At, Here, DestInv, Comes, Clears
<1>8. D!NothingLingers
  BY DEF D!NothingLingers, Here, DestInv, Attended
<1> QED BY <1>4, <1>5, <1>6, <1>7, <1>8 DEF D!DestinationHolds

(***************************************************************************)
(* Whatever request is lost before or after it is done, whenever the panel *)
(* dies, and however many are at work on the key: an upload that succeeds  *)
(* alone leaves the whole file (by FTP, unless two wrote at once), and     *)
(* on S3 no version is ever a part of it; a deletion that succeeds alone   *)
(* leaves nothing, or else a HEAD was answered with an error and a delete  *)
(* marker is all there is; and a multipart upload left open still has      *)
(* someone to end it, unless an abort or an answer was lost or the panel   *)
(* died.                                                                   *)
(* (multipartUpload, completeMultipart, delete, cleanupInterruptedUploads, *)
(* upload of the FTP destination)                                          *)
(***************************************************************************)
THEOREM DestinationAlwaysHolds == D!Spec => []DestinationHolds
<1>1. D!Init => Here
  BY DestBegins
<1>2. Here /\ [D!Next]_(D!vars) => Here'
  <2>1. Here' <=> There
    BY DEF Here, There
  <2> QED BY <2>1, DestStep
<1>3. Here => DestinationHolds
  BY DestGives DEF DestinationHolds
<1> QED BY <1>1, <1>2, <1>3, PTL DEF D!Spec
=============================================================================
