----------------------------- MODULE UpkeepProofs -----------------------------
(***************************************************************************)
(* Proofs about Upkeep: SelfUpdate for any number of releases and          *)
(* updaters, Notifications for any conditions and ticks, Settings for any  *)
(* keys, values and builds.                                                *)
(*                                                                         *)
(* The updater runs one of three programs: forward, back from a server     *)
(* that did not become healthy, back from a broker that did not.  The      *)
(* invariant says, for each place in each program, what is known of the    *)
(* two containers and of the sweep of old images there; and that a verdict *)
(* on disk, or in the hands of a reader, is from an earlier updater.       *)
(***************************************************************************)
EXTENDS Upkeep, SequenceTheorems, FiniteSetTheorems, WellFoundedInduction, TLAPS


Forward(to) == Swap("server", to) \o Swap("broker", to) \o End("success")
BackServer(pl) == Recreate("server", pl["server"]) \o End("rolled-back")
BackBoth(pl) ==
  (Recreate("server", pl["server"]) \o Recreate("broker", pl["broker"])) \o End("rolled-back")

\* The updater is about to take step k of the way forward.
OnForward(k) ==
  /\ k \in 1 .. 11 /\ up.todo = SubSeq(Forward(up.to), k, 11)
  /\ k # 3 => Exists("server")
  /\ k # 8 => Exists("broker")
  /\ k >= 4 => box["server"].img = up.to
  /\ k >= 6 => box["server"].st = "healthy"
  /\ k <= 8 => box["broker"].img = up.plan["broker"]
  /\ k \in {8, 9} => ~Runs("broker")
  /\ k >= 9 => box["broker"].img = up.to
  /\ k = 10 => ~aged
  /\ k = 11 => box["broker"].st = "healthy"

\* ... of the way back from the server
OnBackServer(k) ==
  /\ k \in 1 .. 5 /\ up.todo = SubSeq(BackServer(up.plan), k, 5)
  /\ k # 3 => Exists("server")
  /\ Exists("broker")
  /\ k >= 4 => box["server"].img = up.plan["server"]
  /\ k = 5 => Runs("server")
  /\ box["broker"].img = up.plan["broker"]

\* ... of the way back from the broker
OnBackBoth(k) ==
  /\ k \in 1 .. 9 /\ up.todo = SubSeq(BackBoth(up.plan), k, 9)
  /\ k # 3 => Exists("server")
  /\ k # 7 => Exists("broker")
  /\ k >= 4 => box["server"].img = up.plan["server"]
  /\ k >= 5 => Runs("server")
  /\ k <= 6 => ~aged
  /\ k = 7 => ~Runs("broker")
  /\ k >= 8 => box["broker"].img = up.plan["broker"]

OnCourse == up.at = "work" => \E k \in 1 .. 11 : OnForward(k) \/ OnBackServer(k) \/ OnBackBoth(k)

\* A captured plan is what the containers are, until the updater touches them.
AsCaptured == up.at = "plan" => Found = up.plan /\ \A p \in Parts : Exists(p)

\* A container has its image on the host.
ImagesInUse == \A p \in Parts : Exists(p) => <<p, box[p].img>> \in images

\* A verdict is of an updater that is no more, and a plan without a verdict is not of that one.
Read == file.phase = "done" \/ held # {}
Verdicts ==
  /\ file.phase = "done" => plan = {} /\ up.at # "work"
  /\ Read => launches >= 1
  /\ Read /\ (up.at # "none" \/ plan # {}) => launches > 1
  /\ up.at # "none" => launches >= 1

\* The bound on updaters is checked when one is asked for.
Asked == req.at # "none" => launches < MaxLaunches

\* A plan without a verdict is on disk, or was erased by the reader of an earlier one.
PlanOnDisk ==
  \A pl \in plan : (file.phase = "in-progress" /\ file.plan = pl) \/ (erased /\ launches > 1)

\* The updater and the request are records.
UpRow ==
  [at : {"none", "pull", "capture", "plan", "work"}, to : Versions, own : Versions, plan : Plans,
   todo : Seq(Ops)]
ReqRow == [at : {"none", "clear", "launch"}, to : Versions]
Rows == up \in UpRow /\ req \in ReqRow

UInv ==
  /\ TypeOK /\ Rows /\ Asked /\ OnCourse /\ AsCaptured /\ ImagesInUse /\ WayBackKept
  /\ Verdicts /\ VerdictHolds /\ PlanOnDisk

-----------------------------------------------------------------------------
(***************************************************************************)
(* The programs                                                            *)
(***************************************************************************)

\* A call is one.
LEMMA OpType ==
  ASSUME NEW v \in Versions, NEW p \in Parts,
         NEW do \in {"stop", "remove", "create", "start", "healthy"}
  PROVE  Op(do, p, v) \in Ops /\ Op(do, p, v).do = do /\ Op(do, p, v).p = p /\ Op(do, p, v).v = v
BY DEF Op, Ops

\* Two programs, one after the other, are one.
LEMMA Join ==
  ASSUME NEW a \in Seq(Ops), NEW b \in Seq(Ops)
  PROVE  a \o b \in Seq(Ops)
OBVIOUS

\* A verdict is one call.
LEMMA EndType ==
  ASSUME NEW out \in {"success", "rolled-back"}
  PROVE  End(out) \in Seq(Ops)
<1>1. [do |-> "verdict", out |-> out] \in Ops
  BY DEF Ops
<1> QED BY <1>1 DEF End

\* stopAndRemove, createAndStart
LEMMA RecreateType ==
  ASSUME NEW v \in Versions, NEW p \in Parts
  PROVE  Recreate(p, v) \in Seq(Ops)
<1>1. /\ Op("stop", p, v) \in Ops /\ Op("remove", p, v) \in Ops
      /\ Op("create", p, v) \in Ops /\ Op("start", p, v) \in Ops
  BY OpType
<1> QED BY <1>1 DEF Recreate

\* recreateAndWaitHealthy
LEMMA SwapType ==
  ASSUME NEW v \in Versions, NEW p \in Parts
  PROVE  Swap(p, v) \in Seq(Ops)
<1>1. Recreate(p, v) \in Seq(Ops) /\ Op("healthy", p, v) \in Ops
  BY RecreateType, OpType
<1> QED BY <1>1 DEF Swap

\* The way forward, call by call
LEMMA ForwardOps ==
  ASSUME NEW v \in Versions
  PROVE  LET f == Forward(v) IN
         /\ f \in Seq(Ops) /\ Len(f) = 11
         /\ f[1] = Op("stop", "server", v) /\ f[2] = Op("remove", "server", v)
         /\ f[3] = Op("create", "server", v) /\ f[4] = Op("start", "server", v)
         /\ f[5] = Op("healthy", "server", v)
         /\ f[6] = Op("stop", "broker", v) /\ f[7] = Op("remove", "broker", v)
         /\ f[8] = Op("create", "broker", v) /\ f[9] = Op("start", "broker", v)
         /\ f[10] = Op("healthy", "broker", v)
         /\ f[11] = [do |-> "verdict", out |-> "success"]
<1>1. (Swap("server", v) \o Swap("broker", v)) \in Seq(Ops)
  BY SwapType, Join DEF Parts
<1>2. Forward(v) \in Seq(Ops)
  BY <1>1, EndType, Join DEF Forward
<1>3. LET f == Forward(v) IN
         /\ Len(f) = 11
         /\ f[1] = Op("stop", "server", v) /\ f[2] = Op("remove", "server", v)
         /\ f[3] = Op("create", "server", v) /\ f[4] = Op("start", "server", v)
         /\ f[5] = Op("healthy", "server", v)
         /\ f[6] = Op("stop", "broker", v) /\ f[7] = Op("remove", "broker", v)
         /\ f[8] = Op("create", "broker", v) /\ f[9] = Op("start", "broker", v)
         /\ f[10] = Op("healthy", "broker", v)
         /\ f[11] = [do |-> "verdict", out |-> "success"]
  BY DEF Forward, Swap, Recreate, End
<1> QED BY <1>2, <1>3

\* The way back from the server, call by call
LEMMA BackServerOps ==
  ASSUME NEW pl \in Plans
  PROVE  LET f == BackServer(pl)
             v == pl["server"]
         IN
         /\ f \in Seq(Ops) /\ Len(f) = 5
         /\ f[1] = Op("stop", "server", v) /\ f[2] = Op("remove", "server", v)
         /\ f[3] = Op("create", "server", v) /\ f[4] = Op("start", "server", v)
         /\ f[5] = [do |-> "verdict", out |-> "rolled-back"]
<1>1. BackServer(pl) \in Seq(Ops)
  <2>1. pl["server"] \in Versions
    BY DEF Plans, Parts
  <2> QED BY <2>1, RecreateType, EndType, Join DEF Parts, BackServer
<1>2. LET f == BackServer(pl)
          v == pl["server"]
      IN
         /\ Len(f) = 5
         /\ f[1] = Op("stop", "server", v) /\ f[2] = Op("remove", "server", v)
         /\ f[3] = Op("create", "server", v) /\ f[4] = Op("start", "server", v)
         /\ f[5] = [do |-> "verdict", out |-> "rolled-back"]
  BY DEF BackServer, Recreate, End
<1> QED BY <1>1, <1>2

\* The way back from the broker, call by call
LEMMA BackBothOps ==
  ASSUME NEW pl \in Plans
  PROVE  LET f == BackBoth(pl)
             v == pl["server"]
             w == pl["broker"]
         IN
         /\ f \in Seq(Ops) /\ Len(f) = 9
         /\ f[1] = Op("stop", "server", v) /\ f[2] = Op("remove", "server", v)
         /\ f[3] = Op("create", "server", v) /\ f[4] = Op("start", "server", v)
         /\ f[5] = Op("stop", "broker", w) /\ f[6] = Op("remove", "broker", w)
         /\ f[7] = Op("create", "broker", w) /\ f[8] = Op("start", "broker", w)
         /\ f[9] = [do |-> "verdict", out |-> "rolled-back"]
<1>1. BackBoth(pl) \in Seq(Ops)
  <2>1. pl["server"] \in Versions /\ pl["broker"] \in Versions
    BY DEF Plans, Parts
  <2>2. (Recreate("server", pl["server"]) \o Recreate("broker", pl["broker"])) \in Seq(Ops)
    BY <2>1, RecreateType, Join DEF Parts
  <2> QED BY <2>2, EndType, Join DEF BackBoth
<1>2. LET f == BackBoth(pl)
          v == pl["server"]
          w == pl["broker"]
      IN
         /\ Len(f) = 9
         /\ f[1] = Op("stop", "server", v) /\ f[2] = Op("remove", "server", v)
         /\ f[3] = Op("create", "server", v) /\ f[4] = Op("start", "server", v)
         /\ f[5] = Op("stop", "broker", w) /\ f[6] = Op("remove", "broker", w)
         /\ f[7] = Op("create", "broker", w) /\ f[8] = Op("start", "broker", w)
         /\ f[9] = [do |-> "verdict", out |-> "rolled-back"]
  BY DEF BackBoth, Recreate, End
<1> QED BY <1>1, <1>2

\* What is left of a program at place k
LEMMA LeftOver ==
  ASSUME NEW f \in Seq(Ops), NEW n \in Nat, Len(f) = n, NEW k \in 1 .. n
  PROVE  /\ Head(SubSeq(f, k, n)) = f[k]
         /\ Tail(SubSeq(f, k, n)) = SubSeq(f, k + 1, n)
         /\ SubSeq(f, k, n) \in Seq(Ops) /\ SubSeq(f, k + 1, n) \in Seq(Ops)
         /\ SubSeq(f, 1, n) = f
<1>1. Head(SubSeq(f, k, n)) = f[k] /\ Tail(SubSeq(f, k, n)) = SubSeq(f, k + 1, n)
  <2>1. k \in 1 .. Len(f) /\ n \in k .. Len(f)
    OBVIOUS
  <2> QED BY <2>1, HeadTailOfSubSeq
<1>2. PICK s : s = SubSeq(f, k, n)
  OBVIOUS
<1>3. s \in Seq(Ops) /\ Len(s) = n - k + 1 /\ \A i \in 1 .. n - k + 1 : s[i] = f[k + i - 1]
  <2>1. \A i \in k .. n : f[i] \in Ops
    OBVIOUS
  <2> QED BY <1>2, <2>1, SubSeqProperties
<1>4. SubSeq(f, k + 1, n) \in Seq(Ops)
  <2>1. \A i \in k + 1 .. n : f[i] \in Ops
    OBVIOUS
  <2> QED BY <2>1, SubSeqProperties
<1>5. SubSeq(f, 1, n) = f
  BY SubSeqFull
<1> QED BY <1>1, <1>2, <1>3, <1>4, <1>5

\* A call of a program is one.
LEMMA Entry ==
  ASSUME NEW f \in Seq(Ops), NEW i \in 1 .. Len(f)
  PROVE  f[i] \in Ops
OBVIOUS

\* What the updater does next
HeadIs(do, p, v) == Head(up.todo).do = do /\ Head(up.todo).p = p /\ Head(up.todo).v = v
Ends(out) == Head(up.todo).do = "verdict" /\ Head(up.todo).out = out
BrokerIsLeft == \E i \in DOMAIN up.todo : up.todo[i].do # "verdict" /\ up.todo[i].p = "broker"


\* At a place of the way forward
LEMMA ForwardPlace ==
  ASSUME Rows, NEW k, OnForward(k)
  PROVE  /\ Tail(up.todo) = SubSeq(Forward(up.to), k + 1, 11) /\ Tail(up.todo) \in Seq(Ops)
         /\ k = 1 => HeadIs("stop", "server", up.to)
         /\ k = 2 => HeadIs("remove", "server", up.to)
         /\ k = 3 => HeadIs("create", "server", up.to)
         /\ k = 4 => HeadIs("start", "server", up.to)
         /\ k = 5 => HeadIs("healthy", "server", up.to)
         /\ k = 6 => HeadIs("stop", "broker", up.to)
         /\ k = 7 => HeadIs("remove", "broker", up.to)
         /\ k = 8 => HeadIs("create", "broker", up.to)
         /\ k = 9 => HeadIs("start", "broker", up.to)
         /\ k = 10 => HeadIs("healthy", "broker", up.to)
         /\ k = 11 => Ends("success")
         /\ k <= 10 => BrokerIsLeft
<1>1. up.to \in Versions
  BY DEF Rows, UpRow
<1>2. PICK f : f = Forward(up.to)
  OBVIOUS
<1>3. f \in Seq(Ops) /\ Len(f) = 11
  BY <1>1, <1>2, ForwardOps
<1>4. k \in 1 .. 11 /\ up.todo = SubSeq(f, k, 11)
  BY <1>2 DEF OnForward
<1>5. Head(up.todo) = f[k] /\ Tail(up.todo) = SubSeq(f, k + 1, 11) /\ Tail(up.todo) \in Seq(Ops)
  <2>1. Head(up.todo) = f[k] /\ Tail(up.todo) = SubSeq(f, k + 1, 11)
    BY <1>3, <1>4, LeftOver
  <2>2. SubSeq(f, k + 1, 11) \in Seq(Ops)
    BY <1>3, <1>4, LeftOver
  <2> QED BY <2>1, <2>2
<1>6. /\ f[1] = Op("stop", "server", up.to) /\ f[2] = Op("remove", "server", up.to)
      /\ f[3] = Op("create", "server", up.to) /\ f[4] = Op("start", "server", up.to)
      /\ f[5] = Op("healthy", "server", up.to)
      /\ f[6] = Op("stop", "broker", up.to) /\ f[7] = Op("remove", "broker", up.to)
      /\ f[8] = Op("create", "broker", up.to) /\ f[9] = Op("start", "broker", up.to)
      /\ f[10] = Op("healthy", "broker", up.to)
      /\ f[11] = [do |-> "verdict", out |-> "success"]
  BY <1>1, <1>2, ForwardOps
<1>7. k <= 10 => BrokerIsLeft
  <2> HAVE k <= 10
  <2>1. PICK i \in DOMAIN up.todo : up.todo[i] = f[10]
    <3>1. \A i \in k .. 11 : f[i] \in Ops
      <4> TAKE i \in k .. 11
      <4>1. i \in 1 .. 11
        BY <1>4
      <4> QED BY <1>3, <4>1, Entry
    <3>2. /\ up.todo \in Seq(Ops) /\ Len(up.todo) = 11 - k + 1
          /\ \A i \in 1 .. 11 - k + 1 : up.todo[i] = f[k + i - 1]
      BY <1>4, <3>1, SubSeqProperties
    <3>3. 10 - k + 1 \in 1 .. 11 - k + 1 /\ k + (10 - k + 1) - 1 = 10
      BY <1>4
    <3>4. up.todo[10 - k + 1] = f[10] /\ 10 - k + 1 \in DOMAIN up.todo
      BY <3>2, <3>3
    <3> QED BY <3>4
  <2>2. f[10].do = "healthy" /\ f[10].p = "broker"
    BY <1>6 DEF Op
  <2> QED BY <2>1, <2>2 DEF BrokerIsLeft
<1>8. k = 11 => Ends("success")
  BY <1>5, <1>6 DEF Ends
<1>9. /\ k = 1 => HeadIs("stop", "server", up.to)
      /\ k = 2 => HeadIs("remove", "server", up.to)
      /\ k = 3 => HeadIs("create", "server", up.to)
      /\ k = 4 => HeadIs("start", "server", up.to)
      /\ k = 5 => HeadIs("healthy", "server", up.to)
  BY <1>5, <1>6 DEF HeadIs, Op
<1>10. /\ k = 6 => HeadIs("stop", "broker", up.to)
       /\ k = 7 => HeadIs("remove", "broker", up.to)
       /\ k = 8 => HeadIs("create", "broker", up.to)
       /\ k = 9 => HeadIs("start", "broker", up.to)
       /\ k = 10 => HeadIs("healthy", "broker", up.to)
  BY <1>5, <1>6 DEF HeadIs, Op
<1> QED BY <1>2, <1>5, <1>7, <1>8, <1>9, <1>10

\* ... of the way back from the server
LEMMA BackServerPlace ==
  ASSUME Rows, NEW k, OnBackServer(k)
  PROVE  /\ Tail(up.todo) = SubSeq(BackServer(up.plan), k + 1, 5) /\ Tail(up.todo) \in Seq(Ops)
         /\ k = 1 => HeadIs("stop", "server", up.plan["server"])
         /\ k = 2 => HeadIs("remove", "server", up.plan["server"])
         /\ k = 3 => HeadIs("create", "server", up.plan["server"])
         /\ k = 4 => HeadIs("start", "server", up.plan["server"])
         /\ k = 5 => Ends("rolled-back")
<1>1. up.plan \in Plans
  BY DEF Rows, UpRow
<1>2. PICK f : f = BackServer(up.plan)
  OBVIOUS
<1>3. f \in Seq(Ops) /\ Len(f) = 5
  BY <1>1, <1>2, BackServerOps
<1>4. k \in 1 .. 5 /\ up.todo = SubSeq(f, k, 5)
  BY <1>2 DEF OnBackServer
<1>5. Head(up.todo) = f[k] /\ Tail(up.todo) = SubSeq(f, k + 1, 5) /\ Tail(up.todo) \in Seq(Ops)
  <2>1. Head(up.todo) = f[k] /\ Tail(up.todo) = SubSeq(f, k + 1, 5)
    BY <1>3, <1>4, LeftOver
  <2>2. SubSeq(f, k + 1, 5) \in Seq(Ops)
    BY <1>3, <1>4, LeftOver
  <2> QED BY <2>1, <2>2
<1>6. /\ f[1] = Op("stop", "server", up.plan["server"])
      /\ f[2] = Op("remove", "server", up.plan["server"])
      /\ f[3] = Op("create", "server", up.plan["server"])
      /\ f[4] = Op("start", "server", up.plan["server"])
      /\ f[5] = [do |-> "verdict", out |-> "rolled-back"]
  BY <1>1, <1>2, BackServerOps
<1>7. k = 5 => Ends("rolled-back")
  BY <1>5, <1>6 DEF Ends
<1>8. /\ k = 1 => HeadIs("stop", "server", up.plan["server"])
      /\ k = 2 => HeadIs("remove", "server", up.plan["server"])
      /\ k = 3 => HeadIs("create", "server", up.plan["server"])
      /\ k = 4 => HeadIs("start", "server", up.plan["server"])
  BY <1>5, <1>6 DEF HeadIs, Op
<1> QED BY <1>2, <1>5, <1>7, <1>8

\* ... of the way back from the broker
LEMMA BackBothPlace ==
  ASSUME Rows, NEW k, OnBackBoth(k)
  PROVE  /\ Tail(up.todo) = SubSeq(BackBoth(up.plan), k + 1, 9) /\ Tail(up.todo) \in Seq(Ops)
         /\ k = 1 => HeadIs("stop", "server", up.plan["server"])
         /\ k = 2 => HeadIs("remove", "server", up.plan["server"])
         /\ k = 3 => HeadIs("create", "server", up.plan["server"])
         /\ k = 4 => HeadIs("start", "server", up.plan["server"])
         /\ k = 5 => HeadIs("stop", "broker", up.plan["broker"])
         /\ k = 6 => HeadIs("remove", "broker", up.plan["broker"])
         /\ k = 7 => HeadIs("create", "broker", up.plan["broker"])
         /\ k = 8 => HeadIs("start", "broker", up.plan["broker"])
         /\ k = 9 => Ends("rolled-back")
         /\ k <= 8 => BrokerIsLeft
<1>1. up.plan \in Plans
  BY DEF Rows, UpRow
<1>2. PICK f : f = BackBoth(up.plan)
  OBVIOUS
<1>3. f \in Seq(Ops) /\ Len(f) = 9
  BY <1>1, <1>2, BackBothOps
<1>4. k \in 1 .. 9 /\ up.todo = SubSeq(f, k, 9)
  BY <1>2 DEF OnBackBoth
<1>5. Head(up.todo) = f[k] /\ Tail(up.todo) = SubSeq(f, k + 1, 9) /\ Tail(up.todo) \in Seq(Ops)
  <2>1. Head(up.todo) = f[k] /\ Tail(up.todo) = SubSeq(f, k + 1, 9)
    BY <1>3, <1>4, LeftOver
  <2>2. SubSeq(f, k + 1, 9) \in Seq(Ops)
    BY <1>3, <1>4, LeftOver
  <2> QED BY <2>1, <2>2
<1>6. /\ f[1] = Op("stop", "server", up.plan["server"])
      /\ f[2] = Op("remove", "server", up.plan["server"])
      /\ f[3] = Op("create", "server", up.plan["server"])
      /\ f[4] = Op("start", "server", up.plan["server"])
      /\ f[5] = Op("stop", "broker", up.plan["broker"])
      /\ f[6] = Op("remove", "broker", up.plan["broker"])
      /\ f[7] = Op("create", "broker", up.plan["broker"])
      /\ f[8] = Op("start", "broker", up.plan["broker"])
      /\ f[9] = [do |-> "verdict", out |-> "rolled-back"]
  BY <1>1, <1>2, BackBothOps
<1>7. k <= 8 => BrokerIsLeft
  <2> HAVE k <= 8
  <2>1. PICK i \in DOMAIN up.todo : up.todo[i] = f[8]
    <3>1. \A i \in k .. 9 : f[i] \in Ops
      <4> TAKE i \in k .. 9
      <4>1. i \in 1 .. 9
        BY <1>4
      <4> QED BY <1>3, <4>1, Entry
    <3>2. /\ up.todo \in Seq(Ops) /\ Len(up.todo) = 9 - k + 1
          /\ \A i \in 1 .. 9 - k + 1 : up.todo[i] = f[k + i - 1]
      BY <1>4, <3>1, SubSeqProperties
    <3>3. 8 - k + 1 \in 1 .. 9 - k + 1 /\ k + (8 - k + 1) - 1 = 8
      BY <1>4
    <3>4. up.todo[8 - k + 1] = f[8] /\ 8 - k + 1 \in DOMAIN up.todo
      BY <3>2, <3>3
    <3> QED BY <3>4
  <2>2. f[8].do = "start" /\ f[8].p = "broker"
    BY <1>6 DEF Op
  <2> QED BY <2>1, <2>2 DEF BrokerIsLeft
<1>8. k = 9 => Ends("rolled-back")
  BY <1>5, <1>6 DEF Ends
<1>9. /\ k = 1 => HeadIs("stop", "server", up.plan["server"])
      /\ k = 2 => HeadIs("remove", "server", up.plan["server"])
      /\ k = 3 => HeadIs("create", "server", up.plan["server"])
      /\ k = 4 => HeadIs("start", "server", up.plan["server"])
  BY <1>5, <1>6 DEF HeadIs, Op
<1>10. /\ k = 5 => HeadIs("stop", "broker", up.plan["broker"])
       /\ k = 6 => HeadIs("remove", "broker", up.plan["broker"])
       /\ k = 7 => HeadIs("create", "broker", up.plan["broker"])
       /\ k = 8 => HeadIs("start", "broker", up.plan["broker"])
  BY <1>5, <1>6 DEF HeadIs, Op
<1> QED BY <1>2, <1>5, <1>7, <1>8, <1>9, <1>10

-----------------------------------------------------------------------------
(***************************************************************************)
(* The updater's calls                                                     *)
(***************************************************************************)

\* What an updater at work is about to do
LEMMA OnSomeCourse ==
  ASSUME UInv, up.at = "work"
  PROVE  \E k : OnForward(k) \/ OnBackServer(k) \/ OnBackBoth(k)
BY DEF UInv, OnCourse

\* A call is of one of the two containers, and names a version.
LEMMA CallType ==
  ASSUME UInv, up.at = "work", ~Doing("verdict")
  PROVE  /\ Head(up.todo).p \in Parts /\ Head(up.todo).v \in Versions
         /\ Tail(up.todo) \in Seq(Ops)
<1>1. PICK k : OnForward(k) \/ OnBackServer(k) \/ OnBackBoth(k)
  BY OnSomeCourse
<1>2. Rows
  BY DEF UInv
<1>3. up.to \in Versions /\ up.plan["server"] \in Versions /\ up.plan["broker"] \in Versions
  BY <1>2 DEF Rows, UpRow, Plans, Parts
<1>4. CASE OnForward(k)
  <2>1. k \in 1 .. 11
    BY <1>4 DEF OnForward
  <2>2. Tail(up.todo) \in Seq(Ops)
    BY <1>2, <1>4, ForwardPlace
  <2>3. k # 11
    BY <1>2, <1>4, ForwardPlace DEF Ends, Doing
  <2>4. Head(up.todo).p \in Parts /\ Head(up.todo).v \in Versions
    BY <1>2, <1>3, <1>4, <2>1, <2>3, ForwardPlace DEF HeadIs, Parts
  <2> QED BY <2>2, <2>4
<1>5. CASE OnBackServer(k)
  <2>1. k \in 1 .. 5
    BY <1>5 DEF OnBackServer
  <2>2. Tail(up.todo) \in Seq(Ops)
    BY <1>2, <1>5, BackServerPlace
  <2>3. k # 5
    BY <1>2, <1>5, BackServerPlace DEF Ends, Doing
  <2>4. Head(up.todo).p \in Parts /\ Head(up.todo).v \in Versions
    BY <1>2, <1>3, <1>5, <2>1, <2>3, BackServerPlace DEF HeadIs, Parts
  <2> QED BY <2>2, <2>4
<1>6. CASE OnBackBoth(k)
  <2>1. k \in 1 .. 9
    BY <1>6 DEF OnBackBoth
  <2>2. Tail(up.todo) \in Seq(Ops)
    BY <1>2, <1>6, BackBothPlace
  <2>3. k # 9
    BY <1>2, <1>6, BackBothPlace DEF Ends, Doing
  <2>4. Head(up.todo).p \in Parts /\ Head(up.todo).v \in Versions
    BY <1>2, <1>3, <1>6, <2>1, <2>3, BackBothPlace DEF HeadIs, Parts
  <2> QED BY <2>2, <2>4
<1> QED BY <1>1, <1>4, <1>5, <1>6

\* A call to Docker that leaves images and file alone: what its course must show
LEMMA CallStep ==
  ASSUME UInv, up.at = "work", ~Doing("verdict"), Advance,
         box' \in [Parts -> Boxes], aged' \in BOOLEAN, OnCourse', ImagesInUse',
         job' \in {"none", "running", "asked", "orphan", "succeeded", "failed"},
         req' = req \/ req' = NoRequest, held' \subseteq held,
         UNCHANGED <<latest, images, file, page, launches, plan, erased>>
  PROVE  UInv'
<1>0. /\ TypeOK /\ Rows /\ Asked /\ WayBackKept /\ Verdicts /\ PlanOnDisk
      /\ Tail(up.todo) \in Seq(Ops)
  BY CallType DEF UInv
<1>1. up' = [up EXCEPT !.todo = Tail(up.todo)]
  BY DEF Advance
<1>2. /\ up' \in UpRow /\ up'.at = "work" /\ up'.to = up.to /\ up'.own = up.own
      /\ up'.plan = up.plan /\ up'.todo = Tail(up.todo)
  BY <1>0, <1>1 DEF Rows, UpRow
<1>3. req' \in ReqRow /\ (req'.at = req.at \/ req'.at = "none")
  <2>1. NoRequest \in ReqRow /\ NoRequest.at = "none"
    BY BoundAssumption DEF NoRequest, ReqRow, Versions
  <2> QED BY <1>0, <2>1 DEF Rows
<1>4. TypeOK'
  <2>1. held' \subseteq Files
    BY <1>0 DEF TypeOK
  <2>2. req'.at \in {"none", "clear", "launch"} /\ req'.to \in Versions
    BY <1>3 DEF ReqRow
  <2>3. /\ up'.at \in {"none", "pull", "capture", "plan", "work"}
        /\ up'.to \in Versions /\ up'.own \in Versions /\ up'.plan \in Plans /\ up'.todo \in Seq(Ops)
    BY <1>2 DEF UpRow
  <2> QED BY <1>0, <2>1, <2>2, <2>3 DEF TypeOK
<1>5. Rows' /\ Asked'
  BY <1>0, <1>2, <1>3 DEF Rows, Asked
<1>6. AsCaptured'
  BY <1>2 DEF AsCaptured
<1>7. WayBackKept'
  BY <1>0, <1>2 DEF WayBackKept
<1>8. file.phase # "done"
  BY <1>0 DEF Verdicts
<1>9. VerdictHolds'
  BY <1>8 DEF VerdictHolds
<1>10. Verdicts'
  BY <1>0, <1>2, <1>8 DEF Verdicts, Read
<1>11. PlanOnDisk'
  BY <1>0 DEF PlanOnDisk
<1> QED BY <1>4, <1>5, <1>6, <1>7, <1>9, <1>10, <1>11 DEF UInv

\* A container gets into another state.
LEMMA BoxState ==
  ASSUME TypeOK, NEW p \in Parts, NEW s \in {"gone", "down", "up", "healthy"},
         box' = [box EXCEPT ![p].st = s]
  PROVE  /\ box' \in [Parts -> Boxes]
         /\ box'[p].st = s /\ box'[p].img = box[p].img
         /\ \A q \in Parts : q # p => box'[q] = box[q]
BY DEF TypeOK, Boxes

\* What a call advances to, on each course
LEMMA Advances ==
  ASSUME UInv, up.at = "work", Advance, NEW k
  PROVE  /\ up'.at = "work" /\ up'.to = up.to /\ up'.plan = up.plan
         /\ OnForward(k) => up'.todo = SubSeq(Forward(up'.to), k + 1, 11)
         /\ OnBackServer(k) => up'.todo = SubSeq(BackServer(up'.plan), k + 1, 5)
         /\ OnBackBoth(k) => up'.todo = SubSeq(BackBoth(up'.plan), k + 1, 9)
<1>1. Rows
  BY DEF UInv
<1>2. up' = [up EXCEPT !.todo = Tail(up.todo)]
  BY DEF Advance
<1>3. up'.at = "work" /\ up'.to = up.to /\ up'.plan = up.plan /\ up'.todo = Tail(up.todo)
  BY <1>1, <1>2 DEF Rows, UpRow
<1>4. OnForward(k) => up'.todo = SubSeq(Forward(up'.to), k + 1, 11)
  BY <1>1, <1>3, ForwardPlace
<1>5. OnBackServer(k) => up'.todo = SubSeq(BackServer(up'.plan), k + 1, 5)
  BY <1>1, <1>3, BackServerPlace
<1>6. OnBackBoth(k) => up'.todo = SubSeq(BackBoth(up'.plan), k + 1, 9)
  BY <1>1, <1>3, BackBothPlace
<1> QED BY <1>3, <1>4, <1>5, <1>6

\* Where an updater is that stops, removes, creates, starts or waits for a container
LEMMA Places ==
  ASSUME UInv, up.at = "work", NEW k
  PROVE  /\ OnForward(k) => /\ k \in 1 .. 11
                            /\ Doing("stop") => (k = 1 /\ On = "server") \/ (k = 6 /\ On = "broker")
                            /\ Doing("remove") => (k = 2 /\ On = "server") \/ (k = 7 /\ On = "broker")
                            /\ Doing("create") => (k = 3 /\ On = "server") \/ (k = 8 /\ On = "broker")
                            /\ Doing("start") => (k = 4 /\ On = "server") \/ (k = 9 /\ On = "broker")
                            /\ Doing("healthy") => (k = 5 /\ On = "server") \/ (k = 10 /\ On = "broker")
                            /\ k < 11 => Head(up.todo).v = up.to
                            /\ Doing("verdict") => k = 11 /\ Head(up.todo).out = "success"
         /\ OnBackServer(k) => /\ k \in 1 .. 5
                               /\ Doing("stop") => k = 1 /\ On = "server"
                               /\ Doing("remove") => k = 2 /\ On = "server"
                               /\ Doing("create") => k = 3 /\ On = "server"
                               /\ Doing("start") => k = 4 /\ On = "server"
                               /\ ~Doing("healthy")
                               /\ k < 5 => Head(up.todo).v = up.plan["server"]
                               /\ Doing("verdict") => k = 5 /\ Head(up.todo).out = "rolled-back"
         /\ OnBackBoth(k) => /\ k \in 1 .. 9
                             /\ Doing("stop") => (k = 1 /\ On = "server") \/ (k = 5 /\ On = "broker")
                             /\ Doing("remove") => (k = 2 /\ On = "server") \/ (k = 6 /\ On = "broker")
                             /\ Doing("create") => (k = 3 /\ On = "server") \/ (k = 7 /\ On = "broker")
                             /\ Doing("start") => (k = 4 /\ On = "server") \/ (k = 8 /\ On = "broker")
                             /\ ~Doing("healthy")
                             /\ k < 5 => Head(up.todo).v = up.plan["server"]
                             /\ k \in 5 .. 8 => Head(up.todo).v = up.plan["broker"]
                             /\ Doing("verdict") => k = 9 /\ Head(up.todo).out = "rolled-back"
<1>1. Rows
  BY DEF UInv
<1>2. OnForward(k) => /\ k \in 1 .. 11
                      /\ Doing("stop") => (k = 1 /\ On = "server") \/ (k = 6 /\ On = "broker")
                      /\ Doing("remove") => (k = 2 /\ On = "server") \/ (k = 7 /\ On = "broker")
                      /\ Doing("create") => (k = 3 /\ On = "server") \/ (k = 8 /\ On = "broker")
                      /\ Doing("start") => (k = 4 /\ On = "server") \/ (k = 9 /\ On = "broker")
                      /\ Doing("healthy") => (k = 5 /\ On = "server") \/ (k = 10 /\ On = "broker")
                      /\ k < 11 => Head(up.todo).v = up.to
                      /\ Doing("verdict") => k = 11 /\ Head(up.todo).out = "success"
  <2> HAVE OnForward(k)
  <2>1. k \in 1 .. 11
    BY DEF OnForward
  <2>0. k \in {1, 2, 3, 4, 5, 6, 7, 8, 9, 10, 11}
    BY <2>1
  <2>2. CASE k = 1
    BY <1>1, <2>2, ForwardPlace DEF HeadIs, Ends, Doing, On
  <2>3. CASE k = 2
    BY <1>1, <2>3, ForwardPlace DEF HeadIs, Ends, Doing, On
  <2>4. CASE k = 3
    BY <1>1, <2>4, ForwardPlace DEF HeadIs, Ends, Doing, On
  <2>5. CASE k = 4
    BY <1>1, <2>5, ForwardPlace DEF HeadIs, Ends, Doing, On
  <2>6. CASE k = 5
    BY <1>1, <2>6, ForwardPlace DEF HeadIs, Ends, Doing, On
  <2>7. CASE k = 6
    BY <1>1, <2>7, ForwardPlace DEF HeadIs, Ends, Doing, On
  <2>8. CASE k = 7
    BY <1>1, <2>8, ForwardPlace DEF HeadIs, Ends, Doing, On
  <2>9. CASE k = 8
    BY <1>1, <2>9, ForwardPlace DEF HeadIs, Ends, Doing, On
  <2>10. CASE k = 9
    BY <1>1, <2>10, ForwardPlace DEF HeadIs, Ends, Doing, On
  <2>11. CASE k = 10
    BY <1>1, <2>11, ForwardPlace DEF HeadIs, Ends, Doing, On
  <2>12. CASE k = 11
    BY <1>1, <2>12, ForwardPlace DEF HeadIs, Ends, Doing, On
  <2> QED BY <2>0, <2>2, <2>3, <2>4, <2>5, <2>6, <2>7, <2>8, <2>9, <2>10, <2>11, <2>12
<1>3. OnBackServer(k) => /\ k \in 1 .. 5
                         /\ Doing("stop") => k = 1 /\ On = "server"
                         /\ Doing("remove") => k = 2 /\ On = "server"
                         /\ Doing("create") => k = 3 /\ On = "server"
                         /\ Doing("start") => k = 4 /\ On = "server"
                         /\ ~Doing("healthy")
                         /\ k < 5 => Head(up.todo).v = up.plan["server"]
                         /\ Doing("verdict") => k = 5 /\ Head(up.todo).out = "rolled-back"
  <2> HAVE OnBackServer(k)
  <2>1. k \in 1 .. 5
    BY DEF OnBackServer
  <2> QED BY <1>1, <2>1, BackServerPlace DEF HeadIs, Ends, Doing, On
<1>4. OnBackBoth(k) => /\ k \in 1 .. 9
                       /\ Doing("stop") => (k = 1 /\ On = "server") \/ (k = 5 /\ On = "broker")
                       /\ Doing("remove") => (k = 2 /\ On = "server") \/ (k = 6 /\ On = "broker")
                       /\ Doing("create") => (k = 3 /\ On = "server") \/ (k = 7 /\ On = "broker")
                       /\ Doing("start") => (k = 4 /\ On = "server") \/ (k = 8 /\ On = "broker")
                       /\ ~Doing("healthy")
                       /\ k < 5 => Head(up.todo).v = up.plan["server"]
                       /\ k \in 5 .. 8 => Head(up.todo).v = up.plan["broker"]
                       /\ Doing("verdict") => k = 9 /\ Head(up.todo).out = "rolled-back"
  <2> HAVE OnBackBoth(k)
  <2>1. k \in 1 .. 9
    BY DEF OnBackBoth
  <2>0. k \in {1, 2, 3, 4, 5, 6, 7, 8, 9}
    BY <2>1
  <2>2. CASE k = 1
    BY <1>1, <2>2, BackBothPlace DEF HeadIs, Ends, Doing, On
  <2>3. CASE k = 2
    BY <1>1, <2>3, BackBothPlace DEF HeadIs, Ends, Doing, On
  <2>4. CASE k = 3
    BY <1>1, <2>4, BackBothPlace DEF HeadIs, Ends, Doing, On
  <2>5. CASE k = 4
    BY <1>1, <2>5, BackBothPlace DEF HeadIs, Ends, Doing, On
  <2>6. CASE k = 5
    BY <1>1, <2>6, BackBothPlace DEF HeadIs, Ends, Doing, On
  <2>7. CASE k = 6
    BY <1>1, <2>7, BackBothPlace DEF HeadIs, Ends, Doing, On
  <2>8. CASE k = 7
    BY <1>1, <2>8, BackBothPlace DEF HeadIs, Ends, Doing, On
  <2>9. CASE k = 8
    BY <1>1, <2>9, BackBothPlace DEF HeadIs, Ends, Doing, On
  <2>10. CASE k = 9
    BY <1>1, <2>10, BackBothPlace DEF HeadIs, Ends, Doing, On
  <2> QED BY <2>0, <2>2, <2>3, <2>4, <2>5, <2>6, <2>7, <2>8, <2>9, <2>10
<1> QED BY <1>2, <1>3, <1>4

\* What Killed leaves
LEMMA KilledType ==
  ASSUME TypeOK, Rows, NEW p, Killed(p)
  PROVE  /\ job' \in {"none", "running", "asked", "orphan", "succeeded", "failed"}
         /\ (req' = req \/ req' = NoRequest) /\ held' \subseteq held
BY DEF TypeOK, Killed

\* A container is stopped, or the call fails.
LEMMA StopStep ==
  ASSUME UInv, Stop \/ StopFails
  PROVE  UInv'
<1>0. TypeOK /\ Rows /\ ImagesInUse /\ up.at = "work" /\ Doing("stop") /\ Advance /\ aged' = aged
  BY DEF UInv, Stop, StopFails, Doing, docker
<1>1. ~Doing("verdict")
  BY <1>0 DEF Doing
<1>2. PICK k : OnForward(k) \/ OnBackServer(k) \/ OnBackBoth(k)
  BY <1>0, OnSomeCourse
<1>3. On \in Parts
  BY <1>0, <1>1, CallType DEF On
<1>4. PICK s \in {"gone", "down", "up", "healthy"} : box' = [box EXCEPT ![On].st = s] /\ (s = "down" \/ box' = box)
  <2>1. CASE Stop
    BY <2>1 DEF Stop
  <2>2. CASE StopFails
    <3>1. box[On].st \in {"gone", "down", "up", "healthy"} /\ box' = [box EXCEPT ![On].st = box[On].st]
      BY <1>0, <1>3, <2>2 DEF StopFails, docker, TypeOK, Boxes
    <3> QED BY <2>2, <3>1 DEF StopFails, docker
  <2> QED BY <2>1, <2>2
<1>5. /\ box' \in [Parts -> Boxes] /\ box'[On].st = s /\ box'[On].img = box[On].img
      /\ \A q \in Parts : q # On => box'[q] = box[q]
  BY <1>0, <1>3, <1>4, BoxState
<1>10. /\ On = "server" => /\ box'["broker"] = box["broker"] /\ box'["server"].img = box["server"].img
                           /\ Exists("server") => box'["server"].st # "gone"
       /\ On = "broker" => /\ box'["server"] = box["server"] /\ box'["broker"].img = box["broker"].img
                           /\ Exists("broker") => box'["broker"].st # "gone"
  <2>1. Exists(On) => box'[On].st # "gone"
    BY <1>4, <1>5 DEF Exists
  <2>2. CASE On = "server"
    BY <1>5, <2>1, <2>2 DEF Parts
  <2>3. CASE On = "broker"
    BY <1>5, <2>1, <2>3 DEF Parts
  <2> QED BY <2>2, <2>3
<1>6. OnCourse' /\ Exists(On)
  <2>1. CASE OnForward(k)
    <3>1. (k = 1 /\ On = "server") \/ (k = 6 /\ On = "broker")
      BY <1>0, <2>1, Places
    <3>2. up'.todo = SubSeq(Forward(up'.to), k + 1, 11) /\ up'.to = up.to /\ up'.plan = up.plan
      BY <1>0, <2>1, Advances
    <3>3. OnForward(k + 1)' /\ Exists(On)
      <4>1. CASE k = 1
        <5>1. Exists("server") /\ Exists("broker") /\ box["broker"].img = up.plan["broker"]
          BY <2>1, <4>1 DEF OnForward
        <5>2. box'["broker"] = box["broker"] /\ box'["server"].st # "gone"
          BY <1>10, <3>1, <4>1, <5>1 DEF Exists
        <5> QED BY <3>1, <3>2, <4>1, <5>1, <5>2 DEF OnForward, Exists
      <4>2. CASE k = 6
        <5>1. /\ Exists("server") /\ Exists("broker") /\ box["broker"].img = up.plan["broker"]
              /\ box["server"].img = up.to /\ box["server"].st = "healthy"
          BY <2>1, <4>2 DEF OnForward
        <5>2. /\ box'["server"] = box["server"] /\ box'["broker"].st # "gone"
              /\ box'["broker"].img = box["broker"].img
          BY <1>10, <3>1, <4>2, <5>1 DEF Exists
        <5> QED BY <3>1, <3>2, <4>2, <5>1, <5>2 DEF OnForward, Exists
      <4> QED BY <3>1, <4>1, <4>2
    <3> QED BY <3>1, <3>3 DEF OnCourse
  <2>2. CASE OnBackServer(k)
    <3>1. k = 1 /\ On = "server"
      BY <1>0, <2>2, Places
    <3>2. up'.todo = SubSeq(BackServer(up'.plan), k + 1, 5) /\ up'.plan = up.plan
      BY <1>0, <2>2, Advances
    <3>3. Exists("server") /\ Exists("broker") /\ box["broker"].img = up.plan["broker"]
      BY <2>2, <3>1 DEF OnBackServer
    <3>4. box'["broker"] = box["broker"] /\ box'["server"].st # "gone"
      BY <1>10, <3>1, <3>3 DEF Exists
    <3>5. OnBackServer(k + 1)'
      BY <3>1, <3>2, <3>3, <3>4 DEF OnBackServer, Exists
    <3> QED BY <3>1, <3>3, <3>5 DEF OnCourse
  <2>3. CASE OnBackBoth(k)
    <3>1. (k = 1 /\ On = "server") \/ (k = 5 /\ On = "broker")
      BY <1>0, <2>3, Places
    <3>2. up'.todo = SubSeq(BackBoth(up'.plan), k + 1, 9) /\ up'.plan = up.plan
      BY <1>0, <2>3, Advances
    <3>3. OnBackBoth(k + 1)' /\ Exists(On)
      <4>1. CASE k = 1
        <5>1. Exists("server") /\ Exists("broker") /\ ~aged
          BY <2>3, <4>1 DEF OnBackBoth
        <5>2. box'["broker"] = box["broker"] /\ box'["server"].st # "gone" /\ aged' = FALSE
          BY <1>0, <1>10, <3>1, <4>1, <5>1 DEF Exists, TypeOK
        <5> QED BY <3>1, <3>2, <4>1, <5>1, <5>2 DEF OnBackBoth, Exists
      <4>2. CASE k = 5
        <5>1. /\ Exists("server") /\ Exists("broker") /\ ~aged
              /\ box["server"].img = up.plan["server"] /\ Runs("server")
          BY <2>3, <4>2 DEF OnBackBoth
        <5>2. box'["server"] = box["server"] /\ box'["broker"].st # "gone" /\ aged' = FALSE
          BY <1>0, <1>10, <3>1, <4>2, <5>1 DEF Exists, TypeOK
        <5> QED BY <3>1, <3>2, <4>2, <5>1, <5>2 DEF OnBackBoth, Exists, Runs
      <4> QED BY <3>1, <4>1, <4>2
    <3> QED BY <3>1, <3>3 DEF OnCourse
  <2> QED BY <1>2, <2>1, <2>2, <2>3
<1>7. ImagesInUse'
  <2>1. images' = images
    BY DEF Stop, StopFails, docker
  <2>2. SUFFICES ASSUME NEW p \in Parts, Exists(p)' PROVE <<p, box'[p].img>> \in images
    BY <2>1 DEF ImagesInUse
  <2>3. Exists(p) /\ box'[p].img = box[p].img
    BY <1>5, <1>6, <2>2 DEF Exists
  <2> QED BY <1>0, <2>3 DEF ImagesInUse
<1>8. /\ job' \in {"none", "running", "asked", "orphan", "succeeded", "failed"}
      /\ (req' = req \/ req' = NoRequest) /\ held' \subseteq held
  <2>1. CASE Stop
    BY <1>0, <2>1, KilledType DEF Stop
  <2>2. CASE StopFails
    BY <1>0, <2>2 DEF StopFails, TypeOK, ui
  <2> QED BY <2>1, <2>2
<1>9. UNCHANGED <<latest, images, file, page, launches, plan, erased>>
  BY DEF Stop, StopFails, docker, ui, hist
<1> QED BY <1>0, <1>1, <1>5, <1>6, <1>7, <1>8, <1>9, CallStep DEF TypeOK

\* The two containers, when a call brings one of them into a state
LEMMA BoxEach ==
  ASSUME TypeOK, NEW p \in Parts, NEW s \in {"gone", "down", "up", "healthy"},
         box' = [box EXCEPT ![p].st = s]
  PROVE  /\ p = "server" => /\ box'["broker"] = box["broker"]
                            /\ box'["server"].img = box["server"].img /\ box'["server"].st = s
         /\ p = "broker" => /\ box'["server"] = box["server"]
                            /\ box'["broker"].img = box["broker"].img /\ box'["broker"].st = s
<1>1. /\ box'[p].st = s /\ box'[p].img = box[p].img
      /\ \A q \in Parts : q # p => box'[q] = box[q]
  BY BoxState
<1>2. CASE p = "server"
  BY <1>1, <1>2 DEF Parts
<1>3. CASE p = "broker"
  BY <1>1, <1>3 DEF Parts
<1> QED BY <1>2, <1>3

\* A container is removed.
LEMMA RemoveStep ==
  ASSUME UInv, Remove
  PROVE  UInv'
<1>0. TypeOK /\ Rows /\ ImagesInUse /\ up.at = "work" /\ Doing("remove") /\ Advance /\ aged' = aged
  BY DEF UInv, Remove, Doing
<1>1. ~Doing("verdict")
  BY <1>0 DEF Doing
<1>2. PICK k : OnForward(k) \/ OnBackServer(k) \/ OnBackBoth(k)
  BY <1>0, OnSomeCourse
<1>3. On \in Parts
  BY <1>0, <1>1, CallType DEF On
<1>4. box' = [box EXCEPT ![On].st = "gone"]
  BY DEF Remove
<1>5. /\ box' \in [Parts -> Boxes] /\ box'[On].st = "gone"
      /\ \A q \in Parts : q # On => box'[q] = box[q]
  BY <1>0, <1>3, <1>4, BoxState
<1>6. /\ On = "server" => /\ box'["broker"] = box["broker"]
                          /\ box'["server"].img = box["server"].img /\ box'["server"].st = "gone"
      /\ On = "broker" => /\ box'["server"] = box["server"]
                          /\ box'["broker"].img = box["broker"].img /\ box'["broker"].st = "gone"
  BY <1>0, <1>3, <1>4, BoxEach
<1>7. OnCourse'
  <2>1. CASE OnForward(k)
    <3>1. (k = 2 /\ On = "server") \/ (k = 7 /\ On = "broker")
      BY <1>0, <2>1, Places
    <3>2. up'.todo = SubSeq(Forward(up'.to), k + 1, 11) /\ up'.to = up.to /\ up'.plan = up.plan
      BY <1>0, <2>1, Advances
    <3>3. OnForward(k + 1)'
      <4>1. CASE k = 2
        <5>1. Exists("broker") /\ box["broker"].img = up.plan["broker"]
          BY <2>1, <4>1 DEF OnForward
        <5> QED BY <1>6, <3>1, <3>2, <4>1, <5>1 DEF OnForward, Exists
      <4>2. CASE k = 7
        <5>1. /\ Exists("server") /\ box["broker"].img = up.plan["broker"]
              /\ box["server"].img = up.to /\ box["server"].st = "healthy"
          BY <2>1, <4>2 DEF OnForward
        <5> QED BY <1>6, <3>1, <3>2, <4>2, <5>1 DEF OnForward, Exists, Runs
      <4> QED BY <3>1, <4>1, <4>2
    <3> QED BY <3>1, <3>3 DEF OnCourse
  <2>2. CASE OnBackServer(k)
    <3>1. k = 2 /\ On = "server"
      BY <1>0, <2>2, Places
    <3>2. up'.todo = SubSeq(BackServer(up'.plan), k + 1, 5) /\ up'.plan = up.plan
      BY <1>0, <2>2, Advances
    <3>3. Exists("broker") /\ box["broker"].img = up.plan["broker"]
      BY <2>2, <3>1 DEF OnBackServer
    <3>4. OnBackServer(k + 1)'
      BY <1>6, <3>1, <3>2, <3>3 DEF OnBackServer, Exists
    <3> QED BY <3>1, <3>4 DEF OnCourse
  <2>3. CASE OnBackBoth(k)
    <3>1. (k = 2 /\ On = "server") \/ (k = 6 /\ On = "broker")
      BY <1>0, <2>3, Places
    <3>2. up'.todo = SubSeq(BackBoth(up'.plan), k + 1, 9) /\ up'.plan = up.plan
      BY <1>0, <2>3, Advances
    <3>3. aged' = FALSE
      BY <1>0, <2>3, <3>1 DEF OnBackBoth, TypeOK
    <3>4. OnBackBoth(k + 1)'
      <4>1. CASE k = 2
        <5>1. Exists("broker")
          BY <2>3, <4>1 DEF OnBackBoth
        <5> QED BY <1>6, <3>1, <3>2, <3>3, <4>1, <5>1 DEF OnBackBoth, Exists
      <4>2. CASE k = 6
        <5>1. Exists("server") /\ box["server"].img = up.plan["server"] /\ Runs("server")
          BY <2>3, <4>2 DEF OnBackBoth
        <5> QED BY <1>6, <3>1, <3>2, <4>2, <5>1 DEF OnBackBoth, Exists, Runs
      <4> QED BY <3>1, <4>1, <4>2
    <3> QED BY <3>1, <3>4 DEF OnCourse
  <2> QED BY <1>2, <2>1, <2>2, <2>3
<1>8. ImagesInUse'
  <2>1. images' = images
    BY DEF Remove
  <2>2. SUFFICES ASSUME NEW p \in Parts, Exists(p)' PROVE <<p, box'[p].img>> \in images
    BY <2>1 DEF ImagesInUse
  <2>3. Exists(p) /\ box'[p].img = box[p].img
    BY <1>5, <2>2 DEF Exists
  <2> QED BY <1>0, <2>3 DEF ImagesInUse
<1>9. /\ job' \in {"none", "running", "asked", "orphan", "succeeded", "failed"}
      /\ (req' = req \/ req' = NoRequest) /\ held' \subseteq held
  BY <1>0, KilledType DEF Remove
<1>10. UNCHANGED <<latest, images, file, page, launches, plan, erased>>
  BY DEF Remove, hist
<1> QED BY <1>0, <1>1, <1>5, <1>7, <1>8, <1>9, <1>10, CallStep DEF TypeOK

\* A container is started.
LEMMA StartStep ==
  ASSUME UInv, Start
  PROVE  UInv'
<1>0. TypeOK /\ Rows /\ ImagesInUse /\ up.at = "work" /\ Doing("start") /\ Advance
  BY DEF UInv, Start, Doing
<1>1. ~Doing("verdict")
  BY <1>0 DEF Doing
<1>2. PICK k : OnForward(k) \/ OnBackServer(k) \/ OnBackBoth(k)
  BY <1>0, OnSomeCourse
<1>3. On \in Parts
  BY <1>0, <1>1, CallType DEF On
<1>4. box' = [box EXCEPT ![On].st = "up"]
  BY DEF Start
<1>5. /\ box' \in [Parts -> Boxes] /\ box'[On].img = box[On].img
      /\ \A q \in Parts : q # On => box'[q] = box[q]
  BY <1>0, <1>3, <1>4, BoxState
<1>6. /\ On = "server" => /\ box'["broker"] = box["broker"]
                          /\ box'["server"].img = box["server"].img /\ box'["server"].st = "up"
      /\ On = "broker" => /\ box'["server"] = box["server"]
                          /\ box'["broker"].img = box["broker"].img /\ box'["broker"].st = "up"
  BY <1>0, <1>3, <1>4, BoxEach
<1>7. /\ On = "broker" => aged' = FALSE
      /\ On = "server" => aged' = aged
  BY DEF Start
<1>8. OnCourse' /\ Exists(On)
  <2>1. CASE OnForward(k)
    <3>1. (k = 4 /\ On = "server") \/ (k = 9 /\ On = "broker")
      BY <1>0, <2>1, Places
    <3>2. up'.todo = SubSeq(Forward(up'.to), k + 1, 11) /\ up'.to = up.to /\ up'.plan = up.plan
      BY <1>0, <2>1, Advances
    <3>3. OnForward(k + 1)' /\ Exists(On)
      <4>1. CASE k = 4
        <5>1. /\ Exists("server") /\ Exists("broker") /\ box["broker"].img = up.plan["broker"]
              /\ box["server"].img = up.to
          BY <2>1, <4>1 DEF OnForward
        <5> QED BY <1>6, <3>1, <3>2, <4>1, <5>1 DEF OnForward, Exists
      <4>2. CASE k = 9
        <5>1. /\ Exists("server") /\ Exists("broker") /\ box["broker"].img = up.to
              /\ box["server"].img = up.to /\ box["server"].st = "healthy"
          BY <2>1, <4>2 DEF OnForward
        <5>2. aged' = FALSE
          BY <1>7, <3>1, <4>2
        <5> QED BY <1>6, <3>1, <3>2, <4>2, <5>1, <5>2 DEF OnForward, Exists, Runs
      <4> QED BY <3>1, <4>1, <4>2
    <3> QED BY <3>1, <3>3 DEF OnCourse
  <2>2. CASE OnBackServer(k)
    <3>1. k = 4 /\ On = "server"
      BY <1>0, <2>2, Places
    <3>2. up'.todo = SubSeq(BackServer(up'.plan), k + 1, 5) /\ up'.plan = up.plan
      BY <1>0, <2>2, Advances
    <3>3. /\ Exists("server") /\ Exists("broker") /\ box["broker"].img = up.plan["broker"]
          /\ box["server"].img = up.plan["server"]
      BY <2>2, <3>1 DEF OnBackServer
    <3>4. OnBackServer(k + 1)'
      BY <1>6, <3>1, <3>2, <3>3 DEF OnBackServer, Exists, Runs
    <3> QED BY <3>1, <3>3, <3>4 DEF OnCourse
  <2>3. CASE OnBackBoth(k)
    <3>1. (k = 4 /\ On = "server") \/ (k = 8 /\ On = "broker")
      BY <1>0, <2>3, Places
    <3>2. up'.todo = SubSeq(BackBoth(up'.plan), k + 1, 9) /\ up'.plan = up.plan
      BY <1>0, <2>3, Advances
    <3>3. aged' = FALSE
      BY <1>0, <1>7, <2>3, <3>1 DEF OnBackBoth, TypeOK
    <3>4. OnBackBoth(k + 1)' /\ Exists(On)
      <4>1. CASE k = 4
        <5>1. Exists("server") /\ Exists("broker") /\ box["server"].img = up.plan["server"]
          BY <2>3, <4>1 DEF OnBackBoth
        <5> QED BY <1>6, <3>1, <3>2, <3>3, <4>1, <5>1 DEF OnBackBoth, Exists, Runs
      <4>2. CASE k = 8
        <5>1. /\ Exists("server") /\ Exists("broker") /\ box["server"].img = up.plan["server"]
              /\ Runs("server") /\ box["broker"].img = up.plan["broker"]
          BY <2>3, <4>2 DEF OnBackBoth
        <5> QED BY <1>6, <3>1, <3>2, <4>2, <5>1 DEF OnBackBoth, Exists, Runs
      <4> QED BY <3>1, <4>1, <4>2
    <3> QED BY <3>1, <3>4 DEF OnCourse
  <2> QED BY <1>2, <2>1, <2>2, <2>3
<1>9. ImagesInUse'
  <2>1. images' = images
    BY DEF Start
  <2>2. SUFFICES ASSUME NEW p \in Parts, Exists(p)' PROVE <<p, box'[p].img>> \in images
    BY <2>1 DEF ImagesInUse
  <2>3. Exists(p) /\ box'[p].img = box[p].img
    BY <1>5, <1>8, <2>2 DEF Exists
  <2> QED BY <1>0, <2>3 DEF ImagesInUse
<1>10. job' \in {"none", "running", "asked", "orphan", "succeeded", "failed"} /\ aged' \in BOOLEAN
  BY <1>0 DEF Start, TypeOK, Recovered
<1>11. UNCHANGED <<latest, images, file, page, launches, plan, erased, req, held>>
  BY DEF Start, hist, ui
<1> QED BY <1>0, <1>1, <1>5, <1>8, <1>9, <1>10, <1>11, CallStep

\* A container becomes healthy.
LEMMA HealthyStep ==
  ASSUME UInv, Healthy
  PROVE  UInv'
<1>0. TypeOK /\ Rows /\ ImagesInUse /\ up.at = "work" /\ Doing("healthy") /\ Advance /\ aged' = aged
  BY DEF UInv, Healthy, Doing
<1>1. ~Doing("verdict")
  BY <1>0 DEF Doing
<1>2. PICK k : OnForward(k)
  BY <1>0, OnSomeCourse, Places
<1>3. On \in Parts
  BY <1>0, <1>1, CallType DEF On
<1>4. box' = [box EXCEPT ![On].st = "healthy"]
  BY DEF Healthy
<1>5. /\ box' \in [Parts -> Boxes] /\ box'[On].img = box[On].img
      /\ \A q \in Parts : q # On => box'[q] = box[q]
  BY <1>0, <1>3, <1>4, BoxState
<1>6. /\ On = "server" => /\ box'["broker"] = box["broker"]
                          /\ box'["server"].img = box["server"].img /\ box'["server"].st = "healthy"
      /\ On = "broker" => /\ box'["server"] = box["server"]
                          /\ box'["broker"].img = box["broker"].img /\ box'["broker"].st = "healthy"
  BY <1>0, <1>3, <1>4, BoxEach
<1>7. (k = 5 /\ On = "server") \/ (k = 10 /\ On = "broker")
  BY <1>0, <1>2, Places
<1>8. up'.todo = SubSeq(Forward(up'.to), k + 1, 11) /\ up'.to = up.to /\ up'.plan = up.plan
  BY <1>0, <1>2, Advances
<1>9. OnForward(k + 1)' /\ Exists(On)
  <2>1. CASE k = 5
    <3>1. /\ Exists("server") /\ Exists("broker") /\ box["broker"].img = up.plan["broker"]
          /\ box["server"].img = up.to
      BY <1>2, <2>1 DEF OnForward
    <3> QED BY <1>6, <1>7, <1>8, <2>1, <3>1 DEF OnForward, Exists
  <2>2. CASE k = 10
    <3>1. /\ Exists("server") /\ Exists("broker") /\ box["broker"].img = up.to
          /\ box["server"].img = up.to /\ box["server"].st = "healthy"
      BY <1>2, <2>2 DEF OnForward
    <3> QED BY <1>6, <1>7, <1>8, <2>2, <3>1 DEF OnForward, Exists, Runs
  <2> QED BY <1>7, <2>1, <2>2
<1>10. OnCourse'
  BY <1>7, <1>9 DEF OnCourse
<1>11. ImagesInUse'
  <2>1. images' = images
    BY DEF Healthy
  <2>2. SUFFICES ASSUME NEW p \in Parts, Exists(p)' PROVE <<p, box'[p].img>> \in images
    BY <2>1 DEF ImagesInUse
  <2>3. Exists(p) /\ box'[p].img = box[p].img
    BY <1>5, <1>9, <2>2 DEF Exists
  <2> QED BY <1>0, <2>3 DEF ImagesInUse
<1>12. /\ job' \in {"none", "running", "asked", "orphan", "succeeded", "failed"} /\ aged' \in BOOLEAN
       /\ UNCHANGED <<latest, images, file, page, launches, plan, erased, req, held>>
  BY <1>0 DEF Healthy, TypeOK, hist, ui
<1> QED BY <1>0, <1>1, <1>5, <1>10, <1>11, <1>12, CallStep

\* A container is created from an image the host has.
LEMMA CreateStep ==
  ASSUME UInv, Create
  PROVE  UInv'
<1>0. TypeOK /\ Rows /\ ImagesInUse /\ up.at = "work" /\ Doing("create") /\ Advance /\ aged' = aged
  BY DEF UInv, Create, Doing
<1>1. ~Doing("verdict")
  BY <1>0 DEF Doing
<1>2. PICK k : OnForward(k) \/ OnBackServer(k) \/ OnBackBoth(k)
  BY <1>0, OnSomeCourse
<1>3. On \in Parts /\ Head(up.todo).v \in Versions
  BY <1>0, <1>1, CallType DEF On
<1>4. PICK v : v = Head(up.todo).v
  OBVIOUS
<1>5. box' = [box EXCEPT ![On] = [img |-> v, st |-> "down"]] /\ <<On, v>> \in images
  BY <1>4 DEF Create
<1>6. /\ box' \in [Parts -> Boxes] /\ box'[On].img = v /\ box'[On].st = "down"
      /\ \A q \in Parts : q # On => box'[q] = box[q]
  <2>1. [img |-> v, st |-> "down"] \in Boxes
    BY <1>3, <1>4 DEF Boxes
  <2> QED BY <1>0, <1>3, <1>5, <2>1 DEF TypeOK
<1>7. /\ On = "server" => /\ box'["broker"] = box["broker"]
                          /\ box'["server"].img = v /\ box'["server"].st = "down"
      /\ On = "broker" => /\ box'["server"] = box["server"]
                          /\ box'["broker"].img = v /\ box'["broker"].st = "down"
  <2>1. CASE On = "server"
    BY <1>6, <2>1 DEF Parts
  <2>2. CASE On = "broker"
    BY <1>6, <2>2 DEF Parts
  <2> QED BY <2>1, <2>2
<1>8. OnCourse'
  <2>1. CASE OnForward(k)
    <3>1. (k = 3 /\ On = "server") \/ (k = 8 /\ On = "broker")
      BY <1>0, <2>1, Places
    <3>2. up'.todo = SubSeq(Forward(up'.to), k + 1, 11) /\ up'.to = up.to /\ up'.plan = up.plan
      BY <1>0, <2>1, Advances
    <3>3. v = up.to
      <4>1. k < 11
        BY <3>1
      <4> QED BY <1>0, <1>4, <2>1, <4>1, Places
    <3>4. OnForward(k + 1)'
      <4>1. CASE k = 3
        <5>1. Exists("broker") /\ box["broker"].img = up.plan["broker"]
          BY <2>1, <4>1 DEF OnForward
        <5> QED BY <1>7, <3>1, <3>2, <3>3, <4>1, <5>1 DEF OnForward, Exists
      <4>2. CASE k = 8
        <5>1. Exists("server") /\ box["server"].img = up.to /\ box["server"].st = "healthy"
          BY <2>1, <4>2 DEF OnForward
        <5> QED BY <1>7, <3>1, <3>2, <3>3, <4>2, <5>1 DEF OnForward, Exists, Runs
      <4> QED BY <3>1, <4>1, <4>2
    <3> QED BY <3>1, <3>4 DEF OnCourse
  <2>2. CASE OnBackServer(k)
    <3>1. k = 3 /\ On = "server"
      BY <1>0, <2>2, Places
    <3>2. up'.todo = SubSeq(BackServer(up'.plan), k + 1, 5) /\ up'.plan = up.plan
      BY <1>0, <2>2, Advances
    <3>3. v = up.plan["server"]
      <4>1. k < 5
        BY <3>1
      <4> QED BY <1>0, <1>4, <2>2, <4>1, Places
    <3>4. Exists("broker") /\ box["broker"].img = up.plan["broker"]
      BY <2>2, <3>1 DEF OnBackServer
    <3>5. OnBackServer(k + 1)'
      BY <1>7, <3>1, <3>2, <3>3, <3>4 DEF OnBackServer, Exists
    <3> QED BY <3>1, <3>5 DEF OnCourse
  <2>3. CASE OnBackBoth(k)
    <3>1. (k = 3 /\ On = "server") \/ (k = 7 /\ On = "broker")
      BY <1>0, <2>3, Places
    <3>2. up'.todo = SubSeq(BackBoth(up'.plan), k + 1, 9) /\ up'.plan = up.plan
      BY <1>0, <2>3, Advances
    <3>3. OnBackBoth(k + 1)'
      <4>1. CASE k = 3
        <5>1. Exists("broker") /\ aged' = FALSE
          BY <1>0, <2>3, <4>1 DEF OnBackBoth, TypeOK
        <5>2. v = up.plan["server"]
          <6>1. k < 5
            BY <4>1
          <6> QED BY <1>0, <1>4, <2>3, <6>1, Places
        <5> QED BY <1>7, <3>1, <3>2, <4>1, <5>1, <5>2 DEF OnBackBoth, Exists
      <4>2. CASE k = 7
        <5>1. Exists("server") /\ box["server"].img = up.plan["server"] /\ Runs("server")
          BY <2>3, <4>2 DEF OnBackBoth
        <5>2. v = up.plan["broker"]
          <6>1. k \in 5 .. 8
            BY <4>2
          <6> QED BY <1>0, <1>4, <2>3, <6>1, Places
        <5> QED BY <1>7, <3>1, <3>2, <4>2, <5>1, <5>2 DEF OnBackBoth, Exists, Runs
      <4> QED BY <3>1, <4>1, <4>2
    <3> QED BY <3>1, <3>3 DEF OnCourse
  <2> QED BY <1>2, <2>1, <2>2, <2>3
<1>9. ImagesInUse'
  <2>1. images' = images
    BY DEF Create
  <2>2. SUFFICES ASSUME NEW p \in Parts, Exists(p)' PROVE <<p, box'[p].img>> \in images
    BY <2>1 DEF ImagesInUse
  <2>3. CASE p = On
    BY <1>5, <1>6, <2>3
  <2>4. CASE p # On
    <3>1. Exists(p) /\ box'[p].img = box[p].img
      BY <1>6, <2>2, <2>4 DEF Exists
    <3> QED BY <1>0, <3>1 DEF ImagesInUse
  <2> QED BY <2>3, <2>4
<1>10. /\ job' \in {"none", "running", "asked", "orphan", "succeeded", "failed"} /\ aged' \in BOOLEAN
       /\ UNCHANGED <<latest, images, file, page, launches, plan, erased, req, held>>
  BY <1>0 DEF Create, TypeOK, hist, ui
<1> QED BY <1>0, <1>1, <1>6, <1>8, <1>9, <1>10, CallStep

\* A container does not become healthy: the way back begins.
LEMMA UnhealthyStep ==
  ASSUME UInv, Unhealthy
  PROVE  UInv'
<1>0. /\ TypeOK /\ Rows /\ Asked /\ ImagesInUse /\ WayBackKept /\ Verdicts /\ VerdictHolds /\ PlanOnDisk
      /\ up.at = "work" /\ Doing("healthy")
  BY DEF UInv, Unhealthy, Doing
<1>1. UNCHANGED <<latest, images, box, aged, file, job, req, page, held, launches, plan, erased>>
  BY DEF Unhealthy, docker, ui, hist
<1>2. PICK k : OnForward(k)
  BY <1>0, OnSomeCourse, Places
<1>3. (k = 5 /\ On = "server") \/ (k = 10 /\ On = "broker")
  BY <1>0, <1>2, Places
<1>4. up.plan \in Plans
  BY <1>0 DEF Rows, UpRow
<1>5. PICK s : s = BackFrom(On)
  OBVIOUS
<1>6. /\ On = "server" => s = BackServer(up.plan)
      /\ On = "broker" => s = BackBoth(up.plan)
  BY <1>5 DEF BackFrom, BackServer, BackBoth
<1>7. /\ BackServer(up.plan) \in Seq(Ops) /\ SubSeq(BackServer(up.plan), 1, 5) = BackServer(up.plan)
      /\ BackBoth(up.plan) \in Seq(Ops) /\ SubSeq(BackBoth(up.plan), 1, 9) = BackBoth(up.plan)
  <2>1. BackServer(up.plan) \in Seq(Ops) /\ Len(BackServer(up.plan)) = 5
    BY <1>4, BackServerOps
  <2>2. BackBoth(up.plan) \in Seq(Ops) /\ Len(BackBoth(up.plan)) = 9
    BY <1>4, BackBothOps
  <2> QED BY <2>1, <2>2, SubSeqFull
<1>8. s \in Seq(Ops)
  BY <1>3, <1>6, <1>7
<1>9. up' = [up EXCEPT !.todo = s]
  BY <1>5 DEF Unhealthy
<1>10. /\ up' \in UpRow /\ up'.at = "work" /\ up'.to = up.to /\ up'.own = up.own
       /\ up'.plan = up.plan /\ up'.todo = s
  BY <1>0, <1>8, <1>9 DEF Rows, UpRow
<1>11. OnCourse'
  <2>1. CASE k = 5
    <3>1. Exists("server") /\ Exists("broker") /\ box["broker"].img = up.plan["broker"]
      BY <1>2, <2>1 DEF OnForward
    <3>2. up'.todo = SubSeq(BackServer(up'.plan), 1, 5)
      BY <1>3, <1>6, <1>7, <1>10, <2>1
    <3>3. OnBackServer(1)'
      BY <1>1, <1>10, <3>1, <3>2 DEF OnBackServer, Exists
    <3> QED BY <3>3 DEF OnCourse
  <2>2. CASE k = 10
    <3>1. Exists("server") /\ Exists("broker") /\ ~aged
      BY <1>2, <2>2 DEF OnForward
    <3>2. up'.todo = SubSeq(BackBoth(up'.plan), 1, 9)
      BY <1>3, <1>6, <1>7, <1>10, <2>2
    <3>3. OnBackBoth(1)'
      BY <1>1, <1>10, <3>1, <3>2 DEF OnBackBoth, Exists
    <3> QED BY <3>3 DEF OnCourse
  <2> QED BY <1>3, <2>1, <2>2
<1>12. TypeOK'
  <2>1. /\ up'.at \in {"none", "pull", "capture", "plan", "work"}
        /\ up'.to \in Versions /\ up'.own \in Versions /\ up'.plan \in Plans /\ up'.todo \in Seq(Ops)
    BY <1>10 DEF UpRow
  <2> QED BY <1>0, <1>1, <2>1 DEF TypeOK
<1>13. Rows' /\ Asked' /\ AsCaptured' /\ ImagesInUse'
  BY <1>0, <1>1, <1>10 DEF Rows, Asked, AsCaptured, ImagesInUse, Exists
<1>14. WayBackKept'
  <2>1. ~Doing("verdict")
    BY <1>0 DEF Doing
  <2> QED BY <1>0, <1>1, <1>10, <2>1 DEF WayBackKept
<1>15. Verdicts' /\ VerdictHolds' /\ PlanOnDisk'
  <2>1. file.phase # "done"
    BY <1>0 DEF Verdicts
  <2>2. Verdicts'
    BY <1>0, <1>1, <1>10, <2>1 DEF Verdicts, Read
  <2>3. VerdictHolds'
    BY <1>1, <2>1 DEF VerdictHolds
  <2>4. PlanOnDisk'
    BY <1>0, <1>1 DEF PlanOnDisk
  <2> QED BY <2>2, <2>3, <2>4
<1> QED BY <1>11, <1>12, <1>13, <1>14, <1>15 DEF UInv

-----------------------------------------------------------------------------
(***************************************************************************)
(* Verdicts                                                                *)
(***************************************************************************)

\* No updater, no request
LEMMA NoneType ==
  /\ NoUpdater \in UpRow /\ NoUpdater.at = "none" /\ NoUpdater.todo = <<>>
  /\ NoUpdater.to = 1 /\ NoUpdater.own = 1 /\ NoUpdater.plan \in Plans
  /\ NoRequest \in ReqRow /\ NoRequest.at = "none"
<1>1. 1 \in Versions
  BY BoundAssumption DEF Versions
<1>2. [p \in Parts |-> 1] \in Plans
  BY <1>1 DEF Plans
<1>3. <<>> \in Seq(Ops)
  OBVIOUS
<1> QED BY <1>1, <1>2, <1>3 DEF NoUpdater, UpRow, NoRequest, ReqRow

\* What is on disk, when a verdict is
LEMMA VerdictType ==
  ASSUME NEW out \in {"success", "rolled-back", "failed"}, NEW to \in Versions, NEW pl \in Plans
  PROVE  /\ Verdict(out, to, pl) \in Files /\ Verdict(out, to, pl).phase = "done"
         /\ Verdict(out, to, pl).out = out /\ Verdict(out, to, pl).to = to
         /\ Verdict(out, to, pl).plan = pl
BY DEF Verdict, Files

\* ... when a plan is
LEMMA PlanType ==
  ASSUME NEW to \in Versions, NEW pl \in Plans
  PROVE  /\ InProgress(to, pl) \in Files /\ InProgress(to, pl).phase = "in-progress"
         /\ InProgress(to, pl).plan = pl
BY DEF InProgress, Files

\* An updater ends with a verdict that is true.
LEMMA OverStep ==
  ASSUME UInv, up.at # "none",
         NEW out \in {"success", "rolled-back", "failed"}, NEW to \in Versions, NEW pl \in Plans,
         file' = Verdict(out, to, pl), up' = NoUpdater, plan' = {}, erased' = FALSE,
         UNCHANGED <<docker, job, req, ui, launches>>,
         out = "success" => \A p \in Parts : box[p] = [img |-> to, st |-> "healthy"],
         out = "rolled-back" => Runs("server") /\ Found = pl,
         out = "failed" => Found = pl
  PROVE  UInv'
<1>0. TypeOK /\ Rows /\ Asked /\ ImagesInUse /\ Verdicts
  BY DEF UInv
<1>1. UNCHANGED <<latest, images, box, aged, job, req, page, held, launches>>
  BY DEF docker, ui
<1>2. /\ up' \in UpRow /\ up'.at = "none"
  BY NoneType
<1>3. /\ file' \in Files /\ file'.phase = "done" /\ file'.out = out /\ file'.to = to /\ file'.plan = pl
  BY VerdictType
<1>4. TypeOK'
  <2>1. /\ up'.at \in {"none", "pull", "capture", "plan", "work"}
        /\ up'.to \in Versions /\ up'.own \in Versions /\ up'.plan \in Plans /\ up'.todo \in Seq(Ops)
    BY <1>2 DEF UpRow
  <2>2. plan' \subseteq Plans /\ erased' \in BOOLEAN
    OBVIOUS
  <2> QED BY <1>0, <1>1, <1>3, <2>1, <2>2 DEF TypeOK
<1>5. Rows' /\ Asked' /\ AsCaptured' /\ ImagesInUse' /\ OnCourse' /\ WayBackKept'
  BY <1>0, <1>1, <1>2 DEF Rows, Asked, AsCaptured, ImagesInUse, Exists, OnCourse, WayBackKept
<1>6. Verdicts'
  BY <1>0, <1>1, <1>2 DEF Verdicts, Read
<1>7. PlanOnDisk'
  BY DEF PlanOnDisk
<1>8. VerdictHolds'
  <2>1. CASE out = "success"
    BY <1>1, <1>3, <2>1 DEF VerdictHolds
  <2>2. CASE out = "rolled-back"
    BY <1>1, <1>3, <2>2 DEF VerdictHolds, Runs, Found
  <2>3. CASE out = "failed"
    BY <1>1, <1>3, <2>3 DEF VerdictHolds, Found
  <2> QED BY <2>1, <2>2, <2>3
<1> QED BY <1>4, <1>5, <1>6, <1>7, <1>8 DEF UInv

\* Nothing was done.
LEMMA FailedStep ==
  ASSUME UInv, PullFails \/ NotFound
  PROVE  UInv'
<1>1. Failed /\ up.at # "none"
  BY DEF PullFails, NotFound
<1>2. up.to \in Versions /\ Found \in Plans
  BY DEF UInv, TypeOK, Found, Plans, Boxes
<1>3. /\ file' = Verdict("failed", up.to, Found) /\ up' = NoUpdater /\ plan' = {} /\ erased' = FALSE
      /\ UNCHANGED <<docker, job, req, ui, launches>>
  BY <1>1 DEF Failed
<1>4. PICK to, pl : to = up.to /\ pl = Found
  OBVIOUS
<1> QED BY <1>1, <1>2, <1>3, <1>4, OverStep

\* The end of a course
LEMMA WriteVerdictStep ==
  ASSUME UInv, WriteVerdict
  PROVE  UInv'
<1>1. up.at = "work" /\ Doing("verdict")
  BY DEF WriteVerdict, Doing
<1>2. TypeOK /\ up.to \in Versions /\ up.plan \in Plans
  BY DEF UInv, TypeOK
<1>3. PICK k : OnForward(k) \/ OnBackServer(k) \/ OnBackBoth(k)
  BY <1>1, OnSomeCourse
<1>4. PICK out, to, pl : out = Head(up.todo).out /\ to = up.to /\ pl = up.plan
  OBVIOUS
<1>5. /\ file' = Verdict(out, to, pl) /\ up' = NoUpdater /\ plan' = {} /\ erased' = FALSE
      /\ UNCHANGED <<docker, job, req, ui, launches>>
  BY <1>4 DEF WriteVerdict
<1>6. Found = up.plan <=> \A p \in Parts : box[p].img = up.plan[p]
  BY <1>2 DEF Found, Plans
<1>7. CASE OnForward(k)
  <2>1. k = 11 /\ out = "success"
    BY <1>1, <1>4, <1>7, Places
  <2>2. /\ box["server"].img = to /\ box["server"].st = "healthy"
        /\ box["broker"].img = to /\ box["broker"].st = "healthy"
    BY <1>4, <1>7, <2>1 DEF OnForward
  <2>3. \A p \in Parts : box[p] = [img |-> to, st |-> "healthy"]
    BY <1>2, <2>2 DEF TypeOK, Boxes, Parts
  <2> QED BY <1>1, <1>2, <1>4, <1>5, <2>1, <2>3, OverStep
<1>8. CASE OnBackServer(k)
  <2>1. k = 5 /\ out = "rolled-back"
    BY <1>1, <1>4, <1>8, Places
  <2>2. /\ box["server"].img = up.plan["server"] /\ Runs("server")
        /\ box["broker"].img = up.plan["broker"]
    BY <1>8, <2>1 DEF OnBackServer
  <2>3. Found = pl
    BY <1>4, <1>6, <2>2 DEF Parts
  <2> QED BY <1>1, <1>2, <1>4, <1>5, <2>1, <2>2, <2>3, OverStep
<1>9. CASE OnBackBoth(k)
  <2>1. k = 9 /\ out = "rolled-back"
    BY <1>1, <1>4, <1>9, Places
  <2>2. /\ box["server"].img = up.plan["server"] /\ Runs("server")
        /\ box["broker"].img = up.plan["broker"]
    BY <1>9, <2>1 DEF OnBackBoth
  <2>3. Found = pl
    BY <1>4, <1>6, <2>2 DEF Parts
  <2> QED BY <1>1, <1>2, <1>4, <1>5, <2>1, <2>2, <2>3, OverStep
<1> QED BY <1>3, <1>7, <1>8, <1>9

-----------------------------------------------------------------------------
(***************************************************************************)
(* Everything else                                                         *)
(***************************************************************************)

\* A step that leaves Docker, the file and the updater alone
LEMMA QuietStep ==
  ASSUME UInv, latest' \in Versions,
         job' \in {"none", "running", "asked", "orphan", "succeeded", "failed"},
         page' \in {"idle", "job", "probe", "poll"},
         req' \in ReqRow, req'.at # "none" => launches < MaxLaunches,
         held' \subseteq Files, held' # {} => Read,
         UNCHANGED <<images, box, aged, file, up, launches, plan, erased>>
  PROVE  UInv'
<1>0. /\ TypeOK /\ Rows /\ Asked /\ OnCourse /\ AsCaptured /\ ImagesInUse /\ WayBackKept
      /\ Verdicts /\ VerdictHolds /\ PlanOnDisk
  BY DEF UInv
<1>1. TypeOK'
  BY <1>0 DEF TypeOK, ReqRow
<1>2. Rows' /\ Asked'
  BY <1>0 DEF Rows, Asked
<1>3. OnCourse'
  <2>1. SUFFICES ASSUME up.at = "work" PROVE OnCourse'
    BY DEF OnCourse
  <2>2. PICK k \in 1 .. 11 : OnForward(k) \/ OnBackServer(k) \/ OnBackBoth(k)
    BY <1>0, <2>1 DEF OnCourse
  <2>3. OnForward(k) => OnForward(k)'
    BY DEF OnForward, Exists, Runs
  <2>4. OnBackServer(k) => OnBackServer(k)'
    BY DEF OnBackServer, Exists, Runs
  <2>5. OnBackBoth(k) => OnBackBoth(k)'
    BY DEF OnBackBoth, Exists, Runs
  <2> QED BY <2>2, <2>3, <2>4, <2>5 DEF OnCourse
<1>4. AsCaptured' /\ ImagesInUse'
  BY <1>0 DEF AsCaptured, ImagesInUse, Exists, Found
<1>5. WayBackKept'
  BY <1>0 DEF WayBackKept, Doing
<1>6. Verdicts' /\ PlanOnDisk'
  BY <1>0 DEF Verdicts, Read, PlanOnDisk
<1>7. VerdictHolds'
  BY <1>0 DEF VerdictHolds, Runs, Found
<1> QED BY <1>1, <1>2, <1>3, <1>4, <1>5, <1>6, <1>7 DEF UInv

\* The page, the server and the broker, short of the updater
LEMMA PanelStep ==
  ASSUME UInv, \/ Release \/ Apply \/ JobRefused \/ Ask \/ RequestFails
               \/ JobSeen \/ Reconnected \/ GiveUp \/ ReadResult \/ UNCHANGED vars
  PROVE  UInv'
<1>0. TypeOK /\ Rows /\ Asked
  BY DEF UInv
<1>1. /\ latest \in Versions /\ req \in ReqRow /\ held \subseteq Files /\ file \in Files
      /\ job \in {"none", "running", "asked", "orphan", "succeeded", "failed"}
      /\ page \in {"idle", "job", "probe", "poll"}
      /\ req.at # "none" => launches < MaxLaunches
      /\ NoRequest \in ReqRow /\ NoRequest.at = "none"
      /\ held # {} => Read
  BY <1>0, NoneType DEF TypeOK, Rows, Asked, Read
<1>2. CASE Release
  <2>1. latest' \in Versions
    BY <1>1, <1>2, BoundAssumption DEF Release, Versions
  <2> QED BY <1>1, <1>2, <2>1, QuietStep DEF Release, ui, hist
<1>3. CASE Apply
  BY <1>1, <1>3, QuietStep DEF Apply, docker, hist
<1>4. CASE JobRefused
  BY <1>1, <1>4, QuietStep DEF JobRefused, docker, ui, hist
<1>5. CASE Ask
  <2>1. req' \in ReqRow
    BY <1>1, <1>5 DEF Ask, ReqRow
  <2> QED BY <1>1, <1>5, <2>1, QuietStep DEF Ask, docker, ui, hist
<1>6. CASE RequestFails
  BY <1>1, <1>6, QuietStep DEF RequestFails, Answer, docker, ui, hist
<1>7. CASE JobSeen
  BY <1>1, <1>7, QuietStep DEF JobSeen, docker, hist
<1>8. CASE Reconnected
  BY <1>1, <1>8, QuietStep DEF Reconnected, docker, hist
<1>9. CASE GiveUp
  BY <1>1, <1>9, QuietStep DEF GiveUp, docker, hist
<1>10. CASE ReadResult
  <2>1. held' \subseteq Files /\ Read
    BY <1>1, <1>10 DEF ReadResult, Read
  <2> QED BY <1>1, <1>10, <2>1, QuietStep DEF ReadResult, docker, hist
<1>11. CASE UNCHANGED vars
  BY <1>1, <1>11, QuietStep DEF vars
<1> QED BY <1>2, <1>3, <1>4, <1>5, <1>6, <1>7, <1>8, <1>9, <1>10, <1>11

\* The updater gets to another place where it is not at work, or is gone.
LEMMA IdleStep ==
  ASSUME UInv, up' \in UpRow, up'.at # "work", AsCaptured', ImagesInUse',
         images' \in SUBSET (Parts \X Versions),
         req' \in ReqRow, req'.at # "none" => launches' < MaxLaunches,
         job' \in {"none", "running", "asked", "orphan", "succeeded", "failed"},
         launches' \in 0 .. MaxLaunches,
         \/ launches' = launches /\ (up'.at = "none" \/ up.at # "none")
         \/ launches' = launches + 1,
         UNCHANGED <<latest, box, aged, file, page, held, plan, erased>>
  PROVE  UInv'
<1>0. TypeOK /\ Rows /\ Asked /\ Verdicts /\ VerdictHolds /\ PlanOnDisk
  BY DEF UInv
<1>1. TypeOK'
  <2>1. /\ up'.at \in {"none", "pull", "capture", "plan", "work"}
        /\ up'.to \in Versions /\ up'.own \in Versions /\ up'.plan \in Plans /\ up'.todo \in Seq(Ops)
    BY DEF UpRow
  <2>2. req'.at \in {"none", "clear", "launch"} /\ req'.to \in Versions
    BY DEF ReqRow
  <2> QED BY <1>0, <2>1, <2>2 DEF TypeOK
<1>2. Rows' /\ Asked' /\ OnCourse' /\ WayBackKept'
  BY DEF Rows, Asked, OnCourse, WayBackKept
<1>3. launches \in Nat /\ launches' >= launches
  BY <1>0, BoundAssumption DEF TypeOK
<1>4. Verdicts'
  <2>1. CASE launches' = launches /\ (up'.at = "none" \/ up.at # "none")
    BY <1>0, <1>3, <2>1 DEF Verdicts, Read
  <2>2. CASE launches' = launches + 1
    BY <1>0, <1>3, <2>2 DEF Verdicts, Read
  <2> QED BY <2>1, <2>2
<1>5. VerdictHolds'
  BY <1>0 DEF VerdictHolds, Runs, Found
<1>6. PlanOnDisk'
  BY <1>0, <1>3 DEF PlanOnDisk
<1> QED BY <1>1, <1>2, <1>4, <1>5, <1>6 DEF UInv

\* An updater is removed, launched, killed; it pulls, and captures what it finds.
LEMMA UpdaterStep ==
  ASSUME UInv, \/ ClearUpdater \/ LaunchUpdater \/ Fatal \/ ImageMissing \/ Pull \/ Capture
  PROVE  UInv'
<1>0. TypeOK /\ Rows /\ Asked /\ ImagesInUse
  BY DEF UInv
<1>1. /\ NoUpdater \in UpRow /\ NoUpdater.at = "none" /\ NoRequest \in ReqRow /\ NoRequest.at = "none"
  BY NoneType
<1>2. /\ images \in SUBSET (Parts \X Versions) /\ launches \in 0 .. MaxLaunches
      /\ job \in {"none", "running", "asked", "orphan", "succeeded", "failed"}
  BY <1>0 DEF TypeOK
<1>3. CASE ClearUpdater
  <2>1. up' = NoUpdater /\ UNCHANGED <<latest, images, box, aged, file, job, page, held, launches, plan, erased>>
    BY <1>3 DEF ClearUpdater, docker, ui, hist
  <2>2. req' \in ReqRow /\ launches < MaxLaunches
    BY <1>0, <1>3 DEF ClearUpdater, Rows, ReqRow, Asked
  <2>3. AsCaptured' /\ ImagesInUse'
    BY <1>0, <1>1, <2>1 DEF AsCaptured, ImagesInUse, Exists
  <2> QED BY <1>1, <1>2, <2>1, <2>2, <2>3, IdleStep
<1>4. CASE Fatal \/ ImageMissing
  <2>1. up' = NoUpdater /\ UNCHANGED <<latest, images, box, aged, file, job, req, page, held, launches, plan, erased>>
    BY <1>4 DEF Fatal, ImageMissing, Dies, docker, ui, hist
  <2>2. req' \in ReqRow /\ (req'.at # "none" => launches < MaxLaunches)
    BY <1>0, <2>1 DEF Rows, Asked
  <2>3. AsCaptured' /\ ImagesInUse'
    BY <1>0, <1>1, <2>1 DEF AsCaptured, ImagesInUse, Exists
  <2> QED BY <1>1, <1>2, <2>1, <2>2, <2>3, IdleStep
<1>5. CASE LaunchUpdater
  <2>1. /\ req' = NoRequest /\ launches' = launches + 1
        /\ UNCHANGED <<latest, images, box, aged, file, page, held, plan, erased>>
    BY <1>5 DEF LaunchUpdater, docker, ui
  <2>2. launches' \in 0 .. MaxLaunches
    BY <1>0, <1>2, <1>5, <2>1, BoundAssumption DEF LaunchUpdater, Asked
  <2>3. up' \in UpRow /\ up'.at = "pull"
    <3>1. req.to \in Versions /\ box["broker"].img \in Versions
      BY <1>0 DEF TypeOK, Boxes, Parts
    <3> QED BY <1>1, <1>5, <3>1 DEF LaunchUpdater, UpRow
  <2>4. job' \in {"none", "running", "asked", "orphan", "succeeded", "failed"}
    BY <1>2, <1>5 DEF LaunchUpdater, Answer
  <2>5. AsCaptured' /\ ImagesInUse'
    BY <1>0, <2>1, <2>3 DEF AsCaptured, ImagesInUse, Exists
  <2> QED BY <1>1, <1>2, <2>1, <2>2, <2>3, <2>4, <2>5, IdleStep
<1>6. CASE Pull
  <2>1. /\ images' = images \cup (Parts \X {up.to}) /\ up' = [up EXCEPT !.at = "capture"] /\ up.at = "pull"
        /\ UNCHANGED <<latest, box, aged, file, job, req, page, held, launches, plan, erased>>
    BY <1>6 DEF Pull, ui, hist
  <2>2. up' \in UpRow /\ up'.at = "capture"
    BY <1>0, <2>1 DEF Rows, UpRow
  <2>3. images' \in SUBSET (Parts \X Versions)
    BY <1>0, <1>2, <2>1 DEF TypeOK
  <2>4. AsCaptured' /\ ImagesInUse'
    BY <1>0, <2>1, <2>2 DEF AsCaptured, ImagesInUse, Exists
  <2>5. req' \in ReqRow /\ (req'.at # "none" => launches < MaxLaunches)
    BY <1>0, <2>1 DEF Rows, Asked
  <2> QED BY <1>2, <2>1, <2>2, <2>3, <2>4, <2>5, IdleStep
<1>7. CASE Capture
  <2>1. /\ up' = [up EXCEPT !.at = "plan", !.plan = Found] /\ up.at = "capture" /\ \A p \in Parts : Exists(p)
        /\ UNCHANGED <<latest, images, box, aged, file, job, req, page, held, launches, plan, erased>>
    BY <1>7 DEF Capture, docker, ui, hist
  <2>2. Found \in Plans
    BY <1>0 DEF TypeOK, Found, Plans, Boxes
  <2>3. up' \in UpRow /\ up'.at = "plan" /\ up'.plan = Found
    BY <1>0, <2>1, <2>2 DEF Rows, UpRow
  <2>4. AsCaptured' /\ ImagesInUse'
    BY <1>0, <2>1, <2>3 DEF AsCaptured, ImagesInUse, Exists, Found
  <2>5. req' \in ReqRow /\ (req'.at # "none" => launches < MaxLaunches)
    BY <1>0, <2>1 DEF Rows, Asked
  <2> QED BY <1>2, <2>1, <2>3, <2>4, <2>5, IdleStep
<1> QED BY <1>3, <1>4, <1>5, <1>6, <1>7

\* The plan is written, and the way forward begins.
LEMMA WritePlanStep ==
  ASSUME UInv, WritePlan
  PROVE  UInv'
<1>0. TypeOK /\ Rows /\ Asked /\ AsCaptured /\ ImagesInUse /\ Verdicts /\ up.at = "plan"
  BY DEF UInv, WritePlan
<1>1. up.to \in Versions /\ up.plan \in Plans
  BY <1>0 DEF TypeOK
<1>2. /\ plan' = {up.plan} /\ erased' = FALSE /\ file' = InProgress(up.to, up.plan)
      /\ UNCHANGED <<latest, images, box, aged, job, req, page, held, launches>>
  BY DEF WritePlan, PlanWritten, docker, ui
<1>3. PICK f : f = Forward(up.to)
  OBVIOUS
<1>4. f \in Seq(Ops) /\ SubSeq(f, 1, 11) = f
  <2>1. f \in Seq(Ops) /\ Len(f) = 11
    BY <1>1, <1>3, ForwardOps
  <2> QED BY <2>1, SubSeqFull
<1>5. up' = [up EXCEPT !.at = "work", !.todo = f]
  BY <1>3 DEF WritePlan, Forward
<1>6. up' \in UpRow /\ up'.at = "work" /\ up'.to = up.to /\ up'.plan = up.plan /\ up'.todo = f
  BY <1>0, <1>4, <1>5 DEF Rows, UpRow
<1>7. file' \in Files /\ file'.phase = "in-progress" /\ file'.plan = up.plan
  BY <1>1, <1>2, PlanType
<1>8. (\A p \in Parts : Exists(p)) /\ \A p \in Parts : box[p].img = up.plan[p]
  BY <1>0 DEF AsCaptured, Found
<1>9. TypeOK'
  <2>1. /\ up'.at \in {"none", "pull", "capture", "plan", "work"}
        /\ up'.to \in Versions /\ up'.own \in Versions /\ up'.plan \in Plans /\ up'.todo \in Seq(Ops)
    BY <1>6 DEF UpRow
  <2>2. plan' \subseteq Plans /\ erased' \in BOOLEAN
    BY <1>1, <1>2
  <2> QED BY <1>0, <1>2, <1>7, <2>1, <2>2 DEF TypeOK
<1>10. OnCourse'
  <2>1. OnForward(1)'
    BY <1>2, <1>3, <1>4, <1>6, <1>8 DEF OnForward, Exists, Parts
  <2> QED BY <2>1 DEF OnCourse
<1>11. Rows' /\ Asked' /\ AsCaptured' /\ ImagesInUse'
  BY <1>0, <1>2, <1>6 DEF Rows, Asked, AsCaptured, ImagesInUse, Exists
<1>12. WayBackKept'
  <2>1. \A p \in Parts : <<p, up.plan[p]>> \in images
    BY <1>0, <1>8 DEF ImagesInUse
  <2> QED BY <1>2, <1>6, <2>1 DEF WayBackKept
<1>13. Verdicts' /\ VerdictHolds' /\ PlanOnDisk'
  <2>1. Verdicts'
    BY <1>0, <1>2, <1>6, <1>7 DEF Verdicts, Read
  <2>2. VerdictHolds'
    BY <1>7 DEF VerdictHolds
  <2>3. PlanOnDisk'
    BY <1>2, <1>7 DEF PlanOnDisk
  <2> QED BY <2>1, <2>2, <2>3
<1> QED BY <1>9, <1>10, <1>11, <1>12, <1>13 DEF UInv

\* A reader unlinks what is on disk by now.
LEMMA UnlinkStep ==
  ASSUME UInv, UnlinkResult
  PROVE  UInv'
<1>0. /\ TypeOK /\ Rows /\ Asked /\ OnCourse /\ AsCaptured /\ ImagesInUse /\ WayBackKept
      /\ Verdicts /\ PlanOnDisk
  BY DEF UInv
<1>1. /\ held # {} /\ held' = {} /\ page' = "idle" /\ file' = NoFile
      /\ erased' = (erased \/ file.phase = "in-progress")
      /\ UNCHANGED <<latest, images, box, aged, job, req, up, launches, plan>>
  BY DEF UnlinkResult, docker
<1>2. NoFile \in Files /\ NoFile.phase = "none"
  BY DEF Files, NoFile
<1>3. TypeOK'
  BY <1>0, <1>1, <1>2 DEF TypeOK
<1>4. OnCourse'
  <2>1. SUFFICES ASSUME up.at = "work" PROVE OnCourse'
    BY <1>1 DEF OnCourse
  <2>2. PICK k \in 1 .. 11 : OnForward(k) \/ OnBackServer(k) \/ OnBackBoth(k)
    BY <1>0, <2>1 DEF OnCourse
  <2>3. OnForward(k) => OnForward(k)'
    BY <1>1 DEF OnForward, Exists, Runs
  <2>4. OnBackServer(k) => OnBackServer(k)'
    BY <1>1 DEF OnBackServer, Exists, Runs
  <2>5. OnBackBoth(k) => OnBackBoth(k)'
    BY <1>1 DEF OnBackBoth, Exists, Runs
  <2> QED BY <2>2, <2>3, <2>4, <2>5 DEF OnCourse
<1>5. Rows' /\ Asked' /\ AsCaptured' /\ ImagesInUse'
  BY <1>0, <1>1 DEF Rows, Asked, AsCaptured, ImagesInUse, Exists, Found
<1>6. WayBackKept'
  BY <1>0, <1>1 DEF WayBackKept, Doing
<1>7. Verdicts' /\ VerdictHolds'
  BY <1>0, <1>1, <1>2 DEF Verdicts, Read, VerdictHolds
<1>8. PlanOnDisk'
  <2>1. SUFFICES ASSUME NEW pl \in plan PROVE erased' = TRUE /\ launches > 1
    BY <1>1 DEF PlanOnDisk
  <2>2. launches > 1
    BY <1>0, <1>1, <2>1 DEF Verdicts, Read
  <2>3. file.phase = "in-progress" \/ erased
    BY <1>0, <2>1 DEF PlanOnDisk
  <2>4. erased' = TRUE
    BY <1>1, <2>3
  <2> QED BY <2>2, <2>4
<1> QED BY <1>3, <1>4, <1>5, <1>6, <1>7, <1>8 DEF UInv

\* A broker ages, once its updater has left it alone.
LEMMA AgesStep ==
  ASSUME UInv, BrokerAges
  PROVE  UInv'
<1>0. /\ TypeOK /\ Rows /\ Asked /\ OnCourse /\ AsCaptured /\ ImagesInUse /\ WayBackKept
      /\ Verdicts /\ VerdictHolds /\ PlanOnDisk
  BY DEF UInv
<1>1. /\ aged' = TRUE /\ ~BrokerIsLeft
      /\ UNCHANGED <<latest, images, box, file, job, req, up, page, held, launches, plan, erased>>
  BY DEF BrokerAges, BrokerIsLeft, ui, hist
<1>2. OnCourse'
  <2>1. SUFFICES ASSUME up.at = "work" PROVE OnCourse'
    BY <1>1 DEF OnCourse
  <2>2. PICK k \in 1 .. 11 : OnForward(k) \/ OnBackServer(k) \/ OnBackBoth(k)
    BY <1>0, <2>1 DEF OnCourse
  <2>3. OnForward(k) => OnForward(k)'
    <3> HAVE OnForward(k)
    <3>1. k = 11
      <4>1. k \in 1 .. 11
        BY DEF OnForward
      <4>2. ~(k <= 10)
        BY <1>0, <1>1, ForwardPlace
      <4> QED BY <4>1, <4>2
    <3> QED BY <1>1, <3>1 DEF OnForward, Exists, Runs
  <2>4. OnBackServer(k) => OnBackServer(k)'
    BY <1>1 DEF OnBackServer, Exists, Runs
  <2>5. OnBackBoth(k) => OnBackBoth(k)'
    <3> HAVE OnBackBoth(k)
    <3>1. k = 9
      <4>1. k \in 1 .. 9
        BY DEF OnBackBoth
      <4>2. ~(k <= 8)
        BY <1>0, <1>1, BackBothPlace
      <4> QED BY <4>1, <4>2
    <3> QED BY <1>1, <3>1 DEF OnBackBoth, Exists, Runs
  <2> QED BY <2>2, <2>3, <2>4, <2>5 DEF OnCourse
<1>3. TypeOK'
  BY <1>0, <1>1 DEF TypeOK
<1>4. Rows' /\ Asked' /\ AsCaptured' /\ ImagesInUse'
  BY <1>0, <1>1 DEF Rows, Asked, AsCaptured, ImagesInUse, Exists, Found
<1>5. WayBackKept'
  BY <1>0, <1>1 DEF WayBackKept, Doing
<1>6. Verdicts' /\ PlanOnDisk'
  BY <1>0, <1>1 DEF Verdicts, Read, PlanOnDisk
<1>7. VerdictHolds'
  BY <1>0, <1>1 DEF VerdictHolds, Runs, Found
<1> QED BY <1>2, <1>3, <1>4, <1>5, <1>6, <1>7 DEF UInv

\* A broker that sweeps is the one the updater found, unless the verdict is due.
LEMMA SweeperIsFound ==
  ASSUME UInv, SweepDue, up.at = "work", ~Doing("verdict")
  PROVE  box["broker"].img = up.plan["broker"]
<1>0. TypeOK /\ Rows
  BY DEF UInv
<1>1. PICK k : OnForward(k) \/ OnBackServer(k) \/ OnBackBoth(k)
  BY OnSomeCourse
<1>2. Runs("broker") /\ aged
  BY DEF SweepDue
<1>3. CASE OnForward(k)
  <2>1. k \in 1 .. 11 /\ k # 11
    BY <1>0, <1>3, ForwardPlace DEF OnForward, Ends, Doing
  <2>2. k # 10 /\ k \notin {8, 9}
    BY <1>2, <1>3 DEF OnForward
  <2>3. k <= 8
    BY <2>1, <2>2
  <2> QED BY <1>3, <2>3 DEF OnForward
<1>4. CASE OnBackServer(k)
  BY <1>4 DEF OnBackServer
<1>5. CASE OnBackBoth(k)
  <2>1. k \in 1 .. 9 /\ k # 9
    BY <1>0, <1>5, BackBothPlace DEF OnBackBoth, Ends, Doing
  <2>2. ~(k <= 6) /\ k # 7
    BY <1>2, <1>5 DEF OnBackBoth
  <2>3. k >= 8
    BY <2>1, <2>2
  <2> QED BY <1>5, <2>3 DEF OnBackBoth
<1> QED BY <1>1, <1>3, <1>4, <1>5

\* removeStalePanelImages
LEMMA SweepStep ==
  ASSUME UInv, Sweep
  PROVE  UInv'
<1>0. /\ TypeOK /\ Rows /\ Asked /\ OnCourse /\ AsCaptured /\ ImagesInUse /\ WayBackKept
      /\ Verdicts /\ VerdictHolds /\ PlanOnDisk
  BY DEF UInv
<1>1. /\ SweepDue /\ images' = {i \in images : i[2] >= box["broker"].img \/ i \in InUse}
      /\ UNCHANGED <<latest, box, aged, file, job, req, up, page, held, launches, plan, erased>>
  BY DEF Sweep, ui, hist
<1>2. OnCourse'
  <2>1. SUFFICES ASSUME up.at = "work" PROVE OnCourse'
    BY <1>1 DEF OnCourse
  <2>2. PICK k \in 1 .. 11 : OnForward(k) \/ OnBackServer(k) \/ OnBackBoth(k)
    BY <1>0, <2>1 DEF OnCourse
  <2>3. OnForward(k) => OnForward(k)'
    BY <1>1 DEF OnForward, Exists, Runs
  <2>4. OnBackServer(k) => OnBackServer(k)'
    BY <1>1 DEF OnBackServer, Exists, Runs
  <2>5. OnBackBoth(k) => OnBackBoth(k)'
    BY <1>1 DEF OnBackBoth, Exists, Runs
  <2> QED BY <2>2, <2>3, <2>4, <2>5 DEF OnCourse
<1>3. TypeOK'
  <2>1. images' \subseteq Parts \X Versions
    BY <1>0, <1>1 DEF TypeOK
  <2> QED BY <1>0, <1>1, <2>1 DEF TypeOK
<1>4. Rows' /\ Asked' /\ AsCaptured'
  BY <1>0, <1>1 DEF Rows, Asked, AsCaptured, Exists, Found
<1>5. ImagesInUse'
  <2>1. SUFFICES ASSUME NEW p \in Parts, Exists(p) PROVE <<p, box[p].img>> \in images'
    BY <1>1 DEF ImagesInUse, Exists
  <2>2. <<p, box[p].img>> \in InUse
    BY <2>1 DEF InUse
  <2> QED BY <1>0, <1>1, <2>1, <2>2 DEF ImagesInUse
<1>6. WayBackKept'
  <2>1. SUFFICES ASSUME up.at = "work", ~Doing("verdict"), up.plan["server"] = up.plan["broker"],
                        NEW p \in Parts
                 PROVE  <<p, up.plan[p]>> \in images'
    BY <1>1 DEF WayBackKept, Doing
  <2>2. <<p, up.plan[p]>> \in images
    BY <1>0, <2>1 DEF WayBackKept
  <2>3. box["broker"].img = up.plan["broker"]
    BY <1>1, <2>1, SweeperIsFound
  <2>4. up.plan[p] = up.plan["broker"] /\ up.plan[p] \in Nat
    BY <1>0, <2>1, BoundAssumption DEF Parts, TypeOK, Plans, Versions
  <2>5. <<p, up.plan[p]>>[2] >= box["broker"].img
    BY <2>3, <2>4
  <2> QED BY <1>1, <2>2, <2>5
<1>7. Verdicts' /\ PlanOnDisk'
  BY <1>0, <1>1 DEF Verdicts, Read, PlanOnDisk
<1>8. VerdictHolds'
  BY <1>0, <1>1 DEF VerdictHolds, Runs, Found
<1> QED BY <1>2, <1>3, <1>4, <1>5, <1>6, <1>7, <1>8 DEF UInv

-----------------------------------------------------------------------------
(***************************************************************************)
(* The theorem                                                             *)
(***************************************************************************)

\* A panel that was just set up
LEMMA InitUInv == Init => UInv
<1> SUFFICES ASSUME Init PROVE UInv
  OBVIOUS
<1>1. 1 \in Versions /\ 0 \in 0 .. MaxLaunches
  BY BoundAssumption DEF Versions
<1>2. /\ up \in UpRow /\ up.at = "none" /\ req \in ReqRow /\ req.at = "none"
  BY NoneType DEF Init
<1>3. box \in [Parts -> Boxes] /\ \A p \in Parts : box[p].img = 1
  BY <1>1 DEF Init, Boxes
<1>4. file \in Files /\ file.phase = "none"
  BY DEF Init, NoFile, Files
<1>5. TypeOK
  <2>1. req.at \in {"none", "clear", "launch"} /\ req.to \in Versions
    BY <1>2 DEF ReqRow
  <2>2. /\ up.at \in {"none", "pull", "capture", "plan", "work"}
        /\ up.to \in Versions /\ up.own \in Versions /\ up.plan \in Plans /\ up.todo \in Seq(Ops)
    BY <1>2 DEF UpRow
  <2>3. latest \in Versions /\ images \subseteq Parts \X Versions
    BY <1>1 DEF Init
  <2>4. job \in {"none", "running", "asked", "orphan", "succeeded", "failed"}
    BY DEF Init
  <2>5. /\ aged \in BOOLEAN /\ page \in {"idle", "job", "probe", "poll"} /\ held \subseteq Files
        /\ launches \in 0 .. MaxLaunches /\ plan \subseteq Plans /\ erased \in BOOLEAN
    BY <1>1 DEF Init
  <2> QED BY <1>3, <1>4, <2>1, <2>2, <2>3, <2>4, <2>5 DEF TypeOK
<1>6. Rows /\ Asked /\ OnCourse /\ AsCaptured /\ WayBackKept
  BY <1>2 DEF Rows, Asked, OnCourse, AsCaptured, WayBackKept
<1>7. ImagesInUse
  BY <1>3 DEF Init, ImagesInUse
<1>8. Verdicts /\ VerdictHolds /\ PlanOnDisk
  BY <1>2, <1>4 DEF Init, Verdicts, Read, VerdictHolds, PlanOnDisk
<1> QED BY <1>5, <1>6, <1>7, <1>8 DEF UInv

\* Every step keeps the invariant.
LEMMA NextUInv == UInv /\ [Next]_vars => UInv'
<1> SUFFICES ASSUME UInv, [Next]_vars PROVE UInv'
  OBVIOUS
<1>1. CASE Updater
  BY <1>1, UpdaterStep, FailedStep, WritePlanStep, StopStep, RemoveStep, CreateStep, StartStep,
     UnhealthyStep, WriteVerdictStep DEF Updater
<1>2. CASE Panel
  BY <1>2, PanelStep, UpdaterStep, UnlinkStep DEF Panel
<1>3. CASE Around
  BY <1>3, HealthyStep, UpdaterStep, PanelStep, AgesStep, SweepStep DEF Around
<1>4. CASE UNCHANGED vars
  BY <1>4, PanelStep
<1> QED BY <1>1, <1>2, <1>3, <1>4 DEF Next

\* For any number of releases and of updaters, whichever call to Docker fails and
\* whoever is killed: a verdict on disk is true; from the moment a container is
\* touched until there is a verdict the way back is on disk, unless the reader of an
\* earlier verdict unlinked it; and the images to go back to are not swept
\* (runSelfUpdate, removeStalePanelImages, readAndClearSelfUpdateResult).
THEOREM UpdateAlwaysHolds == Spec => []UpdateHolds
<1>1. UInv => UpdateHolds
  <2> SUFFICES ASSUME UInv PROVE UpdateHolds
    OBVIOUS
  <2>1. PlanKept
    BY DEF UInv, PlanOnDisk, PlanKept
  <2> QED BY <2>1 DEF UInv, UpdateHolds
<1> QED BY InitUInv, NextUInv, <1>1, PTL DEF Spec

-----------------------------------------------------------------------------
(***************************************************************************)
(* The bell                                                                *)
(***************************************************************************)


\* A row that was read is active, its condition lasts and no pass has seen it
\* gone; or the history says why it may come back unread.
ReadLasts ==
  \A c \in Conditions : note[c] # Absent /\ note[c].read =>
    c \in gone \/ (~note[c].resolved /\ c \in real /\ \A t \in Ticks : pass[t].saw[c] # "not")

BellTyped ==
  /\ note \in [Conditions -> N!Rows \cup {Absent}]
  /\ pass \in [Ticks -> [at : {"idle", "probing"}, saw : [Conditions -> {N!Unseen, "there", "not"}]]]

BellInv == BellTyped /\ ReadLasts /\ N!ReadWasSeen

\* A tick that rests has seen nothing.
LEMMA IdlePass == 
  /\ N!Idle \in [at : {"idle", "probing"}, saw : [Conditions -> {N!Unseen, "there", "not"}]]
  /\ \A c \in Conditions : N!Idle.saw[c] # "not"
BY DEF N!Idle, N!Unseen

\* What a pass that has seen everything, or was cut while it wrote, makes of a row
LEMMA WrittenRow ==
  ASSUME BellTyped, NEW t \in Ticks, NEW D \in SUBSET Conditions, D # {} => N!Ready(t),
         NEW c \in Conditions
  PROVE  /\ N!Written(t, D)[c] \in N!Rows \cup {Absent}
         /\ \/ N!Written(t, D)[c] = note[c]
            \/ /\ N!Written(t, D)[c] = [read |-> FALSE, resolved |-> FALSE]
               /\ note[c] = Absent \/ note[c].resolved
            \/ /\ note[c] # Absent /\ pass[t].saw[c] = "not"
               /\ N!Written(t, D)[c] = [read |-> note[c].read, resolved |-> TRUE]
<1>1. note[c] \in N!Rows \cup {Absent}
  BY DEF BellTyped
<1>2. CASE c \notin D
  BY <1>1, <1>2 DEF N!Written
<1>3. CASE c \in D /\ pass[t].saw[c] = "there"
  <2>1. N!Written(t, D)[c] = N!UpsertActive(note[c])
    BY <1>3 DEF N!Written
  <2> QED BY <2>1, <1>1 DEF N!UpsertActive, N!Rows
<1>4. CASE c \in D /\ pass[t].saw[c] # "there"
  <2>1. N!Written(t, D)[c] = N!ResolveIfActive(note[c])
    BY <1>4 DEF N!Written
  <2>2. pass[t].saw[c] = "not"
    BY <1>4 DEF BellTyped, N!Ready
  <2> QED BY <2>1, <2>2, <1>1 DEF N!ResolveIfActive, N!Rows
<1> QED BY <1>2, <1>3, <1>4

\* The writes of a pass, whole or cut
LEMMA WrittenKeeps ==
  ASSUME BellInv, NEW t \in Ticks, NEW D \in SUBSET Conditions, D # {} => N!Ready(t),
         note' = N!Written(t, D), 
         pass' \in [Ticks -> [at : {"idle", "probing"}, saw : [Conditions -> {N!Unseen, "there", "not"}]]],
         \A u \in Ticks, c \in Conditions : pass'[u].saw[c] = "not" => pass[u].saw[c] = "not",
         known' = {c \in known : note'[c] # Absent /\ ~note'[c].resolved},
         UNCHANGED <<real, gone>>
  PROVE  BellInv'
<1> DEFINE w == N!Written(t, D)
<1>1. note' = w /\ w \in [Conditions -> N!Rows \cup {Absent}]
  <2>1. w = [c \in Conditions |-> w[c]]
    BY DEF N!Written
  <2> HIDE DEF w
  <2>2. \A c \in Conditions : w[c] \in N!Rows \cup {Absent}
    BY WrittenRow DEF BellInv, w
  <2> QED BY <2>1, <2>2 DEF w
<1>2. \A c \in Conditions :
         \/ w[c] = note[c]
         \/ w[c] = [read |-> FALSE, resolved |-> FALSE]
         \/ /\ note[c] # Absent /\ pass[t].saw[c] = "not"
            /\ w[c] = [read |-> note[c].read, resolved |-> TRUE]
  BY WrittenRow DEF BellInv
<1> HIDE DEF w
<1>3. ReadLasts'
  BY <1>1, <1>2 DEF BellInv, ReadLasts
<1>4. N!ReadWasSeen'
  BY <1>1, <1>2 DEF BellInv, N!ReadWasSeen, N!Active
<1> QED BY <1>1, <1>3, <1>4 DEF BellInv, BellTyped

\* Marking as read, of one row or of all
LEMMA MarkReadKeeps ==
  ASSUME BellInv, NEW D \in SUBSET Conditions, N!MarkRead(D)
  PROVE  BellInv'
<1>1. note' \in [Conditions -> N!Rows \cup {Absent}]
  BY DEF BellInv, BellTyped, N!MarkRead, N!Rows
<1>2. \A c \in Conditions : note'[c] = IF c \in D /\ note[c] # Absent THEN [note[c] EXCEPT !.read = TRUE] ELSE note[c]
  BY DEF N!MarkRead
<1>3. \A c \in Conditions : note[c] \in N!Rows \cup {Absent}
  BY DEF BellInv, BellTyped
<1>4. ReadLasts'
  BY <1>2, <1>3 DEF BellInv, ReadLasts, N!MarkRead, N!Rows
<1>5. N!ReadWasSeen'
  BY <1>2, <1>3 DEF BellInv, N!ReadWasSeen, N!MarkRead, N!Active, N!Rows
<1> QED BY <1>1, <1>4, <1>5 DEF BellInv, BellTyped, N!MarkRead

\* Every step keeps the invariant, and makes no row unread that was read and
\* whose condition lasts.
LEMMA BellStep == BellInv /\ [N!Next]_N!vars => BellInv' /\ \A c \in Conditions :
       note[c] # Absent /\ note[c].read /\ ~note'[c].read => c \in gone
<1> DEFINE Stays == \A c \in Conditions :
       note[c] # Absent /\ note[c].read /\ ~note'[c].read => c \in gone
<1> SUFFICES ASSUME BellInv, [N!Next]_N!vars PROVE BellInv' /\ Stays
  OBVIOUS
<1>0. note' = note => Stays
  OBVIOUS
<1> HIDE DEF Stays
<1>1. ASSUME NEW t \in Ticks, N!Begin(t) PROVE BellInv' /\ Stays
  <2>1. pass' = [pass EXCEPT ![t].at = "probing"] /\ UNCHANGED <<real, note, gone, known>>
    BY <1>1 DEF N!Begin
  <2>2. BellTyped'
    BY <2>1 DEF BellInv, BellTyped
  <2>3. \A u \in Ticks : pass'[u].saw = pass[u].saw
    BY <2>1 DEF BellInv, BellTyped
  <2> QED BY <1>0, <2>1, <2>2, <2>3 DEF BellInv, ReadLasts, N!ReadWasSeen, N!Active
<1>2. ASSUME NEW t \in Ticks, NEW c \in Conditions, N!Probe(t, c) PROVE BellInv' /\ Stays
  <2>1. pass' = [pass EXCEPT ![t].saw[c] = IF c \in real THEN "there" ELSE "not"] /\ UNCHANGED <<real, note, gone, known>>
    BY <1>2 DEF N!Probe
  <2>2. BellTyped'
    BY <2>1 DEF BellInv, BellTyped
  <2>3. \A u \in Ticks, d \in Conditions :
           pass'[u].saw[d] # pass[u].saw[d] => d = c /\ pass'[u].saw[d] = IF c \in real THEN "there" ELSE "not"
    BY <2>1 DEF BellInv, BellTyped
  <2>4. ReadLasts'
    BY <2>1, <2>3 DEF BellInv, ReadLasts
  <2> QED BY <1>0, <2>1, <2>2, <2>4 DEF BellInv, N!ReadWasSeen, N!Active
<1>3. ASSUME NEW t \in Ticks, N!Write(t) PROVE BellInv' /\ Stays
  <2>1. N!Ready(t) /\ note' = N!Written(t, Conditions) /\ pass' = [pass EXCEPT ![t] = N!Idle]
    BY <1>3 DEF N!Write
  <2>2. BellInv'
    <3>1. pass' \in [Ticks -> [at : {"idle", "probing"}, saw : [Conditions -> {N!Unseen, "there", "not"}]]]
      BY <2>1, IdlePass DEF BellInv, BellTyped
    <3>2. \A u \in Ticks, c \in Conditions : pass'[u].saw[c] = "not" => pass[u].saw[c] = "not"
      BY <2>1, IdlePass DEF BellInv, BellTyped
    <3> QED BY <1>3, <2>1, <3>1, <3>2, WrittenKeeps DEF N!Write
  <2>3. Stays
    BY <2>1, WrittenRow DEF BellInv, ReadLasts, Stays
  <2> QED BY <2>2, <2>3
<1>4. ASSUME NEW t \in Ticks, NEW D \in SUBSET Conditions, N!Die(t, D) PROVE BellInv' /\ Stays
  <2>1. (D # {} => N!Ready(t)) /\ note' = N!Written(t, D) /\ pass' = [u \in Ticks |-> N!Idle]
    BY <1>4 DEF N!Die
  <2>2. BellInv'
    <3>1. pass' \in [Ticks -> [at : {"idle", "probing"}, saw : [Conditions -> {N!Unseen, "there", "not"}]]]
      BY <2>1, IdlePass
    <3>2. \A u \in Ticks, c \in Conditions : pass'[u].saw[c] = "not" => pass[u].saw[c] = "not"
      BY <2>1, IdlePass
    <3> QED BY <1>4, <2>1, <3>1, <3>2, WrittenKeeps DEF N!Die
  <2>3. Stays
    BY <2>1, WrittenRow DEF BellInv, ReadLasts, Stays
  <2> QED BY <2>2, <2>3
<1>5. ASSUME NEW c \in Conditions, N!Turn(c) PROVE BellInv' /\ Stays
  <2>1. UNCHANGED <<note, pass, known>>
    BY <1>5 DEF N!Turn
  <2>2. ReadLasts'
    BY <1>5, <2>1 DEF BellInv, ReadLasts, N!Turn
  <2> QED BY <1>0, <2>1, <2>2 DEF BellInv, BellTyped, N!ReadWasSeen, N!Active
<1>6. ASSUME NEW D \in SUBSET Conditions, N!MarkRead(D) PROVE BellInv' /\ Stays
  <2>1. BellInv'
    BY <1>6, MarkReadKeeps
  <2>2. Stays
    BY <1>6 DEF N!MarkRead, BellInv, BellTyped, N!Rows, Stays
  <2> QED BY <2>1, <2>2
<1>7. CASE UNCHANGED N!vars
  BY <1>0, <1>7 DEF BellInv, BellTyped, ReadLasts, N!ReadWasSeen, N!Active, N!vars
<1> QED BY <1>1, <1>2, <1>3, <1>4, <1>5, <1>6, <1>7 DEF N!Next, N!Evaluator

\* For any conditions and any ticks, however they overlap and wherever the process
\* dies: what was read stays read while its condition lasts, and nothing is read that
\* was never shown (upsertActive, resolveIfActive, markRead).
THEOREM BellAlwaysHolds == N!Spec => BellHolds
<1>1. N!Init => BellInv
  BY IdlePass DEF N!Init, BellInv, BellTyped, ReadLasts, N!ReadWasSeen, N!Active
<1>2. BellInv => N!ReadWasSeen
  BY DEF BellInv
<1>3. BellInv /\ [N!Next]_N!vars =>
        [\A c \in Conditions : note[c] # Absent /\ note[c].read /\ ~note'[c].read => c \in gone]_N!vars
  BY BellStep
<1> QED BY <1>1, <1>2, <1>3, BellStep, PTL DEF N!Spec, BellHolds, N!ReadStays

-----------------------------------------------------------------------------
(***************************************************************************)
(* The settings                                                            *)
(***************************************************************************)


\* A set of natural numbers has a least element: what induction comes from below.
LEMMA Least ==
  ASSUME NEW T, T \subseteq Nat, T # {}
  PROVE  \E x \in T : \A y \in T : x <= y
<1>1. IsWellFoundedOn(OpToRel(<, Nat), Nat)
  BY NatLessThanWellFounded
<1>2. PICK x \in T : \A y \in T : ~(<<y, x>> \in OpToRel(<, Nat))
  BY <1>1, WFMin
<1>3. \A y \in T : ~(y < x)
  BY <1>2 DEF OpToRel
<1> QED BY <1>3

\* What is left of K after one attempt drops one of the blamed
Attempt(K) ==
  LET blamed == C!Issues(C!Merged(K)) \cap K
  IN IF blamed = {} THEN K ELSE K \ {CHOOSE k \in blamed : TRUE}

\* The attempts are a function: by induction on their number.
LEMMA AttemptsExist ==
  ASSUME NEW K, NEW n0 \in Nat
  PROVE  \E g : g = [n \in 0 .. n0 |-> IF n = 0 THEN K ELSE Attempt(g[n - 1])]
<1> DEFINE Def(g, m) == [n \in 0 .. m |-> IF n = 0 THEN K ELSE Attempt(g[n - 1])]
           P(m) == \E g : g = Def(g, m)
           T == {m \in Nat : ~P(m)}
<1>1. P(0)
  <2>1. [n \in 0 .. 0 |-> K] = Def([n \in 0 .. 0 |-> K], 0)
    OBVIOUS
  <2> QED BY <2>1
<1>2. ASSUME NEW m \in Nat, P(m) PROVE P(m + 1)
  <2>1. PICK g : g = Def(g, m)
    BY <1>2
  <2> DEFINE h == [n \in 0 .. m + 1 |-> IF n = m + 1 THEN Attempt(g[m]) ELSE g[n]]
  <2>2. \A n \in 0 .. m + 1 : h[n] = IF n = 0 THEN K ELSE Attempt(h[n - 1])
    <3> TAKE n \in 0 .. m + 1
    <3>1. CASE n = 0
      BY <3>1, <2>1
    <3>2. CASE n = m + 1
      <4>1. h[n] = Attempt(g[m]) /\ h[n - 1] = g[m]
        BY <3>2
      <4> QED BY <4>1, <3>2
    <3>3. CASE n # 0 /\ n # m + 1
      <4>1. n \in 0 .. m /\ n - 1 \in 0 .. m
        BY <3>3
      <4>2. g[n] = Attempt(g[n - 1])
        BY <2>1, <4>1, <3>3
      <4>3. h[n] = g[n] /\ h[n - 1] = g[n - 1]
        BY <4>1, <3>3
      <4> QED BY <4>2, <4>3, <3>3
    <3> QED BY <3>1, <3>2, <3>3
  <2>3. h = [n \in 0 .. m + 1 |-> h[n]]
    OBVIOUS
  <2> HIDE DEF h
  <2>4. h = Def(h, m + 1)
    BY <2>2, <2>3, Zenon
  <2> QED BY <2>4
<1>3. T = {}
  <2> SUFFICES ASSUME T # {} PROVE FALSE
    OBVIOUS
  <2> HIDE DEF P
  <2>1. PICK m \in T : \A k \in T : m <= k
    BY Least
  <2>2. m # 0
    BY <1>1
  <2>3. m - 1 \in Nat /\ P(m - 1)
    BY <2>1, <2>2
  <2> QED BY <2>3, <1>2
<1>4. P(n0)
  BY <1>3
<1> QED BY <1>4

\* Cardinality as Settings has it
LEMMA SameCardinality == \A K : C!Cardinality(K) = Cardinality(K)
BY Zenon DEF C!Cardinality, Cardinality

\* resolveEffectiveEnv, attempt by attempt
LEMMA EffectiveIs ==
  ASSUME NEW K, Cardinality(K) \in Nat
  PROVE  \E g : /\ C!Effective(K) = g[Cardinality(K)]
                /\ g = [n \in 0 .. Cardinality(K) |-> IF n = 0 THEN K ELSE Attempt(g[n - 1])]
<1> DEFINE n0 == C!Cardinality(K)
           P(w) == w = [n \in 0 .. n0 |->
                          IF n = 0 THEN K
                          ELSE LET blamed == C!Issues(C!Merged(w[n - 1])) \cap w[n - 1]
                               IN IF blamed = {} THEN w[n - 1]
                                  ELSE w[n - 1] \ {CHOOSE k \in blamed : TRUE}]
           W == CHOOSE w : P(w)
<1>0. n0 = Cardinality(K)
  BY SameCardinality
<1>1. PICK g : g = [n \in 0 .. n0 |-> IF n = 0 THEN K ELSE Attempt(g[n - 1])]
  <2>1. n0 \in Nat
    BY <1>0
  <2> HIDE DEF n0
  <2> QED BY <2>1, AttemptsExist
<1>2. \E w : P(w)
  <2>1. P(g)
    BY <1>1, Zenon DEF Attempt
  <2> QED BY <2>1
<1>3. P(W)
  <2> HIDE DEF P
  <2> QED BY <1>2, Zenon
<1>4. C!Effective(K) = W[n0]
  BY Zenon DEF C!Effective
<1>5. W = [n \in 0 .. n0 |-> IF n = 0 THEN K ELSE Attempt(W[n - 1])]
  <2> HIDE DEF W
  <2> QED BY <1>3, Zenon DEF Attempt
<1> HIDE DEF W, n0
<1>6. W = [n \in 0 .. Cardinality(K) |-> IF n = 0 THEN K ELSE Attempt(W[n - 1])]
  BY <1>0, <1>5, Zenon
<1>7. C!Effective(K) = W[Cardinality(K)]
  BY <1>0, <1>4, Zenon
<1> QED BY <1>6, <1>7

-----------------------------------------------------------------------------
\* The environment and what was saved have their types.
Saved ==
  /\ env \in [C!Shown -> Good \cup {C!Unset}]
  /\ saved \in [C!Keys -> C!Values \cup {C!Nothing}]
  /\ \A k \in Optional : saved[k] \in Good \cup {C!Nothing}

Overrides == {k \in C!Editable : saved[k] # C!Nothing}
Blamed(K) == C!Issues(C!Merged(K)) \cap K

\* Only an override is to blame for anything.
LEMMA IssuesAreOverrides ==
  ASSUME Saved, NEW K, K \subseteq Overrides
  PROVE  /\ C!Issues(C!Merged(K)) = Blamed(K)
         /\ \A k \in Blamed(K) : k \in K /\ saved[k] \in Bad
<1>1. \A k \in C!Editable : C!Merged(K)[k] = IF k \in K THEN saved[k] ELSE env[k]
  BY DEF C!Merged, C!Shown
<1>2. \A k \in C!Editable : env[k] \notin Bad
  BY SettingsAssumption DEF Saved, C!Shown
<1>3. \A k \in C!Issues(C!Merged(K)) : k \in C!Editable /\ C!Merged(K)[k] \in Bad
  BY DEF C!Issues, C!Editable
<1> QED BY <1>1, <1>2, <1>3 DEF Blamed

\* An attempt drops nothing that is valid, and one override if any is to blame.
LEMMA AttemptDrops ==
  ASSUME Saved, NEW K, K \subseteq Overrides, IsFiniteSet(K)
  PROVE  /\ Attempt(K) \subseteq K /\ IsFiniteSet(Attempt(K))
         /\ \A k \in K : saved[k] \in Good => k \in Attempt(K)
         /\ Blamed(K) = {} => Attempt(K) = K
         /\ Blamed(K) # {} => Cardinality(Attempt(K)) = Cardinality(K) - 1
<1>1. CASE Blamed(K) = {}
  <2>1. Attempt(K) = K
    BY <1>1 DEF Attempt, Blamed
  <2> QED BY <1>1, <2>1
<1>2. CASE Blamed(K) # {}
  <2> DEFINE k0 == CHOOSE k \in Blamed(K) : TRUE
  <2>1. k0 \in Blamed(K)
    BY <1>2
  <2>2. Attempt(K) = K \ {k0}
    BY <1>2 DEF Attempt, Blamed
  <2> HIDE DEF k0
  <2>3. k0 \in K /\ saved[k0] \in Bad
    BY <2>1, IssuesAreOverrides
  <2>4. saved[k0] \notin Good
    BY <2>3, SettingsAssumption
  <2>5. IsFiniteSet(K \ {k0}) /\ Cardinality(K \ {k0}) = Cardinality(K) - 1
    BY <2>3, FS_RemoveElement
  <2> QED BY <1>2, <2>2, <2>4, <2>5
<1> QED BY <1>1, <1>2

\* There are as many attempts as overrides: enough to drop all that are invalid.
LEMMA EffectiveIsFree ==
  ASSUME Saved, NEW K, K \subseteq Overrides, IsFiniteSet(K)
  PROVE  /\ C!Effective(K) \subseteq K
         /\ \A k \in K : saved[k] \in Good => k \in C!Effective(K)
         /\ C!Issues(C!Merged(C!Effective(K))) = {}
<1> DEFINE n0 == Cardinality(K)
<1>0. n0 \in Nat
  BY FS_CardinalityType
<1>1. PICK g : /\ C!Effective(K) = g[n0]
               /\ g = [n \in 0 .. n0 |-> IF n = 0 THEN K ELSE Attempt(g[n - 1])]
  BY <1>0, EffectiveIs
<1> DEFINE Q(A, n) == /\ A \subseteq K /\ IsFiniteSet(A)
                      /\ \A k \in K : saved[k] \in Good => k \in A
                      /\ Blamed(A) = {} \/ Cardinality(A) = n0 - n
           T == {n \in 0 .. n0 : ~Q(g[n], n)}
<1>2. Q(g[0], 0)
  <2>1. g[0] = K
    BY <1>0, <1>1
  <2> QED BY <1>0, <2>1
<1>3. ASSUME NEW n \in 0 .. n0, n # 0, Q(g[n - 1], n - 1) PROVE Q(g[n], n)
  <2>1. g[n] = Attempt(g[n - 1])
    BY <1>0, <1>1, <1>3
  <2> DEFINE A == g[n - 1]
  <2>2. /\ Attempt(A) \subseteq A /\ IsFiniteSet(Attempt(A))
        /\ \A k \in A : saved[k] \in Good => k \in Attempt(A)
        /\ Blamed(A) = {} => Attempt(A) = A
        /\ Blamed(A) # {} => Cardinality(Attempt(A)) = Cardinality(A) - 1
    <3>1. A \subseteq Overrides /\ IsFiniteSet(A)
      BY <1>3
    <3> HIDE DEF A
    <3> QED BY <3>1, AttemptDrops
  <2>3. Q(A, n - 1)
    BY <1>3
  <2> HIDE DEF A
  <2>4. Q(Attempt(A), n)
    <3>1. CASE Blamed(A) = {}
      BY <2>2, <2>3, <3>1
    <3>2. CASE Blamed(A) # {}
      BY <1>0, <2>2, <2>3, <3>2
    <3> QED BY <3>1, <3>2
  <2> QED BY <2>1, <2>4 DEF A
<1>4. Q(g[n0], n0)
  <2> HIDE DEF Q
  <2>1. T = {}
    <3> SUFFICES ASSUME T # {} PROVE FALSE
      OBVIOUS
    <3>1. PICK n \in T : \A m \in T : n <= m
      <4>1. T \subseteq Nat
        BY <1>0
      <4> HIDE DEF T
      <4> QED BY <4>1, Least
    <3>2. n # 0
      BY <1>2
    <3>3. n - 1 \in 0 .. n0 /\ n - 1 \notin T
      BY <1>0, <3>1, <3>2
    <3> QED BY <1>3, <3>2, <3>3
  <2> QED BY <1>0, <2>1
<1> DEFINE E == g[n0]
<1>5. Q(E, n0)
  BY <1>4
<1> HIDE DEF E
<1>6. Blamed(E) = {}
  <2>1. CASE Cardinality(E) = 0
    <3>1. E = {}
      BY <1>5, <2>1, FS_EmptySet
    <3> QED BY <3>1 DEF Blamed
  <2> QED BY <1>0, <1>5, <2>1
<1>7. C!Issues(C!Merged(E)) = {}
  BY <1>5, <1>6, IssuesAreOverrides
<1>8. C!Effective(K) = E
  BY <1>1 DEF E
<1> QED BY <1>5, <1>7, <1>8

\* What a start runs with: the valid overrides, and the environment.
LEMMA EffectiveEnvironment ==
  ASSUME Saved
  PROVE  LET e == C!Merged(C!Effective(DOMAIN C!Startup))
         IN /\ C!Issues(e) = {}
            /\ e = [k \in C!Shown |-> IF k \in C!Editable /\ saved[k] \in Good THEN saved[k] ELSE env[k]]
<1> DEFINE E == C!Effective(Overrides)
<1>1. DOMAIN C!Startup = Overrides
  BY DEF C!Startup, C!Restrict, Overrides
<1>2. /\ E \subseteq Overrides
      /\ \A k \in Overrides : saved[k] \in Good => k \in E
      /\ C!Issues(C!Merged(E)) = {}
  <2>1. IsFiniteSet(Overrides)
    BY SettingsAssumption, FS_Subset DEF Overrides, C!Editable
  <2> QED BY <2>1, EffectiveIsFree
<1> HIDE DEF E
<1>3. ASSUME NEW k \in C!Shown
      PROVE  C!Merged(E)[k] = IF k \in C!Editable /\ saved[k] \in Good THEN saved[k] ELSE env[k]
  <2>1. C!Merged(E)[k] = IF k \in E THEN saved[k] ELSE env[k]
    BY DEF C!Merged
  <2>2. CASE k \in C!Editable /\ saved[k] \in Good
    <3>1. k \in Overrides
      BY <2>2, SettingsAssumption DEF Overrides
    <3> QED BY <1>2, <2>1, <2>2, <3>1
  <2>3. CASE ~(k \in C!Editable /\ saved[k] \in Good)
    <3>1. k \notin E
      <4> SUFFICES ASSUME k \in E PROVE FALSE
        OBVIOUS
      <4>1. k \in C!Editable /\ saved[k] # C!Nothing
        BY <1>2 DEF Overrides
      <4>2. saved[k] \in Bad
        BY <2>3, <4>1 DEF Saved, C!Keys, C!Shown, C!Values
      <4>3. k \in Fields \cup Refined
        BY <4>1, <4>2, SettingsAssumption DEF Saved, C!Editable
      <4>4. C!Merged(E)[k] \in Bad
        BY <2>1, <4>2
      <4> QED BY <1>2, <4>3, <4>4 DEF C!Issues
    <3> QED BY <2>1, <2>3, <3>1
  <2> QED BY <2>2, <2>3
<1>4. C!Merged(E) = [k \in C!Shown |-> IF k \in C!Editable /\ saved[k] \in Good THEN saved[k] ELSE env[k]]
  <2>1. C!Merged(E) = [k \in C!Shown |-> C!Merged(E)[k]]
    BY DEF C!Merged
  <2> QED BY <1>3, <2>1, Zenon
<1> QED BY <1>1, <1>2, <1>4 DEF E

-----------------------------------------------------------------------------
\* The migrations applied are the first n, and a server that is past the
\* refusal knows them all.
SchemaInv ==
  /\ applied = schema
  /\ \E n \in 0 .. MaxBuild : applied = 1 .. n
  /\ server \in {"migrating", "up"} => applied \subseteq 1 .. build
  /\ server = "up" => applied = 1 .. build

\* What runs is valid; what a snapshot keeps is what ran; and what was saved
\* last, if it came from a snapshot, holds its values still.
EditorInv ==
  /\ running \in [C!Shown -> Good \cup {C!Unset}]
  /\ \A s \in snapshots : /\ s.ran \in [C!Shown -> Good \cup {C!Unset}]
                          /\ s.of = [k \in {l \in C!Shown : s.ran[l] # C!Unset} |-> s.ran[k]]
  /\ \A s \in rolled, k \in C!Editable : s.ran[k] # C!Unset => saved[k] = s.ran[k]

SetInv ==
  /\ C!TypeOK /\ Saved /\ SchemaInv /\ EditorInv
  /\ C!NeverBricked /\ C!SavedTakesEffect

\* The bounds are numbers.
LEMMA BoundsAreNat == MaxApplies \in Nat /\ MaxEdits \in Nat /\ MaxStarts \in Nat
BY SettingsAssumption

\* A counter below its bound may be counted up.
LEMMA Counted ==
  ASSUME NEW m \in Nat, NEW n \in 0 .. m, n < m
  PROVE  n + 1 \in 0 .. m
OBVIOUS

\* What the server finds at first satisfies the invariant.
LEMMA SetInit ==
  ASSUME C!Init
  PROVE  SetInv
<1> USE SettingsAssumption DEF C!Init
<1>1. C!TypeOK
  BY DEF C!TypeOK, C!Stopped, C!Keys, C!Values
<1>2. Saved
  BY DEF Saved, C!Keys, C!Values, C!Shown, C!Editable
<1>3. SchemaInv
  <2>1. {} = 1 .. 0
    OBVIOUS
  <2> QED BY <2>1 DEF SchemaInv
<1>4. EditorInv /\ C!NeverBricked /\ C!SavedTakesEffect
  BY DEF EditorInv, C!NeverBricked, C!SavedTakesEffect
<1> QED BY <1>1, <1>2, <1>3, <1>4 DEF SetInv

\* A start is refused by a newer schema, or knows every migration applied.
LEMMA SettingsStartStep ==
  ASSUME SetInv, C!Start
  PROVE  SetInv'
<1> USE SettingsAssumption DEF C!Start, C!database, C!host, C!hist, SetInv
<1>1. C!TypeOK'
  <2>1. starts' \in 0 .. MaxStarts
    <3>1. starts \in 0 .. MaxStarts /\ starts < MaxStarts /\ starts' = starts + 1
      BY DEF C!TypeOK
    <3> QED BY <3>1, BoundsAreNat, Counted
  <2>2. server' \in C!Stopped \cup {"migrating", "up"}
    BY DEF C!Stopped
  <2> QED BY <2>1, <2>2 DEF C!TypeOK
<1>2. Saved'
  BY DEF Saved
<1>3. SchemaInv'
  <2>1. PICK n \in 0 .. MaxBuild : applied = 1 .. n
    BY DEF SchemaInv
  <2>2. server' # "up" /\ (server' = "migrating" => ~C!TooNew)
    OBVIOUS
  <2>3. ~C!TooNew => applied \subseteq 1 .. build
    BY <2>1 DEF C!TooNew, C!TypeOK
  <2>4. applied' = applied /\ schema' = schema /\ build' = build
    OBVIOUS
  <2> QED BY <2>2, <2>3, <2>4 DEF SchemaInv
<1>4. EditorInv' /\ C!NeverBricked' /\ C!SavedTakesEffect'
  BY DEF EditorInv, C!NeverBricked, C!SavedTakesEffect
<1> QED BY <1>1, <1>2, <1>3, <1>4

\* The lowest pending migration is the next one: no gap.
LEMMA SettingsMigrateStep ==
  ASSUME SetInv, C!Migrate
  PROVE  SetInv'
<1> USE SettingsAssumption DEF C!Migrate, C!host, C!hist, C!bounds, SetInv
<1>0. PICK n \in 0 .. MaxBuild : applied = 1 .. n
  BY DEF SchemaInv
<1>1. PICK v \in C!Lowest : applied' = applied \cup {v} /\ schema' = schema \cup {v}
  OBVIOUS
<1>2. v = n + 1 /\ v \in 1 .. build /\ build \in 1 .. MaxBuild
  <2>1. v \in (1 .. build) \ applied /\ \A w \in (1 .. build) \ applied : v <= w
    BY <1>1 DEF C!Lowest, C!Pending
  <2>2. build \in 1 .. MaxBuild
    BY DEF C!TypeOK
  <2>3. v >= n + 1
    BY <1>0, <2>1, <2>2
  <2>4. n + 1 \in (1 .. build) \ applied
    BY <1>0, <2>1, <2>2, <2>3
  <2> QED BY <2>1, <2>2, <2>3, <2>4
<1>3. applied' = 1 .. n + 1 /\ n + 1 \in 0 .. MaxBuild /\ 1 .. n + 1 \subseteq 1 .. MaxBuild
  BY <1>0, <1>1, <1>2
<1>4. C!TypeOK'
  BY <1>1, <1>2, <1>3 DEF C!TypeOK
<1>5. Saved'
  BY DEF Saved
<1>6. SchemaInv'
  <2>1. server' = "migrating" /\ build' = build
    OBVIOUS
  <2>2. applied' \subseteq 1 .. build /\ applied' = schema'
    BY <1>1, <1>2 DEF SchemaInv
  <2> QED BY <1>3, <2>1, <2>2 DEF SchemaInv
<1>7. EditorInv' /\ C!NeverBricked' /\ C!SavedTakesEffect'
  BY DEF EditorInv, C!NeverBricked, C!SavedTakesEffect
<1> QED BY <1>4, <1>5, <1>6, <1>7

\* Loading drops what is invalid, and only that.
LEMMA SettingsLoadStep ==
  ASSUME SetInv, C!Load
  PROVE  SetInv'
<1> USE SettingsAssumption DEF C!database, C!host, C!bounds, SetInv
<1> DEFINE e == C!Merged(C!Effective(DOMAIN C!Startup))
<1>1. /\ C!Issues(e) = {}
      /\ e = [k \in C!Shown |-> IF k \in C!Editable /\ saved[k] \in Good THEN saved[k] ELSE env[k]]
  BY EffectiveEnvironment
<1>2. /\ server = "migrating" /\ C!Pending = {}
      /\ server' = IF C!Issues(e) # {} THEN "bad config"
                   ELSE IF e[McpKey] = SwitchedOn /\ ~mcpFit THEN "bad mcp config"
                   ELSE "up"
      /\ running' = e
      /\ loaded' = [saved |-> saved, env |-> env]
      /\ UNCHANGED <<C!database, C!host, rolled, C!bounds>>
  BY DEF C!Load
<1> HIDE DEF e
<1>3. server' \in {"bad mcp config", "up"}
  BY <1>1, <1>2
<1>4. e \in [C!Shown -> Good \cup {C!Unset}]
  BY <1>1 DEF Saved
<1>5. C!TypeOK'
  BY <1>2, <1>3, <1>4 DEF C!TypeOK, C!Stopped, C!Values
<1>6. Saved'
  BY <1>2 DEF Saved
<1>7. SchemaInv'
  BY <1>2, <1>3 DEF SchemaInv, C!Pending
<1>8. EditorInv'
  BY <1>2, <1>4 DEF EditorInv
<1>9. C!NeverBricked'
  BY <1>3 DEF C!NeverBricked
<1>10. C!SavedTakesEffect'
  BY <1>1, <1>2 DEF C!SavedTakesEffect
<1> QED BY <1>5, <1>6, <1>7, <1>8, <1>9, <1>10

\* Stopping, and editing what is stopped, leave what runs and what was saved.
LEMMA SettingsStopStep ==
  ASSUME SetInv, C!MigrateFails \/ C!Die \/ C!Edit
  PROVE  SetInv'
<1> USE SettingsAssumption DEF C!MigrateFails, C!Die, C!Edit, C!database, C!host, C!hist, C!bounds, SetInv
<1>1. C!TypeOK' /\ Saved'
  <2>1. CASE C!MigrateFails \/ C!Die
    BY <2>1 DEF C!TypeOK, C!Stopped, Saved
  <2>2. CASE C!Edit
    <3>1. build' \in 1 .. MaxBuild /\ env' \in [C!Shown -> Good \cup {C!Unset}]
      BY <2>2 DEF C!TypeOK
    <3>2. edits' \in 0 .. MaxEdits
      <4>1. edits \in 0 .. MaxEdits /\ edits < MaxEdits /\ edits' = edits + 1
        BY <2>2 DEF C!TypeOK
      <4> QED BY <4>1, BoundsAreNat, Counted
    <3>3. UNCHANGED <<server, C!database, running, C!hist, applies, starts>> /\ mcpFit' = mcpFit
      BY <2>2
    <3> QED BY <3>1, <3>2, <3>3 DEF C!TypeOK, Saved
  <2> QED BY <2>1, <2>2
<1>2. SchemaInv'
  BY DEF SchemaInv, C!Stopped
<1>3. EditorInv' /\ C!NeverBricked' /\ C!SavedTakesEffect'
  <2>1. UNCHANGED <<C!database, running, C!hist>>
    OBVIOUS
  <2>2. server' # "bad config" /\ (server' = "up" => server = "up")
    BY DEF C!NeverBricked, C!Stopped
  <2> QED BY <2>1, <2>2 DEF EditorInv, C!NeverBricked, C!SavedTakesEffect
<1> QED BY <1>1, <1>2, <1>3

\* A snapshot keeps what ran.
LEMMA SnapshotKeeps ==
  ASSUME SetInv
  PROVE  /\ C!Snapshot.ran \in [C!Shown -> Good \cup {C!Unset}]
         /\ C!Snapshot.of = [k \in {l \in C!Shown : C!Snapshot.ran[l] # C!Unset} |-> C!Snapshot.ran[k]]
         /\ C!Snapshot.of \in [DOMAIN C!Snapshot.of -> Good]
         /\ DOMAIN C!Snapshot.of \subseteq C!Shown
<1>1. C!Snapshot.ran = running /\ C!Snapshot.of = [k \in {l \in C!Shown : running[l] # C!Unset} |-> running[k]]
  BY DEF C!Snapshot, C!Current, C!Restrict
<1>2. running \in [C!Shown -> Good \cup {C!Unset}]
  BY DEF SetInv, EditorInv
<1> QED BY <1>1, <1>2

\* A change set leaves the saved values of the keys that take any value good,
\* and sets what it holds.
LEMMA OverriddenSaved ==
  ASSUME SetInv, NEW c, DOMAIN c \subseteq C!Editable, \A k \in DOMAIN c : c[k] \in C!Values,
         \A k \in DOMAIN c \cap Optional : c[k] \in Good
  PROVE  /\ C!Overridden(c) \in [C!Keys -> C!Values \cup {C!Nothing}]
         /\ \A k \in Optional : C!Overridden(c)[k] \in Good \cup {C!Nothing}
         /\ \A k \in DOMAIN c : C!Overridden(c)[k] = c[k]
<1>1. DOMAIN saved = C!Keys /\ C!Editable \subseteq C!Keys /\ Optional \subseteq C!Keys
  BY DEF SetInv, Saved, C!Keys, C!Shown, C!Editable
<1>2. C!Overridden(c) = [k \in C!Keys |-> IF k \in DOMAIN c THEN c[k] ELSE saved[k]]
  BY <1>1 DEF C!Overridden
<1> QED BY <1>1, <1>2 DEF SetInv, Saved

\* Applying a change set, whole or cut, takes a snapshot of what runs.
LEMMA SettingsApplyStep ==
  ASSUME SetInv, NEW c \in C!Changes, C!Apply(c) \/ C!ApplyCut(c)
  PROVE  SetInv'
<1> USE SettingsAssumption DEF C!host, C!hist
<1>0. /\ \A k \in DOMAIN c : c[k] \in C!Values
      /\ \A k \in DOMAIN c \cap Optional : c[k] \in Good
  BY DEF C!Changes
<1>1. /\ DOMAIN c \subseteq C!Editable /\ snapshots' = snapshots \cup {C!Snapshot}
      /\ server = "up" /\ applies < MaxApplies /\ applies' = applies + 1
      /\ UNCHANGED <<applied, schema, build, env, mcpFit, running, loaded, edits, starts>>
  BY DEF C!Apply, C!ApplyCut, C!ApplySet, C!Allowed
<1>2. \/ rolled' = {} /\ saved' = C!Overridden(c) /\ server' = server
      \/ rolled' = rolled /\ saved' = saved /\ server' = "down"
  BY DEF C!Apply, C!ApplyCut, C!ApplySet
<1>3. Saved'
  BY <1>0, <1>1, <1>2, OverriddenSaved DEF SetInv, Saved
<1>4. \A s \in snapshots' : /\ s.ran \in [C!Shown -> Good \cup {C!Unset}]
                            /\ s.of = [k \in {l \in C!Shown : s.ran[l] # C!Unset} |-> s.ran[k]]
                            /\ s.of \in [DOMAIN s.of -> Good] /\ DOMAIN s.of \subseteq C!Shown
  BY <1>1, SnapshotKeeps DEF SetInv, EditorInv, C!TypeOK
<1>5. C!TypeOK'
  <2>1. applies' \in 0 .. MaxApplies
    BY <1>1 DEF SetInv, C!TypeOK
  <2>2. rolled' \subseteq snapshots' /\ server' \in C!Stopped \cup {"migrating", "up"}
    BY <1>1, <1>2 DEF SetInv, C!TypeOK, C!Stopped
  <2> QED BY <1>1, <1>3, <1>4, <2>1, <2>2 DEF SetInv, C!TypeOK, Saved
<1>6. SchemaInv'
  BY <1>1, <1>2 DEF SetInv, SchemaInv
<1>7. EditorInv'
  <2>1. \A s \in rolled', k \in C!Editable : s.ran[k] # C!Unset => saved'[k] = s.ran[k]
    BY <1>2 DEF SetInv, EditorInv
  <2>2. running' \in [C!Shown -> Good \cup {C!Unset}]
    BY <1>1 DEF SetInv, EditorInv
  <2> QED BY <1>4, <2>1, <2>2 DEF EditorInv
<1>8. C!NeverBricked' /\ C!SavedTakesEffect'
  BY <1>1, <1>2 DEF SetInv, C!NeverBricked, C!SavedTakesEffect
<1> QED BY <1>3, <1>5, <1>6, <1>7, <1>8 DEF SetInv

\* Rolling back saves every value of the snapshot that may be saved.
LEMMA SettingsRollbackStep ==
  ASSUME SetInv, NEW s \in snapshots, C!Rollback(s)
  PROVE  SetInv'
<1> USE SettingsAssumption DEF C!host
<1> DEFINE c == C!Restrict(s.of, DOMAIN s.of \cap C!Editable)
<1>0. /\ s.ran \in [C!Shown -> Good \cup {C!Unset}]
      /\ s.of = [k \in {l \in C!Shown : s.ran[l] # C!Unset} |-> s.ran[k]]
  BY DEF SetInv, EditorInv
<1>1. /\ DOMAIN c = {l \in C!Editable : s.ran[l] # C!Unset}
      /\ \A k \in DOMAIN c : c[k] = s.ran[k] /\ c[k] \in Good
  <2>1. DOMAIN c = DOMAIN s.of \cap C!Editable /\ \A k \in DOMAIN c : c[k] = s.of[k]
    BY DEF C!Restrict
  <2>2. C!Editable \subseteq C!Shown
    BY DEF C!Shown
  <2> HIDE DEF c
  <2> QED BY <1>0, <2>1, <2>2
<1>2. /\ snapshots' = snapshots \cup {C!Snapshot} /\ saved' = C!Overridden(c) /\ rolled' = {s}
      /\ server = "up" /\ server' = server /\ applies < MaxApplies /\ applies' = applies + 1
      /\ UNCHANGED <<applied, schema, build, env, mcpFit, running, loaded, edits, starts>>
  BY DEF C!Rollback, C!ApplySet
<1> HIDE DEF c
<1>3. /\ C!Overridden(c) \in [C!Keys -> C!Values \cup {C!Nothing}]
      /\ \A k \in Optional : C!Overridden(c)[k] \in Good \cup {C!Nothing}
      /\ \A k \in DOMAIN c : C!Overridden(c)[k] = c[k]
  BY <1>1, OverriddenSaved DEF C!Values
<1>4. Saved'
  BY <1>2, <1>3 DEF SetInv, Saved
<1>5. \A t \in snapshots' : /\ t.ran \in [C!Shown -> Good \cup {C!Unset}]
                            /\ t.of = [k \in {l \in C!Shown : t.ran[l] # C!Unset} |-> t.ran[k]]
                            /\ t.of \in [DOMAIN t.of -> Good] /\ DOMAIN t.of \subseteq C!Shown
  BY <1>2, SnapshotKeeps DEF SetInv, EditorInv, C!TypeOK
<1>6. C!TypeOK'
  <2>1. applies' \in 0 .. MaxApplies
    BY <1>2 DEF SetInv, C!TypeOK
  <2>2. rolled' \subseteq snapshots'
    BY <1>2
  <2> QED BY <1>2, <1>4, <1>5, <2>1, <2>2 DEF SetInv, C!TypeOK, Saved
<1>7. SchemaInv'
  BY <1>2 DEF SetInv, SchemaInv
<1>8. EditorInv'
  <2>1. \A k \in C!Editable : s.ran[k] # C!Unset => saved'[k] = s.ran[k]
    BY <1>1, <1>2, <1>3
  <2>2. running' \in [C!Shown -> Good \cup {C!Unset}]
    BY <1>2 DEF SetInv, EditorInv
  <2> QED BY <1>2, <1>5, <2>1, <2>2 DEF EditorInv
<1>9. C!NeverBricked' /\ C!SavedTakesEffect'
  BY <1>2 DEF SetInv, C!NeverBricked, C!SavedTakesEffect
<1> QED BY <1>4, <1>6, <1>7, <1>8, <1>9 DEF SetInv

\* Every step keeps the invariant.
LEMMA SetStep ==
  ASSUME SetInv, [C!Next]_C!vars
  PROVE  SetInv'
<1>1. CASE C!Start
  BY <1>1, SettingsStartStep
<1>2. CASE C!Migrate
  BY <1>2, SettingsMigrateStep
<1>3. CASE C!Load
  BY <1>3, SettingsLoadStep
<1>4. CASE C!MigrateFails \/ C!Die \/ C!Edit
  BY <1>4, SettingsStopStep
<1>5. CASE \E c \in C!Changes : C!Apply(c) \/ C!ApplyCut(c)
  BY <1>5, SettingsApplyStep
<1>6. CASE \E s \in snapshots : C!Rollback(s)
  BY <1>6, SettingsRollbackStep
<1>7. CASE UNCHANGED C!vars
  BY <1>7 DEF C!vars, SetInv, C!TypeOK, Saved, SchemaInv, EditorInv, C!NeverBricked, C!SavedTakesEffect
<1> QED BY <1>1, <1>2, <1>3, <1>4, <1>5, <1>6, <1>7 DEF C!Next

\* The invariant gives what the run checks.
LEMMA SetGives ==
  ASSUME SetInv
  PROVE  C!StartHolds /\ C!RollbackReturns
<1>1. C!SchemaWhole
  <2>1. PICK n \in 0 .. MaxBuild : applied = 1 .. n
    BY DEF SetInv, SchemaInv
  <2>2. n \in Nat /\ Cardinality(1 .. n) = n
    BY FS_Interval, SettingsAssumption
  <2>3. C!Cardinality(applied) = n
    BY <2>1, <2>2, SameCardinality
  <2> QED BY <2>1, <2>3 DEF SetInv, SchemaInv, C!SchemaWhole
<1>2. C!RollbackReturns
  <2> SUFFICES ASSUME server = "up", loaded.saved = saved, NEW s \in rolled, NEW k \in C!Editable,
                      s.ran[k] # C!Unset
               PROVE  running[k] = s.ran[k]
    BY DEF C!RollbackReturns
  <2>1. saved[k] = s.ran[k] /\ k \in C!Shown
    BY DEF SetInv, EditorInv, C!Shown
  <2>2. s \in snapshots
    BY DEF SetInv, C!TypeOK
  <2>3. s.ran \in [C!Shown -> Good \cup {C!Unset}]
    BY <2>2 DEF SetInv, EditorInv
  <2>4. s.ran[k] \in Good
    BY <2>1, <2>3
  <2> QED BY <2>1, <2>4 DEF SetInv, C!SavedTakesEffect
<1> QED BY <1>1, <1>2 DEF C!StartHolds, SetInv

\* A swap keeps what the operator set and nothing else of the old image, whatever
\* the keys and values.
LEMMA SwapHolds ==
  ASSUME swap \subseteq Swaps
  PROVE  SwapKeepsOnlyTheOperators
<1> SUFFICES ASSUME NEW x \in swap
             PROVE  LET made == Merge(x.new, WithoutInherited(Merge(x.old, x.set), IF x.seen THEN {x.old} ELSE {}, Provenance))
                        own == {k \in DOMAIN x.set \ Provenance : ~(k \in DOMAIN x.old /\ x.old[k] = x.set[k])}
                    IN /\ Only(made, Provenance) = Only(x.new, Provenance)
                       /\ \A k \in own : made[k] = x.set[k]
                       /\ x.seen => Only(made, EnvKeys \ own) = Only(x.new, EnvKeys \ own)
  BY DEF SwapKeepsOnlyTheOperators
<1>1. /\ x.seen \in BOOLEAN
      /\ \A e \in {x.old, x.new, x.set} : DOMAIN e \subseteq EnvKeys /\ e = [k \in DOMAIN e |-> e[k]]
  <2>1. x.old \in Envs /\ x.new \in Envs /\ x.set \in Envs /\ x.seen \in BOOLEAN
    BY DEF Swaps
  <2>2. \A e \in Envs : DOMAIN e \subseteq EnvKeys /\ e = [k \in DOMAIN e |-> e[k]]
    BY DEF Envs
  <2> QED BY <2>1, <2>2
<1> DEFINE merged == Merge(x.old, x.set)
           seenOld == IF x.seen THEN {x.old} ELSE {}
           kept == {k \in DOMAIN merged : k \notin Provenance /\ \A o \in seenOld : ~(k \in DOMAIN o /\ o[k] = merged[k])}
           made == Merge(x.new, Only(merged, kept))
           own == {k \in DOMAIN x.set \ Provenance : ~(k \in DOMAIN x.old /\ x.old[k] = x.set[k])}
<1>2. /\ DOMAIN merged = DOMAIN x.old \cup DOMAIN x.set
      /\ \A k \in DOMAIN merged : merged[k] = IF k \in DOMAIN x.set THEN x.set[k] ELSE x.old[k]
  BY DEF Merge
<1> HIDE DEF merged
<1>3. /\ kept \subseteq DOMAIN merged /\ kept \cap Provenance = {} /\ own \subseteq kept
      /\ x.seen => kept = own
  <2>1. own \subseteq kept
    BY <1>2
  <2>2. x.seen => kept \subseteq own
    BY <1>2
  <2> QED BY <2>1, <2>2
<1>4. /\ DOMAIN made = DOMAIN x.new \cup kept
      /\ \A k \in kept : made[k] = merged[k]
      /\ \A k \in DOMAIN made \ kept : made[k] = x.new[k]
  <2>1. DOMAIN Only(merged, kept) = kept /\ \A k \in kept : Only(merged, kept)[k] = merged[k]
    BY <1>3 DEF Only
  <2> HIDE DEF kept
  <2> QED BY <2>1 DEF Merge
<1>5. made = Merge(x.new, WithoutInherited(Merge(x.old, x.set), IF x.seen THEN {x.old} ELSE {}, Provenance))
  BY Zenon DEF WithoutInherited, merged
<1>6. \A k \in own : made[k] = x.set[k]
  <2> HIDE DEF made, kept
  <2> QED BY <1>2, <1>3, <1>4
<1> HIDE DEF made, kept, own
<1>7. ASSUME NEW K, kept \cap K = {}
      PROVE  Only(made, K) = Only(x.new, K)
  <2>1. DOMAIN made \cap K = DOMAIN x.new \cap K
    BY <1>4, <1>7
  <2>2. \A k \in DOMAIN made \cap K : made[k] = x.new[k]
    BY <1>4, <1>7
  <2> QED BY <2>1, <2>2 DEF Only
<1>8. Only(made, Provenance) = Only(x.new, Provenance)
  BY <1>3, <1>7
<1>9. x.seen => Only(made, EnvKeys \ own) = Only(x.new, EnvKeys \ own)
  BY <1>3, <1>7
<1> QED BY <1>5, <1>6, <1>8, <1>9 DEF own

\* For any keys, values, builds and edits, wherever the process dies: a start ends with
\* the schema whole and exactly the valid saved values in effect, for resolveEffectiveEnv
\* makes enough attempts to drop every invalid one; a rollback brings back what ran
\* (runMigrations, filterStartupOverrides, resolveEffectiveEnv, apply, rollback); and a
\* swap keeps what the operator set (buildImageSwapSpec).
THEOREM SettingsAlwaysHold == C!Spec /\ [](swap \subseteq Swaps) => []SettingsHold
<1>1. C!Init => SetInv
  BY SetInit
<1>2. SetInv /\ [C!Next]_C!vars => SetInv'
  BY SetStep
<1>3. SetInv /\ swap \subseteq Swaps => SettingsHold
  BY SetGives, SwapHolds DEF SettingsHold
<1> QED BY <1>1, <1>2, <1>3, PTL DEF C!Spec

===============================================================================
