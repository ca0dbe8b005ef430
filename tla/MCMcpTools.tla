----------------------------- MODULE MCMcpTools -----------------------------
(***************************************************************************)
(* McpTools for TLC.  Sends and moves share the sessions and the ledger,   *)
(* and nothing else; together they are out of reach.  So the client of one *)
(* behaviour either reads and sends, or deletes and restores any messages, *)
(* one call at a time, or one message in calls that overlap.               *)
(***************************************************************************)
EXTENDS McpTools, TLC

VARIABLE client

SendSide ==
  \/ \E t \in Tasks :
       \/ Read(t) \/ ReadEnds(t) \/ ImapFails(t) \/ ImapRejects(t)
       \/ \E k \in Keys \cup {NoKey} : Send(t, k) \/ SendReply(t, k)
       \/ ReplyFetched(t) \/ AgeReply(t)
       \/ Sent(t) \/ SentFiling(t) \/ Copied(t)
       \/ NotSent(t) \/ SmtpRejects(t) \/ \E got \in Fates : CutOff(t, got) \/ Uncertain(t, got)
  \/ \E o \in Ops : Age(o)
  \/ Refused \/ CallLapses \/ Reprovision \/ Crash

MoveSide(T, M) ==
  \/ \E t \in T :
       \/ ImapFails(t)
       \/ \E ms \in SUBSET M : Delete(t, ms)
       \/ \E f \in Places : \/ CheckFolder(t, f) \/ CheckFails(t, f) \/ PutBack(t, f)
                             \/ \E uidplus \in BOOLEAN : MoveFolder(t, f, uidplus)
       \/ Recorded(t)
       \/ \E os \in SUBSET Ops : Restore(t, os)
       \/ \E o \in Ops : RestoreNext(t, o)
       \/ RestoreEnds(t) \/ FindInTrash(t) \/ NotInTrash(t) \/ Marked(t)
  \/ \E m \in M : UserExpunges(m) \/ \E f \in Places : UserMoves(m, f)
  \/ \E f \in Places : Rebuild(f)
  \/ Crash

MCInit == Init /\ client \in {"sends", "moves", "races"}

MCNext ==
  /\ UNCHANGED client
  /\ \/ client = "sends" /\ SendSide
     \/ client = "moves" /\ MoveSide({CHOOSE t \in Tasks : TRUE}, Msgs)
     \/ client = "races" /\ MoveSide(Tasks, {CHOOSE m \in Msgs : TRUE})

MCSpec == MCInit /\ [][MCNext]_<<vars, client>> /\ \A t \in Tasks : WF_vars(Continue(t))
=============================================================================
