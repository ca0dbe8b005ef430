--------------------------------- MODULE Dns ---------------------------------
(***************************************************************************)
(* The checks of a domain's mail records (server/src/drivers/dns).         *)
(*                                                                         *)
(* A check asks a resolver, and says of each kind of record "valid",       *)
(* "invalid", "missing", "detected" (there, but not judged) or "unknown".  *)
(* An answer the resolver fails to give must not be taken for an answer.   *)
(* Record texts are parsed tokens and tags; `zone` is what the servers of  *)
(* the domain would answer, `down` what the resolver cannot get now.       *)
(***************************************************************************)
EXTENDS Naturals, Sequences, FiniteSets, FiniteSetsExt

CONSTANTS Names,     \* of SPF records
          Domain,    \* the one that is checked
          Limit,     \* SPF_RFC_LOOKUP_LIMIT
          MaxDepth,  \* MAX_SPF_RECURSION_DEPTH
          MaxTokens, \* bound: tokens of all SPF records
          MaxDown    \* bound: lookups that fail at one time

VARIABLES zone, down, report

vars == <<zone, down, report>>

-----------------------------------------------------------------------------
(***************************************************************************)
(* What a zone may hold                                                    *)
(***************************************************************************)

\* Mechanisms that cost a lookup, and those that take another name's record.
Tokens == {[k |-> "look"]} \cup [k : {"ref"}, to : Names]
SpfRecords == UNION {[1 .. n -> Tokens] : n \in 0 .. 2}

\* An answer of the resolver: records, "no such record", or an error that says
\* nothing (classifyDnsError).
Found(recs) == [is |-> "found", recs |-> recs]
Missing == [is |-> "missing", recs |-> <<>>]
Failed == [is |-> "failed", recs |-> <<>>]
Answers(R) == {Missing, Found(<<>>)} \cup {Found(<<r>>) : r \in R}
Doubled(R) == {Found(<<r, r>>) : r \in R}

DmarcRecords == [p : {"none", "reject", "absent"}, rua : BOOLEAN, pct : {"absent", "fits", "over"}]
DkimRecords == {"absent", "empty", "key"}  \* the p= tag
Families == {"v4", "v6"}

Plain == [mx |-> Found(<<"mx">>),
          txt |-> [n \in Names |-> Found(<<<<>>>>)],
          dmarc |-> Found(<<[p |-> "reject", rua |-> TRUE, pct |-> "absent"]>>),
          dkim |-> Found(<<"key">>),
          fwd |-> [f \in Families |-> Found(<<f>>)],
          ptr |-> [f \in Families |-> Found(<<"host">>)]]

Length(a) == IF Len(a.recs) = 1 THEN Len(a.recs[1]) ELSE 0
SpfZones == {t \in [Names -> Answers(SpfRecords) \cup Doubled({<<>>})] :
            MapThenSumSet(LAMBDA n : Length(t[n]), Names) <= MaxTokens}

\* The parts of a report rest on different lookups: one part varies at a time.
Zones ==
  {[Plain EXCEPT !.txt = t] : t \in SpfZones}
    \cup {[Plain EXCEPT !.dmarc = a] : a \in Answers(DmarcRecords) \cup Doubled(DmarcRecords)}
    \cup {[Plain EXCEPT !.dkim = a] : a \in Answers(DkimRecords) \cup Doubled(DkimRecords)}
    \cup {[Plain EXCEPT !.mx = a] : a \in Answers({"mx"})}
    \cup {[Plain EXCEPT !.fwd = [f \in Families |-> IF f \in A THEN @[f] ELSE Missing],
                        !.ptr = [f \in Families |-> IF f \in B THEN @[f] ELSE Missing]] :
            A \in SUBSET Families, B \in SUBSET Families}

Lookups == [of : {"mx", "dmarc", "dkim"}, at : {Domain}]
             \cup [of : {"txt"}, at : Names] \cup [of : {"fwd", "ptr"}, at : Families]

Unchecked == [mx |-> "none", spf |-> "none", dkim |-> "none", dmarc |-> "none", ptr |-> "none"]

Init == zone \in Zones /\ down = {} /\ report = Unchecked

Ask(of, at, D) ==
  IF [of |-> of, at |-> at] \in D THEN Failed
  ELSE IF of \in {"txt", "fwd", "ptr"} THEN zone[of][at] ELSE zone[of]

-----------------------------------------------------------------------------
(***************************************************************************)
(* SPF                                                                     *)
(***************************************************************************)

Undetermined == [n |-> 0, seen |-> {}, ok |-> FALSE]

\* countSpfLookups: the lookups `s.n` spent and the names `s.seen` on the way.
\* A lookup of a named record that fails in any way leaves the sum open.
RECURSIVE CountFrom(_, _, _, _)
CountFrom(rec, s, depth, D) ==
  IF depth > MaxDepth \/ ~s.ok THEN Undetermined
  ELSE IF rec = <<>> THEN s
  ELSE LET t == Head(rec)
           spent == [s EXCEPT !.n = @ + 1]
           met == [spent EXCEPT !.seen = @ \cup {t.to}]
           a == Ask("txt", t.to, D)
           next == IF t.k = "look" \/ t.to \in s.seen THEN spent
                   ELSE IF a.is # "found" THEN Undetermined
                   ELSE IF Len(a.recs) # 1 THEN met
                   ELSE CountFrom(a.recs[1], met, depth + 1, D)
       IN CountFrom(Tail(rec), next, depth, D)

Count(D) == CountFrom(Ask("txt", Domain, D).recs[1], [n |-> 0, seen |-> {Domain}, ok |-> TRUE], 0, D)

\* Slip: a record whose sum is open counts as what was summed so far.
SpfConfident(D) ==
  LET a == Ask("txt", Domain, D)
  IN IF a.is = "failed" THEN "unknown"
     ELSE IF a.recs = <<>> THEN "missing"
     ELSE IF Len(a.recs) > 1 \/ Count(D).n > Limit THEN "invalid"
     ELSE "valid"

\* checkSpf; the qualifier of "all" is only remarked on.
Spf(D) ==
  LET a == Ask("txt", Domain, D)
  IN IF a.is = "failed" THEN "unknown"
     ELSE IF a.recs = <<>> THEN "missing"
     ELSE IF Len(a.recs) > 1 THEN "invalid"
     ELSE IF ~Count(D).ok THEN "detected"
     ELSE IF Count(D).n > Limit THEN "invalid"
     ELSE "valid"

-----------------------------------------------------------------------------
(***************************************************************************)
(* The other records                                                       *)
(***************************************************************************)

\* What checkMx, checkDmarc and checkDkimDns share; `bad` are records at fault.
Judged(a, bad) ==
  CASE a.is = "failed" -> "unknown"
    [] a.is # "failed" /\ a.recs = <<>> -> "missing"
    [] OTHER -> IF Len(a.recs) > 1 \/ a.recs[1] \in bad THEN "invalid" ELSE "valid"

\* checkMx
Mx(D) == Judged(Ask("mx", Domain, D), {})

\* checkDmarc: a policy that only watches, and no address for reports, are
\* remarked on.
Dmarc(D) ==
  Judged(Ask("dmarc", Domain, D), {r \in DmarcRecords : r.p = "absent" \/ r.pct = "over"})

\* checkDkimDns: an empty key has been revoked, and is remarked on.
Dkim(D) == Judged(Ask("dkim", Domain, D), {"absent"})

\* checkPtr: the addresses of both families, then the name of each.
Ptr(D) ==
  LET fwd(f) == Ask("fwd", f, D).is
      back(f) == Ask("ptr", f, D).is
      found == {f \in Families : fwd(f) = "found"}
  IN CASE found = {} -> IF \E f \in Families : fwd(f) = "failed" THEN "unknown" ELSE "missing"
       [] \E f \in found : back(f) = "failed" -> "detected"
       [] OTHER -> IF \E f \in found : back(f) = "missing" THEN "invalid" ELSE "valid"

\* checkEmailAuth
EmailAuth(D) == [mx |-> Mx(D), spf |-> Spf(D), dkim |-> Dkim(D), dmarc |-> Dmarc(D), ptr |-> Ptr(D)]

\* A request; requests share nothing.
CheckDomain == report = Unchecked /\ report' = EmailAuth(down) /\ UNCHANGED <<zone, down>>

\* A lookup begins to fail, of the part of the zone that varies.
Varies(k) == zone = Plain \/ zone[k] # Plain[k]
Outage(l) ==
  /\ report = Unchecked /\ Cardinality(down) < MaxDown /\ down' = down \cup {l}
  /\ \E k \in IF l.of \in {"fwd", "ptr"} THEN {"fwd", "ptr"} ELSE {l.of} : Varies(k)
  /\ UNCHANGED <<zone, report>>

Next == CheckDomain \/ \E l \in Lookups : Outage(l)
Spec == Init /\ [][Next]_vars

-----------------------------------------------------------------------------
States == {"valid", "invalid", "missing", "detected", "unknown"}
TypeOK ==
  /\ DOMAIN zone = DOMAIN Plain /\ DOMAIN zone.txt = Names /\ down \subseteq Lookups
  /\ report = Unchecked \/ report \in [DOMAIN Unchecked -> States]

\* An outage blurs a report and never changes it: what a part says with
\* lookups failing is what it says without, or that it cannot say; and no
\* address is called nameless for a failure (classifyDnsError in every check).
\* Of addresses only those that were found are judged: when one family of them
\* cannot be looked up, "valid" is about the other one.
OutageOnlyBlurs ==
  LET clear == EmailAuth({})
  IN report # Unchecked =>
       /\ \A k \in {"mx", "spf", "dkim", "dmarc"} : report[k] \in {clear[k], "unknown", "detected"}
       /\ report.ptr = "invalid" => clear.ptr = "invalid"
       /\ report.ptr = "missing" => clear.ptr = "missing"

Record(n) == IF Len(zone.txt[n].recs) = 1 THEN zone.txt[n].recs[1] ELSE <<>>

\* What a receiver spends on a record, up to `left`.
RECURSIVE Spent(_, _)
Spent(rec, left) ==
  IF rec = <<>> \/ left = 0 THEN 0
  ELSE LET inner == IF Head(rec).k = "ref" THEN Spent(Record(Head(rec).to), left - 1) ELSE 0
       IN 1 + inner + Spent(Tail(rec), left - 1 - inner)

Refs(n) == {i \in DOMAIN Record(n) : Record(n)[i].k = "ref"}

\* No name is taken twice, and the domain itself not at all.
TreeLike ==
  \A n \in Names :
    Cardinality({<<m, i>> \in Names \X (1 .. 2) : i \in Refs(m) /\ Record(m)[i].to = n})
      <= IF n = Domain THEN 0 ELSE 1

\* SPF's shared budget of lookups: a record reported as over it is over it for
\* a receiver, and where no name is taken twice every record that is counted
\* is counted in full, those taken along at any depth included (countSpfLookups).
SpfBudget ==
  report # Unchecked =>
    LET spent == Spent(Record(Domain), Limit + 1)
    IN /\ report.spf = "invalid" /\ Len(zone.txt[Domain].recs) = 1 => spent > Limit
       /\ TreeLike /\ report.spf = "valid" => spent <= Limit

DnsHolds == TypeOK /\ OutageOnlyBlurs /\ SpfBudget
==============================================================================
