---------------------------- MODULE MCMcpOAuth ----------------------------
(***************************************************************************)
(* McpOAuth for TLC.  One instance with every table at two or three rows   *)
(* is out of reach, so each run keeps the part of Next its question needs  *)
(* and gives the tables of that part the rows.                             *)
(***************************************************************************)
EXTENDS McpOAuth, TLC

Symmetry == Permutations(Conns) \cup Permutations(Enrs) \cup Permutations(Reqs)
              \cup Permutations(Codes) \cup Permutations(Grants)
              \cup Permutations(Pairs) \cup Permutations(Tasks)

(***************************************************************************)
(* Up to the grant: sign-ins, decisions, exchanges and reissues overlap;   *)
(* the tokens under a grant stay as they were minted.                      *)
(***************************************************************************)
SignIn ==
  \/ \E c \in Conns :
       \/ RevokeConnection(c)
       \/ \E t \in Tasks : Create(t, c) \/ Reissue(t, c)
  \/ \E t \in Tasks : ResetEnrollment(t) \/ \E e \in Enrs : IssueEnrollment(t, e)
  \/ Browser
  \/ \E k \in Codes :
       \/ ReplayCode(k) \/ ExchangeRefused(k) \/ ExchangeUnusable(k)
       \/ \E g \in Grants, p \in Pairs : ExchangeCode(k, g, p)
  \/ \E k \in Codes : ExpireCode(k)
  \/ \E e \in Enrs : LapseReservation(e)

SignInSpec == Init /\ [][SignIn]_vars
=============================================================================
