------------------------------- MODULE MCAdmin -------------------------------
(***************************************************************************)
(* The administrator's side for TLC: Admin, and Dns.  A behaviour is one   *)
(* of Auth's (see MCAuth) or of another part, and the others stay in their *)
(* first state.  Only safety is checked, so MCAuth's symmetry is sound.    *)
(***************************************************************************)
EXTENDS MCAuth

CONSTANTS m1, m2, m3,  \* mail addresses
          d1, d2, d3   \* names of SPF records

VARIABLES part, zone, down, report

dns == <<zone, down, report>>
access == <<vars, client, req>>

-----------------------------------------------------------------------------
NoAlias == [m \in {m1, m2, m3} |-> {}]
Chain == [NoAlias EXCEPT ![m1] = {m2}, ![m2] = {m3}]
Fork == [NoAlias EXCEPT ![m1] = {m2, m3}]
MCFirstAliases == {Chain, Fork}

MCSpans == {<<None, None>>, <<2, None>>, <<None, 1>>, <<2, 2>>}

D == INSTANCE Dns WITH
       Names <- {d1, d2, d3}, Domain <- d1, Limit <- 2, MaxDepth <- 1, MaxTokens <- 4, MaxDown <- 1

\* The mail server, the panel and its broker, with and without a label; the
\* panel's identities may be mistaken for others.
Container(n, L, data) ==
  [name |-> n, labels |-> L, data |-> data, other |-> {}, up |-> TRUE, gone |-> FALSE]
FirstHost(L, P) ==
  [i \in 1 .. 4 |-> CASE i = 1 -> Container("mail", L, {"data"})
                      [] i = 2 -> Container("server", P, {})
                      [] i = 3 -> Container("broker", {}, {})
                      [] i = 4 -> None]
\* No container at all.
Bare == [i \in 1 .. 4 |-> None]
MCFirstHosts == {FirstHost(L, P) : L, P \in SUBSET {"label"}}
MCMounts == {[data |-> {}, other |-> {}], [data |-> {"data"}, other |-> {}],
             [data |-> {}, other |-> {"cache"}]}
Named(N) == [name : N, label : {None}]
MCConfigs == [dms : Named({"mail"}) \cup [name : {"mail"}, label : {"label"}],
              server : Named({"server", "broker", "mail"}),
              broker : Named({"broker"})]

MCIds == 1 .. 4

-----------------------------------------------------------------------------
\* A part at rest.
AccessRests == client = "administers" /\ MCInit
MailRests == M!Init /\ boxes = {} /\ alias = Chain
SieveRests == S!Init /\ active = None /\ \A n \in S!ScriptNames : script[n] = None
DnsRests == zone = None /\ down = None /\ report = None
BrokerRests ==
  /\ host = Bare /\ config = CHOOSE c \in MCConfigs : TRUE
  /\ volumes = {} /\ asked = [r \in Askers |-> B!Unused] /\ outside = 0

PartInit ==
  \/ part = "access" /\ MCInit /\ MailRests /\ SieveRests /\ DnsRests /\ BrokerRests
  \/ part = "mail" /\ AccessRests /\ M!Init /\ SieveRests /\ DnsRests /\ BrokerRests
  \/ part = "sieve" /\ AccessRests /\ S!Init /\ MailRests /\ DnsRests /\ BrokerRests
  \/ part = "dns" /\ AccessRests /\ D!Init /\ MailRests /\ SieveRests /\ BrokerRests
  \/ part = "broker" /\ AccessRests /\ B!Init /\ MailRests /\ SieveRests /\ DnsRests

PartNext ==
  /\ UNCHANGED part
  /\ \/ part = "access" /\ MCNext /\ UNCHANGED <<mail, sieve, dns, broker>>
     \/ part = "mail" /\ M!Next /\ UNCHANGED <<access, sieve, dns, broker>>
     \/ part = "sieve" /\ S!Next /\ UNCHANGED <<access, mail, dns, broker>>
     \/ part = "dns" /\ D!Next /\ UNCHANGED <<access, mail, sieve, broker>>
     \/ part = "broker" /\ B!Next /\ UNCHANGED <<access, mail, sieve, dns>>

PartSpec == PartInit /\ [][PartNext]_<<part, access, mail, sieve, dns, broker>>

-----------------------------------------------------------------------------
\* A lookup that fails never makes a verdict, and SPF's budget is summed over
\* every record taken along (Dns.tla; classifyDnsError, countSpfLookups).
DnsHolds == part = "dns" => D!DnsHolds
==============================================================================
