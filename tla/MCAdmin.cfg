SPECIFICATION PartSpec
CONSTANTS
  Admins = {a1, a2, a3}
  Sessions = {s1, s2}
  Emails = {e1, e2}
  Ips = {i1, i2}
  Passwords = {p1, p2}
  Tasks = {t1, t2}
  MaxPerEmail = 1
  MaxPerIp = 2
  MaxFails = 2
  MaxChanges = 2
  MaxTogether = 4
  m1 = m1
  m2 = m2
  m3 = m3
  d1 = d1
  d2 = d2
  d3 = d3
  None = None
  Addresses = {m1, m2, m3}
  Changers = {1, 2}
  FirstAliases <- MCFirstAliases
  Kinds = {"quota"}
  MaxRecipients = 2
  Filters = {"filter"}
  Texts = {"away"}
  Editors = {1, 2}
  MaxDay = 2
  Spans <- MCSpans
  Ids <- MCIds
  ContainerNames = {"mail", "server", "broker", "other"}
  Labels = {"label"}
  Volumes = {"data", "cache"}
  FirstHosts <- MCFirstHosts
  Mounts <- MCMounts
  Configs <- MCConfigs
  Askers = {1}
  MaxOutside = 2
INVARIANTS AccountsHold SessionsHold GateHolds MailHolds DnsHolds BrokerHolds
SYMMETRY Symmetry
CHECK_DEADLOCK FALSE
