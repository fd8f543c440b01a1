SPECIFICATION Spec
CONSTANTS
  Slots = {s1, s2}
  Nothing = Nothing
  MaxClicks = 6
  Budget <- ListClicks
  Keeps = {k1}
  Accesses = {a1}
  Bandwidths = {6}
  Limits = {2}
  Defaults <- FactoryDefaults
  MaxWrites = 2
  Invalid = Invalid
  Ranges = {g1, g2}
  BadRange = BadRange
  Modes = {"SENDER_SIP__RECEIVER_RTP", "SENDER_SIP_RTP__RECEIVER_SIP_RTP"}
  Passwords = {p1}
  Rules = {u1}
  Targets = {t1}
  Resources = {r1, r2}
  Spans = {{1, 2}, {2}}
  BindIPs = {i1}
  AnyIP = AnyIP
  Codes = {c1, c2}
  Urls = {w1, w2}
  Entries <- ThreeEntries
  Statuses = {"failed", "running"}
  PageSizes = {1, 2}
  Selections = {d1, d2}
  NodeIds = {n1, n2}
  Addresses = {h1, h2}
  MockModes = {"SENDER_SIP__RECEIVER_SIP", "SENDER_SIP__RECEIVER_RTP", "SENDER_SIP_RTP__RECEIVER_SIP_RTP"}
  RtpRanges <- TwoRtpRanges
  Transfers = {3, 10}
  Versions = {v1, v2, v3}
  Texts = {"get", "GET", "*", "", " put"}
  Marks = {"/"}
  Placeholder = Placeholder
  Longest = 3
SYMMETRY SlotSymmetry
INVARIANT
  AccessWindow
CHECK_DEADLOCK FALSE
