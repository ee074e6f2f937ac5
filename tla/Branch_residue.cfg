SPECIFICATION Spec
CONSTANTS
  WebPeers = {w1}
  SipIds = {s1, s2}
  SipName = SipName
  Sanitized <- OneSipName
  Branches = {b1, b2, b3}
  Callers = {c1, c2}
  None = None
  LateAdds = FALSE
SYMMETRY Symmetry
INVARIANT NothingLeft
