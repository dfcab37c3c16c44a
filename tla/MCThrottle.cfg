SPECIFICATION Spec
CONSTANTS
  Ips = {ip1, ip2}
  MAX_ATTEMPTS = 3
  LOCKOUT_MS = 2
  WINDOW_MS = 4
  NoRecord = norecord
  MaxTime = 8
SYMMETRY Symmetry
INVARIANTS TypeOK FailuresBounded LockoutEarned
