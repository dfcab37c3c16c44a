SPECIFICATION Spec
CONSTANTS
  UI = ui
  CLI = cli
  None = none
  SESSION_TTL_MS = 4
  RECOVERY_CODE_TTL_MS = 3
  RECOVERY_CODE_COOLDOWN_MS = 1
  MaxTime = 6
  MaxSessions = 2
  MaxCodes = 3
INVARIANTS TypeOK CodeSingleUse PasswordKept EndedStaysEnded
PROPERTIES CooldownKept
