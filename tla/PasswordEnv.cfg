\* The environments of password mode, each with one variable wrong.
CONSTANTS
  Callers = {c1}
  NoCaller = NoCaller
  Headers <- MCHeaders
  MaxGrants = 1
  Envs <- PasswordEnvs
  Published <- MCPublished
  Handlers = {h1}
  MaxLogins = 0
  None = None
SPECIFICATION StartSpec
INVARIANT PasswordModeIgnoresOAuth
CHECK_DEADLOCK FALSE
