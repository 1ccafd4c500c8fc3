CONSTANTS
  Callers = {c1}
  NoCaller = NoCaller
  Headers <- MCHeaders
  MaxGrants = 2
  Envs <- MCEnvs
  Published <- MCPublished
  Handlers = {h1}
  MaxLogins = 2
  None = None
SPECIFICATION FairStartSpec
INVARIANTS TokenIsOurs ConsentIsOwn RestartResumes NeverPresentsReplaced
PROPERTIES StartEnds HandlersReturn
