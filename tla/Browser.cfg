SPECIFICATION Spec
CONSTANTS
  a1 = a1
  a2 = a2
  h1 = h1
  h2 = h2
  t1 = t1
  t2 = t2
  Agents = {a1, a2}
  Harnesses = {h1, h2}
  Tenants = {t1, t2}
  Names = {n1}
  Deployments <- AllDeployments
  NumElems = 2
  Shadow <- LastOne
  Limit = 2
  Nobody = Nobody
  MaxCalls = 3
  MaxPages = 2
  MaxChanges = 2
CHECK_DEADLOCK FALSE
INVARIANTS
  TypeOK
  RefNamesOneElement
  ActsOnShownElement
  RefusedIsUntouched
PROPERTIES
  TakeoverOnly
  CallsReturn
