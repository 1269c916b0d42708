SPECIFICATION OrgSpec
CONSTANTS
  Users={u1,u2}
  None=None
  u1=u1
  u2=u2
  c1=c1
  c2=c2
  Companies<-MCCompanies
  Own<-MCOwn
  Watched={c1}
  MaxOrgRuns=2
  MaxStops=1
INVARIANTS
  OneSearcher
PROPERTIES
  RunsEnd
CHECK_DEADLOCK FALSE
