SPECIFICATION RecordsSpec
CONSTANTS
  Users={u1,u2}
  None=None
  u1=u1
  u2=u2
  Importers={i1,i2}
  i1=i1
  h1=h1
  h2=h2
  h3=h3
  n1=n1
  n2=n2
  p1=p1
  p2=p2
  p3=p3
  p4=p4
  e1=e1
  e2=e2
  e3=e3
  e4=e4
  e5=e5
  e6=e6
  f1=f1
  f2=f2
  l1=l1
  l2=l2
  l3=l3
  c1=c1
  j1=j1
  j2=j2
  Handles={h1,h2,h3}
  Names={n1,n2}
  People={p1,p2,p3,p4}
  Owner<-MCOwner
  Normal<-MCNormal
  Books<-MCBooks
  Batch=2
  MaxResults=2
  MaxRuns=3
  MaxMerges=1
  Members={p1,p2,p3}
  Titles<-MCTitles
  Norm<-MCNorm
  KindOf<-MCKindOf
  Address=e1
  AllHandles={e1,e2,e3,e4,e5,e6,f1,f2,l1,l2,l3}
  Facts={x1}
  Editors={u1}
  Sessions={s1,s2}
  Employers={a,b}
  Sources={"user_manual","heuristic","linkedin_profile_upload","scrapingdog_linkedin"}
  Strategies<-MCStrategies
  Order<-MCOrder
  Recency=1
  Ttl=1
  MaxTime=4
  MaxBegins=2
  Seekers={u1}
  Postings={j1,j2}
  OrgOf<-MCOrgOf
  SourceOf<-MCSourceOf
  Boards={c1}
  MaxClock=4
  Looks={r1,r2}
  Setups<-MCSetups
  Markable={"review_jobs"}
  Pursued={j1}
  s1=s1
  g1=g1
  ScoringRuns={s1,s2}
  Pages={g1}
  Batches<-MCBatches
  Ending<-MCEnding
  MaxListed=1
  Urls<-MCUrls
  Emails<-MCEmails
INVARIANTS
  RecordsTypeOK
  ContactsKept
  ManualWins
  NormalizeSettles
  MergesHaveEvidence
  RoundsConverge
  MatchesAnnounced
  ShownIsUnderWay
PROPERTIES
  SettledStays
CHECK_DEADLOCK FALSE
