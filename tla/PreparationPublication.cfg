SPECIFICATION PageSpec
CONSTANTS
  s1=s1 s2=s2 o1=o1 o2=o2 o3=o3 o4=o4 b1=b1 b2=b2 w1=w1 w2=w2
  Session={s1,s2}
  Offer={o1,o2,o3,o4}
  Batch={b1,b2}
  Worker={w1,w2}
  SessionOf <- MCSessionOf
  ProviderOf <- MCProviderOf
  Revision <- MCRevision
  Observation <- MCObservation
  FirstHead <- MCFirstHead
  Deployment <- MCDeployment
  NoRevision=none
  Nobody=nobody
  Canceled="canceled"
  LegacyFacts="legacy"
  MaxAttempts=2
  Invalid <- MCInvalid
  Page <- MCPage
  UrlOf <- MCUrlOf
  NoPage=nopage
INVARIANTS AttemptsMatchLeases NoLostNotice BatchAtomic EvidenceIsSound
PROPERTIES BoardPromise NoticesSettle
CHECK_DEADLOCK FALSE
