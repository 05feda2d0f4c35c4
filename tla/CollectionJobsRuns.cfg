SPECIFICATION Spec
CONSTANTS
  A=A B=B p1=p1 p2=p2
  Collection={A,B}
  Process={p1,p2}
  Listing={1,2}
  Deployment <- MCDeployment
  Resolve <- MCResolve
  None=none
INVARIANTS PublishedIsWhole
PROPERTIES PublishedIsNewest EveryCollectionIsPrepared
