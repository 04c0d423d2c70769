CONSTANTS
  N = 4
  Setups <- Every
SPECIFICATION FairSpec
CHECK_DEADLOCK FALSE
INVARIANTS
  ParentResumedOnce
  ResultCompleteUnlessApart
  NoChildTouchesDeadMeta
PROPERTY ParentResumes
