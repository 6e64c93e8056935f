SPECIFICATION FairAdapterSpec
CONSTANTS
  NoProcess = NoProcess
  Start = {s1, s2, s3}
  Call = {c1, c2}
  MaxConcurrency = 1
INVARIANTS
  
  
  DisabledStaysDown

  
