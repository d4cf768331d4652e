\* Every form, in pieces of every size, with time-outs, socket errors, peers that
\* leave, callbacks that
\* fail and allocations that fail.
SPECIFICATION FairSpec
CONSTANTS
  Boundary <- MCBoundary
  ChunkSize = 3
  Headers <- MCHeaders
  None = None
  Modes = {"body", "basic", "multipart"}
  Forms <- MCForms
  Raw <- MCRaw
  Failures = {"timeout", "fail", "closed", "memory"}
  MaxTimeouts = 1
INVARIANTS
  
  
  WholeUpload
  

  
CHECK_DEADLOCK FALSE
