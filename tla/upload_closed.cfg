\* The peer closes the connection before it has sent the whole body.
SPECIFICATION FairSpec
CONSTANTS
  Boundary <- MCBoundary
  ChunkSize = 3
  Headers <- MCHeaders
  None = None
  Modes = {"body", "multipart"}
  Forms <- MCForms
  Raw <- MCRaw
  Failures = {"closed"}
  MaxTimeouts = 0
PROPERTY Answered
CHECK_DEADLOCK FALSE
