\* Two requests on one connection, against every small server.
SPECIFICATION FairSpec
CONSTANTS
  Servers <- MCServers
  Requests <- MCRequests
  MaxRequests = 2
  Kinds = {"web", "json", "upload", "ws"}
  None = None
INVARIANTS
  
  AnswersOnce
  OneSession
  FileOfRequest

  
CHECK_DEADLOCK FALSE
