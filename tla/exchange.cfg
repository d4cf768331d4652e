\* Static files under updates, guarded pages and forms, with the browser's cache.
SPECIFICATION FairSpec
CONSTANTS
  Sites <- MCSites
  Pages = {"p", "q"}
  MaxVersion = 2
  MaxLosses = 1
  MaxHeaders = 8
  NoBody = NoBody
  NoFile = NoFile
  NoValue = NoValue
INVARIANTS  ParamsAsSent CookieKept ScriptMaySee KeptOut
PROPERTY PageLoads
