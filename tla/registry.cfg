SPECIFICATION Spec
CONSTANTS
  AppTasks = {a1}
  Httpd = httpd
  Sockets = {s1, s2}
  Clients = {c1, c2, c3}
  Handlers = {dflt, web, es, ws}
  Endpoints = {web, es, ws}
  EventSources = {es}
  WebSockets = {ws}
  Servers <- MCServers
  MaxDepth = 4
  MaxFailed = 2
  None = None
  a1 = a1
  dflt = dflt
  web = web
  es = es
  ws = ws
SYMMETRY ClientSymmetry
INVARIANTS RecordsAgree NoStaleClient CallbacksAgree NoUseAfterFree
