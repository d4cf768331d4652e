SPECIFICATION Spec
CONSTANTS
  AppTasks = {a1}
  Httpd = httpd
  Sockets = {s1}
  Clients = {c1, c2}
  Handlers = {dflt, web, es, ws}
  Endpoints = {web, es, ws}
  EventSources = {es}
  WebSockets = {ws}
  Servers <- DefaultServers
  MaxDepth = 3
  MaxFailed = 2
  None = None
  a1 = a1
  dflt = dflt
  web = web
  es = es
  ws = ws
INVARIANT NoStaleClientAnywhere
