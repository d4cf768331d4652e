\* Every order of on(), removeEndpoint(), start(), stop(), restart(), reset().
SPECIFICATION Spec
CONSTANTS
  Endpoints = {e1, e2, e3}
  Uris = {u1, u2}
  Star = Star
  Get = Get
  post = post
  patch = patch
  Methods <- MCMethods
  AnyMethod = AnyMethod
  Supported <- MCSupported
  None = None
  Kinds = {"plain", "tls", "oldTls"}
  TlsLimit = 2
SYMMETRY EndpointSymmetry
INVARIANTS
  PointersLive
  AllForgotten
  StaysListed
PROPERTY
  StartRegistersAll
