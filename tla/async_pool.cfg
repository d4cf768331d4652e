SPECIFICATION FairSpec
CONSTANTS
  Workers = {w1, w2, w3}
  Httpd = httpd
  Copies = {r1, r2}
  Count = 2
  Deadlines = TRUE
  MaxStarts = 2
  None = None
  httpd = httpd
  w1 = w1
  w2 = w2
  w3 = w3
  r1 = r1
  r2 = r2
INVARIANTS  OneOwner
 
