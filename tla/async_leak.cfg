SPECIFICATION Spec
CONSTANTS
  Workers = {w1, w2}
  Httpd = httpd
  Copies = {r1, r2, r3}
  Count = 2
  Deadlines = TRUE
  MaxStarts = 1
  None = None
  httpd = httpd
  w1 = w1
  w2 = w2
  r1 = r1
  r2 = r2
  r3 = r3
INVARIANT RefusedOnlyWhenBusy
