\* Every build, three connections, two workers, every failure of memory and socket.
SPECIFICATION FairSpec
CONSTANTS
  Httpd = httpd
  Workers = {w1, w2}
  Conns = {c1, c2, c3}
  MaxMade = 2
INVARIANTS OneReader 
PROPERTY FrameEnds
