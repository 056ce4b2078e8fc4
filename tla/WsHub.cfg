SPECIFICATION FairSpec
CONSTANTS
  i1 = i1  i2 = i2  c1 = c1  c2 = c2  e1 = e1  e2 = e2
  Instances = {i1, i2}
  Clients = {c1, c2}
  Events = {e1, e2}
  InstanceOf <- MCInstanceOf
  QueueSize = 1
  BufferSize = 1
 
PROPERTIES QueuedReachesAll NothingIsDropped
CHECK_DEADLOCK FALSE
