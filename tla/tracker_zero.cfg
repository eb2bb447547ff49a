SPECIFICATION MCSpec
CONSTANTS
  q1 = q1
  q2 = q2
  o1 = o1
  o2 = o2
  o3 = o3
  Queries = {q1, q2}
  Operators = {o1, o2, o3}
  Global = Global
  QueryOf <- MCQueryOf
  MaxReserve <- MCMaxReserve
  Limit <- MCLimit
  Sizes = {1, 3}
  MaxCalls <- MCMaxCalls
  Name = {yj, other}
  Thread = {t1, t2}
  Slot = {h1, h2, h3}
  MaxLoads = 2
  Client = {c1, c2}
  NrThreads = 2
  TimerIdBits = 1
  MaxTasks = 4
INVARIANT ZeroOnDestruction
CHECK_DEADLOCK FALSE
