SPECIFICATION FairSpec
CONSTANTS
  t1 = t1
  t2 = t2
  q1 = q1
  q2 = q2
  Threads = {t1, t2}
  Tasks = {q1, q2}
INVARIANT Consistent
PROPERTY EveryoneAnswered
