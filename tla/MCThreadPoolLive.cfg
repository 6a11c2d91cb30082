\* A third task makes the pool grow to a third thread while t1, which may never return,
\* and t2 hold the first two; with MaxIdle 1 workers leave again, before the stop, during
\* it, and while task_create counts them as idle.  One call may fail.  No symmetry, since
\* liveness is checked.
CONSTANTS
  w1 = w1  w2 = w2  w3 = w3
  t1 = t1  t2 = t2  t3 = t3  t4 = t4  t5 = t5  t6 = t6
  Workers = {w1, w2, w3}
  Tasks = {t1, t2, t3}
  Daemons = {t1}
  Main = Main  Nobody = Nobody  NoTask = NoTask
  InitThreads = 2  MaxThreads = 3  MaxTasks = 2  MaxIdle = 1
  MaxFailures = 1  MaxSpurious = 0
SPECIFICATION FairSpec
PROPERTIES Served StopTerminates
