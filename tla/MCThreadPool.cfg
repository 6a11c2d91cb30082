\* Two initial threads, growth to three, release above one idle thread, a queue of
\* two, one failed call and one spurious wakeup.
CONSTANTS
  w1 = w1  w2 = w2  w3 = w3
  t1 = t1  t2 = t2  t3 = t3  t4 = t4  t5 = t5  t6 = t6
  Workers = {w1, w2, w3}
  Tasks = {t1, t2, t3}
  Daemons = {}
  Main = Main  Nobody = Nobody  NoTask = NoTask
  InitThreads = 2  MaxThreads = 3  MaxTasks = 2  MaxIdle = 1
  MaxFailures = 1  MaxSpurious = 1
SPECIFICATION Spec
SYMMETRY Symmetry
INVARIANTS Accounting FirstComeFirstRun StopsClean NoLostWakeup
PROPERTIES ImplementsTaskPool
