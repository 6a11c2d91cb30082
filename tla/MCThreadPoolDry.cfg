\* The bounds of wp_config.h and three initial threads; nothing fails.
CONSTANTS
  w1 = w1  w2 = w2  w3 = w3
  t1 = t1  t2 = t2  t3 = t3  t4 = t4  t5 = t5  t6 = t6
  Workers = {w1, w2, w3}
  Tasks = {t1, t2, t3, t4, t5, t6}
  Daemons = {}
  Main = Main  Nobody = Nobody  NoTask = NoTask
  InitThreads = 3  MaxThreads = 8  MaxTasks = 20  MaxIdle = 2
  MaxFailures = 0  MaxSpurious = 0
SPECIFICATION Spec
SYMMETRY Symmetry
INVARIANTS NeverDry
