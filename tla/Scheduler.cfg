SPECIFICATION TaskSpec
CONSTANT max_tasks = 3
CONSTANT MaxId = 4
INVARIANT BoundedWait
PROPERTY ReadyRuns
CHECK_DEADLOCK FALSE
