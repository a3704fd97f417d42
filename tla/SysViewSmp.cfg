SPECIFICATION Spec
CONSTANTS
  task0 = task0
  isr0 = isr0
  task1 = task1
  A = A
  B = B
  idle = idle
  None = None
  KernelCtx = {task0}
  Ctx = {task0, task1}
  CoreOf <- MCCoreOf
  SizeOf <- MCSizeOf
  Capacity = 3
  Task = {A, B}
  IdleTask = {}
  MaxTasks = 2
  Word = 2
  U8 = 4
  Command = {"START", "STOP", "GET_TASKLIST", "EXTENDED"}
  Parameter = {"STOP"}
  MaxCmds = 2
INVARIANT EnableStateAlways
