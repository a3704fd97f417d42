SPECIFICATION FairSpec
CONSTANTS
  task0 = task0
  isr0 = isr0
  task1 = task1
  A = A
  B = B
  idle = idle
  None = None
  KernelCtx = {task0}
  Ctx = {task0, isr0}
  CoreOf <- MCCoreOf
  SizeOf <- MCSizeOf
  Capacity = 2
  Task = {A, B, idle}
  IdleTask = {idle}
  MaxTasks = 2
  Word = 2
  U8 = 4
  Command = {"START", "STOP", "EXTENDED"}
  Parameter = {"STOP"}
  MaxCmds = 2
INVARIANTS RecorderSound ClockExact LossIsMarked HostKnowsTasks
PROPERTIES CommandsHandled
