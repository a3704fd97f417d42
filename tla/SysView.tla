------------------------------- MODULE SysView -------------------------------
(***************************************************************************)
(* SEGGER_SYSVIEW.c and its FreeRTOS glue: the recorder that turns kernel  *)
(* and application events into packets on an RTT up channel and obeys the  *)
(* host's commands from the down channel.                                  *)
(*                                                                         *)
(* A context (a task or an interrupt) records an event under               *)
(* SEGGER_SYSVIEW_LOCK, which masks the other contexts of its own core and *)
(* nothing else.  At the end of every packet one command of the host is    *)
(* handled, which may send packets of its own: todo holds what is left of  *)
(* a call, with an END item where a handler stops.                         *)
(*                                                                         *)
(* The channel is the queue of RttFifo, of which only the fill level       *)
(* matters here; what the stored packets say is kept as history.           *)
(***************************************************************************)
EXTENDS Naturals, Sequences

CONSTANTS
  Ctx, CoreOf,      \* contexts that record, and the core each runs on
  KernelCtx,        \* the ones that create and delete tasks
  Capacity, SizeOf, \* of the up channel, and of a packet of each kind
  Task, IdleTask,   \* task handles, and the ones named "IDLE"
  MaxTasks,         \* SYSVIEW_FREERTOS_MAX_NOF_TASKS
  Word,             \* 2^32: time stamps are modulo this
  U8,               \* 2^8: EnableState is modulo this
  Command,          \* bytes a host sends as commands
  Parameter,        \* and as parameters: any byte, so commands as well
  MaxCmds,          \* bound: commands the host sends in all
  None

\* Packets.  EVENT is everything the kernel's trace macros and the application
\* record.  INFO stands for INIT, SYSDESC, SYSTIME, STACK_INFO, NUMMODULES, and
\* for several of them in a row.  SYNC is sent without a time stamp.
Packet == {"EVENT", "OVERFLOW", "TRACE_START", "TRACE_STOP", "INFO", "TASK_INFO", "SYNC"}

ASSUME SysViewAssumption ==
  /\ CoreOf \in [Ctx -> {CoreOf[c] : c \in Ctx}]
  /\ None \notin Ctx /\ KernelCtx \subseteq Ctx
  /\ SizeOf \in [Packet -> Nat]
  /\ Capacity \in Nat /\ MaxTasks \in Nat /\ MaxCmds \in Nat
  /\ Word \in Nat /\ Word > 1 /\ U8 \in Nat /\ U8 > 2
  /\ IdleTask \subseteq Task

Core == {CoreOf[c] : c \in Ctx}

\* Other items of a call: the end of a command handler, EnableState = 0, the
\* loop over the task list, and the list's operations.
Item == [k : Packet \cup {"END", "OFF", "TASKS", "ADD", "UPDATE", "DELETE"},
         t : Task \cup {None}, n : Nat]
It(k)     == [k |-> k, t |-> None, n |-> 0]
ItT(k, t) == [k |-> k, t |-> t, n |-> 0]
ItN(k, n) == [k |-> k, t |-> None, n |-> n]

VARIABLES
  EnableState, LastTxTimeStamp, DisabledEvents, RecursionCnt,  \* _SYSVIEW_Globals
  aTasks,       \* _aTasks[0 .. _NumTasks - 1]: handles
  live,         \* external: the tasks the kernel has
  used,         \* bytes in the up channel
  down,         \* bytes in the down channel
  sent,         \* commands the host has sent
  now,          \* SEGGER_SYSVIEW_GET_TIMESTAMP()
  lock,         \* per core: the context that masks the others, or None
  pc, todo,     \* per context
  overlap,      \* history: two cores were inside the recorder at once
  clock,        \* history: sum of the deltas of the stored packets
  gap,          \* history: a packet was lost since the last stored one
  unmarked,     \* history: a loss was followed by an ordinary packet
  clean, told   \* history: nothing lost since TRACE_START, and tasks told since

globals == <<EnableState, LastTxTimeStamp, DisabledEvents, RecursionCnt>>
tasks   == <<aTasks, live>>
channel == <<used, down, sent>>
stream  == <<clock, gap, unmarked, clean, told>>
vars    == <<globals, tasks, channel, now, lock, pc, todo, overlap, stream>>

\* SEGGER_SYSVIEW_Init: not started.
Init ==
  /\ EnableState = 0 /\ LastTxTimeStamp = 0 /\ DisabledEvents = {} /\ RecursionCnt = 0
  /\ aTasks = <<>> /\ live = {}
  /\ used = 0 /\ down = <<>> /\ sent = 0 /\ now = 0
  /\ lock = [k \in Core |-> None]
  /\ pc = [c \in Ctx |-> "idle"] /\ todo = [c \in Ctx |-> <<>>]
  /\ overlap = FALSE
  /\ clock = 0 /\ gap = FALSE /\ unmarked = FALSE /\ clean = FALSE /\ told = {}

-----------------------------------------------------------------------------
(* Calls and the lock *)

InHandler(items) == \E i \in DOMAIN items : items[i].k = "END"

\* Another core is inside the recorder.
OtherCore(c) == \E d \in Ctx : CoreOf[d] # CoreOf[c] /\ pc[d] # "idle"

\* SEGGER_SYSVIEW_LOCK, then the tests of EnableState at the top of _SendPacket.
Enter(c, items) ==
  /\ lock' = [lock EXCEPT ![CoreOf[c]] = c]
  /\ todo' = [todo EXCEPT ![c] = items]
  /\ pc'   = [pc EXCEPT ![c] = IF EnableState = 0 THEN "done"
                               ELSE IF EnableState = 2 THEN "overflow" ELSE "send"]

\* Goes on with rest; the lock is given back unless a handler is under way,
\* whose caller holds it.
Proceed(c, rest) ==
  /\ todo' = [todo EXCEPT ![c] = rest]
  /\ pc'   = [pc EXCEPT ![c] = IF rest = <<>> THEN "idle" ELSE "next"]
  /\ lock' = IF lock[CoreOf[c]] = c /\ ~InHandler(rest)
             THEN [lock EXCEPT ![CoreOf[c]] = None] ELSE lock

\* A call of the API that records items.
Call(c, items) ==
  /\ pc[c] = "idle" /\ lock[CoreOf[c]] = None
  /\ Enter(c, items)
  /\ overlap' = (overlap \/ OtherCore(c))

-----------------------------------------------------------------------------
(* _SendPacket *)

Fits(k) == used + SizeOf[k] <= Capacity

\* A stored packet: the channel and what the stream says from now on.
Store(k, t, ts) ==
  /\ used'  = used + SizeOf[k]
  /\ clock' = (clock + ts + Word - LastTxTimeStamp) % Word
  /\ LastTxTimeStamp' = ts
  /\ unmarked' = (unmarked \/ (gap /\ k \notin {"OVERFLOW", "TRACE_START"}))
  /\ gap'   = FALSE
  /\ clean' = (clean \/ k = "TRACE_START")
  /\ told'  = (IF k = "TRACE_START" THEN {} ELSE told)
                \cup (IF k = "TASK_INFO" THEN {t} ELSE {})

Lose == gap' = TRUE /\ clean' = FALSE /\ UNCHANGED <<clock, unmarked, told>>

\* The time passes a little or not at all before a time stamp is taken.
TimeStamp(ts) == ts \in {now, (now + 1) % Word} /\ now' = ts

\* Mutant: the time stamp is remembered although the packet was not stored.
OverflowStampsAlways(c) ==
  /\ pc[c] = "overflow"
  /\ \E ts \in 0 .. Word - 1 :
       /\ TimeStamp(ts)
       /\ IF Fits("OVERFLOW")
          THEN Store("OVERFLOW", None, ts) /\ EnableState' = (EnableState + U8 - 1) % U8
          ELSE LastTxTimeStamp' = ts /\ Lose /\ UNCHANGED <<used, EnableState>>
  /\ pc' = [pc EXCEPT ![c] = IF EnableState' = 1 THEN "send" ELSE "done"]
  /\ UNCHANGED <<DisabledEvents, RecursionCnt, tasks, down, sent, lock, todo, overlap>>

\* With EnableState 2 an overflow packet has to go first.  (DropCount, which it
\* carries, is left out.)
_TrySendOverflowPacket(c) ==
  /\ pc[c] = "overflow"
  /\ \E ts \in 0 .. Word - 1 :
       /\ TimeStamp(ts)
       /\ IF Fits("OVERFLOW")
          THEN Store("OVERFLOW", None, ts) /\ EnableState' = (EnableState + U8 - 1) % U8
          ELSE Lose /\ UNCHANGED <<used, LastTxTimeStamp, EnableState>>
  /\ pc' = [pc EXCEPT ![c] = IF EnableState' = 1 THEN "send" ELSE "done"]
  /\ UNCHANGED <<DisabledEvents, RecursionCnt, tasks, down, sent, lock, todo, overlap>>

\* Mutant: a packet that does not fit is dropped without a trace.
SendForgets(c) ==
  LET e == Head(todo[c]) IN
  /\ pc[c] = "send"
  /\ pc' = [pc EXCEPT ![c] = "done"]
  /\ \E ts \in 0 .. Word - 1 :
       /\ TimeStamp(ts)
       /\ IF Fits(e.k)
          THEN Store(e.k, e.t, ts)
          ELSE Lose /\ UNCHANGED <<used, LastTxTimeStamp>>
  /\ UNCHANGED <<EnableState, DisabledEvents, RecursionCnt, tasks, down, sent,
                 lock, todo, overlap>>

\* From the label Send: masked events are skipped, a packet that does not fit
\* changes EnableState from 1 to 2.
_SendPacket(c) ==
  LET e == Head(todo[c]) IN
  /\ pc[c] = "send"
  /\ pc' = [pc EXCEPT ![c] = "done"]
  /\ IF e.k \in DisabledEvents
     THEN UNCHANGED <<EnableState, LastTxTimeStamp, used, now, stream>>
     ELSE \E ts \in 0 .. Word - 1 :
            /\ TimeStamp(ts)
            /\ IF Fits(e.k)
               THEN Store(e.k, e.t, ts) /\ UNCHANGED EnableState
               ELSE /\ EnableState' = (EnableState + 1) % U8
                    /\ Lose
                    /\ UNCHANGED <<used, LastTxTimeStamp>>
  /\ UNCHANGED <<DisabledEvents, RecursionCnt, tasks, down, sent, lock, todo, overlap>>

-----------------------------------------------------------------------------
(* Commands *)

HasParameter(cmd) == cmd \in {"GET_MODULE", "EXTENDED"}

SendTaskList == <<ItN("TASKS", 1)>>

\* What SEGGER_SYSVIEW_Start sends after EnableState = 1, by way of
\* _cbSendSystemDesc, RecordSystime, SendTaskList and SendNumModules.
StartItems ==
  <<It("SYNC"), It("TRACE_START"), It("INFO")>> \o SendTaskList \o <<It("INFO")>>

\* Bytes _HandleIncomingPacket reads.
BytesRead(cmd) == IF HasParameter(cmd) THEN 2 ELSE 1

\* No module is ever registered in this firmware: GET_MODULE and
\* GET_MODULEDESC find an empty list.
CommandItems(cmd) ==
  IF cmd = "START"               THEN StartItems
  ELSE IF cmd = "STOP" /\ EnableState # 0 THEN <<It("TRACE_STOP"), It("OFF")>>
  ELSE IF cmd = "GET_TASKLIST"   THEN SendTaskList
  ELSE IF cmd \in {"GET_SYSTIME", "GET_SYSDESC", "GET_NUMMODULES"} THEN <<It("INFO")>>
  ELSE <<>>

\* _HandleIncomingPacket in the context c, which continues with rest.
_HandleIncomingPacket(c, rest) ==
  LET cmd == Head(down) IN
  /\ RecursionCnt' = 1
  /\ down' = SubSeq(down, BytesRead(cmd) + 1, Len(down))
  /\ EnableState' = IF cmd = "START" THEN 1 ELSE EnableState
  /\ Proceed(c, CommandItems(cmd) \o <<It("END")>> \o rest)

\* Mutant: a recorder that is not started returns at once.
SendDoneStarted(c) ==
  LET rest == Tail(todo[c]) IN
  /\ pc[c] = "done"
  /\ IF down # <<>> /\ RecursionCnt = 0 /\ EnableState # 0
     THEN _HandleIncomingPacket(c, rest)
     ELSE Proceed(c, rest) /\ UNCHANGED <<RecursionCnt, down, EnableState>>
  /\ UNCHANGED <<LastTxTimeStamp, DisabledEvents, tasks, used, sent, now, overlap, stream>>

\* The label SendDone: one command per packet, none while one is handled.
SendDone(c) ==
  LET rest == Tail(todo[c]) IN
  /\ pc[c] = "done"
  /\ IF down # <<>> /\ RecursionCnt = 0
     THEN _HandleIncomingPacket(c, rest)
     ELSE Proceed(c, rest) /\ UNCHANGED <<RecursionCnt, down, EnableState>>
  /\ UNCHANGED <<LastTxTimeStamp, DisabledEvents, tasks, used, sent, now, overlap, stream>>

-----------------------------------------------------------------------------
(* The rest of a call *)

Next_(c, k) == pc[c] = "next" /\ Head(todo[c]).k = k

SendNext(c) ==
  /\ pc[c] = "next" /\ Head(todo[c]).k \in Packet \ {"SYNC"}
  /\ Enter(c, todo[c])
  /\ UNCHANGED <<globals, tasks, channel, now, overlap, stream>>

\* SEGGER_RTT_WriteSkipNoLock(_abSync): nobody checks whether it was stored.
SendSync(c) ==
  /\ Next_(c, "SYNC")
  /\ used' = IF Fits("SYNC") THEN used + SizeOf["SYNC"] ELSE used
  /\ Proceed(c, Tail(todo[c]))
  /\ UNCHANGED <<globals, tasks, down, sent, now, overlap, stream>>

\* RecursionCnt = 0 after _HandleIncomingPacket.
HandlerEnds(c) ==
  /\ Next_(c, "END")
  /\ RecursionCnt' = 0
  /\ Proceed(c, Tail(todo[c]))
  /\ UNCHANGED <<EnableState, LastTxTimeStamp, DisabledEvents, tasks, channel, now,
                 overlap, stream>>

\* SEGGER_SYSVIEW_Stop after its packet.
StopEnds(c) ==
  /\ Next_(c, "OFF")
  /\ EnableState' = 0
  /\ Proceed(c, Tail(todo[c]))
  /\ UNCHANGED <<LastTxTimeStamp, DisabledEvents, RecursionCnt, tasks, channel, now,
                 overlap, stream>>

\* SYSVIEW_SendTaskInfo: two packets.
TaskInfo(t) == <<ItT("TASK_INFO", t), It("INFO")>>

\* One round of the loop of _cbSendTaskList.
_cbSendTaskList(c) ==
  /\ Next_(c, "TASKS")
  /\ LET n    == Head(todo[c]).n
         rest == Tail(todo[c])
     IN Proceed(c, IF n <= Len(aTasks)
                   THEN TaskInfo(aTasks[n]) \o <<ItN("TASKS", n + 1)>> \o rest
                   ELSE rest)
  /\ UNCHANGED <<globals, tasks, channel, now, overlap, stream>>

Position(t) == IF \E n \in DOMAIN aTasks : aTasks[n] = t
               THEN CHOOSE n \in DOMAIN aTasks :
                      aTasks[n] = t /\ \A m \in 1 .. n - 1 : aTasks[m] # t
               ELSE Len(aTasks) + 1

\* Mutant: a new task is listed but not sent.
AddTaskSilent(c, t) ==
  /\ aTasks' = IF Len(aTasks) >= MaxTasks THEN aTasks ELSE Append(aTasks, t)
  /\ Proceed(c, Tail(todo[c]))

\* SYSVIEW_AddTask of a task that is not IDLE: a full list only warns.
AddTask(c, t) ==
  IF Len(aTasks) >= MaxTasks
  THEN aTasks' = aTasks /\ Proceed(c, <<It("EVENT")>> \o Tail(todo[c]))
  ELSE aTasks' = Append(aTasks, t) /\ Proceed(c, TaskInfo(t) \o Tail(todo[c]))

SYSVIEW_AddTask(c) ==
  /\ Next_(c, "ADD")
  /\ LET t == Head(todo[c]).t
     IN IF t \in IdleTask THEN UNCHANGED aTasks /\ Proceed(c, Tail(todo[c]))
        ELSE AddTask(c, t)
  /\ UNCHANGED <<globals, live, channel, now, overlap, stream>>

\* A task that was not in the list, because the list was full, is added now.
SYSVIEW_UpdateTask(c) ==
  /\ Next_(c, "UPDATE")
  /\ LET t == Head(todo[c]).t
     IN IF t \in IdleTask THEN UNCHANGED aTasks /\ Proceed(c, Tail(todo[c]))
        ELSE IF Position(t) <= Len(aTasks)
        THEN UNCHANGED aTasks /\ Proceed(c, TaskInfo(t) \o Tail(todo[c]))
        ELSE AddTask(c, t)
  /\ UNCHANGED <<globals, live, channel, now, overlap, stream>>

\* Mutant: the last entry goes, whatever the place of the task.
DeleteLast(t) ==
  IF Position(t) > Len(aTasks) THEN aTasks ELSE SubSeq(aTasks, 1, Len(aTasks) - 1)

\* The list of SYSVIEW_DeleteTask: the last entry moves to the free place.
Deleted(t) ==
  LET n == Position(t) IN
  IF n > Len(aTasks) THEN aTasks
  ELSE SubSeq([aTasks EXCEPT ![n] = aTasks[Len(aTasks)]], 1, Len(aTasks) - 1)

SYSVIEW_DeleteTask(c) ==
  /\ Next_(c, "DELETE")
  /\ aTasks' = Deleted(Head(todo[c]).t)
  /\ Proceed(c, Tail(todo[c]))
  /\ UNCHANGED <<globals, live, channel, now, overlap, stream>>

\* A context whose core another one has masked does not run.
Step(c) ==
  /\ lock[CoreOf[c]] \in {None, c}
  /\ \/ _TrySendOverflowPacket(c) \/ _SendPacket(c) \/ SendDone(c)
     \/ SendNext(c) \/ SendSync(c) \/ HandlerEnds(c) \/ StopEnds(c)
     \/ _cbSendTaskList(c) \/ SYSVIEW_AddTask(c) \/ SYSVIEW_UpdateTask(c)
     \/ SYSVIEW_DeleteTask(c)

-----------------------------------------------------------------------------
(* What the firmware calls *)

\* SEGGER_SYSVIEW_Record..., On..., PrintfHost...: one event.
Record(c) ==
  /\ Call(c, <<It("EVENT")>>)
  /\ UNCHANGED <<globals, tasks, channel, now, stream>>

\* The kernel changes its tasks in a critical section of both cores.
InKernel == \E d \in Ctx : \E i \in DOMAIN todo[d] :
              todo[d][i].k \in {"ADD", "UPDATE", "DELETE"}

traceTASK_CREATE(c, t) ==
  /\ ~InKernel /\ t \notin live
  /\ live' = live \cup {t}
  /\ Call(c, <<It("EVENT"), ItT("ADD", t)>>)
  /\ UNCHANGED <<globals, aTasks, channel, now, stream>>

traceTASK_PRIORITY_SET(c, t) ==
  /\ ~InKernel /\ t \in live
  /\ Call(c, <<It("EVENT"), ItT("UPDATE", t)>>)
  /\ UNCHANGED <<globals, tasks, channel, now, stream>>

\* The idle tasks stay for good.
traceTASK_DELETE(c, t) ==
  /\ ~InKernel /\ t \in live \ IdleTask
  /\ live' = live \ {t}
  /\ Call(c, <<It("EVENT"), ItT("DELETE", t)>>)
  /\ UNCHANGED <<globals, aTasks, channel, now, stream>>

\* SEGGER_SYSVIEW_DisableEvents, SEGGER_SYSVIEW_EnableEvents, of the
\* events that are not part of the recorder's own protocol.
MaskEvents ==
  /\ DisabledEvents' = {"EVENT"} \ DisabledEvents
  /\ UNCHANGED <<EnableState, LastTxTimeStamp, RecursionCnt, tasks, channel, now, lock,
                 pc, todo, overlap, stream>>

-----------------------------------------------------------------------------
(* External: the host *)

\* A command goes into the channel as a whole, if there is space.
HostSends(cmd) ==
  /\ sent < MaxCmds
  /\ sent' = sent + 1
  /\ \E par \in Parameter :
       down' = down \o <<cmd>> \o (IF HasParameter(cmd) THEN <<par>> ELSE <<>>)
  /\ UNCHANGED <<globals, tasks, used, now, lock, pc, todo, overlap, stream>>

HostReads ==
  /\ used > 0
  /\ used' = used - 1
  /\ UNCHANGED <<globals, tasks, down, sent, now, lock, pc, todo, overlap, stream>>

Next ==
  \/ \E c \in Ctx : Step(c) \/ Record(c)
  \/ \E c \in KernelCtx, t \in Task :
       traceTASK_CREATE(c, t) \/ traceTASK_PRIORITY_SET(c, t) \/ traceTASK_DELETE(c, t)
  \/ MaskEvents \/ HostReads
  \/ \E cmd \in Command : HostSends(cmd)

Spec == Init /\ [][Next]_vars

\* A call runs to its end; the kernel's tick and task switches record events
\* again and again.
Fairness == (\A c \in Ctx : WF_vars(Step(c))) /\ WF_vars(\E c \in Ctx : Record(c))

FairSpec == Spec /\ Fairness

-----------------------------------------------------------------------------
TypeOK ==
  /\ EnableState \in 0 .. U8 - 1 /\ RecursionCnt \in {0, 1}
  /\ LastTxTimeStamp \in 0 .. Word - 1 /\ now \in 0 .. Word - 1 /\ clock \in 0 .. Word - 1
  /\ DisabledEvents \subseteq Packet
  /\ aTasks \in Seq(Task) /\ live \subseteq Task /\ told \subseteq Task
  /\ used \in 0 .. Capacity /\ sent \in 0 .. MaxCmds
  /\ down \in Seq(Command \cup Parameter)
  /\ lock \in [Core -> Ctx \cup {None}]
  /\ pc \in [Ctx -> {"idle", "next", "overflow", "send", "done"}]
  /\ todo \in [Ctx -> Seq(Item)]
  /\ \A b \in {overlap, gap, unmarked, clean} : b \in BOOLEAN

(***************************************************************************)
(* While no two cores are inside the recorder at once, the time the host   *)
(* computes from the deltas is the time stamp of the last stored packet,   *)
(* however many packets were lost, masked or sent by nested commands in    *)
(* between.                                                                *)
(***************************************************************************)
ClockExact == ~overlap => clock = LastTxTimeStamp

(***************************************************************************)
(* ... a loss is never silent: the next packet the host gets after it      *)
(* says that something is missing (OVERFLOW) or starts afresh.             *)
(***************************************************************************)
LossIsMarked == ~overlap => ~unmarked

(***************************************************************************)
(* ... a host that lost nothing since the trace started knows every task   *)
(* of the list, although tasks are created, deleted and moved in the list  *)
(* while it is being sent.                                                 *)
(***************************************************************************)
HostKnowsTasks ==
  ~overlap /\ clean /\ EnableState = 1 /\ (\A c \in Ctx : pc[c] = "idle") =>
    \A n \in DOMAIN aTasks : aTasks[n] \in told

(***************************************************************************)
(* Between two kernel operations the recorder's list holds no task twice,  *)
(* no IDLE task and none that is gone, although a deletion moves the last  *)
(* entry to the free place and some tasks never got into the list.         *)
(***************************************************************************)
ListExact ==
  ~InKernel =>
    /\ \A m, n \in DOMAIN aTasks : aTasks[m] = aTasks[n] => m = n
    /\ \A n \in DOMAIN aTasks : aTasks[n] \in live \ IdleTask
    /\ Len(aTasks) <= MaxTasks

(***************************************************************************)
(* The list and everything else the recorder keeps stay in their bounds:   *)
(* the channel is never filled past its capacity.                          *)
(***************************************************************************)
RecorderSound == TypeOK /\ ListExact

(***************************************************************************)
(* "EnableState has been 1, will be 2. Always." and "has been 2, will be   *)
(* 1. Always.": so it is only ever 0, 1 or 2.                              *)
(***************************************************************************)
EnableStateAlways == EnableState \in {0, 1, 2}

(***************************************************************************)
(* Every command of the host is handled, whether the recorder is started,  *)
(* stopped or blocked by a full channel that nobody reads.                 *)
(***************************************************************************)
CommandsHandled == (down # <<>>) ~> (down = <<>>)

=============================================================================
