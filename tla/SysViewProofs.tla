---------------------------- MODULE SysViewProofs ----------------------------
(***************************************************************************)
(* For every number of contexts, cores, tasks and commands, every capacity *)
(* of the channel and every size of the task list: the recorder of         *)
(* SEGGER_SYSVIEW.c and its FreeRTOS glue keep their lists and their       *)
(* channel in bounds (RecorderSound), and as long as no two cores are      *)
(* inside at once the host's clock is exact, no loss is silent and a host  *)
(* that lost nothing knows every task.                                     *)
(*                                                                         *)
(* The last two rest on who can be inside: a context that records or       *)
(* handles a command has masked its core, so every other context waits     *)
(* between two packets and has no part of a command left (Alone).          *)
(*                                                                         *)
(* The second half is about what the recorder and SEGGER_RTT_printf put on *)
(* a channel (Formats): packets that fit and that a host can cut apart,    *)
(* numbers printed as C prints them, and texts of which the host has all,  *)
(* or the start.                                                           *)
(***************************************************************************)
EXTENDS SysView, Formats, SequenceTheorems, NaturalsInduction, WellFoundedInduction,
        TLAPS

-----------------------------------------------------------------------------
(* The inductive invariant *)

Busy     == {"overflow", "send", "done"}
KernelOp == {"ADD", "UPDATE", "DELETE"}
WithTask == KernelOp \cup {"TASK_INFO"}

\* What a context has still to do: operations of the list come last, the loop
\* over the task list is part of a command handler, and SEGGER_SYSVIEW_Start
\* sends the task list after TRACE_START.
WellFormed(s) ==
  /\ s \in Seq(Item)
  /\ \A i \in 1 .. Len(s) : s[i].k \in WithTask => s[i].t \in Task
  /\ \A i \in 1 .. Len(s) : s[i].k = "TASKS" =>
        s[i].n >= 1 /\ \E j \in i + 1 .. Len(s) : s[j].k = "END"
  /\ \A i \in 1 .. Len(s) : s[i].k = "SYNC" => i < Len(s) /\ s[i + 1].k = "TRACE_START"
  /\ \A i \in 1 .. Len(s) : s[i].k = "TRACE_START" =>
        i + 2 <= Len(s) /\ s[i + 2].k = "TASKS" /\ s[i + 2].n = 1
  /\ \A i \in 1 .. Len(s) : s[i].k \in KernelOp => i = Len(s)

\* Who is inside, and who holds the lock of his core.
CtlInv ==
  /\ \A c \in Ctx : WellFormed(todo[c])
  /\ \A c \in Ctx : pc[c] = "idle" <=> todo[c] = <<>>
  /\ \A c \in Ctx : pc[c] \in Busy => todo[c][1].k \in Packet \ {"SYNC"}
  /\ \A c \in Ctx : pc[c] \in Busy \/ InHandler(todo[c]) => lock[CoreOf[c]] = c

\* The operations of the kernel that are under way: there is at most one.  The
\* list is exact but for the one it has still to follow.
Has(s, k, t) == \E i \in 1 .. Len(s) : s[i].k = k /\ s[i].t = t
Ops == {o \in Ctx \X KernelOp \X Task : Has(todo[o[1]], o[2], o[3])}

ListOK(ops, list, lv) ==
  /\ \A o, p \in ops : o = p
  /\ Len(list) <= MaxTasks
  /\ \A m, n \in 1 .. Len(list) : list[m] = list[n] => m = n
  /\ \A n \in 1 .. Len(list) : list[n] \notin IdleTask
  /\ \A n \in 1 .. Len(list) :
       list[n] \in lv \/ \E o \in ops : o[2] = "DELETE" /\ o[3] = list[n]
  /\ \A o \in ops : o[2] = "ADD" => \A n \in 1 .. Len(list) : list[n] # o[3]
  /\ \A o \in ops : o[2] \in {"ADD", "UPDATE"} => o[3] \in lv

\* SEGGER_SYSVIEW_Start has set EnableState and not yet sent TRACE_START.
Starting(p, s) ==
  /\ s # <<>>
  /\ \/ p = "next" /\ s[1].k = "SYNC"
     \/ p \in {"next", "send"} /\ s[1].k = "TRACE_START"

\* A packet about the task t, the n-th of the list, is on its way.
Owes(p, s, t, n) ==
  \E i \in 1 .. Len(s) :
    /\ i = 1 => p # "done"
    /\ \/ s[i].k = "TASK_INFO" /\ s[i].t = t
       \/ s[i].k = "TASKS" /\ s[i].n <= n

StateInv ==
  /\ EnableState \in {0, 1, 2}
  /\ \A c \in Ctx : (pc[c] = "send" => EnableState = 1) /\ (pc[c] = "overflow" => EnableState = 2)
  /\ \A c, d \in Ctx : pc[c] # "idle" /\ pc[d] # "idle" => CoreOf[c] = CoreOf[d]

MarkInv ==
  /\ ~unmarked
  /\ gap /\ EnableState = 1 => \E c \in Ctx : Starting(pc[c], todo[c])

ToldInv ==
  /\ EnableState = 2 => ~clean
  /\ clean /\ EnableState = 1 /\ ~(\E c \in Ctx : Starting(pc[c], todo[c])) =>
       \A n \in 1 .. Len(aTasks) :
         aTasks[n] \in told \/ \E c \in Ctx : Owes(pc[c], todo[c], aTasks[n], n)

ListInv == ListOK(Ops, aTasks, live)

\* The types; the last but one line says more than a type.
CtlType ==
  /\ lock \in [Core -> Ctx \cup {None}]
  /\ pc \in [Ctx -> {"idle", "next", "overflow", "send", "done"}]
  /\ todo \in [Ctx -> Seq(Item)]

ListType == aTasks \in Seq(Task) /\ live \subseteq Task

Flags == \A b \in {overlap, gap, unmarked, clean} : b \in BOOLEAN

RestInv ==
  /\ EnableState \in 0 .. U8 - 1 /\ RecursionCnt \in {0, 1}
  /\ LastTxTimeStamp \in 0 .. Word - 1 /\ now \in 0 .. Word - 1
  /\ told \subseteq Task
  /\ used \in 0 .. Capacity /\ sent \in 0 .. MaxCmds
  /\ down \in Seq(Command \cup Parameter)
  /\ DisabledEvents \subseteq {"EVENT"} /\ clock = LastTxTimeStamp
  /\ Flags

RecInv  == RestInv /\ CtlType /\ CtlInv /\ ListType /\ ListInv
SoloInv == ~overlap => StateInv /\ MarkInv /\ ToldInv

-----------------------------------------------------------------------------
(* What is left of a call when its first item is replaced by others *)

\* Items that a step may put in front: none of them an operation of the list.
Prefix(pre) ==
  /\ pre \in Seq(Item)
  /\ \A i \in 1 .. Len(pre) : pre[i].k = "TASK_INFO" => pre[i].t \in Task
  /\ \A i \in 1 .. Len(pre) : pre[i].k = "TASKS" => pre[i].n >= 1
  /\ \A i \in 1 .. Len(pre) : pre[i].k = "SYNC" => i < Len(pre) /\ pre[i + 1].k = "TRACE_START"
  /\ \A i \in 1 .. Len(pre) : pre[i].k = "TRACE_START" =>
        i + 2 <= Len(pre) /\ pre[i + 2].k = "TASKS" /\ pre[i + 2].n = 1
  /\ \A i \in 1 .. Len(pre) : pre[i].k \notin KernelOp

\* Where the items of pre \o Tail(s) come from.
LEMMA Replaced ==
  ASSUME NEW s \in Seq(Item), s # <<>>, NEW pre \in Seq(Item)
  PROVE  /\ pre \o Tail(s) \in Seq(Item)
         /\ Len(pre) \in Nat /\ Len(s) \in Nat /\ Len(s) >= 1
         /\ Len(pre \o Tail(s)) = Len(pre) + Len(s) - 1
         /\ \A i \in 1 .. Len(pre) : (pre \o Tail(s))[i] = pre[i]
         /\ \A i \in 1 .. Len(s) - 1 : (pre \o Tail(s))[Len(pre) + i] = s[i + 1]
<1> DEFINE u == Tail(s)
<1>1. /\ u \in Seq(Item) /\ Len(u) = Len(s) - 1
      /\ \A i \in 1 .. Len(u) : u[i] = s[i + 1]
  BY HeadTailProperties
<1>2. Len(s) \in Nat /\ Len(s) >= 1 /\ Len(pre) \in Nat
  BY LenProperties, EmptySeq
<1> HIDE DEF u
<1>3. /\ pre \o u \in Seq(Item) /\ Len(pre \o u) = Len(pre) + Len(u)
      /\ \A i \in 1 .. Len(pre) + Len(u) :
            (pre \o u)[i] = IF i <= Len(pre) THEN pre[i] ELSE u[i - Len(pre)]
  BY <1>1, ConcatProperties
<1>4. Len(u) \in Nat
  BY <1>1, <1>2
<1>5. \A i \in 1 .. Len(pre) : (pre \o u)[i] = pre[i]
  BY <1>2, <1>3, <1>4
<1>6. \A i \in 1 .. Len(u) : (pre \o u)[Len(pre) + i] = u[i]
  <2> SUFFICES ASSUME NEW i \in 1 .. Len(u) PROVE (pre \o u)[Len(pre) + i] = u[i]
    OBVIOUS
  <2>1. Len(pre) + i \in 1 .. Len(pre) + Len(u) /\ ~(Len(pre) + i <= Len(pre))
    BY <1>2, <1>4
  <2>2. (Len(pre) + i) - Len(pre) = i
    BY <1>2, <1>4
  <2> QED BY <2>1, <2>2, <1>3
<1>7. Len(pre) + Len(u) = Len(pre) + Len(s) - 1
  BY <1>1, <1>2, <1>4
<1> QED
  BY <1>1, <1>2, <1>3, <1>5, <1>6, <1>7 DEF u

\* r is what is left when pre replaces the first item of s.
From(r, pre, s) ==
  /\ r \in Seq(Item) /\ Len(r) \in Nat /\ Len(pre) \in Nat /\ Len(s) \in Nat
  /\ Len(s) >= 1 /\ Len(r) = Len(pre) + Len(s) - 1
  /\ \A i \in 1 .. Len(pre) : i \in 1 .. Len(r) /\ r[i] = pre[i]
  /\ \A i \in 2 .. Len(s) :
        Len(pre) + i - 1 \in 1 .. Len(r) /\ r[Len(pre) + i - 1] = s[i]
  /\ \A i \in 1 .. Len(r) :
        \/ i \in 1 .. Len(pre) /\ r[i] = pre[i]
        \/ /\ i - Len(pre) + 1 \in 2 .. Len(s)
           /\ i = Len(pre) + (i - Len(pre) + 1) - 1
           /\ r[i] = s[i - Len(pre) + 1]

\* ... and it is pre \o Tail(s).
LEMMA ReplacedIs ==
  ASSUME NEW s \in Seq(Item), s # <<>>, NEW pre \in Seq(Item)
  PROVE  From(pre \o Tail(s), pre, s)
<1> DEFINE r == pre \o Tail(s)
<1>1. /\ r \in Seq(Item) /\ Len(pre) \in Nat /\ Len(s) \in Nat /\ Len(s) >= 1
      /\ Len(r) = Len(pre) + Len(s) - 1
  BY Replaced
<1>2. \A i \in 1 .. Len(pre) : r[i] = pre[i]
  BY Replaced
<1>3. \A i \in 1 .. Len(s) - 1 : r[Len(pre) + i] = s[i + 1]
  BY Replaced
<1> HIDE DEF r
<1>4. Len(r) \in Nat
  BY <1>1
<1>5. \A i \in 2 .. Len(s) :
         Len(pre) + i - 1 \in 1 .. Len(r) /\ r[Len(pre) + i - 1] = s[i]
  <2> SUFFICES ASSUME NEW i \in 2 .. Len(s)
               PROVE  Len(pre) + i - 1 \in 1 .. Len(r) /\ r[Len(pre) + i - 1] = s[i]
    OBVIOUS
  <2>1. i - 1 \in 1 .. Len(s) - 1 /\ (i - 1) + 1 = i
    BY <1>1
  <2>2. Len(pre) + (i - 1) = Len(pre) + i - 1
    BY <1>1
  <2>3. Len(pre) + i - 1 \in 1 .. Len(r)
    BY <1>1
  <2> QED BY <2>1, <2>2, <2>3, <1>3
<1>6. ASSUME NEW i \in 1 .. Len(r)
      PROVE  \/ i \in 1 .. Len(pre) /\ r[i] = pre[i]
             \/ /\ i - Len(pre) + 1 \in 2 .. Len(s)
                /\ i = Len(pre) + (i - Len(pre) + 1) - 1
                /\ r[i] = s[i - Len(pre) + 1]
  <2>1. CASE i <= Len(pre)
    <3>1. i \in 1 .. Len(pre)
      BY <1>1, <2>1
    <3> QED BY <1>2, <3>1, Zenon
  <2>2. CASE i > Len(pre)
    <3>1. i - Len(pre) + 1 \in 2 .. Len(s) /\ i = Len(pre) + (i - Len(pre) + 1) - 1
      BY <2>2, <1>1
    <3> QED BY <3>1, <1>5
  <2> QED BY <2>1, <2>2, <1>1
<1>7. \A i \in 1 .. Len(pre) : i \in 1 .. Len(r)
  BY <1>1
<1>8. From(r, pre, s)
  BY <1>1, <1>2, <1>4, <1>5, <1>6, <1>7 DEF From
<1> QED
  BY <1>8 DEF r

\* What is left is well formed, if a loop over the task list put in front is
\* inside a handler.
LEMMA KeepsForm ==
  ASSUME NEW s, WellFormed(s), NEW pre, Prefix(pre), NEW r, From(r, pre, s),
         \A i \in 1 .. Len(pre) : pre[i].k = "TASKS" =>
            \/ \E j \in i + 1 .. Len(pre) : pre[j].k = "END"
            \/ \E j \in 2 .. Len(s) : s[j].k = "END"
  PROVE  WellFormed(r)
<1>0. /\ r \in Seq(Item) /\ Len(r) \in Nat /\ Len(pre) \in Nat /\ Len(s) \in Nat
      /\ Len(s) >= 1 /\ Len(r) = Len(pre) + Len(s) - 1
  BY DEF From
<1>1. ASSUME NEW i \in 1 .. Len(r), r[i].k \in WithTask PROVE r[i].t \in Task
  <2>1. CASE i \in 1 .. Len(pre) /\ r[i] = pre[i]
    <3>1. pre[i].k = "TASK_INFO"
      BY <1>1, <2>1 DEF Prefix, WithTask
    <3> QED BY <2>1, <3>1 DEF Prefix
  <2>2. CASE i - Len(pre) + 1 \in 2 .. Len(s) /\ r[i] = s[i - Len(pre) + 1]
    <3>1. i - Len(pre) + 1 \in 1 .. Len(s)
      BY <1>0, <2>2
    <3> QED BY <1>1, <2>2, <3>1 DEF WellFormed
  <2> QED BY <2>1, <2>2 DEF From
<1>2. ASSUME NEW i \in 1 .. Len(r), r[i].k = "TASKS"
      PROVE  r[i].n >= 1 /\ \E j \in i + 1 .. Len(r) : r[j].k = "END"
  <2>1. CASE i \in 1 .. Len(pre) /\ r[i] = pre[i]
    <3>1. r[i].n >= 1
      BY <1>2, <2>1 DEF Prefix
    <3>2. CASE \E j \in i + 1 .. Len(pre) : pre[j].k = "END"
      <4>1. PICK j \in i + 1 .. Len(pre) : pre[j].k = "END"
        BY <3>2
      <4>2. j \in 1 .. Len(pre) /\ j \in i + 1 .. Len(r)
        BY <1>0
      <4> QED BY <3>1, <4>1, <4>2 DEF From
    <3>3. CASE \E j \in 2 .. Len(s) : s[j].k = "END"
      <4>1. PICK j \in 2 .. Len(s) : s[j].k = "END"
        BY <3>3
      <4>2. r[Len(pre) + j - 1] = s[j]
        BY DEF From
      <4>3. Len(pre) + j - 1 \in i + 1 .. Len(r)
        BY <1>0, <2>1
      <4> QED BY <3>1, <4>1, <4>2, <4>3
    <3> QED BY <1>2, <2>1, <3>2, <3>3
  <2>2. CASE i - Len(pre) + 1 \in 2 .. Len(s) /\ r[i] = s[i - Len(pre) + 1]
    <3> DEFINE m == i - Len(pre) + 1
    <3>1. s[m].k = "TASKS" /\ m \in 1 .. Len(s) /\ m \in 2 .. Len(s)
      BY <1>0, <1>2, <2>2
    <3>2. s[m].n >= 1 /\ \E j \in m + 1 .. Len(s) : s[j].k = "END"
      BY <3>1 DEF WellFormed
    <3>3. PICK j \in m + 1 .. Len(s) : s[j].k = "END"
      BY <3>2
    <3>4. j \in 2 .. Len(s) /\ Len(pre) + j - 1 \in i + 1 .. Len(r)
      BY <1>0, <3>1
    <3>5. r[Len(pre) + j - 1] = s[j]
      BY <3>4 DEF From
    <3> QED BY <2>2, <3>2, <3>3, <3>4, <3>5
  <2> QED BY <2>1, <2>2 DEF From
<1>3. ASSUME NEW i \in 1 .. Len(r), r[i].k = "SYNC"
      PROVE  i < Len(r) /\ r[i + 1].k = "TRACE_START"
  <2>1. CASE i \in 1 .. Len(pre) /\ r[i] = pre[i]
    <3>1. i < Len(pre) /\ pre[i + 1].k = "TRACE_START"
      BY <1>3, <2>1 DEF Prefix
    <3>2. i + 1 \in 1 .. Len(pre) /\ i < Len(r)
      BY <1>0, <3>1
    <3> QED BY <3>1, <3>2 DEF From
  <2>2. CASE i - Len(pre) + 1 \in 2 .. Len(s) /\ r[i] = s[i - Len(pre) + 1]
    <3> DEFINE m == i - Len(pre) + 1
    <3>1. s[m].k = "SYNC" /\ m \in 1 .. Len(s)
      BY <1>0, <1>3, <2>2
    <3>2. m < Len(s) /\ s[m + 1].k = "TRACE_START"
      BY <3>1 DEF WellFormed
    <3>3. m + 1 \in 2 .. Len(s) /\ Len(pre) + (m + 1) - 1 = i + 1 /\ i < Len(r)
      BY <1>0, <2>2, <3>2
    <3>4. r[Len(pre) + (m + 1) - 1] = s[m + 1]
      BY <3>3 DEF From
    <3> QED BY <3>2, <3>3, <3>4
  <2> QED BY <2>1, <2>2 DEF From
<1>4. ASSUME NEW i \in 1 .. Len(r), r[i].k = "TRACE_START"
      PROVE  i + 2 <= Len(r) /\ r[i + 2].k = "TASKS" /\ r[i + 2].n = 1
  <2>1. CASE i \in 1 .. Len(pre) /\ r[i] = pre[i]
    <3>1. i + 2 <= Len(pre) /\ pre[i + 2].k = "TASKS" /\ pre[i + 2].n = 1
      BY <1>4, <2>1 DEF Prefix
    <3>2. i + 2 \in 1 .. Len(pre) /\ i + 2 <= Len(r)
      BY <1>0, <3>1
    <3> QED BY <3>1, <3>2 DEF From
  <2>2. CASE i - Len(pre) + 1 \in 2 .. Len(s) /\ r[i] = s[i - Len(pre) + 1]
    <3> DEFINE m == i - Len(pre) + 1
    <3>1. s[m].k = "TRACE_START" /\ m \in 1 .. Len(s)
      BY <1>0, <1>4, <2>2
    <3>2. m + 2 <= Len(s) /\ s[m + 2].k = "TASKS" /\ s[m + 2].n = 1
      BY <3>1 DEF WellFormed
    <3>3. m + 2 \in 2 .. Len(s) /\ Len(pre) + (m + 2) - 1 = i + 2 /\ i + 2 <= Len(r)
      BY <1>0, <2>2, <3>2
    <3>4. r[Len(pre) + (m + 2) - 1] = s[m + 2]
      BY <3>3 DEF From
    <3> QED BY <3>2, <3>3, <3>4
  <2> QED BY <2>1, <2>2 DEF From
<1>5. ASSUME NEW i \in 1 .. Len(r), r[i].k \in KernelOp PROVE i = Len(r)
  <2>1. ~(i \in 1 .. Len(pre) /\ r[i] = pre[i])
    BY <1>5 DEF Prefix
  <2>2. i - Len(pre) + 1 \in 2 .. Len(s) /\ r[i] = s[i - Len(pre) + 1]
    BY <2>1 DEF From
  <2> DEFINE m == i - Len(pre) + 1
  <2>3. s[m].k \in KernelOp /\ m \in 1 .. Len(s)
    BY <1>0, <1>5, <2>2
  <2>4. m = Len(s)
    BY <2>3 DEF WellFormed
  <2> QED BY <1>0, <2>4
<1> QED
  BY <1>0, <1>1, <1>2, <1>3, <1>4, <1>5 DEF WellFormed

\* A handler is under way afterwards if it was before or if one starts here.
LEMMA KeepsHandler ==
  ASSUME NEW s \in Seq(Item), NEW pre \in Seq(Item), NEW r, From(r, pre, s), InHandler(r)
  PROVE  InHandler(pre) \/ InHandler(s)
<1>1. DOMAIN r = 1 .. Len(r) /\ DOMAIN pre = 1 .. Len(pre) /\ DOMAIN s = 1 .. Len(s)
  BY LenProperties DEF From
<1>2. PICK i \in 1 .. Len(r) : r[i].k = "END"
  BY <1>1 DEF InHandler
<1>3. CASE i \in 1 .. Len(pre) /\ r[i] = pre[i]
  BY <1>1, <1>2, <1>3 DEF InHandler
<1>4. CASE i - Len(pre) + 1 \in 2 .. Len(s) /\ r[i] = s[i - Len(pre) + 1]
  <2>1. i - Len(pre) + 1 \in 1 .. Len(s)
    BY <1>4 DEF From
  <2> QED BY <1>1, <1>2, <1>4, <2>1 DEF InHandler
<1> QED
  BY <1>3, <1>4 DEF From

\* An operation of the list stays where it is, unless it was the first item:
\* then nothing else was left and it is done.
LEMMA KeepsOps ==
  ASSUME NEW s, WellFormed(s), NEW pre, Prefix(pre), NEW r, From(r, pre, s),
         NEW k \in KernelOp, NEW t
  PROVE  /\ s[1].k \notin KernelOp => (Has(r, k, t) <=> Has(s, k, t))
         /\ s[1].k \in KernelOp => ~Has(r, k, t)
<1>0. /\ Len(r) \in Nat /\ Len(pre) \in Nat /\ Len(s) \in Nat
      /\ Len(s) >= 1 /\ Len(r) = Len(pre) + Len(s) - 1
  BY DEF From
<1>1. ASSUME NEW i \in 1 .. Len(r), r[i].k = k, r[i].t = t
      PROVE  Has(s, k, t) /\ s[1].k \notin KernelOp
  <2>1. ~(i \in 1 .. Len(pre) /\ r[i] = pre[i])
    BY <1>1 DEF Prefix
  <2>2. i - Len(pre) + 1 \in 2 .. Len(s) /\ r[i] = s[i - Len(pre) + 1]
    BY <2>1 DEF From
  <2>3. i - Len(pre) + 1 \in 1 .. Len(s)
    BY <1>0, <2>2
  <2>4. Has(s, k, t)
    BY <1>1, <2>2, <2>3 DEF Has
  <2>5. s[1].k \in KernelOp => 1 = Len(s)
    <3>1. 1 \in 1 .. Len(s)
      BY <1>0
    <3> QED BY <3>1 DEF WellFormed
  <2>6. Len(s) # 1
    BY <1>0, <2>2
  <2> QED BY <2>4, <2>5, <2>6
<1>2. ASSUME NEW i \in 1 .. Len(s), s[i].k = k, s[i].t = t, s[1].k \notin KernelOp
      PROVE  Has(r, k, t)
  <2>1. i \in 2 .. Len(s)
    BY <1>0, <1>2
  <2>2. Len(pre) + i - 1 \in 1 .. Len(r) /\ r[Len(pre) + i - 1] = s[i]
    BY <2>1 DEF From
  <2> QED BY <1>2, <2>2 DEF Has
<1> QED
  BY <1>1, <1>2 DEF Has

\* What was owed besides the first item is still owed, and so is what the new
\* items bring.
LEMMA KeepsOwes ==
  ASSUME NEW s, NEW pre, NEW r, From(r, pre, s), NEW p, NEW q, q # "done",
         NEW t, NEW n
  PROVE  /\ Owes("done", s, t, n) => Owes(q, r, t, n)
         /\ s[1].k \notin {"TASK_INFO", "TASKS"} /\ Owes(p, s, t, n) => Owes(q, r, t, n)
         /\ \A i \in 1 .. Len(pre) :
               \/ pre[i].k = "TASK_INFO" /\ pre[i].t = t
               \/ pre[i].k = "TASKS" /\ pre[i].n <= n
               => Owes(q, r, t, n)
<1>0. /\ Len(r) \in Nat /\ Len(pre) \in Nat /\ Len(s) \in Nat
      /\ Len(s) >= 1 /\ Len(r) = Len(pre) + Len(s) - 1
  BY DEF From
<1>1. ASSUME NEW i \in 2 .. Len(s),
             \/ s[i].k = "TASK_INFO" /\ s[i].t = t
             \/ s[i].k = "TASKS" /\ s[i].n <= n
      PROVE  Owes(q, r, t, n)
  <2>1. Len(pre) + i - 1 \in 1 .. Len(r) /\ r[Len(pre) + i - 1] = s[i]
    BY DEF From
  <2> QED BY <1>1, <2>1 DEF Owes
<1>2. Owes("done", s, t, n) => Owes(q, r, t, n)
  <2> SUFFICES ASSUME Owes("done", s, t, n) PROVE Owes(q, r, t, n)
    OBVIOUS
  <2>1. PICK i \in 1 .. Len(s) : /\ i # 1
                                 /\ \/ s[i].k = "TASK_INFO" /\ s[i].t = t
                                    \/ s[i].k = "TASKS" /\ s[i].n <= n
    BY DEF Owes
  <2>2. i \in 2 .. Len(s)
    BY <1>0, <2>1
  <2> QED BY <1>1, <2>1, <2>2
<1>3. ASSUME s[1].k \notin {"TASK_INFO", "TASKS"}, Owes(p, s, t, n) PROVE Owes(q, r, t, n)
  <2>1. PICK i \in 1 .. Len(s) : \/ s[i].k = "TASK_INFO" /\ s[i].t = t
                                 \/ s[i].k = "TASKS" /\ s[i].n <= n
    BY <1>3 DEF Owes
  <2>2. i # 1
    <3> SUFFICES ASSUME i = 1 PROVE FALSE
      OBVIOUS
    <3>1. s[1].k \in {"TASK_INFO", "TASKS"}
      BY <2>1
    <3> QED BY <1>3, <3>1
  <2>3. i \in 2 .. Len(s)
    BY <1>0, <2>1, <2>2
  <2> QED BY <1>1, <2>1, <2>3
<1>4. ASSUME NEW i \in 1 .. Len(pre),
             \/ pre[i].k = "TASK_INFO" /\ pre[i].t = t
             \/ pre[i].k = "TASKS" /\ pre[i].n <= n
      PROVE  Owes(q, r, t, n)
  <2>1. i \in 1 .. Len(r) /\ r[i] = pre[i]
    BY DEF From
  <2> QED BY <1>4, <2>1 DEF Owes
<1> QED
  BY <1>2, <1>3, <1>4

\* What is put in front is owed.
LEMMA OwesFirst ==
  ASSUME NEW s, NEW pre, NEW r, From(r, pre, s), NEW t, NEW n, NEW i \in 1 .. Len(pre),
         \/ pre[i].k = "TASK_INFO" /\ pre[i].t = t
         \/ pre[i].k = "TASKS" /\ pre[i].n <= n
  PROVE  Owes("next", r, t, n)
<1>1. i \in 1 .. Len(r) /\ r[i] = pre[i]
  BY Zenon DEF From
<1> QED BY <1>1, Zenon DEF Owes

-----------------------------------------------------------------------------
(* The items that the steps put in front *)

\* r is s and one more item.
More(r, s, e) ==
  /\ r \in Seq(Item) /\ Len(s) \in Nat /\ Len(r) = Len(s) + 1
  /\ \A i \in 1 .. Len(s) : r[i] = s[i]
  /\ r[Len(s) + 1] = e

\* ... which is what \o <<e>> gives.
LEMMA OneMore ==
  ASSUME NEW s \in Seq(Item), NEW e \in Item
  PROVE  More(s \o <<e>>, s, e)
<1> DEFINE u == <<e>>
<1>1. u \in Seq(Item) /\ Len(u) = 1 /\ u[1] = e
  OBVIOUS
<1> HIDE DEF u
<1>2. Len(s) \in Nat
  BY LenProperties
<1>3. /\ s \o u \in Seq(Item) /\ Len(s \o u) = Len(s) + Len(u)
      /\ \A i \in 1 .. Len(s) + Len(u) :
            (s \o u)[i] = IF i <= Len(s) THEN s[i] ELSE u[i - Len(s)]
  BY <1>1, ConcatProperties
<1>4. \A i \in 1 .. Len(s) : (s \o u)[i] = s[i]
  BY <1>1, <1>2, <1>3
<1>5. (s \o u)[Len(s) + 1] = e
  <2>1. Len(s) + 1 \in 1 .. Len(s) + Len(u) /\ ~(Len(s) + 1 <= Len(s)) /\ (Len(s) + 1) - Len(s) = 1
    BY <1>1, <1>2
  <2> QED BY <1>1, <1>3, <2>1
<1> QED
  BY <1>1, <1>2, <1>3, <1>4, <1>5 DEF u, More

\* Nothing is put in front.
LEMMA PrefixNone == Prefix(<<>>) /\ ~InHandler(<<>>)
<1>1. <<>> \in Seq(Item) /\ Len(<<>>) = 0 /\ DOMAIN <<>> = {}
  BY EmptySeq
<1> QED BY <1>1 DEF Prefix, InHandler

\* The warning of a full list.
LEMMA PrefixEvent == Prefix(<<It("EVENT")>>) /\ ~InHandler(<<It("EVENT")>>)
<1> DEFINE e == It("EVENT")
<1>1. e \in Item /\ e.k = "EVENT"
  BY DEF e, Item, It, Packet
<1> HIDE DEF e
<1>2. <<e>> \in Seq(Item) /\ Len(<<e>>) = 1 /\ DOMAIN <<e>> = 1 .. 1 /\ <<e>>[1] = e
  BY <1>1
<1>3. \A i \in 1 .. 1 : i = 1
  OBVIOUS
<1>4. Prefix(<<e>>)
  BY <1>1, <1>2, <1>3 DEF Prefix, KernelOp
<1>5. ~InHandler(<<e>>)
  BY <1>1, <1>2, <1>3 DEF InHandler
<1> QED BY <1>4, <1>5 DEF e

\* What SYSVIEW_SendTaskInfo sends.
LEMMA PrefixTaskInfo ==
  ASSUME NEW t \in Task
  PROVE  /\ Prefix(TaskInfo(t)) /\ ~InHandler(TaskInfo(t))
         /\ Len(TaskInfo(t)) = 2 /\ TaskInfo(t)[1].k = "TASK_INFO" /\ TaskInfo(t)[1].t = t
         /\ \A i \in 1 .. Len(TaskInfo(t)) : TaskInfo(t)[i].k # "TASKS"
<1> DEFINE e == ItT("TASK_INFO", t)
           f == It("INFO")
           s == <<e, f>>
<1>1. e \in Item /\ e.k = "TASK_INFO" /\ e.t = t /\ f \in Item /\ f.k = "INFO"
  BY DEF e, Item, It, ItT, Packet
<1> HIDE DEF e, f
<1>2. s \in Seq(Item) /\ Len(s) = 2 /\ DOMAIN s = 1 .. 2 /\ s[1] = e /\ s[2] = f
  BY <1>1
<1> HIDE DEF s
<1>3. \A i \in 1 .. 2 : i = 1 \/ i = 2
  OBVIOUS
<1>4. Prefix(s)
  BY <1>1, <1>2, <1>3 DEF Prefix, KernelOp
<1>5. ~InHandler(s) /\ \A i \in 1 .. Len(s) : s[i].k # "TASKS"
  BY <1>1, <1>2, <1>3 DEF InHandler
<1>6. s = TaskInfo(t)
  BY DEF s, e, f, TaskInfo
<1> QED BY <1>1, <1>2, <1>4, <1>5, <1>6

\* A round of the loop of _cbSendTaskList.
LEMMA PrefixRound ==
  ASSUME NEW t \in Task, NEW n \in Nat
  PROVE  LET pre == TaskInfo(t) \o <<ItN("TASKS", n + 1)>>
         IN /\ Prefix(pre) /\ ~InHandler(pre) /\ Len(pre) = 3
            /\ pre[1].k = "TASK_INFO" /\ pre[1].t = t
            /\ pre[3].k = "TASKS" /\ pre[3].n = n + 1
<1> DEFINE u == TaskInfo(t)
           g == ItN("TASKS", n + 1)
           s == u \o <<g>>
<1>1. g \in Item /\ g.k = "TASKS" /\ g.n = n + 1 /\ g.n >= 1
  BY DEF g, Item, ItN, Packet
<1>2. /\ Prefix(u) /\ ~InHandler(u) /\ Len(u) = 2 /\ u[1].k = "TASK_INFO" /\ u[1].t = t
      /\ \A i \in 1 .. Len(u) : u[i].k # "TASKS"
  BY PrefixTaskInfo
<1>3. u \in Seq(Item)
  BY <1>2 DEF Prefix
<1> HIDE DEF u, g
<1>4. s \in Seq(Item) /\ Len(s) = 3 /\ s[1] = u[1] /\ s[2] = u[2] /\ s[3] = g
  <2>1. More(s, u, g)
    BY <1>1, <1>2, <1>3, OneMore
  <2> HIDE DEF s
  <2> QED BY <1>1, <1>2, <1>3, <2>1 DEF More
<1>5. DOMAIN s = 1 .. 3 /\ DOMAIN u = 1 .. 2
  BY <1>2, <1>3, <1>4, LenProperties
<1> HIDE DEF s
<1>6. \A i \in 1 .. 3 : i = 1 \/ i = 2 \/ i = 3
  OBVIOUS
<1>7. u[2].k # "TASKS" /\ u[2].k # "END" /\ u[2].k \notin KernelOp /\ u[2].k # "SYNC"
      /\ u[2].k # "TRACE_START" /\ u[2].k # "TASK_INFO"
  BY DEF u, TaskInfo, It, KernelOp
<1>8. Prefix(s)
  BY <1>1, <1>2, <1>4, <1>6, <1>7 DEF Prefix, KernelOp
<1>9. ~InHandler(s)
  BY <1>1, <1>2, <1>4, <1>5, <1>6, <1>7 DEF InHandler
<1>10. s[1].k = "TASK_INFO" /\ s[1].t = t /\ s[3].k = "TASKS" /\ s[3].n = n + 1
  BY <1>1, <1>2, <1>4
<1> QED BY <1>4, <1>8, <1>9, <1>10 DEF s, u, g

\* What a command puts in front: StartItems, the items of the other commands.
StartPrefix == StartItems \o <<It("END")>>

\* The items of START, one by one.
LEMMA StartIs ==
  /\ StartPrefix \in Seq(Item) /\ Len(StartPrefix) = 6
  /\ StartPrefix[1].k = "SYNC" /\ StartPrefix[2].k = "TRACE_START" /\ StartPrefix[3].k = "INFO"
  /\ StartPrefix[4].k = "TASKS" /\ StartPrefix[4].n = 1
  /\ StartPrefix[5].k = "INFO" /\ StartPrefix[6].k = "END"
<1> DEFINE a == It("SYNC")
           b == It("TRACE_START")
           i == It("INFO")
           l == ItN("TASKS", 1)
           e == It("END")
           s3 == <<a, b, i>>
           s4 == s3 \o <<l>>
           s5 == s4 \o <<i>>
           s6 == s5 \o <<e>>
<1>1. a \in Item /\ b \in Item /\ i \in Item /\ l \in Item /\ e \in Item
  BY DEF Item, It, ItN, Packet
<1>2. /\ a.k = "SYNC" /\ b.k = "TRACE_START" /\ i.k = "INFO" /\ l.k = "TASKS" /\ l.n = 1
      /\ e.k = "END"
  BY DEF It, ItN
<1>0. StartPrefix = s6
  BY DEF StartPrefix, StartItems, SendTaskList
<1> HIDE DEF a, b, i, l, e
<1>3. s3 \in Seq(Item) /\ Len(s3) = 3 /\ s3[1] = a /\ s3[2] = b /\ s3[3] = i
  BY <1>1
<1> HIDE DEF s3
<1>4. s4 \in Seq(Item) /\ Len(s4) = 4 /\ s4[1] = a /\ s4[2] = b /\ s4[3] = i /\ s4[4] = l
  <2>1. More(s4, s3, l)
    BY <1>1, <1>3, OneMore
  <2> HIDE DEF s4
  <2> QED BY <1>1, <1>3, <2>1 DEF More
<1> HIDE DEF s4
<1>5. /\ s5 \in Seq(Item) /\ Len(s5) = 5 /\ s5[1] = a /\ s5[2] = b /\ s5[3] = i /\ s5[4] = l
      /\ s5[5] = i
  <2>1. More(s5, s4, i)
    BY <1>1, <1>4, OneMore
  <2> HIDE DEF s5
  <2> QED BY <1>1, <1>4, <2>1 DEF More
<1> HIDE DEF s5
<1>6. /\ s6 \in Seq(Item) /\ Len(s6) = 6 /\ s6[1] = a /\ s6[2] = b /\ s6[3] = i /\ s6[4] = l
      /\ s6[5] = i /\ s6[6] = e
  <2>1. More(s6, s5, e)
    BY <1>1, <1>5, OneMore
  <2> HIDE DEF s6
  <2> QED BY <1>1, <1>5, <2>1 DEF More
<1> QED
  BY <1>0, <1>2, <1>6

\* Every command: its items are a prefix that ends the handler.
LEMMA PrefixCommand ==
  ASSUME NEW cmd
  PROVE  LET pre == CommandItems(cmd) \o <<It("END")>>
         IN /\ Prefix(pre) /\ Len(pre) >= 1
            /\ \A i \in 1 .. Len(pre) : pre[i].k = "TASKS" =>
                   \E j \in i + 1 .. Len(pre) : pre[j].k = "END"
            /\ cmd = "START" => pre[1].k = "SYNC"
<1> DEFINE e   == It("END")
           pre == CommandItems(cmd) \o <<e>>
<1>1. e \in Item /\ e.k = "END"
  BY DEF Item, It
<1>2. CASE cmd = "START"
  <2>1. pre = StartPrefix
    BY <1>2 DEF CommandItems, StartPrefix
  <2>2. \A i \in 1 .. 6 : i = 1 \/ i = 2 \/ i = 3 \/ i = 4 \/ i = 5 \/ i = 6
    OBVIOUS
  <2> DEFINE s == StartPrefix
  <2>3. /\ s \in Seq(Item) /\ Len(s) = 6
        /\ s[1].k = "SYNC" /\ s[2].k = "TRACE_START" /\ s[3].k = "INFO"
        /\ s[4].k = "TASKS" /\ s[4].n = 1
        /\ s[5].k = "INFO" /\ s[6].k = "END"
    BY StartIs
  <2> HIDE DEF s
  <2>4. \A i \in 1 .. Len(s) : s[i].k # "TASK_INFO" /\ s[i].k \notin KernelOp
    BY <2>2, <2>3 DEF KernelOp
  <2>5. \A i \in 1 .. Len(s) : /\ s[i].k = "TASKS" => i = 4
                               /\ s[i].k = "SYNC" => i = 1
                               /\ s[i].k = "TRACE_START" => i = 2
    BY <2>2, <2>3
  <2>6. Prefix(s)
    BY <2>3, <2>4, <2>5 DEF Prefix
  <2>7. \A i \in 1 .. Len(s) : s[i].k = "TASKS" => \E j \in i + 1 .. Len(s) : s[j].k = "END"
    BY <2>3, <2>5
  <2> HIDE DEF pre
  <2>8. /\ Prefix(pre) /\ Len(pre) >= 1 /\ pre[1].k = "SYNC"
        /\ \A i \in 1 .. Len(pre) : pre[i].k = "TASKS" =>
              \E j \in i + 1 .. Len(pre) : pre[j].k = "END"
    BY <2>1, <2>3, <2>6, <2>7 DEF s
  <2> QED BY <2>8 DEF pre, e
<1>3. CASE cmd # "START" /\ CommandItems(cmd) = <<It("TRACE_STOP"), It("OFF")>>
  <2> DEFINE a == It("TRACE_STOP")
             b == It("OFF")
             u == <<a, b>>
             s == u \o <<e>>
  <2>1. a \in Item /\ b \in Item /\ a.k = "TRACE_STOP" /\ b.k = "OFF"
    BY DEF Item, It, Packet
  <2>0. pre = s
    BY <1>3
  <2> HIDE DEF a, b, e
  <2>2. u \in Seq(Item) /\ Len(u) = 2 /\ u[1] = a /\ u[2] = b
    BY <2>1
  <2> HIDE DEF u
  <2>3. s \in Seq(Item) /\ Len(s) = 3 /\ s[1] = a /\ s[2] = b /\ s[3] = e
    <3>1. More(s, u, e)
      BY <1>1, <2>2, OneMore
    <3> HIDE DEF s
    <3> QED BY <1>1, <2>2, <3>1 DEF More
  <2> HIDE DEF s
  <2>4. \A i \in 1 .. 3 : i = 1 \/ i = 2 \/ i = 3
    OBVIOUS
  <2>5. \A i \in 1 .. Len(s) : s[i].k \in {"TRACE_STOP", "OFF", "END"}
    BY <1>1, <2>1, <2>3, <2>4
  <2>6. Prefix(s)
    BY <2>3, <2>5 DEF Prefix, KernelOp
  <2>7. \A i \in 1 .. Len(s) : s[i].k # "TASKS"
    BY <2>5
  <2> HIDE DEF pre
  <2>8. /\ Prefix(pre) /\ Len(pre) >= 1 /\ \A i \in 1 .. Len(pre) : pre[i].k # "TASKS"
    BY <2>0, <2>3, <2>6, <2>7
  <2> QED BY <1>3, <2>8 DEF pre, e
<1>4. CASE cmd # "START" /\ CommandItems(cmd) = SendTaskList
  <2> DEFINE a == ItN("TASKS", 1)
             u == <<a>>
             s == u \o <<e>>
  <2>1. a \in Item /\ a.k = "TASKS" /\ a.n = 1
    BY DEF Item, ItN
  <2>0. pre = s
    BY <1>4 DEF SendTaskList
  <2> HIDE DEF a, e
  <2>2. u \in Seq(Item) /\ Len(u) = 1 /\ u[1] = a
    BY <2>1
  <2> HIDE DEF u
  <2>3. s \in Seq(Item) /\ Len(s) = 2 /\ s[1] = a /\ s[2] = e
    <3>1. More(s, u, e)
      BY <1>1, <2>2, OneMore
    <3> HIDE DEF s
    <3> QED BY <1>1, <2>2, <3>1 DEF More
  <2> HIDE DEF s
  <2>4. \A i \in 1 .. 2 : i = 1 \/ i = 2
    OBVIOUS
  <2>5. \A i \in 1 .. Len(s) : s[i].k \in {"TASKS", "END"} /\ (s[i].k = "TASKS" => i = 1)
    BY <1>1, <2>1, <2>3, <2>4
  <2>6. Prefix(s)
    BY <2>1, <2>3, <2>5 DEF Prefix, KernelOp
  <2>7. \A i \in 1 .. Len(s) : s[i].k = "TASKS" => \E j \in i + 1 .. Len(s) : s[j].k = "END"
    BY <1>1, <2>3, <2>5
  <2> HIDE DEF pre
  <2>8. /\ Prefix(pre) /\ Len(pre) >= 1
        /\ \A i \in 1 .. Len(pre) : pre[i].k = "TASKS" =>
              \E j \in i + 1 .. Len(pre) : pre[j].k = "END"
    BY <2>0, <2>3, <2>6, <2>7
  <2> QED BY <1>4, <2>8 DEF pre, e
<1>5. CASE cmd # "START" /\ CommandItems(cmd) = <<It("INFO")>>
  <2> DEFINE a == It("INFO")
             u == <<a>>
             s == u \o <<e>>
  <2>1. a \in Item /\ a.k = "INFO"
    BY DEF Item, It, Packet
  <2>0. pre = s
    BY <1>5
  <2> HIDE DEF a, e
  <2>2. u \in Seq(Item) /\ Len(u) = 1 /\ u[1] = a
    BY <2>1
  <2> HIDE DEF u
  <2>3. s \in Seq(Item) /\ Len(s) = 2 /\ s[1] = a /\ s[2] = e
    <3>1. More(s, u, e)
      BY <1>1, <2>2, OneMore
    <3> HIDE DEF s
    <3> QED BY <1>1, <2>2, <3>1 DEF More
  <2> HIDE DEF s
  <2>4. \A i \in 1 .. 2 : i = 1 \/ i = 2
    OBVIOUS
  <2>5. \A i \in 1 .. Len(s) : s[i].k \in {"INFO", "END"}
    BY <1>1, <2>1, <2>3, <2>4
  <2>6. Prefix(s)
    BY <2>3, <2>5 DEF Prefix, KernelOp
  <2>7. \A i \in 1 .. Len(s) : s[i].k # "TASKS"
    BY <2>5
  <2> HIDE DEF pre
  <2>8. /\ Prefix(pre) /\ Len(pre) >= 1 /\ \A i \in 1 .. Len(pre) : pre[i].k # "TASKS"
    BY <2>0, <2>3, <2>6, <2>7
  <2> QED BY <1>5, <2>8 DEF pre, e
<1>6. CASE cmd # "START" /\ CommandItems(cmd) = <<>>
  <2> DEFINE u == <<>>
             s == u \o <<e>>
  <2>0. pre = s
    BY <1>6
  <2> HIDE DEF e
  <2>2. u \in Seq(Item) /\ Len(u) = 0
    BY EmptySeq
  <2> HIDE DEF u
  <2>3. s \in Seq(Item) /\ Len(s) = 1 /\ s[1] = e
    <3>1. More(s, u, e)
      BY <1>1, <2>2, OneMore
    <3> HIDE DEF s
    <3> QED BY <1>1, <2>2, <3>1 DEF More
  <2> HIDE DEF s
  <2>5. \A i \in 1 .. Len(s) : s[i].k = "END"
    BY <1>1, <2>3
  <2>6. Prefix(s)
    BY <2>3, <2>5 DEF Prefix, KernelOp
  <2>7. \A i \in 1 .. Len(s) : s[i].k # "TASKS"
    BY <2>5
  <2> HIDE DEF pre
  <2>8. /\ Prefix(pre) /\ Len(pre) >= 1 /\ \A i \in 1 .. Len(pre) : pre[i].k # "TASKS"
    BY <2>0, <2>3, <2>6, <2>7
  <2> QED BY <1>6, <2>8 DEF pre, e
<1>7. \/ CommandItems(cmd) = <<It("TRACE_STOP"), It("OFF")>>
      \/ CommandItems(cmd) = SendTaskList
      \/ CommandItems(cmd) = <<It("INFO")>>
      \/ CommandItems(cmd) = <<>>
      \/ cmd = "START"
  BY DEF CommandItems
<1> QED
  BY <1>2, <1>3, <1>4, <1>5, <1>6, <1>7

-----------------------------------------------------------------------------
(* Who is inside, and who holds the lock *)

\* Every context has a core, and None is not a context.
LEMMA Cores == \A c \in Ctx : CoreOf[c] \in Core /\ c # None
BY SysViewAssumption DEF Core

\* Going on with what is left of a call.
LEMMA ProceedCtl ==
  ASSUME CtlType, CtlInv, NEW c \in Ctx, lock[CoreOf[c]] \in {None, c},
         NEW rest, WellFormed(rest), InHandler(rest) => lock[CoreOf[c]] = c,
         Proceed(c, rest)
  PROVE  CtlType' /\ CtlInv'
<1>0. rest \in Seq(Item) /\ CoreOf[c] \in Core /\ c # None
  BY Cores DEF WellFormed
<1>1. /\ todo' = [todo EXCEPT ![c] = rest]
      /\ pc'   = [pc EXCEPT ![c] = IF rest = <<>> THEN "idle" ELSE "next"]
      /\ lock' = IF lock[CoreOf[c]] = c /\ ~InHandler(rest)
                 THEN [lock EXCEPT ![CoreOf[c]] = None] ELSE lock
  BY DEF Proceed
<1>2. /\ todo'[c] = rest /\ pc'[c] \in {"idle", "next"} /\ (pc'[c] = "idle" <=> rest = <<>>)
      /\ \A d \in Ctx \ {c} : todo'[d] = todo[d] /\ pc'[d] = pc[d]
  BY <1>1 DEF CtlType
<1>3. CtlType'
  BY <1>0, <1>1 DEF CtlType
<1>4. \A d \in Ctx : WellFormed(todo'[d])
  BY <1>2 DEF CtlInv
<1>5. \A d \in Ctx : pc'[d] = "idle" <=> todo'[d] = <<>>
  BY <1>2 DEF CtlInv
<1>6. \A d \in Ctx : pc'[d] \in Busy => todo'[d][1].k \in Packet \ {"SYNC"}
  BY <1>2 DEF CtlInv, Busy
<1>7. ASSUME NEW d \in Ctx, pc'[d] \in Busy \/ InHandler(todo'[d]) PROVE lock'[CoreOf[d]] = d
  <2>1. CASE d = c
    BY <1>0, <1>1, <1>2, <1>7, <2>1 DEF Busy
  <2>2. CASE d # c
    <3>1. lock[CoreOf[d]] = d /\ CoreOf[d] \in Core
      BY <1>2, <1>7, <2>2, Cores DEF CtlInv
    <3>2. CASE CoreOf[d] = CoreOf[c]
      BY <1>0, <2>2, <3>1, <3>2, Cores
    <3>3. CASE CoreOf[d] # CoreOf[c]
      BY <1>0, <1>1, <3>1, <3>3 DEF CtlType
    <3> QED BY <3>2, <3>3
  <2> QED BY <2>1, <2>2
<1> QED
  BY <1>3, <1>4, <1>5, <1>6, <1>7 DEF CtlInv

\* Going inside.
LEMMA EnterCtl ==
  ASSUME CtlType, CtlInv, NEW c \in Ctx, lock[CoreOf[c]] \in {None, c},
         NEW items, WellFormed(items), items # <<>>, items[1].k \in Packet \ {"SYNC"},
         Enter(c, items)
  PROVE  CtlType' /\ CtlInv'
<1>0. items \in Seq(Item) /\ CoreOf[c] \in Core /\ c # None
  BY Cores DEF WellFormed
<1>1. /\ lock' = [lock EXCEPT ![CoreOf[c]] = c]
      /\ todo' = [todo EXCEPT ![c] = items]
      /\ pc'   = [pc EXCEPT ![c] = IF EnableState = 0 THEN "done"
                                   ELSE IF EnableState = 2 THEN "overflow" ELSE "send"]
  BY DEF Enter
<1>2. /\ todo'[c] = items /\ pc'[c] \in Busy /\ pc'[c] # "idle"
      /\ \A d \in Ctx \ {c} : todo'[d] = todo[d] /\ pc'[d] = pc[d]
  BY <1>1 DEF CtlType, Busy
<1>3. CtlType'
  BY <1>0, <1>1 DEF CtlType
<1>4. \A d \in Ctx : WellFormed(todo'[d])
  BY <1>2 DEF CtlInv
<1>5. \A d \in Ctx : pc'[d] = "idle" <=> todo'[d] = <<>>
  BY <1>2 DEF CtlInv
<1>6. \A d \in Ctx : pc'[d] \in Busy => todo'[d][1].k \in Packet \ {"SYNC"}
  BY <1>2 DEF CtlInv
<1>7. ASSUME NEW d \in Ctx, pc'[d] \in Busy \/ InHandler(todo'[d]) PROVE lock'[CoreOf[d]] = d
  <2>1. CASE d = c
    BY <1>0, <1>1, <2>1 DEF CtlType
  <2>2. CASE d # c
    <3>1. lock[CoreOf[d]] = d /\ CoreOf[d] \in Core
      BY <1>2, <1>7, <2>2, Cores DEF CtlInv
    <3>2. CASE CoreOf[d] = CoreOf[c]
      BY <1>0, <2>2, <3>1, <3>2, Cores
    <3>3. CASE CoreOf[d] # CoreOf[c]
      BY <1>0, <1>1, <3>1, <3>3 DEF CtlType
    <3> QED BY <3>2, <3>3
  <2> QED BY <2>1, <2>2
<1> QED
  BY <1>3, <1>4, <1>5, <1>6, <1>7 DEF CtlInv

\* A step inside.
LEMMA InsideCtl ==
  ASSUME CtlType, CtlInv, NEW c \in Ctx, pc[c] \in Busy, NEW q \in Busy,
         pc' = [pc EXCEPT ![c] = q], todo' = todo, lock' = lock
  PROVE  CtlType' /\ CtlInv'
<1>1. /\ pc'[c] = q /\ q # "idle" /\ pc[c] # "idle"
      /\ \A d \in Ctx \ {c} : pc'[d] = pc[d]
  BY DEF CtlType, Busy
<1>2. CtlType'
  BY DEF CtlType, Busy
<1>3. \A d \in Ctx : /\ pc'[d] = "idle" <=> pc[d] = "idle"
                     /\ pc'[d] \in Busy <=> pc[d] \in Busy
  BY <1>1
<1>4. \A d \in Ctx : WellFormed(todo'[d]) /\ (pc'[d] = "idle" <=> todo'[d] = <<>>)
  BY <1>3 DEF CtlInv
<1>5. \A d \in Ctx : pc'[d] \in Busy => todo'[d][1].k \in Packet \ {"SYNC"}
  BY <1>3 DEF CtlInv
<1>6. \A d \in Ctx : pc'[d] \in Busy \/ InHandler(todo'[d]) => lock'[CoreOf[d]] = d
  BY <1>3 DEF CtlInv
<1> QED
  BY <1>2, <1>4, <1>5, <1>6 DEF CtlInv

-----------------------------------------------------------------------------
(* The operations of the kernel and the list *)

\* Steps that leave them alone.
LEMMA SameOps ==
  ASSUME \A d \in Ctx, k \in KernelOp, t \in Task : Has(todo'[d], k, t) <=> Has(todo[d], k, t)
  PROVE  Ops' = Ops
<1>1. ASSUME NEW o \in Ctx \X KernelOp \X Task
      PROVE  Has(todo'[o[1]], o[2], o[3]) <=> Has(todo[o[1]], o[2], o[3])
  BY <1>1
<1> QED BY <1>1 DEF Ops

\* InKernel is about the same operations.
LEMMA KernelIs ==
  ASSUME CtlInv
  PROVE  InKernel <=> Ops # {}
<1>1. ASSUME NEW d \in Ctx
      PROVE  todo[d] \in Seq(Item) /\ DOMAIN todo[d] = 1 .. Len(todo[d])
  BY LenProperties DEF CtlInv, WellFormed
<1>2. ASSUME InKernel PROVE Ops # {}
  <2>1. PICK d \in Ctx : \E i \in DOMAIN todo[d] : todo[d][i].k \in {"ADD", "UPDATE", "DELETE"}
    BY <1>2 DEF InKernel
  <2>2. PICK i \in 1 .. Len(todo[d]) : todo[d][i].k \in KernelOp
    BY <1>1, <2>1 DEF KernelOp
  <2>3. todo[d][i].t \in Task
    BY <2>2 DEF CtlInv, WellFormed, WithTask
  <2> DEFINE o == <<d, todo[d][i].k, todo[d][i].t>>
  <2>4. Has(todo[d], todo[d][i].k, todo[d][i].t)
    BY DEF Has
  <2>5. o \in Ops
    BY <2>2, <2>3, <2>4 DEF Ops
  <2> QED BY <2>5
<1>3. ASSUME Ops # {} PROVE InKernel
  <2>1. PICK o \in Ctx \X KernelOp \X Task : Has(todo[o[1]], o[2], o[3])
    BY <1>3 DEF Ops
  <2>2. o[1] \in Ctx /\ o[2] \in KernelOp
    BY <2>1
  <2>3. PICK i \in 1 .. Len(todo[o[1]]) : todo[o[1]][i].k = o[2]
    BY <2>1 DEF Has
  <2> QED BY <1>1, <2>2, <2>3 DEF InKernel, KernelOp
<1> QED BY <1>2, <1>3

\* The operation that is the first item is the only one.
LEMMA OpIs ==
  ASSUME CtlInv, ListInv, NEW c \in Ctx, todo[c] # <<>>, todo[c][1].k \in KernelOp
  PROVE  /\ todo[c][1].t \in Task
         /\ Ops = {<<c, todo[c][1].k, todo[c][1].t>>}
         /\ Len(todo[c]) = 1
<1> DEFINE k == todo[c][1].k
           t == todo[c][1].t
           o == <<c, k, t>>
<1>1. Len(todo[c]) \in Nat /\ 1 \in 1 .. Len(todo[c])
  BY LenProperties, EmptySeq DEF CtlInv, WellFormed
<1>2. t \in Task /\ 1 = Len(todo[c])
  BY <1>1 DEF CtlInv, WellFormed, WithTask
<1>3. Has(todo[c], k, t)
  BY <1>1 DEF Has
<1>4. o \in Ops
  BY <1>2, <1>3 DEF Ops
<1>5. \A p \in Ops : p = o
  BY <1>4 DEF ListInv, ListOK
<1>6. Ops = {o}
  BY <1>4, <1>5
<1> QED
  BY <1>2, <1>6

\* ... and when it is done with there is none.
LEMMA OpDone ==
  ASSUME NEW c \in Ctx, NEW k, NEW t, Ops = {<<c, k, t>>},
         \A d \in Ctx \ {c} : todo'[d] = todo[d],
         \A j \in KernelOp, u \in Task : ~Has(todo'[c], j, u)
  PROVE  Ops' = {}
<1> SUFFICES ASSUME NEW p \in Ops' PROVE FALSE
  OBVIOUS
<1>1. /\ p \in Ctx \X KernelOp \X Task /\ Has(todo'[p[1]], p[2], p[3])
  BY DEF Ops
<1>2. p[1] \in Ctx /\ p[2] \in KernelOp /\ p[3] \in Task
  BY <1>1
<1>3. p[1] # c
  BY <1>1, <1>2
<1>4. Has(todo[p[1]], p[2], p[3])
  BY <1>1, <1>2, <1>3
<1>5. p \in Ops
  BY <1>1, <1>4 DEF Ops
<1>6. p = <<c, k, t>>
  BY <1>5
<1> QED BY <1>3, <1>6

\* A call of the kernel.
LEMMA OpStarts ==
  ASSUME NEW k \in KernelOp, NEW t \in Task
  PROVE  LET s == <<It("EVENT"), ItT(k, t)>>
         IN /\ WellFormed(s) /\ s # <<>> /\ s[1].k = "EVENT" /\ ~InHandler(s) /\ Len(s) = 2
            /\ \A j, u : Has(s, j, u) /\ j \in KernelOp <=> j = k /\ u = t
            /\ \A i \in 1 .. Len(s) : s[i].k \notin {"TASKS", "TASK_INFO"}
<1> DEFINE e == It("EVENT")
           f == ItT(k, t)
           s == <<e, f>>
<1>1. e \in Item /\ f \in Item /\ e.k = "EVENT" /\ f.k = k /\ f.t = t
  BY DEF It, ItT, Item, KernelOp, Packet
<1> HIDE DEF e, f
<1>2. s \in Seq(Item) /\ Len(s) = 2 /\ s[1] = e /\ s[2] = f /\ DOMAIN s = 1 .. 2 /\ s # <<>>
  BY <1>1
<1> HIDE DEF s
<1>3. \A i \in 1 .. 2 : i = 1 \/ i = 2
  OBVIOUS
<1>4. "EVENT" \notin KernelOp /\ k \notin {"TASKS", "SYNC", "TRACE_START", "END", "TASK_INFO"}
  BY DEF KernelOp
<1>5. WellFormed(s)
  BY <1>1, <1>2, <1>3, <1>4 DEF WellFormed, WithTask
<1>6. ~InHandler(s)
  BY <1>1, <1>2, <1>3, <1>4 DEF InHandler
<1>7. \A j, u : Has(s, j, u) /\ j \in KernelOp <=> j = k /\ u = t
  BY <1>1, <1>2, <1>3, <1>4 DEF Has
<1>8. \A i \in 1 .. Len(s) : s[i].k \notin {"TASKS", "TASK_INFO"}
  BY <1>1, <1>2, <1>3, <1>4
<1>9. s[1].k = "EVENT"
  BY <1>1, <1>2
<1> QED
  BY <1>2, <1>5, <1>6, <1>7, <1>8, <1>9 DEF s, e, f

\* A call that records one event.
LEMMA EventStarts ==
  LET s == <<It("EVENT")>>
  IN /\ WellFormed(s) /\ s # <<>> /\ s[1].k = "EVENT" /\ ~InHandler(s) /\ Len(s) = 1
     /\ \A j \in KernelOp, u \in Task : ~Has(s, j, u)
     /\ \A i \in 1 .. Len(s) : s[i].k \notin {"TASKS", "TASK_INFO"}
<1> DEFINE e == It("EVENT")
           s == <<e>>
<1>1. e \in Item /\ e.k = "EVENT"
  BY DEF It, Item, Packet
<1> HIDE DEF e
<1>2. s \in Seq(Item) /\ Len(s) = 1 /\ s[1] = e /\ DOMAIN s = 1 .. 1 /\ s # <<>>
  BY <1>1
<1> HIDE DEF s
<1>3. \A i \in 1 .. 1 : i = 1
  OBVIOUS
<1>4. "EVENT" \notin KernelOp
  BY DEF KernelOp
<1>5. WellFormed(s)
  BY <1>1, <1>2, <1>3, <1>4 DEF WellFormed, WithTask
<1>6. ~InHandler(s)
  BY <1>1, <1>2, <1>3, <1>4 DEF InHandler
<1>7. \A j \in KernelOp, u \in Task : ~Has(s, j, u)
  BY <1>1, <1>2, <1>3, <1>4 DEF Has
<1>8. \A i \in 1 .. Len(s) : s[i].k \notin {"TASKS", "TASK_INFO"}
  BY <1>1, <1>2, <1>3, <1>4
<1>9. s[1].k = "EVENT"
  BY <1>1, <1>2
<1> QED
  BY <1>2, <1>5, <1>6, <1>7, <1>8, <1>9 DEF s, e

\* The kernel's own bookkeeping comes first.
LEMMA ListStarts ==
  ASSUME NEW list, NEW lv, ListOK({}, list, lv), NEW c, NEW t
  PROVE  /\ t \notin lv => ListOK({<<c, "ADD", t>>}, list, lv \cup {t})
         /\ t \in lv => ListOK({<<c, "UPDATE", t>>}, list, lv)
         /\ t \in lv => ListOK({<<c, "DELETE", t>>}, list, lv \ {t})
<1>1. \A n \in 1 .. Len(list) : list[n] \in lv
  BY DEF ListOK
<1>2. ASSUME t \notin lv PROVE ListOK({<<c, "ADD", t>>}, list, lv \cup {t})
  BY <1>1, <1>2 DEF ListOK
<1>3. ASSUME t \in lv PROVE ListOK({<<c, "UPDATE", t>>}, list, lv)
  BY <1>1, <1>3 DEF ListOK
<1>4. ASSUME t \in lv PROVE ListOK({<<c, "DELETE", t>>}, list, lv \ {t})
  BY <1>1, <1>4 DEF ListOK
<1> QED BY <1>2, <1>3, <1>4

\* The list was left as it was: it was full, or the task is in it, or is IDLE.
LEMMA ListStays ==
  ASSUME NEW list, NEW lv, NEW c, NEW k, NEW t, ListOK({<<c, k, t>>}, list, lv), k # "DELETE"
  PROVE  ListOK({}, list, lv)
<1>1. \A n \in 1 .. Len(list) : list[n] \in lv
  BY DEF ListOK
<1> QED BY <1>1 DEF ListOK

\* A task that was not in the list is appended.
LEMMA ListGrows ==
  ASSUME NEW list \in Seq(Task), NEW lv, NEW c, NEW k \in {"ADD", "UPDATE"},
         NEW t \in Task \ IdleTask, ListOK({<<c, k, t>>}, list, lv),
         \A n \in 1 .. Len(list) : list[n] # t, ~(Len(list) >= MaxTasks)
  PROVE  /\ Append(list, t) \in Seq(Task)
         /\ Len(Append(list, t)) = Len(list) + 1
         /\ Append(list, t)[Len(list) + 1] = t
         /\ \A n \in 1 .. Len(list) : Append(list, t)[n] = list[n]
         /\ ListOK({}, Append(list, t), lv)
<1> DEFINE r == Append(list, t)
<1>1. /\ r \in Seq(Task) /\ Len(r) = Len(list) + 1 /\ r[Len(list) + 1] = t
      /\ \A n \in 1 .. Len(list) : r[n] = list[n]
  BY AppendProperties
<1>2. Len(list) \in Nat
  BY LenProperties
<1> HIDE DEF r
<1>3. Len(r) <= MaxTasks
  BY <1>1, <1>2, SysViewAssumption
<1>4. \A n \in 1 .. Len(r) : n \in 1 .. Len(list) \/ n = Len(list) + 1
  BY <1>1, <1>2
<1>5. t \in lv
  BY DEF ListOK
<1>6. \A n \in 1 .. Len(list) : list[n] \in lv
  BY DEF ListOK
<1>7. \A n \in 1 .. Len(r) : r[n] \notin IdleTask /\ r[n] \in lv
  BY <1>1, <1>4, <1>5, <1>6 DEF ListOK
<1>8. \A m, n \in 1 .. Len(r) : r[m] = r[n] => m = n
  BY <1>1, <1>4 DEF ListOK
<1>9. ListOK({}, r, lv)
  BY <1>3, <1>7, <1>8 DEF ListOK
<1> QED
  BY <1>1, <1>9 DEF r

\* Position finds the task.
LEMMA PositionIs ==
  ASSUME aTasks \in Seq(Task), NEW t,
         \A m, n \in 1 .. Len(aTasks) : aTasks[m] = aTasks[n] => m = n
  PROVE  \/ /\ Position(t) \in 1 .. Len(aTasks) /\ aTasks[Position(t)] = t
         \/ /\ Position(t) = Len(aTasks) + 1
            /\ \A n \in 1 .. Len(aTasks) : aTasks[n] # t
<1>1. DOMAIN aTasks = 1 .. Len(aTasks) /\ Len(aTasks) \in Nat
  BY LenProperties
<1>2. CASE \E n \in DOMAIN aTasks : aTasks[n] = t
  <2>1. PICK n \in DOMAIN aTasks : aTasks[n] = t
    BY <1>2
  <2>2. \A m \in 1 .. n - 1 : aTasks[m] # t
    <3> SUFFICES ASSUME NEW m \in 1 .. n - 1, aTasks[m] = t PROVE FALSE
      OBVIOUS
    <3>1. m \in 1 .. Len(aTasks) /\ n \in 1 .. Len(aTasks) /\ m # n
      BY <1>1, <2>1
    <3> QED BY <2>1, <3>1
  <2>3. \E j \in DOMAIN aTasks : aTasks[j] = t /\ \A m \in 1 .. j - 1 : aTasks[m] # t
    BY <2>1, <2>2
  <2> DEFINE P(j) == aTasks[j] = t /\ \A m \in 1 .. j - 1 : aTasks[m] # t
  <2>4. Position(t) = CHOOSE j \in DOMAIN aTasks : P(j)
    BY <1>2 DEF Position
  <2>5. \E j \in DOMAIN aTasks : P(j)
    BY <2>3
  <2> HIDE DEF P
  <2>6. Position(t) \in DOMAIN aTasks /\ P(Position(t))
    BY <2>4, <2>5
  <2> QED BY <1>1, <2>6 DEF P
<1>3. CASE ~(\E n \in DOMAIN aTasks : aTasks[n] = t)
  BY <1>1, <1>3 DEF Position
<1> QED BY <1>2, <1>3

\* A deletion: the task is gone, every entry was one before.
LEMMA ListShrinks ==
  ASSUME aTasks \in Seq(Task), NEW c, NEW t, ListOK({<<c, "DELETE", t>>}, aTasks, live)
  PROVE  /\ Deleted(t) \in Seq(Task)
         /\ \A n \in 1 .. Len(Deleted(t)) : \E m \in 1 .. Len(aTasks) : Deleted(t)[n] = aTasks[m]
         /\ ListOK({}, Deleted(t), live)
<1> DEFINE L == Len(aTasks)
           p == Position(t)
<1>0. /\ L \in Nat /\ L <= MaxTasks
      /\ \A m, n \in 1 .. L : aTasks[m] = aTasks[n] => m = n
      /\ \A n \in 1 .. L : aTasks[n] \notin IdleTask /\ (aTasks[n] \in live \/ aTasks[n] = t)
  BY LenProperties DEF ListOK
<1>1. \/ p \in 1 .. L /\ aTasks[p] = t
      \/ p = L + 1 /\ \A n \in 1 .. L : aTasks[n] # t
  BY <1>0, PositionIs
<1>2. CASE p = L + 1 /\ \A n \in 1 .. L : aTasks[n] # t
  <2>1. Deleted(t) = aTasks
    BY <1>0, <1>2 DEF Deleted
  <2>2. ListOK({}, aTasks, live)
    BY <1>0, <1>2 DEF ListOK
  <2> QED BY <2>1, <2>2
<1>3. CASE p \in 1 .. L /\ aTasks[p] = t
  <2> DEFINE v == [aTasks EXCEPT ![p] = aTasks[L]]
             r == SubSeq(v, 1, L - 1)
  <2>1. Deleted(t) = r
    BY <1>0, <1>3 DEF Deleted
  <2>2. aTasks[L] \in Task /\ L \in 1 .. L
    BY <1>0, <1>3, ElementOfSeq
  <2>3. v \in Seq(Task) /\ Len(v) = L
    BY <1>3, <2>2, ExceptSeq
  <2>4. DOMAIN aTasks = 1 .. L
    BY LenProperties
  <2>5. v[p] = aTasks[L] /\ \A n \in 1 .. L : n # p => v[n] = aTasks[n]
    BY <1>3, <2>4
  <2> HIDE DEF v
  <2>6. L - 1 \in 0 .. Len(v)
    BY <1>0, <1>3, <2>3
  <2>7. r \in Seq(Task) /\ Len(r) = L - 1 /\ \A n \in 1 .. L - 1 : r[n] = v[n]
    BY <1>0, <2>2, <2>3, <2>6, SubSeqProperties
  <2> HIDE DEF r
  <2>8. ASSUME NEW n \in 1 .. L - 1
        PROVE  /\ n \in 1 .. L /\ n # L
               /\ r[n] = aTasks[IF n = p THEN L ELSE n]
    BY <1>0, <2>5, <2>7
  <2>9. ASSUME NEW m \in 1 .. L - 1, NEW n \in 1 .. L - 1, r[m] = r[n] PROVE m = n
    <3>1. aTasks[IF m = p THEN L ELSE m] = aTasks[IF n = p THEN L ELSE n]
      BY <2>8, <2>9
    <3>2. (IF m = p THEN L ELSE m) = (IF n = p THEN L ELSE n)
      BY <1>0, <2>2, <2>8, <3>1
    <3> QED BY <2>8, <3>2
  <2>10. ASSUME NEW n \in 1 .. L - 1 PROVE r[n] \notin IdleTask /\ r[n] \in live
    <3> DEFINE m == IF n = p THEN L ELSE n
    <3>1. m \in 1 .. L /\ r[n] = aTasks[m] /\ m # p
      BY <1>3, <2>2, <2>8
    <3>2. aTasks[m] # t
      BY <1>0, <1>3, <3>1
    <3> QED BY <1>0, <3>1, <3>2
  <2>11. Len(r) <= MaxTasks
    BY <1>0, <2>7, SysViewAssumption
  <2>12. ListOK({}, r, live)
    BY <2>7, <2>9, <2>10, <2>11 DEF ListOK
  <2>13. \A n \in 1 .. Len(r) : \E m \in 1 .. L : r[n] = aTasks[m]
    BY <2>2, <2>7, <2>8
  <2> QED BY <2>1, <2>7, <2>12, <2>13
<1> QED BY <1>1, <1>2, <1>3

-----------------------------------------------------------------------------
(* Steps that go on with what is left of a call *)

Replaces(c, pre, r) ==
  /\ todo[c] # <<>> /\ Prefix(pre) /\ From(r, pre, todo[c])
  /\ InHandler(pre) => lock[CoreOf[c]] = c
  /\ \A i \in 1 .. Len(pre) : pre[i].k = "TASKS" =>
        \/ \E j \in i + 1 .. Len(pre) : pre[j].k = "END"
        \/ \E j \in 2 .. Len(todo[c]) : todo[c][j].k = "END"
  /\ Proceed(c, r)

\* Such a step keeps CtlInv, and it leaves the operations of the list alone
\* unless the first item was one.
LEMMA ReplaceStep ==
  ASSUME CtlType, CtlInv, NEW c \in Ctx, lock[CoreOf[c]] \in {None, c},
         NEW pre, NEW r, Replaces(c, pre, r)
  PROVE  /\ CtlType' /\ CtlInv'
         /\ todo'[c] = r /\ pc'[c] \in {"idle", "next"}
         /\ \A d \in Ctx \ {c} : todo'[d] = todo[d] /\ pc'[d] = pc[d]
         /\ todo[c][1].k \notin KernelOp => Ops' = Ops
         /\ todo[c][1].k \in KernelOp => \A k \in KernelOp, t \in Task : ~Has(todo'[c], k, t)
<1>1. /\ WellFormed(todo[c]) /\ Prefix(pre) /\ From(r, pre, todo[c]) /\ Proceed(c, r)
      /\ todo[c] \in Seq(Item) /\ pre \in Seq(Item)
  BY DEF Replaces, CtlInv, WellFormed, Prefix
<1>2. WellFormed(r)
  BY <1>1, KeepsForm DEF Replaces
<1>3. InHandler(r) => lock[CoreOf[c]] = c
  <2> SUFFICES ASSUME InHandler(r) PROVE lock[CoreOf[c]] = c
    OBVIOUS
  <2>1. InHandler(pre) \/ InHandler(todo[c])
    BY <1>1, KeepsHandler
  <2> QED BY <2>1 DEF Replaces, CtlInv
<1>4. CtlType' /\ CtlInv'
  BY <1>1, <1>2, <1>3, ProceedCtl
<1>5. /\ todo' = [todo EXCEPT ![c] = r]
      /\ pc'   = [pc EXCEPT ![c] = IF r = <<>> THEN "idle" ELSE "next"]
  BY <1>1 DEF Proceed
<1>6. /\ todo'[c] = r /\ pc'[c] \in {"idle", "next"}
      /\ \A d \in Ctx \ {c} : todo'[d] = todo[d] /\ pc'[d] = pc[d]
  BY <1>5 DEF CtlType
<1>7. ASSUME todo[c][1].k \notin KernelOp PROVE Ops' = Ops
  <2>1. \A k \in KernelOp, t \in Task : Has(r, k, t) <=> Has(todo[c], k, t)
    BY <1>1, <1>7, KeepsOps
  <2>2. \A d \in Ctx, k \in KernelOp, t \in Task : Has(todo'[d], k, t) <=> Has(todo[d], k, t)
    BY <1>6, <2>1
  <2> QED BY <2>2, SameOps
<1>8. ASSUME todo[c][1].k \in KernelOp
      PROVE  \A k \in KernelOp, t \in Task : ~Has(todo'[c], k, t)
  BY <1>1, <1>6, <1>8, KeepsOps
<1> QED
  BY <1>4, <1>6, <1>7, <1>8

\* The first item is done with.
LEMMA DropReplaces ==
  ASSUME CtlInv, NEW c \in Ctx, pc[c] # "idle", Proceed(c, Tail(todo[c]))
  PROVE  Replaces(c, <<>>, Tail(todo[c]))
<1> DEFINE s == todo[c]
           r == Tail(s)
<1>1. s \in Seq(Item) /\ s # <<>>
  BY DEF CtlInv, WellFormed
<1>2. Len(s) \in Nat /\ Len(s) >= 1
  BY <1>1, LenProperties, EmptySeq
<1>3. r \in Seq(Item) /\ Len(r) = Len(s) - 1 /\ \A i \in 1 .. Len(r) : r[i] = s[i + 1]
  BY <1>1, HeadTailProperties
<1>4. <<>> \in Seq(Item) /\ Len(<<>>) = 0
  BY EmptySeq
<1>5. Proceed(c, r)
  OBVIOUS
<1> HIDE DEF s, r
<1>6. ASSUME NEW i \in 2 .. Len(s) PROVE i - 1 \in 1 .. Len(r) /\ r[i - 1] = s[i]
  <2>1. i - 1 \in 1 .. Len(r) /\ (i - 1) + 1 = i
    BY <1>2, <1>3
  <2> QED BY <1>3, <2>1
<1>7. ASSUME NEW i \in 1 .. Len(r) PROVE i + 1 \in 2 .. Len(s) /\ r[i] = s[i + 1]
  BY <1>2, <1>3
<1>8. From(r, <<>>, s)
  BY <1>2, <1>3, <1>4, <1>6, <1>7 DEF From
<1> QED
  BY <1>1, <1>4, <1>5, <1>8, PrefixNone DEF Replaces, s, r

\* Items are put in front of the rest.
LEMMA PutReplaces ==
  ASSUME CtlInv, NEW c \in Ctx, pc[c] # "idle", NEW pre, Prefix(pre),
         InHandler(pre) => lock[CoreOf[c]] = c,
         \A i \in 1 .. Len(pre) : pre[i].k = "TASKS" =>
            \/ \E j \in i + 1 .. Len(pre) : pre[j].k = "END"
            \/ \E j \in 2 .. Len(todo[c]) : todo[c][j].k = "END",
         Proceed(c, pre \o Tail(todo[c]))
  PROVE  Replaces(c, pre, pre \o Tail(todo[c]))
<1>1. todo[c] \in Seq(Item) /\ todo[c] # <<>> /\ pre \in Seq(Item)
  BY DEF CtlInv, WellFormed, Prefix
<1>2. From(pre \o Tail(todo[c]), pre, todo[c])
  BY <1>1, ReplacedIs
<1> QED
  BY <1>1, <1>2 DEF Replaces

\* A command is handled.
LEMMA CommandReplaces ==
  ASSUME CtlInv, NEW c \in Ctx, pc[c] = "done", NEW cmd,
         Proceed(c, CommandItems(cmd) \o <<It("END")>> \o Tail(todo[c]))
  PROVE  LET pre == CommandItems(cmd) \o <<It("END")>>
         IN Replaces(c, pre, pre \o Tail(todo[c]))
<1> DEFINE pre == CommandItems(cmd) \o <<It("END")>>
<1>1. /\ Prefix(pre)
      /\ \A i \in 1 .. Len(pre) : pre[i].k = "TASKS" =>
             \E j \in i + 1 .. Len(pre) : pre[j].k = "END"
  BY PrefixCommand
<1>2. Proceed(c, pre \o Tail(todo[c]))
  OBVIOUS
<1>3. lock[CoreOf[c]] = c
  BY DEF CtlInv, Busy
<1> HIDE DEF pre
<1>4. Replaces(c, pre, pre \o Tail(todo[c]))
  BY <1>1, <1>2, <1>3, PutReplaces
<1> QED BY <1>4 DEF pre

\* A task's information is sent.
LEMMA InfoReplaces ==
  ASSUME CtlInv, NEW c \in Ctx, pc[c] = "next", NEW t \in Task,
         Proceed(c, TaskInfo(t) \o Tail(todo[c]))
  PROVE  Replaces(c, TaskInfo(t), TaskInfo(t) \o Tail(todo[c]))
<1> DEFINE pre == TaskInfo(t)
<1>1. Prefix(pre) /\ ~InHandler(pre) /\ \A i \in 1 .. Len(pre) : pre[i].k # "TASKS"
  BY PrefixTaskInfo
<1>2. Proceed(c, pre \o Tail(todo[c]))
  OBVIOUS
<1> HIDE DEF pre
<1>3. Replaces(c, pre, pre \o Tail(todo[c]))
  BY <1>1, <1>2, PutReplaces
<1> QED BY <1>3 DEF pre

\* A full list warns.
LEMMA EventReplaces ==
  ASSUME CtlInv, NEW c \in Ctx, pc[c] = "next",
         Proceed(c, <<It("EVENT")>> \o Tail(todo[c]))
  PROVE  Replaces(c, <<It("EVENT")>>, <<It("EVENT")>> \o Tail(todo[c]))
<1> DEFINE pre == <<It("EVENT")>>
<1>1. Prefix(pre) /\ ~InHandler(pre)
  BY PrefixEvent
<1>2. Proceed(c, pre \o Tail(todo[c]))
  OBVIOUS
<1>3. Len(pre) = 1 /\ pre[1].k = "EVENT"
  BY DEF It
<1> HIDE DEF pre
<1>4. \A i \in 1 .. Len(pre) : pre[i].k # "TASKS"
  BY <1>3
<1>5. Replaces(c, pre, pre \o Tail(todo[c]))
  BY <1>1, <1>2, <1>4, PutReplaces
<1> QED BY <1>5 DEF pre

\* A round of the loop over the list: the handler's end is still to come.
LEMMA RoundReplaces ==
  ASSUME CtlInv, NEW c \in Ctx, pc[c] = "next", todo[c][1].k = "TASKS",
         NEW t \in Task, NEW n \in Nat,
         Proceed(c, TaskInfo(t) \o <<ItN("TASKS", n + 1)>> \o Tail(todo[c]))
  PROVE  LET pre == TaskInfo(t) \o <<ItN("TASKS", n + 1)>>
         IN Replaces(c, pre, pre \o Tail(todo[c]))
<1> DEFINE pre == TaskInfo(t) \o <<ItN("TASKS", n + 1)>>
<1>1. Prefix(pre) /\ ~InHandler(pre)
  BY PrefixRound
<1>2. Proceed(c, pre \o Tail(todo[c]))
  OBVIOUS
<1>3. WellFormed(todo[c]) /\ todo[c] \in Seq(Item) /\ todo[c] # <<>>
  BY DEF CtlInv, WellFormed
<1>4. 1 \in 1 .. Len(todo[c])
  BY <1>3, LenProperties, EmptySeq
<1>5. \E j \in 1 + 1 .. Len(todo[c]) : todo[c][j].k = "END"
  BY <1>3, <1>4 DEF WellFormed
<1>6. \E j \in 2 .. Len(todo[c]) : todo[c][j].k = "END"
  BY <1>5
<1> HIDE DEF pre
<1>7. Replaces(c, pre, pre \o Tail(todo[c]))
  BY <1>1, <1>2, <1>6, PutReplaces
<1> QED BY <1>7 DEF pre

-----------------------------------------------------------------------------
(* The recorder's own variables *)

\* The delta of a packet brings the host's clock to the packet's time stamp.
LEMMA Delta ==
  ASSUME NEW a \in 0 .. Word - 1, NEW ts \in 0 .. Word - 1
  PROVE  (a + ts + Word - a) % Word = ts
<1>1. Word \in Nat /\ Word > 0
  BY SysViewAssumption
<1>2. a + ts + Word - a = ts + Word
  BY <1>1
<1>3. (ts + Word) % Word = ts
  BY <1>1
<1> QED BY <1>2, <1>3

\* EnableState goes from 1 to 2 and back.
LEMMA EnableUpDown == (1 + 1) % U8 = 2 /\ (2 + U8 - 1) % U8 = 1
<1>1. U8 \in Nat /\ U8 > 2
  BY SysViewAssumption
<1>2. 2 % U8 = 2
  BY <1>1
<1>3. (1 + U8) % U8 = 1
  BY <1>1
<1>4. 1 + 1 = 2 /\ 2 + U8 - 1 = 1 + U8
  BY <1>1
<1> QED BY <1>2, <1>3, <1>4

\* EnableState is a byte.
LEMMA EnableBounds ==
  ASSUME NEW n \in Nat
  PROVE  n % U8 \in 0 .. U8 - 1
BY SysViewAssumption

\* A packet is stored.
LEMMA StoreRest ==
  ASSUME RestInv, NEW k \in Packet, NEW t, k = "TASK_INFO" => t \in Task,
         NEW ts \in 0 .. Word - 1, Fits(k), Store(k, t, ts)
  PROVE  /\ used' \in 0 .. Capacity
         /\ LastTxTimeStamp' \in 0 .. Word - 1 /\ clock' = LastTxTimeStamp'
         /\ told' \subseteq Task
         /\ gap' \in BOOLEAN /\ unmarked' \in BOOLEAN /\ clean' \in BOOLEAN
<1>1. used' \in 0 .. Capacity
  <2>1. SizeOf[k] \in Nat /\ Capacity \in Nat
    BY SysViewAssumption
  <2> QED BY <2>1 DEF RestInv, Fits, Store
<1>2. clock' = ts /\ LastTxTimeStamp' = ts
  <2>1. clock' = (LastTxTimeStamp + ts + Word - LastTxTimeStamp) % Word /\ LastTxTimeStamp' = ts
    BY DEF RestInv, Store
  <2>2. LastTxTimeStamp \in 0 .. Word - 1
    BY DEF RestInv
  <2> QED BY <2>1, <2>2, Delta
<1>3. told' \subseteq Task
  BY DEF RestInv, Store
<1>4. gap' \in BOOLEAN /\ unmarked' \in BOOLEAN /\ clean' \in BOOLEAN
  BY Zenon DEF Store
<1> QED BY <1>1, <1>2, <1>3, <1>4

\* The four flags one by one, after a step and before it.
LEMMA FlagsAre ==
  ASSUME overlap' \in BOOLEAN, gap' \in BOOLEAN, unmarked' \in BOOLEAN, clean' \in BOOLEAN
  PROVE  Flags'
BY DEF Flags

\* ... before it.
LEMMA FlagsWere ==
  ASSUME RestInv
  PROVE  overlap \in BOOLEAN /\ gap \in BOOLEAN /\ unmarked \in BOOLEAN /\ clean \in BOOLEAN
BY DEF RestInv, Flags

\* _TrySendOverflowPacket.
LEMMA OverflowRest ==
  ASSUME RestInv, NEW c \in Ctx, _TrySendOverflowPacket(c)
  PROVE  RestInv'
<1>1. PICK ts \in 0 .. Word - 1 :
         /\ TimeStamp(ts)
         /\ IF Fits("OVERFLOW")
            THEN Store("OVERFLOW", None, ts) /\ EnableState' = (EnableState + U8 - 1) % U8
            ELSE Lose /\ UNCHANGED <<used, LastTxTimeStamp, EnableState>>
  BY DEF _TrySendOverflowPacket
<1>2. UNCHANGED <<DisabledEvents, RecursionCnt, down, sent, overlap>>
  BY DEF _TrySendOverflowPacket
<1>3. now' = ts
  BY <1>1 DEF TimeStamp
<1>4. overlap' \in BOOLEAN
  BY <1>2, FlagsWere, Zenon
<1>5. CASE Fits("OVERFLOW")
  <2>1. Store("OVERFLOW", None, ts) /\ EnableState' = (EnableState + U8 - 1) % U8
    BY <1>1, <1>5
  <2>2. EnableState' \in 0 .. U8 - 1
    <3>1. EnableState + U8 - 1 \in Nat
      BY SysViewAssumption DEF RestInv
    <3> QED BY <2>1, <3>1, EnableBounds
  <2>3. "OVERFLOW" \in Packet
    BY DEF Packet
  <2>4. /\ used' \in 0 .. Capacity
        /\ LastTxTimeStamp' \in 0 .. Word - 1 /\ clock' = LastTxTimeStamp'
        /\ told' \subseteq Task
        /\ gap' \in BOOLEAN /\ unmarked' \in BOOLEAN /\ clean' \in BOOLEAN
    BY <1>5, <2>1, <2>3, StoreRest
  <2>5. Flags'
    BY <1>4, <2>4, FlagsAre
  <2> QED BY <1>2, <1>3, <2>2, <2>4, <2>5 DEF RestInv
<1>6. CASE ~Fits("OVERFLOW")
  <2>1. Lose /\ UNCHANGED <<used, LastTxTimeStamp, EnableState>>
    BY <1>1, <1>6
  <2>2. gap' \in BOOLEAN /\ unmarked' \in BOOLEAN /\ clean' \in BOOLEAN
    BY <2>1, FlagsWere, Zenon DEF Lose
  <2>3. Flags'
    BY <1>4, <2>2, FlagsAre
  <2>4. UNCHANGED <<clock, told>>
    BY <2>1 DEF Lose
  <2> QED BY <1>2, <1>3, <2>1, <2>3, <2>4 DEF RestInv
<1> QED BY <1>5, <1>6

\* _SendPacket.
LEMMA SendRest ==
  ASSUME RestInv, CtlInv, NEW c \in Ctx, _SendPacket(c)
  PROVE  RestInv'
<1> DEFINE e == Head(todo[c])
<1>0. pc[c] = "send"
  BY DEF _SendPacket
<1>1. \/ e.k \in DisabledEvents /\ UNCHANGED <<EnableState, LastTxTimeStamp, used, now, stream>>
      \/ \E ts \in 0 .. Word - 1 :
            /\ TimeStamp(ts)
            /\ IF Fits(e.k)
               THEN Store(e.k, e.t, ts) /\ UNCHANGED EnableState
               ELSE /\ EnableState' = (EnableState + 1) % U8
                    /\ Lose
                    /\ UNCHANGED <<used, LastTxTimeStamp>>
  BY DEF _SendPacket
<1>2. UNCHANGED <<DisabledEvents, RecursionCnt, down, sent, overlap>>
  BY DEF _SendPacket
<1>3. WellFormed(todo[c]) /\ todo[c] \in Seq(Item) /\ todo[c] # <<>>
  BY <1>0 DEF CtlInv, WellFormed
<1>4. e = todo[c][1] /\ 1 \in 1 .. Len(todo[c])
  BY <1>3, LenProperties, EmptySeq
<1>5. e.k \in Packet /\ (e.k = "TASK_INFO" => e.t \in Task)
  BY <1>0, <1>3, <1>4 DEF CtlInv, WellFormed, WithTask, Busy
<1>6. overlap' \in BOOLEAN
  BY <1>2, FlagsWere, Zenon
<1> HIDE DEF e
<1>7. CASE UNCHANGED <<EnableState, LastTxTimeStamp, used, now, stream>>
  <2>1. UNCHANGED <<clock, told, gap, unmarked, clean>>
    BY <1>7 DEF stream
  <2>2. gap' \in BOOLEAN /\ unmarked' \in BOOLEAN /\ clean' \in BOOLEAN
    BY <2>1, FlagsWere, Zenon
  <2>3. Flags'
    BY <1>6, <2>2, FlagsAre
  <2> QED BY <1>2, <1>7, <2>1, <2>3 DEF RestInv
<1>8. ASSUME NEW ts \in 0 .. Word - 1, TimeStamp(ts), Fits(e.k),
             Store(e.k, e.t, ts), UNCHANGED EnableState
      PROVE  RestInv'
  <2>1. /\ used' \in 0 .. Capacity
        /\ LastTxTimeStamp' \in 0 .. Word - 1 /\ clock' = LastTxTimeStamp'
        /\ told' \subseteq Task
        /\ gap' \in BOOLEAN /\ unmarked' \in BOOLEAN /\ clean' \in BOOLEAN
    BY <1>5, <1>8, StoreRest
  <2>2. Flags'
    BY <1>6, <2>1, FlagsAre
  <2>3. now' = ts
    BY <1>8 DEF TimeStamp
  <2> QED BY <1>2, <1>8, <2>1, <2>2, <2>3 DEF RestInv
<1>9. ASSUME NEW ts \in 0 .. Word - 1, TimeStamp(ts), EnableState' = (EnableState + 1) % U8, Lose,
             UNCHANGED <<used, LastTxTimeStamp>>
      PROVE  RestInv'
  <2>1. UNCHANGED <<clock, told>> /\ now' = ts
    BY <1>9 DEF Lose, TimeStamp
  <2>2. gap' \in BOOLEAN /\ unmarked' \in BOOLEAN /\ clean' \in BOOLEAN
    BY <1>9, FlagsWere, Zenon DEF Lose
  <2>3. Flags'
    BY <1>6, <2>2, FlagsAre
  <2>4. EnableState' \in 0 .. U8 - 1
    <3>1. EnableState + 1 \in Nat
      BY DEF RestInv
    <3> QED BY <1>9, <3>1, EnableBounds
  <2> QED BY <1>2, <1>9, <2>1, <2>3, <2>4 DEF RestInv
<1> QED BY <1>1, <1>7, <1>8, <1>9

\* Steps that change nothing of it but EnableState, RecursionCnt and the
\* channels.
LEMMA OtherRest ==
  ASSUME RestInv, UNCHANGED <<LastTxTimeStamp, DisabledEvents, now, stream>>,
         EnableState' \in 0 .. U8 - 1, RecursionCnt' \in {0, 1},
         used' \in 0 .. Capacity, sent' \in 0 .. MaxCmds,
         down' \in Seq(Command \cup Parameter), overlap' \in BOOLEAN
  PROVE  RestInv'
<1>1. UNCHANGED <<clock, told, gap, unmarked, clean>>
  BY DEF stream
<1>2. gap' \in BOOLEAN /\ unmarked' \in BOOLEAN /\ clean' \in BOOLEAN
  BY <1>1, FlagsWere, Zenon
<1>3. Flags'
  BY <1>2, FlagsAre
<1> QED BY <1>1, <1>3 DEF RestInv

-----------------------------------------------------------------------------
(* Every step keeps RecInv *)

\* Steps that leave the list and the operations alone.
LEMMA ListKept ==
  ASSUME ListType, ListInv, Ops' = Ops, aTasks' = aTasks, live' = live
  PROVE  ListType' /\ ListInv'
BY DEF ListType, ListInv

\* A context that is not idle has a first item.
LEMMA HeadIs ==
  ASSUME CtlInv, NEW c \in Ctx, pc[c] # "idle"
  PROVE  /\ todo[c] \in Seq(Item) /\ todo[c] # <<>> /\ WellFormed(todo[c])
         /\ Head(todo[c]) = todo[c][1] /\ 1 \in 1 .. Len(todo[c])
         /\ todo[c][1] \in Item
<1>1. todo[c] \in Seq(Item) /\ todo[c] # <<>> /\ WellFormed(todo[c])
  BY DEF CtlInv, WellFormed
<1>2. Head(todo[c]) = todo[c][1] /\ 1 \in 1 .. Len(todo[c])
  BY <1>1, LenProperties, EmptySeq
<1>3. todo[c][1] \in Item
  BY <1>1, <1>2, ElementOfSeq
<1> QED BY <1>1, <1>2, <1>3

\* The steps inside _SendPacket.
LEMMA InsideRec ==
  ASSUME RecInv, NEW c \in Ctx, _TrySendOverflowPacket(c) \/ _SendPacket(c)
  PROVE  RecInv'
<1>1. UNCHANGED <<aTasks, live, lock, todo>>
  BY DEF _TrySendOverflowPacket, _SendPacket, tasks
<1>2. PICK q \in Busy : pc' = [pc EXCEPT ![c] = q]
  BY DEF _TrySendOverflowPacket, _SendPacket, Busy
<1>3. pc[c] \in Busy
  BY DEF _TrySendOverflowPacket, _SendPacket, Busy
<1>4. CtlType' /\ CtlInv'
  BY <1>1, <1>2, <1>3, InsideCtl DEF RecInv
<1>5. Ops' = Ops
  BY <1>1 DEF Ops
<1>6. ListType' /\ ListInv'
  BY <1>1, <1>5, ListKept DEF RecInv
<1>7. RestInv'
  BY OverflowRest, SendRest DEF RecInv
<1> QED
  BY <1>4, <1>6, <1>7 DEF RecInv

\* Steps that go on with a call, but for the operations of the list.
LEMMA ProceedRec ==
  ASSUME RecInv, NEW c \in Ctx, lock[CoreOf[c]] \in {None, c}, NEW pre, NEW r,
         Replaces(c, pre, r), todo[c][1].k \notin KernelOp, RestInv',
         UNCHANGED <<aTasks, live>>
  PROVE  RecInv'
<1>1. CtlType' /\ CtlInv' /\ Ops' = Ops
  BY ReplaceStep DEF RecInv
<1>2. ListType' /\ ListInv'
  BY <1>1, ListKept DEF RecInv
<1> QED BY <1>1, <1>2 DEF RecInv

\* What is read of a channel is at most all.
LEMMA DownRest ==
  ASSUME NEW S, NEW s \in Seq(S), NEW n \in Nat
  PROVE  SubSeq(s, n + 1, Len(s)) \in Seq(S)
<1>1. Len(s) \in Nat
  BY LenProperties
<1>2. \A i \in n + 1 .. Len(s) : s[i] \in S
  BY <1>1, ElementOfSeq
<1> QED
  BY <1>1, <1>2, SubSeqProperties

\* The label SendDone.
LEMMA DoneRec ==
  ASSUME RecInv, NEW c \in Ctx, lock[CoreOf[c]] \in {None, c}, SendDone(c)
  PROVE  RecInv'
<1>0. /\ pc[c] = "done"
      /\ UNCHANGED <<LastTxTimeStamp, DisabledEvents, tasks, used, sent, now, overlap, stream>>
  BY DEF SendDone
<1>1. UNCHANGED <<aTasks, live>>
  BY <1>0 DEF tasks
<1>2. CtlInv /\ RestInv
  BY DEF RecInv
<1>3. todo[c][1].k \notin KernelOp
  BY <1>0, <1>2 DEF CtlInv, Busy, KernelOp, Packet
<1>4. overlap' \in BOOLEAN
  BY <1>0, <1>2, FlagsWere, Zenon
<1>5. used' \in 0 .. Capacity /\ sent' \in 0 .. MaxCmds
  BY <1>0, <1>2 DEF RestInv
<1>6. CASE down # <<>> /\ RecursionCnt = 0
  <2> DEFINE cmd == Head(down)
             pre == CommandItems(cmd) \o <<It("END")>>
             r   == pre \o Tail(todo[c])
  <2>1. _HandleIncomingPacket(c, Tail(todo[c]))
    BY <1>6 DEF SendDone
  <2>2. /\ RecursionCnt' = 1
        /\ down' = SubSeq(down, BytesRead(cmd) + 1, Len(down))
        /\ EnableState' = IF cmd = "START" THEN 1 ELSE EnableState
        /\ Proceed(c, r)
    BY <2>1 DEF _HandleIncomingPacket
  <2>3. Replaces(c, pre, r)
    BY <1>0, <1>2, <2>2, CommandReplaces
  <2> HIDE DEF r, pre, cmd
  <2>4. BytesRead(cmd) \in Nat
    BY DEF BytesRead
  <2>5. down' \in Seq(Command \cup Parameter)
    BY <1>2, <2>2, <2>4, DownRest DEF RestInv
  <2>6. EnableState' \in 0 .. U8 - 1
    BY <1>2, <2>2, SysViewAssumption DEF RestInv
  <2>7. RestInv'
    BY <1>0, <1>2, <1>4, <1>5, <2>2, <2>5, <2>6, OtherRest
  <2> QED BY <1>1, <1>3, <2>3, <2>7, ProceedRec
<1>7. CASE ~(down # <<>> /\ RecursionCnt = 0)
  <2>1. Proceed(c, Tail(todo[c])) /\ UNCHANGED <<RecursionCnt, down, EnableState>>
    BY <1>7 DEF SendDone
  <2>2. Replaces(c, <<>>, Tail(todo[c]))
    BY <1>0, <1>2, <2>1, DropReplaces
  <2>3. RestInv'
    BY <1>0, <1>2, <1>4, <1>5, <2>1, OtherRest DEF RestInv
  <2> QED BY <1>1, <1>3, <2>2, <2>3, ProceedRec
<1> QED BY <1>6, <1>7

\* The next packet of the call.
LEMMA NextRec ==
  ASSUME RecInv, NEW c \in Ctx, lock[CoreOf[c]] \in {None, c}, SendNext(c)
  PROVE  RecInv'
<1>0. /\ pc[c] = "next" /\ Head(todo[c]).k \in Packet \ {"SYNC"} /\ Enter(c, todo[c])
      /\ UNCHANGED <<globals, tasks, channel, now, overlap, stream>>
  BY DEF SendNext
<1>1. CtlInv /\ RestInv /\ CtlType
  BY DEF RecInv
<1>2. CtlType' /\ CtlInv'
  BY <1>0, <1>1, HeadIs, EnterCtl
<1>3. todo' = [todo EXCEPT ![c] = todo[c]]
  BY <1>0 DEF Enter
<1>4. Ops' = Ops
  BY <1>1, <1>3 DEF Ops, CtlType
<1>5. ListType' /\ ListInv'
  BY <1>0, <1>4, ListKept DEF RecInv, tasks
<1>6. overlap' \in BOOLEAN
  BY <1>0, <1>1, FlagsWere, Zenon
<1>7. RestInv'
  BY <1>0, <1>1, <1>6, OtherRest DEF RestInv, globals, channel
<1> QED BY <1>2, <1>5, <1>7 DEF RecInv

\* The packet without a time stamp, the end of a handler, the end of Stop.
LEMMA EndsRec ==
  ASSUME RecInv, NEW c \in Ctx, lock[CoreOf[c]] \in {None, c},
         SendSync(c) \/ HandlerEnds(c) \/ StopEnds(c)
  PROVE  RecInv'
<1>0. /\ pc[c] = "next" /\ Head(todo[c]).k \in {"SYNC", "END", "OFF"}
      /\ Proceed(c, Tail(todo[c]))
      /\ UNCHANGED <<LastTxTimeStamp, DisabledEvents, aTasks, live, down, sent, now, overlap, stream>>
  BY DEF SendSync, HandlerEnds, StopEnds, Next_, globals, tasks, channel
<1>1. CtlInv /\ RestInv
  BY DEF RecInv
<1>2. todo[c][1].k \notin KernelOp
  BY <1>0, <1>1, HeadIs DEF KernelOp
<1>3. Replaces(c, <<>>, Tail(todo[c]))
  BY <1>0, <1>1, DropReplaces
<1>4. overlap' \in BOOLEAN
  BY <1>0, <1>1, FlagsWere, Zenon
<1>5. used' \in 0 .. Capacity
  <2>1. SizeOf["SYNC"] \in Nat /\ Capacity \in Nat
    BY SysViewAssumption DEF Packet
  <2>2. used' = used \/ (Fits("SYNC") /\ used' = used + SizeOf["SYNC"])
    BY DEF SendSync, HandlerEnds, StopEnds, channel
  <2> QED BY <1>1, <2>1, <2>2 DEF RestInv, Fits
<1>6. EnableState' \in 0 .. U8 - 1 /\ RecursionCnt' \in {0, 1}
  BY <1>1, SysViewAssumption DEF SendSync, HandlerEnds, StopEnds, RestInv, globals
<1>7. RestInv'
  BY <1>0, <1>1, <1>4, <1>5, <1>6, OtherRest DEF RestInv
<1> QED BY <1>0, <1>2, <1>3, <1>7, ProceedRec

\* Steps that change only the list and what is left of the call.
LEMMA QuietRest ==
  ASSUME RestInv, UNCHANGED <<globals, channel, now, overlap, stream>>
  PROVE  RestInv'
<1>1. overlap' \in BOOLEAN
  BY FlagsWere, Zenon
<1> QED BY <1>1, OtherRest DEF RestInv, globals, channel

\* The loop over the list.
LEMMA TasksRec ==
  ASSUME RecInv, NEW c \in Ctx, lock[CoreOf[c]] \in {None, c}, _cbSendTaskList(c)
  PROVE  RecInv'
<1> DEFINE n == Head(todo[c]).n
<1>0. /\ pc[c] = "next" /\ Head(todo[c]).k = "TASKS"
      /\ Proceed(c, IF n <= Len(aTasks)
                    THEN TaskInfo(aTasks[n]) \o <<ItN("TASKS", n + 1)>> \o Tail(todo[c])
                    ELSE Tail(todo[c]))
      /\ UNCHANGED <<globals, tasks, channel, now, overlap, stream>>
  BY DEF _cbSendTaskList, Next_
<1>1. CtlInv /\ RestInv /\ ListType
  BY DEF RecInv
<1>2. todo[c][1].k = "TASKS" /\ todo[c][1].k \notin KernelOp /\ n \in Nat /\ n >= 1
  <2>1. Head(todo[c]) = todo[c][1] /\ WellFormed(todo[c]) /\ 1 \in 1 .. Len(todo[c])
    BY <1>0, <1>1, HeadIs
  <2>2. todo[c][1].n >= 1
    BY <1>0, <2>1 DEF WellFormed
  <2>3. Head(todo[c]) \in Item
    BY <1>0, <1>1, HeadIs
  <2>4. n \in Nat
    BY <2>3 DEF Item
  <2> QED BY <1>0, <2>1, <2>2, <2>4 DEF KernelOp
<1>3. RestInv'
  BY <1>0, <1>1, QuietRest
<1>4. UNCHANGED <<aTasks, live>>
  BY <1>0 DEF tasks
<1> HIDE DEF n
<1>5. CASE n <= Len(aTasks)
  <2>1. aTasks[n] \in Task
    BY <1>1, <1>2, <1>5, LenProperties, ElementOfSeq DEF ListType
  <2> DEFINE pre == TaskInfo(aTasks[n]) \o <<ItN("TASKS", n + 1)>>
             r   == pre \o Tail(todo[c])
  <2>2. Proceed(c, r)
    BY <1>0, <1>5
  <2>3. Replaces(c, pre, r)
    BY <1>0, <1>1, <1>2, <2>1, <2>2, RoundReplaces
  <2> HIDE DEF pre, r
  <2> QED BY <1>2, <1>3, <1>4, <2>3, ProceedRec
<1>6. CASE ~(n <= Len(aTasks))
  <2>1. Proceed(c, Tail(todo[c]))
    BY <1>0, <1>6
  <2>2. Replaces(c, <<>>, Tail(todo[c]))
    BY <1>0, <1>1, <2>1, DropReplaces
  <2> QED BY <1>2, <1>3, <1>4, <2>2, ProceedRec
<1> QED BY <1>5, <1>6

\* An operation of the list is done with.
LEMMA OperationRec ==
  ASSUME RecInv, NEW c \in Ctx, lock[CoreOf[c]] \in {None, c}, pc[c] = "next",
         todo[c][1].k \in KernelOp, NEW pre, NEW r, Replaces(c, pre, r),
         UNCHANGED <<globals, live, channel, now, overlap, stream>>,
         aTasks' \in Seq(Task), ListOK({}, aTasks', live)
  PROVE  RecInv'
<1>1. /\ CtlType' /\ CtlInv' /\ \A d \in Ctx \ {c} : todo'[d] = todo[d]
      /\ \A k \in KernelOp, t \in Task : ~Has(todo'[c], k, t)
  BY ReplaceStep DEF RecInv
<1>2. todo[c] # <<>>
  BY HeadIs DEF RecInv
<1>3. Ops = {<<c, todo[c][1].k, todo[c][1].t>>}
  BY <1>2, OpIs DEF RecInv
<1>4. Ops' = {}
  BY <1>1, <1>3, OpDone
<1>5. ListInv' /\ ListType'
  BY <1>4 DEF ListInv, ListType, RecInv
<1>6. RestInv'
  BY QuietRest DEF RecInv
<1> QED BY <1>1, <1>5, <1>6 DEF RecInv

\* AddTask, of a task that is not in the list: what it puts in front, and the
\* list.
LEMMA AddDoes ==
  ASSUME RecInv, NEW c \in Ctx, pc[c] = "next", todo[c][1].k \in {"ADD", "UPDATE"},
         NEW t, t = todo[c][1].t, t \notin IdleTask,
         \A n \in 1 .. Len(aTasks) : aTasks[n] # t, AddTask(c, t)
  PROVE  /\ t \in Task
         /\ aTasks' \in Seq(Task) /\ ListOK({}, aTasks', live)
         /\ \/ /\ aTasks' = aTasks
               /\ Replaces(c, <<It("EVENT")>>, <<It("EVENT")>> \o Tail(todo[c]))
            \/ /\ Len(aTasks') = Len(aTasks) + 1 /\ aTasks'[Len(aTasks) + 1] = t
               /\ \A n \in 1 .. Len(aTasks) : aTasks'[n] = aTasks[n]
               /\ Replaces(c, TaskInfo(t), TaskInfo(t) \o Tail(todo[c]))
<1>1. CtlInv /\ ListInv /\ aTasks \in Seq(Task) /\ todo[c] # <<>> /\ todo[c][1].k \in KernelOp
  BY HeadIs DEF RecInv, ListType, KernelOp
<1>2. t \in Task /\ Ops = {<<c, todo[c][1].k, t>>}
  BY <1>1, OpIs
<1>3. ListOK({<<c, todo[c][1].k, t>>}, aTasks, live)
  BY <1>1, <1>2 DEF ListInv
<1>4. CASE Len(aTasks) >= MaxTasks
  <2>1. aTasks' = aTasks /\ Proceed(c, <<It("EVENT")>> \o Tail(todo[c]))
    BY <1>4 DEF AddTask
  <2>2. Replaces(c, <<It("EVENT")>>, <<It("EVENT")>> \o Tail(todo[c]))
    BY <1>1, <2>1, EventReplaces
  <2>3. ListOK({}, aTasks, live)
    BY <1>3, ListStays
  <2> QED BY <1>1, <1>2, <2>1, <2>2, <2>3
<1>5. CASE ~(Len(aTasks) >= MaxTasks)
  <2>1. aTasks' = Append(aTasks, t) /\ Proceed(c, TaskInfo(t) \o Tail(todo[c]))
    BY <1>5 DEF AddTask
  <2>2. Replaces(c, TaskInfo(t), TaskInfo(t) \o Tail(todo[c]))
    BY <1>1, <1>2, <2>1, InfoReplaces
  <2>3. /\ Append(aTasks, t) \in Seq(Task)
        /\ Len(Append(aTasks, t)) = Len(aTasks) + 1
        /\ Append(aTasks, t)[Len(aTasks) + 1] = t
        /\ \A n \in 1 .. Len(aTasks) : Append(aTasks, t)[n] = aTasks[n]
        /\ ListOK({}, Append(aTasks, t), live)
    <3> DEFINE k == todo[c][1].k
    <3>1. k \in {"ADD", "UPDATE"} /\ ListOK({<<c, k, t>>}, aTasks, live)
      BY <1>3
    <3>2. t \in Task \ IdleTask
      BY <1>2
    <3> HIDE DEF k
    <3>3. aTasks \in Seq(Task) /\ \A n \in 1 .. Len(aTasks) : aTasks[n] # t
      BY <1>1, Zenon
    <3> QED BY <1>5, <3>1, <3>2, <3>3, ListGrows, Zenon
  <2> HIDE DEF TaskInfo
  <2> QED BY <1>2, <2>1, <2>2, <2>3
<1> QED BY <1>4, <1>5

\* The three operations of the list: what they put in front, and the list.
\* All that is new in it is told about.
Operation(c, pre, r) ==
  /\ pc[c] = "next" /\ todo[c][1].k \in KernelOp
  /\ Replaces(c, pre, r)
  /\ UNCHANGED <<globals, live, channel, now, overlap, stream>>
  /\ aTasks' \in Seq(Task) /\ ListOK({}, aTasks', live)
  /\ \A n \in 1 .. Len(aTasks') :
       \/ \E m \in 1 .. Len(aTasks) : aTasks'[n] = aTasks[m]
       \/ \E i \in 1 .. Len(pre) : pre[i].k = "TASK_INFO" /\ pre[i].t = aTasks'[n]

\* SYSVIEW_AddTask and SYSVIEW_UpdateTask: a task that is new in the list is
\* sent.
LEMMA AddIs ==
  ASSUME RecInv, NEW c \in Ctx, SYSVIEW_AddTask(c) \/ SYSVIEW_UpdateTask(c)
  PROVE  \E pre, r : Operation(c, pre, r)
<1> DEFINE t == Head(todo[c]).t
<1>0. /\ pc[c] = "next" /\ Head(todo[c]).k \in {"ADD", "UPDATE"}
      /\ UNCHANGED <<globals, live, channel, now, overlap, stream>>
      /\ \/ UNCHANGED aTasks /\ Proceed(c, Tail(todo[c]))
         \/ /\ Head(todo[c]).k = "UPDATE" /\ UNCHANGED aTasks
            /\ Proceed(c, TaskInfo(t) \o Tail(todo[c]))
         \/ /\ t \notin IdleTask /\ AddTask(c, t)
            /\ Head(todo[c]).k = "UPDATE" => ~(Position(t) <= Len(aTasks))
  BY DEF SYSVIEW_AddTask, SYSVIEW_UpdateTask, Next_
<1>1. /\ CtlInv /\ ListInv /\ aTasks \in Seq(Task) /\ todo[c] # <<>> /\ Head(todo[c]) = todo[c][1]
  BY <1>0, HeadIs DEF RecInv, ListType
<1>2. todo[c][1].k \in KernelOp /\ todo[c][1].k \in {"ADD", "UPDATE"} /\ t = todo[c][1].t
  BY <1>0, <1>1 DEF KernelOp
<1>3. t \in Task /\ Ops = {<<c, todo[c][1].k, t>>}
  BY <1>1, <1>2, OpIs
<1>4. ListOK({<<c, todo[c][1].k, t>>}, aTasks, live)
  BY <1>1, <1>3 DEF ListInv
<1>5. ListOK({}, aTasks, live)
  BY <1>2, <1>4, ListStays
<1>6. Len(aTasks) \in Nat
  BY <1>1, LenProperties
<1> HIDE DEF t
<1>7. CASE UNCHANGED aTasks /\ Proceed(c, Tail(todo[c]))
  <2>1. Replaces(c, <<>>, Tail(todo[c]))
    BY <1>0, <1>1, <1>7, DropReplaces
  <2>2. \A n \in 1 .. Len(aTasks') : \E m \in 1 .. Len(aTasks) : aTasks'[n] = aTasks[m]
    BY <1>7
  <2>3. Operation(c, <<>>, Tail(todo[c]))
    BY <1>0, <1>1, <1>2, <1>5, <1>7, <2>1, <2>2 DEF Operation
  <2> QED BY <2>3
<1>8. CASE UNCHANGED aTasks /\ Proceed(c, TaskInfo(t) \o Tail(todo[c]))
  <2>1. Replaces(c, TaskInfo(t), TaskInfo(t) \o Tail(todo[c]))
    BY <1>0, <1>1, <1>3, <1>8, InfoReplaces
  <2>2. \A n \in 1 .. Len(aTasks') : \E m \in 1 .. Len(aTasks) : aTasks'[n] = aTasks[m]
    BY <1>8
  <2>3. Operation(c, TaskInfo(t), TaskInfo(t) \o Tail(todo[c]))
    BY <1>0, <1>1, <1>2, <1>5, <1>8, <2>1, <2>2 DEF Operation
  <2> QED BY <2>3
<1>9. CASE /\ t \notin IdleTask /\ AddTask(c, t)
           /\ Head(todo[c]).k = "UPDATE" => ~(Position(t) <= Len(aTasks))
  <2>1. \A n \in 1 .. Len(aTasks) : aTasks[n] # t
    <3>1. CASE todo[c][1].k = "ADD"
      BY <1>4, <3>1 DEF ListOK
    <3>2. CASE todo[c][1].k = "UPDATE"
      <4>1. ~(Position(t) <= Len(aTasks))
        BY <1>1, <1>9, <3>2
      <4>2. \A m, n \in 1 .. Len(aTasks) : aTasks[m] = aTasks[n] => m = n
        BY <1>5 DEF ListOK
      <4>3. \/ Position(t) \in 1 .. Len(aTasks)
            \/ \A n \in 1 .. Len(aTasks) : aTasks[n] # t
        BY <1>1, <4>2, PositionIs
      <4> QED BY <1>6, <4>1, <4>3
    <3> QED BY <1>2, <3>1, <3>2
  <2>2. /\ aTasks' \in Seq(Task) /\ ListOK({}, aTasks', live)
        /\ \/ /\ aTasks' = aTasks
              /\ Replaces(c, <<It("EVENT")>>, <<It("EVENT")>> \o Tail(todo[c]))
           \/ /\ Len(aTasks') = Len(aTasks) + 1 /\ aTasks'[Len(aTasks) + 1] = t
              /\ \A n \in 1 .. Len(aTasks) : aTasks'[n] = aTasks[n]
              /\ Replaces(c, TaskInfo(t), TaskInfo(t) \o Tail(todo[c]))
    BY <1>0, <1>2, <1>9, <2>1, AddDoes
  <2>3. CASE /\ aTasks' = aTasks
             /\ Replaces(c, <<It("EVENT")>>, <<It("EVENT")>> \o Tail(todo[c]))
    <3>1. \A n \in 1 .. Len(aTasks') : \E m \in 1 .. Len(aTasks) : aTasks'[n] = aTasks[m]
      BY <2>3
    <3>2. Operation(c, <<It("EVENT")>>, <<It("EVENT")>> \o Tail(todo[c]))
      BY <1>0, <1>2, <2>2, <2>3, <3>1 DEF Operation
    <3> QED BY <3>2
  <2>4. CASE /\ Len(aTasks') = Len(aTasks) + 1 /\ aTasks'[Len(aTasks) + 1] = t
             /\ \A n \in 1 .. Len(aTasks) : aTasks'[n] = aTasks[n]
             /\ Replaces(c, TaskInfo(t), TaskInfo(t) \o Tail(todo[c]))
    <3>1. Len(TaskInfo(t)) = 2 /\ TaskInfo(t)[1].k = "TASK_INFO" /\ TaskInfo(t)[1].t = t
      BY <1>3, PrefixTaskInfo
    <3>2. ASSUME NEW n \in 1 .. Len(aTasks')
          PROVE  \/ \E m \in 1 .. Len(aTasks) : aTasks'[n] = aTasks[m]
                 \/ \E i \in 1 .. Len(TaskInfo(t)) :
                      TaskInfo(t)[i].k = "TASK_INFO" /\ TaskInfo(t)[i].t = aTasks'[n]
      <4>1. CASE n \in 1 .. Len(aTasks)
        BY <2>4, <4>1
      <4>2. CASE n = Len(aTasks) + 1
        BY <2>4, <3>1, <4>2
      <4> QED BY <1>6, <2>4, <4>1, <4>2
    <3>3. Operation(c, TaskInfo(t), TaskInfo(t) \o Tail(todo[c]))
      BY <1>0, <1>2, <2>2, <2>4, <3>2 DEF Operation
    <3> QED BY <3>3
  <2> QED BY <2>2, <2>3, <2>4
<1> QED
  BY <1>0, <1>7, <1>8, <1>9

\* SYSVIEW_DeleteTask: nothing is new in the list.
LEMMA DeleteIs ==
  ASSUME RecInv, NEW c \in Ctx, SYSVIEW_DeleteTask(c)
  PROVE  \E pre, r : Operation(c, pre, r)
<1> DEFINE t == Head(todo[c]).t
<1>0. /\ pc[c] = "next" /\ Head(todo[c]).k = "DELETE" /\ aTasks' = Deleted(t)
      /\ Proceed(c, Tail(todo[c]))
      /\ UNCHANGED <<globals, live, channel, now, overlap, stream>>
  BY DEF SYSVIEW_DeleteTask, Next_
<1>1. /\ CtlInv /\ ListInv /\ aTasks \in Seq(Task) /\ todo[c] # <<>> /\ Head(todo[c]) = todo[c][1]
  BY <1>0, HeadIs DEF RecInv, ListType
<1>2. todo[c][1].k \in KernelOp /\ todo[c][1].k = "DELETE" /\ t = todo[c][1].t
  BY <1>0, <1>1 DEF KernelOp
<1>3. Ops = {<<c, "DELETE", t>>}
  BY <1>1, <1>2, OpIs
<1> HIDE DEF t
<1>4. /\ Deleted(t) \in Seq(Task)
      /\ \A n \in 1 .. Len(Deleted(t)) : \E m \in 1 .. Len(aTasks) : Deleted(t)[n] = aTasks[m]
      /\ ListOK({}, Deleted(t), live)
  BY <1>1, <1>3, ListShrinks DEF ListInv
<1>5. Replaces(c, <<>>, Tail(todo[c]))
  BY <1>0, <1>1, DropReplaces
<1>6. Operation(c, <<>>, Tail(todo[c]))
  BY <1>0, <1>2, <1>4, <1>5 DEF Operation
<1> QED BY <1>6

\* SYSVIEW_AddTask, SYSVIEW_UpdateTask, SYSVIEW_DeleteTask.
LEMMA OperationsRec ==
  ASSUME RecInv, NEW c \in Ctx, lock[CoreOf[c]] \in {None, c},
         SYSVIEW_AddTask(c) \/ SYSVIEW_UpdateTask(c) \/ SYSVIEW_DeleteTask(c)
  PROVE  RecInv'
<1>1. PICK pre, r : Operation(c, pre, r)
  BY AddIs, DeleteIs
<1> QED
  BY <1>1, OperationRec DEF Operation

\* A call: an event first, and maybe an operation of the kernel.
LEMMA CallCtl ==
  ASSUME RecInv, NEW c \in Ctx, NEW items, WellFormed(items), items # <<>>,
         items[1].k = "EVENT", Call(c, items)
  PROVE  /\ CtlType' /\ CtlInv'
         /\ pc[c] = "idle" /\ todo[c] = <<>> /\ todo'[c] = items
         /\ pc'[c] = IF EnableState = 0 THEN "done"
                     ELSE IF EnableState = 2 THEN "overflow" ELSE "send"
         /\ \A d \in Ctx \ {c} : todo'[d] = todo[d] /\ pc'[d] = pc[d]
         /\ lock[CoreOf[c]] = None
         /\ overlap' = (overlap \/ OtherCore(c))
<1>1. /\ pc[c] = "idle" /\ lock[CoreOf[c]] = None /\ Enter(c, items)
      /\ overlap' = (overlap \/ OtherCore(c))
  BY DEF Call
<1>2. CtlType /\ CtlInv
  BY DEF RecInv
<1>3. items[1].k \in Packet \ {"SYNC"}
  BY DEF Packet
<1>4. CtlType' /\ CtlInv'
  BY <1>1, <1>2, <1>3, EnterCtl
<1>5. todo[c] = <<>>
  BY <1>1, <1>2 DEF CtlInv
<1>6. /\ todo'[c] = items
      /\ pc'[c] = IF EnableState = 0 THEN "done"
                  ELSE IF EnableState = 2 THEN "overflow" ELSE "send"
      /\ \A d \in Ctx \ {c} : todo'[d] = todo[d] /\ pc'[d] = pc[d]
  BY <1>1, <1>2 DEF Enter, CtlType
<1> QED BY <1>1, <1>4, <1>5, <1>6

\* A call changes nothing of the recorder's own variables.
LEMMA CallRest ==
  ASSUME RestInv, UNCHANGED <<globals, channel, now, stream>>, overlap' \in BOOLEAN
  PROVE  RestInv'
BY OtherRest DEF RestInv, globals, channel

\* An idle context has no operation.
LEMMA NothingHas ==
  \A k, t : ~Has(<<>>, k, t)
BY DEF Has

\* One event.
LEMMA RecordRec ==
  ASSUME RecInv, NEW c \in Ctx, Record(c)
  PROVE  RecInv'
<1> DEFINE items == <<It("EVENT")>>
<1>1. Call(c, items) /\ UNCHANGED <<globals, tasks, channel, now, stream>>
  BY DEF Record
<1>2. /\ WellFormed(items) /\ items # <<>> /\ items[1].k = "EVENT"
      /\ \A j \in KernelOp, u \in Task : ~Has(items, j, u)
  BY EventStarts
<1> HIDE DEF items
<1>3. /\ CtlType' /\ CtlInv' /\ todo[c] = <<>> /\ todo'[c] = items
      /\ \A d \in Ctx \ {c} : todo'[d] = todo[d]
      /\ overlap' = (overlap \/ OtherCore(c))
  BY <1>1, <1>2, CallCtl
<1>4. \A d \in Ctx, k \in KernelOp, t \in Task : Has(todo'[d], k, t) <=> Has(todo[d], k, t)
  BY <1>2, <1>3, NothingHas
<1>5. Ops' = Ops
  BY <1>4, SameOps
<1>6. ListType' /\ ListInv'
  BY <1>1, <1>5, ListKept DEF RecInv, tasks
<1>7. overlap' \in BOOLEAN
  BY <1>3, Zenon
<1>8. RestInv'
  BY <1>1, <1>7, CallRest DEF RecInv
<1> QED BY <1>3, <1>6, <1>8 DEF RecInv

\* An operation of the kernel.
LEMMA KernelRec ==
  ASSUME RecInv, NEW c \in Ctx, NEW k \in KernelOp, NEW t \in Task, ~InKernel,
         Call(c, <<It("EVENT"), ItT(k, t)>>),
         UNCHANGED <<globals, aTasks, channel, now, stream>>,
         live' \subseteq Task,
         ListOK({}, aTasks, live) => ListOK({<<c, k, t>>}, aTasks, live')
  PROVE  RecInv'
<1> DEFINE items == <<It("EVENT"), ItT(k, t)>>
<1>1. Call(c, items)
  OBVIOUS
<1>2. /\ WellFormed(items) /\ items # <<>> /\ items[1].k = "EVENT"
      /\ \A j, u : Has(items, j, u) /\ j \in KernelOp <=> j = k /\ u = t
  BY OpStarts
<1> HIDE DEF items
<1>3. /\ CtlType' /\ CtlInv' /\ todo[c] = <<>> /\ todo'[c] = items
      /\ \A d \in Ctx \ {c} : todo'[d] = todo[d]
      /\ overlap' = (overlap \/ OtherCore(c))
  BY <1>1, <1>2, CallCtl
<1>4. Ops = {}
  BY KernelIs DEF RecInv
<1>5. <<c, k, t>> \in Ops'
  <2>1. Has(todo'[c], k, t)
    BY <1>2, <1>3
  <2> QED BY <2>1 DEF Ops
<1>6. ASSUME NEW o \in Ops' PROVE o = <<c, k, t>>
  <2>1. /\ o \in Ctx \X KernelOp \X Task /\ Has(todo'[o[1]], o[2], o[3])
    BY <1>6 DEF Ops
  <2>2. o[1] = c
    <3> SUFFICES ASSUME o[1] # c PROVE FALSE
      OBVIOUS
    <3>1. Has(todo[o[1]], o[2], o[3])
      BY <1>3, <2>1
    <3>2. o \in Ops
      BY <2>1, <3>1 DEF Ops
    <3> QED BY <1>4, <3>2
  <2>3. o[2] = k /\ o[3] = t
    BY <1>2, <1>3, <2>1, <2>2
  <2> QED BY <2>1, <2>2, <2>3
<1>7. Ops' = {<<c, k, t>>}
  BY <1>5, <1>6
<1>8. ListType' /\ ListInv'
  BY <1>4, <1>7 DEF RecInv, ListType, ListInv
<1>9. overlap' \in BOOLEAN
  BY <1>3, Zenon
<1>10. RestInv'
  BY <1>9, CallRest DEF RecInv
<1> QED BY <1>3, <1>8, <1>10 DEF RecInv

\* traceTASK_CREATE, traceTASK_PRIORITY_SET, traceTASK_DELETE.
LEMMA KernelCallRec ==
  ASSUME RecInv, NEW c \in KernelCtx, NEW t \in Task,
         traceTASK_CREATE(c, t) \/ traceTASK_PRIORITY_SET(c, t) \/ traceTASK_DELETE(c, t)
  PROVE  RecInv'
<1>0. c \in Ctx /\ live \subseteq Task
  BY SysViewAssumption DEF RecInv, ListType
<1>1. CASE traceTASK_CREATE(c, t)
  <2>1. /\ ~InKernel /\ t \notin live /\ live' = live \cup {t}
        /\ Call(c, <<It("EVENT"), ItT("ADD", t)>>)
        /\ UNCHANGED <<globals, aTasks, channel, now, stream>>
    BY <1>1 DEF traceTASK_CREATE
  <2>2. ListOK({}, aTasks, live) => ListOK({<<c, "ADD", t>>}, aTasks, live')
    BY <2>1, ListStarts
  <2>3. "ADD" \in KernelOp /\ live' \subseteq Task
    BY <1>0, <2>1 DEF KernelOp
  <2> QED BY <1>0, <2>1, <2>2, <2>3, KernelRec
<1>2. CASE traceTASK_PRIORITY_SET(c, t)
  <2>1. /\ ~InKernel /\ t \in live /\ UNCHANGED <<aTasks, live>>
        /\ Call(c, <<It("EVENT"), ItT("UPDATE", t)>>)
        /\ UNCHANGED <<globals, aTasks, channel, now, stream>>
    BY <1>2 DEF traceTASK_PRIORITY_SET, tasks
  <2>2. ListOK({}, aTasks, live) => ListOK({<<c, "UPDATE", t>>}, aTasks, live')
    BY <2>1, ListStarts
  <2>3. "UPDATE" \in KernelOp /\ live' \subseteq Task
    BY <1>0, <2>1 DEF KernelOp
  <2> QED BY <1>0, <2>1, <2>2, <2>3, KernelRec
<1>3. CASE traceTASK_DELETE(c, t)
  <2>1. /\ ~InKernel /\ t \in live /\ live' = live \ {t}
        /\ Call(c, <<It("EVENT"), ItT("DELETE", t)>>)
        /\ UNCHANGED <<globals, aTasks, channel, now, stream>>
    BY <1>3 DEF traceTASK_DELETE
  <2>2. ListOK({}, aTasks, live) => ListOK({<<c, "DELETE", t>>}, aTasks, live')
    BY <2>1, ListStarts
  <2>3. "DELETE" \in KernelOp /\ live' \subseteq Task
    BY <1>0, <2>1 DEF KernelOp
  <2> QED BY <1>0, <2>1, <2>2, <2>3, KernelRec
<1> QED BY <1>1, <1>2, <1>3

\* Steps that leave the contexts and the list alone.
LEMMA UnchangedRec ==
  ASSUME RecInv, UNCHANGED <<tasks, lock, pc, todo>>, RestInv'
  PROVE  RecInv'
<1>1. Ops' = Ops
  BY DEF Ops
<1>2. ListType' /\ ListInv'
  BY <1>1, ListKept DEF RecInv, tasks
<1>3. CtlType' /\ CtlInv'
  BY DEF RecInv, CtlType, CtlInv, InHandler
<1> QED BY <1>2, <1>3 DEF RecInv

\* The host, and the mask of events.
LEMMA HostRec ==
  ASSUME RecInv, MaskEvents \/ HostReads \/ \E cmd \in Command : HostSends(cmd)
  PROVE  RecInv'
<1>0. RestInv
  BY DEF RecInv
<1>1. CASE MaskEvents
  <2>1. UNCHANGED <<EnableState, LastTxTimeStamp, RecursionCnt, tasks, channel, now, lock,
                    pc, todo, overlap, stream>>
    BY <1>1 DEF MaskEvents
  <2>2. DisabledEvents' \subseteq {"EVENT"}
    BY <1>1 DEF MaskEvents
  <2>3. UNCHANGED <<clock, told, gap, unmarked, clean>>
    BY <2>1 DEF stream
  <2>4. /\ overlap' \in BOOLEAN /\ gap' \in BOOLEAN /\ unmarked' \in BOOLEAN
        /\ clean' \in BOOLEAN
    BY <1>0, <2>1, <2>3, FlagsWere, Zenon
  <2>5. Flags'
    BY <2>4, FlagsAre
  <2>6. RestInv'
    BY <1>0, <2>1, <2>2, <2>3, <2>5 DEF RestInv, channel
  <2> QED BY <2>1, <2>6, UnchangedRec
<1>2. CASE HostReads
  <2>1. /\ used > 0 /\ used' = used - 1
        /\ UNCHANGED <<globals, tasks, down, sent, now, lock, pc, todo, overlap, stream>>
    BY <1>2 DEF HostReads
  <2>2. used' \in 0 .. Capacity
    BY <1>0, <2>1, SysViewAssumption DEF RestInv
  <2>3. overlap' \in BOOLEAN
    BY <1>0, <2>1, FlagsWere, Zenon
  <2>4. RestInv'
    BY <1>0, <2>1, <2>2, <2>3, OtherRest DEF RestInv, globals
  <2> QED BY <2>1, <2>4, UnchangedRec
<1>3. ASSUME NEW cmd \in Command, HostSends(cmd) PROVE RecInv'
  <2>1. /\ sent < MaxCmds /\ sent' = sent + 1
        /\ UNCHANGED <<globals, tasks, used, now, lock, pc, todo, overlap, stream>>
    BY <1>3 DEF HostSends
  <2>2. PICK par \in Parameter :
           down' = down \o <<cmd>> \o (IF HasParameter(cmd) THEN <<par>> ELSE <<>>)
    BY <1>3 DEF HostSends
  <2> DEFINE S == Command \cup Parameter
             a == <<cmd>>
             b == IF HasParameter(cmd) THEN <<par>> ELSE <<>>
  <2>3. a \in Seq(S) /\ b \in Seq(S) /\ down \in Seq(S)
    <3>1. <<cmd>> \in Seq(S) /\ <<par>> \in Seq(S) /\ <<>> \in Seq(S)
      BY EmptySeq
    <3> QED BY <1>0, <3>1 DEF RestInv
  <2>4. down' = down \o a \o b
    BY <2>2
  <2> HIDE DEF S, a, b
  <2>5. down \o a \in Seq(S)
    BY <2>3, ConcatProperties
  <2>6. down' \in Seq(S)
    BY <2>3, <2>4, <2>5, ConcatProperties
  <2>7. sent' \in 0 .. MaxCmds
    BY <1>0, <2>1, SysViewAssumption DEF RestInv
  <2>8. overlap' \in BOOLEAN
    BY <1>0, <2>1, FlagsWere, Zenon
  <2>9. RestInv'
    BY <1>0, <2>1, <2>6, <2>7, <2>8, OtherRest DEF RestInv, globals, S
  <2> QED BY <2>1, <2>9, UnchangedRec
<1> QED BY <1>1, <1>2, <1>3

-----------------------------------------------------------------------------
(* The first two theorems *)

\* SEGGER_SYSVIEW_Init establishes the invariant.
LEMMA InitRec == Init => RecInv
<1> SUFFICES ASSUME Init PROVE RecInv
  OBVIOUS
<1>1. /\ aTasks = <<>> /\ todo = [c \in Ctx |-> <<>>] /\ pc = [c \in Ctx |-> "idle"]
      /\ lock = [k \in Core |-> None] /\ live = {}
  BY DEF Init
<1>2. <<>> \in Seq(Item) /\ <<>> \in Seq(Task) /\ Len(<<>>) = 0 /\ DOMAIN <<>> = {}
  BY EmptySeq
<1>3. CtlType
  BY <1>1, <1>2 DEF CtlType
<1>4. WellFormed(<<>>)
  BY <1>2 DEF WellFormed
<1>5. CtlInv
  BY <1>1, <1>2, <1>4 DEF CtlInv, InHandler, Busy
<1>6. Ops = {}
  BY <1>1, <1>2, NothingHas DEF Ops
<1>7. ListType /\ ListInv
  BY <1>1, <1>2, <1>6, SysViewAssumption DEF ListType, ListInv, ListOK
<1>8. Flags
  BY DEF Init, Flags
<1>9. down \in Seq(Command \cup Parameter)
  BY EmptySeq DEF Init
<1>10. RestInv
  BY <1>8, <1>9, SysViewAssumption DEF Init, RestInv
<1> QED BY <1>3, <1>5, <1>7, <1>10 DEF RecInv

\* Every step of a context keeps it.
LEMMA StepRec ==
  ASSUME RecInv, NEW c \in Ctx, Step(c)
  PROVE  RecInv'
BY InsideRec, DoneRec, NextRec, EndsRec, TasksRec, OperationsRec DEF Step

\* Every step keeps it.
LEMMA NextKeepsRec == RecInv /\ [Next]_vars => RecInv'
<1> SUFFICES ASSUME RecInv, [Next]_vars PROVE RecInv'
  OBVIOUS
<1>1. CASE Next
  BY <1>1, StepRec, RecordRec, KernelCallRec, HostRec DEF Next
<1>2. CASE UNCHANGED vars
  <2>1. UNCHANGED <<globals, tasks, channel, now, lock, pc, todo, overlap, stream>>
    BY <1>2 DEF vars
  <2>2. RestInv'
    BY <2>1, QuietRest DEF RecInv
  <2> QED BY <2>1, <2>2, UnchangedRec
<1> QED BY <1>1, <1>2

\* What the invariant says of the types.
LEMMA RecTypes == RecInv => TypeOK
<1> SUFFICES ASSUME RecInv PROVE TypeOK
  OBVIOUS
<1>1. DisabledEvents \subseteq Packet
  BY DEF RecInv, RestInv, Packet
<1>2. \A b \in {overlap, gap, unmarked, clean} : b \in BOOLEAN
  BY DEF RecInv, RestInv, Flags
<1> QED BY <1>1, <1>2 DEF RecInv, RestInv, CtlType, ListType, TypeOK

\* ... and of the list, between two operations.
LEMMA RecList == RecInv => ListExact
<1> SUFFICES ASSUME RecInv, ~InKernel PROVE ListExact
  BY DEF ListExact
<1>1. Ops = {} /\ DOMAIN aTasks = 1 .. Len(aTasks)
  BY KernelIs, LenProperties DEF RecInv, ListType
<1>2. ListOK({}, aTasks, live)
  BY <1>1 DEF RecInv, ListInv
<1> QED BY <1>1, <1>2 DEF ListOK, ListExact

\* For any number of contexts on any number of cores, also while they are
\* inside the recorder at once, the channel is never filled past its capacity,
\* and between two operations of the kernel the list of SYSVIEW_AddTask,
\* SYSVIEW_UpdateTask and SYSVIEW_DeleteTask holds no task twice, no IDLE task
\* and none that is gone.
THEOREM RecorderIsSound == Spec => []RecorderSound
<1>1. RecInv => RecorderSound
  BY RecTypes, RecList DEF RecorderSound
<1> QED
  BY InitRec, NextKeepsRec, <1>1, PTL DEF Spec

\* While no two cores are inside at once, the time the host computes from the
\* deltas of the packets _SendPacket has stored is the time stamp of the last
\* of them, whatever was lost or masked in between.
THEOREM ClockIsExact == Spec => []ClockExact
<1>1. RecInv => ClockExact
  BY DEF RecInv, RestInv, ClockExact
<1> QED
  BY InitRec, NextKeepsRec, <1>1, PTL DEF Spec

-----------------------------------------------------------------------------
(* One core at a time *)

\* A context that waits between two packets and has no part of a command left.
Quiet(p, s) ==
  /\ p \in {"idle", "next"} /\ ~Starting(p, s)
  /\ \A i \in 1 .. Len(s) : s[i].k # "TASKS"

Alone(c) == \A d \in Ctx \ {c} : Quiet(pc[d], todo[d])

\* A context with the lock of its core, or one that finds it free, is alone,
\* if the others that are inside are on its core: none of them has the lock.
LEMMA AloneIs ==
  ASSUME CtlInv, CtlType, NEW c \in Ctx, lock[CoreOf[c]] \in {None, c},
         \A d \in Ctx \ {c} : pc[d] # "idle" => CoreOf[d] = CoreOf[c]
  PROVE  Alone(c)
<1> SUFFICES ASSUME NEW d \in Ctx \ {c} PROVE Quiet(pc[d], todo[d])
  BY DEF Alone
<1>0. /\ WellFormed(todo[d]) /\ todo[d] \in Seq(Item) /\ d # None
      /\ DOMAIN todo[d] = 1 .. Len(todo[d]) /\ Len(todo[d]) \in Nat
  BY Cores, LenProperties DEF CtlInv, WellFormed
<1>1. CASE pc[d] = "idle"
  <2>1. todo[d] = <<>> /\ Len(todo[d]) = 0
    BY <1>1, EmptySeq DEF CtlInv
  <2> QED BY <1>1, <2>1 DEF Quiet, Starting
<1>2. CASE pc[d] # "idle"
  <2>1. lock[CoreOf[d]] # d
    BY <1>0, <1>2
  <2>2. pc[d] \notin Busy /\ ~InHandler(todo[d])
    BY <2>1 DEF CtlInv
  <2>3. pc[d] = "next"
    BY <1>2, <2>2 DEF CtlType, Busy
  <2>4. \A i \in 1 .. Len(todo[d]) : todo[d][i].k # "END"
    BY <1>0, <2>2 DEF InHandler
  <2>5. ASSUME NEW i \in 1 .. Len(todo[d]), todo[d][i].k = "TASKS" PROVE FALSE
    <3>1. PICK j \in i + 1 .. Len(todo[d]) : todo[d][j].k = "END"
      BY <1>0, <2>5 DEF WellFormed
    <3>2. j \in 1 .. Len(todo[d])
      BY <1>0
    <3> QED BY <2>4, <3>1, <3>2
  <2>6. ASSUME NEW i \in 1 .. Len(todo[d]), todo[d][i].k = "TRACE_START" PROVE FALSE
    <3>1. i + 2 <= Len(todo[d]) /\ todo[d][i + 2].k = "TASKS"
      BY <1>0, <2>6 DEF WellFormed
    <3>2. i + 2 \in 1 .. Len(todo[d])
      BY <1>0, <3>1
    <3> QED BY <2>5, <3>1, <3>2
  <2>7. ASSUME NEW i \in 1 .. Len(todo[d]), todo[d][i].k = "SYNC" PROVE FALSE
    <3>1. i < Len(todo[d]) /\ todo[d][i + 1].k = "TRACE_START"
      BY <1>0, <2>7 DEF WellFormed
    <3>2. i + 1 \in 1 .. Len(todo[d])
      BY <1>0, <3>1
    <3> QED BY <2>6, <3>1, <3>2
  <2>8. ~Starting(pc[d], todo[d])
    <3> SUFFICES ASSUME Starting(pc[d], todo[d]) PROVE FALSE
      OBVIOUS
    <3>1. todo[d] # <<>> /\ todo[d][1].k \in {"SYNC", "TRACE_START"}
      BY DEF Starting
    <3>2. 1 \in 1 .. Len(todo[d])
      BY <1>0, <3>1, EmptySeq
    <3> QED BY <2>6, <2>7, <3>1, <3>2
  <2> QED BY <2>3, <2>5, <2>8 DEF Quiet
<1> QED BY <1>1, <1>2

\* In particular a context that takes a step of a call is alone.
LEMMA StepAlone ==
  ASSUME RecInv, StateInv, NEW c \in Ctx, lock[CoreOf[c]] \in {None, c}, pc[c] # "idle"
  PROVE  Alone(c)
<1>1. \A d \in Ctx \ {c} : pc[d] # "idle" => CoreOf[d] = CoreOf[c]
  BY DEF StateInv
<1> QED BY <1>1, AloneIs DEF RecInv

\* So what the invariant promises of some context it promises of this one.
LEMMA MarkOnly ==
  ASSUME NEW c \in Ctx, Alone(c), MarkInv, gap, EnableState = 1
  PROVE  Starting(pc[c], todo[c])
BY DEF Alone, MarkInv, Quiet

\* An entry of the list that the host knows, or c or another is about to send.
Known(t, n, c, p, s) ==
  \/ t \in told
  \/ Owes(p, s, t, n)
  \/ \E d \in Ctx \ {c} : Owes(pc[d], todo[d], t, n)

\* ... also of the entries of the list.
LEMMA ToldOnly ==
  ASSUME NEW c \in Ctx, Alone(c), ToldInv, ~Starting(pc[c], todo[c]), clean, EnableState = 1
  PROVE  \A n \in 1 .. Len(aTasks) : Known(aTasks[n], n, c, pc[c], todo[c])
<1>1. ~(\E d \in Ctx : Starting(pc[d], todo[d]))
  BY DEF Alone, Quiet
<1>2. \A n \in 1 .. Len(aTasks) :
         aTasks[n] \in told \/ \E d \in Ctx : Owes(pc[d], todo[d], aTasks[n], n)
  BY <1>1 DEF ToldInv
<1> QED BY <1>2 DEF Known

\* What another context owes does not depend on the place in the list.
LEMMA OthersOwe ==
  ASSUME NEW c \in Ctx, Alone(c), NEW d \in Ctx \ {c}, NEW t, NEW m, NEW n,
         Owes(pc[d], todo[d], t, m)
  PROVE  Owes(pc[d], todo[d], t, n)
BY DEF Alone, Quiet, Owes

\* The parts of the invariant after a step of c.
LEMMA StateKept ==
  ASSUME StateInv, NEW c \in Ctx, Alone(c), EnableState' \in {0, 1, 2},
         pc'[c] = "send" => EnableState' = 1, pc'[c] = "overflow" => EnableState' = 2,
         \A d \in Ctx \ {c} : pc'[d] = pc[d],
         \A d \in Ctx \ {c} : pc[d] # "idle" => CoreOf[d] = CoreOf[c]
  PROVE  StateInv'
<1>1. \A d \in Ctx \ {c} : pc'[d] \in {"idle", "next"}
  BY DEF Alone, Quiet
<1>2. \A d \in Ctx : (pc'[d] = "send" => EnableState' = 1) /\ (pc'[d] = "overflow" => EnableState' = 2)
  BY <1>1
<1>3. \A d, e \in Ctx : pc'[d] # "idle" /\ pc'[e] # "idle" => CoreOf[d] = CoreOf[e]
  <2> SUFFICES ASSUME NEW d \in Ctx, NEW e \in Ctx, pc'[d] # "idle", pc'[e] # "idle"
               PROVE  CoreOf[d] = CoreOf[e]
    OBVIOUS
  <2>1. CoreOf[d] = CoreOf[c] /\ CoreOf[e] = CoreOf[c]
    OBVIOUS
  <2> QED BY <2>1
<1> QED BY <1>2, <1>3 DEF StateInv

\* A step that stores and loses nothing.
LEMMA ProceedSolo ==
  ASSUME RecInv, StateInv, MarkInv, ToldInv, NEW c \in Ctx, lock[CoreOf[c]] \in {None, c},
         pc[c] # "idle", Alone(c), NEW pre, NEW r, Replaces(c, pre, r), UNCHANGED stream,
         EnableState' \in {0, 1, 2}, EnableState' = 2 => EnableState = 2,
         EnableState' = 1 =>
           \/ Starting(pc'[c], r)
           \/ /\ EnableState = 1 /\ ~Starting(pc[c], todo[c])
              /\ clean => \A n \in 1 .. Len(aTasks') : Known(aTasks'[n], n, c, pc'[c], r)
  PROVE  StateInv' /\ MarkInv' /\ ToldInv'
<1>1. /\ todo'[c] = r /\ pc'[c] \in {"idle", "next"}
      /\ \A d \in Ctx \ {c} : todo'[d] = todo[d] /\ pc'[d] = pc[d]
  BY ReplaceStep DEF RecInv
<1>2. gap' = gap /\ unmarked' = unmarked /\ clean' = clean /\ told' = told
  BY DEF stream
<1>3. StateInv'
  <2>1. \A d \in Ctx \ {c} : pc[d] # "idle" => CoreOf[d] = CoreOf[c]
    BY DEF StateInv
  <2> QED BY <1>1, <2>1, StateKept
<1>4. MarkInv'
  <2>1. ~unmarked'
    BY <1>2, Zenon DEF MarkInv
  <2>2. ASSUME gap', EnableState' = 1 PROVE \E d \in Ctx : Starting(pc'[d], todo'[d])
    <3>1. gap
      BY <1>2, <2>2, Zenon
    <3>2. Starting(pc'[c], r)
      BY <2>2, <3>1, MarkOnly
    <3> QED BY <1>1, <3>2
  <2> QED BY <2>1, <2>2 DEF MarkInv
<1>5. ToldInv'
  <2>1. ASSUME EnableState' = 2 PROVE ~clean'
    <3>1. ~clean
      BY <2>1 DEF ToldInv
    <3> QED BY <1>2, <3>1, Zenon
  <2>2. ASSUME clean', EnableState' = 1, ~(\E d \in Ctx : Starting(pc'[d], todo'[d])),
               NEW n \in 1 .. Len(aTasks')
        PROVE  aTasks'[n] \in told' \/ \E d \in Ctx : Owes(pc'[d], todo'[d], aTasks'[n], n)
    <3>1. clean
      BY <1>2, <2>2, Zenon
    <3>2. ~Starting(pc'[c], r)
      BY <1>1, <2>2
    <3>3. Known(aTasks'[n], n, c, pc'[c], r)
      BY <2>2, <3>1, <3>2
    <3> QED BY <1>1, <1>2, <3>3 DEF Known
  <2> QED BY <2>1, <2>2 DEF ToldInv
<1> QED BY <1>3, <1>4, <1>5

\* The list stays, and the first item owed nothing or was sent.
LEMMA CarryPlain ==
  ASSUME NEW c \in Ctx, Alone(c), ToldInv, ~Starting(pc[c], todo[c]), clean, EnableState = 1,
         NEW pre, NEW r, Replaces(c, pre, r), NEW q, q # "done", aTasks' = aTasks,
         pc[c] = "done" \/ todo[c][1].k \notin {"TASK_INFO", "TASKS"}
  PROVE  \A n \in 1 .. Len(aTasks') : Known(aTasks'[n], n, c, q, r)
<1> SUFFICES ASSUME NEW n \in 1 .. Len(aTasks) PROVE Known(aTasks[n], n, c, q, r)
  OBVIOUS
<1>1. Known(aTasks[n], n, c, pc[c], todo[c])
  BY ToldOnly
<1>2. From(r, pre, todo[c])
  BY DEF Replaces
<1>3. ASSUME Owes(pc[c], todo[c], aTasks[n], n) PROVE Owes(q, r, aTasks[n], n)
  <2>1. CASE pc[c] = "done"
    <3>1. Owes("done", todo[c], aTasks[n], n)
      BY <1>3, <2>1
    <3> QED BY <1>2, <3>1, KeepsOwes
  <2>2. CASE todo[c][1].k \notin {"TASK_INFO", "TASKS"}
    BY <1>2, <1>3, <2>2, KeepsOwes
  <2> QED BY <2>1, <2>2
<1> QED BY <1>1, <1>3 DEF Known

-----------------------------------------------------------------------------
(* Every step keeps SoloInv *)

Solo == StateInv /\ MarkInv /\ ToldInv

\* What a stored packet does to the stream.
LEMMA StoreSays ==
  ASSUME NEW k, NEW t, NEW ts, Store(k, t, ts)
  PROVE  /\ ~gap'
         /\ unmarked' <=> unmarked \/ (gap /\ k \notin {"OVERFLOW", "TRACE_START"})
         /\ clean' <=> clean \/ k = "TRACE_START"
         /\ k # "TRACE_START" => told \subseteq told'
         /\ k = "TASK_INFO" => t \in told'
<1>1. ~gap'
  BY Zenon DEF Store
<1>2. unmarked' <=> unmarked \/ (gap /\ k \notin {"OVERFLOW", "TRACE_START"})
  BY Zenon DEF Store
<1>3. clean' <=> clean \/ k = "TRACE_START"
  BY Zenon DEF Store
<1>4. told' = (IF k = "TRACE_START" THEN {} ELSE told) \cup (IF k = "TASK_INFO" THEN {t} ELSE {})
  BY DEF Store
<1> QED BY <1>1, <1>2, <1>3, <1>4

\* ... and a lost one.
LEMMA LoseSays ==
  ASSUME Lose
  PROVE  ~clean' /\ (unmarked' <=> unmarked)
BY Zenon DEF Lose

\* The overflow packet goes first.
LEMMA OverflowSolo ==
  ASSUME RecInv, Solo, NEW c \in Ctx, lock[CoreOf[c]] \in {None, c}, _TrySendOverflowPacket(c)
  PROVE  Solo'
<1>0. pc[c] = "overflow" /\ EnableState = 2 /\ StateInv /\ MarkInv /\ ToldInv
  BY DEF _TrySendOverflowPacket, Solo, StateInv
<1>1. Alone(c)
  BY <1>0, StepAlone
<1>2. \A d \in Ctx \ {c} : pc[d] # "idle" => CoreOf[d] = CoreOf[c]
  BY <1>0 DEF StateInv
<1>3. /\ pc' = [pc EXCEPT ![c] = IF EnableState' = 1 THEN "send" ELSE "done"]
      /\ pc \in [Ctx -> {"idle", "next", "overflow", "send", "done"}]
  BY DEF _TrySendOverflowPacket, RecInv, CtlType
<1>4. /\ pc'[c] = IF EnableState' = 1 THEN "send" ELSE "done"
      /\ \A d \in Ctx \ {c} : pc'[d] = pc[d]
  BY <1>3
<1>5. ~clean /\ ~unmarked
  BY <1>0 DEF MarkInv, ToldInv
<1>6. \/ /\ EnableState' = 1 /\ ~gap' /\ ~unmarked' /\ ~clean'
      \/ /\ EnableState' = 2 /\ ~unmarked' /\ ~clean'
  <2>1. PICK ts \in 0 .. Word - 1 :
          IF Fits("OVERFLOW")
          THEN Store("OVERFLOW", None, ts) /\ EnableState' = (EnableState + U8 - 1) % U8
          ELSE Lose /\ UNCHANGED <<used, LastTxTimeStamp, EnableState>>
    BY DEF _TrySendOverflowPacket
  <2>2. CASE Fits("OVERFLOW")
    <3>1. Store("OVERFLOW", None, ts) /\ EnableState' = (2 + U8 - 1) % U8
      BY <1>0, <2>1, <2>2
    <3>2. EnableState' = 1
      BY <3>1, EnableUpDown
    <3>3. ~gap' /\ ~unmarked' /\ ~clean'
      BY <1>5, <3>1, StoreSays
    <3> QED BY <3>2, <3>3
  <2>3. CASE ~Fits("OVERFLOW")
    <3>1. Lose /\ EnableState' = 2
      BY <1>0, <2>1, <2>3
    <3> QED BY <1>5, <3>1, LoseSays
  <2> QED BY <2>2, <2>3
<1>7. StateInv'
  BY <1>0, <1>1, <1>2, <1>4, <1>6, StateKept
<1>8. MarkInv' /\ ToldInv'
  BY <1>6 DEF MarkInv, ToldInv
<1> QED BY <1>7, <1>8 DEF Solo

\* From the label Send.
LEMMA SendSolo ==
  ASSUME RecInv, Solo, NEW c \in Ctx, lock[CoreOf[c]] \in {None, c}, _SendPacket(c)
  PROVE  Solo'
<1> DEFINE e == todo[c][1]
<1>0. pc[c] = "send" /\ EnableState = 1 /\ StateInv /\ MarkInv /\ ToldInv
  BY DEF _SendPacket, Solo, StateInv
<1>1. Alone(c)
  BY <1>0, StepAlone
<1>2. \A d \in Ctx \ {c} : pc[d] # "idle" => CoreOf[d] = CoreOf[c]
  BY <1>0 DEF StateInv
<1>3. /\ pc' = [pc EXCEPT ![c] = "done"] /\ todo' = todo /\ aTasks' = aTasks
      /\ pc \in [Ctx -> {"idle", "next", "overflow", "send", "done"}]
  BY DEF _SendPacket, RecInv, CtlType, tasks
<1>4. pc'[c] = "done" /\ \A d \in Ctx \ {c} : pc'[d] = pc[d]
  BY <1>3
<1>5. /\ WellFormed(todo[c]) /\ todo[c] # <<>> /\ Head(todo[c]) = e /\ 1 \in 1 .. Len(todo[c])
      /\ e.k \in Packet \ {"SYNC"} /\ Len(todo[c]) \in Nat
  BY <1>0, HeadIs, LenProperties DEF RecInv, CtlInv, Busy
<1>6. Starting(pc[c], todo[c]) <=> e.k = "TRACE_START"
  BY <1>0, <1>5 DEF Starting
<1>7. \/ e.k \in DisabledEvents /\ UNCHANGED <<EnableState, stream>>
      \/ \E ts \in 0 .. Word - 1 : Fits(e.k) /\ Store(e.k, e.t, ts) /\ EnableState' = EnableState
      \/ EnableState' = (EnableState + 1) % U8 /\ Lose
  BY <1>5 DEF _SendPacket
<1>8. ~unmarked /\ (gap => e.k = "TRACE_START")
  BY <1>0, <1>1, <1>6, MarkOnly DEF MarkInv
<1>9. \A d \in Ctx : ~Starting(pc'[d], todo'[d])
  BY <1>1, <1>3, <1>4 DEF Alone, Quiet, Starting
<1> HIDE DEF e
<1>10. CASE EnableState' = (EnableState + 1) % U8 /\ Lose
  <2>1. EnableState' = 2 /\ ~clean' /\ ~unmarked'
    BY <1>0, <1>8, <1>10, EnableUpDown, LoseSays
  <2>2. StateInv'
    BY <1>0, <1>1, <1>2, <1>4, <2>1, StateKept
  <2> QED BY <2>1, <2>2 DEF Solo, MarkInv, ToldInv
<1>11. ASSUME EnableState' = EnableState, ~gap', ~unmarked',
              clean' => \A n \in 1 .. Len(aTasks) :
                 aTasks[n] \in told' \/ \E d \in Ctx : Owes(pc'[d], todo'[d], aTasks[n], n)
       PROVE  Solo'
  <2>1. StateInv'
    BY <1>0, <1>1, <1>2, <1>4, <1>11, StateKept
  <2>2. MarkInv'
    BY <1>11 DEF MarkInv
  <2>3. ToldInv'
    BY <1>0, <1>3, <1>11 DEF ToldInv
  <2> QED BY <2>1, <2>2, <2>3 DEF Solo
<1>12. ASSUME NEW t, NEW n, e.k # "TASK_INFO" \/ e.t # t, e.k # "TASKS",
              Owes(pc[c], todo[c], t, n)
       PROVE  Owes(pc'[c], todo'[c], t, n)
  <2>1. PICK i \in 1 .. Len(todo[c]) : \/ todo[c][i].k = "TASK_INFO" /\ todo[c][i].t = t
                                       \/ todo[c][i].k = "TASKS" /\ todo[c][i].n <= n
    BY <1>12 DEF Owes
  <2>2. i # 1
    BY <1>12, <2>1 DEF e
  <2> QED BY <1>3, <2>1, <2>2 DEF Owes
<1>13. e.k # "TASKS"
  BY <1>5 DEF Packet
<1>14. CASE e.k \in DisabledEvents /\ UNCHANGED <<EnableState, stream>>
  <2>1. e.k = "EVENT"
    BY <1>14 DEF RecInv, RestInv
  <2>2. gap' = gap /\ unmarked' = unmarked /\ clean' = clean /\ told' = told
    BY <1>14 DEF stream
  <2>3. ~gap /\ ~unmarked
    BY <1>8, <2>1
  <2>4. ~gap' /\ ~unmarked'
    BY <2>2, <2>3, Zenon
  <2>5. ASSUME clean', NEW n \in 1 .. Len(aTasks)
        PROVE  aTasks[n] \in told' \/ \E d \in Ctx : Owes(pc'[d], todo'[d], aTasks[n], n)
    <3>1. clean
      BY <2>2, <2>5, Zenon
    <3>2. Known(aTasks[n], n, c, pc[c], todo[c])
      BY <1>0, <1>1, <1>6, <2>1, <3>1, ToldOnly
    <3>3. Owes(pc[c], todo[c], aTasks[n], n) => Owes(pc'[c], todo'[c], aTasks[n], n)
      BY <1>12, <1>13, <2>1
    <3> QED BY <1>3, <1>4, <2>2, <3>2, <3>3 DEF Known
  <2> QED BY <1>11, <1>14, <2>4, <2>5
<1>15. ASSUME NEW ts \in 0 .. Word - 1, Store(e.k, e.t, ts), EnableState' = EnableState
       PROVE  Solo'
  <2>1. /\ ~gap'
        /\ unmarked' <=> unmarked \/ (gap /\ e.k \notin {"OVERFLOW", "TRACE_START"})
        /\ clean' <=> clean \/ e.k = "TRACE_START"
        /\ e.k # "TRACE_START" => told \subseteq told'
        /\ e.k = "TASK_INFO" => e.t \in told'
    BY <1>15, StoreSays
  <2>2. ~unmarked'
    BY <1>8, <2>1
  <2>3. CASE e.k = "TRACE_START"
    <3>1. 3 \in 1 .. Len(todo[c]) /\ todo[c][3].k = "TASKS" /\ todo[c][3].n = 1
      <4>1. 1 + 2 <= Len(todo[c]) /\ todo[c][1 + 2].k = "TASKS" /\ todo[c][1 + 2].n = 1
        BY <1>5, <2>3 DEF WellFormed, e
      <4> QED BY <1>5, <4>1
    <3>2. \A n \in 1 .. Len(aTasks) : Owes(pc'[c], todo'[c], aTasks[n], n)
      BY <1>3, <3>1 DEF Owes
    <3> QED BY <1>11, <1>15, <2>1, <2>2, <3>2
  <2>4. CASE e.k # "TRACE_START"
    <3>1. ASSUME clean', NEW n \in 1 .. Len(aTasks)
          PROVE  aTasks[n] \in told' \/ \E d \in Ctx : Owes(pc'[d], todo'[d], aTasks[n], n)
      <4>1. clean
        BY <2>1, <2>4, <3>1
      <4>2. Known(aTasks[n], n, c, pc[c], todo[c])
        BY <1>0, <1>1, <1>6, <2>4, <4>1, ToldOnly
      <4>3. CASE e.k = "TASK_INFO" /\ e.t = aTasks[n]
        BY <2>1, <4>3
      <4>4. CASE ~(e.k = "TASK_INFO" /\ e.t = aTasks[n])
        <5>1. Owes(pc[c], todo[c], aTasks[n], n) => Owes(pc'[c], todo'[c], aTasks[n], n)
          BY <1>12, <1>13, <4>4
        <5> QED BY <1>3, <1>4, <2>1, <2>4, <4>2, <5>1 DEF Known
      <4> QED BY <4>3, <4>4
    <3> QED BY <1>11, <1>15, <2>1, <2>2, <3>1
  <2> QED BY <2>3, <2>4
<1> QED
  BY <1>7, <1>10, <1>14, <1>15

\* The label SendDone.
LEMMA DoneSolo ==
  ASSUME RecInv, Solo, NEW c \in Ctx, lock[CoreOf[c]] \in {None, c}, SendDone(c)
  PROVE  Solo'
<1>0. /\ pc[c] = "done" /\ StateInv /\ MarkInv /\ ToldInv /\ CtlInv /\ CtlType
      /\ EnableState \in {0, 1, 2}
  BY DEF SendDone, Solo, RecInv, StateInv
<1>1. UNCHANGED stream /\ aTasks' = aTasks
  BY DEF SendDone, tasks
<1>2. Alone(c)
  BY <1>0, StepAlone
<1>3. ~Starting(pc[c], todo[c])
  BY <1>0 DEF Starting
<1>4. CASE down # <<>> /\ RecursionCnt = 0
  <2> DEFINE cmd == Head(down)
             pre == CommandItems(cmd) \o <<It("END")>>
             r   == pre \o Tail(todo[c])
  <2>1. _HandleIncomingPacket(c, Tail(todo[c]))
    BY <1>4 DEF SendDone
  <2>2. /\ EnableState' = IF cmd = "START" THEN 1 ELSE EnableState
        /\ Proceed(c, r)
    BY <2>1 DEF _HandleIncomingPacket
  <2>3. Replaces(c, pre, r)
    BY <1>0, <2>2, CommandReplaces
  <2>4. Prefix(pre) /\ Len(pre) >= 1 /\ (cmd = "START" => pre[1].k = "SYNC")
    BY PrefixCommand
  <2> HIDE DEF r, pre, cmd
  <2>5. /\ todo'[c] = r /\ pc'[c] \in {"idle", "next"} /\ CtlInv'
    BY <1>0, <2>3, ReplaceStep
  <2>6. From(r, pre, todo[c])
    BY <2>3 DEF Replaces
  <2>7. Len(pre) \in Nat /\ 1 \in 1 .. Len(pre)
    BY <2>4, <2>6 DEF From
  <2>8. 1 \in 1 .. Len(r) /\ r[1] = pre[1]
    BY <2>6, <2>7 DEF From
  <2>9. r # <<>>
    BY <2>8, EmptySeq
  <2>10. pc'[c] = "next"
    BY <2>5, <2>9 DEF CtlInv
  <2>11. cmd = "START" => Starting(pc'[c], r)
    BY <2>4, <2>8, <2>9, <2>10 DEF Starting
  <2>12. clean /\ EnableState = 1 =>
           \A n \in 1 .. Len(aTasks') : Known(aTasks'[n], n, c, pc'[c], r)
    <3>1. pc'[c] # "done"
      BY <2>10
    <3> QED BY <1>0, <1>1, <1>2, <1>3, <2>3, <3>1, CarryPlain
  <2>13. EnableState' \in {0, 1, 2} /\ (EnableState' = 2 => EnableState = 2)
    BY <1>0, <2>2
  <2>14. EnableState' = 1 =>
           \/ Starting(pc'[c], r)
           \/ /\ EnableState = 1 /\ ~Starting(pc[c], todo[c])
              /\ clean => \A n \in 1 .. Len(aTasks') : Known(aTasks'[n], n, c, pc'[c], r)
    BY <1>3, <2>2, <2>11, <2>12
  <2>15. pc[c] # "idle"
    BY <1>0
  <2> QED BY <1>0, <1>1, <1>2, <2>3, <2>13, <2>14, <2>15, ProceedSolo DEF Solo
<1>5. CASE ~(down # <<>> /\ RecursionCnt = 0)
  <2> DEFINE r == Tail(todo[c])
  <2>1. Proceed(c, r) /\ EnableState' = EnableState
    BY <1>5 DEF SendDone
  <2>2. Replaces(c, <<>>, r)
    BY <1>0, <2>1, DropReplaces
  <2> HIDE DEF r
  <2>3. pc'[c] \in {"idle", "next"}
    BY <1>0, <2>2, ReplaceStep
  <2>4. clean /\ EnableState = 1 =>
           \A n \in 1 .. Len(aTasks') : Known(aTasks'[n], n, c, pc'[c], r)
    <3>1. pc'[c] # "done"
      BY <2>3
    <3> QED BY <1>0, <1>1, <1>2, <1>3, <2>2, <3>1, CarryPlain
  <2>5. pc[c] # "idle" /\ EnableState' \in {0, 1, 2}
    BY <1>0, <2>1
  <2> QED BY <1>0, <1>1, <1>2, <1>3, <2>1, <2>2, <2>4, <2>5, ProceedSolo DEF Solo
<1> QED BY <1>4, <1>5

\* The next packet of the call.
LEMMA NextSolo ==
  ASSUME RecInv, Solo, NEW c \in Ctx, lock[CoreOf[c]] \in {None, c}, SendNext(c)
  PROVE  Solo'
<1>0. /\ pc[c] = "next" /\ StateInv /\ MarkInv /\ ToldInv /\ CtlInv /\ CtlType
      /\ EnableState \in {0, 1, 2}
  BY DEF SendNext, Solo, RecInv, StateInv
<1>1. UNCHANGED stream /\ aTasks' = aTasks /\ EnableState' = EnableState
  BY DEF SendNext, tasks, globals
<1>2. gap' = gap /\ unmarked' = unmarked /\ clean' = clean /\ told' = told
  BY <1>1 DEF stream
<1>3. Alone(c)
  BY <1>0, StepAlone
<1>4. todo[c][1].k # "SYNC" /\ todo[c] # <<>>
  BY <1>0, HeadIs DEF SendNext
<1>5. /\ todo'[c] = todo[c]
      /\ pc'[c] = IF EnableState = 0 THEN "done"
                  ELSE IF EnableState = 2 THEN "overflow" ELSE "send"
      /\ \A d \in Ctx \ {c} : todo'[d] = todo[d] /\ pc'[d] = pc[d]
  BY <1>0 DEF SendNext, Enter, CtlType
<1>6. StateInv'
  <2>1. \A d \in Ctx \ {c} : pc[d] # "idle" => CoreOf[d] = CoreOf[c]
    BY <1>0 DEF StateInv
  <2>2. (pc'[c] = "send" => EnableState' = 1) /\ (pc'[c] = "overflow" => EnableState' = 2)
    BY <1>0, <1>1, <1>5
  <2>3. EnableState' \in {0, 1, 2}
    BY <1>0, <1>1
  <2> QED BY <1>0, <1>3, <1>5, <2>1, <2>2, <2>3, StateKept
<1>7. EnableState = 1 => \A d \in Ctx : Starting(pc'[d], todo'[d]) <=> Starting(pc[d], todo[d])
  BY <1>0, <1>4, <1>5 DEF Starting
<1>8. MarkInv'
  <2>1. ~unmarked'
    BY <1>0, <1>2, Zenon DEF MarkInv
  <2>2. ASSUME gap', EnableState' = 1 PROVE \E d \in Ctx : Starting(pc'[d], todo'[d])
    <3>1. gap
      BY <1>2, <2>2, Zenon
    <3> QED BY <1>0, <1>1, <1>7, <2>2, <3>1 DEF MarkInv
  <2> QED BY <2>1, <2>2 DEF MarkInv
<1>9. ToldInv'
  <2>1. ASSUME EnableState' = 2 PROVE ~clean'
    <3>1. ~clean
      BY <1>0, <1>1, <2>1 DEF ToldInv
    <3> QED BY <1>2, <3>1, Zenon
  <2>2. ASSUME clean', EnableState' = 1, ~(\E d \in Ctx : Starting(pc'[d], todo'[d])),
               NEW n \in 1 .. Len(aTasks')
        PROVE  aTasks'[n] \in told' \/ \E d \in Ctx : Owes(pc'[d], todo'[d], aTasks'[n], n)
    <3>1. clean
      BY <1>2, <2>2, Zenon
    <3>2. EnableState = 1 /\ ~(\E d \in Ctx : Starting(pc[d], todo[d]))
      BY <1>1, <1>7, <2>2
    <3>3. aTasks[n] \in told \/ \E d \in Ctx : Owes(pc[d], todo[d], aTasks[n], n)
      BY <1>0, <1>1, <3>1, <3>2 DEF ToldInv
    <3>4. pc'[c] # "done"
      BY <1>5, <3>2
    <3>5. \A d \in Ctx : Owes(pc[d], todo[d], aTasks[n], n) => Owes(pc'[d], todo'[d], aTasks[n], n)
      BY <1>5, <3>4 DEF Owes
    <3> QED BY <1>1, <1>2, <3>3, <3>5
  <2> QED BY <2>1, <2>2 DEF ToldInv
<1> QED BY <1>6, <1>8, <1>9 DEF Solo

\* The packet without a time stamp, the end of a handler, the end of Stop.
LEMMA EndsSolo ==
  ASSUME RecInv, Solo, NEW c \in Ctx, lock[CoreOf[c]] \in {None, c},
         SendSync(c) \/ HandlerEnds(c) \/ StopEnds(c)
  PROVE  Solo'
<1> DEFINE r == Tail(todo[c])
<1>0. /\ pc[c] = "next" /\ StateInv /\ MarkInv /\ ToldInv /\ CtlInv /\ CtlType
      /\ EnableState \in {0, 1, 2}
  BY DEF SendSync, HandlerEnds, StopEnds, Next_, Solo, RecInv, StateInv
<1>1. /\ UNCHANGED stream /\ aTasks' = aTasks /\ Proceed(c, r)
      /\ \/ Head(todo[c]).k = "SYNC" /\ EnableState' = EnableState
         \/ Head(todo[c]).k = "END" /\ EnableState' = EnableState
         \/ EnableState' = 0
  BY DEF SendSync, HandlerEnds, StopEnds, Next_, tasks, globals
<1>2. Alone(c)
  BY <1>0, StepAlone
<1>3. Replaces(c, <<>>, r)
  BY <1>0, <1>1, DropReplaces
<1> HIDE DEF r
<1>4. pc'[c] \in {"idle", "next"} /\ todo'[c] = r /\ CtlInv'
  BY <1>0, <1>3, ReplaceStep
<1>5. From(r, <<>>, todo[c]) /\ Len(<<>>) = 0
  BY <1>3, EmptySeq DEF Replaces
<1>6. /\ Head(todo[c]) = todo[c][1] /\ 1 \in 1 .. Len(todo[c]) /\ WellFormed(todo[c])
      /\ Len(todo[c]) \in Nat
  BY <1>0, HeadIs, LenProperties
<1>7. ASSUME todo[c][1].k = "SYNC" PROVE Starting(pc'[c], r)
  <2>1. 1 < Len(todo[c]) /\ todo[c][1 + 1].k = "TRACE_START"
    BY <1>6, <1>7 DEF WellFormed
  <2>2. 2 \in 2 .. Len(todo[c]) /\ todo[c][2].k = "TRACE_START" /\ 0 + 2 - 1 = 1
    BY <1>6, <2>1
  <2>3. 1 \in 1 .. Len(r) /\ r[1] = todo[c][2]
    BY <1>5, <2>2 DEF From
  <2>4. r # <<>>
    BY <2>3, EmptySeq
  <2>5. pc'[c] = "next"
    BY <1>4, <2>4 DEF CtlInv
  <2> QED BY <2>2, <2>3, <2>4, <2>5 DEF Starting
<1>8. ASSUME todo[c][1].k = "END"
      PROVE  /\ ~Starting(pc[c], todo[c])
             /\ clean /\ EnableState = 1 =>
                  \A n \in 1 .. Len(aTasks') : Known(aTasks'[n], n, c, pc'[c], r)
  <2>1. ~Starting(pc[c], todo[c]) /\ todo[c][1].k \notin {"TASK_INFO", "TASKS"}
    BY <1>8 DEF Starting
  <2>2. pc'[c] # "done"
    BY <1>4
  <2> QED BY <1>0, <1>1, <1>2, <1>3, <2>1, <2>2, CarryPlain
<1>9. EnableState' \in {0, 1, 2} /\ (EnableState' = 2 => EnableState = 2) /\ pc[c] # "idle"
  BY <1>0, <1>1
<1>10. EnableState' = 1 =>
         \/ Starting(pc'[c], r)
         \/ /\ EnableState = 1 /\ ~Starting(pc[c], todo[c])
            /\ clean => \A n \in 1 .. Len(aTasks') : Known(aTasks'[n], n, c, pc'[c], r)
  BY <1>1, <1>6, <1>7, <1>8
<1> QED
  BY <1>0, <1>1, <1>2, <1>3, <1>9, <1>10, ProceedSolo DEF Solo

\* The loop over the list: an entry the loop has still to reach is owed.
LEMMA TasksSolo ==
  ASSUME RecInv, Solo, NEW c \in Ctx, lock[CoreOf[c]] \in {None, c}, _cbSendTaskList(c)
  PROVE  Solo'
<1> DEFINE k == todo[c][1].n
<1>0. /\ pc[c] = "next" /\ StateInv /\ MarkInv /\ ToldInv /\ CtlInv /\ CtlType
      /\ EnableState \in {0, 1, 2} /\ aTasks \in Seq(Task)
  BY DEF _cbSendTaskList, Next_, Solo, RecInv, StateInv, ListType
<1>1. UNCHANGED stream /\ aTasks' = aTasks /\ EnableState' = EnableState
  BY DEF _cbSendTaskList, tasks, globals
<1>2. /\ Head(todo[c]) = todo[c][1] /\ 1 \in 1 .. Len(todo[c]) /\ WellFormed(todo[c])
      /\ todo[c][1] \in Item /\ Len(todo[c]) \in Nat
  BY <1>0, HeadIs, LenProperties
<1>3. /\ todo[c][1].k = "TASKS"
      /\ Proceed(c, IF k <= Len(aTasks)
                    THEN TaskInfo(aTasks[k]) \o <<ItN("TASKS", k + 1)>> \o Tail(todo[c])
                    ELSE Tail(todo[c]))
  BY <1>2 DEF _cbSendTaskList, Next_
<1>4. k \in Nat /\ k >= 1
  BY <1>2, <1>3 DEF Item, WellFormed
<1>5. Alone(c)
  BY <1>0, StepAlone
<1>6. ~Starting(pc[c], todo[c]) /\ pc[c] # "idle" /\ EnableState' \in {0, 1, 2}
  BY <1>0, <1>1, <1>3 DEF Starting
<1>7. Len(aTasks) \in Nat
  BY <1>0, LenProperties
<1>8. ASSUME NEW n \in 1 .. Len(aTasks), Owes(pc[c], todo[c], aTasks[n], n)
      PROVE  Owes("done", todo[c], aTasks[n], n) \/ k <= n
  <2>1. PICK i \in 1 .. Len(todo[c]) :
           \/ todo[c][i].k = "TASK_INFO" /\ todo[c][i].t = aTasks[n]
           \/ todo[c][i].k = "TASKS" /\ todo[c][i].n <= n
    BY <1>8 DEF Owes
  <2>2. CASE i = 1
    BY <1>3, <2>1, <2>2
  <2>3. CASE i # 1
    BY <2>1, <2>3 DEF Owes
  <2> QED BY <2>2, <2>3
<1> HIDE DEF k
<1>9. ASSUME NEW pre, NEW r, Replaces(c, pre, r),
             \A n \in 1 .. Len(aTasks) : k <= n => Owes("next", r, aTasks[n], n)
      PROVE  Solo'
  <2>1. todo'[c] = r /\ pc'[c] \in {"idle", "next"}
    BY <1>0, <1>9, ReplaceStep
  <2>2. From(r, pre, todo[c])
    BY <1>9 DEF Replaces
  <2>3. ASSUME clean, EnableState = 1, NEW n \in 1 .. Len(aTasks)
        PROVE  Known(aTasks[n], n, c, pc'[c], r)
    <3>1. Known(aTasks[n], n, c, pc[c], todo[c])
      BY <1>0, <1>5, <1>6, <2>3, ToldOnly
    <3>2. pc'[c] # "done"
      BY <2>1
    <3>3. Owes("done", todo[c], aTasks[n], n) => Owes(pc'[c], r, aTasks[n], n)
      BY <2>2, <3>2, KeepsOwes
    <3>4. k <= n => Owes(pc'[c], r, aTasks[n], n)
      <4> SUFFICES ASSUME k <= n PROVE Owes(pc'[c], r, aTasks[n], n)
        OBVIOUS
      <4>1. Owes("next", r, aTasks[n], n)
        BY <1>9
      <4> QED BY <3>2, <4>1 DEF Owes
    <3> QED BY <1>8, <3>1, <3>3, <3>4 DEF Known
  <2>4. clean /\ EnableState = 1 =>
          \A n \in 1 .. Len(aTasks') : Known(aTasks'[n], n, c, pc'[c], r)
    BY <1>1, <2>3
  <2> QED BY <1>0, <1>1, <1>5, <1>6, <1>9, <2>4, ProceedSolo DEF Solo
<1>10. CASE k <= Len(aTasks)
  <2>1. aTasks[k] \in Task
    BY <1>0, <1>4, <1>7, <1>10, ElementOfSeq
  <2> DEFINE pre == TaskInfo(aTasks[k]) \o <<ItN("TASKS", k + 1)>>
             r   == pre \o Tail(todo[c])
  <2>2. Proceed(c, r)
    BY <1>3, <1>10
  <2>3. Replaces(c, pre, r)
    BY <1>0, <1>3, <1>4, <2>1, <2>2, RoundReplaces
  <2>4. /\ Len(pre) = 3 /\ pre[1].k = "TASK_INFO" /\ pre[1].t = aTasks[k]
        /\ pre[3].k = "TASKS" /\ pre[3].n = k + 1
    <3> DEFINE t == aTasks[k]
               q == TaskInfo(t) \o <<ItN("TASKS", k + 1)>>
    <3>1. t \in Task /\ k \in Nat
      BY <1>4, <2>1, Zenon
    <3> HIDE DEF t
    <3>2. /\ Len(q) = 3 /\ q[1].k = "TASK_INFO" /\ q[1].t = t
          /\ q[3].k = "TASKS" /\ q[3].n = k + 1
      BY <3>1, PrefixRound
    <3> QED BY <3>2, Zenon DEF t
  <2> HIDE DEF pre, r
  <2>5. From(r, pre, todo[c])
    BY <2>3 DEF Replaces
  <2>6. ASSUME NEW n \in 1 .. Len(aTasks), k <= n PROVE Owes("next", r, aTasks[n], n)
    <3>1. CASE n = k
      <4>1. 1 \in 1 .. Len(pre) /\ pre[1].k = "TASK_INFO" /\ pre[1].t = aTasks[n]
        BY <2>4, <3>1
      <4> QED BY <2>5, <4>1, OwesFirst, Zenon
    <3>2. CASE n # k
      <4>1. 3 \in 1 .. Len(pre) /\ pre[3].k = "TASKS" /\ pre[3].n <= n
        BY <1>4, <1>7, <2>4, <2>6, <3>2
      <4> QED BY <2>5, <4>1, OwesFirst, Zenon
    <3> QED BY <3>1, <3>2
  <2> QED BY <1>9, <2>3, <2>6
<1>11. CASE ~(k <= Len(aTasks))
  <2> DEFINE r == Tail(todo[c])
  <2>1. Proceed(c, r)
    BY <1>3, <1>11
  <2>2. Replaces(c, <<>>, r)
    BY <1>0, <2>1, DropReplaces
  <2>3. \A n \in 1 .. Len(aTasks) : ~(k <= n)
    BY <1>4, <1>7, <1>11
  <2> QED BY <1>9, <2>2, <2>3
<1> QED BY <1>10, <1>11

\* The operations of the list: a task that moves to another place is known, or
\* on its way in a packet of its own, since nobody is in the loop.
LEMMA OperationsSolo ==
  ASSUME RecInv, Solo, NEW c \in Ctx, lock[CoreOf[c]] \in {None, c},
         SYSVIEW_AddTask(c) \/ SYSVIEW_UpdateTask(c) \/ SYSVIEW_DeleteTask(c)
  PROVE  Solo'
<1>1. PICK pre, r : Operation(c, pre, r)
  BY AddIs, DeleteIs
<1>0. /\ pc[c] = "next" /\ StateInv /\ MarkInv /\ ToldInv /\ CtlInv /\ CtlType
      /\ EnableState \in {0, 1, 2} /\ Replaces(c, pre, r) /\ todo[c][1].k \in KernelOp
  BY <1>1 DEF Operation, Solo, RecInv, StateInv
<1>2. UNCHANGED stream /\ EnableState' = EnableState
  BY <1>1 DEF Operation, globals
<1>3. Alone(c)
  BY <1>0, StepAlone
<1>4. ~Starting(pc[c], todo[c]) /\ pc[c] # "idle" /\ EnableState' \in {0, 1, 2}
  BY <1>0, <1>2 DEF Starting, KernelOp
<1>5. pc'[c] \in {"idle", "next"}
  BY <1>0, ReplaceStep
<1>6. From(r, pre, todo[c])
  BY <1>0 DEF Replaces
<1>7. \A t, n : ~Owes(pc[c], todo[c], t, n)
  <2>1. Len(todo[c]) = 1
    BY <1>0, <1>4, HeadIs, OpIs DEF RecInv
  <2>2. todo[c][1].k # "TASK_INFO" /\ todo[c][1].k # "TASKS"
    BY <1>0 DEF KernelOp
  <2> QED BY <2>1, <2>2 DEF Owes
<1>8. ASSUME clean, EnableState = 1, NEW n \in 1 .. Len(aTasks')
      PROVE  Known(aTasks'[n], n, c, pc'[c], r)
  <2>1. CASE \E m \in 1 .. Len(aTasks) : aTasks'[n] = aTasks[m]
    <3>1. PICK m \in 1 .. Len(aTasks) : aTasks'[n] = aTasks[m]
      BY <2>1
    <3>2. Known(aTasks[m], m, c, pc[c], todo[c])
      BY <1>0, <1>3, <1>4, <1>8, ToldOnly
    <3>3. aTasks[m] \in told \/ \E d \in Ctx \ {c} : Owes(pc[d], todo[d], aTasks[m], m)
      BY <1>7, <3>2 DEF Known
    <3>4. aTasks[m] \in told \/ \E d \in Ctx \ {c} : Owes(pc[d], todo[d], aTasks[m], n)
      BY <1>3, <3>3, OthersOwe
    <3> QED BY <3>1, <3>4 DEF Known
  <2>2. CASE \E i \in 1 .. Len(pre) : pre[i].k = "TASK_INFO" /\ pre[i].t = aTasks'[n]
    <3>1. pc'[c] # "done"
      BY <1>5
    <3>2. Owes(pc'[c], r, aTasks'[n], n)
      BY <1>6, <2>2, <3>1, KeepsOwes
    <3> QED BY <3>2 DEF Known
  <2> QED BY <1>1, <2>1, <2>2 DEF Operation
<1> QED
  BY <1>0, <1>2, <1>3, <1>4, <1>8, ProceedSolo DEF Solo

\* A call, while no other core is inside.
LEMMA CallSolo ==
  ASSUME RecInv, Solo, NEW c \in Ctx, NEW items, WellFormed(items), items # <<>>,
         items[1].k = "EVENT", Call(c, items), ~OtherCore(c),
         UNCHANGED <<EnableState, aTasks, stream>>
  PROVE  Solo'
<1>0. StateInv /\ MarkInv /\ ToldInv /\ CtlInv /\ CtlType /\ EnableState \in {0, 1, 2}
  BY DEF Solo, RecInv, StateInv
<1>1. /\ pc[c] = "idle" /\ todo[c] = <<>> /\ todo'[c] = items
      /\ pc'[c] = IF EnableState = 0 THEN "done"
                  ELSE IF EnableState = 2 THEN "overflow" ELSE "send"
      /\ \A d \in Ctx \ {c} : todo'[d] = todo[d] /\ pc'[d] = pc[d]
      /\ lock[CoreOf[c]] = None
  BY CallCtl
<1>2. \A d \in Ctx \ {c} : pc[d] # "idle" => CoreOf[d] = CoreOf[c]
  BY DEF OtherCore
<1>3. Alone(c)
  BY <1>0, <1>1, <1>2, AloneIs
<1>4. gap' = gap /\ unmarked' = unmarked /\ clean' = clean /\ told' = told
  BY DEF stream
<1>5. ~Starting(pc[c], todo[c]) /\ \A t, n : ~Owes(pc[c], todo[c], t, n)
  BY <1>1, EmptySeq DEF Starting, Owes
<1>6. StateInv'
  <2>1. (pc'[c] = "send" => EnableState' = 1) /\ (pc'[c] = "overflow" => EnableState' = 2)
    BY <1>0, <1>1
  <2> QED BY <1>0, <1>1, <1>2, <1>3, <2>1, StateKept
<1>7. MarkInv'
  <2>1. ~unmarked'
    BY <1>0, <1>4, Zenon DEF MarkInv
  <2>2. ASSUME gap', EnableState' = 1 PROVE FALSE
    <3>1. gap
      BY <1>4, <2>2, Zenon
    <3> QED BY <1>0, <1>3, <1>5, <2>2, <3>1, MarkOnly
  <2> QED BY <2>1, <2>2 DEF MarkInv
<1>8. ToldInv'
  <2>1. ASSUME EnableState' = 2 PROVE ~clean'
    <3>1. ~clean
      BY <1>0, <2>1 DEF ToldInv
    <3> QED BY <1>4, <3>1, Zenon
  <2>2. ASSUME clean', EnableState' = 1, NEW n \in 1 .. Len(aTasks')
        PROVE  aTasks'[n] \in told' \/ \E d \in Ctx : Owes(pc'[d], todo'[d], aTasks'[n], n)
    <3>1. clean
      BY <1>4, <2>2, Zenon
    <3>2. Known(aTasks[n], n, c, pc[c], todo[c])
      BY <1>0, <1>3, <1>5, <2>2, <3>1, ToldOnly
    <3> QED BY <1>1, <1>4, <1>5, <3>2 DEF Known
  <2> QED BY <2>1, <2>2 DEF ToldInv
<1> QED BY <1>6, <1>7, <1>8 DEF Solo

\* Steps that leave the contexts, the list and the stream alone.
LEMMA UnchangedSolo ==
  ASSUME Solo, UNCHANGED <<EnableState, aTasks, pc, todo, stream>>
  PROVE  Solo'
<1>1. gap' = gap /\ unmarked' = unmarked /\ clean' = clean /\ told' = told
  BY DEF stream
<1>2. StateInv'
  BY DEF Solo, StateInv
<1>3. MarkInv'
  <2>1. ~unmarked'
    BY <1>1, Zenon DEF Solo, MarkInv
  <2>2. gap' => gap
    BY <1>1, Zenon
  <2> QED BY <2>1, <2>2 DEF Solo, MarkInv
<1>4. ToldInv'
  <2>1. clean' => clean
    BY <1>1, Zenon
  <2> QED BY <1>1, <2>1 DEF Solo, ToldInv
<1> QED BY <1>2, <1>3, <1>4 DEF Solo

\* Every step of a context.
LEMMA StepSolo ==
  ASSUME RecInv, Solo, NEW c \in Ctx, Step(c)
  PROVE  Solo'
BY OverflowSolo, SendSolo, DoneSolo, NextSolo, EndsSolo, TasksSolo, OperationsSolo DEF Step

\* Only a call can make two cores overlap.
LEMMA StepOverlap ==
  ASSUME NEW c \in Ctx, Step(c)
  PROVE  overlap' = overlap
BY DEF Step, _TrySendOverflowPacket, _SendPacket, SendDone, SendNext, SendSync, HandlerEnds,
       StopEnds, _cbSendTaskList, SYSVIEW_AddTask, SYSVIEW_UpdateTask, SYSVIEW_DeleteTask

\* The items of a call are an event and maybe an operation.
LEMMA CallsSolo ==
  ASSUME RecInv, SoloInv, NEW c \in Ctx, NEW items, WellFormed(items), items # <<>>,
         items[1].k = "EVENT", Call(c, items), UNCHANGED <<EnableState, aTasks, stream>>
  PROVE  SoloInv'
<1> SUFFICES ASSUME ~overlap' PROVE Solo'
  BY DEF SoloInv, Solo
<1>1. overlap' = (overlap \/ OtherCore(c))
  BY DEF Call
<1>2. ~overlap /\ ~OtherCore(c)
  BY <1>1, Zenon
<1>3. Solo
  BY <1>2 DEF SoloInv, Solo
<1> QED BY <1>2, <1>3, CallSolo

\* Every step keeps SoloInv.
LEMMA NextKeepsSolo == RecInv /\ SoloInv /\ [Next]_vars => SoloInv'
<1> SUFFICES ASSUME RecInv, SoloInv, [Next]_vars PROVE SoloInv'
  OBVIOUS
<1>1. ASSUME NEW c \in Ctx, Step(c) PROVE SoloInv'
  <2> SUFFICES ASSUME ~overlap' PROVE Solo'
    BY DEF SoloInv, Solo
  <2>1. ~overlap
    BY <1>1, StepOverlap, Zenon
  <2>2. Solo
    BY <2>1 DEF SoloInv, Solo
  <2> QED BY <1>1, <2>2, StepSolo
<1>2. ASSUME NEW c \in Ctx, Record(c) PROVE SoloInv'
  <2> DEFINE items == <<It("EVENT")>>
  <2>1. Call(c, items) /\ UNCHANGED <<EnableState, aTasks, stream>>
    BY <1>2 DEF Record, globals, tasks
  <2>2. WellFormed(items) /\ items # <<>> /\ items[1].k = "EVENT"
    BY EventStarts
  <2> HIDE DEF items
  <2> QED BY <2>1, <2>2, CallsSolo
<1>3. ASSUME NEW c \in KernelCtx, NEW t \in Task,
             traceTASK_CREATE(c, t) \/ traceTASK_PRIORITY_SET(c, t) \/ traceTASK_DELETE(c, t)
      PROVE  SoloInv'
  <2>1. UNCHANGED <<EnableState, aTasks, stream>> /\ c \in Ctx
    BY <1>3, SysViewAssumption
    DEF traceTASK_CREATE, traceTASK_PRIORITY_SET, traceTASK_DELETE, globals, tasks
  <2>2. PICK k \in KernelOp : Call(c, <<It("EVENT"), ItT(k, t)>>)
    BY <1>3 DEF traceTASK_CREATE, traceTASK_PRIORITY_SET, traceTASK_DELETE, KernelOp
  <2> DEFINE items == <<It("EVENT"), ItT(k, t)>>
  <2>3. WellFormed(items) /\ items # <<>> /\ items[1].k = "EVENT"
    BY OpStarts
  <2>4. Call(c, items)
    BY <2>2
  <2> HIDE DEF items
  <2> QED BY <2>1, <2>3, <2>4, CallsSolo
<1>4. CASE \/ MaskEvents \/ HostReads \/ UNCHANGED vars
           \/ \E cmd \in Command : HostSends(cmd)
  <2>1. UNCHANGED <<EnableState, aTasks, pc, todo, stream, overlap>>
    BY <1>4 DEF MaskEvents, HostReads, HostSends, vars, globals, tasks
  <2> SUFFICES ASSUME ~overlap' PROVE Solo'
    BY DEF SoloInv, Solo
  <2>2. ~overlap
    BY <2>1, Zenon
  <2>3. Solo
    BY <2>2 DEF SoloInv, Solo
  <2> QED BY <2>1, <2>3, UnchangedSolo
<1> QED
  BY <1>1, <1>2, <1>3, <1>4 DEF Next

\* A recorder that is not started has lost and told nothing.
LEMMA InitSolo == Init => SoloInv
<1> SUFFICES ASSUME Init PROVE Solo
  BY DEF SoloInv, Solo
<1>1. ~unmarked /\ ~gap /\ ~clean
  BY Zenon DEF Init
<1>2. EnableState = 0 /\ pc = [c \in Ctx |-> "idle"]
  BY DEF Init
<1>3. StateInv
  BY <1>2 DEF StateInv
<1> QED BY <1>1, <1>3 DEF Solo, MarkInv, ToldInv

\* While no two cores are inside at once, no packet of _SendPacket that was
\* lost is followed by an ordinary one: the next one that is stored is an
\* OVERFLOW packet or the start of a new trace.
THEOREM LossesAreMarked == Spec => []LossIsMarked
<1>1. RecInv /\ SoloInv => LossIsMarked
  BY DEF SoloInv, MarkInv, LossIsMarked
<1> QED
  BY InitRec, InitSolo, NextKeepsRec, NextKeepsSolo, <1>1, PTL DEF Spec

\* While no two cores are inside at once, a host that lost nothing since
\* TRACE_START knows, when nobody is recording, every task of the list: the
\* entries the loop of _cbSendTaskList has passed and those that were added or
\* moved while it ran.
THEOREM HostIsTold == Spec => []HostKnowsTasks
<1>1. RecInv /\ SoloInv => HostKnowsTasks
  <2> SUFFICES ASSUME RecInv, SoloInv, ~overlap, clean, EnableState = 1,
                      \A c \in Ctx : pc[c] = "idle",
                      NEW n \in DOMAIN aTasks
               PROVE  aTasks[n] \in told
    BY DEF HostKnowsTasks
  <2>1. n \in 1 .. Len(aTasks)
    BY LenProperties DEF RecInv, ListType
  <2>2. \A c \in Ctx : todo[c] = <<>> /\ Len(todo[c]) = 0
    BY EmptySeq DEF RecInv, CtlInv
  <2>3. \A c \in Ctx : ~Starting(pc[c], todo[c]) /\ ~Owes(pc[c], todo[c], aTasks[n], n)
    <3> SUFFICES ASSUME NEW c \in Ctx
                 PROVE  ~Starting(pc[c], todo[c]) /\ ~Owes(pc[c], todo[c], aTasks[n], n)
      OBVIOUS
    <3>1. ~Starting(pc[c], todo[c])
      BY <2>2 DEF Starting
    <3>2. 1 .. Len(todo[c]) = {}
      BY <2>2
    <3>3. ~Owes(pc[c], todo[c], aTasks[n], n)
      BY <3>2, Zenon DEF Owes
    <3> QED BY <3>1, <3>3
  <2>4. ToldInv
    BY DEF SoloInv
  <2> QED BY <2>1, <2>3, <2>4 DEF ToldInv
<1> QED
  BY InitRec, InitSolo, NextKeepsRec, NextKeepsSolo, <1>1, PTL DEF Spec

-----------------------------------------------------------------------------
(* Induction and recursion, in the form of sets and functions *)

\* A set of numbers that is not empty has a least one.
LEMMA LeastNumber ==
  ASSUME NEW T \in SUBSET Nat, T # {}
  PROVE  \E x \in T : \A y \in T : x <= y
<1>1. PICK x \in T : \A y \in T : ~ (<<y, x>> \in OpToRel(<, Nat))
  BY NatLessThanWellFounded, WFMin, Zenon
<1>2. ASSUME NEW y \in T PROVE x <= y
  <2>1. <<y, x>> \notin OpToRel(<, Nat)
    BY <1>1, Zenon
  <2>2. y \in Nat /\ x \in Nat
    BY Zenon
  <2>3. ~(y < x)
    BY <2>1, <2>2 DEF OpToRel
  <2> QED  BY <2>2, <2>3
<1> QED
  BY <1>2, Zenon

\* Induction, for the set of the numbers that have a property.
LEMMA SetInduction ==
  ASSUME NEW S, 0 \in S, \A n \in Nat : n \in S => n + 1 \in S
  PROVE  \A n \in Nat : n \in S
<1> SUFFICES ASSUME ~(\A n \in Nat : n \in S) PROVE FALSE
  BY Zenon
<1> DEFINE T == {n \in Nat : n \notin S}
<1>1. T \in SUBSET Nat /\ T # {}
  BY Zenon
<1> HIDE DEF T
<1>2. PICK x \in T : \A y \in T : x <= y
  BY <1>1, LeastNumber, Zenon
<1>3. x \in Nat /\ x \notin S
  BY DEF T
<1>4. x - 1 \in Nat
  BY <1>3
<1>5. x - 1 \in S
  BY <1>2, <1>4 DEF T
<1>6. (x - 1) + 1 \in S
  BY <1>4, <1>5, Zenon
<1> QED
  BY <1>3, <1>4, <1>6

\* ... and when the property of all smaller numbers may be used.
LEMMA StrongInduction ==
  ASSUME NEW S, \A n \in Nat : (\A m \in Nat : m < n => m \in S) => n \in S
  PROVE  \A n \in Nat : n \in S
<1> SUFFICES ASSUME ~(\A n \in Nat : n \in S) PROVE FALSE
  BY Zenon
<1> DEFINE T == {n \in Nat : n \notin S}
<1>1. T \in SUBSET Nat /\ T # {}
  BY Zenon
<1> HIDE DEF T
<1>2. PICK x \in T : \A y \in T : x <= y
  BY <1>1, LeastNumber, Zenon
<1>3. x \in Nat /\ x \notin S
  BY DEF T
<1>4. ASSUME NEW m \in Nat, m < x PROVE m \in S
  BY <1>2, <1>3, <1>4 DEF T
<1> QED
  BY <1>3, <1>4, Zenon

\* What a recursive definition asks of f at n: the value g[n] where the recursion
\* ends (B), else what h[n] makes of the value at pred[n].
Rec(f, n, B, g, h, pred) == IF n \in B THEN g[n] ELSE h[n][f[pred[n]]]

\* The rank decreases with every step of the recursion.
Ranked(D, B, rank, pred) ==
  /\ rank \in [D -> Nat] /\ pred \in [D -> D]
  /\ \A n \in D : n \notin B => rank[pred[n]] < rank[n]

\* f solves the equation for every rank below k.
Solves(f, k, D, B, g, h, rank, pred) ==
  \A n \in D : rank[n] < k => f[n] = Rec(f, n, B, g, h, pred)

\* Two functions that solve the equation for every rank below k agree there.
LEMMA RecUnique ==
  ASSUME NEW D, NEW B, NEW g, NEW h, NEW rank, NEW pred, Ranked(D, B, rank, pred),
         NEW k \in Nat, NEW e, Solves(e, k, D, B, g, h, rank, pred),
         NEW f, Solves(f, k, D, B, g, h, rank, pred)
  PROVE  \A n \in D : rank[n] < k => e[n] = f[n]
<1> USE DEF Ranked, Solves
<1> DEFINE S == {r \in Nat : \A n \in D : rank[n] = r /\ r < k => e[n] = f[n]}
<1>1. ASSUME NEW r \in Nat, \A m \in Nat : m < r => m \in S PROVE r \in S
  <2> SUFFICES ASSUME NEW n \in D, rank[n] = r, r < k PROVE e[n] = f[n]
    BY Zenon
  <2>1. e[n] = Rec(e, n, B, g, h, pred) /\ f[n] = Rec(f, n, B, g, h, pred)
    BY Zenon
  <2>2. CASE n \in B
    BY <2>1, <2>2, Zenon DEF Rec
  <2>3. CASE n \notin B
    <3>1. pred[n] \in D /\ rank[pred[n]] < r
      BY <2>3, Zenon
    <3>2. rank[pred[n]] \in Nat /\ rank[pred[n]] < k
      BY <3>1
    <3>3. e[pred[n]] = f[pred[n]]
      BY <1>1, <3>1, <3>2, Zenon
    <3> QED
      BY <2>1, <2>3, <3>3, Zenon DEF Rec
  <2> QED BY <2>2, <2>3
<1> HIDE DEF S
<1>2. \A r \in Nat : r \in S
  BY <1>1, StrongInduction
<1> QED
  BY <1>2, Zenon DEF S

\* The equation can be solved for every rank below k.
LEMMA RecBelow ==
  ASSUME NEW D, NEW T, NEW B, NEW g \in [D -> T], NEW h \in [D -> [T -> T]],
         NEW rank, NEW pred, Ranked(D, B, rank, pred)
  PROVE  \A k \in Nat : \E f \in [D -> T] : Solves(f, k, D, B, g, h, rank, pred)
<1> USE DEF Ranked, Solves
<1> DEFINE S == {k \in Nat : \E f \in [D -> T] :
                   \A n \in D : rank[n] < k => f[n] = Rec(f, n, B, g, h, pred)}
<1>1. 0 \in S
  <2>1. \A n \in D : ~(rank[n] < 0)
    OBVIOUS
  <2> QED BY <2>1, Zenon
<1>2. ASSUME NEW k \in Nat, k \in S PROVE k + 1 \in S
  <2>1. PICK f \in [D -> T] : \A n \in D : rank[n] < k => f[n] = Rec(f, n, B, g, h, pred)
    BY <1>2, Zenon
  <2> DEFINE e == [n \in D |-> Rec(f, n, B, g, h, pred)]
  <2>2. e \in [D -> T]
    BY DEF Rec
  <2>3. ASSUME NEW n \in D, rank[n] < k + 1 PROVE e[n] = Rec(e, n, B, g, h, pred)
    <3>1. e[n] = Rec(f, n, B, g, h, pred)
      BY Zenon
    <3>2. CASE n \in B
      BY <3>1, <3>2, Zenon DEF Rec
    <3>3. CASE n \notin B
      <4>1. pred[n] \in D /\ rank[pred[n]] < rank[n]
        BY <3>3, Zenon
      <4>2. rank[pred[n]] < k
        BY <2>3, <4>1
      <4>3. f[pred[n]] = Rec(f, pred[n], B, g, h, pred)
        BY <2>1, <4>1, <4>2, Zenon
      <4>4. e[pred[n]] = f[pred[n]]
        BY <4>1, <4>3, Zenon
      <4> HIDE DEF e
      <4> QED
        BY <3>1, <3>3, <4>4, Zenon DEF Rec
    <3> QED BY <3>2, <3>3
  <2>4. k + 1 \in Nat
    OBVIOUS
  <2> HIDE DEF e
  <2> QED
    BY <2>2, <2>3, <2>4, Zenon
<1> HIDE DEF S
<1>3. \A k \in Nat : k \in S
  BY <1>1, <1>2, SetInduction
<1> QED
  BY <1>3, Zenon DEF S

\* A recursive definition over D with values in T.
Recursion(D, T, B, g, h, rank, pred) ==
  g \in [D -> T] /\ h \in [D -> [T -> T]] /\ Ranked(D, B, rank, pred)

\* The equation can be solved: a recursive definition whose rank decreases has a
\* solution, and its values have the type that the equation keeps.
LEMMA RecExists ==
  ASSUME NEW D, NEW T, NEW B, NEW g, NEW h, NEW rank, NEW pred,
         Recursion(D, T, B, g, h, rank, pred)
  PROVE  \E f \in [D -> T] : \A n \in D : f[n] = Rec(f, n, B, g, h, pred)
<1> g \in [D -> T] /\ h \in [D -> [T -> T]] /\ Ranked(D, B, rank, pred)
  BY DEF Recursion
<1> DEFINE Below(f, k) == Solves(f, k, D, B, g, h, rank, pred)
           sol(k) == CHOOSE f \in [D -> T] : Below(f, k)
           f == [n \in D |-> sol(rank[n] + 1)[n]]
<1>1. ASSUME NEW k \in Nat PROVE sol(k) \in [D -> T] /\ Below(sol(k), k)
  <2>1. \E e \in [D -> T] : Below(e, k)
    BY RecBelow
  <2> QED BY <2>1, Zenon
<1> HIDE DEF sol
<1>0. /\ rank \in [D -> Nat] /\ pred \in [D -> D]
      /\ \A n \in D : n \notin B => rank[pred[n]] < rank[n]
  BY DEF Ranked
<1>2. \A n \in D : rank[n] + 1 \in Nat /\ rank[n] < rank[n] + 1
  BY <1>0
<1>3. f \in [D -> T]
  <2>1. \A n \in D : sol(rank[n] + 1)[n] \in T
    BY <1>1, <1>2
  <2> QED BY <2>1
<1>4. ASSUME NEW n \in D PROVE f[n] = Rec(f, n, B, g, h, pred)
  <2> DEFINE s == sol(rank[n] + 1)
  <2>1. f[n] = s[n] /\ s[n] = Rec(s, n, B, g, h, pred)
    BY <1>1, <1>2, Zenon DEF Solves
  <2>2. CASE n \in B
    BY <2>1, <2>2, Zenon DEF Rec
  <2>3. CASE n \notin B
    <3> DEFINE m == pred[n]
               t == sol(rank[m] + 1)
    <3>1. m \in D /\ rank[m] < rank[n]
      BY <1>0, <2>3, Zenon
    <3>2. f[m] = t[m]
      BY <3>1, Zenon
    <3>3. Below(t, rank[m] + 1)
      BY <1>1, <1>2, <3>1, Zenon
    <3>4. Below(s, rank[m] + 1)
      <4>1. Below(s, rank[n] + 1)
        BY <1>1, <1>2, Zenon
      <4>2. \A i \in D : rank[i] < rank[m] + 1 => rank[i] < rank[n] + 1
        BY <1>0, <3>1
      <4> HIDE DEF s, m
      <4> QED BY <4>1, <4>2, Zenon DEF Solves
    <3>5. rank[m] + 1 \in Nat /\ rank[m] < rank[m] + 1
      BY <1>0, <3>1
    <3> HIDE DEF s, t, m
    <3>6. \A i \in D : rank[i] < rank[m] + 1 => s[i] = t[i]
      <4> DEFINE k == rank[m] + 1
      <4>1. k \in Nat /\ Solves(s, k, D, B, g, h, rank, pred) /\ Solves(t, k, D, B, g, h, rank, pred)
        BY <3>3, <3>4, <3>5
      <4> HIDE DEF k
      <4>2. \A i \in D : rank[i] < k => s[i] = t[i]
        BY <4>1, RecUnique
      <4> QED BY <4>2 DEF k
    <3>7. s[m] = t[m]
      BY <3>1, <3>5, <3>6, Zenon
    <3> USE DEF m
    <3> QED
      BY <2>1, <2>3, <3>2, <3>7, Zenon DEF Rec
  <2> QED BY <2>2, <2>3
<1> HIDE DEF f
<1> QED
  BY <1>3, <1>4, Zenon

\* A loop over the states D that stops in B with a result in T.
Turn(f, s, B, out, next) == IF s \in B THEN out[s] ELSE f[next[s]]
Loop(D, T, B, out, next) == B \subseteq D /\ out \in [D -> T] /\ next \in [D -> D]

\* The same for a loop, which may run for ever: what it returns is the result of
\* the first state in which it stops, if there is one.
LEMMA LoopExists ==
  ASSUME NEW D, NEW T, NEW B, NEW out, NEW next, Loop(D, T, B, out, next)
  PROVE  \E f \in [D -> T] : \A s \in D : f[s] = Turn(f, s, B, out, next)
<1> out \in [D -> T] /\ next \in [D -> D]
  BY DEF Loop
<1> DEFINE F == [D -> D]
           g == [n \in Nat |-> [s \in D |-> s]]
           Advance(i) == [s \in D |-> IF s \in B THEN s ELSE i[next[s]]]
           h == [n \in Nat |-> [i \in F |-> Advance(i)]]
           rank == [n \in Nat |-> n]
           pred == [n \in Nat |-> IF n = 0 THEN 0 ELSE n - 1]
<1>1. g \in [Nat -> F]
  OBVIOUS
<1>2. h \in [Nat -> [F -> F]]
  <2>1. \A i \in F : Advance(i) \in F
    OBVIOUS
  <2> HIDE DEF F, Advance
  <2> QED BY <2>1
<1>3. Ranked(Nat, {0}, rank, pred)
  BY DEF Ranked
<1>4. PICK it \in [Nat -> F] : \A n \in Nat : it[n] = Rec(it, n, {0}, g, h, pred)
  <2>1. Recursion(Nat, F, {0}, g, h, rank, pred)
    BY <1>1, <1>2, <1>3, Zenon DEF Recursion
  <2> HIDE DEF F, g, h, rank, pred
  <2> QED BY <2>1, RecExists
<1>5. ASSUME NEW s \in D PROVE it[0][s] = s
  <2>1. it[0] = g[0]
    BY <1>4 DEF Rec
  <2> QED BY <2>1
<1>6. ASSUME NEW n \in Nat, NEW s \in D
      PROVE  it[n + 1][s] = IF s \in B THEN s ELSE it[n][next[s]]
  <2>1. n + 1 \in Nat /\ n + 1 # 0 /\ pred[n + 1] = n
    OBVIOUS
  <2>2. it[n + 1] = h[n + 1][it[n]]
    BY <1>4, <2>1, Zenon DEF Rec
  <2>3. it[n] \in F
    BY <1>4, Zenon
  <2>4. it[n + 1] = Advance(it[n])
    BY <2>1, <2>2, <2>3, Zenon
  <2> QED
    BY <2>4, Zenon
<1> HIDE DEF g, h, rank, pred
<1> DEFINE V(s) == {x \in T : \E n \in Nat : it[n][s] \in B /\ x = out[it[n][s]]}
           f == [s \in D |-> CHOOSE x \in T : V(s) # {} => x \in V(s)]
<1>7. ASSUME NEW s \in D PROVE \E x \in T : V(s) # {} => x \in V(s)
  <2>1. out[s] \in T
    OBVIOUS
  <2> QED BY <2>1, Zenon
<1>8. f \in [D -> T]
  <2>1. \A s \in D : (CHOOSE x \in T : V(s) # {} => x \in V(s)) \in T
    BY <1>7, Zenon
  <2> HIDE DEF V
  <2> QED BY <2>1
<1>9. ASSUME NEW s \in D, s \in B PROVE f[s] = out[s]
  <2>1. \A n \in Nat : it[n][s] = s
    <3>1. ASSUME NEW n \in Nat PROVE it[n][s] = s
      <4>1. CASE n = 0
        BY <4>1, <1>5, Zenon
      <4>2. CASE n # 0
        <5>1. n - 1 \in Nat /\ (n - 1) + 1 = n
          BY <4>2
        <5>2. it[(n - 1) + 1][s] = s
          BY <1>6, <1>9, <5>1, Zenon
        <5> QED BY <5>1, <5>2, Zenon
      <4> QED BY <4>1, <4>2
    <3> QED BY <3>1
  <2>2. out[s] \in T /\ 0 \in Nat
    OBVIOUS
  <2>3. V(s) = {out[s]}
    BY <1>9, <2>1, <2>2, Zenon
  <2>4. (CHOOSE x \in T : V(s) # {} => x \in V(s)) \in V(s)
    BY <2>2, <2>3, Zenon
  <2> QED BY <2>3, <2>4, Zenon
<1>10. ASSUME NEW s \in D, s \notin B PROVE f[s] = f[next[s]]
  <2>1. next[s] \in D
    OBVIOUS
  <2>2. ASSUME NEW x \in V(s) PROVE x \in V(next[s])
    <3>1. PICK n \in Nat : it[n][s] \in B /\ x = out[it[n][s]]
      BY <2>2, Zenon
    <3>2. n # 0
      BY <1>5, <1>10, <3>1, Zenon
    <3>3. n - 1 \in Nat /\ (n - 1) + 1 = n
      BY <3>2
    <3>4. it[(n - 1) + 1][s] = it[n - 1][next[s]]
      BY <1>6, <1>10, <3>3, Zenon
    <3> QED BY <3>1, <3>3, <3>4, Zenon
  <2>3. ASSUME NEW x \in V(next[s]) PROVE x \in V(s)
    <3>1. PICK n \in Nat : it[n][next[s]] \in B /\ x = out[it[n][next[s]]]
      BY <2>3, Zenon
    <3>2. n + 1 \in Nat
      OBVIOUS
    <3>3. it[n + 1][s] = it[n][next[s]]
      BY <1>6, <1>10, Zenon
    <3> QED BY <3>1, <3>2, <3>3, Zenon
  <2> HIDE DEF V
  <2>4. V(s) = V(next[s])
    BY <2>2, <2>3, Zenon
  <2>5. f[s] = (CHOOSE x \in T : V(s) # {} => x \in V(s))
    BY Zenon
  <2>6. f[next[s]] = (CHOOSE x \in T : V(next[s]) # {} => x \in V(next[s]))
    BY <2>1, Zenon
  <2> HIDE DEF f
  <2> QED BY <2>4, <2>5, <2>6
<1> HIDE DEF f
<1> QED
  BY <1>8, <1>9, <1>10, Zenon DEF Turn

-----------------------------------------------------------------------------
(* Powers *)

\* Where the recursions over the numbers end, and how they go on.
PredNat == [n \in Nat |-> IF n = 0 THEN 0 ELSE n - 1]
RankNat == [n \in Nat |-> n]

\* Counting down to 0 is a recursion that ends.
LEMMA CountDown == Ranked(Nat, {0}, RankNat, PredNat)
BY DEF Ranked, PredNat, RankNat

\* The recursion of Power: its values are numbers.
LEMMA PowerDef ==
  ASSUME NEW b \in Nat
  PROVE  /\ Power(b, 0) = 1
         /\ \A k \in Nat : Power(b, k) \in Nat /\ Power(b, k + 1) = b * Power(b, k)
<1> DEFINE g == [n \in Nat |-> 1]
           h == [n \in Nat |-> [x \in Nat |-> b * x]]
<1>1. g \in [Nat -> Nat] /\ h \in [Nat -> [Nat -> Nat]]
  OBVIOUS
<1>2. PICK f \in [Nat -> Nat] : \A n \in Nat : f[n] = Rec(f, n, {0}, g, h, PredNat)
  <2>1. Recursion(Nat, Nat, {0}, g, h, RankNat, PredNat)
    BY <1>1, CountDown, Zenon DEF Recursion
  <2> HIDE DEF g, h
  <2> QED BY <2>1, RecExists
<1>3. f = [i \in Nat |-> IF i = 0 THEN 1 ELSE b * f[i - 1]]
  <2>1. ASSUME NEW n \in Nat PROVE f[n] = IF n = 0 THEN 1 ELSE b * f[n - 1]
    <3>1. f[n] = IF n = 0 THEN g[n] ELSE h[n][f[PredNat[n]]]
      BY <1>2 DEF Rec
    <3>2. n # 0 => PredNat[n] = n - 1 /\ n - 1 \in Nat
      BY DEF PredNat
    <3> QED BY <3>1, <3>2
  <2> QED BY <2>1
<1> DEFINE p == CHOOSE p : p = [i \in Nat |-> IF i = 0 THEN 1 ELSE b * p[i - 1]]
<1>4. p = [i \in Nat |-> IF i = 0 THEN 1 ELSE b * p[i - 1]]
  BY <1>3, Zenon
<1>5. \A k : Power(b, k) = p[k]
  BY Zenon DEF Power
<1> HIDE DEF p
<1>6. p[0] = 1 /\ \A n \in Nat : p[n + 1] = b * p[n]
  BY <1>4
<1> DEFINE S == {n \in Nat : p[n] \in Nat}
<1>7. 0 \in S /\ \A n \in Nat : n \in S => n + 1 \in S
  BY <1>6
<1> HIDE DEF S
<1>8. \A n \in Nat : n \in S
  BY <1>7, SetInduction
<1> QED
  BY <1>5, <1>6, <1>8 DEF S

-----------------------------------------------------------------------------
(* Division *)

\* There is only one way to divide.
LEMMA DivUnique ==
  ASSUME NEW x \in Nat, NEW d \in Nat, d >= 1, NEW q \in Nat, NEW r \in Nat, r < d,
         x = d * q + r
  PROVE  x \div d = q /\ x % d = r
BY SMT

\* A quotient is below a bound exactly when the number is below its multiple.
LEMMA DivBelow ==
  ASSUME NEW x \in Nat, NEW d \in Nat, d >= 1, NEW b \in Nat
  PROVE  x \div d < b <=> x < b * d
BY SMT

\* The quotient by its bounds.
LEMMA DivBounds ==
  ASSUME NEW x \in Nat, NEW d \in Nat, d >= 1
  PROVE  x \div d \in Nat /\ (x \div d) * d <= x /\ x < ((x \div d) + 1) * d
<1> DEFINE q == x \div d
<1>1. q \in Nat
  BY SMT
<1> HIDE DEF q
<1>2. x < (q + 1) * d /\ ~(x < q * d)
  <2>1. q + 1 \in Nat /\ q < q + 1 /\ ~(q < q)
    BY <1>1
  <2> QED BY <1>1, <2>1, DivBelow DEF q
<1>3. q \in Nat /\ q * d <= x /\ x < (q + 1) * d
  BY <1>1, <1>2
<1> QED BY <1>3, Zenon DEF q

\* ... and the remainder.
LEMMA ModRest ==
  ASSUME NEW x \in Nat, NEW d \in Nat, d >= 1
  PROVE  \E r \in Nat : r < d /\ x = d * (x \div d) + r /\ x % d = r
<1> DEFINE q == x \div d
           r == x - d * q
<1>1. q \in Nat /\ q * d <= x /\ x < (q + 1) * d
  BY DivBounds
<1> HIDE DEF q
<1>2. r \in Nat /\ r < d /\ x = d * q + r
  BY <1>1
<1> HIDE DEF r
<1>3. x % d = r
  BY <1>1, <1>2, DivUnique
<1> QED BY <1>2, <1>3 DEF q

\* Multiplication is monotone.
LEMMA MulMono ==
  ASSUME NEW a \in Nat, NEW b \in Nat, NEW c \in Nat, a <= b
  PROVE  a * c <= b * c
BY SMT

\* ... on both sides.
LEMMA MulMonoL ==
  ASSUME NEW a \in Nat, NEW b \in Nat, NEW c \in Nat, a <= b
  PROVE  c * a <= c * b
BY SMT

\* Powers are positive, and grow.
LEMMA PowerGrows ==
  ASSUME NEW b \in Nat, b >= 2
  PROVE  \A k \in Nat : /\ Power(b, k) \in Nat /\ Power(b, k) >= 1
                        /\ Power(b, k + 1) = b * Power(b, k)
                        /\ Power(b, k) < Power(b, k + 1) /\ k < Power(b, k)
<1> DEFINE S == {k \in Nat : Power(b, k) \in Nat /\ Power(b, k) >= 1 /\ k < Power(b, k)}
<1>1. 0 \in S
  <2>1. Power(b, 0) = 1
    BY PowerDef
  <2> QED BY <2>1
<1>2. ASSUME NEW k \in Nat, k \in S PROVE k + 1 \in S /\ Power(b, k) < Power(b, k + 1)
  <2> DEFINE p == Power(b, k)
  <2>1. p \in Nat /\ p >= 1 /\ k < p
    BY <1>2
  <2>2. Power(b, k + 1) = b * p
    BY PowerDef
  <2> HIDE DEF p
  <2>3. b * p >= 2 * p /\ b * p \in Nat
    BY <2>1, MulMono
  <2>4. k + 1 < b * p /\ b * p >= 1 /\ p < b * p
    BY <2>1, <2>3
  <2> QED BY <2>2, <2>3, <2>4 DEF p
<1>3. \A k \in Nat : k \in S
  <2> HIDE DEF S
  <2> QED BY <1>1, <1>2, SetInduction
<1> QED
  BY <1>2, <1>3, PowerDef

\* ... strictly.
LEMMA PowerMonotone ==
  ASSUME NEW b \in Nat, b >= 2, NEW k \in Nat, NEW m \in Nat, k < m
  PROVE  Power(b, k) < Power(b, m)
<1> DEFINE S == {i \in Nat : Power(b, k) < Power(b, k + 1 + i)}
<1>1. 0 \in S
  <2>1. (k + 1) + 0 = k + 1
    OBVIOUS
  <2> QED BY <2>1, PowerGrows
<1>2. ASSUME NEW i \in Nat, i \in S PROVE i + 1 \in S
  <2>1. k + 1 + i \in Nat /\ (k + 1 + i) + 1 = k + 1 + (i + 1)
    OBVIOUS
  <2>2. Power(b, k + 1 + i) < Power(b, (k + 1 + i) + 1)
    BY <2>1, PowerGrows
  <2>3. Power(b, k) \in Nat /\ Power(b, k + 1 + i) \in Nat /\ Power(b, (k + 1 + i) + 1) \in Nat
    <3>1. \A j \in Nat : Power(b, j) \in Nat
      BY PowerGrows
    <3>2. (k + 1 + i) + 1 \in Nat
      OBVIOUS
    <3> QED BY <2>1, <3>1, <3>2, Zenon
  <2>4. Power(b, k) < Power(b, (k + 1 + i) + 1)
    BY <1>2, <2>2, <2>3
  <2> QED BY <2>1, <2>4
<1>3. m - (k + 1) \in Nat /\ k + 1 + (m - (k + 1)) = m
  OBVIOUS
<1>4. \A i \in Nat : i \in S
  <2> HIDE DEF S
  <2> QED BY <1>1, <1>2, SetInduction
<1>5. Power(b, k) < Power(b, k + 1 + (m - (k + 1)))
  BY <1>3, <1>4
<1> QED BY <1>3, <1>5

-----------------------------------------------------------------------------
(* The digits of a number *)

\* The recursion of Width.
LEMMA WidthDef ==
  ASSUME NEW b \in Nat, b >= 2
  PROVE  \A v \in Nat : /\ Width(v, b) \in Nat
                        /\ v < b => Width(v, b) = 1
                        /\ v >= b => Width(v, b) = 1 + Width(v \div b, b)
<1> DEFINE B == {n \in Nat : n < b}
           g == [n \in Nat |-> 1]
           h == [n \in Nat |-> [x \in Nat |-> 1 + x]]
           pred == [n \in Nat |-> n \div b]
<1>1. g \in [Nat -> Nat] /\ h \in [Nat -> [Nat -> Nat]]
  OBVIOUS
<1>2. \A n \in Nat : n \div b \in Nat /\ (n >= b => n \div b < n)
  <2>1. ASSUME NEW n \in Nat, n >= b PROVE n \div b < n
    <3>1. n < n * b
      BY <2>1, MulMonoL
    <3> QED BY <3>1, DivBelow
  <2> QED BY <2>1, DivBounds
<1>3. Ranked(Nat, B, RankNat, pred)
  BY <1>2 DEF Ranked, RankNat
<1>4. PICK f \in [Nat -> Nat] : \A n \in Nat : f[n] = Rec(f, n, B, g, h, pred)
  <2>1. Recursion(Nat, Nat, B, g, h, RankNat, pred)
    BY <1>1, <1>3, Zenon DEF Recursion
  <2> HIDE DEF B, g, h, pred
  <2> QED BY <2>1, RecExists
<1>5. f = [n \in Nat |-> IF n >= b THEN 1 + f[n \div b] ELSE 1]
  <2>1. ASSUME NEW n \in Nat PROVE f[n] = IF n >= b THEN 1 + f[n \div b] ELSE 1
    <3>1. f[n] = IF n \in B THEN g[n] ELSE h[n][f[pred[n]]]
      BY <1>4 DEF Rec
    <3>2. f[n \div b] \in Nat /\ pred[n] = n \div b /\ (n \in B <=> ~(n >= b))
      BY <1>2
    <3> QED BY <3>1, <3>2
  <2> QED BY <2>1
<1> DEFINE w == CHOOSE w : w = [n \in Nat |-> IF n >= b THEN 1 + w[n \div b] ELSE 1]
<1>6. w = [n \in Nat |-> IF n >= b THEN 1 + w[n \div b] ELSE 1]
  BY <1>5, Zenon
<1>7. \A v : Width(v, b) = w[v]
  BY Zenon DEF Width
<1> HIDE DEF w
<1> DEFINE S == {n \in Nat : w[n] \in Nat}
<1>8. ASSUME NEW n \in Nat, \A m \in Nat : m < n => m \in S PROVE n \in S
  <2>1. n >= b => w[n \div b] \in Nat
    BY <1>2, <1>8
  <2> QED BY <1>6, <2>1
<1>9. \A n \in Nat : n \in S
  <2> HIDE DEF S
  <2> QED BY <1>8, StrongInduction
<1>10. \A n \in Nat : /\ w[n] \in Nat /\ (n < b => w[n] = 1)
                        /\ (n >= b => w[n] = 1 + w[n \div b])
  BY <1>6, <1>9
<1> QED
  BY <1>7, <1>10, Zenon

\* Width digits are enough, and one less is not.
LEMMA WidthIsExact ==
  ASSUME NEW b \in Nat, b >= 2, NEW v \in Nat
  PROVE  /\ Width(v, b) \in Nat /\ Width(v, b) >= 1
         /\ v < Power(b, Width(v, b))
         /\ Power(b, Width(v, b) - 1) <= Max2(v, 1)
<1> DEFINE Good(n) == /\ Width(n, b) >= 1 /\ n < Power(b, Width(n, b))
                      /\ Power(b, Width(n, b) - 1) <= Max2(n, 1)
           S == {n \in Nat : Good(n)}
<1>1. ASSUME NEW n \in Nat, \A m \in Nat : m < n => m \in S PROVE n \in S
  <2>1. CASE n < b
    <3>1. Width(n, b) = 1 /\ Power(b, 0) = 1 /\ Power(b, 0 + 1) = b * Power(b, 0)
      BY <2>1, WidthDef, PowerDef
    <3>2. Power(b, 1) = b
      BY <3>1
    <3> QED BY <2>1, <3>1, <3>2 DEF Max2
  <2>2. CASE n >= b
    <3> DEFINE q == n \div b
               w == Width(q, b)
    <3>1. q \in Nat /\ n < (q + 1) * b /\ q * b <= n /\ q < n /\ q >= 1
      <4>1. q \in Nat /\ n < (q + 1) * b /\ q * b <= n
        BY DivBounds
      <4> HIDE DEF q
      <4>3. q >= 1
        BY <2>2, <4>1
      <4>4. q * b >= q * 2
        BY <4>1, MulMonoL
      <4> QED BY <4>1, <4>3, <4>4
    <3>2. w \in Nat /\ w >= 1 /\ q < Power(b, w) /\ Power(b, w - 1) <= q
      <4>1. q \in S
        BY <1>1, <3>1
      <4> QED BY <3>1, <4>1, WidthDef DEF Max2
    <3>3. Width(n, b) = 1 + w
      BY <2>2, WidthDef
    <3> HIDE DEF q, w
    <3> DEFINE p == Power(b, w)
               o == Power(b, w - 1)
    <3>4. w - 1 \in Nat /\ (w - 1) + 1 = w /\ (1 + w) - 1 = w /\ 1 + w = w + 1
      BY <3>2
    <3>5. p \in Nat /\ o \in Nat /\ p = b * o /\ Power(b, w + 1) = b * p
      BY <3>2, <3>4, PowerDef
    <3> HIDE DEF p, o
    <3>6. (q + 1) * b <= p * b /\ b * o <= b * q
      BY <3>1, <3>2, <3>5, MulMono, MulMonoL DEF p, o
    <3>7. n < b * p /\ p <= n
      BY <3>1, <3>5, <3>6
    <3>8. n < Power(b, 1 + w) /\ Power(b, (1 + w) - 1) <= n
      BY <3>4, <3>5, <3>7 DEF p
    <3>9. Max2(n, 1) = n
      BY <2>2 DEF Max2
    <3> QED BY <3>2, <3>3, <3>8, <3>9
  <2> QED BY <2>1, <2>2
<1>2. \A n \in Nat : n \in S
  <2> HIDE DEF S
  <2> QED BY <1>1, StrongInduction
<1> QED BY <1>2, WidthDef

\* k digits are what v needs.
HasDigits(v, b, k) == k >= 1 /\ Power(b, k - 1) <= Max2(v, 1) /\ v < Power(b, k)

\* No two lengths are.
LEMMA OneLength ==
  ASSUME NEW b \in Nat, b >= 2, NEW v \in Nat, NEW k \in Nat, NEW m \in Nat,
         HasDigits(v, b, k), HasDigits(v, b, m)
  PROVE  ~(k < m)
<1> SUFFICES ASSUME k < m PROVE FALSE
  OBVIOUS
<1>1. k >= 1 /\ v < Power(b, k) /\ Power(b, m - 1) <= Max2(v, 1) /\ m - 1 \in Nat
  BY DEF HasDigits
<1>2. Power(b, k) <= Power(b, m - 1)
  <2>1. CASE k = m - 1
    <3>1. Power(b, k) \in Nat
      BY PowerGrows
    <3> QED BY <2>1, <3>1
  <2>2. CASE k < m - 1
    <3>1. Power(b, k) < Power(b, m - 1)
      BY <1>1, <2>2, PowerMonotone
    <3>2. Power(b, k) \in Nat /\ Power(b, m - 1) \in Nat
      BY <1>1, PowerGrows
    <3> QED BY <3>1, <3>2
  <2> QED BY <1>1, <2>1, <2>2
<1>3. Power(b, 0) < Power(b, k) /\ Power(b, 0) = 1
  BY <1>1, PowerMonotone, PowerDef
<1>4. Power(b, k) \in Nat /\ Power(b, m - 1) \in Nat
  BY <1>1, PowerGrows
<1> QED BY <1>1, <1>2, <1>3, <1>4 DEF Max2

\* The reference writes as many digits as the loop of Width counts.
LEMMA CanonicalLength ==
  ASSUME NEW b \in Nat, b >= 2, NEW v \in Nat, v < UWord
  PROVE  CanonicalDigits(v, b) =
           [i \in 1 .. Width(v, b) |-> (v \div Power(b, Width(v, b) - i)) % b]
<1> DEFINE w == Width(v, b)
           P(k) == Power(b, k - 1) <= Max2(v, 1) /\ v < Power(b, k)
           n == CHOOSE k \in 1 .. UWord : P(k)
<1>0. UWord \in Nat /\ UWord >= 2
  BY PrintfAssumption
<1>1. w \in Nat /\ w >= 1 /\ P(w)
  BY WidthIsExact
<1>2. w \in 1 .. UWord
  <2>1. w - 1 \in Nat
    BY <1>1
  <2>2. w - 1 < Power(b, w - 1) /\ Power(b, w - 1) \in Nat
    <3> HIDE DEF w
    <3> QED BY <2>1, PowerGrows
  <2>3. Max2(v, 1) < UWord /\ Max2(v, 1) \in Nat
    BY <1>0 DEF Max2
  <2> HIDE DEF w
  <2> QED BY <1>0, <1>1, <2>2, <2>3
<1>3. n \in 1 .. UWord /\ P(n)
  <2> HIDE DEF w, P
  <2> QED BY <1>1, <1>2, Zenon
<1>4. CanonicalDigits(v, b) = [i \in 1 .. n |-> (v \div Power(b, n - i)) % b]
  BY Zenon DEF CanonicalDigits
<1>5. n = w
  <2> HIDE DEF n, w
  <2>1. n \in Nat /\ HasDigits(v, b, n) /\ HasDigits(v, b, w)
    BY <1>0, <1>1, <1>3 DEF HasDigits
  <2>2. ~(n < w) /\ ~(w < n)
    BY <1>1, <2>1, OneLength
  <2> QED BY <1>1, <2>1, <2>2
<1> HIDE DEF n
<1> QED BY <1>4, <1>5, Zenon

\* What the loop of FirstDigit asks of its solution.
LEMMA FirstDigitDef ==
  ASSUME NEW v \in Nat, NEW b \in Nat, NEW nd \in Nat
  PROVE  \E loop :
           /\ FirstDigit(v, b, nd) = loop[Power(b, Max2(nd, 1) - 1) % UWord]
           /\ \A d \in Nat : loop[d] = IF v \div d < b THEN d ELSE loop[(d * b) % UWord]
<1> DEFINE B == {d \in Nat : v \div d < b}
           out == [d \in Nat |-> d]
           next == [d \in Nat |-> (d * b) % UWord]
<1>1. out \in [Nat -> Nat] /\ next \in [Nat -> Nat]
  <2>1. UWord \in Nat /\ UWord >= 1
    BY PrintfAssumption
  <2>2. ASSUME NEW d \in Nat PROVE (d * b) % UWord \in Nat
    <3>1. d * b \in Nat
      OBVIOUS
    <3> QED BY <2>1, <3>1, ModRest
  <2> QED BY <2>2
<1>2. PICK f \in [Nat -> Nat] : \A d \in Nat : f[d] = Turn(f, d, B, out, next)
  <2>1. Loop(Nat, Nat, B, out, next)
    BY <1>1, Zenon DEF Loop
  <2> HIDE DEF B, out, next
  <2> QED BY <2>1, LoopExists
<1>3. f = [d \in Nat |-> IF v \div d < b THEN d ELSE f[(d * b) % UWord]]
  <2>1. \A d \in Nat : f[d] = IF v \div d < b THEN d ELSE f[(d * b) % UWord]
    BY <1>2, Zenon DEF Turn
  <2> QED BY <2>1, Zenon
<1> DEFINE loop == CHOOSE l : l = [d \in Nat |-> IF v \div d < b THEN d ELSE l[(d * b) % UWord]]
<1>4. loop = [d \in Nat |-> IF v \div d < b THEN d ELSE loop[(d * b) % UWord]]
  BY <1>3, Zenon
<1>5. FirstDigit(v, b, nd) = loop[Power(b, Max2(nd, 1) - 1) % UWord]
  BY Zenon DEF FirstDigit
<1> HIDE DEF loop
<1>6. \A d \in Nat : loop[d] = IF v \div d < b THEN d ELSE loop[(d * b) % UWord]
  BY <1>4, Zenon
<1> QED BY <1>5, <1>6

\* A number below the modulus is its own remainder.
LEMMA SmallMod ==
  ASSUME NEW x \in Nat, NEW d \in Nat, x < d
  PROVE  x % d = x
<1>1. d >= 1 /\ x = d * 0 + x
  OBVIOUS
<1> QED BY <1>1, DivUnique

\* The loop ends at the weight of the first of max(Width, NumDigits) digits, and
\* the weight does not wrap around on the way.
LEMMA FirstDigitIsExact ==
  ASSUME NEW b \in Nat, b >= 2, NEW v \in Nat, v < UWord, NEW nd \in Nat,
         nd >= 1 => Power(b, nd - 1) < UWord
  PROVE  FirstDigit(v, b, nd) = Power(b, Max2(Width(v, b), nd) - 1)
<1> DEFINE w  == Width(v, b)
           M  == Max2(w, nd) - 1
           m0 == Max2(nd, 1) - 1
<1>0. UWord \in Nat /\ UWord >= 2
  BY PrintfAssumption
<1>1. w \in Nat /\ w >= 1 /\ v < Power(b, w) /\ Power(b, w - 1) <= Max2(v, 1)
  BY WidthIsExact
<1> HIDE DEF w
<1>2. M \in Nat /\ m0 \in Nat /\ m0 <= M /\ w <= M + 1 /\ (m0 < M => M = w - 1)
  BY <1>1 DEF Max2
<1>3. PICK loop :
        /\ FirstDigit(v, b, nd) = loop[Power(b, m0) % UWord]
        /\ \A d \in Nat : loop[d] = IF v \div d < b THEN d ELSE loop[(d * b) % UWord]
  BY FirstDigitDef
<1>4. Power(b, m0) < UWord
  <2>1. CASE nd >= 1
    BY <2>1 DEF Max2
  <2>2. CASE nd = 0
    <3>1. m0 = 0
      BY <2>2 DEF Max2
    <3>2. Power(b, 0) = 1
      BY PowerDef
    <3> QED BY <1>0, <3>1, <3>2
  <2> QED BY <2>1, <2>2
<1> HIDE DEF M, m0
<1>p. \A k \in Nat : Power(b, k) \in Nat /\ Power(b, k) >= 1 /\ Power(b, k + 1) = b * Power(b, k)
  BY PowerGrows
<1> DEFINE S == {j \in Nat : j <= M - m0 => loop[Power(b, M - j)] = Power(b, M)}
<1>5. 0 \in S
  <2>1. v < Power(b, M + 1)
    <3>1. CASE w = M + 1
      BY <1>1, <3>1
    <3>2. CASE w < M + 1
      <4>1. Power(b, w) < Power(b, M + 1)
        BY <1>1, <1>2, <3>2, PowerMonotone
      <4>2. M + 1 \in Nat
        BY <1>2
      <4>3. Power(b, w) \in Nat /\ Power(b, M + 1) \in Nat
        BY <1>1, <1>p, <4>2, Zenon
      <4> QED BY <1>1, <4>1, <4>3
    <3> QED BY <1>1, <1>2, <3>1, <3>2
  <2>2. v < b * Power(b, M)
    BY <1>2, <1>p, <2>1
  <2>3. v \div Power(b, M) < b
    BY <1>2, <1>p, <2>2, DivBelow
  <2>4. loop[Power(b, M)] = Power(b, M)
    BY <1>2, <1>3, <1>p, <2>3, Zenon
  <2>5. M - 0 = M
    BY <1>2
  <2> QED BY <2>4, <2>5
<1>6. ASSUME NEW j \in Nat, j \in S PROVE j + 1 \in S
  <2> SUFFICES ASSUME j + 1 <= M - m0 PROVE loop[Power(b, M - (j + 1))] = Power(b, M)
    OBVIOUS
  <2> DEFINE i == M - (j + 1)
  <2>1. i \in Nat /\ i + 1 = M - j /\ j <= M - m0 /\ M = w - 1 /\ i + 1 <= w - 1
    BY <1>2
  <2>2. loop[Power(b, i + 1)] = Power(b, M)
    BY <1>6, <2>1
  <2> HIDE DEF i
  <2>3. Power(b, i + 1) <= v
    <3>1. w - 1 \in Nat /\ i + 1 \in Nat
      BY <1>1, <2>1
    <3>0. Power(b, 0) < Power(b, i + 1) /\ Power(b, 0) = 1
      <4>1. Power(b, 0) = 1
        BY PowerDef
      <4>2. 0 \in Nat /\ 0 < i + 1
        BY <2>1
      <4>3. Power(b, 0) < Power(b, i + 1)
        BY <3>1, <4>2, PowerMonotone
      <4> QED BY <4>1, <4>3
    <3>2. CASE i + 1 = w - 1
      <4>2. Power(b, i + 1) <= Max2(v, 1) /\ Power(b, i + 1) \in Nat
        BY <1>1, <1>p, <3>1, <3>2
      <4> QED BY <3>0, <4>2 DEF Max2
    <3>3. CASE i + 1 < w - 1
      <4>2. Power(b, i + 1) < Power(b, w - 1)
        BY <3>1, <3>3, PowerMonotone
      <4>3. Power(b, i + 1) \in Nat /\ Power(b, w - 1) \in Nat
        BY <1>p, <3>1, Zenon
      <4> QED BY <1>1, <3>0, <4>2, <4>3 DEF Max2
    <3> QED BY <2>1, <3>1, <3>2, <3>3
  <2>4. Power(b, i) \in Nat /\ Power(b, i) >= 1 /\ Power(b, i + 1) = b * Power(b, i)
    BY <1>p, <2>1, Zenon
  <2> DEFINE p == Power(b, i)
  <2>5. ~(v \div p < b)
    <3>1. ~(v < b * p)
      BY <2>3, <2>4
    <3> HIDE DEF p
    <3> QED BY <2>4, <3>1, DivBelow DEF p
  <2>6. (p * b) % UWord = Power(b, i + 1)
    <3>1. p * b = Power(b, i + 1) /\ p * b \in Nat /\ p * b < UWord
      BY <1>0, <2>3, <2>4
    <3> QED BY <1>0, <3>1, SmallMod
  <2>7. loop[p] = loop[(p * b) % UWord]
    BY <1>3, <2>4, <2>5, Zenon
  <2> QED BY <2>2, <2>6, <2>7, Zenon DEF i
<1>7. \A j \in Nat : j \in S
  <2> HIDE DEF S
  <2> QED BY <1>5, <1>6, SetInduction
<1>8. M - m0 \in Nat /\ M - (M - m0) = m0 /\ M - m0 <= M - m0
  BY <1>2
<1>9. loop[Power(b, m0)] = Power(b, M)
  BY <1>7, <1>8
<1>10. Power(b, m0) % UWord = Power(b, m0)
  BY <1>0, <1>2, <1>4, <1>p, SmallMod
<1> QED BY <1>3, <1>9, <1>10, Zenon DEF M, w

\* The digits of x, n of them, the highest first.
DigitSeq(x, b, n) == [i \in 1 .. n |-> (x \div Power(b, n - i)) % b]

\* What the recursion of Digits asks of its solution: out[d][x] is printed at
\* weight d for the rest x.
Prints(out, v, b, nd) ==
  /\ Digits(v, b, nd) = out[FirstDigit(v, b, nd)][v]
  /\ \A x \in Nat : out[0][x] = <<>>
  /\ \A d, x \in Nat : d >= 1 => out[d][x] = <<x \div d>> \o out[d \div b][x % d]

\* There is one.
LEMMA DigitsDef ==
  ASSUME NEW b \in Nat, b >= 2, NEW v \in Nat, NEW nd \in Nat
  PROVE  \E out : Prints(out, v, b, nd)
<1> DEFINE T == [Nat -> Seq(Nat)]
           g == [d \in Nat |-> [x \in Nat |-> <<>>]]
           One(d, s) == [x \in Nat |-> IF d = 0 THEN <<>> ELSE <<x \div d>> \o s[x % d]]
           h == [d \in Nat |-> [s \in T |-> One(d, s)]]
           pred == [d \in Nat |-> d \div b]
<1>1. g \in [Nat -> T]
  <2>1. <<>> \in Seq(Nat)
    OBVIOUS
  <2> QED BY <2>1
<1>2. h \in [Nat -> [T -> T]]
  <2>1. ASSUME NEW d \in Nat, NEW s \in T PROVE One(d, s) \in T
    <3>1. ASSUME NEW x \in Nat
          PROVE  (IF d = 0 THEN <<>> ELSE <<x \div d>> \o s[x % d]) \in Seq(Nat)
      <4>1. CASE d = 0
        BY <4>1
      <4>2. CASE d # 0
        <5>1. d >= 1
          BY <4>2
        <5>2. x \div d \in Nat
          BY <5>1, DivBounds
        <5>3. x % d \in Nat
          BY <5>1, ModRest
        <5> DEFINE q == x \div d
                   r == x % d
        <5>4. s[r] \in Seq(Nat) /\ q \in Nat
          BY <5>2, <5>3
        <5> HIDE DEF q, r
        <5>5. <<q>> \o s[r] \in Seq(Nat)
          BY <5>4
        <5> QED BY <4>2, <5>5, Zenon DEF q, r
      <4> QED BY <4>1, <4>2
    <3> QED BY <3>1, Zenon
  <2> HIDE DEF T, One
  <2> QED BY <2>1
<1>3. \A d \in Nat : d \div b \in Nat /\ (d # 0 => d \div b < d)
  <2>1. ASSUME NEW d \in Nat, d # 0 PROVE d \div b < d
    <3>1. d * 2 <= d * b
      BY MulMonoL
    <3>2. d < d * b
      BY <2>1, <3>1
    <3> QED BY <3>2, DivBelow
  <2> QED BY <2>1, DivBounds
<1>4. Ranked(Nat, {0}, RankNat, pred)
  BY <1>3 DEF Ranked, RankNat
<1>5. PICK f \in [Nat -> T] : \A d \in Nat : f[d] = Rec(f, d, {0}, g, h, pred)
  <2>1. Recursion(Nat, T, {0}, g, h, RankNat, pred)
    BY <1>1, <1>2, <1>4, Zenon DEF Recursion
  <2> HIDE DEF T, g, h, pred
  <2> QED BY <2>1, RecExists
<1>6. f = [d \in Nat |-> [x \in Nat |-> IF d = 0 THEN <<>> ELSE <<x \div d>> \o f[d \div b][x % d]]]
  <2>1. ASSUME NEW d \in Nat PROVE f[d] = One(d, f[d \div b])
    <3>1. f[d] = IF d \in {0} THEN g[d] ELSE h[d][f[pred[d]]]
      BY <1>5, Zenon DEF Rec
    <3>2. CASE d = 0
      <4>1. f[d] = g[d]
        BY <3>1, <3>2, Zenon
      <4> QED BY <3>2, <4>1, Zenon
    <3>3. CASE d # 0
      <4>1. f[d] = h[d][f[pred[d]]]
        BY <3>1, <3>3, Zenon
      <4>2. pred[d] = d \div b /\ f[d \div b] \in T
        BY <1>3, <1>5, Zenon
      <4> HIDE DEF One, T
      <4> QED BY <4>1, <4>2, Zenon
    <3> QED BY <3>2, <3>3
  <2> QED BY <2>1, Zenon
<1> DEFINE out == CHOOSE o : o = [d \in Nat |-> [x \in Nat |->
                     IF d = 0 THEN <<>> ELSE <<x \div d>> \o o[d \div b][x % d]]]
<1>7. out = [d \in Nat |-> [x \in Nat |-> IF d = 0 THEN <<>> ELSE <<x \div d>> \o out[d \div b][x % d]]]
  BY <1>6, Zenon
<1>8. Digits(v, b, nd) = out[FirstDigit(v, b, nd)][v]
  BY Zenon DEF Digits
<1> HIDE DEF out
<1> DEFINE Line(d) == [x \in Nat |-> IF d = 0 THEN <<>> ELSE <<x \div d>> \o out[d \div b][x % d]]
<1>a. \A d \in Nat : out[d] = Line(d)
  <2>1. out = [d \in Nat |-> Line(d)]
    BY <1>7, Zenon
  <2> HIDE DEF Line
  <2> QED BY <2>1, Zenon
<1>9. \A x \in Nat : out[0][x] = <<>>
  <2>1. 0 \in Nat
    OBVIOUS
  <2> QED BY <1>a, <2>1, Zenon
<1>10. ASSUME NEW d \in Nat, NEW x \in Nat, d >= 1
       PROVE  out[d][x] = <<x \div d>> \o out[d \div b][x % d]
  <2>1. d # 0
    BY <1>10
  <2> QED BY <1>a, <2>1, Zenon
<1> QED BY <1>8, <1>9, <1>10 DEF Prints

\* r is what is left of x without k times b * e.
LeftOf(x, k, b, e, r) == x = (k * b) * e + r

\* Leaving out multiples of b * e does not change the digit of weight e.
LEMMA DigitOfRest ==
  ASSUME NEW b \in Nat, b >= 1, NEW e \in Nat, e >= 1, NEW k \in Nat, NEW r \in Nat,
         NEW x \in Nat, LeftOf(x, k, b, e, r)
  PROVE  (x \div e) % b = (r \div e) % b
<1>1. PICK t \in Nat : t < e /\ r = e * (r \div e) + t
  BY ModRest
<1> DEFINE s == r \div e
<1>2. s \in Nat
  BY DivBounds
<1>3. r = e * s + t
  BY <1>1
<1> HIDE DEF s
<1>4. k * b + s \in Nat /\ x = e * (k * b + s) + t
  BY <1>2, <1>3 DEF LeftOf
<1>5. x \div e = k * b + s
  BY <1>1, <1>4, DivUnique
<1>6. PICK u \in Nat : u < b /\ s = b * (s \div b) + u /\ s % b = u
  BY <1>2, ModRest
<1> DEFINE a == s \div b
<1>7. a \in Nat
  BY <1>2, DivBounds
<1>8. s = b * a + u
  BY <1>6
<1> HIDE DEF a
<1>9. k + a \in Nat /\ k * b + s = b * (k + a) + u
  BY <1>7, <1>8
<1>10. (k * b + s) % b = u
  BY <1>4, <1>6, <1>9, DivUnique
<1> QED BY <1>5, <1>6, <1>10, Zenon DEF s

\* A power is a multiple of b times every lower one.
LEMMA PowerFactor ==
  ASSUME NEW b \in Nat, b >= 2, NEW j \in Nat, NEW m \in Nat, j <= m
  PROVE  \E c \in Nat : Power(b, m + 1) = (c * b) * Power(b, j)
<1>p. \A k \in Nat : Power(b, k) \in Nat /\ Power(b, k + 1) = b * Power(b, k)
  BY PowerGrows
<1> DEFINE S == {i \in Nat : \E c \in Nat : Power(b, (j + i) + 1) = (c * b) * Power(b, j)}
<1>1. 0 \in S
  <2>1. j + 0 = j /\ Power(b, j + 1) = (1 * b) * Power(b, j)
    BY <1>p
  <2>2. Power(b, (j + 0) + 1) = (1 * b) * Power(b, j)
    BY <2>1
  <2> QED BY <2>2
<1>2. ASSUME NEW i \in Nat, i \in S PROVE i + 1 \in S
  <2>1. PICK c \in Nat : Power(b, (j + i) + 1) = (c * b) * Power(b, j)
    BY <1>2
  <2>2. (j + i) + 1 \in Nat /\ (j + (i + 1)) + 1 = ((j + i) + 1) + 1
    OBVIOUS
  <2>3. Power(b, ((j + i) + 1) + 1) = b * Power(b, (j + i) + 1)
    BY <1>p, <2>2, Zenon
  <2> DEFINE p == Power(b, j)
  <2>4. p \in Nat
    BY <1>p
  <2>5. b * ((c * b) * p) = ((b * c) * b) * p /\ b * c \in Nat
    <3> HIDE DEF p
    <3> QED BY <2>4
  <2>6. Power(b, (j + (i + 1)) + 1) = ((b * c) * b) * Power(b, j)
    BY <2>1, <2>2, <2>3, <2>5, Zenon
  <2>7. i + 1 \in Nat
    OBVIOUS
  <2> QED BY <2>5, <2>6, <2>7, Zenon
<1>3. \A i \in Nat : i \in S
  <2> HIDE DEF S
  <2> QED BY <1>1, <1>2, SetInduction
<1>4. m - j \in Nat /\ j + (m - j) = m
  OBVIOUS
<1>5. m - j \in S
  BY <1>3, <1>4
<1> QED BY <1>4, <1>5

\* A digit is a number.
LEMMA DigitSeqType ==
  ASSUME NEW b \in Nat, b >= 2, NEW x \in Nat, NEW n \in Nat
  PROVE  /\ DigitSeq(x, b, n) \in Seq(Nat) /\ Len(DigitSeq(x, b, n)) = n
         /\ \A i \in 1 .. n : DigitSeq(x, b, n)[i] = (x \div Power(b, n - i)) % b
<1>1. ASSUME NEW i \in 1 .. n PROVE (x \div Power(b, n - i)) % b \in Nat
  <2>1. n - i \in Nat
    OBVIOUS
  <2>2. Power(b, n - i) \in Nat /\ Power(b, n - i) >= 1
    BY <2>1, PowerGrows
  <2>3. x \div Power(b, n - i) \in Nat
    BY <2>2, DivBounds
  <2> QED BY <2>3, ModRest
<1> QED BY <1>1 DEF DigitSeq

\* The first digit, and the digits of what it leaves.
LEMMA DigitSeqSplit ==
  ASSUME NEW b \in Nat, b >= 2, NEW m \in Nat, NEW x \in Nat, x < Power(b, m + 2)
  PROVE  DigitSeq(x, b, m + 2) =
           <<x \div Power(b, m + 1)>> \o DigitSeq(x % Power(b, m + 1), b, m + 1)
<1> DEFINE D == Power(b, m + 1)
           q == x \div D
           r == x % D
<1>1. D \in Nat /\ D >= 1 /\ Power(b, m + 2) = b * D
  <2>1. m + 1 \in Nat /\ (m + 1) + 1 = m + 2
    OBVIOUS
  <2> QED BY <2>1, PowerGrows
<1>2. q \in Nat /\ r \in Nat /\ x = D * q + r
  <2>1. q \in Nat
    BY <1>1, DivBounds
  <2>2. \E t \in Nat : t < D /\ x = D * q + t /\ r = t
    BY <1>1, ModRest
  <2> QED BY <2>1, <2>2, Zenon
<1>3. q < b
  <2>1. x < b * D
    BY <1>1
  <2> QED BY <1>1, <2>1, DivBelow
<1> DEFINE long == DigitSeq(x, b, m + 2)
           short == DigitSeq(r, b, m + 1)
<1>4. m + 1 \in Nat /\ m + 2 \in Nat
  OBVIOUS
<1>5. /\ long \in Seq(Nat) /\ Len(long) = m + 2
      /\ \A i \in 1 .. m + 2 : long[i] = (x \div Power(b, m + 2 - i)) % b
  BY <1>4, DigitSeqType
<1>6. /\ short \in Seq(Nat) /\ Len(short) = m + 1
      /\ \A i \in 1 .. m + 1 : short[i] = (r \div Power(b, m + 1 - i)) % b
  <2> HIDE DEF r
  <2> QED BY <1>2, <1>4, DigitSeqType
<1>7. long[1] = q
  <2>1. 1 \in 1 .. m + 2 /\ m + 2 - 1 = m + 1
    OBVIOUS
  <2>2. long[1] = q % b
    BY <1>5, <2>1
  <2>3. q % b = q
    <3> HIDE DEF q
    <3> QED BY <1>2, <1>3, SmallMod
  <2> QED BY <2>2, <2>3, Zenon
<1>8. ASSUME NEW i \in 1 .. m + 1 PROVE long[i + 1] = short[i]
  <2> DEFINE j == m + 1 - i
             e == Power(b, j)
  <2>1. i + 1 \in 1 .. m + 2 /\ m + 2 - (i + 1) = j /\ j \in Nat /\ j <= m
    OBVIOUS
  <2>2. long[i + 1] = (x \div e) % b
    <3>1. long[i + 1] = (x \div Power(b, m + 2 - (i + 1))) % b
      BY <1>5, <2>1
    <3> QED BY <2>1, <3>1
  <2>3. short[i] = (r \div e) % b
    BY <1>6
  <2>4. PICK c \in Nat : D = (c * b) * e
    <3> HIDE DEF j
    <3> QED BY <2>1, PowerFactor
  <2>5. e \in Nat /\ e >= 1
    <3> HIDE DEF j
    <3> QED BY <2>1, PowerGrows
  <2> HIDE DEF e, D, q, r
  <2>6. x = ((q * c) * b) * e + r /\ q * c \in Nat
    BY <1>2, <2>4, <2>5
  <2> DEFINE k == q * c
  <2>7. k \in Nat /\ LeftOf(x, k, b, e, r)
    BY <2>6 DEF LeftOf
  <2> HIDE DEF k
  <2>8. (x \div e) % b = (r \div e) % b
    <3>1. b \in Nat /\ b >= 1 /\ e \in Nat /\ e >= 1 /\ r \in Nat /\ x \in Nat
      BY <1>2, <2>5
    <3> QED BY <2>7, <3>1, DigitOfRest
  <2> QED BY <2>2, <2>3, <2>8
<1> HIDE DEF long, short, q, r, D
<1>9. long = <<q>> \o short
  <2>1. <<q>> \o short \in Seq(Nat) /\ Len(<<q>> \o short) = m + 2
    BY <1>2, <1>6
  <2>2. ASSUME NEW k \in 1 .. m + 2 PROVE long[k] = (<<q>> \o short)[k]
    <3>1. CASE k = 1
      BY <1>2, <1>6, <1>7, <3>1
    <3>2. CASE k # 1
      <4>1. k - 1 \in 1 .. m + 1 /\ (k - 1) + 1 = k
        BY <3>2
      <4>2. long[k] = short[k - 1]
        BY <1>8, <4>1
      <4>3. (<<q>> \o short)[k] = short[k - 1]
        BY <1>2, <1>6, <3>2, <4>1
      <4> QED BY <4>2, <4>3
    <3> QED BY <3>1, <3>2
  <2> QED BY <1>5, <2>1, <2>2, SeqEqual
<1> QED BY <1>9 DEF long, short, q, r, D

\* The loop that prints the digits prints the digits.
LEMMA DigitsAreRight ==
  ASSUME NEW b \in Nat, b >= 2, NEW v \in Nat, v < UWord, NEW nd \in Nat,
         nd >= 1 => Power(b, nd - 1) < UWord
  PROVE  Digits(v, b, nd) = DigitSeq(v, b, Max2(Width(v, b), nd))
<1>p. \A k \in Nat : Power(b, k) \in Nat /\ Power(b, k) >= 1 /\ Power(b, k + 1) = b * Power(b, k)
  BY PowerGrows
<1>z. Power(b, 0) = 1 /\ Power(b, 1) = b
  <2>1. Power(b, 0) = 1
    BY PowerDef
  <2>2. Power(b, 0 + 1) = b * 1
    BY <1>p, <2>1
  <2> QED BY <2>1, <2>2
<1>0. PICK out : Prints(out, v, b, nd)
  BY DigitsDef
<1>1. /\ Digits(v, b, nd) = out[FirstDigit(v, b, nd)][v]
      /\ \A x \in Nat : out[0][x] = <<>>
      /\ \A d, x \in Nat : d >= 1 => out[d][x] = <<x \div d>> \o out[d \div b][x % d]
  BY <1>0, Zenon DEF Prints
<1> DEFINE S == {m \in Nat : \A x \in Nat : x < Power(b, m + 1) =>
                               out[Power(b, m)][x] = DigitSeq(x, b, m + 1)}
<1>2. 0 \in S
  <2>1. ASSUME NEW x \in Nat, x < b PROVE out[1][x] = DigitSeq(x, b, 1)
    <3>1. x \div 1 = x /\ x % 1 = 0
      <4>1. x = 1 * x + 0
        OBVIOUS
      <4> QED BY <4>1, DivUnique
    <3>2. 1 \div b = 0
      <4>1. 1 = b * 0 + 1 /\ 1 < b
        OBVIOUS
      <4> QED BY <4>1, DivUnique
    <3>3. out[1][x] = <<x \div 1>> \o out[1 \div b][x % 1]
      <4>1. 1 \in Nat /\ 1 >= 1
        OBVIOUS
      <4> QED BY <1>1, <4>1, Zenon
    <3>4. out[1][x] = <<x>> \o <<>>
      <4>1. out[0][0] = <<>>
        BY <1>1
      <4> QED BY <3>1, <3>2, <3>3, <4>1
    <3>5. <<x>> \o <<>> = <<x>>
      OBVIOUS
    <3> DEFINE s == DigitSeq(x, b, 1)
    <3>6. s \in Seq(Nat) /\ Len(s) = 1 /\ s[1] = (x \div Power(b, 1 - 1)) % b
      <4>1. 1 \in Nat /\ 1 \in 1 .. 1
        OBVIOUS
      <4>2. /\ s \in Seq(Nat) /\ Len(s) = 1
            /\ \A i \in 1 .. 1 : s[i] = (x \div Power(b, 1 - i)) % b
        BY <4>1, DigitSeqType, Zenon
      <4> QED BY <4>1, <4>2, Zenon
    <3>7. s[1] = x
      <4>1. 1 - 1 = 0 /\ x % b = x
        BY <2>1, SmallMod
      <4> QED BY <1>z, <3>1, <3>6, <4>1
    <3> HIDE DEF s
    <3>8. s = <<x>>
      BY <3>6, <3>7
    <3> QED BY <3>4, <3>5, <3>8 DEF s
  <2>2. 0 + 1 = 1
    OBVIOUS
  <2> QED BY <1>z, <2>1, <2>2
<1>3. ASSUME NEW m \in Nat, m \in S PROVE m + 1 \in S
  <2> DEFINE D == Power(b, m + 1)
  <2>1. m + 1 \in Nat /\ (m + 1) + 1 = m + 2
    OBVIOUS
  <2>2. D \in Nat /\ D >= 1 /\ D = b * Power(b, m) /\ Power(b, m) \in Nat
    BY <1>p, <2>1
  <2>3. D \div b = Power(b, m)
    <3> DEFINE e == Power(b, m)
    <3>1. D = b * e + 0 /\ e \in Nat
      BY <2>2
    <3> HIDE DEF D, e
    <3>2. D \div b = e
      BY <2>2, <3>1, DivUnique
    <3> QED BY <3>2 DEF e
  <2>4. ASSUME NEW x \in Nat, x < Power(b, m + 2) PROVE out[D][x] = DigitSeq(x, b, m + 2)
    <3> DEFINE r == x % D
    <3>1. r \in Nat /\ r < D
      <4> HIDE DEF D
      <4> QED BY <2>2, ModRest
    <3>2. out[D][x] = <<x \div D>> \o out[D \div b][r]
      BY <1>1, <2>2, Zenon
    <3>3. out[Power(b, m)][r] = DigitSeq(r, b, m + 1)
      <4> HIDE DEF r
      <4> QED BY <1>3, <3>1
    <3>4. out[D][x] = <<x \div D>> \o DigitSeq(r, b, m + 1)
      BY <2>3, <3>2, <3>3, Zenon
    <3>5. DigitSeq(x, b, m + 2) = <<x \div D>> \o DigitSeq(r, b, m + 1)
      BY <2>4, DigitSeqSplit
    <3> QED BY <3>4, <3>5, Zenon
  <2> QED BY <2>1, <2>4
<1>4. \A m \in Nat : m \in S
  <2> HIDE DEF S
  <2> QED BY <1>2, <1>3, SetInduction
<1> DEFINE w == Width(v, b)
           n == Max2(w, nd)
<1>5. w \in Nat /\ w >= 1 /\ v < Power(b, w)
  BY WidthIsExact
<1>6. n \in Nat /\ n - 1 \in Nat /\ (n - 1) + 1 = n /\ w <= n
  <2> HIDE DEF w
  <2> QED BY <1>5 DEF Max2
<1>7. FirstDigit(v, b, nd) = Power(b, n - 1)
  BY FirstDigitIsExact
<1> HIDE DEF w, n
<1>8. v < Power(b, n)
  <2>1. CASE w = n
    BY <1>5, <2>1
  <2>2. CASE w < n
    <3>1. Power(b, w) < Power(b, n) /\ Power(b, w) \in Nat /\ Power(b, n) \in Nat
      BY <1>p, <1>5, <1>6, <2>2, PowerMonotone
    <3> QED BY <1>5, <3>1
  <2> QED BY <1>5, <1>6, <2>1, <2>2
<1>9. out[Power(b, n - 1)][v] = DigitSeq(v, b, n)
  BY <1>4, <1>6, <1>8
<1> QED BY <1>1, <1>7, <1>9, Zenon DEF n, w

\* Repetition.
LEMMA RepType ==
  ASSUME NEW c \in Nat, NEW n \in Int
  PROVE  /\ Rep(c, n) \in Seq(Nat)
         /\ Len(Rep(c, n)) = IF n < 0 THEN 0 ELSE n
         /\ n <= 0 => Rep(c, n) = <<>>
         /\ \A i \in 1 .. n : Rep(c, n)[i] = c
<1> DEFINE m == IF n < 0 THEN 0 ELSE n
<1>1. m \in Nat
  OBVIOUS
<1>2. Rep(c, n) = [i \in 1 .. m |-> c]
  BY DEF Rep
<1> HIDE DEF m
<1>3. Rep(c, n) \in Seq(Nat) /\ Len(Rep(c, n)) = m
  BY <1>1, <1>2
<1>4. \A i \in 1 .. m : Rep(c, n)[i] = c
  BY <1>2, Zenon
<1>5. n <= 0 => Rep(c, n) = <<>>
  BY <1>3 DEF m
<1> QED BY <1>3, <1>4, <1>5 DEF m

\* The digits of the reference, with the zeros that precision asks for.
LEMMA BodyIsRight ==
  ASSUME NEW b \in Nat, b >= 2, NEW v \in Nat, v < UWord, NEW p \in Nat
  PROVE  LET c == CanonicalDigits(v, b)
         IN  /\ Len(c) = Width(v, b)
             /\ Rep(0, p - Len(c)) \o c = DigitSeq(v, b, Max2(Width(v, b), p))
<1> DEFINE w == Width(v, b)
           c == DigitSeq(v, b, w)
           n == Max2(w, p)
           z == Rep(0, p - w)
           s == DigitSeq(v, b, n)
<1>1. w \in Nat /\ w >= 1 /\ v < Power(b, w)
  BY WidthIsExact
<1>2. CanonicalDigits(v, b) = c
  BY CanonicalLength DEF DigitSeq
<1> HIDE DEF w
<1>3. n \in Nat /\ p - w \in Int /\ n = (IF p - w < 0 THEN 0 ELSE p - w) + w
  BY <1>1 DEF Max2
<1>4. /\ c \in Seq(Nat) /\ Len(c) = w
      /\ \A i \in 1 .. w : c[i] = (v \div Power(b, w - i)) % b
  BY <1>1, DigitSeqType
<1>5. /\ s \in Seq(Nat) /\ Len(s) = n
      /\ \A i \in 1 .. n : s[i] = (v \div Power(b, n - i)) % b
  <2> HIDE DEF n
  <2> QED BY <1>3, DigitSeqType
<1>6. /\ z \in Seq(Nat) /\ Len(z) = IF p - w < 0 THEN 0 ELSE p - w
      /\ \A i \in 1 .. p - w : z[i] = 0
  <2>1. 0 \in Nat
    OBVIOUS
  <2> QED BY <1>3, <2>1, RepType
<1> HIDE DEF c, s, n, z
<1>7. /\ z \o c \in Seq(Nat) /\ Len(z \o c) = n
      /\ \A i \in 1 .. n : (z \o c)[i] = IF i <= Len(z) THEN z[i] ELSE c[i - Len(z)]
  <2>1. /\ z \o c \in Seq(Nat) /\ Len(z \o c) = Len(z) + Len(c)
        /\ \A i \in 1 .. Len(z) + Len(c) : (z \o c)[i] = IF i <= Len(z) THEN z[i] ELSE c[i - Len(z)]
    BY <1>4, <1>6, ConcatProperties
  <2>2. Len(z) + Len(c) = n
    BY <1>1, <1>3, <1>4, <1>6
  <2> QED BY <2>1, <2>2, Zenon
<1>8. ASSUME NEW i \in 1 .. n PROVE s[i] = (z \o c)[i]
  <2>1. CASE i <= Len(z)
    <3>1. i \in 1 .. p - w /\ n - i >= w /\ n - i \in Nat
      BY <1>1, <1>3, <1>6, <2>1
    <3>2. Power(b, w) <= Power(b, n - i) /\ Power(b, n - i) \in Nat /\ Power(b, w) \in Nat
      <4>1. Power(b, n - i) \in Nat /\ Power(b, w) \in Nat
        BY <1>1, <3>1, PowerGrows
      <4>2. CASE n - i = w
        BY <4>1, <4>2
      <4>3. CASE w < n - i
        BY <1>1, <3>1, <4>1, <4>3, PowerMonotone
      <4> QED BY <1>1, <3>1, <4>1, <4>2, <4>3
    <3> DEFINE e == Power(b, n - i)
    <3>3. e \in Nat /\ v < e
      BY <1>1, <3>2
    <3> HIDE DEF e
    <3>4. v = e * 0 + v /\ e >= 1
      BY <3>3
    <3>5. v \div e = 0
      BY <3>3, <3>4, DivUnique
    <3>6. 0 % b = 0
      BY SmallMod
    <3>7. s[i] = 0
      BY <1>5, <3>5, <3>6, Zenon DEF e
    <3> QED BY <1>6, <1>7, <2>1, <3>1, <3>7
  <2>2. CASE i > Len(z)
    <3>1. Len(z) \in Nat /\ n = Len(z) + w
      BY <1>1, <1>3, <1>6
    <3>2. i - Len(z) \in 1 .. w /\ w - (i - Len(z)) = n - i
      BY <1>1, <2>2, <3>1
    <3>3. c[i - Len(z)] = (v \div Power(b, n - i)) % b
      BY <1>4, <3>2
    <3>4. ~(i <= Len(z))
      BY <2>2, <3>1
    <3> QED BY <1>5, <1>7, <3>3, <3>4, Zenon
  <2>3. i <= Len(z) \/ i > Len(z)
    <3>1. Len(z) \in Nat
      BY <1>3, <1>6
    <3>2. i \in Nat
      BY <1>3
    <3> QED BY <3>1, <3>2
  <2> QED BY <2>1, <2>2, <2>3, Zenon
<1>9. s = z \o c
  BY <1>5, <1>7, <1>8, SeqEqual
<1>10. z = Rep(0, p - Len(c))
  BY <1>4 DEF z
<1> QED BY <1>2, <1>4, <1>9, <1>10, Zenon DEF s, n, w

-----------------------------------------------------------------------------
(* Numbers come out right *)

\* The sign that C asks for.
SignOf(v, flags, signed) ==
  IF ~signed THEN <<>> ELSE IF v < 0 THEN <<MINUS>>
  ELSE IF "PRINT_SIGN" \in flags THEN <<PLUS>> ELSE <<>>

\* It is at most one character.
LEMMA SignType ==
  ASSUME NEW v, NEW flags, NEW signed
  PROVE  /\ SignOf(v, flags, signed) \in Seq(Nat)
         /\ Len(SignOf(v, flags, signed)) \in {0, 1}
         /\ ~signed => SignOf(v, flags, signed) = <<>>
<1>1. <<>> \in Seq(Nat) /\ Len(<<>>) = 0
  OBVIOUS
<1>2. <<MINUS>> \in Seq(Nat) /\ Len(<<MINUS>>) = 1
  BY DEF MINUS
<1>3. <<PLUS>> \in Seq(Nat) /\ Len(<<PLUS>>) = 1
  BY DEF PLUS
<1>4. \/ SignOf(v, flags, signed) = <<>> \/ SignOf(v, flags, signed) = <<MINUS>>
      \/ SignOf(v, flags, signed) = <<PLUS>>
  BY Zenon DEF SignOf
<1>5. ~signed => SignOf(v, flags, signed) = <<>>
  BY Zenon DEF SignOf
<1> HIDE DEF SignOf
<1> QED BY <1>1, <1>2, <1>3, <1>4, <1>5, Zenon

\* Three parts in a row, as every conversion is put together.
Row(x, y, z) == (x \o y) \o z

\* The text that C asks for, by its digits d of which there are n.
Field(sign, d, n, width, flags, zero) ==
  LET pad == width - n - Len(sign)
  IN IF "LEFT_JUSTIFY" \in flags THEN Row(sign, d, Rep(SPACE, pad))
     ELSE IF zero THEN Row(sign, Rep(0, pad), d)
     ELSE Row(Rep(SPACE, pad), sign, d)

\* a is v without its sign.
Absolute(v, a) == a = IF v < 0 THEN -v ELSE v

\* The text for v.
FieldOf(v, a, b, p, width, flags, signed) ==
  LET n == Max2(Width(a, b), p)
  IN  Field(SignOf(v, flags, signed), DigitSeq(a, b, n), n, width, flags,
            "PAD_ZERO" \in flags /\ p = 0)

\* C's conversion if a precision of 0 is taken for none.
Shown(v, base, precision, width, flags, signed) ==
  LET a    == IF v < 0 THEN -v ELSE v
      c    == CanonicalDigits(a, base)
      body == Rep(0, precision - Len(c)) \o c
      sign == IF ~signed THEN <<>> ELSE IF v < 0 THEN <<MINUS>>
              ELSE IF "PRINT_SIGN" \in flags THEN <<PLUS>> ELSE <<>>
      pad  == width - Len(body) - Len(sign)
  IN IF "LEFT_JUSTIFY" \in flags THEN sign \o body \o Rep(SPACE, pad)
     ELSE IF "PAD_ZERO" \in flags /\ precision = 0 THEN sign \o Rep(0, pad) \o body
     ELSE Rep(SPACE, pad) \o sign \o body

\* It is that text.
LEMMA ShownIs ==
  ASSUME NEW b \in Nat, b >= 2, NEW v \in Int, NEW a \in Nat, a < UWord,
         Absolute(v, a), NEW p \in Nat, NEW width \in Nat, NEW flags
  PROVE  \A signed \in BOOLEAN :
           Shown(v, b, p, width, flags, signed) = FieldOf(v, a, b, p, width, flags, signed)
<1> TAKE signed \in BOOLEAN
<1> DEFINE n == Max2(Width(a, b), p)
           c == CanonicalDigits(a, b)
           body == Rep(0, p - Len(c)) \o c
           sign == SignOf(v, flags, signed)
           pad == width - Len(body) - Len(sign)
<1>1. Len(c) = Width(a, b) /\ body = DigitSeq(a, b, n)
  BY BodyIsRight
<1>2. n \in Nat
  <2>1. Width(a, b) \in Nat
    BY WidthIsExact
  <2> QED BY <2>1 DEF Max2
<1>3. Len(body) = n
  <2>1. Len(DigitSeq(a, b, n)) = n
    <3> HIDE DEF n
    <3> QED BY <1>2, DigitSeqType
  <2> QED BY <1>1, <2>1, Zenon
<1>4. Shown(v, b, p, width, flags, signed) =
        IF "LEFT_JUSTIFY" \in flags THEN (sign \o body) \o Rep(SPACE, pad)
        ELSE IF "PAD_ZERO" \in flags /\ p = 0 THEN (sign \o Rep(0, pad)) \o body
        ELSE (Rep(SPACE, pad) \o sign) \o body
  BY Zenon DEF Shown, SignOf, Absolute
<1> HIDE DEF body, sign, n, c
<1> QED BY <1>1, <1>3, <1>4, Zenon DEF FieldOf, Field, Row, n, sign

\* Nothing in front or behind.
LEMMA RowEmpty ==
  ASSUME NEW x \in Seq(Nat), NEW y \in Seq(Nat)
  PROVE  Row(<<>>, x, y) = x \o y /\ Row(x, <<>>, y) = x \o y /\ Row(x, y, <<>>) = x \o y
<1>1. x \o y \in Seq(Nat)
  OBVIOUS
<1> QED BY <1>1 DEF Row

\* _PrintUnsigned prints that text.
LEMMA UnsignedRight ==
  ASSUME NEW b \in Nat, b >= 2, NEW v \in Nat, v < UWord, NEW p \in Nat,
         p >= 1 => Power(b, p - 1) < UWord, NEW width \in Nat, NEW flags
  PROVE  Chars(_PrintUnsigned(v, b, p, width, flags)) =
           Shown(v, b, p, width, flags, FALSE)
<1> DEFINE n == Max2(Width(v, b), p)
           d == DigitSeq(v, b, n)
           zero == "PAD_ZERO" \in flags /\ p = 0
           left == "LEFT_JUSTIFY" \in flags
           pad == width - n
<1>1. n \in Nat
  <2>1. Width(v, b) \in Nat
    BY WidthIsExact
  <2> QED BY <2>1 DEF Max2
<1>2. d \in Seq(Nat)
  <2> HIDE DEF n
  <2> QED BY <1>1, DigitSeqType
<1>3. Digits(v, b, p) = d
  BY DigitsAreRight
<1>4. Chars(_PrintUnsigned(v, b, p, width, flags)) =
        Row(IF left THEN <<>> ELSE Rep(IF zero THEN 0 ELSE SPACE, pad), d,
            IF left THEN Rep(SPACE, pad) ELSE <<>>)
  <2> HIDE DEF d
  <2> QED BY <1>3, Zenon DEF Chars, _PrintUnsigned, Row
<1>5. pad \in Int /\ pad = width - n - 0
  <2> HIDE DEF n
  <2> QED BY <1>1
<1>6. Shown(v, b, p, width, flags, FALSE) = Field(<<>>, d, n, width, flags, zero)
  <2>1. SignOf(v, flags, FALSE) = <<>>
    BY SignType
  <2>2. v \in Int /\ Absolute(v, v)
    BY DEF Absolute
  <2>3. \A signed \in BOOLEAN :
          Shown(v, b, p, width, flags, signed) = FieldOf(v, v, b, p, width, flags, signed)
    BY <2>2, ShownIs
  <2>4. Shown(v, b, p, width, flags, FALSE) = FieldOf(v, v, b, p, width, flags, FALSE)
    BY <2>3, Zenon
  <2> QED BY <2>1, <2>4, Zenon DEF FieldOf
<1>7. Len(<<>>) = 0
  OBVIOUS
<1> HIDE DEF d, n
<1>8. Rep(0, pad) \in Seq(Nat) /\ Rep(SPACE, pad) \in Seq(Nat)
  BY <1>5, RepType DEF SPACE
<1>9. Field(<<>>, d, n, width, flags, zero) =
        IF left THEN Row(<<>>, d, Rep(SPACE, pad))
        ELSE IF zero THEN Row(<<>>, Rep(0, pad), d) ELSE Row(Rep(SPACE, pad), <<>>, d)
  <2>1. width - n - Len(<<>>) = pad
    BY <1>5, <1>7, Zenon
  <2> HIDE DEF pad
  <2> QED BY <2>1, Zenon DEF Field
<1> HIDE DEF pad, zero, left
<1>10. CASE left
  BY <1>4, <1>6, <1>9, <1>10, Zenon
<1>11. CASE ~left /\ zero
  BY <1>2, <1>4, <1>6, <1>8, <1>9, <1>11, RowEmpty
<1>12. CASE ~left /\ ~zero
  BY <1>2, <1>4, <1>6, <1>8, <1>9, <1>12, RowEmpty
<1> QED BY <1>10, <1>11, <1>12

\* _PrintInt prints that text.
LEMMA SignedRight ==
  ASSUME NEW b \in Nat, b >= 2, NEW v \in Int, -UWord < v, v < UWord, NEW p \in Nat,
         p >= 1 => Power(b, p - 1) < UWord, NEW width \in Nat, NEW flags
  PROVE  Chars(_PrintInt(v, b, p, width, flags)) = Shown(v, b, p, width, flags, TRUE)
<1> DEFINE a == IF v < 0 THEN -v ELSE v
           n == Max2(Width(a, b), p)
           d == DigitSeq(a, b, n)
           zero == "PAD_ZERO" \in flags /\ p = 0
           left == "LEFT_JUSTIFY" \in flags
           sign == SignOf(v, flags, TRUE)
           fw == IF width > 0 THEN width - Len(sign) ELSE 0
           fw2 == IF left THEN fw ELSE IF fw > n THEN n ELSE fw
           pad2 == fw2 - n
           ulead == IF left THEN <<>> ELSE Rep(IF zero THEN 0 ELSE SPACE, pad2)
           utrail == IF left THEN Rep(SPACE, pad2) ELSE <<>>
           lead == IF left THEN sign
                   ELSE IF zero THEN Row(sign, Rep(0, fw - n), ulead)
                   ELSE Row(Rep(SPACE, fw - n), sign, ulead)
<1>0. UWord \in Nat
  BY PrintfAssumption
<1>1. a \in Nat /\ a < UWord
  BY <1>0
<1> HIDE DEF a
<1>2. n \in Nat
  <2>1. Width(a, b) \in Nat
    BY <1>1, WidthIsExact
  <2> QED BY <2>1 DEF Max2
<1>3. d \in Seq(Nat)
  <2> HIDE DEF n
  <2> QED BY <1>1, <1>2, DigitSeqType
<1>4. Digits(a, b, p) = d
  BY <1>1, DigitsAreRight
<1>5. sign \in Seq(Nat) /\ Len(sign) \in {0, 1}
  BY SignType
<1>6. Chars(_PrintInt(v, b, p, width, flags)) = Row(lead, d, utrail)
  <2> DEFINE u == _PrintUnsigned(a, b, p, fw2, flags)
  <2>1. u = [lead |-> ulead, digits |-> d, trail |-> utrail]
    <3> HIDE DEF d
    <3> QED BY <1>4, Zenon DEF _PrintUnsigned
  <2>2. _PrintInt(v, b, p, width, flags) =
          [u EXCEPT !.lead = IF left THEN sign
                             ELSE IF zero THEN (sign \o Rep(0, fw - n)) \o u.lead
                             ELSE (Rep(SPACE, fw - n) \o sign) \o u.lead]
    BY Zenon DEF _PrintInt, SignOf, a
  <2> HIDE DEF u, ulead, utrail, d, left, zero, sign, fw, n
  <2>3. u.lead = ulead
    BY <2>1
  <2>4. _PrintInt(v, b, p, width, flags) = [u EXCEPT !.lead = lead]
    BY <2>2, <2>3, Zenon DEF Row
  <2> HIDE DEF lead
  <2>5. _PrintInt(v, b, p, width, flags) = [lead |-> lead, digits |-> d, trail |-> utrail]
    BY <2>1, <2>4
  <2> QED BY <2>5 DEF Chars, Row
<1>7. Shown(v, b, p, width, flags, TRUE) = Field(sign, d, n, width, flags, zero)
  <2>1. Absolute(v, a)
    BY DEF Absolute, a
  <2>2. \A signed \in BOOLEAN :
          Shown(v, b, p, width, flags, signed) = FieldOf(v, a, b, p, width, flags, signed)
    BY <1>1, <2>1, ShownIs
  <2>3. Shown(v, b, p, width, flags, TRUE) = FieldOf(v, a, b, p, width, flags, TRUE)
    BY <2>2, Zenon
  <2> QED BY <2>3, Zenon DEF FieldOf
<1> DEFINE pad == width - n - Len(sign)
<1>8. Field(sign, d, n, width, flags, zero) =
        IF left THEN Row(sign, d, Rep(SPACE, pad))
        ELSE IF zero THEN Row(sign, Rep(0, pad), d) ELSE Row(Rep(SPACE, pad), sign, d)
  BY Zenon DEF Field
<1> HIDE DEF d, n, sign
<1>9. /\ pad \in Int /\ fw - n \in Int /\ pad2 \in Int
      /\ left => pad2 = fw - n
      /\ ~left => pad2 <= 0
      /\ pad = fw - n \/ (pad <= 0 /\ fw - n <= 0)
  <2> HIDE DEF left
  <2> QED BY <1>2, <1>5
<1> DEFINE out == fw - n
<1>10. ASSUME NEW k \in Nat PROVE Rep(k, out) = Rep(k, pad) /\ Rep(k, out) \in Seq(Nat)
  <2>1. out \in Int /\ pad \in Int /\ (pad = out \/ (pad <= 0 /\ out <= 0))
    BY <1>9
  <2> HIDE DEF out, pad
  <2> QED BY <2>1, RepType
<1>11. 0 \in Nat /\ SPACE \in Nat
  BY DEF SPACE
<1> HIDE DEF pad, zero
<1>12. CASE left
  <2>1. lead = sign /\ utrail = Rep(SPACE, out)
    <3>1. pad2 = out
      BY <1>9, <1>12
    <3> HIDE DEF pad2, out
    <3> QED BY <1>12, <3>1, Zenon
  <2> HIDE DEF out, lead, utrail
  <2>2. Rep(SPACE, out) = Rep(SPACE, pad)
    BY <1>10, <1>11, Zenon
  <2> QED BY <1>6, <1>7, <1>8, <1>12, <2>1, <2>2, Zenon
<1>13. CASE ~left
  <2>1. ulead = <<>>
    <3> DEFINE k == IF zero THEN 0 ELSE SPACE
    <3>1. k \in Nat
      BY <1>11
    <3>2. pad2 \in Int /\ pad2 <= 0
      BY <1>9, <1>13
    <3>3. ulead = Rep(k, pad2)
      BY <1>13, Zenon
    <3> HIDE DEF k, pad2, ulead
    <3>4. Rep(k, pad2) = <<>>
      BY <3>1, <3>2, RepType
    <3> QED BY <3>3, <3>4, Zenon
  <2>2. utrail = <<>>
    BY <1>13, Zenon
  <2>3. lead = IF zero THEN Row(sign, Rep(0, out), <<>>) ELSE Row(Rep(SPACE, out), sign, <<>>)
    <3> HIDE DEF ulead
    <3> QED BY <1>13, <2>1, Zenon
  <2> HIDE DEF out, lead, utrail, ulead, left
  <2>4. /\ Rep(0, out) = Rep(0, pad) /\ Rep(0, pad) \in Seq(Nat)
        /\ Rep(SPACE, out) = Rep(SPACE, pad) /\ Rep(SPACE, pad) \in Seq(Nat)
    BY <1>10, <1>11
  <2>5. lead = IF zero THEN sign \o Rep(0, pad) ELSE Rep(SPACE, pad) \o sign
    BY <1>5, <2>3, <2>4, RowEmpty
  <2>6. lead \in Seq(Nat)
    BY <1>5, <2>4, <2>5
  <2>7. Row(lead, d, <<>>) = lead \o d
    BY <1>3, <2>6, RowEmpty
  <2> QED BY <1>6, <1>7, <1>8, <1>13, <2>2, <2>5, <2>7, Zenon DEF Row
<1> QED BY <1>12, <1>13

\* The parts of C's conversion; c are the digits before the precision is seen to.
Composed(sign, c, precision, width, flags, zero) ==
  LET body == Rep(0, precision - Len(c)) \o c
      pad  == width - Len(body) - Len(sign)
  IN IF "LEFT_JUSTIFY" \in flags THEN (sign \o body) \o Rep(SPACE, pad)
     ELSE IF zero THEN (sign \o Rep(0, pad)) \o body
     ELSE (Rep(SPACE, pad) \o sign) \o body

\* Without digits to add the precision does not matter.
LEMMA ComposedSame ==
  ASSUME NEW sign, NEW c, Len(c) \in Nat, NEW width, NEW flags
  PROVE  \A zero \in BOOLEAN :
           Composed(sign, c, -1, width, flags, zero) = Composed(sign, c, 0, width, flags, zero)
<1>1. Rep(0, -1 - Len(c)) = Rep(0, 0 - Len(c))
  BY DEF Rep
<1> QED BY <1>1, Zenon DEF Composed

\* It is C's conversion, unless the precision is 0 and the number 0 or padded with zeros.
LEMMA ShownIsC ==
  ASSUME NEW b \in Nat, b >= 2, NEW v \in Int, -UWord < v, v < UWord, NEW p \in Nat,
         NEW width, NEW flags
  PROVE  \A signed \in BOOLEAN :
           /\ p # 0 => Shown(v, b, p, width, flags, signed)
                         = Reference(v, b, p, width, flags, signed)
           /\ Shown(v, b, 0, width, flags, signed) = Reference(v, b, -1, width, flags, signed)
           /\ v # 0 /\ "PAD_ZERO" \notin flags
                => Shown(v, b, 0, width, flags, signed) = Reference(v, b, 0, width, flags, signed)
<1> TAKE signed \in BOOLEAN
<1> DEFINE a == IF v < 0 THEN -v ELSE v
           c == CanonicalDigits(a, b)
           sign == SignOf(v, flags, signed)
           pz == "PAD_ZERO" \in flags
<1>0. UWord \in Nat
  BY PrintfAssumption
<1>1. a \in Nat /\ a < UWord /\ (a = 0 <=> v = 0)
  BY <1>0
<1>2. Len(c) \in Nat
  <2> HIDE DEF a
  <2>1. 0 \in Nat
    OBVIOUS
  <2>2. Len(c) = Width(a, b)
    BY <1>1, <2>1, BodyIsRight
  <2>3. Width(a, b) \in Nat
    BY <1>1, WidthIsExact
  <2> QED BY <2>2, <2>3, Zenon
<1>3. \A q : Shown(v, b, q, width, flags, signed)
               = Composed(sign, c, q, width, flags, pz /\ q = 0)
  BY Zenon DEF Shown, Composed, SignOf
<1>4. \A q : ~(a = 0 /\ q = 0) => Reference(v, b, q, width, flags, signed)
               = Composed(sign, c, q, width, flags, pz /\ q = -1)
  BY Zenon DEF Reference, Composed, SignOf
<1> HIDE DEF a, c, sign, pz
<1>5. p # 0 => (pz /\ p = 0) = (pz /\ p = -1)
  <2>1. p # -1
    OBVIOUS
  <2> QED BY <2>1, Zenon
<1>6. p # 0 => Shown(v, b, p, width, flags, signed) = Reference(v, b, p, width, flags, signed)
  BY <1>3, <1>4, <1>5, Zenon
<1>7. /\ Composed(sign, c, -1, width, flags, pz) = Composed(sign, c, 0, width, flags, pz)
      /\ (pz /\ 0 = 0) = pz /\ (pz /\ -1 = -1) = pz /\ -1 # 0
  <2>1. pz \in BOOLEAN
    BY DEF pz
  <2> QED BY <1>2, <2>1, ComposedSame
<1>8. Shown(v, b, 0, width, flags, signed) = Reference(v, b, -1, width, flags, signed)
  BY <1>3, <1>4, <1>7, Zenon
<1>9. ASSUME v # 0, ~pz
      PROVE  Shown(v, b, 0, width, flags, signed) = Reference(v, b, 0, width, flags, signed)
  <2>1. (pz /\ 0 = 0) = (pz /\ 0 = -1) /\ a # 0
    BY <1>1, <1>9
  <2> QED BY <1>3, <1>4, <2>1, Zenon
<1> QED BY <1>6, <1>8, <1>9 DEF pz

\* What the assumption says of a directive.
Legal(d) ==
  /\ d \in Directive
  /\ d.spec = "d" => -UWord < 2 * d.arg /\ 2 * d.arg < UWord
  /\ d.precision > 0 /\ d.spec \in {"d", "u"} => Power(10, d.precision - 1) < UWord
  /\ d.precision > 0 /\ d.spec = "x" => Power(16, d.precision - 1) < UWord

\* A word is a number below UWord.
LEMMA WordType ==
  ASSUME NEW x \in Int
  PROVE  x % UWord \in Nat /\ x % UWord < UWord
<1>1. UWord \in Nat /\ UWord > 0
  BY PrintfAssumption
<1> QED BY <1>1

\* The fields of a directive.
LEMMA DirectiveType ==
  ASSUME NEW d, Legal(d)
  PROVE  /\ NumDigits(d) \in Nat /\ d.width \in Nat /\ d.arg \in Int
         /\ d.arg % UWord \in Nat /\ d.arg % UWord < UWord
         /\ d.spec = "d" => -UWord < d.arg /\ d.arg < UWord
         /\ d.spec \in {"d", "u"} => (NumDigits(d) >= 1 => Power(10, NumDigits(d) - 1) < UWord)
         /\ d.spec = "x" => (NumDigits(d) >= 1 => Power(16, NumDigits(d) - 1) < UWord)
<1>0. UWord \in Nat
  BY PrintfAssumption
<1>1. d.width \in Nat /\ d.arg \in Int /\ (d.precision \in Nat \/ d.precision = -1)
  BY DEF Legal, Directive
<1>2. d.spec = "d" => -UWord < 2 * d.arg /\ 2 * d.arg < UWord
  BY DEF Legal
<1>3. /\ d.precision > 0 /\ d.spec \in {"d", "u"} => Power(10, d.precision - 1) < UWord
      /\ d.precision > 0 /\ d.spec = "x" => Power(16, d.precision - 1) < UWord
  BY DEF Legal
<1>4. d.spec = "d" => -UWord < d.arg /\ d.arg < UWord
  BY <1>0, <1>1, <1>2
<1>5. /\ NumDigits(d) \in Nat
      /\ NumDigits(d) >= 1 => d.precision > 0 /\ NumDigits(d) = d.precision
  BY <1>1 DEF NumDigits
<1>6. d.arg % UWord \in Nat /\ d.arg % UWord < UWord
  BY <1>1, WordType
<1>7. /\ d.spec \in {"d", "u"} => (NumDigits(d) >= 1 => Power(10, NumDigits(d) - 1) < UWord)
      /\ d.spec = "x" => (NumDigits(d) >= 1 => Power(16, NumDigits(d) - 1) < UWord)
  BY <1>3, <1>5, Zenon
<1> QED BY <1>1, <1>4, <1>5, <1>6, <1>7, Zenon

\* A number comes out as C defines the conversion, for a precision of 0 as without one.
NumberRight(d) ==
  LET v    == IF d.spec = "d" THEN d.arg ELSE d.arg % UWord
      C(p) == Reference(v, IF d.spec = "x" THEN 16 ELSE 10, p, d.width, d.flags,
                        d.spec = "d")
  IN d.spec \in {"d", "u", "x"} =>
       /\ d.precision # 0 \/ (v # 0 /\ "PAD_ZERO" \notin d.flags)
            => Chars(Expand(d)) = C(d.precision)
       /\ d.precision = 0 => Chars(Expand(d)) = C(-1)

\* From the text of a number to C's conversion.
LEMMA RightByShown ==
  ASSUME NEW d, Legal(d), NEW b \in Nat, b >= 2, NEW v \in Int, -UWord < v, v < UWord
  PROVE  \A signed \in BOOLEAN :
           Chars(Expand(d)) = Shown(v, b, NumDigits(d), d.width, d.flags, signed) =>
             /\ d.precision # 0 \/ (v # 0 /\ "PAD_ZERO" \notin d.flags)
                  => Chars(Expand(d)) = Reference(v, b, d.precision, d.width, d.flags, signed)
             /\ d.precision = 0
                  => Chars(Expand(d)) = Reference(v, b, -1, d.width, d.flags, signed)
<1> TAKE signed \in BOOLEAN
<1> DEFINE S(q) == Shown(v, b, q, d.width, d.flags, signed)
           R(q) == Reference(v, b, q, d.width, d.flags, signed)
           pz == "PAD_ZERO" \in d.flags
<1>1. d.precision \in Nat \/ d.precision = -1
  BY DEF Legal, Directive
<1>2. ASSUME NEW p \in Nat
      PROVE  /\ p # 0 => S(p) = R(p)
             /\ S(0) = R(-1)
             /\ v # 0 /\ ~pz => S(0) = R(0)
  BY ShownIsC
<1>3. NumDigits(d) = IF d.precision = -1 THEN 0 ELSE d.precision
  BY Zenon DEF NumDigits
<1> HIDE DEF S, R, pz
<1>4. CASE d.precision = -1
  <2>1. S(0) = R(-1) /\ NumDigits(d) = 0 /\ d.precision # 0
    BY <1>2, <1>3, <1>4
  <2> QED BY <1>4, <2>1, Zenon DEF S, R
<1>5. CASE d.precision \in Nat /\ d.precision # 0
  <2>1. S(d.precision) = R(d.precision) /\ NumDigits(d) = d.precision
    BY <1>2, <1>3, <1>5
  <2> QED BY <1>5, <2>1, Zenon DEF S, R
<1>6. CASE d.precision = 0
  <2>1. S(0) = R(-1) /\ (v # 0 /\ ~pz => S(0) = R(0)) /\ NumDigits(d) = 0
    BY <1>2, <1>3, <1>6
  <2> QED BY <1>6, <2>1, Zenon DEF S, R, pz
<1> QED BY <1>1, <1>4, <1>5, <1>6

\* So it does, for every legal directive.
LEMMA LegalNumberRight ==
  ASSUME NEW d, Legal(d)
  PROVE  NumberRight(d)
<1> DEFINE p == NumDigits(d)
           v == d.arg % UWord
<1>0. UWord \in Nat
  BY PrintfAssumption
<1>1. /\ p \in Nat /\ d.width \in Nat /\ d.arg \in Int /\ v \in Nat /\ v < UWord
      /\ v \in Int /\ -UWord < v
  BY <1>0, DirectiveType
<1>2. 10 \in Nat /\ 10 >= 2 /\ 16 \in Nat /\ 16 >= 2
  OBVIOUS
<1>3. CASE d.spec = "d"
  <2>1. /\ -UWord < d.arg /\ d.arg < UWord
        /\ p >= 1 => Power(10, p - 1) < UWord
    BY <1>3, DirectiveType
  <2>2. Chars(Expand(d)) = Chars(_PrintInt(d.arg, 10, p, d.width, d.flags))
    BY <1>3, Zenon DEF Expand
  <2> HIDE DEF p
  <2>3. Chars(_PrintInt(d.arg, 10, p, d.width, d.flags))
          = Shown(d.arg, 10, p, d.width, d.flags, TRUE)
    BY <1>1, <1>2, <2>1, SignedRight
  <2>4. d.spec # "x" /\ (d.spec = "d") = TRUE
    BY <1>3
  <2>5. Chars(Expand(d)) = Shown(d.arg, 10, NumDigits(d), d.width, d.flags, TRUE)
    BY <2>2, <2>3, Zenon DEF p
  <2>6. /\ d.precision # 0 \/ (d.arg # 0 /\ "PAD_ZERO" \notin d.flags)
             => Chars(Expand(d)) = Reference(d.arg, 10, d.precision, d.width, d.flags, TRUE)
        /\ d.precision = 0
             => Chars(Expand(d)) = Reference(d.arg, 10, -1, d.width, d.flags, TRUE)
    BY <1>1, <1>2, <2>1, <2>5, RightByShown
  <2> QED BY <1>3, <2>4, <2>6, Zenon DEF NumberRight
<1>4. CASE d.spec = "u"
  <2>1. p >= 1 => Power(10, p - 1) < UWord
    BY <1>4, DirectiveType
  <2>2. Chars(Expand(d)) = Chars(_PrintUnsigned(v, 10, p, d.width, d.flags))
    BY <1>4 DEF Expand
  <2> HIDE DEF p, v
  <2>3. Chars(_PrintUnsigned(v, 10, p, d.width, d.flags))
          = Shown(v, 10, p, d.width, d.flags, FALSE)
    BY <1>1, <1>2, <2>1, UnsignedRight
  <2>4. d.spec # "x" /\ d.spec # "d" /\ (d.spec = "d") = FALSE
    BY <1>4
  <2>5. Chars(Expand(d)) = Shown(v, 10, NumDigits(d), d.width, d.flags, FALSE)
    BY <2>2, <2>3, Zenon DEF p
  <2>6. /\ d.precision # 0 \/ (v # 0 /\ "PAD_ZERO" \notin d.flags)
             => Chars(Expand(d)) = Reference(v, 10, d.precision, d.width, d.flags, FALSE)
        /\ d.precision = 0 => Chars(Expand(d)) = Reference(v, 10, -1, d.width, d.flags, FALSE)
    BY <1>1, <1>2, <2>5, RightByShown
  <2> QED BY <2>4, <2>6, Zenon DEF NumberRight, v
<1>5. CASE d.spec = "x"
  <2>1. p >= 1 => Power(16, p - 1) < UWord
    BY <1>5, DirectiveType
  <2>2. Chars(Expand(d)) = Chars(_PrintUnsigned(v, 16, p, d.width, d.flags))
    BY <1>5 DEF Expand
  <2> HIDE DEF p, v
  <2>3. Chars(_PrintUnsigned(v, 16, p, d.width, d.flags))
          = Shown(v, 16, p, d.width, d.flags, FALSE)
    BY <1>1, <1>2, <2>1, UnsignedRight
  <2>4. d.spec # "d" /\ (d.spec = "d") = FALSE
    BY <1>5
  <2>5. Chars(Expand(d)) = Shown(v, 16, NumDigits(d), d.width, d.flags, FALSE)
    BY <2>2, <2>3, Zenon DEF p
  <2>6. /\ d.precision # 0 \/ (v # 0 /\ "PAD_ZERO" \notin d.flags)
             => Chars(Expand(d)) = Reference(v, 16, d.precision, d.width, d.flags, FALSE)
        /\ d.precision = 0 => Chars(Expand(d)) = Reference(v, 16, -1, d.width, d.flags, FALSE)
    BY <1>1, <1>2, <2>5, RightByShown
  <2> QED BY <1>5, <2>4, <2>6, Zenon DEF NumberRight, v
<1> QED BY <1>3, <1>4, <1>5, Zenon DEF NumberRight

\* The directives to come are legal.
FormatInv == format \in Seq(Directive) /\ \A i \in 1 .. Len(format) : Legal(format[i])

\* Every format that is printed is legal.
LEMMA FormatLegal ==
  ASSUME NEW f \in Format
  PROVE  f \in Seq(Directive) /\ \A i \in 1 .. Len(f) : Legal(f[i])
<1>1. f \in Seq(Directive)
  BY PrintfAssumption
<1>2. ASSUME NEW i \in 1 .. Len(f) PROVE Legal(f[i])
  <2>1. f[i] \in Directive
    BY <1>1
  <2> QED BY <2>1, PrintfAssumption, Zenon DEF Legal
<1> QED BY <1>1, <1>2

\* The directives to come stay legal.
LEMMA FormatStep ==
  ASSUME FormatInv, [FormatsNext]_<<printVars, rec>>
  PROVE  FormatInv'
<1>1. \/ format' = format \/ format' \in Format \/ format' = <<>>
      \/ (format # <<>> /\ format' = Tail(format))
  BY Zenon DEF FormatsNext, RecordEvent, SEGGER_RTT_printf, SEGGER_SYSVIEW_PrintfTarget,
    PrintStarts, PrintStep, SEGGER_RTT_vprintf, _VPrintTarget, SwallowLiteral, NextIsLiteral,
    RunAstray, _StoreChar, StoreRetry, PrintEnds, StoreCharTarget, TargetEnds, printVars
<1>2. CASE format' = format
  BY <1>2 DEF FormatInv
<1>3. CASE format' \in Format
  BY <1>3, FormatLegal DEF FormatInv
<1>4. CASE format # <<>> /\ format' = Tail(format)
  <2> DEFINE t == Tail(format)
  <2>1. format \in Seq(Directive) /\ \A i \in 1 .. Len(format) : Legal(format[i])
    BY DEF FormatInv
  <2>2. t \in Seq(Directive) /\ Len(t) = Len(format) - 1 /\ Len(format) \in Nat
    BY <1>4, <2>1
  <2>3. \A i \in 1 .. Len(t) : t[i] = format[i + 1] /\ i + 1 \in 1 .. Len(format)
    BY <1>4, <2>1, <2>2
  <2> HIDE DEF t
  <2>4. \A i \in 1 .. Len(t) : Legal(t[i])
    BY <2>1, <2>3, Zenon
  <2>5. format' = t
    BY <1>4 DEF t
  <2> QED BY <2>2, <2>4, <2>5, Zenon DEF FormatInv
<1>5. CASE format' = <<>>
  BY <1>5 DEF FormatInv
<1> QED BY <1>1, <1>2, <1>3, <1>4, <1>5

\* Nothing is to come at the start.
LEMMA FormatStart == FormatsInit => FormatInv
BY DEF FormatsInit, PrintInit, FormatInv

(***************************************************************************)
(* Every number of every format comes out as C defines its conversion,     *)
(* where the code takes a precision of 0 for none: the loops of            *)
(* _PrintUnsigned and _PrintInt end, find the weight of the first digit    *)
(* although it is computed modulo UWord, print the digits and share out    *)
(* the padding, for every width of the machine word.                       *)
(***************************************************************************)
THEOREM NumbersAreRight == FormatsSpec => []NumbersRight
<1>1. FormatInv => NumbersRight
  <2> SUFFICES ASSUME FormatInv, NEW i \in DOMAIN format PROVE NumberRight(format[i])
    BY Zenon DEF NumbersRight, NumberRight
  <2>1. i \in 1 .. Len(format)
    BY DEF FormatInv
  <2>2. Legal(format[i])
    BY <2>1, Zenon DEF FormatInv
  <2> QED BY <2>2, LegalNumberRight
<1> QED
  BY <1>1, FormatStart, FormatStep, PTL DEF FormatsSpec

-----------------------------------------------------------------------------
(* What is printed is a sequence of characters *)

Parts == [lead : Seq(Nat), digits : Seq(Nat), trail : Seq(Nat)]

\* _PrintUnsigned stores characters.
LEMMA UnsignedType ==
  ASSUME NEW b \in Nat, b >= 2, NEW v \in Nat, v < UWord, NEW p \in Nat,
         p >= 1 => Power(b, p - 1) < UWord, NEW width \in Int, NEW flags
  PROVE  _PrintUnsigned(v, b, p, width, flags) \in Parts
<1> DEFINE n == Max2(Width(v, b), p)
           pad == width - n
           u == _PrintUnsigned(v, b, p, width, flags)
           k == IF "PAD_ZERO" \in flags /\ p = 0 THEN 0 ELSE SPACE
<1>1. n \in Nat
  <2>1. Width(v, b) \in Nat
    BY WidthIsExact
  <2> QED BY <2>1 DEF Max2
<1>2. Digits(v, b, p) \in Seq(Nat)
  <2>1. Digits(v, b, p) = DigitSeq(v, b, n)
    BY DigitsAreRight
  <2> HIDE DEF n
  <2> QED BY <1>1, <2>1, DigitSeqType
<1>3. pad \in Int /\ k \in Nat /\ SPACE \in Nat
  <2> HIDE DEF n
  <2> QED BY <1>1 DEF SPACE
<1>4. u = [lead   |-> IF "LEFT_JUSTIFY" \in flags THEN <<>> ELSE Rep(k, pad),
           digits |-> Digits(v, b, p),
           trail  |-> IF "LEFT_JUSTIFY" \in flags THEN Rep(SPACE, pad) ELSE <<>>]
  BY Zenon DEF _PrintUnsigned
<1> HIDE DEF n, pad, u, k
<1>5. Rep(k, pad) \in Seq(Nat) /\ Rep(SPACE, pad) \in Seq(Nat)
  BY <1>3, RepType
<1>6. u \in Parts
  BY <1>2, <1>4, <1>5 DEF Parts
<1> QED BY <1>6 DEF u

\* _PrintInt stores characters.
LEMMA SignedType ==
  ASSUME NEW b \in Nat, b >= 2, NEW v \in Int, -UWord < v, v < UWord, NEW p \in Nat,
         p >= 1 => Power(b, p - 1) < UWord, NEW width \in Nat, NEW flags
  PROVE  _PrintInt(v, b, p, width, flags) \in Parts
<1> DEFINE a == IF v < 0 THEN -v ELSE v
           n == Max2(Width(a, b), p)
           zero == "PAD_ZERO" \in flags /\ p = 0
           left == "LEFT_JUSTIFY" \in flags
           sign == SignOf(v, flags, TRUE)
           fw == IF width > 0 THEN width - Len(sign) ELSE 0
           fw2 == IF left THEN fw ELSE IF fw > n THEN n ELSE fw
           u == _PrintUnsigned(a, b, p, fw2, flags)
           lead == IF left THEN sign
                   ELSE IF zero THEN (sign \o Rep(0, fw - n)) \o u.lead
                   ELSE (Rep(SPACE, fw - n) \o sign) \o u.lead
<1>0. UWord \in Nat
  BY PrintfAssumption
<1>1. a \in Nat /\ a < UWord
  BY <1>0
<1>2. sign \in Seq(Nat) /\ Len(sign) \in {0, 1}
  BY SignType
<1>3. _PrintInt(v, b, p, width, flags) = [u EXCEPT !.lead = lead]
  BY Zenon DEF _PrintInt, SignOf
<1> HIDE DEF a
<1>4. n \in Nat
  <2>1. Width(a, b) \in Nat
    BY <1>1, WidthIsExact
  <2> QED BY <2>1 DEF Max2
<1> HIDE DEF n, sign
<1>5. fw \in Int /\ fw2 \in Int /\ fw - n \in Int
  BY <1>2, <1>4
<1> HIDE DEF fw2, fw
<1>6. u \in Parts
  BY <1>1, <1>5, UnsignedType
<1> DEFINE out == fw - n
<1>7. Rep(0, out) \in Seq(Nat) /\ Rep(SPACE, out) \in Seq(Nat)
  <2>1. 0 \in Nat /\ SPACE \in Nat /\ out \in Int
    BY <1>5 DEF SPACE
  <2> HIDE DEF out
  <2> QED BY <2>1, RepType
<1>8. lead \in Seq(Nat)
  <2>1. u.lead \in Seq(Nat)
    BY <1>6 DEF Parts
  <2> HIDE DEF u, zero, left
  <2> QED BY <1>2, <1>7, <2>1
<1> HIDE DEF lead, u
<1> QED BY <1>3, <1>6, <1>8 DEF Parts

\* A plain text.
LEMMA PlainType ==
  ASSUME NEW s \in Seq(Nat)
  PROVE  Plain(s) \in Parts
BY DEF Plain, Parts

\* A pointer has as many digits as the largest word, whose weight does not wrap around.
LEMMA PointerType ==
  /\ PointerDigits \in Nat
  /\ PointerDigits >= 1 => Power(16, PointerDigits - 1) < UWord
<1>1. UWord \in Nat /\ UWord >= 2
  BY PrintfAssumption
<1> DEFINE m == UWord - 1
<1>2. m \in Nat /\ m >= 1 /\ m < UWord /\ 16 \in Nat /\ 16 >= 2
  BY <1>1
<1> HIDE DEF m
<1>3. Width(m, 16) \in Nat /\ Width(m, 16) >= 1 /\ Power(16, Width(m, 16) - 1) <= Max2(m, 1)
  BY <1>2, WidthIsExact
<1>4. Max2(m, 1) = m
  BY <1>2 DEF Max2
<1>5. Power(16, Width(m, 16) - 1) \in Nat
  <2>1. Width(m, 16) - 1 \in Nat
    BY <1>3
  <2> QED BY <1>2, <2>1, PowerGrows
<1>6. Power(16, Width(m, 16) - 1) < UWord
  BY <1>1, <1>2, <1>3, <1>4, <1>5
<1> QED BY <1>3, <1>6 DEF PointerDigits, m

\* A directive is expanded to characters, in both copies of the code.
LEMMA ExpandType ==
  ASSUME NEW d, Legal(d)
  PROVE  Expand(d) \in Parts /\ ExpandTarget(d) \in Parts
<1> DEFINE p == NumDigits(d)
           v == d.arg % UWord
<1>1. p \in Nat /\ d.width \in Nat /\ d.width \in Int /\ d.arg \in Int /\ v \in Nat /\ v < UWord
  BY DirectiveType
<1>2. 10 \in Nat /\ 10 >= 2 /\ 16 \in Nat /\ 16 >= 2
  OBVIOUS
<1>t. \A x, b, nd, fw, fl :
        /\ PrintUnsignedTarget(x, b, nd, fw, fl) = _PrintUnsigned(x, b, nd, fw, fl)
        /\ PrintIntTarget(x, b, nd, fw, fl) = _PrintInt(x, b, nd, fw, fl)
  BY Zenon DEF PrintUnsignedTarget, PrintIntTarget
<1>3. CASE d.spec = "d"
  <2>1. /\ -UWord < d.arg /\ d.arg < UWord
        /\ p >= 1 => Power(10, p - 1) < UWord
    BY <1>3, DirectiveType
  <2>2. /\ Expand(d) = _PrintInt(d.arg, 10, p, d.width, d.flags)
        /\ ExpandTarget(d) = _PrintInt(d.arg, 10, p, d.width, d.flags)
    BY <1>3, <1>t, Zenon DEF Expand, ExpandTarget
  <2> HIDE DEF p
  <2>3. _PrintInt(d.arg, 10, p, d.width, d.flags) \in Parts
    BY <1>1, <1>2, <2>1, SignedType
  <2> QED BY <2>2, <2>3, Zenon
<1>4. CASE d.spec = "u"
  <2>1. p >= 1 => Power(10, p - 1) < UWord
    BY <1>4, DirectiveType
  <2>2. /\ Expand(d) = _PrintUnsigned(v, 10, p, d.width, d.flags)
        /\ ExpandTarget(d) = _PrintUnsigned(v, 10, p, d.width, d.flags)
    BY <1>4, <1>t DEF Expand, ExpandTarget
  <2> HIDE DEF p, v
  <2>3. _PrintUnsigned(v, 10, p, d.width, d.flags) \in Parts
    BY <1>1, <1>2, <2>1, UnsignedType
  <2> QED BY <2>2, <2>3, Zenon
<1>5. CASE d.spec = "x"
  <2>1. p >= 1 => Power(16, p - 1) < UWord
    BY <1>5, DirectiveType
  <2>2. /\ Expand(d) = _PrintUnsigned(v, 16, p, d.width, d.flags)
        /\ ExpandTarget(d) = _PrintUnsigned(v, 16, p, d.width, d.flags)
    BY <1>5, <1>t DEF Expand, ExpandTarget
  <2> HIDE DEF p, v
  <2>3. _PrintUnsigned(v, 16, p, d.width, d.flags) \in Parts
    BY <1>1, <1>2, <2>1, UnsignedType
  <2> QED BY <2>2, <2>3, Zenon
<1>6. CASE d.spec = "p"
  <2>1. /\ Expand(d) = _PrintUnsigned(v, 16, PointerDigits, PointerDigits, {})
        /\ ExpandTarget(d) = _PrintUnsigned(v, 16, PointerDigits, PointerDigits, {})
    BY <1>6, <1>t DEF Expand, ExpandTarget
  <2> DEFINE q == PointerDigits
  <2>2. q \in Nat /\ q \in Int /\ (q >= 1 => Power(16, q - 1) < UWord)
    BY PointerType
  <2> HIDE DEF q, v
  <2>3. _PrintUnsigned(v, 16, q, q, {}) \in Parts
    BY <1>1, <1>2, <2>2, UnsignedType
  <2> QED BY <2>1, <2>3, Zenon DEF q
<1>7. CASE d.spec = "s"
  <2>1. ASSUME NEW n \in Int PROVE Plain(Rep(LETTER, n)) \in Parts
    <3>1. Rep(LETTER, n) \in Seq(Nat)
      BY RepType DEF LETTER
    <3> QED BY <3>1, PlainType
  <2>2. d.precision \in Int /\ 6 \in Int
    BY DEF Legal, Directive
  <2>3. PICK n \in Int : Expand(d) = Plain(Rep(LETTER, n))
    <3> DEFINE n == IF d.arg = -1 THEN 6
                    ELSE IF d.precision # -1 /\ d.precision < d.arg THEN d.precision ELSE d.arg
    <3>1. n \in Int
      BY <1>1, <2>2
    <3>2. Expand(d) = Plain(Rep(LETTER, n))
      BY <1>7 DEF Expand
    <3> HIDE DEF n
    <3> QED BY <3>1, <3>2, Zenon
  <2>4. PICK m \in Int : ExpandTarget(d) = Plain(Rep(LETTER, m))
    <3> DEFINE m == IF d.arg = -1 THEN 6 ELSE d.arg
    <3>1. m \in Int
      BY <1>1, <2>2
    <3>2. ExpandTarget(d) = Plain(Rep(LETTER, m))
      BY <1>7 DEF ExpandTarget
    <3> HIDE DEF m
    <3> QED BY <3>1, <3>2, Zenon
  <2> QED BY <2>1, <2>3, <2>4, Zenon
<1>8. CASE d.spec \notin {"d", "u", "x", "p", "s"}
  <2>1. /\ Expand(d) = IF d.spec \in {"c", "%", "literal"} THEN Plain(<<LETTER>>) ELSE Plain(<<>>)
        /\ ExpandTarget(d) = IF d.spec \in {"c", "%", "literal"}
                             THEN Plain(<<LETTER>>) ELSE Plain(<<>>)
    BY <1>8 DEF Expand, ExpandTarget
  <2>2. <<LETTER>> \in Seq(Nat) /\ <<>> \in Seq(Nat)
    BY DEF LETTER
  <2> QED BY <2>1, <2>2, PlainType
<1> QED BY <1>3, <1>4, <1>5, <1>6, <1>7, <1>8, Zenon

-----------------------------------------------------------------------------
(* Texts *)

\* Concatenation does not depend on the brackets.
LEMMA Brackets ==
  ASSUME NEW x \in Seq(Nat), NEW y \in Seq(Nat), NEW z \in Seq(Nat)
  PROVE  (x \o y) \o z = x \o (y \o z) /\ x \o y \in Seq(Nat) /\ Len(x \o y) = Len(x) + Len(y)
<1>1. (x \o y) \o z = x \o (y \o z)
  BY ConcatAssociative
<1> QED BY <1>1

\* A text is its first character and the rest.
LEMMA FirstAndRest ==
  ASSUME NEW s \in Seq(Nat), s # <<>>
  PROVE  Head(s) \in Nat /\ Tail(s) \in Seq(Nat) /\ s = <<Head(s)>> \o Tail(s)
<1>1. Head(s) \in Nat /\ Tail(s) \in Seq(Nat) /\ Len(Tail(s)) = Len(s) - 1
  OBVIOUS
<1>2. \A i \in 1 .. Len(s) - 1 : Tail(s)[i] = s[i + 1]
  OBVIOUS
<1>3. Len(s) \in Nat /\ Len(s) >= 1 /\ Head(s) = s[1]
  OBVIOUS
<1> DEFINE h == Head(s)
           t == Tail(s)
<1>4. <<h>> \o t \in Seq(Nat) /\ Len(<<h>> \o t) = Len(s)
  BY <1>1, <1>3
<1>5. ASSUME NEW i \in 1 .. Len(s) PROVE s[i] = (<<h>> \o t)[i]
  <2> HIDE DEF h, t
  <2>0. h \in Nat /\ t \in Seq(Nat) /\ Len(t) = Len(s) - 1
    BY <1>1 DEF h, t
  <2>1. CASE i = 1
    BY <1>3, <2>0, <2>1 DEF h
  <2>2. CASE i # 1
    <3>1. i - 1 \in 1 .. Len(s) - 1 /\ (i - 1) + 1 = i
      BY <1>3, <2>2
    <3>2. (<<h>> \o t)[i] = t[i - 1]
      BY <2>0, <2>2, <1>3
    <3>3. t[i - 1] = s[(i - 1) + 1]
      BY <1>2, <3>1 DEF t
    <3> QED BY <3>1, <3>2, <3>3
  <2> QED BY <2>1, <2>2
<1> HIDE DEF h, t
<1>6. s = <<h>> \o t
  BY <1>4, <1>5, SeqEqual
<1> QED BY <1>1, <1>6 DEF h, t

\* The characters of a directive, one by one.
LEMMA CharsType ==
  ASSUME NEW x \in Parts
  PROVE  Chars(x) \in Seq(Nat)
BY DEF Chars, Parts

\* What is left after the first character of the text.
LEMMA CharsStep ==
  ASSUME NEW x \in Parts, Chars(x) # <<>>
  PROVE  /\ Head(Chars(x)) \in Nat /\ Rest(x) \in Parts
         /\ Chars(x) = <<Head(Chars(x))>> \o Chars(Rest(x))
<1>1. x.lead \in Seq(Nat) /\ x.digits \in Seq(Nat) /\ x.trail \in Seq(Nat)
  BY DEF Parts
<1> DEFINE a == x.lead
           b == x.digits
           c == x.trail
           y == Rest(x)
<1>2. Chars(x) = (a \o b) \o c
  BY DEF Chars
<1>3. ASSUME NEW k \in Nat, NEW t \in Seq(Nat), Chars(x) = <<k>> \o t
      PROVE  Head(Chars(x)) = k
  BY <1>3
<1>4. CASE a # <<>>
  <2>1. PICK k \in Nat, t \in Seq(Nat) : a = <<k>> \o t /\ t = Tail(a)
    BY <1>1, <1>4, FirstAndRest
  <2>2. y = [x EXCEPT !.lead = Tail(a)]
    BY <1>4 DEF Rest
  <2>3. y \in Parts /\ Chars(y) = (t \o b) \o c
    BY <1>1, <2>1, <2>2 DEF Parts, Chars
  <2>4. Chars(x) = <<k>> \o ((t \o b) \o c)
    <3>1. <<k>> \in Seq(Nat)
      OBVIOUS
    <3> HIDE DEF a, b, c
    <3>2. ((<<k>> \o t) \o b) \o c = <<k>> \o ((t \o b) \o c)
      <4>0. b \in Seq(Nat) /\ c \in Seq(Nat)
        BY <1>1 DEF b, c
      <4>1. (<<k>> \o t) \o b = <<k>> \o (t \o b) /\ t \o b \in Seq(Nat)
        BY <3>1, <4>0, Brackets
      <4>2. (<<k>> \o (t \o b)) \o c = <<k>> \o ((t \o b) \o c)
        BY <3>1, <4>0, <4>1, Brackets
      <4> QED BY <4>1, <4>2, Zenon
    <3> QED BY <1>2, <2>1, <3>2, Zenon
  <2>5. Chars(y) \in Seq(Nat)
    BY <2>3, CharsType
  <2> QED BY <1>3, <2>3, <2>4, <2>5, Zenon
<1>5. CASE a = <<>> /\ b # <<>>
  <2>1. PICK k \in Nat, t \in Seq(Nat) : b = <<k>> \o t /\ t = Tail(b)
    BY <1>1, <1>5, FirstAndRest
  <2>2. y = [x EXCEPT !.digits = Tail(b)]
    BY <1>5 DEF Rest
  <2>3. y \in Parts /\ Chars(y) = (<<>> \o t) \o c
    BY <1>1, <1>5, <2>1, <2>2 DEF Parts, Chars
  <2>4. Chars(y) = t \o c
    BY <2>3
  <2>5. Chars(x) = <<k>> \o (t \o c)
    <3>1. <<k>> \in Seq(Nat)
      OBVIOUS
    <3>2. Chars(x) = b \o c
      BY <1>1, <1>2, <1>5
    <3> HIDE DEF a, b, c
    <3>3. c \in Seq(Nat)
      BY <1>1 DEF c
    <3>4. (<<k>> \o t) \o c = <<k>> \o (t \o c)
      BY <3>1, <3>3, Brackets
    <3> QED BY <2>1, <3>2, <3>4, Zenon
  <2>6. Chars(y) \in Seq(Nat)
    BY <2>3, CharsType
  <2> QED BY <1>3, <2>3, <2>4, <2>5, <2>6, Zenon
<1>6. CASE a = <<>> /\ b = <<>>
  <2>0. Chars(x) = c
    BY <1>1, <1>2, <1>6
  <2>1. PICK k \in Nat, t \in Seq(Nat) : c = <<k>> \o t /\ t = Tail(c)
    BY <1>1, <2>0, FirstAndRest
  <2>2. y = [x EXCEPT !.trail = Tail(c)]
    BY <1>6 DEF Rest
  <2>3. y \in Parts /\ Chars(y) = (<<>> \o <<>>) \o t
    BY <1>1, <1>6, <2>1, <2>2 DEF Parts, Chars
  <2>4. Chars(y) = t
    BY <2>3
  <2> QED BY <1>3, <2>0, <2>1, <2>3, <2>4, Zenon
<1> QED BY <1>4, <1>5, <1>6, Zenon

\* A character goes from the text to the buffer: nothing changes for the whole.
LEMMA CharMoves ==
  ASSUME NEW h \in Seq(Nat), NEW p \in Seq(Nat), NEW k \in Nat, NEW r \in Seq(Nat)
  PROVE  /\ Append(p, k) \in Seq(Nat) /\ Len(Append(p, k)) = Len(p) + 1
         /\ (h \o Append(p, k)) \o r = (h \o p) \o (<<k>> \o r)
<1>1. Append(p, k) = p \o <<k>> /\ <<k>> \in Seq(Nat)
  BY AppendIsConcat
<1>2. (h \o (p \o <<k>>)) \o r = (h \o p) \o (<<k>> \o r)
  <2> DEFINE q == <<k>>
  <2>1. q \in Seq(Nat)
    OBVIOUS
  <2> HIDE DEF q
  <2>2. (h \o p) \o q = h \o (p \o q) /\ h \o p \in Seq(Nat)
    BY <2>1, Brackets
  <2>3. ((h \o p) \o q) \o r = (h \o p) \o (q \o r)
    BY <2>1, <2>2, Brackets
  <2> QED BY <2>2, <2>3, Zenon DEF q
<1>3. Append(p, k) \in Seq(Nat) /\ Len(Append(p, k)) = Len(p) + 1
  OBVIOUS
<1> QED BY <1>1, <1>2, <1>3, Zenon

-----------------------------------------------------------------------------
(* Where the text is *)

\* What the host has of the text, at every moment.
HostHas == StoredIsPrefix \/ (retried /\ mode = "TRIM" /\ StoredRepeats)

PrintType ==
  /\ dest \in {"rtt", "target"} /\ mode \in {"SKIP", "TRIM", "BLOCK"}
  /\ printing \in {"idle", "run", "retry", "end"}
  /\ text \in Parts /\ pBuffer \in Seq(Nat) /\ full \in Seq(Nat) /\ stored \in Seq(Nat)
  /\ lost \in BOOLEAN /\ retried \in BOOLEAN /\ strayed \in BOOLEAN /\ skip \in BOOLEAN
  /\ ReturnValue \in Int /\ Cnt = Len(pBuffer) /\ Cnt <= BufferSize

\* While the text is printed it is with the host, in the buffer and to come, and
\* nowhere else; SEGGER_RTT_printf has counted what it has stored and has lost
\* nothing.
RunInv ==
  /\ Cnt < BufferSize
  /\ ~lost /\ ~strayed => (stored \o pBuffer) \o Chars(text) = full
  /\ dest = "rtt" => ~lost /\ ReturnValue = Len(stored) + Len(pBuffer)

\* The full buffer is kept, of which j characters are with the host.
Kept ==
  \E h, u \in Seq(Nat) : \E j \in 0 .. Len(pBuffer) :
    /\ (h \o pBuffer) \o u = full /\ stored = h \o SubSeq(pBuffer, 1, j)
    /\ j < Len(pBuffer) /\ (mode # "TRIM" => j = 0)

\* After an error, before and after the buffer is tried once more.
ErrorInv ==
  /\ dest = "rtt" /\ lost /\ ReturnValue = -1
  /\ printing = "retry" => Cnt = BufferSize /\ Kept
  /\ printing = "end" => HostHas

\* What the result says.
Told ==
  /\ ReturnValue < 0 => lost
  /\ ReturnValue >= 0 =>
       /\ format = <<>> /\ Cnt < BufferSize
       /\ ReturnValue = Len(full) + Cnt
       /\ Len(full) - Len(stored) \in 0 .. Cnt
       /\ lost <=> Len(full) # Len(stored)

\* What is left when it is over.
IdleInv ==
  /\ Cnt = BufferSize => ReturnValue = -1
  /\ ~lost /\ ~strayed => stored = full
  /\ dest = "rtt" => HostHas /\ Told

PrintInv ==
  /\ FormatInv /\ PrintType
  /\ dest = "target" => ReturnValue = 0 /\ Cnt < BufferSize
  /\ dest = "rtt" => ~strayed
  /\ skip => strayed
  /\ printing = "run" => RunInv
  /\ printing \in {"retry", "end"} => ErrorInv
  /\ printing = "idle" => IdleInv

\* The characters of a part of a text.
LEMMA SubType ==
  ASSUME NEW t \in Seq(Nat), NEW z \in 0 .. Len(t), NEW a \in 0 .. z
  PROVE  /\ SubSeq(t, a + 1, z) \in Seq(Nat) /\ Len(SubSeq(t, a + 1, z)) = z - a
         /\ \A i \in 1 .. z - a : SubSeq(t, a + 1, z)[i] = t[a + i]
<1>1. Len(t) \in Nat /\ z \in Nat /\ a \in Nat /\ a + 1 \in Int /\ z \in Int
  OBVIOUS
<1>2. \A i \in a + 1 .. z : t[i] \in Nat
  BY <1>1
<1> DEFINE s == SubSeq(t, a + 1, z)
<1>3. /\ s \in Seq(Nat) /\ Len(s) = IF a + 1 <= z THEN z - (a + 1) + 1 ELSE 0
      /\ \A i \in 1 .. z - (a + 1) + 1 : s[i] = t[(a + 1) + i - 1]
  BY <1>1, <1>2, SubSeqProperties
<1> HIDE DEF s
<1>4. Len(s) = z - a
  BY <1>1, <1>3
<1>5. ASSUME NEW i \in 1 .. z - a PROVE s[i] = t[a + i]
  <2>1. i \in 1 .. z - (a + 1) + 1 /\ (a + 1) + i - 1 = a + i
    BY <1>1
  <2>2. s[i] = t[(a + 1) + i - 1]
    BY <1>3, <2>1
  <2> QED BY <2>1, <2>2
<1> QED BY <1>3, <1>4, <1>5 DEF s

\* The characters of two texts in a row.
LEMMA ConcatAt ==
  ASSUME NEW h \in Seq(Nat), NEW q \in Seq(Nat)
  PROVE  /\ h \o q \in Seq(Nat) /\ Len(h \o q) = Len(h) + Len(q)
         /\ Len(h) \in Nat /\ Len(q) \in Nat
         /\ \A i \in 1 .. Len(h) : (h \o q)[i] = h[i]
         /\ \A i \in 1 .. Len(q) : (h \o q)[Len(h) + i] = q[i]
OBVIOUS

\* The start of a part in the middle of a text.
LEMMA SubOf ==
  ASSUME NEW h \in Seq(Nat), NEW p \in Seq(Nat), NEW u \in Seq(Nat), NEW j \in 0 .. Len(p)
  PROVE  /\ Len(h) + j \in 0 .. Len((h \o p) \o u) /\ Len(h) \in 0 .. Len(h) + j
         /\ SubSeq((h \o p) \o u, 1, Len(h) + j) = h \o SubSeq(p, 1, j)
         /\ SubSeq((h \o p) \o u, Len(h) + 1, Len(h) + j) = SubSeq(p, 1, j)
<1> DEFINE hp == h \o p
           t == hp \o u
           q == SubSeq(p, 1, j)
           n == Len(h)
           x == SubSeq(t, 1, n + j)
           y == h \o q
           z == SubSeq(t, n + 1, n + j)
<1>1. /\ hp \in Seq(Nat) /\ Len(hp) = n + Len(p) /\ n \in Nat /\ Len(p) \in Nat
      /\ \A i \in 1 .. n : hp[i] = h[i]
      /\ \A i \in 1 .. Len(p) : hp[n + i] = p[i]
  BY ConcatAt
<1> HIDE DEF hp, n
<1>2. /\ t \in Seq(Nat) /\ Len(t) = Len(hp) + Len(u) /\ Len(u) \in Nat
      /\ \A i \in 1 .. Len(hp) : t[i] = hp[i]
  BY <1>1, ConcatAt
<1> HIDE DEF t
<1>3. /\ j \in Nat /\ n + j \in 0 .. Len(t) /\ 0 \in 0 .. n + j /\ n \in 0 .. n + j
      /\ j \in 0 .. Len(p) /\ 0 \in 0 .. j
  BY <1>1, <1>2
<1>4. q \in Seq(Nat) /\ Len(q) = j /\ \A i \in 1 .. j : q[i] = p[i]
  <2> DEFINE q0 == SubSeq(p, 0 + 1, j)
  <2>1. q0 \in Seq(Nat) /\ Len(q0) = j - 0 /\ \A i \in 1 .. j - 0 : q0[i] = p[0 + i]
    BY <1>3, SubType
  <2>2. q = q0
    OBVIOUS
  <2> HIDE DEF q0, q
  <2> QED BY <1>1, <1>3, <2>1, <2>2
<1>5. x \in Seq(Nat) /\ Len(x) = n + j /\ \A i \in 1 .. n + j : x[i] = t[i]
  <2> DEFINE m == n + j
             x0 == SubSeq(t, 0 + 1, m)
  <2>0. m \in 0 .. Len(t) /\ 0 \in 0 .. m /\ m \in Nat
    BY <1>1, <1>3
  <2>2. x = x0
    OBVIOUS
  <2> HIDE DEF m
  <2>1. x0 \in Seq(Nat) /\ Len(x0) = m - 0 /\ \A i \in 1 .. m - 0 : x0[i] = t[0 + i]
    BY <1>2, <2>0, SubType
  <2> HIDE DEF x0, x
  <2>3. x0 \in Seq(Nat) /\ Len(x0) = m /\ \A i \in 1 .. m : x0[i] = t[i]
    BY <2>0, <2>1
  <2> QED BY <2>2, <2>3 DEF m
<1>6. z \in Seq(Nat) /\ Len(z) = j /\ \A i \in 1 .. j : z[i] = t[n + i]
  <2> DEFINE m == n + j
             z0 == SubSeq(t, n + 1, m)
  <2>0. m \in 0 .. Len(t) /\ n \in 0 .. m /\ m - n = j
    BY <1>1, <1>3
  <2>1. z = z0
    OBVIOUS
  <2> HIDE DEF m
  <2>2. z0 \in Seq(Nat) /\ Len(z0) = m - n /\ \A i \in 1 .. m - n : z0[i] = t[n + i]
    BY <1>2, <2>0, SubType
  <2> HIDE DEF z0, z
  <2> QED BY <2>0, <2>1, <2>2, Zenon
<1> HIDE DEF q
<1>7. /\ y \in Seq(Nat) /\ Len(y) = n + Len(q)
      /\ \A i \in 1 .. n : y[i] = h[i]
      /\ \A i \in 1 .. Len(q) : y[n + i] = q[i]
  BY <1>4, ConcatAt DEF n
<1> HIDE DEF x, y, z
<1>8. \A i \in 1 .. j : t[n + i] = p[i]
  <2> TAKE i \in 1 .. j
  <2>1. i \in 1 .. Len(p) /\ n + i \in 1 .. Len(hp)
    BY <1>1, <1>3
  <2> QED BY <1>1, <1>2, <2>1
<1>9. x = y
  <2>1. ASSUME NEW i \in 1 .. n + j PROVE x[i] = y[i]
    <3>1. CASE i <= n
      <4>1. i \in 1 .. n /\ i \in 1 .. Len(hp)
        BY <1>1, <1>3, <3>1
      <4>2. x[i] = t[i] /\ t[i] = hp[i] /\ hp[i] = h[i] /\ y[i] = h[i]
        BY <1>1, <1>2, <1>5, <1>7, <4>1, Zenon
      <4> QED BY <4>2, Zenon
    <3>2. CASE i > n
      <4>1. i - n \in 1 .. j /\ n + (i - n) = i
        BY <1>1, <1>3, <3>2
      <4>2. y[n + (i - n)] = q[i - n] /\ q[i - n] = p[i - n] /\ t[n + (i - n)] = p[i - n]
        BY <1>4, <1>7, <1>8, <4>1, Zenon
      <4>3. x[i] = t[i]
        BY <1>5, Zenon
      <4> QED BY <4>1, <4>2, <4>3, Zenon
    <3> QED BY <1>1, <1>3, <3>1, <3>2
  <2>2. Len(x) = n + j /\ Len(y) = n + j
    BY <1>4, <1>5, <1>7
  <2> QED BY <1>5, <1>7, <2>1, <2>2, SeqEqual
<1>10. z = q
  <2>1. \A i \in 1 .. j : z[i] = q[i]
    BY <1>4, <1>6, <1>8, Zenon
  <2> QED BY <1>4, <1>6, <2>1, SeqEqual
<1> QED BY <1>3, <1>9, <1>10 DEF hp, t, n, x, y, z, q

\* Nothing, and everything, of a text.
LEMMA SubEnds ==
  ASSUME NEW p \in Seq(Nat)
  PROVE  /\ SubSeq(p, 1, 0) = <<>> /\ SubSeq(p, 1, Len(p)) = p /\ p \o <<>> = p
         /\ Len(p) \in Nat
OBVIOUS

\* What a write does to the host's text.
LEMMA WrittenHost ==
  ASSUME PrintType, NEW c \in Seq(Nat), NEW k \in 0 .. Len(c), Written(c, k)
  PROVE  /\ stored' \in Seq(Nat) /\ lost' \in BOOLEAN
         /\ stored' = stored \o SubSeq(c, 1, k)
         /\ k = Len(c) => stored' = stored \o c /\ lost' = lost
         /\ k < Len(c) => lost' /\ (mode # "TRIM" => k = 0)
         /\ mode = "SKIP" /\ k # Len(c) => stored' = stored
         /\ Len(stored') = Len(stored) + k
<1>1. stored \in Seq(Nat) /\ lost \in BOOLEAN /\ Len(c) \in Nat
  BY DEF PrintType
<1>2. /\ k \in Stores(Len(c)) /\ stored' = stored \o SubSeq(c, 1, k)
      /\ lost' = (lost \/ k < Len(c))
  BY DEF Written
<1>3. SubSeq(c, 1, k) \in Seq(Nat) /\ Len(SubSeq(c, 1, k)) = k
  BY <1>1
<1>4. stored' \in Seq(Nat) /\ Len(stored') = Len(stored) + k
  BY <1>1, <1>2, <1>3
<1>5. k = Len(c) => stored' = stored \o c /\ lost' = lost
  BY <1>1, <1>2, SubEnds
<1>6. k < Len(c) => lost' = TRUE /\ (mode # "TRIM" => k = 0)
  <2> SUFFICES ASSUME k < Len(c) PROVE lost' = TRUE /\ (mode # "TRIM" => k = 0)
    OBVIOUS
  <2>0. k # Len(c)
    BY <1>1
  <2>1. lost' = TRUE /\ k # Len(c)
    BY <1>2, <2>0, Zenon
  <2>2. mode # "TRIM" => k \in {Len(c)} \/ k \in {0, Len(c)}
    BY <1>2, Zenon DEF Stores
  <2> QED BY <2>1, <2>2
<1>7. mode = "SKIP" /\ k # Len(c) => stored' = stored
  <2> SUFFICES ASSUME mode = "SKIP", k # Len(c) PROVE stored' = stored
    OBVIOUS
  <2>1. k = 0
    BY <1>2 DEF Stores
  <2>2. SubSeq(c, 1, 0) = <<>> /\ stored \o <<>> = stored
    BY <1>1, SubEnds
  <2> QED BY <1>2, <2>1, <2>2, Zenon
<1>8. lost' \in BOOLEAN
  BY <1>1, <1>2
<1> QED BY <1>2, <1>4, <1>5, <1>6, <1>7, <1>8

\* The buffer has a size, and the empty text is one.
LEMMA SizeType == /\ BufferSize \in Nat /\ BufferSize >= 1 /\ <<>> \in Seq(Nat) /\ Len(<<>>) = 0
                  /\ Empty \in Parts /\ Chars(Empty) = <<>>
<1>1. BufferSize \in Nat /\ BufferSize >= 1
  BY PrintfAssumption
<1>2. <<>> \in Seq(Nat) /\ Len(<<>>) = 0
  OBVIOUS
<1>4. Empty \in Parts
  BY <1>2, PlainType DEF Empty
<1>5. Chars(Empty) = <<>>
  BY DEF Chars, Empty, Plain
<1> QED BY <1>1, <1>2, <1>4, <1>5

\* The start.
LEMMA PrintStart == FormatsInit => PrintInv
<1> SUFFICES ASSUME FormatsInit PROVE PrintInv
  OBVIOUS
<1>1. FormatInv
  BY FormatStart
<1>2. /\ dest = "rtt" /\ mode = "SKIP" /\ format = <<>> /\ text = Empty /\ skip = FALSE
      /\ Cnt = 0 /\ pBuffer = <<>> /\ ReturnValue = 0 /\ printing = "idle" /\ full = <<>>
      /\ stored = <<>> /\ lost = FALSE /\ retried = FALSE /\ strayed = FALSE
  BY DEF FormatsInit, PrintInit
<1>3. PrintType
  <2>1. 0 <= BufferSize /\ 0 \in Int
    BY SizeType
  <2> QED BY <1>2, <2>1, SizeType, Zenon DEF PrintType
<1>4. HostHas
  <2>1. 0 \in 0 .. Len(<<>>) /\ <<>> = SubSeq(<<>>, 1, 0)
    BY SizeType, SubEnds
  <2> QED BY <1>2, <2>1, Zenon DEF HostHas, StoredIsPrefix
<1>5. Told
  <2>1. 0 = Len(<<>>) + 0 /\ Len(<<>>) - Len(<<>>) \in 0 .. 0 /\ ~(0 < 0) /\ 0 < BufferSize
    BY SizeType
  <2> QED BY <1>2, <2>1, Zenon DEF Told
<1>6. IdleInv
  BY <1>2, <1>4, <1>5, SizeType DEF IdleInv
<1> QED BY <1>1, <1>2, <1>3, <1>6 DEF PrintInv

\* A call starts with an empty buffer.
LEMMA StartsInv ==
  ASSUME PrintInv, FormatInv', NEW to \in {"rtt", "target"}, NEW m \in {"SKIP", "TRIM", "BLOCK"},
         NEW f, PrintStarts(to, m, f)
  PROVE  PrintInv'
<1>1. /\ dest' = to /\ mode' = m /\ text' = Empty /\ skip' = FALSE /\ Cnt' = 0
      /\ pBuffer' = <<>> /\ ReturnValue' = 0 /\ full' = <<>> /\ stored' = <<>>
      /\ lost' = FALSE /\ retried' = FALSE /\ strayed' = FALSE /\ printing' = "run"
  BY DEF PrintStarts
<1>2. PrintType'
  <2>1. 0 <= BufferSize /\ 0 \in Int
    BY SizeType
  <2> QED BY <1>1, <2>1, SizeType, Zenon DEF PrintType
<1>3. (<<>> \o <<>>) \o <<>> = <<>>
  OBVIOUS
<1>4. Chars(text') = <<>>
  BY <1>1, SizeType
<1>5. RunInv'
  BY <1>1, <1>3, <1>4, SizeType DEF RunInv
<1> QED BY <1>1, <1>2, <1>5, SizeType DEF PrintInv

\* The next directive adds the same characters to what is to come and to the whole.
LEMMA DirectiveInv ==
  ASSUME PrintInv, FormatInv', SEGGER_RTT_vprintf \/ _VPrintTarget
  PROVE  PrintInv'
<1>1. /\ printing = "run" /\ Chars(text) = <<>> /\ format # <<>>
      /\ text' = Expand(Head(format)) \/ text' = ExpandTarget(Head(format))
      /\ full' = full \o Chars(text')
      /\ UNCHANGED <<dest, mode, Cnt, pBuffer, ReturnValue, printing, stored, lost, retried>>
  BY DEF SEGGER_RTT_vprintf, _VPrintTarget, NextDirective
<1>2. PrintType /\ RunInv /\ FormatInv
  BY <1>1 DEF PrintInv
<1>3. Legal(Head(format))
  BY <1>1, <1>2 DEF FormatInv
<1>4. text' \in Parts
  BY <1>1, <1>3, ExpandType
<1>5. Chars(text') \in Seq(Nat)
  BY <1>4, CharsType
<1>6. /\ skip' \in BOOLEAN /\ strayed' \in BOOLEAN /\ (skip' => strayed')
      /\ strayed => strayed'
      /\ dest = "rtt" => ~strayed'
  <2>1. skip \in BOOLEAN /\ strayed \in BOOLEAN
    BY <1>2 DEF PrintType
  <2>2. CASE SEGGER_RTT_vprintf
    BY <2>1, <2>2 DEF SEGGER_RTT_vprintf, PrintInv
  <2>3. CASE _VPrintTarget
    <3> DEFINE l == Head(format).long
    <3>1. l \in BOOLEAN
      BY <1>3 DEF Legal, Directive
    <3>2. skip' = l /\ strayed' = (strayed \/ l) /\ dest = "target"
      BY <2>3 DEF _VPrintTarget
    <3> HIDE DEF l
    <3> QED BY <2>1, <3>1, <3>2
  <2> QED BY <2>2, <2>3
<1>7. PrintType'
  BY <1>1, <1>2, <1>4, <1>5, <1>6 DEF PrintType
<1>8. ~lost' /\ ~strayed' => (stored' \o pBuffer') \o Chars(text') = full'
  <2> SUFFICES ASSUME ~lost', ~strayed' PROVE (stored' \o pBuffer') \o Chars(text') = full'
    OBVIOUS
  <2>1. (stored \o pBuffer) \o <<>> = full
    BY <1>1, <1>2, <1>6 DEF RunInv
  <2>2. stored \o pBuffer \in Seq(Nat)
    BY <1>2 DEF PrintType
  <2>3. stored \o pBuffer = full
    BY <2>1, <2>2
  <2> QED BY <1>1, <2>3, Zenon
<1>9. RunInv'
  BY <1>1, <1>2, <1>8 DEF RunInv
<1> QED BY <1>1, <1>6, <1>7, <1>9 DEF PrintInv

\* After a length modifier nothing is claimed of the text of _VPrintTarget.
LEMMA StrayInv ==
  ASSUME PrintInv, FormatInv', SwallowLiteral \/ RunAstray
  PROVE  PrintInv'
<1>1. /\ printing = "run" /\ Chars(text) = <<>> /\ skip /\ skip' = FALSE
      /\ UNCHANGED <<dest, mode, Cnt, pBuffer, ReturnValue, printing, stored, lost, retried,
                     strayed>>
  BY DEF SwallowLiteral, RunAstray, NextDirective
<1>2. PrintType /\ RunInv /\ FormatInv /\ strayed /\ dest = "target"
  BY <1>1 DEF PrintInv, PrintType
<1>3. text' \in Parts /\ full' \in Seq(Nat)
  <2>0. text \in Parts /\ full \in Seq(Nat)
    BY <1>2 DEF PrintType
  <2>1. CASE SwallowLiteral
    <3>1. /\ format # <<>> /\ text' = text
          /\ full' = full \o Chars(ExpandTarget(Head(format)))
      BY <2>1 DEF SwallowLiteral, NextIsLiteral
    <3>2. Legal(Head(format))
      BY <1>2, <3>1 DEF FormatInv
    <3>3. Chars(ExpandTarget(Head(format))) \in Seq(Nat)
      BY <3>2, ExpandType, CharsType
    <3> QED BY <2>0, <3>1, <3>3
  <2>2. CASE RunAstray
    <3>1. PICK n \in 0 .. StrayMax : text' = Plain(Rep(LETTER, n))
      BY <2>2 DEF RunAstray
    <3>2. n \in Int
      BY PrintfAssumption
    <3>3. Rep(LETTER, n) \in Seq(Nat)
      BY <3>2, RepType DEF LETTER
    <3>4. full' = full
      BY <2>2 DEF RunAstray
    <3> QED BY <2>0, <3>1, <3>3, <3>4, PlainType
  <2> QED BY <2>1, <2>2
<1>4. PrintType'
  BY <1>1, <1>2, <1>3 DEF PrintType
<1>5. RunInv'
  BY <1>1, <1>2 DEF RunInv
<1> QED BY <1>1, <1>2, <1>4, <1>5 DEF PrintInv

\* A character that is stored: the new buffer, and the whole.
LEMMA StoreWhole ==
  ASSUME PrintInv, printing = "run", Chars(text) # <<>>, NEW buf,
         buf = Append(pBuffer, Head(Chars(text)))
  PROVE  /\ buf \in Seq(Nat) /\ Len(buf) = Cnt + 1 /\ Rest(text) \in Parts
         /\ Chars(Rest(text)) \in Seq(Nat)
         /\ ~lost /\ ~strayed => (stored \o buf) \o Chars(Rest(text)) = full
<1>1. PrintType /\ RunInv
  BY DEF PrintInv
<1>2. /\ text \in Parts /\ pBuffer \in Seq(Nat) /\ stored \in Seq(Nat) /\ Cnt = Len(pBuffer)
  BY <1>1 DEF PrintType
<1> DEFINE k == Head(Chars(text))
           r == Chars(Rest(text))
<1>3. k \in Nat /\ Rest(text) \in Parts /\ Chars(text) = <<k>> \o r
  BY <1>2, CharsStep
<1>4. r \in Seq(Nat)
  BY <1>3, CharsType
<1>6. ~lost /\ ~strayed => (stored \o pBuffer) \o Chars(text) = full
  BY <1>1 DEF RunInv
<1>7. buf = Append(pBuffer, k)
  OBVIOUS
<1> HIDE DEF k, r
<1>8. /\ buf \in Seq(Nat) /\ Len(buf) = Len(pBuffer) + 1
      /\ (stored \o buf) \o r = (stored \o pBuffer) \o (<<k>> \o r)
  <2> DEFINE b == Append(pBuffer, k)
  <2>1. /\ b \in Seq(Nat) /\ Len(b) = Len(pBuffer) + 1
        /\ (stored \o b) \o r = (stored \o pBuffer) \o (<<k>> \o r)
    BY <1>2, <1>3, <1>4, CharMoves
  <2> QED BY <1>7, <2>1, Zenon
<1>9. ~lost /\ ~strayed => (stored \o buf) \o r = full
  BY <1>3, <1>6, <1>8, Zenon
<1> QED BY <1>2, <1>3, <1>4, <1>8, <1>9 DEF r

\* _StoreChar of SEGGER_RTT_printf.c.
LEMMA StoreCharInv ==
  ASSUME PrintInv, FormatInv', _StoreChar
  PROVE  PrintInv'
<1> DEFINE buf == Append(pBuffer, Head(Chars(text)))
           r == Chars(Rest(text))
<1>1. /\ dest = "rtt" /\ printing = "run" /\ Chars(text) # <<>> /\ text' = Rest(text)
      /\ UNCHANGED <<dest, mode, format, skip, full, retried, strayed>>
  BY DEF _StoreChar
<1>2. PrintType /\ RunInv /\ ~strayed /\ (skip => strayed)
  BY <1>1 DEF PrintInv
<1>3. ~lost /\ ReturnValue = Len(stored) + Len(pBuffer) /\ Cnt < BufferSize
  BY <1>1, <1>2 DEF RunInv
<1>4. /\ buf \in Seq(Nat) /\ Len(buf) = Cnt + 1 /\ text' \in Parts
      /\ r \in Seq(Nat) /\ (stored \o buf) \o r = full
  BY <1>1, <1>2, <1>3, StoreWhole
<1>5. Chars(text') = r /\ stored \in Seq(Nat) /\ Len(stored) \in Nat
  BY <1>1, <1>2 DEF PrintType
<1>0. Cnt \in Nat /\ Len(pBuffer) = Cnt
  BY <1>2 DEF PrintType
<1>6. CASE Cnt + 1 < BufferSize
  <2>1. /\ pBuffer' = buf /\ Cnt' = Cnt + 1 /\ ReturnValue' = ReturnValue + 1
        /\ UNCHANGED <<printing, stored, lost>>
    <3>1. Cnt + 1 # BufferSize
      BY <1>0, <1>6, SizeType
    <3> QED BY <3>1, Zenon DEF _StoreChar, Unwritten
  <2> HIDE DEF buf, r
  <2>4. PrintType'
    BY <1>1, <1>2, <1>3, <1>4, <1>6, <2>1, <1>0, SizeType DEF PrintType
  <2>5. RunInv'
    <3>1. Cnt' < BufferSize
      BY <1>3, <1>6, <2>1, <1>0, SizeType
    <3>2. ReturnValue' = Len(stored') + Len(pBuffer')
      BY <1>0, <1>3, <1>4, <1>5, <2>1
    <3>3. (stored' \o pBuffer') \o Chars(text') = full' /\ ~lost'
      BY <1>1, <1>3, <1>4, <1>5, <2>1, Zenon
    <3> QED BY <3>1, <3>2, <3>3, Zenon DEF RunInv
  <2> QED BY <1>1, <1>2, <2>1, <2>4, <2>5 DEF PrintInv
<1>7. CASE /\ Cnt + 1 = BufferSize /\ Written(buf, BufferSize) /\ pBuffer' = <<>> /\ Cnt' = 0
           /\ ReturnValue' = ReturnValue + 1 /\ UNCHANGED printing
  <2> HIDE DEF buf, r
  <2>1. BufferSize \in 0 .. Len(buf) /\ BufferSize = Len(buf)
    BY <1>4, <1>7, SizeType
  <2>2. /\ stored' \in Seq(Nat) /\ lost' \in BOOLEAN /\ stored' = stored \o buf /\ lost' = lost
        /\ Len(stored') = Len(stored) + BufferSize
    BY <1>2, <1>4, <1>7, <2>1, WrittenHost
  <2>4. PrintType'
    BY <1>1, <1>2, <1>3, <1>4, <1>7, <2>2, SizeType DEF PrintType
  <2>5. (stored' \o <<>>) \o r = full
    <3>1. stored' \o <<>> = stored'
      BY <2>2
    <3> QED BY <1>4, <2>2, <3>1, Zenon
  <2>6. ReturnValue' = Len(stored') + Len(pBuffer')
    <3>1. Len(pBuffer') = 0
      BY <1>7, SizeType, Zenon
    <3>2. ReturnValue' = Len(stored) + Cnt + 1 /\ Cnt + 1 = BufferSize
      BY <1>0, <1>3, <1>5, <1>7
    <3> QED BY <1>0, <1>5, <2>2, <3>1, <3>2, SizeType
  <2>7. RunInv'
    <3>1. (stored' \o pBuffer') \o Chars(text') = full'
      BY <1>1, <1>5, <1>7, <2>5, Zenon
    <3>2. Cnt' < BufferSize
      BY <1>7, SizeType
    <3>3. ~lost'
      BY <1>3, <2>2
    <3> QED BY <2>6, <3>1, <3>2, <3>3, Zenon DEF RunInv
  <2> QED BY <1>1, <1>2, <1>7, <2>4, <2>7 DEF PrintInv
<1>8. ASSUME Cnt + 1 = BufferSize, NEW k \in 0 .. BufferSize - 1, Written(buf, k),
             pBuffer' = buf, Cnt' = BufferSize, ReturnValue' = -1,
             printing' \in {"retry", "end"}
      PROVE  PrintInv'
  <2> HIDE DEF buf, r
  <2>1. k \in 0 .. Len(buf) /\ k < Len(buf) /\ Len(buf) = BufferSize
    BY <1>4, <1>8, SizeType
  <2>2. /\ stored' \in Seq(Nat) /\ lost' \in BOOLEAN /\ lost'
        /\ stored' = stored \o SubSeq(buf, 1, k) /\ (mode # "TRIM" => k = 0)
    BY <1>2, <1>4, <1>8, <2>1, WrittenHost
  <2>3. PrintType'
    <3>1. Cnt' = Len(pBuffer') /\ Cnt' <= BufferSize /\ ReturnValue' \in Int
      BY <1>8, <2>1, SizeType
    <3>2. /\ text' \in Parts /\ pBuffer' \in Seq(Nat)
          /\ printing' \in {"idle", "run", "retry", "end"}
      BY <1>4, <1>8
    <3>3. /\ dest' \in {"rtt", "target"} /\ mode' \in {"SKIP", "TRIM", "BLOCK"}
          /\ full' \in Seq(Nat) /\ retried' \in BOOLEAN /\ strayed' \in BOOLEAN
          /\ skip' \in BOOLEAN
      BY <1>1, <1>2, Zenon DEF PrintType
    <3> QED BY <2>2, <3>1, <3>2, <3>3, Zenon DEF PrintType
  <2>4. Kept'
    BY <1>1, <1>4, <1>5, <1>8, <2>1, <2>2, Zenon DEF Kept
  <2>5. HostHas'
    <3>1. /\ Len(stored) + k \in 0 .. Len(full)
          /\ SubSeq(full, 1, Len(stored) + k) = stored \o SubSeq(buf, 1, k)
      <4> DEFINE t == (stored \o buf) \o r
      <4>1. /\ Len(stored) + k \in 0 .. Len(t)
            /\ SubSeq(t, 1, Len(stored) + k) = stored \o SubSeq(buf, 1, k)
        BY <1>4, <1>5, <2>1, SubOf
      <4> QED BY <1>4, <4>1, Zenon
    <3> QED BY <1>1, <2>2, <3>1, Zenon DEF HostHas, StoredIsPrefix
  <2>6. ErrorInv'
    BY <1>1, <1>8, <2>2, <2>4, <2>5, Zenon DEF ErrorInv
  <2> QED BY <1>1, <1>2, <1>8, <2>3, <2>6 DEF PrintInv
<1>9. \/ Cnt + 1 < BufferSize
      \/ /\ Cnt + 1 = BufferSize /\ Written(buf, BufferSize) /\ pBuffer' = <<>> /\ Cnt' = 0
         /\ ReturnValue' = ReturnValue + 1 /\ UNCHANGED printing
      \/ /\ Cnt + 1 = BufferSize
         /\ \E k \in 0 .. BufferSize - 1 : Written(buf, k)
         /\ pBuffer' = buf /\ Cnt' = BufferSize /\ ReturnValue' = -1
         /\ printing' \in {"retry", "end"}
  <2> HIDE DEF Written, Unwritten
  <2> QED BY DEF _StoreChar
<1> HIDE DEF buf
<1> QED BY <1>6, <1>7, <1>8, <1>9, Zenon

\* The write that is tried again.
LEMMA StoreRetryInv ==
  ASSUME PrintInv, FormatInv', StoreRetry
  PROVE  PrintInv'
<1>1. /\ printing = "retry" /\ printing' = "end" /\ retried' = TRUE
      /\ UNCHANGED <<dest, mode, format, text, skip, ReturnValue, full, strayed>>
  BY DEF StoreRetry
<1>2. PICK k \in 0 .. BufferSize :
        /\ Written(pBuffer, k)
        /\ pBuffer' = (IF k = BufferSize THEN <<>> ELSE pBuffer)
        /\ Cnt' = (IF k = BufferSize THEN 0 ELSE Cnt)
  BY DEF StoreRetry
<1>3. PrintType /\ ErrorInv /\ ~strayed /\ (skip => strayed)
  BY <1>1 DEF PrintInv, ErrorInv
<1>4. /\ pBuffer \in Seq(Nat) /\ lost /\ Cnt = BufferSize /\ Len(pBuffer) = BufferSize /\ Kept
      /\ dest = "rtt" /\ ReturnValue = -1 /\ full \in Seq(Nat)
  BY <1>1, <1>3 DEF PrintType, ErrorInv
<1>5. /\ stored' \in Seq(Nat) /\ lost' \in BOOLEAN
      /\ stored' = stored \o SubSeq(pBuffer, 1, k) /\ lost'
  <2>1. k \in 0 .. Len(pBuffer) /\ (k = Len(pBuffer) \/ k < Len(pBuffer))
    BY <1>4, SizeType
  <2>2. /\ stored' \in Seq(Nat) /\ lost' \in BOOLEAN
        /\ stored' = stored \o SubSeq(pBuffer, 1, k)
        /\ k = Len(pBuffer) => lost' = lost
        /\ k < Len(pBuffer) => lost'
    BY <1>2, <1>3, <1>4, <2>1, WrittenHost
  <2> QED BY <1>4, <2>1, <2>2
<1>6. PrintType'
  BY <1>1, <1>2, <1>3, <1>5, SizeType DEF PrintType
<1>7. HostHas'
  <2>1. PICK h \in Seq(Nat), u \in Seq(Nat), j \in 0 .. Len(pBuffer) :
          /\ (h \o pBuffer) \o u = full /\ stored = h \o SubSeq(pBuffer, 1, j)
          /\ j < Len(pBuffer) /\ (mode # "TRIM" => j = 0)
    BY <1>4, Zenon DEF Kept
  <2>2. k \in 0 .. Len(pBuffer) /\ full = (h \o pBuffer) \o u
    BY <1>4, <2>1
  <2>3. /\ Len(h) + k \in 0 .. Len(full) /\ SubSeq(full, 1, Len(h) + k) = h \o SubSeq(pBuffer, 1, k)
        /\ SubSeq(full, Len(h) + 1, Len(h) + k) = SubSeq(pBuffer, 1, k)
    <3> DEFINE t == (h \o pBuffer) \o u
    <3>1. /\ Len(h) + k \in 0 .. Len(t) /\ SubSeq(t, 1, Len(h) + k) = h \o SubSeq(pBuffer, 1, k)
          /\ SubSeq(t, Len(h) + 1, Len(h) + k) = SubSeq(pBuffer, 1, k)
      <4>1. pBuffer \in Seq(Nat) /\ k \in 0 .. Len(pBuffer)
        BY <1>4, <2>2
      <4>2. h \in Seq(Nat) /\ u \in Seq(Nat)
        BY <2>1, Zenon
      <4> QED BY <4>1, <4>2, SubOf
    <3> QED BY <2>2, <3>1, Zenon
  <2>4. /\ Len(h) + j \in 0 .. Len(full) /\ SubSeq(full, 1, Len(h) + j) = h \o SubSeq(pBuffer, 1, j)
        /\ Len(h) \in 0 .. Len(h) + j
    <3> DEFINE t == (h \o pBuffer) \o u
    <3>1. /\ Len(h) + j \in 0 .. Len(t) /\ SubSeq(t, 1, Len(h) + j) = h \o SubSeq(pBuffer, 1, j)
          /\ Len(h) \in 0 .. Len(h) + j
      <4>1. pBuffer \in Seq(Nat)
        BY <1>4
      <4>2. h \in Seq(Nat) /\ u \in Seq(Nat) /\ j \in 0 .. Len(pBuffer)
        BY <2>1, Zenon
      <4> QED BY <4>1, <4>2, SubOf
    <3> QED BY <2>2, <3>1, Zenon
  <2>5. CASE mode = "TRIM"
    <3> DEFINE n == Len(h) + j
               b == Len(h)
               m == Len(h) + k
    <3>1. b \in Nat /\ Len(full) \in Nat
      BY <1>4
    <3>2. /\ n \in 0 .. Len(full) /\ b \in 0 .. n /\ m \in b .. Len(full)
          /\ n - b < BufferSize /\ m - b <= BufferSize
      <4> HIDE DEF b
      <4>1. n = b + j /\ m = b + k
        BY DEF b
      <4>2. b + j \in 0 .. Len(full) /\ b + k \in 0 .. Len(full) /\ b \in 0 .. b + j
        BY <2>3, <2>4, Zenon DEF b
      <4> HIDE DEF n, m
      <4> QED BY <1>4, <2>1, <3>1, <4>1, <4>2, SizeType
    <3>3. stored' = SubSeq(full, 1, n) \o SubSeq(full, b + 1, m)
      BY <1>5, <2>1, <2>3, <2>4, Zenon
    <3> HIDE DEF n, b, m
    <3>4. StoredRepeats'
      BY <1>1, <3>2, <3>3, Zenon DEF StoredRepeats
    <3> QED BY <1>1, <2>5, <3>4, Zenon DEF HostHas
  <2>6. CASE mode # "TRIM"
    <3>1. stored = h
      <4>1. SubSeq(pBuffer, 1, 0) = <<>> /\ h \o <<>> = h
        BY <1>4, SubEnds
      <4> QED BY <2>1, <2>6, <4>1, Zenon
    <3>2. stored' = SubSeq(full, 1, Len(h) + k)
      BY <1>5, <2>3, <3>1, Zenon
    <3>3. StoredIsPrefix'
      BY <1>1, <2>3, <3>2, Zenon DEF StoredIsPrefix
    <3> QED BY <3>3, Zenon DEF HostHas
  <2> QED BY <2>5, <2>6
<1>8. ErrorInv'
  <2>1. printing' # "retry"
    BY <1>1
  <2> QED BY <1>1, <1>4, <1>5, <1>7, <2>1, Zenon DEF ErrorInv
<1>9. dest' # "target" /\ ~strayed' /\ ~skip' /\ printing' = "end"
  BY <1>1, <1>3, <1>4
<1> QED BY <1>6, <1>8, <1>9 DEF PrintInv

\* _StoreChar of SEGGER_SYSVIEW.c.
LEMMA StoreTargetInv ==
  ASSUME PrintInv, FormatInv', StoreCharTarget
  PROVE  PrintInv'
<1> DEFINE buf == Append(pBuffer, Head(Chars(text)))
           r == Chars(Rest(text))
<1>1. /\ dest = "target" /\ printing = "run" /\ Chars(text) # <<>> /\ text' = Rest(text)
      /\ UNCHANGED <<dest, mode, format, skip, ReturnValue, printing, full, retried, strayed>>
  BY DEF StoreCharTarget
<1>2. PrintType /\ RunInv /\ ReturnValue = 0 /\ Cnt < BufferSize /\ (skip => strayed)
  BY <1>1 DEF PrintInv
<1>3. Cnt \in Nat /\ Len(pBuffer) = Cnt
  BY <1>2 DEF PrintType
<1>4. /\ buf \in Seq(Nat) /\ Len(buf) = Cnt + 1 /\ text' \in Parts /\ r \in Seq(Nat)
      /\ ~lost /\ ~strayed => (stored \o buf) \o r = full
  BY <1>1, StoreWhole
<1>5. Chars(text') = r
  BY <1>1
<1>6. CASE Cnt + 1 # BufferSize
  <2>1. pBuffer' = buf /\ Cnt' = Cnt + 1 /\ UNCHANGED <<stored, lost>>
    BY <1>6, Zenon DEF StoreCharTarget, Unwritten
  <2> HIDE DEF buf, r
  <2>4. PrintType'
    BY <1>1, <1>2, <1>3, <1>4, <1>6, <2>1, SizeType DEF PrintType
  <2>5. Cnt' < BufferSize
    BY <1>2, <1>3, <1>6, <2>1, SizeType
  <2>6. RunInv'
    BY <1>1, <1>4, <1>5, <2>1, <2>5 DEF RunInv
  <2> QED BY <1>1, <1>2, <2>4, <2>5, <2>6 DEF PrintInv
<1>7. CASE Cnt + 1 = BufferSize
  <2>1. pBuffer' = <<>> /\ Cnt' = 0 /\ \E k \in 0 .. BufferSize : Written(buf, k)
    BY <1>7, Zenon DEF StoreCharTarget
  <2> HIDE DEF buf, r
  <2>2. PICK k \in 0 .. BufferSize : Written(buf, k)
    BY <2>1
  <2>3. k \in 0 .. Len(buf) /\ (k = Len(buf) \/ k < Len(buf))
    BY <1>4, <1>7, <2>2, SizeType
  <2>4. /\ stored' \in Seq(Nat) /\ lost' \in BOOLEAN
        /\ k = Len(buf) => stored' = stored \o buf /\ lost' = lost
        /\ k < Len(buf) => lost'
    BY <1>2, <1>4, <2>2, <2>3, WrittenHost
  <2>5. PrintType'
    BY <1>1, <1>2, <1>4, <2>1, <2>4, SizeType DEF PrintType
  <2>6. ~lost' /\ ~strayed' => (stored' \o <<>>) \o r = full
    <3>1. stored' \o <<>> = stored'
      BY <2>4
    <3>2. CASE k = Len(buf)
      <4>1. ~lost' /\ ~strayed' => ~lost /\ ~strayed
        BY <1>1, <2>4, <3>2
      <4> QED BY <1>4, <2>4, <3>1, <3>2, <4>1, Zenon
    <3>3. CASE k < Len(buf)
      BY <2>4, <3>3, Zenon
    <3> QED BY <2>3, <3>2, <3>3, Zenon
  <2>7. Cnt' < BufferSize
    BY <2>1, SizeType
  <2>8. RunInv'
    <3>1. ~lost' /\ ~strayed' => (stored' \o pBuffer') \o Chars(text') = full'
      BY <1>1, <1>5, <2>1, <2>6, Zenon
    <3>2. dest' # "rtt"
      BY <1>1
    <3> QED BY <2>7, <3>1, <3>2, Zenon DEF RunInv
  <2> QED BY <1>1, <1>2, <2>5, <2>7, <2>8 DEF PrintInv
<1> QED BY <1>6, <1>7

\* What is with the host and in the buffer at the end of a text.
LEMMA DoneWhole ==
  ASSUME PrintInv, printing = "run", Chars(text) = <<>>, ~lost, ~strayed
  PROVE  stored \o pBuffer = full
<1>1. stored \in Seq(Nat) /\ pBuffer \in Seq(Nat)
  BY DEF PrintInv, PrintType
<1>2. (stored \o pBuffer) \o <<>> = full
  BY Zenon DEF PrintInv, RunInv
<1>3. stored \o pBuffer \in Seq(Nat)
  BY <1>1
<1> QED BY <1>2, <1>3

\* The end of SEGGER_RTT_vprintf.
LEMMA PrintEndsInv ==
  ASSUME PrintInv, FormatInv', PrintEnds
  PROVE  PrintInv'
<1>1. /\ dest = "rtt" /\ TextDone /\ printing' = "idle"
      /\ IF ReturnValue > 0 /\ Cnt # 0 THEN \E k \in 0 .. Cnt : Written(pBuffer, k)
         ELSE UNCHANGED <<stored, lost>>
      /\ ReturnValue' = (IF ReturnValue > 0 THEN ReturnValue + Cnt ELSE ReturnValue)
      /\ UNCHANGED <<dest, mode, format, text, skip, Cnt, pBuffer, full, retried, strayed>>
  BY DEF PrintEnds, Unwritten
<1>2. PrintType /\ BufferSize \in Nat /\ ~strayed /\ (skip => strayed)
  BY <1>1, SizeType DEF PrintInv
<1>3. /\ pBuffer \in Seq(Nat) /\ Cnt \in Nat /\ Len(pBuffer) = Cnt /\ ReturnValue \in Int
      /\ lost \in BOOLEAN /\ stored \in Seq(Nat) /\ Len(stored) \in Nat
  BY <1>2 DEF PrintType
<1>5. CASE printing = "end"
  <2>1. lost /\ ReturnValue = -1 /\ HostHas
    BY <1>5 DEF PrintInv, ErrorInv
  <2>2. UNCHANGED <<stored, lost>> /\ ReturnValue' = -1
    BY <1>1, <2>1
  <2>3. HostHas'
    BY <1>1, <2>1, <2>2 DEF HostHas, StoredIsPrefix, StoredRepeats
  <2>4. Told'
    <3>1. ~(-1 >= 0)
      OBVIOUS
    <3> QED BY <2>1, <2>2, <3>1, Zenon DEF Told
  <2>5. PrintType'
    BY <1>1, <1>2, <2>2 DEF PrintType
  <2>6. IdleInv'
    BY <1>1, <2>1, <2>2, <2>3, <2>4, Zenon DEF IdleInv
  <2> QED BY <1>1, <1>2, <2>5, <2>6 DEF PrintInv
<1>6. CASE printing = "run" /\ Chars(text) = <<>> /\ format = <<>>
  <2>1. ~lost /\ ReturnValue = Len(stored) + Len(pBuffer) /\ Cnt < BufferSize
    BY <1>1, <1>6 DEF PrintInv, RunInv
  <2>2. stored \o pBuffer = full
    BY <1>2, <1>6, <2>1, DoneWhole
  <2>3. Len(full) = Len(stored) + Cnt
    <3>1. Len(stored \o pBuffer) = Len(stored) + Len(pBuffer)
      BY <1>3, ConcatAt
    <3> QED BY <1>3, <2>2, <3>1, Zenon
  <2>4. PICK k \in 0 .. Cnt : /\ stored' \in Seq(Nat) /\ lost' \in BOOLEAN
                              /\ stored' = stored \o SubSeq(pBuffer, 1, k)
                              /\ Len(stored') = Len(stored) + k
                              /\ k = Cnt => stored' = full /\ lost' = lost
                              /\ k < Cnt => lost'
    <3>1. CASE ReturnValue > 0 /\ Cnt # 0
      <4>1. PICK k \in 0 .. Cnt : Written(pBuffer, k)
        BY <1>1, <3>1, Zenon
      <4>2. k \in 0 .. Len(pBuffer)
        BY <1>3, <4>1
      <4>3. /\ stored' \in Seq(Nat) /\ lost' \in BOOLEAN
            /\ stored' = stored \o SubSeq(pBuffer, 1, k)
            /\ Len(stored') = Len(stored) + k
            /\ k = Len(pBuffer) => stored' = stored \o pBuffer /\ lost' = lost
            /\ k < Len(pBuffer) => lost'
        BY <1>2, <1>3, <4>1, <4>2, WrittenHost
      <4> QED BY <1>3, <2>2, <4>1, <4>3, Zenon
    <3>2. CASE ~(ReturnValue > 0 /\ Cnt # 0)
      <4>1. UNCHANGED <<stored, lost>>
        BY <1>1, <3>2, Zenon
      <4>2. Cnt = 0
        BY <1>3, <2>1, <3>2
      <4>3. pBuffer = <<>>
        BY <1>3, <4>2
      <4>4. /\ SubSeq(pBuffer, 1, 0) = <<>> /\ stored \o <<>> = stored
        BY <1>3, SubEnds
      <4>5. stored = full
        BY <2>2, <4>3, <4>4, Zenon
      <4>6. 0 \in 0 .. Cnt /\ Len(stored') = Len(stored) + 0
        BY <1>3, <4>1
      <4>7. ~(0 < Cnt)
        BY <4>2
      <4> QED BY <1>3, <4>1, <4>4, <4>5, <4>6, <4>7, Zenon
    <3> QED BY <3>1, <3>2
  <2>5. k \in Nat /\ (k = Cnt \/ k < Cnt) /\ k \in 0 .. Len(pBuffer)
    BY <1>3, <2>4
  <2>6. ReturnValue' \in Int /\ ReturnValue' >= 0 /\ ReturnValue' = Len(full) + Cnt
    BY <1>1, <1>3, <2>1, <2>3
  <2>7. PrintType'
    BY <1>1, <1>2, <2>4, <2>6 DEF PrintType
  <2>8. HostHas'
    <3> DEFINE t == (stored \o pBuffer) \o <<>>
    <3>1. /\ Len(stored) + k \in 0 .. Len(t)
          /\ SubSeq(t, 1, Len(stored) + k) = stored \o SubSeq(pBuffer, 1, k)
      <4>1. <<>> \in Seq(Nat)
        OBVIOUS
      <4> QED BY <1>3, <2>5, <4>1, SubOf
    <3>2. t = full
      <4>1. stored \o pBuffer \in Seq(Nat)
        BY <1>3, ConcatAt
      <4>2. t = stored \o pBuffer
        BY <4>1, SubEnds
      <4> QED BY <2>2, <4>2, Zenon
    <3> HIDE DEF t
    <3>3. StoredIsPrefix'
      BY <1>1, <2>4, <3>1, <3>2, Zenon DEF StoredIsPrefix
    <3> QED BY <3>3, Zenon DEF HostHas
  <2>9. Told'
    <3>1. Len(full) - Len(stored') = Cnt - k
      <4>1. Len(stored') = Len(stored) + k
        BY <2>4, Zenon
      <4> QED BY <1>3, <2>3, <2>5, <4>1
    <3>2. Cnt - k \in 0 .. Cnt /\ (k < Cnt <=> Cnt - k # 0)
      BY <1>3, <2>5
    <3>3. Len(full) \in Nat /\ Len(stored') \in Nat
      BY <1>3, <2>3, <2>4, <2>5
    <3>4. Len(full) # Len(stored') <=> k < Cnt
      BY <1>3, <2>5, <3>1, <3>2, <3>3
    <3>5. lost' <=> k < Cnt
      <4>1. CASE k = Cnt
        <5>1. ~(k < Cnt)
          BY <1>3, <4>1
        <5> QED BY <2>1, <2>4, <4>1, <5>1
      <4>2. CASE k < Cnt
        BY <2>4, <4>2
      <4> QED BY <2>5, <4>1, <4>2
    <3>6. ~(ReturnValue' < 0) /\ full' = full /\ Cnt' = Cnt /\ format' = <<>>
      BY <1>1, <1>6, <2>6
    <3>7. Len(full) - Len(stored') \in 0 .. Cnt
      BY <3>1, <3>2, Zenon
    <3>8. lost' <=> Len(full) # Len(stored')
      BY <3>4, <3>5
    <3> QED BY <2>1, <2>6, <3>6, <3>7, <3>8, Zenon DEF Told
  <2>10. IdleInv'
    <3>1. Cnt' # BufferSize
      BY <1>1, <1>2, <1>3, <2>1
    <3>2. ~lost' => stored' = full'
      <4>1. ~lost' => k = Cnt
        BY <2>4, <2>5, Zenon
      <4> QED BY <1>1, <2>4, <4>1, Zenon
    <3> QED BY <2>8, <2>9, <3>1, <3>2, Zenon DEF IdleInv
  <2> QED BY <1>1, <1>2, <2>7, <2>10 DEF PrintInv
<1> QED BY <1>1, <1>5, <1>6 DEF TextDone, NextDirective

\* The end of _VPrintTarget.
LEMMA TargetEndsInv ==
  ASSUME PrintInv, FormatInv', TargetEnds
  PROVE  PrintInv'
<1>1. /\ dest = "target" /\ TextDone /\ printing' = "idle"
      /\ IF Cnt # 0 THEN \E k \in 0 .. Cnt : Written(pBuffer, k) ELSE UNCHANGED <<stored, lost>>
      /\ UNCHANGED <<dest, mode, format, text, skip, Cnt, pBuffer, ReturnValue, full, retried,
                     strayed>>
  BY DEF TargetEnds, Unwritten
<1>2. PrintType /\ ReturnValue = 0 /\ Cnt < BufferSize /\ (skip => strayed)
  BY <1>1 DEF PrintInv
<1>3. /\ pBuffer \in Seq(Nat) /\ Cnt \in Nat /\ Len(pBuffer) = Cnt /\ lost \in BOOLEAN
      /\ stored \in Seq(Nat)
  BY <1>2 DEF PrintType
<1>4. printing = "run" /\ Chars(text) = <<>>
  BY <1>1 DEF TextDone, NextDirective, PrintInv, ErrorInv
<1>5. ~lost /\ ~strayed => stored \o pBuffer = full
  BY <1>4, DoneWhole
<1>6. /\ stored' \in Seq(Nat) /\ lost' \in BOOLEAN
      /\ ~lost' /\ ~strayed => stored' = full
  <2>1. CASE Cnt # 0
    <3>1. PICK k \in 0 .. Cnt : Written(pBuffer, k)
      BY <1>1, <2>1, Zenon
    <3>2. k \in 0 .. Len(pBuffer) /\ (k = Len(pBuffer) \/ k < Len(pBuffer))
      BY <1>3, <3>1
    <3>3. /\ stored' \in Seq(Nat) /\ lost' \in BOOLEAN
          /\ k = Len(pBuffer) => stored' = stored \o pBuffer /\ lost' = lost
          /\ k < Len(pBuffer) => lost'
      BY <1>2, <1>3, <3>1, <3>2, WrittenHost
    <3>4. CASE k = Len(pBuffer)
      <4>1. ~lost' => ~lost
        BY <3>3, <3>4
      <4> QED BY <1>5, <3>3, <3>4, <4>1, Zenon
    <3>5. CASE k < Len(pBuffer)
      BY <3>3, <3>5, Zenon
    <3> QED BY <3>2, <3>4, <3>5, Zenon
  <2>2. CASE Cnt = 0
    <3>1. UNCHANGED <<stored, lost>>
      BY <1>1, <2>2, Zenon
    <3>2. pBuffer = <<>>
      BY <1>3, <2>2
    <3>3. stored \o <<>> = stored
      BY <1>3, SubEnds
    <3>4. stored' \in Seq(Nat) /\ lost' \in BOOLEAN /\ (~lost' => ~lost)
      BY <1>3, <3>1
    <3> QED BY <1>5, <3>1, <3>2, <3>3, <3>4, Zenon
  <2> QED BY <2>1, <2>2
<1>7. PrintType'
  BY <1>1, <1>2, <1>6 DEF PrintType
<1>8. Cnt' < BufferSize /\ ~(Cnt' = BufferSize) /\ dest' = "target" /\ full' = full
  BY <1>1, <1>2, <1>3, SizeType
<1>9. IdleInv'
  BY <1>1, <1>6, <1>8 DEF IdleInv
<1> QED BY <1>1, <1>2, <1>7, <1>8, <1>9 DEF PrintInv

\* The rest leaves the text alone.
LEMMA IdleStep ==
  ASSUME PrintInv, FormatInv', UNCHANGED printVars
  PROVE  PrintInv'
<1>1. UNCHANGED <<dest, mode, format, text, skip, Cnt, pBuffer, ReturnValue, printing, full,
                  stored, lost, retried, strayed>>
  BY DEF printVars
<1>2. (PrintType' <=> PrintType) /\ (HostHas' <=> HostHas) /\ (Told' <=> Told) /\ (Kept' <=> Kept)
  BY <1>1 DEF PrintType, HostHas, StoredIsPrefix, StoredRepeats, Told, Kept
<1> QED BY <1>1, <1>2 DEF PrintInv, RunInv, ErrorInv, IdleInv

\* One step.
LEMMA PrintInvStep ==
  ASSUME PrintInv, [FormatsNext]_<<printVars, rec>>
  PROVE  PrintInv'
<1>1. FormatInv'
  <2>1. FormatInv
    BY DEF PrintInv
  <2> QED BY <2>1, FormatStep
<1>2. CASE UNCHANGED printVars
  BY <1>1, <1>2, IdleStep
<1>3. ASSUME NEW f, SEGGER_RTT_printf(f) PROVE PrintInv'
  <2>1. PICK m \in {"SKIP", "TRIM", "BLOCK"} : PrintStarts("rtt", m, f)
    BY <1>3 DEF SEGGER_RTT_printf
  <2>2. "rtt" \in {"rtt", "target"}
    OBVIOUS
  <2> QED BY <1>1, <2>1, <2>2, StartsInv
<1>4. ASSUME NEW f, SEGGER_SYSVIEW_PrintfTarget(f) PROVE PrintInv'
  <2>1. /\ "target" \in {"rtt", "target"} /\ "SKIP" \in {"SKIP", "TRIM", "BLOCK"}
        /\ PrintStarts("target", "SKIP", f)
    BY <1>4 DEF SEGGER_SYSVIEW_PrintfTarget
  <2> QED BY <1>1, <2>1, StartsInv
<1>5. CASE PrintStep
  <2>1. CASE SEGGER_RTT_vprintf \/ _VPrintTarget
    BY <1>1, <2>1, DirectiveInv
  <2>2. CASE SwallowLiteral \/ RunAstray
    BY <1>1, <2>2, StrayInv
  <2>3. CASE _StoreChar
    BY <1>1, <2>3, StoreCharInv
  <2>4. CASE StoreRetry
    BY <1>1, <2>4, StoreRetryInv
  <2>5. CASE PrintEnds
    BY <1>1, <2>5, PrintEndsInv
  <2>6. CASE StoreCharTarget
    BY <1>1, <2>6, StoreTargetInv
  <2>7. CASE TargetEnds
    BY <1>1, <2>7, TargetEndsInv
  <2> QED BY <1>5, <2>1, <2>2, <2>3, <2>4, <2>5, <2>6, <2>7, Zenon DEF PrintStep
<1> QED
  BY <1>2, <1>3, <1>4, <1>5, Zenon DEF FormatsNext, printVars

\* PrintInv always holds.
LEMMA PrintInvAlways == FormatsSpec => []PrintInv
BY PrintStart, PrintInvStep, PTL DEF FormatsSpec

\* What it says of the host's text.
LEMMA PrintInvHostText == PrintInv => HostTextRight
<1> SUFFICES ASSUME PrintInv PROVE HostTextRight
  OBVIOUS
<1>1. PrintType
  BY DEF PrintInv
<1>2. /\ pBuffer \in Seq(Nat) /\ Cnt \in Nat /\ full \in Seq(Nat) /\ Cnt = Len(pBuffer)
      /\ stored \in Seq(Nat) /\ Cnt <= BufferSize
      /\ printing \in {"idle", "run", "retry", "end"}
  BY <1>1 DEF PrintType
<1>3. Cnt = BufferSize => ReturnValue = -1
  <2>1. CASE printing = "run"
    BY <1>2, <2>1, SizeType DEF PrintInv, RunInv
  <2>2. CASE printing \in {"retry", "end"}
    BY <2>2 DEF PrintInv, ErrorInv
  <2>3. CASE printing = "idle"
    BY <2>3 DEF PrintInv, IdleInv
  <2> QED BY <1>2, <2>1, <2>2, <2>3
<1>4. dest = "rtt" => HostHas
  <2> SUFFICES ASSUME dest = "rtt" PROVE HostHas
    OBVIOUS
  <2>1. CASE printing = "run"
    <3> DEFINE r == Chars(text)
               t == (stored \o pBuffer) \o r
    <3>1. t = full
      BY <2>1 DEF PrintInv, RunInv
    <3>2. r \in Seq(Nat)
      BY <1>1, CharsType DEF PrintType
    <3>3. 0 \in 0 .. Len(pBuffer)
      BY <1>2
    <3> HIDE DEF r
    <3>4. /\ Len(stored) + 0 \in 0 .. Len(t)
          /\ SubSeq(t, 1, Len(stored) + 0) = stored \o SubSeq(pBuffer, 1, 0)
      BY <1>2, <3>2, <3>3, SubOf
    <3>5. SubSeq(pBuffer, 1, 0) = <<>> /\ stored \o <<>> = stored
      BY <1>2, SubEnds
    <3> HIDE DEF t
    <3> QED BY <3>1, <3>4, <3>5, Zenon DEF HostHas, StoredIsPrefix
  <2>2. CASE printing = "end"
    BY <2>2 DEF PrintInv, ErrorInv
  <2>3. CASE printing = "retry"
    <3>1. PICK h \in Seq(Nat), u \in Seq(Nat), j \in 0 .. Len(pBuffer) :
            (h \o pBuffer) \o u = full /\ stored = h \o SubSeq(pBuffer, 1, j)
      BY <2>3, Zenon DEF PrintInv, ErrorInv, Kept
    <3> DEFINE t == (h \o pBuffer) \o u
    <3>0. t = full /\ h \in Seq(Nat) /\ u \in Seq(Nat) /\ j \in 0 .. Len(pBuffer)
      BY <3>1, Zenon
    <3>2. /\ Len(h) + j \in 0 .. Len(t)
          /\ SubSeq(t, 1, Len(h) + j) = h \o SubSeq(pBuffer, 1, j)
      <4>1. pBuffer \in Seq(Nat)
        BY <1>2
      <4> QED BY <3>0, <4>1, SubOf
    <3> HIDE DEF t
    <3> QED BY <3>0, <3>1, <3>2, Zenon DEF HostHas, StoredIsPrefix
  <2>4. CASE printing = "idle"
    BY <2>4 DEF PrintInv, IdleInv
  <2> QED BY <1>2, <2>1, <2>2, <2>3, <2>4
<1>5. printing = "idle" /\ ~lost /\ ~strayed => stored = full
  BY DEF PrintInv, IdleInv
<1> QED BY <1>2, <1>3, <1>4, <1>5, Zenon DEF HostTextRight, HostHas

(***************************************************************************)
(* For every format, every size of the buffer and every mode of the        *)
(* channel: what SEGGER_RTT_printf has stored for the host is a prefix of  *)
(* the text, whichever writes fail or are cut short, except for one        *)
(* buffer's characters that may come twice in mode TRIM; and what          *)
(* SEGGER_SYSVIEW_PrintfTarget has stored is the whole text unless a       *)
(* packet was dropped or the format has a length modifier.                 *)
(***************************************************************************)
THEOREM HostTextIsRight == FormatsSpec => []HostTextRight
BY PrintInvAlways, PrintInvHostText, PTL

(***************************************************************************)
(* The result of SEGGER_RTT_printf tells whether the text got through, up  *)
(* to the last part, and by how much it is off the number of characters    *)
(* stored: by the last part once more, and by what of it is missing.       *)
(***************************************************************************)
THEOREM ResultAlwaysTells == FormatsSpec => []ResultTells
<1>1. PrintInv => ResultTells
  BY DEF PrintInv, IdleInv, Told, ResultTells
<1> QED BY <1>1, PrintInvAlways, PTL

-----------------------------------------------------------------------------
(* Numbers in a packet *)

\* The recursion of EncodeU32.
LEMMA EncodeDef ==
  \A v \in Nat : /\ EncodeU32[v] \in Seq(Nat)
                 /\ v <= 127 => EncodeU32[v] = <<v>>
                 /\ v > 127 => EncodeU32[v] = <<(v % 128) + 128>> \o EncodeU32[v \div 128]
<1> DEFINE T == Seq(Nat)
           B == {v \in Nat : v <= 127}
           g == [v \in Nat |-> <<v>>]
           Put(v, x) == <<(v % 128) + 128>> \o x
           h == [v \in Nat |-> [x \in T |-> Put(v, x)]]
           pred == [v \in Nat |-> v \div 128]
<1>1. g \in [Nat -> T]
  OBVIOUS
<1>2. h \in [Nat -> [T -> T]]
  <2>1. ASSUME NEW v \in Nat, NEW x \in T PROVE Put(v, x) \in T
    <3>1. (v % 128) + 128 \in Nat
      OBVIOUS
    <3> QED BY <3>1
  <2> HIDE DEF Put, T
  <2> QED BY <2>1
<1>3. \A v \in Nat : v \div 128 \in Nat /\ (v > 127 => v \div 128 < v)
  OBVIOUS
<1>4. Ranked(Nat, B, RankNat, pred)
  BY <1>3 DEF Ranked, RankNat
<1>5. PICK f \in [Nat -> T] : \A v \in Nat : f[v] = Rec(f, v, B, g, h, pred)
  <2>1. Recursion(Nat, T, B, g, h, RankNat, pred)
    BY <1>1, <1>2, <1>4, Zenon DEF Recursion
  <2> HIDE DEF T, B, g, h, pred
  <2> QED BY <2>1, RecExists
<1>6. f = [v \in Nat |-> IF v > 127 THEN <<(v % 128) + 128>> \o f[v \div 128] ELSE <<v>>]
  <2>1. ASSUME NEW v \in Nat
        PROVE  f[v] = IF v > 127 THEN <<(v % 128) + 128>> \o f[v \div 128] ELSE <<v>>
    <3>1. f[v] = IF v \in B THEN g[v] ELSE h[v][f[pred[v]]]
      BY <1>5, Zenon DEF Rec
    <3>2. CASE v \in B
      <4>1. g[v] = <<v>>
        BY Zenon
      <4>2. ~(v > 127)
        BY <3>2
      <4> QED BY <3>1, <3>2, <4>1, <4>2, Zenon
    <3>3. CASE v \notin B
      <4>1. pred[v] = v \div 128 /\ v \div 128 \in Nat
        BY <1>3
      <4>2. f[v \div 128] \in T
        BY <1>5, <4>1, Zenon
      <4>3. h[v][f[v \div 128]] = Put(v, f[v \div 128])
        <5> HIDE DEF Put, T
        <5> QED BY <4>2, Zenon
      <4>4. v > 127
        BY <3>3
      <4> QED BY <3>1, <3>3, <4>1, <4>3, <4>4, Zenon
    <3> QED BY <3>2, <3>3
  <2>2. f = [v \in Nat |-> f[v]]
    BY <1>5, Zenon
  <2> QED BY <2>1, <2>2, Zenon
<1>7. EncodeU32 = [v \in Nat |-> IF v > 127 THEN <<(v % 128) + 128>> \o EncodeU32[v \div 128]
                                ELSE <<v>>]
  BY <1>6, Zenon DEF EncodeU32
<1>8. \A v \in Nat : EncodeU32[v] = IF v > 127 THEN <<(v % 128) + 128>> \o EncodeU32[v \div 128]
                                    ELSE <<v>>
  BY <1>7, Zenon
<1> DEFINE S == {v \in Nat : EncodeU32[v] \in Seq(Nat)}
<1>9. ASSUME NEW v \in Nat, \A m \in Nat : m < v => m \in S PROVE v \in S
  <2>1. CASE v > 127
    <3>1. EncodeU32[v \div 128] \in Seq(Nat)
      BY <1>3, <1>9, <2>1
    <3>2. EncodeU32[v] = <<(v % 128) + 128>> \o EncodeU32[v \div 128]
      BY <1>8, <2>1, Zenon
    <3>3. (v % 128) + 128 \in Nat
      OBVIOUS
    <3>4. EncodeU32[v] \in Seq(Nat)
      BY <3>1, <3>2, <3>3
    <3> QED BY <3>4
  <2>2. CASE ~(v > 127)
    <3>1. EncodeU32[v] = <<v>>
      BY <1>8, <2>2, Zenon
    <3>2. <<v>> \in Seq(Nat)
      OBVIOUS
    <3> QED BY <3>1, <3>2, Zenon
  <2> QED BY <2>1, <2>2
<1>10. \A v \in Nat : v \in S
  <2> HIDE DEF S
  <2> QED BY <1>9, StrongInduction
<1>11. ASSUME NEW v \in Nat
       PROVE  /\ EncodeU32[v] \in Seq(Nat)
              /\ v <= 127 => EncodeU32[v] = <<v>>
              /\ v > 127 => EncodeU32[v] = <<(v % 128) + 128>> \o EncodeU32[v \div 128]
  <2>1. v <= 127 <=> ~(v > 127)
    OBVIOUS
  <2>2. EncodeU32[v] \in Seq(Nat)
    BY <1>10
  <2> QED BY <1>8, <2>1, <2>2, Zenon
<1> QED BY <1>11

\* w[i] is the value of the bytes from i on.
Weighs(c, w, v) ==
  /\ w \in [1 .. Len(c) -> Nat] /\ w[1] = v /\ w[Len(c)] = c[Len(c)]
  /\ \A i \in 1 .. Len(c) - 1 : w[i] = (c[i] % 128) + 128 * w[i + 1]

\* The bytes c are a number of value v: bit 7 is set in all but the last.
Codes(c, v) ==
  /\ c \in Seq(Nat) /\ Len(c) >= 1 /\ c[Len(c)] < 128
  /\ \A i \in 1 .. Len(c) - 1 : c[i] >= 128
  /\ \E w : Weighs(c, w, v)

\* One byte.
LEMMA CodesOne ==
  ASSUME NEW v \in Nat, v < 128
  PROVE  Codes(<<v>>, v)
<1> DEFINE c == <<v>>
           w == [i \in 1 .. 1 |-> v]
<1>1. c \in Seq(Nat) /\ Len(c) = 1 /\ c[1] = v
  OBVIOUS
<1>2. w \in [1 .. 1 -> Nat] /\ w[1] = v
  OBVIOUS
<1> HIDE DEF c, w
<1>3. 1 .. 1 - 1 = {}
  OBVIOUS
<1>4. Weighs(c, w, v)
  BY <1>1, <1>2, <1>3 DEF Weighs
<1>5. Codes(c, v)
  BY <1>1, <1>3, <1>4 DEF Codes
<1> QED BY <1>5 DEF c

\* One more byte in front.
LEMMA CodesMore ==
  ASSUME NEW c, NEW q \in Nat, Codes(c, q), NEW r \in Nat, r < 128, NEW v, v = 128 * q + r
  PROVE  Codes(<<r + 128>> \o c, v)
<1> DEFINE d == <<r + 128>> \o c
           n == Len(c)
<1>1. /\ c \in Seq(Nat) /\ n \in Nat /\ n >= 1 /\ c[n] < 128
      /\ \A i \in 1 .. n - 1 : c[i] >= 128
  BY DEF Codes
<1>2. PICK w : Weighs(c, w, q)
  BY DEF Codes
<1>3. /\ w \in [1 .. n -> Nat] /\ w[1] = q /\ w[n] = c[n]
      /\ \A i \in 1 .. n - 1 : w[i] = (c[i] % 128) + 128 * w[i + 1]
  BY <1>2 DEF Weighs
<1>4. /\ d \in Seq(Nat) /\ Len(d) = n + 1 /\ d[1] = r + 128
      /\ \A i \in 1 .. n : d[i + 1] = c[i]
  BY <1>1
<1> HIDE DEF d, n
<1>5. d[n + 1] = c[n]
  BY <1>1, <1>4
<1>6. ASSUME NEW i \in 1 .. n PROVE d[i] >= 128
  <2>1. CASE i = 1
    BY <1>4, <2>1
  <2>2. CASE i # 1
    <3>1. i - 1 \in 1 .. n - 1 /\ i - 1 \in 1 .. n /\ (i - 1) + 1 = i
      BY <1>1, <2>2
    <3>2. d[i] = c[i - 1]
      BY <1>4, <3>1
    <3> QED BY <1>1, <3>1, <3>2
  <2> QED BY <2>1, <2>2
<1> DEFINE x == [i \in 1 .. n + 1 |-> IF i = 1 THEN v ELSE w[i - 1]]
<1>7. x \in [1 .. n + 1 -> Nat] /\ x[1] = v /\ x[n + 1] = w[n] /\ \A i \in 1 .. n : x[i + 1] = w[i]
  <2>1. v \in Nat
    OBVIOUS
  <2>2. ASSUME NEW i \in 1 .. n + 1 PROVE (IF i = 1 THEN v ELSE w[i - 1]) \in Nat
    BY <1>1, <1>3, <2>1
  <2>3. x \in [1 .. n + 1 -> Nat]
    BY <2>2
  <2> QED BY <1>1, <2>3
<1> HIDE DEF x
<1>8. ASSUME NEW i \in 1 .. n PROVE x[i] = (d[i] % 128) + 128 * x[i + 1]
  <2>1. CASE i = 1
    <3>1. x[1] = v /\ d[1] = r + 128 /\ x[1 + 1] = q
      BY <1>1, <1>3, <1>4, <1>7
    <3>2. (r + 128) % 128 = r
      OBVIOUS
    <3> QED BY <2>1, <3>1, <3>2
  <2>2. CASE i # 1
    <3> DEFINE j == i - 1
    <3>1. j \in 1 .. n - 1 /\ j \in 1 .. n /\ j + 1 = i /\ j + 1 \in 1 .. n
      BY <1>1, <2>2
    <3> HIDE DEF j
    <3>2. d[i] = c[j] /\ x[i] = w[j] /\ x[i + 1] = w[i]
      BY <1>4, <1>7, <3>1
    <3>3. w[j] = (c[j] % 128) + 128 * w[i]
      BY <1>3, <3>1
    <3> QED BY <3>2, <3>3
  <2> QED BY <2>1, <2>2
<1>9. (n + 1) - 1 = n
  BY <1>1
<1>10. Weighs(d, x, v)
  BY <1>3, <1>4, <1>5, <1>7, <1>8, <1>9, Zenon DEF Weighs
<1>11. Codes(d, v)
  <2>1. n + 1 >= 1 /\ d[n + 1] < 128
    BY <1>1, <1>5
  <2> QED BY <1>4, <1>6, <1>9, <1>10, <2>1, Zenon DEF Codes
<1> QED BY <1>11 DEF d

\* The seven lowest bits, and the others.
LEMMA LowBits ==
  ASSUME NEW v \in Nat
  PROVE  /\ v \div 128 \in Nat /\ v % 128 \in Nat /\ v % 128 < 128
         /\ v = 128 * (v \div 128) + (v % 128)
<1>1. 128 \in Nat /\ 128 >= 1
  OBVIOUS
<1>2. PICK r \in Nat : r < 128 /\ v = 128 * (v \div 128) + r /\ v % 128 = r
  BY <1>1, ModRest
<1>3. v \div 128 \in Nat
  BY <1>1, DivBounds
<1> DEFINE m == v % 128
<1>4. m = r
  BY <1>2
<1> HIDE DEF m
<1>5. m \in Nat /\ m < 128 /\ v = 128 * (v \div 128) + m
  BY <1>2, <1>4, Zenon
<1> QED BY <1>3, <1>5 DEF m

\* EncodeU32 writes the number.
LEMMA EncodeCodes ==
  ASSUME NEW v \in Nat
  PROVE  Codes(EncodeU32[v], v)
<1> DEFINE S == {n \in Nat : Codes(EncodeU32[n], n)}
<1>1. ASSUME NEW n \in Nat, \A m \in Nat : m < n => m \in S PROVE n \in S
  <2>1. CASE n <= 127
    <3>1. EncodeU32[n] = <<n>>
      BY <2>1, EncodeDef, Zenon
    <3>2. n < 128
      BY <2>1
    <3>3. Codes(<<n>>, n)
      BY <3>2, CodesOne
    <3> QED BY <3>1, <3>3, Zenon
  <2>2. CASE n > 127
    <3> DEFINE q == n \div 128
               r == n % 128
    <3>1. q \in Nat /\ r \in Nat /\ r < 128 /\ n = 128 * q + r /\ q < n
      BY <2>2, LowBits
    <3>2. EncodeU32[n] = <<r + 128>> \o EncodeU32[q]
      BY <2>2, EncodeDef, Zenon
    <3> HIDE DEF q, r
    <3>3. Codes(EncodeU32[q], q)
      BY <1>1, <3>1
    <3> DEFINE c == EncodeU32[q]
    <3>4. Codes(c, q)
      BY <3>3
    <3> HIDE DEF c
    <3>5. Codes(<<r + 128>> \o c, n)
      BY <3>1, <3>4, CodesMore
    <3> QED BY <3>2, <3>5 DEF c
  <2> QED BY <2>1, <2>2
<1>2. \A n \in Nat : n \in S
  <2> HIDE DEF S
  <2> QED BY <1>1, StrongInduction
<1> QED BY <1>2

\* The places of the bytes.
LEMMA PlaceIs ==
  Place[1] = 1 /\ Place[2] = 128 /\ Place[3] = 16384 /\ Place[4] = 2097152 /\ Place[5] = 268435456
BY SMT DEF Place

\* A word takes at most five bytes.
LEMMA EncodeLength ==
  ASSUME NEW v \in Nat, v \div Place[5] < 16
  PROVE  Len(EncodeU32[v]) \in 1 .. 5
<1>1. ASSUME NEW n \in Nat, n < 128 PROVE Len(EncodeU32[n]) = 1
  <2>1. n <= 127
    BY <1>1
  <2>2. EncodeU32[n] = <<n>>
    BY <2>1, EncodeDef, Zenon
  <2> QED BY <2>2
<1>2. ASSUME NEW n \in Nat, NEW m \in Nat, Len(EncodeU32[n \div 128]) \in 1 .. m
      PROVE  Len(EncodeU32[n]) \in 1 .. m + 1
  <2> DEFINE c == EncodeU32[n \div 128]
             b == (n % 128) + 128
  <2>1. n < 128 \/ n > 127
    OBVIOUS
  <2>2. CASE n < 128
    <3>1. Len(EncodeU32[n]) = 1
      BY <1>1, <2>2
    <3> QED BY <3>1
  <2>3. CASE n > 127
    <3>1. EncodeU32[n] = <<b>> \o c
      BY <2>3, EncodeDef, Zenon
    <3>2. n \div 128 \in Nat /\ b \in Nat
      OBVIOUS
    <3>3. c \in Seq(Nat) /\ Len(c) \in 1 .. m
      BY <1>2, <3>2, EncodeDef, Zenon
    <3> HIDE DEF c, b
    <3>4. Len(<<b>> \o c) = 1 + Len(c)
      BY <3>2, <3>3
    <3>5. 1 + Len(c) \in 1 .. m + 1
      BY <3>3
    <3> QED BY <3>1, <3>4, <3>5, Zenon
  <2> QED BY <2>1, <2>2, <2>3
<1>3. ASSUME NEW n \in Nat, n < Place[3] PROVE Len(EncodeU32[n]) \in 1 .. 2
  <2>1. n \div 128 \in Nat /\ n \div 128 < 128
    BY SMT, <1>3, PlaceIs
  <2>2. Len(EncodeU32[n \div 128]) = 1
    BY <1>1, <2>1, Zenon
  <2>3. Len(EncodeU32[n \div 128]) \in 1 .. 1 /\ 1 \in Nat /\ 1 + 1 = 2
    BY <2>2
  <2>4. Len(EncodeU32[n]) \in 1 .. 1 + 1
    BY <1>2, <2>3, Zenon
  <2> QED BY <2>3, <2>4, Zenon
<1>4. ASSUME NEW n \in Nat, n < Place[4] PROVE Len(EncodeU32[n]) \in 1 .. 3
  <2>1. n \div 128 \in Nat /\ n \div 128 < Place[3]
    BY SMT, <1>4, PlaceIs
  <2>2. Len(EncodeU32[n \div 128]) \in 1 .. 2
    BY <1>3, <2>1, Zenon
  <2>3. 2 \in Nat /\ 2 + 1 = 3
    OBVIOUS
  <2>4. Len(EncodeU32[n]) \in 1 .. 2 + 1
    BY <1>2, <2>2, <2>3, Zenon
  <2> QED BY <2>3, <2>4, Zenon
<1>5. ASSUME NEW n \in Nat, n < Place[5] PROVE Len(EncodeU32[n]) \in 1 .. 4
  <2>1. n \div 128 \in Nat /\ n \div 128 < Place[4]
    BY SMT, <1>5, PlaceIs
  <2>2. Len(EncodeU32[n \div 128]) \in 1 .. 3
    BY <1>4, <2>1, Zenon
  <2>3. 3 \in Nat /\ 3 + 1 = 4
    OBVIOUS
  <2>4. Len(EncodeU32[n]) \in 1 .. 3 + 1
    BY <1>2, <2>2, <2>3, Zenon
  <2> QED BY <2>3, <2>4, Zenon
<1>6. v \div 128 \in Nat /\ v \div 128 < Place[5]
  BY SMT, PlaceIs
<1>7. Len(EncodeU32[v \div 128]) \in 1 .. 4
  BY <1>5, <1>6, Zenon
<1>8. 4 \in Nat /\ 4 + 1 = 5
  OBVIOUS
<1>9. Len(EncodeU32[v]) \in 1 .. 4 + 1
  BY <1>2, <1>7, <1>8, Zenon
<1> QED BY <1>8, <1>9, Zenon

\* Written backward, a number is the lowest seven bits and the number of the others.
LEMMA BackwardMore ==
  ASSUME NEW v \in Nat, NEW k \in 1 .. 4
  PROVE  Backward(v, k + 1) = <<(v % 128) + 128>> \o Backward(v \div 128, k)
<1> DEFINE q == v \div 128
           lo(y) == (y % 128) + 128
           hi(y) == y % 256
           B(x, n, i) == IF i < n THEN lo(x \div Place[i]) ELSE hi(x \div Place[i])
           long == Backward(v, k + 1)
           short == Backward(q, k)
           b == (v % 128) + 128
<1>1. q \in Nat /\ b \in Nat
  OBVIOUS
<1>2. ASSUME NEW x \in Nat, NEW n \in 1 .. 5, NEW i \in 1 .. n PROVE B(x, n, i) \in Nat
  <2>1. i \in {1, 2, 3, 4, 5}
    OBVIOUS
  <2>2. x \div Place[i] \in Nat
    BY SMT, <2>1, PlaceIs
  <2> DEFINE y == x \div Place[i]
  <2>3. (y % 128) + 128 \in Nat /\ y % 256 \in Nat
    <3> HIDE DEF y
    <3>1. y \in Nat
      BY <2>2 DEF y
    <3> QED BY <3>1
  <2> QED BY <2>3
<1>3. \A x, n : Backward(x, n) = [i \in 1 .. n |-> B(x, n, i)]
  BY Zenon DEF Backward
<1>4. k \in Nat /\ k + 1 \in 1 .. 5 /\ k \in 1 .. 5
  OBVIOUS
<1>5. long \in Seq(Nat) /\ Len(long) = k + 1 /\ \A i \in 1 .. k + 1 : long[i] = B(v, k + 1, i)
  <2> DEFINE F(i) == B(v, k + 1, i)
  <2>1. \A i \in 1 .. k + 1 : F(i) \in Nat
    <3> HIDE DEF B
    <3> QED BY <1>2, <1>4, Zenon
  <2>2. long = [i \in 1 .. k + 1 |-> F(i)]
    BY <1>3, Zenon
  <2> HIDE DEF B, F, long
  <2>3. long \in Seq(Nat) /\ Len(long) = k + 1 /\ \A i \in 1 .. k + 1 : long[i] = F(i)
    BY <1>4, <2>1, <2>2
  <2> QED BY <2>3 DEF F
<1>6. short \in Seq(Nat) /\ Len(short) = k /\ \A i \in 1 .. k : short[i] = B(q, k, i)
  <2> DEFINE F(i) == B(q, k, i)
  <2>1. \A i \in 1 .. k : F(i) \in Nat
    <3> HIDE DEF B, q
    <3> QED BY <1>1, <1>2, <1>4, Zenon
  <2>2. short = [i \in 1 .. k |-> F(i)]
    BY <1>3, Zenon
  <2> HIDE DEF B, F, short
  <2>3. short \in Seq(Nat) /\ Len(short) = k /\ \A i \in 1 .. k : short[i] = F(i)
    BY <1>4, <2>1, <2>2
  <2> QED BY <2>3 DEF F
<1>7. long[1] = b
  <2>1. v \div 1 = v /\ 1 < k + 1 /\ 1 \in 1 .. k + 1
    OBVIOUS
  <2> HIDE DEF long
  <2> QED BY SMT, <1>5, <2>1, PlaceIs
<1>8. ASSUME NEW i \in 1 .. k PROVE long[i + 1] = short[i]
  <2>1. v \div Place[i + 1] = q \div Place[i]
    <3>1. i \in {1, 2, 3, 4}
      OBVIOUS
    <3>2. CASE i = 1
      BY SMT, <3>2, PlaceIs
    <3>3. CASE i = 2
      BY SMT, <3>3, PlaceIs
    <3>4. CASE i = 3
      BY SMT, <3>4, PlaceIs
    <3>5. CASE i = 4
      BY SMT, <3>5, PlaceIs
    <3> QED BY <3>1, <3>2, <3>3, <3>4, <3>5
  <2>2. (i + 1 < k + 1) <=> (i < k)
    BY <1>4
  <2>3. B(v, k + 1, i + 1) = B(q, k, i)
    <3> HIDE DEF q, lo, hi
    <3> DEFINE y == v \div Place[i + 1]
               z == q \div Place[i]
    <3>1. y = z
      BY <2>1
    <3> HIDE DEF y, z
    <3>2. (IF i + 1 < k + 1 THEN lo(y) ELSE hi(y)) = IF i < k THEN lo(z) ELSE hi(z)
      BY <2>2, <3>1, Zenon
    <3> QED BY <3>2, Zenon DEF y, z
  <2>4. i + 1 \in 1 .. k + 1
    BY <1>4
  <2> HIDE DEF B, long, short
  <2> QED BY <1>5, <1>6, <2>3, <2>4, Zenon
<1> HIDE DEF long, short, b
<1>9. long = <<b>> \o short
  <2>1. <<b>> \o short \in Seq(Nat) /\ Len(<<b>> \o short) = k + 1
    BY <1>1, <1>4, <1>6
  <2>2. ASSUME NEW j \in 1 .. k + 1 PROVE long[j] = (<<b>> \o short)[j]
    <3>1. CASE j = 1
      BY <1>1, <1>6, <1>7, <3>1
    <3>2. CASE j # 1
      <4>1. j - 1 \in 1 .. k /\ (j - 1) + 1 = j
        BY <1>4, <3>2
      <4>2. long[j] = short[j - 1]
        BY <1>8, <4>1
      <4>3. (<<b>> \o short)[j] = short[j - 1]
        BY <1>1, <1>6, <3>2, <4>1
      <4> QED BY <4>2, <4>3
    <3> QED BY <3>1, <3>2
  <2> QED BY <1>5, <2>1, <2>2, SeqEqual
<1> QED BY <1>9 DEF long, short, b, q

\* The last byte has room for what is left.
LEMMA BackwardCodes ==
  \A k \in 1 .. 5 : \A v \in Nat : v \div Place[k] < 128 => Codes(Backward(v, k), v)
<1> DEFINE Good(k) == \A v \in Nat : v \div Place[k] < 128 => Codes(Backward(v, k), v)
<1>1. Good(1)
  <2> SUFFICES ASSUME NEW v \in Nat, v \div Place[1] < 128 PROVE Codes(Backward(v, 1), v)
    OBVIOUS
  <2>1. v \div Place[1] = v /\ v < 128
    BY SMT, PlaceIs
  <2>2. Backward(v, 1) = [i \in 1 .. 1 |-> IF i < 1 THEN ((v \div Place[i]) % 128) + 128
                                           ELSE (v \div Place[i]) % 256]
    BY Zenon DEF Backward
  <2>3. v % 256 = v
    BY <2>1
  <2> DEFINE s == Backward(v, 1)
  <2>4. s = [i \in 1 .. 1 |-> v]
    BY <2>1, <2>2, <2>3
  <2> HIDE DEF s
  <2>5. s \in Seq(Nat) /\ Len(s) = 1 /\ s[1] = v
    BY <2>4
  <2>6. s = <<v>>
    BY <2>5
  <2> QED BY <2>1, <2>6, CodesOne DEF s
<1>2. ASSUME NEW k \in 1 .. 4, Good(k) PROVE Good(k + 1)
  <2> SUFFICES ASSUME NEW v \in Nat, v \div Place[k + 1] < 128
               PROVE  Codes(Backward(v, k + 1), v)
    OBVIOUS
  <2> DEFINE q == v \div 128
             r == v % 128
  <2>1. q \in Nat /\ r \in Nat /\ r < 128 /\ v = 128 * q + r
    BY LowBits
  <2>2. q \div Place[k] < 128
    <3>1. k \in {1, 2, 3, 4}
      OBVIOUS
    <3>2. CASE k = 1
      BY SMT, <3>2, PlaceIs
    <3>3. CASE k = 2
      BY SMT, <3>3, PlaceIs
    <3>4. CASE k = 3
      BY SMT, <3>4, PlaceIs
    <3>5. CASE k = 4
      BY SMT, <3>5, PlaceIs
    <3> QED BY <3>1, <3>2, <3>3, <3>4, <3>5
  <2>3. Backward(v, k + 1) = <<r + 128>> \o Backward(q, k)
    BY BackwardMore
  <2> HIDE DEF q, r
  <2> DEFINE c == Backward(q, k)
  <2>4. Codes(c, q)
    BY <1>2, <2>1, <2>2
  <2> HIDE DEF c
  <2>5. Codes(<<r + 128>> \o c, v)
    BY <2>1, <2>4, CodesMore
  <2> QED BY <2>3, <2>5 DEF c
<1> HIDE DEF Good
<1>3. Good(2)
  <2>1. 1 \in 1 .. 4 /\ 1 + 1 = 2
    OBVIOUS
  <2> QED BY <1>1, <1>2, <2>1
<1>4. Good(3)
  <2>1. 2 \in 1 .. 4 /\ 2 + 1 = 3
    OBVIOUS
  <2> QED BY <1>2, <1>3, <2>1
<1>5. Good(4)
  <2>1. 3 \in 1 .. 4 /\ 3 + 1 = 4
    OBVIOUS
  <2> QED BY <1>2, <1>4, <2>1
<1>6. Good(5)
  <2>1. 4 \in 1 .. 4 /\ 4 + 1 = 5
    OBVIOUS
  <2> QED BY <1>2, <1>5, <2>1
<1>7. \A k \in 1 .. 5 : Good(k)
  <2>1. \A k \in 1 .. 5 : k = 1 \/ k = 2 \/ k = 3 \/ k = 4 \/ k = 5
    OBVIOUS
  <2> QED BY <1>1, <1>3, <1>4, <1>5, <1>6, <2>1, Zenon
<1> QED BY <1>7 DEF Good

-----------------------------------------------------------------------------
(* How the host reads a number *)

\* The bytes c are in b from position i on.
At(b, i, c) == /\ b \in Seq(Nat) /\ i \in Nat /\ i >= 1 /\ i + Len(c) - 1 <= Len(b)
               /\ \A k \in 1 .. Len(c) : b[i + k - 1] = c[k]

\* j is the end of a number that starts at i.
Ends(b, i, j) == b[j] < 128 /\ \A h \in i .. j - 1 : b[h] >= 128

\* The host finds the end of a number.
LEMMA EndFound ==
  ASSUME NEW b, NEW i, NEW c, NEW v, At(b, i, c), Codes(c, v)
  PROVE  NumberEnd(b, i) = i + Len(c) - 1
<1> DEFINE n == Len(c)
           e == i + n - 1
<1>1. /\ b \in Seq(Nat) /\ i \in Nat /\ i >= 1 /\ e <= Len(b)
      /\ \A k \in 1 .. n : b[i + k - 1] = c[k]
  BY DEF At
<1>2. /\ c \in Seq(Nat) /\ n \in Nat /\ n >= 1 /\ c[n] < 128
      /\ \A k \in 1 .. n - 1 : c[k] >= 128
  BY DEF Codes
<1> HIDE DEF n
<1>3. e \in i .. Len(b) /\ e \in Nat /\ Len(b) \in Nat
  BY <1>1, <1>2
<1>4. ASSUME NEW h \in i .. e - 1 PROVE b[h] >= 128
  <2> DEFINE k == h - i + 1
  <2>1. k \in 1 .. n - 1 /\ k \in 1 .. n /\ i + k - 1 = h
    BY <1>1, <1>2
  <2> HIDE DEF k
  <2>2. b[i + k - 1] = c[k] /\ c[k] >= 128
    BY <1>1, <1>2, <2>1
  <2> QED BY <2>1, <2>2
<1>5. b[e] < 128
  <2>1. n \in 1 .. n
    BY <1>2
  <2>2. b[i + n - 1] = c[n]
    BY <1>1, <2>1, Zenon
  <2> QED BY <1>2, <2>2
<1>6. Ends(b, i, e)
  BY <1>4, <1>5 DEF Ends
<1>7. ASSUME NEW j \in i .. Len(b), Ends(b, i, j) PROVE j = e
  <2>1. j \in Nat /\ b[j] \in Nat /\ b[e] \in Nat
    BY <1>1, <1>3
  <2>2. ~(j < e)
    <3>1. j < e => j \in i .. e - 1
      BY <1>1, <1>3, <2>1
    <3>2. b[j] < 128
      BY <1>7, Zenon DEF Ends
    <3> QED BY <1>4, <2>1, <3>1, <3>2
  <2>3. ~(j > e)
    <3>1. j > e => e \in i .. j - 1
      BY <1>1, <1>3, <2>1
    <3>2. j > e => b[e] >= 128
      BY <1>7, <3>1, Zenon DEF Ends
    <3> QED BY <1>5, <2>1, <3>2
  <2> QED BY <1>3, <2>1, <2>2, <2>3
<1>8. NumberEnd(b, i) = CHOOSE j \in i .. Len(b) : Ends(b, i, j)
  BY Zenon DEF NumberEnd, Ends
<1> HIDE DEF e
<1>9. NumberEnd(b, i) = e
  BY <1>3, <1>6, <1>7, <1>8, Zenon
<1> QED BY <1>9 DEF e, n

\* ... and its value.
LEMMA ValueFound ==
  ASSUME NEW b, NEW i, NEW c, NEW v, At(b, i, c), Codes(c, v)
  PROVE  NumberValue(b, i) = v
<1> DEFINE n == Len(c)
           e == NumberEnd(b, i)
<1>5. e = i + n - 1
  BY EndFound
<1>1. /\ b \in Seq(Nat) /\ i \in Nat /\ i >= 1 /\ e <= Len(b)
      /\ \A k \in 1 .. n : b[i + k - 1] = c[k]
  BY <1>5 DEF At
<1>2. c \in Seq(Nat) /\ n \in Nat /\ n >= 1 /\ c[n] < 128
  BY DEF Codes
<1>3. PICK w : Weighs(c, w, v)
  BY DEF Codes
<1>4. /\ w \in [1 .. n -> Nat] /\ w[1] = v /\ w[n] = c[n]
      /\ \A k \in 1 .. n - 1 : w[k] = (c[k] % 128) + 128 * w[k + 1]
  BY <1>3 DEF Weighs
<1> HIDE DEF n
<1>6. e \in Nat /\ i <= e
  <2> HIDE DEF e
  <2> QED BY <1>1, <1>2, <1>5
<1> DEFINE A(x, j) == (b[j] % 128) + (IF j = e THEN 0 ELSE 128 * x[j + 1])
           val == CHOOSE x : x = [j \in i .. e |-> A(x, j)]
           u == [j \in i .. e |-> w[j - i + 1]]
<1>7. NumberValue(b, i) = val[i]
  BY Zenon DEF NumberValue
<1> HIDE DEF e
<1>8. ASSUME NEW j \in i .. e
      PROVE  /\ j - i + 1 \in 1 .. n /\ b[j] = c[j - i + 1]
             /\ j = e => w[j - i + 1] = b[j] % 128
             /\ j # e => /\ j + 1 \in i .. e /\ (j + 1) - i + 1 \in 1 .. n
                         /\ w[j - i + 1] = (b[j] % 128) + 128 * w[(j + 1) - i + 1]
  <2> DEFINE k == j - i + 1
  <2>1. k \in 1 .. n /\ i + k - 1 = j /\ (j = e => k = n)
        /\ (j # e => k \in 1 .. n - 1 /\ j + 1 \in i .. e /\ k + 1 = (j + 1) - i + 1
                     /\ k + 1 \in 1 .. n)
    BY <1>1, <1>2, <1>5, <1>6
  <2> HIDE DEF k
  <2>2. b[j] = c[k]
    <3>1. b[i + k - 1] = c[k]
      BY <1>1, <2>1, Zenon
    <3> QED BY <2>1, <3>1, Zenon
  <2>3. j = e => w[k] = b[j] % 128
    <3> SUFFICES ASSUME j = e PROVE w[k] = b[j] % 128
      OBVIOUS
    <3>1. w[k] = b[j] /\ b[j] < 128 /\ b[j] \in Nat
      BY <1>2, <1>4, <2>1, <2>2
    <3> QED BY <3>1
  <2>4. j # e => w[k] = (b[j] % 128) + 128 * w[k + 1]
    BY <1>4, <2>1, <2>2
  <2> QED BY <2>1, <2>2, <2>3, <2>4 DEF k
<1>9. ASSUME NEW j \in i .. e PROVE u[j] = A(u, j)
  <2>1. u[j] = w[j - i + 1]
    BY Zenon
  <2>2. CASE j = e
    <3>1. u[j] = b[j] % 128 /\ b[j] % 128 \in Nat
      <4>1. b[j] % 128 = w[j - i + 1] /\ w[j - i + 1] \in Nat
        BY <1>4, <1>8, <2>2
      <4> QED BY <2>1, <4>1
    <3> QED BY <2>2, <3>1
  <2>3. CASE j # e
    <3>1. j + 1 \in i .. e /\ w[j - i + 1] = (b[j] % 128) + 128 * w[(j + 1) - i + 1]
      BY <1>8, <2>3
    <3>2. u[j + 1] = w[(j + 1) - i + 1]
      BY <3>1, Zenon
    <3> HIDE DEF u
    <3> QED BY <2>1, <2>3, <3>1, <3>2, Zenon
  <2> QED BY <2>2, <2>3
<1>10. u = [j \in i .. e |-> A(u, j)]
  <2> HIDE DEF A
  <2> QED BY <1>9, Zenon
<1>11. val = [j \in i .. e |-> A(val, j)]
  <2> HIDE DEF A, u
  <2> QED BY <1>10, Zenon
<1> HIDE DEF val
<1>12. \A j \in i .. e : val[j] = A(val, j)
  <2> HIDE DEF A
  <2> QED BY <1>11, Zenon
<1> DEFINE S == {m \in Nat : m <= e - i => val[e - m] = w[(e - m) - i + 1]}
<1>13. 0 \in S
  <2>1. e - 0 = e /\ e \in i .. e
    BY <1>1, <1>6
  <2>2. val[e] = (b[e] % 128) + 0
    BY <1>12, <2>1, Zenon
  <2>3. w[e - i + 1] = b[e] % 128 /\ w[e - i + 1] \in Nat
    BY <1>4, <1>8, <2>1
  <2>4. val[e] = w[e - i + 1]
    BY <2>2, <2>3
  <2> QED BY <2>1, <2>4
<1>14. ASSUME NEW m \in Nat, m \in S PROVE m + 1 \in S
  <2> SUFFICES ASSUME m + 1 <= e - i PROVE val[e - (m + 1)] = w[(e - (m + 1)) - i + 1]
    OBVIOUS
  <2> DEFINE j == e - (m + 1)
  <2>1. j \in i .. e /\ j # e /\ j + 1 = e - m /\ m <= e - i
    BY <1>1, <1>6
  <2>2. val[j + 1] = w[(j + 1) - i + 1]
    BY <1>14, <2>1
  <2> HIDE DEF j
  <2>3. w[j - i + 1] = (b[j] % 128) + 128 * w[(j + 1) - i + 1]
    BY <1>8, <2>1
  <2>4. val[j] = (b[j] % 128) + 128 * val[j + 1]
    BY <1>12, <2>1, Zenon
  <2>5. val[j] = w[j - i + 1]
    BY <2>2, <2>3, <2>4, Zenon
  <2> QED BY <2>5 DEF j
<1>15. \A m \in Nat : m \in S
  <2> HIDE DEF S
  <2> QED BY <1>13, <1>14, SetInduction
<1>16. e - i \in Nat /\ e - (e - i) = i /\ e - i <= e - i /\ i - i + 1 = 1
  BY <1>1, <1>6
<1>17. val[e - (e - i)] = w[(e - (e - i)) - i + 1]
  BY <1>15, <1>16
<1>18. val[i] = w[1]
  BY <1>16, <1>17
<1> QED BY <1>4, <1>7, <1>18, Zenon

-----------------------------------------------------------------------------
(* Headers *)

\* The id of an event, up to 32 bits.
LEMMA IdCodes ==
  ASSUME NEW id \in Nat, id \div Place[5] < 16
  PROVE  Codes(IdBytes(id), id)
<1> DEFINE k == IF id < 127 THEN 1 ELSE IF id < Place[3] THEN 2
                ELSE IF id < Place[4] THEN 3 ELSE IF id < Place[5] THEN 4 ELSE 5
<1>1. k \in 1 .. 5 /\ id \div Place[k] < 128
  BY SMT, PlaceIs
<1>2. IdBytes(id) = Backward(id, k)
  BY Zenon DEF IdBytes
<1> HIDE DEF k
<1>3. Codes(Backward(id, k), id)
  BY <1>1, BackwardCodes, Zenon
<1> QED BY <1>2, <1>3, Zenon

\* The length of a packet, up to 14 bits.
LEMMA LengthCodes ==
  ASSUME NEW n \in Nat, n < Place[3]
  PROVE  Codes(LengthBytes(n), n)
<1> DEFINE k == IF n > 127 THEN 2 ELSE 1
<1>1. k \in 1 .. 5 /\ n \div Place[k] < 128
  BY SMT, PlaceIs
<1>2. LengthBytes(n) = Backward(n, k)
  BY Zenon DEF LengthBytes
<1> HIDE DEF k
<1>3. Codes(Backward(n, k), n)
  BY <1>1, BackwardCodes, Zenon
<1> QED BY <1>2, <1>3, Zenon

\* Two parts in a row, and where they are.
LEMMA TwoParts ==
  ASSUME NEW x \in Seq(Nat), NEW y \in Seq(Nat)
  PROVE  /\ x \o y \in Seq(Nat) /\ Len(x \o y) = Len(x) + Len(y)
         /\ \A k \in 1 .. Len(x) : (x \o y)[k] = x[k]
         /\ \A k \in 1 .. Len(y) : (x \o y)[Len(x) + k] = y[k]
OBVIOUS

\* Four parts in a row, and where they are.
LEMMA FourParts ==
  ASSUME NEW a \in Seq(Nat), NEW l \in Seq(Nat), NEW p \in Seq(Nat), NEW d \in Seq(Nat)
  PROVE  LET b == ((a \o l) \o p) \o d
         IN  /\ Len(b) = Len(a) + Len(l) + Len(p) + Len(d)
             /\ At(b, 1, a) /\ At(b, Len(a) + 1, l) /\ At(b, Len(a) + Len(l) + Len(p) + 1, d)
<1> DEFINE x == a \o l
           y == x \o p
           b == y \o d
<1>0. Len(a) \in Nat /\ Len(l) \in Nat /\ Len(p) \in Nat /\ Len(d) \in Nat
  OBVIOUS
<1>1. x \in Seq(Nat) /\ Len(x) = Len(a) + Len(l)
      /\ (\A k \in 1 .. Len(a) : x[k] = a[k])
      /\ (\A k \in 1 .. Len(l) : x[Len(a) + k] = l[k])
  BY TwoParts
<1> HIDE DEF x
<1>2. y \in Seq(Nat) /\ Len(y) = Len(x) + Len(p) /\ (\A k \in 1 .. Len(x) : y[k] = x[k])
  BY <1>1, TwoParts
<1> HIDE DEF y
<1>3. b \in Seq(Nat) /\ Len(b) = Len(y) + Len(d)
      /\ (\A k \in 1 .. Len(y) : b[k] = y[k])
      /\ (\A k \in 1 .. Len(d) : b[Len(y) + k] = d[k])
  BY <1>2, TwoParts
<1> HIDE DEF b
<1>4. Len(b) = Len(a) + Len(l) + Len(p) + Len(d)
  BY <1>0, <1>1, <1>2, <1>3
<1>8. Len(x) = Len(a) + Len(l) /\ Len(y) = Len(a) + Len(l) + Len(p)
  BY <1>0, <1>1, <1>2
<1>5. At(b, 1, a)
  <2>1. ASSUME NEW k \in 1 .. Len(a) PROVE b[1 + k - 1] = a[k]
    <3>1. 1 + k - 1 = k /\ k \in 1 .. Len(y) /\ k \in 1 .. Len(x)
      BY <1>0, <1>1, <1>2
    <3>2. b[k] = y[k] /\ y[k] = x[k] /\ x[k] = a[k]
      BY <1>1, <1>2, <1>3, <3>1, Zenon
    <3> QED BY <3>1, <3>2
  <2>2. 1 + Len(a) - 1 <= Len(b) /\ 1 \in Nat /\ 1 >= 1
    BY <1>0, <1>4
  <2> QED BY <1>3, <2>1, <2>2, Zenon DEF At
<1>6. At(b, Len(a) + 1, l)
  <2>1. ASSUME NEW k \in 1 .. Len(l) PROVE b[Len(a) + 1 + k - 1] = l[k]
    <3> DEFINE j == Len(a) + k
    <3>1. Len(a) + 1 + k - 1 = j /\ j \in 1 .. Len(y) /\ j \in 1 .. Len(x)
      BY <1>0, <1>8
    <3>2. x[j] = l[k]
      BY <1>1
    <3> HIDE DEF j
    <3>3. b[j] = y[j] /\ y[j] = x[j]
      BY <1>2, <1>3, <3>1, Zenon
    <3> QED BY <3>1, <3>2, <3>3
  <2>2. Len(a) + 1 + Len(l) - 1 <= Len(b) /\ Len(a) + 1 \in Nat /\ Len(a) + 1 >= 1
    BY <1>0, <1>4
  <2> QED BY <1>3, <2>1, <2>2, Zenon DEF At
<1>7. At(b, Len(a) + Len(l) + Len(p) + 1, d)
  <2> DEFINE i == Len(a) + Len(l) + Len(p) + 1
  <2>1. ASSUME NEW k \in 1 .. Len(d) PROVE b[i + k - 1] = d[k]
    <3>1. i + k - 1 = Len(y) + k
      BY <1>0, <1>1, <1>2
    <3>2. b[Len(y) + k] = d[k]
      BY <1>3
    <3> QED BY <3>1, <3>2
  <2>2. i + Len(d) - 1 <= Len(b) /\ i \in Nat /\ i >= 1
    BY <1>0, <1>4
  <2> HIDE DEF i
  <2>3. At(b, i, d)
    BY <1>3, <2>1, <2>2, Zenon DEF At
  <2> QED BY <2>3 DEF i
<1> QED BY <1>4, <1>5, <1>6, <1>7 DEF b, y, x

-----------------------------------------------------------------------------
(* Packets *)

\* A word of 32 bits.
IsWord(v) == v \in Nat /\ v \div Place[5] < 16

\* How many bytes the numbers of a layout may take, by its strings s.
Sized(k, u, s) ==
  \/ s = <<>> /\ k + 5 * u <= 50
  \/ /\ \E m \in Nat : s = <<m>>
     /\ k + 5 * u <= 5 * MAX_ARGUMENTS + 2 \/ k + 5 * u <= 31
  \/ s = <<MAX_STRING_LEN, MAX_STRING_LEN>> /\ k = 1 /\ u = 6

Shape(l) == IsWord(l.id) /\ l.k \in Nat /\ l.u \in Nat /\ Sized(l.k, l.u, l.s)

\* The assumptions on the sizes.
LEMMA Sizes ==
  /\ MAX_STRING_LEN \in Nat /\ MAX_STRING_LEN < 255 /\ MAX_ARGUMENTS \in Nat
  /\ MAX_ARGUMENTS >= 5 /\ MAX_STRING_LEN + 5 * MAX_ARGUMENTS >= 43
  /\ MAX_STRING_LEN + 5 * MAX_ARGUMENTS + 3 < Place[3]
BY EncodingAssumption, Zenon

\* The ids of the events of the application are words, and so are those of the code.
LEMMA KnownId == (\A id \in EventId : IsWord(id)) /\ (\A id \in 0 .. 31 : IsWord(id))
<1>1. \A id \in EventId : IsWord(id)
  <2>1. EventId \subseteq Nat
    BY EncodingAssumption, Zenon
  <2>2. \A id \in EventId : id \div Place[5] < 16
    BY EncodingAssumption, Zenon
  <2> QED BY <2>1, <2>2, Zenon DEF IsWord
<1>2. \A id \in 0 .. 31 : IsWord(id)
  BY SMT, PlaceIs DEF IsWord
<1> QED BY <1>1, <1>2

\* A layout.
LEMMA LayoutShape ==
  ASSUME NEW id, IsWord(id), NEW k \in Nat, NEW u \in Nat, NEW s, Sized(k, u, s)
  PROVE  Shape(Layout(id, k, u, s))
<1> DEFINE l == Layout(id, k, u, s)
<1>1. l.id = id /\ l.k = k /\ l.u = u /\ l.s = s
  BY DEF Layout
<1> HIDE DEF l
<1>2. Shape(l)
  BY <1>1, Zenon DEF Shape
<1> QED BY <1>2 DEF l

\* ... without a string, with one, and with two.
LEMMA NoString ==
  ASSUME NEW id, IsWord(id), NEW k \in Nat, NEW u \in Nat, k + 5 * u <= 50
  PROVE  Shape(Layout(id, k, u, <<>>))
<1>1. Sized(k, u, <<>>)
  BY Zenon DEF Sized
<1> DEFINE s == <<>>
<1>2. Sized(k, u, s)
  BY <1>1
<1> HIDE DEF s
<1>3. Shape(Layout(id, k, u, s))
  BY <1>2, LayoutShape
<1> QED BY <1>3 DEF s

\* One string, at most m of it.
LEMMA OneString ==
  ASSUME NEW id, IsWord(id), NEW k \in Nat, NEW u \in Nat, NEW m \in Nat,
         k + 5 * u <= 5 * MAX_ARGUMENTS + 2 \/ k + 5 * u <= 31
  PROVE  Shape(Layout(id, k, u, <<m>>))
<1>1. Sized(k, u, <<m>>)
  BY Zenon DEF Sized
<1> DEFINE s == <<m>>
<1>2. Sized(k, u, s)
  BY <1>1
<1> HIDE DEF s
<1>3. Shape(Layout(id, k, u, s))
  BY <1>2, LayoutShape
<1> QED BY <1>3 DEF s

\* RegisterData with a unit.
LEMMA TwoStrings == Shape(Layout(31, 1, 6, <<MAX_STRING_LEN, MAX_STRING_LEN>>))
<1> DEFINE s == <<MAX_STRING_LEN, MAX_STRING_LEN>>
<1>1. Sized(1, 6, s)
  BY Zenon DEF Sized
<1>2. 31 \in 0 .. 31 /\ 1 \in Nat /\ 6 \in Nat
  OBVIOUS
<1> HIDE DEF s
<1>3. IsWord(31)
  BY <1>2, KnownId, Zenon
<1>4. Shape(Layout(31, 1, 6, s))
  BY <1>1, <1>2, <1>3, LayoutShape, Zenon
<1> QED BY <1>4 DEF s

\* Every recording function lays out its packet within these sizes.
LEMMA AllShapes ==
  ASSUME NEW l \in Layouts
  PROVE  Shape(l)
<1>m. MAX_STRING_LEN \in Nat /\ MAX_ARGUMENTS \in Nat /\ MAX_ARGUMENTS >= 5 /\ 32 \in Nat
  BY Sizes
<1>n. ASSUME NEW id \in 0 .. 31, NEW k \in 0 .. 1, NEW u \in 0 .. 4
      PROVE  Shape(Layout(id, k, u, <<>>))
  <2>1. k \in Nat /\ u \in Nat /\ k + 5 * u <= 50
    OBVIOUS
  <2>2. IsWord(id)
    BY KnownId
  <2> QED BY <2>1, <2>2, NoString
<1>e. ASSUME NEW id \in EventId, NEW u \in 0 .. 10 PROVE Shape(Layout(id, 0, u, <<>>))
  <2>1. 0 \in Nat /\ u \in Nat /\ 0 + 5 * u <= 50
    OBVIOUS
  <2>2. IsWord(id)
    BY KnownId
  <2> QED BY <2>1, <2>2, NoString, Zenon
<1>s. ASSUME NEW id \in 0 .. 31, NEW k \in 0 .. 2, NEW u \in 0 .. 6, NEW m \in Nat, k + 5 * u <= 31
      PROVE  Shape(Layout(id, k, u, <<m>>))
  <2>1. k \in Nat /\ u \in Nat
    OBVIOUS
  <2>2. IsWord(id)
    BY KnownId
  <2> QED BY <1>s, <2>1, <2>2, OneString
<1>1. CASE l \in RecordLayouts
  <2>1. PICK id \in EventId, n \in 0 .. 4 : l = Layout(id, 0, n, <<>>)
    BY <1>1 DEF RecordLayouts
  <2>2. n \in 0 .. 10
    OBVIOUS
  <2> QED BY <1>e, <2>1, <2>2, Zenon
<1>2. CASE l \in LongRecordLayouts
  <2>1. PICK id \in EventId, n \in 5 .. 10 : l = Layout(id, 0, n, <<>>)
    BY <1>2 DEF LongRecordLayouts
  <2>2. n \in 0 .. 10
    OBVIOUS
  <2> QED BY <1>e, <2>1, <2>2, Zenon
<1>3. CASE l \in TraceApiLayouts
  <2>1. PICK id \in EventId, n \in 0 .. 7 : l = Layout(id, 0, n, <<>>)
    BY <1>3 DEF TraceApiLayouts, ApiId
  <2>2. n \in 0 .. 10
    OBVIOUS
  <2> QED BY <1>e, <2>1, <2>2, Zenon
<1>4. CASE l \in TraceReturnLayouts
  <2>1. PICK n \in {1, 2} : l = Layout(28, 0, n, <<>>)
    BY <1>4, Zenon DEF TraceReturnLayouts
  <2>2. 28 \in 0 .. 31 /\ 0 \in 0 .. 1 /\ n \in 0 .. 4
    OBVIOUS
  <2> QED BY <1>n, <2>1, <2>2, Zenon
<1>5. CASE l \in StringLayouts
  <2>1. PICK id \in EventId : l = Layout(id, 0, 0, <<MAX_STRING_LEN>>)
    BY <1>5, Zenon DEF StringLayouts
  <2>2. IsWord(id)
    BY KnownId
  <2>3. 0 \in Nat /\ 0 + 5 * 0 <= 31
    OBVIOUS
  <2> QED BY <1>m, <2>1, <2>2, <2>3, OneString, Zenon
<1>6. CASE l \in SysDescLayouts
  <2>1. l = Layout(24, 1, 3, <<>>) \/ l = Layout(14, 0, 0, <<MAX_STRING_LEN>>)
    BY <1>6, Zenon DEF SysDescLayouts
  <2>2. 24 \in 0 .. 31 /\ 1 \in 0 .. 1 /\ 3 \in 0 .. 4
    OBVIOUS
  <2>3. 14 \in 0 .. 31 /\ 0 \in 0 .. 2 /\ 0 \in 0 .. 6 /\ 0 + 5 * 0 <= 31
    OBVIOUS
  <2> QED BY <1>m, <1>n, <1>s, <2>1, <2>2, <2>3, Zenon
<1>7. CASE l \in TaskInfoLayouts
  <2>1. l = Layout(9, 0, 2, <<32>>) \/ l = Layout(21, 0, 4, <<>>) \/ l = Layout(23, 0, 2, <<>>)
    BY <1>7, Zenon DEF TaskInfoLayouts
  <2>2. 21 \in 0 .. 31 /\ 23 \in 0 .. 31 /\ 0 \in 0 .. 1 /\ 4 \in 0 .. 4 /\ 2 \in 0 .. 4
    OBVIOUS
  <2>3. 9 \in 0 .. 31 /\ 0 \in 0 .. 2 /\ 2 \in 0 .. 6 /\ 0 + 5 * 2 <= 31
    OBVIOUS
  <2> QED BY <1>m, <1>n, <1>s, <2>1, <2>2, <2>3, Zenon
<1>8. CASE l \in IsrLayouts \cup TaskLayouts
  <2>1. \E id \in {2, 3, 18, 19, 20, 28, 17, 8, 29, 4, 5, 6, 7}, n \in {0, 1, 2} :
          l = Layout(id, 0, n, <<>>)
    BY <1>8, Zenon DEF IsrLayouts, TaskLayouts
  <2>2. \A id \in {2, 3, 18, 19, 20, 28, 17, 8, 29, 4, 5, 6, 7} : id \in 0 .. 31
    OBVIOUS
  <2>3. 0 \in 0 .. 1 /\ \A n \in {0, 1, 2} : n \in 0 .. 4
    OBVIOUS
  <2> QED BY <1>n, <2>1, <2>2, <2>3, Zenon
<1>9. CASE l \in MarkLayouts
  <2>1. \/ \E id \in {15, 16, 31}, k \in {0, 1} : l = Layout(id, k, 1, <<>>)
        \/ \E id \in {31, 25}, k \in {0, 1} : l = Layout(id, k, 1, <<MAX_STRING_LEN>>)
    BY <1>9, Zenon DEF MarkLayouts
  <2>2. (\A id \in {15, 16, 31} : id \in 0 .. 31) /\ 1 \in 0 .. 4 /\ (\A k \in {0, 1} : k \in 0 .. 1)
    OBVIOUS
  <2>3. /\ \A id \in {31, 25} : id \in 0 .. 31
        /\ 1 \in 0 .. 6 /\ \A k \in {0, 1} : k \in 0 .. 2 /\ k + 5 * 1 <= 31
    OBVIOUS
  <2>4. CASE \E id \in {15, 16, 31}, k \in {0, 1} : l = Layout(id, k, 1, <<>>)
    BY <1>n, <2>2, <2>4, Zenon
  <2>5. CASE \E id \in {31, 25}, k \in {0, 1} : l = Layout(id, k, 1, <<MAX_STRING_LEN>>)
    BY <1>m, <1>s, <2>3, <2>5, Zenon
  <2> QED BY <2>1, <2>4, <2>5, Zenon
<1>10. CASE l \in RegisterLayouts
  <2>1. \/ \E n \in 0 .. 5 : l = Layout(31, 1, 1 + n, <<MAX_STRING_LEN>>)
        \/ l = Layout(31, 1, 6, <<MAX_STRING_LEN, MAX_STRING_LEN>>)
    BY <1>10, Zenon DEF RegisterLayouts
  <2>2. 31 \in 0 .. 31 /\ 1 \in 0 .. 2 /\ \A n \in 0 .. 5 : 1 + n \in 0 .. 6 /\ 1 + 5 * (1 + n) <= 31
    OBVIOUS
  <2>3. CASE \E n \in 0 .. 5 : l = Layout(31, 1, 1 + n, <<MAX_STRING_LEN>>)
    BY <1>m, <1>s, <2>2, <2>3, Zenon
  <2> QED BY <2>1, <2>3, TwoStrings, Zenon
<1>11. CASE l \in HeapLayouts
  <2>1. PICK n \in {2, 3, 4} : l = Layout(31, 1, n, <<>>)
    BY <1>11, Zenon DEF HeapLayouts
  <2>2. 31 \in 0 .. 31 /\ 1 \in 0 .. 1 /\ n \in 0 .. 4
    OBVIOUS
  <2> QED BY <1>n, <2>1, <2>2, Zenon
<1>12. CASE l \in ModuleLayouts
  <2>1. l = Layout(22, 1, 1, <<MAX_STRING_LEN>>) \/ l = Layout(27, 1, 0, <<>>)
    BY <1>12, Zenon DEF ModuleLayouts
  <2>2. 27 \in 0 .. 31 /\ 1 \in 0 .. 1 /\ 0 \in 0 .. 4
    OBVIOUS
  <2>3. 22 \in 0 .. 31 /\ 1 \in 0 .. 2 /\ 1 \in 0 .. 6 /\ 1 + 5 * 1 <= 31
    OBVIOUS
  <2> QED BY <1>m, <1>n, <1>s, <2>1, <2>2, <2>3, Zenon
<1>13. CASE l \in HostPrintLayouts \cup PrintLayouts
  <2>1. PICK n \in 0 .. MAX_ARGUMENTS : l = Layout(26, 2, n, <<MAX_STRING_LEN>>)
    <3>1. 0 \in 0 .. MAX_ARGUMENTS
      BY <1>m
    <3> QED BY <1>13, <3>1, Zenon DEF HostPrintLayouts, PrintLayouts, VPrintHostLayout
  <2>2. 26 \in 0 .. 31 /\ 2 \in Nat /\ n \in Nat /\ 2 + 5 * n <= 5 * MAX_ARGUMENTS + 2
    BY <1>m
  <2>3. IsWord(26)
    BY <2>2, KnownId, Zenon
  <2> QED BY <1>m, <2>1, <2>2, <2>3, OneString, Zenon
<1> QED
  BY <1>1, <1>2, <1>3, <1>4, <1>5, <1>6, <1>7, <1>8, <1>9, <1>10, <1>11, <1>12, <1>13, Zenon
  DEF Layouts

\* Copies of a sequence.
LEMMA TimesType ==
  ASSUME NEW s \in Seq(Nat), Len(s) >= 1, NEW n \in Nat
  PROVE  Times(s, n) \in Seq(Nat) /\ Len(Times(s, n)) = n * Len(s)
<1> DEFINE m == Len(s)
           F(i) == s[((i - 1) % m) + 1]
           t == Times(s, n)
<1>1. m \in Nat /\ m >= 1 /\ \A i \in 1 .. m : s[i] \in Nat
  OBVIOUS
<1>2. t = [i \in 1 .. n * m |-> F(i)]
  BY Zenon DEF Times
<1> HIDE DEF m, t
<1>3. n * m \in Nat
  BY <1>1
<1>4. ASSUME NEW i \in 1 .. n * m PROVE F(i) \in Nat
  <2>1. i - 1 \in Nat
    BY <1>3
  <2> DEFINE j == i - 1
             r == j % m
  <2>2. r \in Nat /\ r < m
    <3>1. j \in Nat
      BY <2>1
    <3> HIDE DEF j
    <3> QED BY <1>1, <3>1, ModRest
  <2> HIDE DEF r
  <2>3. r + 1 \in 1 .. m
    BY <1>1, <2>2
  <2>4. s[r + 1] \in Nat
    BY <1>1, <2>3
  <2> QED BY <2>4 DEF r
<1> DEFINE k == n * m
<1>5. k \in Nat /\ t = [i \in 1 .. k |-> F(i)] /\ \A i \in 1 .. k : F(i) \in Nat
  BY <1>2, <1>3, <1>4
<1> HIDE DEF F, k
<1>6. t \in Seq(Nat) /\ Len(t) = k
  BY <1>5
<1> QED BY <1>6 DEF t, k, m

\* A string: its count byte and at most as many characters as it has, or as fit.
LEMMA StrType ==
  ASSUME NEW n \in Nat, NEW limit \in Nat
  PROVE  /\ EncodeStr(n, limit) \in Seq(Nat) /\ Len(EncodeStr(n, limit)) \in Nat
         /\ Len(EncodeStr(n, limit)) <= n + 1
         /\ Len(EncodeStr(n, limit)) <= MAX_STRING_LEN + 1
<1> DEFINE m == IF limit > MAX_STRING_LEN THEN MAX_STRING_LEN ELSE limit
           k == IF n < m THEN n ELSE m
           c == [i \in 1 .. k |-> Char]
<1>1. k \in Nat /\ k <= n /\ k <= MAX_STRING_LEN
  BY Sizes
<1>2. EncodeStr(n, limit) = <<k>> \o c
  BY Zenon DEF EncodeStr
<1> HIDE DEF k
<1>3. c \in Seq(Nat) /\ Len(c) = k
  <2>1. Char \in Nat
    BY DEF Char
  <2> QED BY <1>1, <2>1
<1> HIDE DEF c
<1>4. <<k>> \o c \in Seq(Nat) /\ Len(<<k>> \o c) = k + 1
  BY <1>1, <1>3
<1>5. k + 1 \in Nat /\ k + 1 <= n + 1 /\ k + 1 <= MAX_STRING_LEN + 1
  BY <1>1, Sizes
<1> QED BY <1>2, <1>4, <1>5, Zenon

\* A packet as the recording functions build it.
PacketOk(r) == Shape(r.layout) /\ IsWord(r.v) /\ r.n \in Nat /\ IsWord(r.delta)

\* How long the payload is, by the strings of the layout.
PayloadSize(r, n) ==
  \/ Len(r.layout.s) = 0 /\ n <= 50
  \/ /\ Len(r.layout.s) = 1
     /\ \/ n <= 5 * MAX_ARGUMENTS + 2 + MAX_STRING_LEN + 1
        \/ n <= 31 + MAX_STRING_LEN + 1
  \/ /\ Len(r.layout.s) = 2
     /\ n <= 31 + 2 * (MAX_STRING_LEN + 1) /\ n <= 31 + 2 * (r.n + 1)

\* Four lengths.
LEMMA FourLengths ==
  ASSUME NEW a \in Seq(Nat), NEW b \in Seq(Nat), NEW c \in Seq(Nat), NEW d \in Seq(Nat)
  PROVE  /\ ((a \o b) \o c) \o d \in Seq(Nat)
         /\ Len(((a \o b) \o c) \o d) = Len(a) + Len(b) + Len(c) + Len(d)
<1> DEFINE x == a \o b
           y == x \o c
           z == y \o d
<1>1. x \in Seq(Nat) /\ Len(x) = Len(a) + Len(b)
  BY TwoParts
<1> HIDE DEF x
<1>2. y \in Seq(Nat) /\ Len(y) = Len(x) + Len(c)
  BY <1>1, TwoParts
<1> HIDE DEF y
<1>3. z \in Seq(Nat) /\ Len(z) = Len(y) + Len(d)
  BY <1>2, TwoParts
<1> HIDE DEF z
<1>4. Len(z) = Len(a) + Len(b) + Len(c) + Len(d)
  BY <1>1, <1>2, <1>3
<1> QED BY <1>3, <1>4 DEF z, y, x

\* Sums of lengths.
LEMMA LengthSum ==
  ASSUME NEW p \in Nat, NEW k \in Nat, NEW u \in Nat, NEW n \in Nat, NEW x \in Nat, NEW y \in Nat,
         NEW o \in Nat, o = k, n <= 5 * u, p = o + n + x + y
  PROVE  p <= k + 5 * u + x + y
OBVIOUS

\* The payload of a packet.
LEMMA PayloadType ==
  ASSUME NEW r, PacketOk(r)
  PROVE  Payload(r) \in Seq(Nat) /\ Len(Payload(r)) \in Nat /\ PayloadSize(r, Len(Payload(r)))
<1> DEFINE k == r.layout.k
           u == r.layout.u
           s == r.layout.s
           e == EncodeU32[r.v]
           one == Times(<<1>>, k)
           num == Times(e, u)
           s1 == IF Len(s) > 0 THEN EncodeStr(r.n, s[1]) ELSE <<>>
           s2 == IF Len(s) > 1 THEN EncodeStr(r.n, s[2]) ELSE <<>>
           p == Payload(r)
<1>1. p = ((one \o num) \o s1) \o s2
  BY Zenon DEF Payload
<1>2. /\ r.v \in Nat /\ r.v \div Place[5] < 16 /\ r.n \in Nat
      /\ k \in Nat /\ u \in Nat /\ Sized(k, u, s)
  BY Zenon DEF PacketOk, Shape, IsWord
<1>3. e \in Seq(Nat) /\ Len(e) \in 1 .. 5
  <2>1. e \in Seq(Nat)
    BY <1>2, EncodeDef, Zenon
  <2>2. Len(e) \in 1 .. 5
    BY <1>2, EncodeLength, Zenon
  <2> QED BY <2>1, <2>2
<1> HIDE DEF e, k, u, s
<1>4. one \in Seq(Nat) /\ Len(one) = k
  <2> DEFINE q == <<1>>
  <2>1. q \in Seq(Nat) /\ Len(q) = 1
    OBVIOUS
  <2> HIDE DEF q
  <2>2. k \in Nat /\ Len(q) >= 1
    BY <1>2, <2>1
  <2>3. Times(q, k) \in Seq(Nat) /\ Len(Times(q, k)) = k * Len(q)
    BY <2>1, <2>2, TimesType, Zenon
  <2>4. k * Len(q) = k
    BY <2>1, <2>2
  <2> QED BY <2>3, <2>4, Zenon DEF q
<1>5. num \in Seq(Nat) /\ Len(num) \in Nat /\ Len(num) <= 5 * u
  <2> DEFINE x == Len(e)
  <2>1. x \in 1 .. 5
    BY <1>3
  <2>2. u \in Nat
    BY <1>2, Zenon
  <2> HIDE DEF x
  <2>3. x \in Nat /\ x >= 1 /\ x <= 5
    BY <2>1
  <2>4. num \in Seq(Nat) /\ Len(num) = u * x
    <3>1. Len(e) >= 1 /\ e \in Seq(Nat)
      BY <1>3, <2>3, Zenon DEF x
    <3> QED BY <2>2, <3>1, TimesType, Zenon DEF x
  <2>5. u * x <= 5 * u /\ u * x \in Nat
    <3>1. u * x <= u * 5
      BY <2>2, <2>3, MulMonoL
    <3> QED BY <2>2, <2>3, <3>1
  <2> QED BY <2>4, <2>5, Zenon
<1> HIDE DEF one, num
<1>6. MAX_STRING_LEN \in Nat /\ MAX_ARGUMENTS \in Nat
  BY Sizes
<1>7. ASSUME s1 \in Seq(Nat), s2 \in Seq(Nat)
      PROVE  /\ p \in Seq(Nat) /\ Len(p) \in Nat /\ Len(s1) \in Nat /\ Len(s2) \in Nat
             /\ Len(p) <= k + 5 * u + Len(s1) + Len(s2)
  <2> HIDE DEF s1, s2, p
  <2>1. p \in Seq(Nat) /\ Len(p) = Len(one) + Len(num) + Len(s1) + Len(s2)
    <3> DEFINE x == ((one \o num) \o s1) \o s2
    <3>1. one \in Seq(Nat) /\ num \in Seq(Nat)
      BY <1>4, <1>5, Zenon
    <3>2. x \in Seq(Nat) /\ Len(x) = Len(one) + Len(num) + Len(s1) + Len(s2)
      BY <1>7, <3>1, FourLengths
    <3> QED BY <1>1, <3>2, Zenon
  <2>2. Len(s1) \in Nat /\ Len(s2) \in Nat /\ Len(p) \in Nat /\ Len(one) \in Nat
    BY <1>4, <1>7, <2>1
  <2>3. k \in Nat /\ u \in Nat
    BY <1>2, Zenon
  <2>4. Len(p) <= k + 5 * u + Len(s1) + Len(s2)
    BY <1>4, <1>5, <2>1, <2>2, <2>3, LengthSum, Zenon
  <2> QED BY <2>1, <2>2, <2>4, Zenon
<1>8. CASE s = <<>> /\ k + 5 * u <= 50
  <2>1. Len(s) = 0
    BY <1>8
  <2>2. s1 = <<>> /\ s2 = <<>>
    BY <2>1
  <2> HIDE DEF s1, s2, p
  <2>3. s1 \in Seq(Nat) /\ s2 \in Seq(Nat) /\ Len(s1) = 0 /\ Len(s2) = 0
    BY <2>2
  <2>4. p \in Seq(Nat) /\ Len(p) \in Nat /\ Len(p) <= k + 5 * u + 0 + 0
    BY <1>7, <2>3
  <2>5. Len(p) <= 50
    BY <1>2, <1>8, <2>4
  <2> QED BY <2>1, <2>4, <2>5 DEF PayloadSize, p, s
<1>9. CASE /\ \E m \in Nat : s = <<m>>
           /\ k + 5 * u <= 5 * MAX_ARGUMENTS + 2 \/ k + 5 * u <= 31
  <2>1. PICK m \in Nat : s = <<m>>
    BY <1>9
  <2>2. Len(s) = 1 /\ s[1] = m
    BY <2>1
  <2>3. s1 = EncodeStr(r.n, m) /\ s2 = <<>>
    BY <2>2
  <2>4. s1 \in Seq(Nat) /\ Len(s1) \in Nat /\ Len(s1) <= MAX_STRING_LEN + 1
    <3> HIDE DEF s1
    <3> QED BY <1>2, <2>3, StrType
  <2> HIDE DEF s1, s2, p
  <2>5. s2 \in Seq(Nat) /\ Len(s2) = 0
    BY <2>3
  <2>6. p \in Seq(Nat) /\ Len(p) \in Nat /\ Len(p) <= k + 5 * u + Len(s1) + Len(s2)
    BY <1>7, <2>4, <2>5
  <2> DEFINE x == Len(p)
             y == Len(s1)
             w == k + 5 * u
             t == 5 * MAX_ARGUMENTS
  <2>7. /\ x \in Nat /\ y \in Nat /\ w \in Nat /\ t \in Nat
        /\ x <= w + y + 0 /\ y <= MAX_STRING_LEN + 1
    <3>1. w \in Nat /\ t \in Nat
      BY <1>2, <1>6
    <3> QED BY <2>4, <2>5, <2>6, <3>1
  <2>8. w <= t + 2 \/ w <= 31
    BY <1>9, Zenon
  <2> HIDE DEF x, y, w, t
  <2>9. CASE w <= t + 2
    <3>1. x <= t + 2 + MAX_STRING_LEN + 1
      BY <1>6, <2>7, <2>9
    <3> QED BY <2>2, <2>6, <3>1, Zenon DEF PayloadSize, p, s, x, t
  <2>10. CASE w <= 31
    <3>1. x <= 31 + MAX_STRING_LEN + 1
      BY <1>6, <2>7, <2>10
    <3> QED BY <2>2, <2>6, <3>1, Zenon DEF PayloadSize, p, s, x
  <2> QED BY <2>8, <2>9, <2>10
<1>10. CASE s = <<MAX_STRING_LEN, MAX_STRING_LEN>> /\ k = 1 /\ u = 6
  <2>1. Len(s) = 2 /\ s[1] = MAX_STRING_LEN /\ s[2] = MAX_STRING_LEN
    BY <1>10
  <2>2. s1 = EncodeStr(r.n, MAX_STRING_LEN) /\ s2 = EncodeStr(r.n, MAX_STRING_LEN)
    BY <2>1
  <2> HIDE DEF s1, s2, p
  <2>3. /\ s1 \in Seq(Nat) /\ Len(s1) \in Nat
        /\ Len(s1) <= r.n + 1 /\ Len(s1) <= MAX_STRING_LEN + 1 /\ s2 = s1
    BY <1>2, <1>6, <2>2, StrType
  <2>4. p \in Seq(Nat) /\ Len(p) \in Nat /\ Len(p) <= k + 5 * u + Len(s1) + Len(s1)
    <3>1. s2 \in Seq(Nat) /\ Len(s2) = Len(s1)
      BY <2>3
    <3> QED BY <1>7, <2>3, <3>1
  <2>5. Len(p) <= 31 + 2 * (MAX_STRING_LEN + 1) /\ Len(p) <= 31 + 2 * (r.n + 1)
    BY <1>2, <1>6, <1>10, <2>3, <2>4
  <2> QED BY <2>1, <2>4, <2>5 DEF PayloadSize, p, s
<1> QED BY <1>2, <1>8, <1>9, <1>10 DEF Sized

\* The packet in _aPacket is one of a recording function, or has no fields.
PacketInv == PacketOk(rec)

\* The values of the fields are words.
LEMMA ValueType ==
  ASSUME NEW v \in Value
  PROVE  IsWord(v)
<1>1. Value \subseteq Nat
  BY EncodingAssumption, Zenon
<1>2. v \div Place[5] < 16
  BY EncodingAssumption, Zenon
<1> QED BY <1>1, <1>2, Zenon DEF IsWord

\* Before the first event.
LEMMA PacketStart == FormatsInit => PacketInv
<1> SUFFICES ASSUME FormatsInit PROVE PacketInv
  OBVIOUS
<1>1. rec = [layout |-> Layout(0, 0, 0, <<>>), v |-> 0, n |-> 0, delta |-> 0]
  BY DEF FormatsInit, EncodeInit
<1>2. 0 \in 0 .. 31 /\ 0 \in Nat /\ 0 + 5 * 0 <= 50
  OBVIOUS
<1>3. IsWord(0)
  BY <1>2, KnownId, Zenon
<1>4. Shape(Layout(0, 0, 0, <<>>))
  BY <1>2, <1>3, NoString, Zenon
<1>5. rec.layout = Layout(0, 0, 0, <<>>) /\ rec.v = 0 /\ rec.n = 0 /\ rec.delta = 0
  BY <1>1
<1> QED BY <1>2, <1>3, <1>4, <1>5, Zenon DEF PacketInv, PacketOk

\* One event, or none.
LEMMA PacketStep ==
  ASSUME PacketInv, [FormatsNext]_<<printVars, rec>>
  PROVE  PacketInv'
<1>1. rec' = rec \/ \E r \in PacketRecord : rec' = r
  BY Zenon DEF FormatsNext, RecordEvent
<1>2. CASE rec' = rec
  BY <1>2, Zenon DEF PacketInv
<1>3. ASSUME NEW r \in PacketRecord PROVE PacketOk(r)
  <2>1. r.layout \in Layouts /\ r.v \in Value /\ r.n \in Length /\ r.delta \in Value
    BY DEF PacketRecord
  <2>2. Shape(r.layout)
    BY <2>1, AllShapes
  <2>3. IsWord(r.v) /\ IsWord(r.delta)
    BY <2>1, ValueType
  <2>4. Length \subseteq Nat
    BY EncodingAssumption, Zenon
  <2> QED BY <2>1, <2>2, <2>3, <2>4, Zenon DEF PacketOk
<1>4. CASE \E r \in PacketRecord : rec' = r
  BY <1>3, <1>4, Zenon DEF PacketInv
<1> QED BY <1>1, <1>2, <1>4

\* PacketInv always holds.
LEMMA PacketInvAlways == FormatsSpec => []PacketInv
BY PacketStart, PacketStep, PTL DEF FormatsSpec

\* What it says of the size.
LEMMA PacketInvFits == PacketInv => PacketFits
<1> SUFFICES ASSUME PacketOk(rec),
                    ~(Len(rec.layout.s) = 2)
                      \/ 2 * rec.n <= MAX_PACKET_SIZE - HEADER - 7 * QUANTA_U32 - 3
             PROVE  HEADER + Len(Payload(rec)) + Len(EncodeU32[rec.delta]) <= MAX_PACKET_SIZE
  BY DEF PacketInv, PacketFits
<1> DEFINE n == Len(Payload(rec))
           d == Len(EncodeU32[rec.delta])
<1>1. n \in Nat /\ PayloadSize(rec, n)
  BY PayloadType
<1>2. d \in 1 .. 5
  <2>1. rec.delta \in Nat /\ rec.delta \div Place[5] < 16
    BY Zenon DEF PacketOk, IsWord
  <2> QED BY <2>1, EncodeLength, Zenon
<1>3. rec.n \in Nat
  BY DEF PacketOk
<1>4. /\ MAX_PACKET_SIZE = 9 + MAX_STRING_LEN + 2 * 5 + MAX_ARGUMENTS * 5
      /\ HEADER = 7 /\ QUANTA_U32 = 5
  BY DEF MAX_PACKET_SIZE, HEADER, QUANTA_U32, INFO_SIZE
<1>5. /\ MAX_STRING_LEN \in Nat /\ MAX_ARGUMENTS \in Nat /\ MAX_ARGUMENTS >= 5
      /\ MAX_STRING_LEN + 5 * MAX_ARGUMENTS >= 43
  BY Sizes
<1> HIDE DEF n, d
<1>6. n <= MAX_STRING_LEN + 5 * MAX_ARGUMENTS + 7
  <2>1. CASE Len(rec.layout.s) = 0 /\ n <= 50
    BY <1>1, <1>5, <2>1
  <2>2. CASE \/ n <= 5 * MAX_ARGUMENTS + 2 + MAX_STRING_LEN + 1
             \/ n <= 31 + MAX_STRING_LEN + 1
    BY <1>1, <1>5, <2>2
  <2>3. CASE Len(rec.layout.s) = 2 /\ n <= 31 + 2 * (rec.n + 1)
    BY <1>1, <1>3, <1>4, <1>5, <2>3
  <2> QED BY <1>1, <2>1, <2>2, <2>3 DEF PayloadSize
<1>7. 7 + n + d <= 9 + MAX_STRING_LEN + 2 * 5 + MAX_ARGUMENTS * 5
  BY <1>1, <1>2, <1>5, <1>6
<1> QED BY <1>4, <1>7 DEF n, d

\* What it says of the host.
LEMMA PacketInvInStep == PacketInv => HostInStep
<1> SUFFICES ASSUME PacketOk(rec), rec.layout.id >= 24
             PROVE  LET b   == PacketBytes(rec)
                        atN == NumberEnd(b, 1) + 1
                        atD == NumberEnd(b, atN) + 1 + NumberValue(b, atN)
                    IN /\ NumberValue(b, 1) = rec.layout.id
                       /\ NumberValue(b, atN) = Len(Payload(rec))
                       /\ NumberValue(b, atD) = rec.delta
                       /\ NumberEnd(b, atD) = Len(b)
  BY DEF PacketInv, HostInStep
<1> DEFINE id == rec.layout.id
           p == Payload(rec)
           n == Len(p)
           a == IdBytes(id)
           l == LengthBytes(n)
           d == EncodeU32[rec.delta]
           b == PacketBytes(rec)
<1>1. p \in Seq(Nat) /\ n \in Nat /\ PayloadSize(rec, n)
  BY PayloadType
<1>2. n < Place[3]
  <2>1. /\ MAX_STRING_LEN \in Nat /\ MAX_ARGUMENTS \in Nat
        /\ MAX_STRING_LEN < 255 /\ MAX_STRING_LEN + 5 * MAX_ARGUMENTS + 3 < Place[3]
    BY Sizes
  <2> HIDE DEF n
  <2>2. CASE n <= 50
    BY SMT, <1>1, <2>2, PlaceIs
  <2>3. CASE n <= 5 * MAX_ARGUMENTS + 2 + MAX_STRING_LEN + 1
    BY SMT, <1>1, <2>1, <2>3, PlaceIs
  <2>4. CASE n <= 31 + MAX_STRING_LEN + 1
    BY SMT, <1>1, <2>1, <2>4, PlaceIs
  <2>5. CASE n <= 31 + 2 * (MAX_STRING_LEN + 1)
    BY SMT, <1>1, <2>1, <2>5, PlaceIs
  <2> QED BY <1>1, <2>2, <2>3, <2>4, <2>5, Zenon DEF PayloadSize
<1>3. Codes(a, id) /\ id \in Nat
  <2>1. id \in Nat /\ id \div Place[5] < 16
    BY Zenon DEF PacketOk, Shape, IsWord
  <2> QED BY <2>1, IdCodes, Zenon
<1>4. Codes(l, n)
  BY <1>1, <1>2, LengthCodes, Zenon
<1>5. Codes(d, rec.delta)
  <2>1. rec.delta \in Nat
    BY Zenon DEF PacketOk, IsWord
  <2> QED BY <2>1, EncodeCodes, Zenon
<1>6. b = ((a \o l) \o p) \o d
  <2>1. ~(id < 24)
    BY <1>3
  <2>2. PacketHeader(id, n) = a \o l
    BY <2>1, Zenon DEF PacketHeader
  <2>3. b = (PacketHeader(id, n) \o p) \o d
    BY Zenon DEF PacketBytes
  <2> QED BY <2>2, <2>3, Zenon
<1> HIDE DEF p, a, l, d, b, id
<1>7. /\ a \in Seq(Nat) /\ Len(a) \in Nat /\ Len(a) >= 1
      /\ l \in Seq(Nat) /\ Len(l) \in Nat /\ Len(l) >= 1
      /\ d \in Seq(Nat) /\ Len(d) \in Nat /\ Len(d) >= 1
  BY <1>3, <1>4, <1>5 DEF Codes
<1> DEFINE i == Len(a) + 1
           j == Len(a) + Len(l) + n + 1
<1>8. /\ Len(b) = Len(a) + Len(l) + n + Len(d)
      /\ At(b, 1, a) /\ At(b, i, l) /\ At(b, j, d)
  <2> DEFINE x == ((a \o l) \o p) \o d
  <2>1. /\ Len(x) = Len(a) + Len(l) + Len(p) + Len(d)
        /\ At(x, 1, a) /\ At(x, Len(a) + 1, l) /\ At(x, Len(a) + Len(l) + Len(p) + 1, d)
    BY <1>1, <1>7, FourParts
  <2> HIDE DEF x
  <2>2. b = x
    BY <1>6 DEF x
  <2> QED BY <2>1, <2>2, Zenon
<1> HIDE DEF n
<1>9. NumberEnd(b, 1) + 1 = i /\ NumberValue(b, 1) = id
  <2> DEFINE one == 1
  <2>1. At(b, one, a)
    BY <1>8
  <2> HIDE DEF one
  <2>2. NumberEnd(b, one) = one + Len(a) - 1 /\ NumberValue(b, one) = id
    BY <1>3, <2>1, EndFound, ValueFound
  <2>3. one + Len(a) - 1 + 1 = i
    BY <1>7 DEF one
  <2> QED BY <2>2, <2>3 DEF one
<1> HIDE DEF i
<1>10. NumberEnd(b, i) = i + Len(l) - 1 /\ NumberValue(b, i) = n
  BY <1>4, <1>8, EndFound, ValueFound
<1>11. NumberEnd(b, i) + 1 + NumberValue(b, i) = j
  BY <1>1, <1>7, <1>10 DEF i
<1> HIDE DEF j
<1>12. NumberEnd(b, j) = j + Len(d) - 1 /\ NumberValue(b, j) = rec.delta
  BY <1>5, <1>8, EndFound, ValueFound
<1>13. j + Len(d) - 1 = Len(b)
  BY <1>1, <1>7, <1>8 DEF j
<1>14. NumberEnd(b, j) = Len(b)
  BY <1>12, <1>13, Zenon
<1> QED
  BY <1>9, <1>10, <1>11, <1>12, <1>14, Zenon DEF n, p, b, id

(***************************************************************************)
(* Every packet fits into _aPacket with the bytes reserved in front,       *)
(* whatever the values, the strings and the sizes that SEGGER_SYSVIEW.h    *)
(* may be configured with, except for the layout with two strings.         *)
(***************************************************************************)
THEOREM PacketsFit == FormatsSpec => []PacketFits
BY PacketInvAlways, PacketInvFits, PTL

(***************************************************************************)
(* A host that is told the length of a packet finds its end and reads the  *)
(* id and the time delta that were recorded, for every id and delta of 32  *)
(* bits and every payload that the recording functions build.              *)
(***************************************************************************)
THEOREM HostStaysInStep == FormatsSpec => []HostInStep
BY PacketInvAlways, PacketInvInStep, PTL

=============================================================================
