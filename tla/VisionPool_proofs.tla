--------------------------- MODULE VisionPool_proofs ---------------------------
(***************************************************************************)
(* Proofs about VisionPool, for any tasks, any number of workers, any      *)
(* queue limit and any number of crashes.  The queues and the slots        *)
(* together hold a set of tasks; every handler is a change of that set,    *)
(* and pump() is a lemma of its own: it moves a task and changes nothing   *)
(* of the set.                                                             *)
(***************************************************************************)
EXTENDS VisionPool, TLAPS

(* A queue of one priority: distinct tasks of that priority.               *)
QueueOK(q, p) ==
    /\ q \in Seq(Tasks)
    /\ \A i \in DOMAIN q : Priority(q[i]) = p
    /\ \A i, j \in DOMAIN q : q[i] = q[j] => i = j

QueuesOK(q) ==
    /\ q = [p \in Priorities |-> q[p]]
    /\ \A p \in Priorities : QueueOK(q[p], p)

SlotType == [worker : {"none", "starting", "ready", "stopped"}, task : Tasks \cup {NoTask}]

(* The slots: only a ready worker has a task, and no two have the same.    *)
SlotsOK(sl) ==
    /\ sl \in [Slots -> SlotType]
    /\ \A s \in Slots : sl[s].task # NoTask => sl[s].worker = "ready"
    /\ \A s, x \in Slots : sl[s].task = sl[x].task /\ sl[s].task # NoTask => s = x

RunningTasks(sl) == {sl[s].task : s \in Slots} \ {NoTask}
Held(q, sl) == Queued(q) \cup RunningTasks(sl)

-----------------------------------------------------------------------------
(***************************************************************************)
(* Queues.                                                                 *)
(***************************************************************************)

(* push adds the task at the end.                                          *)
LEMMA AppendQueue ==
    ASSUME NEW p \in Priorities, NEW q, QueueOK(q, p),
           NEW t \in Tasks, Priority(t) = p, t \notin In(q)
    PROVE  QueueOK(Append(q, t), p) /\ In(Append(q, t)) = In(q) \cup {t}
<1>1. q \in Seq(Tasks) /\ Append(q, t) \in Seq(Tasks) BY DEF QueueOK
<1>2. /\ Len(Append(q, t)) = Len(q) + 1 /\ Len(q) \in Nat
      /\ DOMAIN q = 1..Len(q) /\ DOMAIN Append(q, t) = 1..(Len(q) + 1)
  BY <1>1
<1>3. \A i \in DOMAIN Append(q, t) : Append(q, t)[i] = IF i <= Len(q) THEN q[i] ELSE t
  BY <1>1, <1>2
<1>4. In(Append(q, t)) = In(q) \cup {t}
  <2>1. Append(q, t)[Len(q) + 1] = t /\ Len(q) + 1 \in DOMAIN Append(q, t) BY <1>2, <1>3
  <2>2. ASSUME NEW i \in DOMAIN q PROVE i \in DOMAIN Append(q, t) /\ Append(q, t)[i] = q[i]
    BY <1>2, <1>3
  <2>3. ASSUME NEW i \in DOMAIN Append(q, t) PROVE Append(q, t)[i] \in In(q) \cup {t}
    BY <1>2, <1>3 DEF In
  <2> QED BY <2>1, <2>2, <2>3 DEF In
<1>5. \A i \in DOMAIN q : q[i] # t BY DEF In
<1>6. \A i, j \in DOMAIN Append(q, t) : Append(q, t)[i] = Append(q, t)[j] => i = j
  BY <1>2, <1>3, <1>5 DEF QueueOK
<1>7. \A i \in DOMAIN Append(q, t) : Priority(Append(q, t)[i]) = p
  BY <1>2, <1>3 DEF QueueOK
<1> QED BY <1>1, <1>4, <1>6, <1>7 DEF QueueOK

(* shift takes the first task off.                                         *)
LEMMA TailQueue ==
    ASSUME NEW p \in Priorities, NEW q, QueueOK(q, p), q # <<>>
    PROVE  /\ QueueOK(Tail(q), p) /\ In(Tail(q)) = In(q) \ {Head(q)}
           /\ Head(q) \in In(q) /\ Head(q) \in Tasks /\ Tail(q) # q
<1>1. q \in Seq(Tasks) /\ Tail(q) \in Seq(Tasks) BY DEF QueueOK
<1>2. /\ Len(q) \in Nat /\ Len(q) >= 1 /\ Len(Tail(q)) = Len(q) - 1
      /\ DOMAIN q = 1..Len(q) /\ DOMAIN Tail(q) = 1..(Len(q) - 1)
  BY <1>1
<1>3. \A i \in DOMAIN Tail(q) : Tail(q)[i] = q[i + 1] /\ i + 1 \in DOMAIN q BY <1>1, <1>2
<1>4. Head(q) = q[1] /\ 1 \in DOMAIN q /\ Head(q) \in Tasks BY <1>1, <1>2
<1>5. \A i, j \in DOMAIN Tail(q) : Tail(q)[i] = Tail(q)[j] => i = j
  BY <1>2, <1>3 DEF QueueOK
<1>6. \A i \in DOMAIN Tail(q) : Priority(Tail(q)[i]) = p BY <1>3 DEF QueueOK
<1>7. In(Tail(q)) = In(q) \ {Head(q)}
  <2>1. ASSUME NEW i \in DOMAIN Tail(q) PROVE Tail(q)[i] \in In(q) \ {Head(q)}
    BY <1>2, <1>3, <1>4 DEF In, QueueOK
  <2>2. ASSUME NEW i \in DOMAIN q, q[i] # Head(q) PROVE i - 1 \in DOMAIN Tail(q) /\ Tail(q)[i - 1] = q[i]
    BY <1>2, <1>3, <1>4, <2>2
  <2> QED BY <2>1, <2>2 DEF In
<1>8. Tail(q) # q
  <2>1. Len(q) \in DOMAIN q /\ Len(q) \notin DOMAIN Tail(q) BY <1>2
  <2> QED BY <2>1
<1> QED BY <1>1, <1>4, <1>5, <1>6, <1>7, <1>8 DEF QueueOK, In

(* splice takes the task at i out.                                         *)
LEMMA SpliceQueue ==
    ASSUME NEW p \in Priorities, NEW q, QueueOK(q, p), NEW i \in DOMAIN q
    PROVE  QueueOK(Spliced(q, i), p) /\ In(Spliced(q, i)) = In(q) \ {q[i]}
<1> DEFINE r == Spliced(q, i)
<1>1. q \in Seq(Tasks) /\ Len(q) \in Nat /\ DOMAIN q = 1..Len(q) /\ i \in 1..Len(q) BY DEF QueueOK
<1>2. DOMAIN r = 1..(Len(q) - 1) /\ \A n \in DOMAIN r : r[n] = IF n < i THEN q[n] ELSE q[n + 1]
  BY <1>1 DEF Spliced
<1>3. \A n \in DOMAIN r : n \in DOMAIN q /\ n + 1 \in DOMAIN q BY <1>1, <1>2
<1>4. r \in Seq(Tasks)
  <2>1. Len(q) - 1 \in Nat BY <1>1
  <2>2. \A n \in DOMAIN q : q[n] \in Tasks BY <1>1
  <2>3. \A n \in 1..(Len(q) - 1) : (IF n < i THEN q[n] ELSE q[n + 1]) \in Tasks BY <1>2, <1>3, <2>2
  <2> QED BY <2>1, <2>3 DEF Spliced
<1>5. \A n, m \in DOMAIN r : r[n] = r[m] => n = m
  <2> SUFFICES ASSUME NEW n \in DOMAIN r, NEW m \in DOMAIN r, r[n] = r[m] PROVE n = m OBVIOUS
  <2> DEFINE at(k) == IF k < i THEN k ELSE k + 1
  <2>1. at(n) \in DOMAIN q /\ at(m) \in DOMAIN q /\ r[n] = q[at(n)] /\ r[m] = q[at(m)] BY <1>2, <1>3
  <2>2. at(n) = at(m) BY <2>1 DEF QueueOK
  <2>3. n \in Int /\ m \in Int /\ i \in Int BY <1>1, <1>2
  <2> QED BY <2>2, <2>3
<1>6. \A n \in DOMAIN r : Priority(r[n]) = p BY <1>2, <1>3 DEF QueueOK
<1>7. In(r) = In(q) \ {q[i]}
  <2>1. ASSUME NEW n \in DOMAIN r PROVE r[n] \in In(q) \ {q[i]}
    <3> DEFINE k == IF n < i THEN n ELSE n + 1
    <3>1. k \in DOMAIN q /\ r[n] = q[k] /\ k # i BY <1>1, <1>2, <1>3
    <3> QED BY <3>1 DEF In, QueueOK
  <2>2. ASSUME NEW n \in DOMAIN q, q[n] # q[i] PROVE q[n] \in In(r)
    <3>1. n # i BY <2>2
    <3>2. CASE n < i BY <1>1, <1>2, <3>2 DEF In
    <3>3. CASE n > i
      <4>1. n - 1 \in DOMAIN r /\ r[n - 1] = q[n] BY <1>1, <1>2, <3>3
      <4> QED BY <4>1 DEF In
    <3> QED BY <1>1, <3>1, <3>2, <3>3
  <2> QED BY <2>1, <2>2 DEF In
<1> QED BY <1>4, <1>5, <1>6, <1>7 DEF QueueOK

-----------------------------------------------------------------------------
(***************************************************************************)
(* Both queues and the slots.                                              *)
(***************************************************************************)

(* A queue that is not empty has a task in it.                             *)
LEMMA QueuedEmpty ==
    ASSUME NEW q, QueuesOK(q)
    PROVE  Queued(q) = {} <=> q["interactive"] = <<>> /\ q["background"] = <<>>
<1>1. ASSUME NEW p \in Priorities PROVE In(q[p]) = {} <=> q[p] = <<>>
  <2>1. q[p] \in Seq(Tasks) BY DEF QueuesOK, QueueOK
  <2>2. q[p] # <<>> => 1 \in DOMAIN q[p] BY <2>1
  <2>3. q[p] = <<>> => DOMAIN q[p] = {} BY <2>1
  <2> QED BY <2>2, <2>3 DEF In
<1> QED BY <1>1 DEF Queued, Priorities

(* Replacing one queue by one with the same kind of tasks.                 *)
LEMMA ReplaceQueue ==
    ASSUME NEW q, QueuesOK(q), NEW p \in Priorities, NEW r, QueueOK(r, p)
    PROVE  /\ QueuesOK([q EXCEPT ![p] = r])
           /\ [q EXCEPT ![p] = r][p] = r
           /\ \A o \in Priorities : o # p => [q EXCEPT ![p] = r][o] = q[o]
<1>1. DOMAIN q = Priorities BY DEF QueuesOK
<1>2. \A o \in Priorities : [q EXCEPT ![p] = r][o] = IF o = p THEN r ELSE q[o] BY <1>1
<1>3. [q EXCEPT ![p] = r] = [o \in Priorities |-> [q EXCEPT ![p] = r][o]] BY <1>1
<1> QED BY <1>2, <1>3 DEF QueuesOK

(* The two queues have no task in common.                                  *)
LEMMA QueuesApart ==
    ASSUME NEW q, QueuesOK(q)
    PROVE  In(q["interactive"]) \cap In(q["background"]) = {}
<1>1. \A t \in In(q["interactive"]) : Priority(t) = "interactive" BY DEF QueuesOK, QueueOK, In, Priorities
<1>2. \A t \in In(q["background"]) : Priority(t) = "background" BY DEF QueuesOK, QueueOK, In, Priorities
<1> QED BY <1>1, <1>2

(* Taking the head off one queue takes that task out of the queues.        *)
LEMMA TakeHead ==
    ASSUME NEW q, QueuesOK(q), NEW p \in Priorities, q[p] # <<>>
    PROVE  /\ QueuesOK([q EXCEPT ![p] = Tail(q[p])])
           /\ Queued([q EXCEPT ![p] = Tail(q[p])]) = Queued(q) \ {Head(q[p])}
           /\ Head(q[p]) \in Queued(q) /\ Head(q[p]) \in Tasks
           /\ [q EXCEPT ![p] = Tail(q[p])][p] # q[p]
           /\ \A o \in Priorities : o # p => [q EXCEPT ![p] = Tail(q[p])][o] = q[o]
<1> DEFINE tl == Tail(q[p])
           r == [q EXCEPT ![p] = tl]
<1>1. QueueOK(q[p], p) BY DEF QueuesOK
<1>2. /\ QueueOK(tl, p) /\ In(tl) = In(q[p]) \ {Head(q[p])}
      /\ Head(q[p]) \in In(q[p]) /\ Head(q[p]) \in Tasks /\ tl # q[p]
  BY <1>1, TailQueue
<1> HIDE DEF tl
<1>3. QueuesOK(r) /\ r[p] = tl /\ \A o \in Priorities : o # p => r[o] = q[o]
  BY <1>2, ReplaceQueue
<1>4. In(q["interactive"]) \cap In(q["background"]) = {} BY QueuesApart
<1> HIDE DEF r
<1>5. Queued(r) = Queued(q) \ {Head(q[p])} /\ Head(q[p]) \in Queued(q)
  <2>1. CASE p = "interactive" BY <1>2, <1>3, <1>4, <2>1 DEF Queued, Priorities
  <2>2. CASE p = "background" BY <1>2, <1>3, <1>4, <2>2 DEF Queued, Priorities
  <2> QED BY <2>1, <2>2 DEF Priorities
<1> QED BY <1>2, <1>3, <1>5 DEF r, tl

(* Giving a free worker a task.                                            *)
LEMMA GiveTask ==
    ASSUME NEW sl, SlotsOK(sl), NEW s \in Free(sl), NEW t \in Tasks, t \notin RunningTasks(sl)
    PROVE  /\ SlotsOK([sl EXCEPT ![s].task = t])
           /\ RunningTasks([sl EXCEPT ![s].task = t]) = RunningTasks(sl) \cup {t}
           /\ Free([sl EXCEPT ![s].task = t]) = Free(sl) \ {s}
<1> DEFINE r == [sl EXCEPT ![s].task = t]
<1>1. s \in Slots /\ sl[s].worker = "ready" /\ sl[s].task = NoTask BY DEF Free
<1>2. NoTask \notin Tasks BY PoolAssumption DEF NoTask, Tasks
<1>3. [sl[s] EXCEPT !.task = t] \in SlotType BY <1>1 DEF SlotsOK, SlotType
<1>4. /\ r \in [Slots -> SlotType]
      /\ \A x \in Slots : r[x] = IF x = s THEN [sl[s] EXCEPT !.task = t] ELSE sl[x]
  BY <1>1, <1>3 DEF SlotsOK
<1>5. /\ r[s].task = t /\ r[s].worker = "ready"
      /\ \A x \in Slots : x # s => r[x] = sl[x]
  BY <1>1, <1>4 DEF SlotsOK, SlotType
<1> HIDE DEF r
<1>6. \A x \in Slots : sl[x].task # t BY <1>2 DEF RunningTasks
<1>7. SlotsOK(r) BY <1>1, <1>4, <1>5, <1>6 DEF SlotsOK
<1>8. RunningTasks(r) = RunningTasks(sl) \cup {t}
  <2>1. \A x \in Slots : r[x].task \in RunningTasks(sl) \cup {t, NoTask} BY <1>5 DEF RunningTasks
  <2>2. \A x \in Slots : sl[x].task # NoTask => r[x].task = sl[x].task BY <1>1, <1>5
  <2>3. t \in RunningTasks(r) BY <1>1, <1>2, <1>5 DEF RunningTasks
  <2> QED BY <1>2, <2>1, <2>2, <2>3 DEF RunningTasks
<1>9. Free(r) = Free(sl) \ {s} BY <1>1, <1>2, <1>5 DEF Free
<1> QED BY <1>7, <1>8, <1>9 DEF r

Apart(q, sl) == Queued(q) \cap RunningTasks(sl) = {}
NoIdle(q, sl) == Queued(q) # {} => Free(sl) = {}

(* nextTask takes the head of one queue off, and Taken names it.           *)
LEMMA NextTaskTakes ==
    ASSUME NEW q, QueuesOK(q), Queued(q) # {}, nextTask(q)
    PROVE  /\ QueuesOK(queues')
           /\ Taken(q) \in Queued(q) /\ Taken(q) \in Tasks
           /\ Queued(queues') = Queued(q) \ {Taken(q)}
<1>1. \E p \in Priorities :
        /\ q[p] # <<>>
        /\ queues' = [q EXCEPT ![p] = Tail(q[p])]
        /\ p = "background" => queues'["interactive"] = q["interactive"]
  <2>1. CASE q["interactive"] # <<>> /\ ~(OverdueIn(q) /\ ~last)
    <3>1. queues' = [q EXCEPT !["interactive"] = Tail(q["interactive"])] BY <2>1 DEF nextTask
    <3> QED BY <2>1, <3>1 DEF Priorities
  <2>2. CASE ~(q["interactive"] # <<>> /\ ~(OverdueIn(q) /\ ~last))
    <3>1. queues' = [q EXCEPT !["background"] = Tail(q["background"])] BY <2>2 DEF nextTask
    <3>2. q["background"] # <<>> BY <2>2, QueuedEmpty DEF OverdueIn
    <3>3. DOMAIN q = Priorities BY DEF QueuesOK
    <3>4. queues'["interactive"] = q["interactive"] BY <3>1, <3>3 DEF Priorities
    <3> QED BY <3>1, <3>2, <3>4 DEF Priorities
  <2> QED BY <2>1, <2>2
<1>2. PICK p \in Priorities :
        /\ q[p] # <<>>
        /\ queues' = [q EXCEPT ![p] = Tail(q[p])]
        /\ p = "background" => queues'["interactive"] = q["interactive"]
  BY <1>1
<1>3. /\ QueuesOK(queues') /\ Queued(queues') = Queued(q) \ {Head(q[p])}
      /\ Head(q[p]) \in Queued(q) /\ Head(q[p]) \in Tasks
      /\ queues'[p] # q[p]
  BY <1>2, TakeHead
<1>4. Taken(q) = Head(q[p]) BY <1>2, <1>3 DEF Taken, Priorities
<1> QED BY <1>3, <1>4

(* pump moves a task from the queues to a worker or does nothing, and      *)
(* leaves no worker idle if one task or one worker was all there was.      *)
LEMMA PumpMoves ==
    ASSUME NEW q, QueuesOK(q), NEW sl, SlotsOK(sl), Apart(q, sl), pump(q, sl)
    PROVE  /\ QueuesOK(queues') /\ SlotsOK(slot') /\ Apart(queues', slot')
           /\ Held(queues', slot') = Held(q, sl)
           /\ (\A s, x \in Free(sl) : s = x) \/ (\A t, u \in Queued(q) : t = u) => NoIdle(queues', slot')
<1>1. CASE Free(sl) = {} \/ Queued(q) = {}
  <2>1. queues' = q /\ slot' = sl BY <1>1 DEF pump
  <2> QED BY <1>1, <2>1 DEF NoIdle
<1>2. CASE ~(Free(sl) = {} \/ Queued(q) = {})
  <2> DEFINE w == CHOOSE s \in Free(sl) : TRUE
             t == Taken(q)
  <2>1. w \in Free(sl) BY <1>2
  <2>2. nextTask(q) /\ slot' = [sl EXCEPT ![w].task = t] BY <1>2 DEF pump
  <2>3. /\ QueuesOK(queues') /\ t \in Queued(q) /\ t \in Tasks
        /\ Queued(queues') = Queued(q) \ {t}
    BY <1>2, <2>2, NextTaskTakes
  <2> HIDE DEF w, t
  <2>4. t \notin RunningTasks(sl) BY <2>3 DEF Apart
  <2>5. SlotsOK(slot') /\ RunningTasks(slot') = RunningTasks(sl) \cup {t} /\ Free(slot') = Free(sl) \ {w}
    BY <2>1, <2>2, <2>3, <2>4, GiveTask
  <2>6. Apart(queues', slot') BY <2>3, <2>5 DEF Apart
  <2>7. Held(queues', slot') = Held(q, sl) BY <2>3, <2>5 DEF Held
  <2>8. (\A s, x \in Free(sl) : s = x) \/ (\A a, b \in Queued(q) : a = b) => NoIdle(queues', slot')
    BY <2>1, <2>3, <2>5 DEF NoIdle
  <2> QED BY <2>3, <2>5, <2>6, <2>7, <2>8
<1> QED BY <1>1, <1>2

-----------------------------------------------------------------------------
(***************************************************************************)
(* The inductive invariant: the queues and slots are in order and apart,   *)
(* what they hold was given and is not settled, everything else that was   *)
(* given is settled once, and no worker idles.                             *)
(***************************************************************************)
Counted == \A t \in Tasks : settled[t] = IF t \in given \ Held(queues, slot) THEN 1 ELSE 0

Inv ==
    /\ QueuesOK(queues) /\ SlotsOK(slot) /\ Apart(queues, slot)
    /\ settled = [t \in Tasks |-> settled[t]]
    /\ Held(queues, slot) \subseteq given /\ given \subseteq Tasks
    /\ Counted
    /\ NoIdle(queues, slot)

(* What the queues and slots hold are tasks.                               *)
LEMMA HeldTasks ==
    ASSUME NEW q, QueuesOK(q), NEW sl, SlotsOK(sl)
    PROVE  Queued(q) \subseteq Tasks /\ RunningTasks(sl) \subseteq Tasks
<1>1. ASSUME NEW p \in Priorities PROVE In(q[p]) \subseteq Tasks
  <2>1. q[p] \in Seq(Tasks) BY DEF QueuesOK, QueueOK
  <2>2. \A i \in DOMAIN q[p] : q[p][i] \in Tasks BY <2>1
  <2> QED BY <2>2 DEF In
<1>2. RunningTasks(sl) \subseteq Tasks BY DEF RunningTasks, SlotsOK, SlotType
<1> QED BY <1>1, <1>2 DEF Queued, Priorities

(* A step that settles the tasks that leave the pool, and only those,      *)
(* keeps the count.                                                        *)
LEMMA SettleCounts ==
    ASSUME Inv, NEW S \in SUBSET Tasks, Settle(S), given' = given,
           S \subseteq Held(queues, slot), Held(queues', slot') = Held(queues, slot) \ S
    PROVE  settled' = [t \in Tasks |-> settled'[t]] /\ Counted'
<1>1. \A t \in Tasks : settled'[t] = IF t \in S THEN settled[t] + 1 ELSE settled[t] BY DEF Settle
<1>2. settled' = [t \in Tasks |-> settled'[t]] BY DEF Settle
<1>3. ASSUME NEW t \in Tasks
      PROVE  settled'[t] = IF t \in given \ Held(queues', slot') THEN 1 ELSE 0
  <2>1. settled[t] = IF t \in given \ Held(queues, slot) THEN 1 ELSE 0 BY DEF Inv, Counted
  <2>2. CASE t \in S
    <3>1. t \in Held(queues, slot) /\ t \in given /\ t \notin Held(queues', slot') BY <2>2 DEF Inv
    <3>2. settled[t] = 0 /\ settled'[t] = settled[t] + 1 BY <1>1, <2>1, <2>2, <3>1
    <3> QED BY <3>1, <3>2
  <2>3. CASE t \notin S BY <1>1, <2>1, <2>3
  <2> QED BY <2>2, <2>3
<1>4. Counted' BY <1>3 DEF Counted
<1> QED BY <1>2, <1>4

(* Freeing the worker of a slot, or replacing one that has no task.        *)
LEMMA ReplaceSlot ==
    ASSUME NEW sl, SlotsOK(sl), NEW s \in Slots, NEW w \in SlotType, w.task = NoTask
    PROVE  /\ SlotsOK([sl EXCEPT ![s] = w])
           /\ RunningTasks([sl EXCEPT ![s] = w]) = RunningTasks(sl) \ {sl[s].task}
           /\ Free([sl EXCEPT ![s] = w]) \subseteq Free(sl) \cup {s}
           /\ w.worker # "ready" => Free([sl EXCEPT ![s] = w]) \subseteq Free(sl)
<1> DEFINE r == [sl EXCEPT ![s] = w]
<1>1. r \in [Slots -> SlotType] /\ \A x \in Slots : r[x] = IF x = s THEN w ELSE sl[x]
  BY DEF SlotsOK
<1> HIDE DEF r
<1>2. SlotsOK(r) BY <1>1 DEF SlotsOK
<1>3. RunningTasks(r) = RunningTasks(sl) \ {sl[s].task}
  <2>1. ASSUME NEW x \in Slots, r[x].task # NoTask PROVE r[x].task \in RunningTasks(sl) \ {sl[s].task}
    <3>1. x # s /\ r[x] = sl[x] BY <1>1, <2>1
    <3> QED BY <2>1, <3>1 DEF RunningTasks, SlotsOK
  <2>2. ASSUME NEW x \in Slots, sl[x].task # NoTask, sl[x].task # sl[s].task
        PROVE  sl[x].task \in RunningTasks(r)
    <3>1. r[x] = sl[x] BY <1>1, <2>2
    <3> QED BY <2>2, <3>1 DEF RunningTasks
  <2> QED BY <2>1, <2>2 DEF RunningTasks
<1>4. Free(r) \subseteq Free(sl) \cup {s} BY <1>1 DEF Free
<1>5. w.worker # "ready" => Free(r) \subseteq Free(sl) BY <1>1 DEF Free
<1> QED BY <1>2, <1>3, <1>4, <1>5 DEF r

(* The workers a slot can be given are slots of the right type.            *)
LEMMA SlotValues ==
    /\ Ready \in SlotType /\ Ready.task = NoTask /\ Ready.worker = "ready"
    /\ NoWorker \in SlotType /\ NoWorker.task = NoTask /\ NoWorker.worker = "none"
    /\ [NoWorker EXCEPT !.worker = "stopped"] \in SlotType
    /\ [NoWorker EXCEPT !.worker = "stopped"].task = NoTask
    /\ [NoWorker EXCEPT !.worker = "stopped"].worker = "stopped"
BY DEF Ready, NoWorker, SlotType

(* Empty queues are in order and hold nothing.                             *)
LEMMA EmptyQueues ==
    QueuesOK([p \in Priorities |-> <<>>]) /\ Queued([p \in Priorities |-> <<>>]) = {}
<1> DEFINE q == [p \in Priorities |-> <<>>]
<1>1. \A p \in Priorities : q[p] = <<>> OBVIOUS
<1>2. \A p \in Priorities : QueueOK(q[p], p)
  <2>1. <<>> \in Seq(Tasks) /\ DOMAIN <<>> = {} OBVIOUS
  <2> QED BY <1>1, <2>1 DEF QueueOK
<1>3. q = [p \in Priorities |-> q[p]] OBVIOUS
<1>4. QueuesOK(q) BY <1>2, <1>3 DEF QueuesOK
<1> HIDE DEF q
<1>5. Queued(q) = {} BY <1>1, <1>4, QueuedEmpty DEF Priorities
<1> QED BY <1>4, <1>5 DEF q

(* The invariant holds when the pool has started.                          *)
LEMMA InitInv == Init => Inv
<1> SUFFICES ASSUME Init PROVE Inv OBVIOUS
<1> USE DEF Init
<1>1. QueuesOK(queues) /\ Queued(queues) = {} BY EmptyQueues
<1>2. SlotsOK(slot) BY SlotValues DEF SlotsOK
<1>3. RunningTasks(slot) = {} BY SlotValues DEF RunningTasks
<1>4. Held(queues, slot) = {} BY <1>1, <1>3 DEF Held
<1>5. Counted BY DEF Counted
<1>6. settled = [t \in Tasks |-> settled[t]] OBVIOUS
<1> QED BY <1>1, <1>2, <1>3, <1>4, <1>5, <1>6 DEF Inv, Apart, NoIdle

-----------------------------------------------------------------------------
(***************************************************************************)
(* One lemma per handler.                                                  *)
(***************************************************************************)

(* submit: a task is settled at once or joins its queue.                   *)
LEMMA SubmitInv == ASSUME Inv, NEW t \in Tasks, submit(t) PROVE Inv'
<1> DEFINE p == Priority(t)
<1>1. t \notin given /\ given' = given \cup {t} /\ t \notin Held(queues, slot) BY DEF submit, Inv
<1>2. settled[t] = 0 BY <1>1 DEF Inv, Counted
<1>3. CASE closed \/ (Free(slot) = {} /\ Len(queues[p]) >= MaxQueue)
  <2>1. Settle({t}) /\ queues' = queues /\ slot' = slot BY <1>3 DEF submit
  <2>2. settled' = [u \in Tasks |-> settled'[u]] BY <2>1 DEF Settle
  <2>3. settled'[t] = 1 /\ \A u \in Tasks : u # t => settled'[u] = settled[u] BY <1>2, <2>1 DEF Settle
  <2>4. Counted' BY <1>1, <2>1, <2>3 DEF Inv, Counted
  <2> QED BY <1>1, <2>1, <2>2, <2>4 DEF Inv
<1>4. CASE ~(closed \/ (Free(slot) = {} /\ Len(queues[p]) >= MaxQueue))
  <2> DEFINE r == Append(queues[p], t)
             q == [queues EXCEPT ![p] = r]
  <2>1. pump(q, slot) /\ settled' = settled BY <1>4 DEF submit
  <2>2. p \in Priorities BY DEF Priority, Priorities
  <2>3. t \notin In(queues[p]) BY <1>1, <2>2 DEF Held, Queued, Priorities
  <2>4. QueueOK(r, p) /\ In(r) = In(queues[p]) \cup {t}
    BY <2>2, <2>3, AppendQueue DEF Inv, QueuesOK
  <2> HIDE DEF r
  <2>5. QueuesOK(q) /\ q[p] = r /\ \A o \in Priorities : o # p => q[o] = queues[o]
    BY <2>2, <2>4, ReplaceQueue DEF Inv
  <2> HIDE DEF q
  <2>6. Queued(q) = Queued(queues) \cup {t}
    <3>1. CASE p = "interactive" BY <2>4, <2>5, <3>1 DEF Queued, Priorities
    <3>2. CASE p = "background" BY <2>4, <2>5, <3>2 DEF Queued, Priorities
    <3> QED BY <2>2, <3>1, <3>2 DEF Priorities
  <2>7. Apart(q, slot) BY <1>1, <2>6 DEF Inv, Apart, Held
  <2>8. (\A s, x \in Free(slot) : s = x) \/ (\A a, b \in Queued(q) : a = b)
    BY <2>6 DEF Inv, NoIdle
  <2>9. /\ QueuesOK(queues') /\ SlotsOK(slot') /\ Apart(queues', slot')
        /\ Held(queues', slot') = Held(queues, slot) \cup {t} /\ NoIdle(queues', slot')
    <3>1. SlotsOK(slot) BY DEF Inv
    <3>2. /\ QueuesOK(queues') /\ SlotsOK(slot') /\ Apart(queues', slot')
          /\ Held(queues', slot') = Held(q, slot) /\ NoIdle(queues', slot')
      BY <2>1, <2>5, <2>7, <2>8, <3>1, PumpMoves
    <3> QED BY <2>6, <3>2 DEF Held
  <2>10. Counted' BY <1>1, <1>2, <2>1, <2>9 DEF Inv, Counted
  <2> QED BY <1>1, <2>1, <2>9, <2>10 DEF Inv
<1> QED BY <1>3, <1>4

(* abort: a waiting task leaves its queue and is settled.                  *)
LEMMA AbortInv == ASSUME Inv, NEW t \in Tasks, abort(t) PROVE Inv'
<1> DEFINE p == Priority(t)
<1>1. p \in Priorities BY DEF Priority, Priorities
<1>2. PICK i \in DOMAIN queues[p] : queues[p][i] = t /\ queues' = [queues EXCEPT ![p] = Spliced(queues[p], i)]
  BY DEF abort
<1>3. Settle({t}) /\ given' = given /\ slot' = slot BY DEF abort
<1> DEFINE r == Spliced(queues[p], i)
<1>4. QueueOK(r, p) /\ In(r) = In(queues[p]) \ {t} BY <1>1, <1>2, SpliceQueue DEF Inv, QueuesOK
<1> HIDE DEF r
<1>5. QueuesOK(queues') /\ queues'[p] = r /\ \A o \in Priorities : o # p => queues'[o] = queues[o]
  <2> DEFINE q == [queues EXCEPT ![p] = r]
  <2>1. QueueOK(r, p) BY <1>4
  <2>2. QueuesOK(queues) BY DEF Inv
  <2>3. QueuesOK(q) /\ q[p] = r /\ \A o \in Priorities : o # p => q[o] = queues[o]
    BY <1>1, <2>1, <2>2, ReplaceQueue
  <2>4. queues' = q BY <1>2 DEF r
  <2> QED BY <2>3, <2>4
<1>6. t \in In(queues[p]) /\ t \in Queued(queues) BY <1>1, <1>2 DEF In, Queued, Priorities
<1>7. In(queues["interactive"]) \cap In(queues["background"]) = {} BY QueuesApart DEF Inv
<1>8. Queued(queues') = Queued(queues) \ {t}
  <2>1. CASE p = "interactive" BY <1>4, <1>5, <1>6, <1>7, <2>1 DEF Queued, Priorities
  <2>2. CASE p = "background" BY <1>4, <1>5, <1>6, <1>7, <2>2 DEF Queued, Priorities
  <2> QED BY <1>1, <2>1, <2>2 DEF Priorities
<1>9. Held(queues', slot') = Held(queues, slot) \ {t} /\ t \in Held(queues, slot)
  BY <1>3, <1>6, <1>8 DEF Held, Inv, Apart
<1>10. settled' = [u \in Tasks |-> settled'[u]] /\ Counted' BY <1>3, <1>9, SettleCounts
<1>11. Apart(queues', slot') /\ NoIdle(queues', slot') BY <1>3, <1>8 DEF Inv, Apart, NoIdle
<1> QED BY <1>3, <1>5, <1>9, <1>10, <1>11 DEF Inv

(* A worker becomes ready and takes what waits.                            *)
LEMMA WorkerReadyInv == ASSUME Inv, NEW s \in Slots, workerReady(s) PROVE Inv'
<1> DEFINE sl == [slot EXCEPT ![s] = Ready]
<1>1. slot[s].task = NoTask BY DEF workerReady, Inv, SlotsOK
<1>2. SlotsOK(sl) /\ RunningTasks(sl) = RunningTasks(slot) \ {slot[s].task} /\ Free(sl) \subseteq Free(slot) \cup {s}
  <2>1. SlotsOK(slot) BY DEF Inv
  <2>2. Ready \in SlotType /\ Ready.task = NoTask BY SlotValues
  <2> HIDE DEF Ready
  <2> QED BY <2>1, <2>2, ReplaceSlot
<1>3. RunningTasks(sl) = RunningTasks(slot) BY <1>1, <1>2 DEF RunningTasks
<1>4. pump(queues, sl) /\ settled' = settled /\ given' = given BY DEF workerReady
<1> HIDE DEF sl
<1>5. Apart(queues, sl) /\ Held(queues, sl) = Held(queues, slot) BY <1>3 DEF Inv, Apart, Held
<1>6. (\A a, x \in Free(sl) : a = x) \/ (\A a, b \in Queued(queues) : a = b)
  BY <1>2 DEF Inv, NoIdle
<1>7. /\ QueuesOK(queues') /\ SlotsOK(slot') /\ Apart(queues', slot')
      /\ Held(queues', slot') = Held(queues, slot) /\ NoIdle(queues', slot')
  BY <1>2, <1>4, <1>5, <1>6, PumpMoves DEF Inv
<1> QED BY <1>4, <1>7 DEF Inv, Counted

(* A result settles the worker's task; the worker takes the next.          *)
LEMMA WorkerResultInv == ASSUME Inv, NEW s \in Slots, workerResult(s) PROVE Inv'
<1> DEFINE t == slot[s].task
           w == [slot[s] EXCEPT !.task = NoTask]
           sl == [slot EXCEPT ![s] = w]
<1>1. slot[s] \in SlotType /\ t # NoTask BY DEF workerResult, Inv, SlotsOK
<1>2. w \in SlotType /\ w.task = NoTask BY <1>1 DEF SlotType
<1>3. pump(queues, sl) /\ Settle({t}) /\ given' = given BY DEF workerResult
<1>4. t \in Tasks /\ t \in RunningTasks(slot) BY <1>1 DEF SlotType, RunningTasks
<1> HIDE DEF w
<1>5. SlotsOK(sl) /\ RunningTasks(sl) = RunningTasks(slot) \ {t} /\ Free(sl) \subseteq Free(slot) \cup {s}
  BY <1>2, ReplaceSlot DEF Inv
<1> HIDE DEF sl, t
<1>6. Apart(queues, sl) /\ Held(queues, sl) = Held(queues, slot) \ {t} /\ t \in Held(queues, slot)
  BY <1>4, <1>5 DEF Inv, Apart, Held
<1>7. (\A a, x \in Free(sl) : a = x) \/ (\A a, b \in Queued(queues) : a = b)
  BY <1>5 DEF Inv, NoIdle
<1>8. /\ QueuesOK(queues') /\ SlotsOK(slot') /\ Apart(queues', slot')
      /\ Held(queues', slot') = Held(queues, slot) \ {t} /\ NoIdle(queues', slot')
  BY <1>3, <1>5, <1>6, <1>7, PumpMoves DEF Inv
<1>9. settled' = [u \in Tasks |-> settled'[u]] /\ Counted'
  BY <1>3, <1>4, <1>6, <1>8, SettleCounts
<1> QED BY <1>3, <1>8, <1>9 DEF Inv

(* The steps that end a worker, or replace it, without a pump: the task    *)
(* the worker had is settled, and no slot becomes free.                    *)
LEMMA ReplaceWorkerInv ==
    ASSUME Inv, NEW s \in Slots, NEW w \in SlotType, w.task = NoTask, w.worker # "ready",
           queues' = queues, given' = given, slot' = [slot EXCEPT ![s] = w],
           Settle({slot[s].task} \ {NoTask})
    PROVE  Inv'
<1> DEFINE S == {slot[s].task} \ {NoTask}
<1>1. QueuesOK(queues) /\ SlotsOK(slot) BY DEF Inv
<1>2. /\ SlotsOK(slot') /\ RunningTasks(slot') = RunningTasks(slot) \ {slot[s].task}
      /\ Free(slot') \subseteq Free(slot)
  BY <1>1, ReplaceSlot
<1>3. S \subseteq RunningTasks(slot) /\ RunningTasks(slot') = RunningTasks(slot) \ S
  BY <1>2 DEF RunningTasks
<1>4. S \subseteq Tasks /\ S \subseteq Held(queues, slot) BY <1>1, <1>3, HeldTasks DEF Held
<1> HIDE DEF S
<1>5. Held(queues', slot') = Held(queues, slot) \ S BY <1>3 DEF Held, Inv, Apart
<1>6. Settle(S) BY DEF S
<1>7. settled' = [u \in Tasks |-> settled'[u]] /\ Counted'
  BY <1>4, <1>5, <1>6, SettleCounts
<1>8. Apart(queues', slot') /\ NoIdle(queues', slot') BY <1>2, <1>3 DEF Inv, Apart, NoIdle
<1> QED BY <1>1, <1>2, <1>5, <1>7, <1>8 DEF Inv

(* Settling nothing is leaving the counts alone.                           *)
LEMMA SettleNothing == ASSUME Inv, settled' = settled PROVE Settle({})
BY DEF Inv, Settle

(* A worker exits: its task, if it has one, is settled.                    *)
LEMMA WorkerCrashInv == ASSUME Inv, NEW s \in Slots, workerCrash(s) PROVE Inv'
<1> DEFINE w == IF closed THEN [NoWorker EXCEPT !.worker = "stopped"] ELSE NoWorker
<1>1. w \in SlotType /\ w.task = NoTask /\ w.worker # "ready" BY SlotValues
<1>2. /\ slot' = [slot EXCEPT ![s] = w] /\ queues' = queues /\ given' = given
      /\ Settle({slot[s].task} \ {NoTask})
  BY DEF workerCrash
<1> HIDE DEF w
<1> QED BY <1>1, <1>2, ReplaceWorkerInv

(* A slot whose worker has no task changes hands; nothing is settled.      *)
LEMMA ReplaceIdleInv ==
    ASSUME Inv, NEW s \in Slots, NEW w \in SlotType, w.task = NoTask, w.worker # "ready",
           slot[s].task = NoTask,
           queues' = queues, given' = given, settled' = settled, slot' = [slot EXCEPT ![s] = w]
    PROVE  Inv'
<1>1. Settle({}) BY SettleNothing
<1>2. {slot[s].task} \ {NoTask} = {} OBVIOUS
<1>3. Settle({slot[s].task} \ {NoTask}) BY <1>1, <1>2
<1> QED BY <1>3, ReplaceWorkerInv

(* The timer of scheduleRespawn.                                           *)
LEMMA RespawnInv == ASSUME Inv, NEW s \in Slots, respawn(s) PROVE Inv'
<1> DEFINE w == [slot[s] EXCEPT !.worker = IF closed THEN "stopped" ELSE "starting"]
<1>1. slot[s] \in SlotType /\ slot[s].worker = "none" /\ slot[s].task = NoTask
  BY DEF respawn, Inv, SlotsOK
<1>2. w \in SlotType /\ w.task = NoTask /\ w.worker # "ready" BY <1>1 DEF SlotType
<1>3. slot' = [slot EXCEPT ![s] = w] BY DEF respawn
<1>4. queues' = queues /\ given' = given /\ settled' = settled BY DEF respawn
<1> HIDE DEF w
<1> QED BY <1>1, <1>2, <1>3, <1>4, ReplaceIdleInv

(* close() stops a worker once none has a task.                            *)
LEMMA StopWorkerInv == ASSUME Inv, NEW s \in Slots, stopWorker(s) PROVE Inv'
<1> DEFINE w == [NoWorker EXCEPT !.worker = "stopped"]
<1>1. slot[s].task = NoTask BY DEF stopWorker, InFlight
<1>2. w \in SlotType /\ w.task = NoTask /\ w.worker # "ready" BY SlotValues
<1>3. slot' = [slot EXCEPT ![s] = w] /\ queues' = queues /\ given' = given /\ settled' = settled
  BY DEF stopWorker
<1> HIDE DEF w
<1> QED BY <1>1, <1>2, <1>3, ReplaceIdleInv

(* Everything that waits is failed at once: close(), or a replacement that *)
(* fails to start while no worker is ready.                                *)
LEMMA DrainInv ==
    ASSUME Inv, queues' = [p \in Priorities |-> <<>>], Settle(Queued(queues)), given' = given,
           SlotsOK(slot'), RunningTasks(slot') = RunningTasks(slot)
    PROVE  Inv'
<1>1. QueuesOK(queues') /\ Queued(queues') = {} BY EmptyQueues
<1>2. Queued(queues) \subseteq Tasks BY HeldTasks DEF Inv
<1>3. /\ Queued(queues) \subseteq Held(queues, slot)
      /\ Held(queues', slot') = Held(queues, slot) \ Queued(queues)
  BY <1>1 DEF Held, Inv, Apart
<1>4. settled' = [u \in Tasks |-> settled'[u]] /\ Counted' BY <1>2, <1>3, SettleCounts
<1>5. Apart(queues', slot') /\ NoIdle(queues', slot') BY <1>1 DEF Apart, NoIdle
<1> QED BY <1>1, <1>3, <1>4, <1>5 DEF Inv

(* A replacement fails to start.                                           *)
LEMMA StartFailsInv == ASSUME Inv, NEW s \in Slots, startFails(s) PROVE Inv'
<1> DEFINE w == IF closed THEN [NoWorker EXCEPT !.worker = "stopped"] ELSE NoWorker
<1>1. w \in SlotType /\ w.task = NoTask /\ w.worker # "ready" BY SlotValues
<1>2. slot' = [slot EXCEPT ![s] = w] /\ given' = given BY DEF startFails
<1>3. slot[s].task = NoTask BY DEF startFails, Inv, SlotsOK
<1> HIDE DEF w
<1>4. CASE ~closed /\ \A x \in Slots : slot[x].worker # "ready"
  <2>1. queues' = [p \in Priorities |-> <<>>] /\ Settle(Queued(queues)) BY <1>4 DEF startFails
  <2>2. SlotsOK(slot') /\ RunningTasks(slot') = RunningTasks(slot) \ {slot[s].task}
    BY <1>1, <1>2, ReplaceSlot DEF Inv
  <2>3. RunningTasks(slot') = RunningTasks(slot) BY <1>3, <2>2 DEF RunningTasks
  <2> QED BY <1>2, <2>1, <2>2, <2>3, DrainInv
<1>5. CASE ~(~closed /\ \A x \in Slots : slot[x].worker # "ready")
  <2>1. queues' = queues /\ settled' = settled BY <1>5 DEF startFails
  <2> QED BY <1>1, <1>2, <1>3, <2>1, ReplaceIdleInv
<1> QED BY <1>4, <1>5

(* close() fails what waits.                                               *)
LEMMA CloseInv == ASSUME Inv, close PROVE Inv'
<1>1. /\ queues' = [p \in Priorities |-> <<>>] /\ Settle(Queued(queues)) /\ given' = given
      /\ slot' = slot
  BY DEF close
<1>2. SlotsOK(slot') /\ RunningTasks(slot') = RunningTasks(slot) BY <1>1 DEF Inv
<1> QED BY <1>1, <1>2, DrainInv

(* What the invariant speaks of is unchanged.                              *)
LEMMA KeptInv ==
    ASSUME Inv, queues' = queues, slot' = slot, settled' = settled, given' = given
    PROVE  Inv'
BY DEF Inv, Counted

(* Every step keeps the invariant.                                         *)
LEMMA NextInv == Inv /\ [Next]_vars => Inv'
<1> SUFFICES ASSUME Inv, [Next]_vars PROVE Inv' OBVIOUS
<1>1. ASSUME NEW t \in Tasks, submit(t) PROVE Inv' BY <1>1, SubmitInv
<1>2. ASSUME NEW t \in Tasks, abort(t) PROVE Inv' BY <1>2, AbortInv
<1>3. CASE WaitedLong BY <1>3, KeptInv DEF WaitedLong
<1>4. ASSUME NEW s \in Slots, WorkerNext(s) PROVE Inv'
  <2>1. CASE workerReady(s) BY <2>1, WorkerReadyInv
  <2>2. CASE workerResult(s) BY <2>2, WorkerResultInv
  <2>3. CASE startFails(s) BY <2>3, StartFailsInv
  <2>4. CASE respawn(s) BY <2>4, RespawnInv
  <2>5. CASE stopWorker(s) BY <2>5, StopWorkerInv
  <2> QED BY <1>4, <2>1, <2>2, <2>3, <2>4, <2>5 DEF WorkerNext
<1>5. ASSUME NEW s \in Slots, workerCrash(s) PROVE Inv' BY <1>5, WorkerCrashInv
<1>6. CASE close BY <1>6, CloseInv
<1>7. CASE UNCHANGED vars BY <1>7, KeptInv DEF vars
<1> QED BY <1>1, <1>2, <1>3, <1>4, <1>5, <1>6, <1>7 DEF Next

-----------------------------------------------------------------------------
(* Every analysis handed to the pool is in one place only, and its promise *)
(* is settled exactly once, when it leaves the pool: by a result, a crash  *)
(* of its worker, an abort, a full queue, a failed start or close().       *)
THEOREM SettledExactlyOnce == Spec => []EachTaskOnce
<1>1. Inv => EachTaskOnce
  <2> SUFFICES ASSUME Inv, NEW t \in given PROVE
        /\ settled[t] = IF Waiting(t) \/ Running(t) THEN 0 ELSE 1
        /\ ~(Waiting(t) /\ Running(t))
        /\ \A s, x \in Slots : slot[s].task = t /\ slot[x].task = t => s = x
    BY DEF EachTaskOnce
  <2>1. t \in Tasks /\ t # NoTask BY PoolAssumption DEF Inv, NoTask, Tasks
  <2>2. Running(t) <=> t \in RunningTasks(slot) BY <2>1 DEF Running, RunningTasks
  <2>3. Waiting(t) \/ Running(t) <=> t \in Held(queues, slot) BY <2>2 DEF Waiting, Held
  <2>4. settled[t] = IF t \in given \ Held(queues, slot) THEN 1 ELSE 0 BY <2>1 DEF Inv, Counted
  <2>5. settled[t] = IF Waiting(t) \/ Running(t) THEN 0 ELSE 1 BY <2>3, <2>4
  <2>6. ~(Waiting(t) /\ Running(t)) BY <2>2 DEF Waiting, Inv, Apart
  <2>7. \A s, x \in Slots : slot[s].task = t /\ slot[x].task = t => s = x
    BY <2>1 DEF Inv, SlotsOK
  <2> QED BY <2>5, <2>6, <2>7
<1> QED BY <1>1, InitInv, NextInv, PTL DEF Spec

(* No worker idles while an analysis waits: one turn of pump() per event   *)
(* is enough, because an event adds one task or frees one worker.          *)
THEOREM NeverIdle == Spec => []NoIdleWorker
<1>1. Inv => NoIdleWorker BY DEF Inv, NoIdle, NoIdleWorker
<1> QED BY <1>1, InitInv, NextInv, PTL DEF Spec

(* The count of interactive tasks begun over an overdue one, and the turn  *)
(* that lastWasOverdue keeps: at one, the next turn is the overdue task's. *)
TurnKept == passed = 0 \/ (passed = 1 /\ ~last)

(* pump keeps the turn.                                                    *)
LEMMA PumpTurn == ASSUME TurnKept, NEW q, NEW sl, pump(q, sl) PROVE TurnKept'
<1>1. CASE last' = last /\ passed' = passed BY <1>1 DEF TurnKept
<1>2. CASE nextTask(q)
  <2>1. CASE q["interactive"] # <<>> /\ ~(OverdueIn(q) /\ ~last)
    <3>1. last' = FALSE /\ passed' = IF OverdueIn(q) THEN passed + 1 ELSE 0 BY <1>2, <2>1 DEF nextTask
    <3>2. OverdueIn(q) => passed = 0 BY <2>1 DEF TurnKept
    <3> QED BY <3>1, <3>2 DEF TurnKept
  <2>2. CASE ~(q["interactive"] # <<>> /\ ~(OverdueIn(q) /\ ~last))
    BY <1>2, <2>2 DEF nextTask, TurnKept
  <2> QED BY <2>1, <2>2
<1> QED BY <1>1, <1>2 DEF pump

(* Overdue background work waits for one interactive analysis at most,     *)
(* whatever is submitted, aborted or crashes meanwhile.                    *)
THEOREM OverdueTakesTurns == Spec => []OverdueIsNext
<1>1. Init => TurnKept BY DEF Init, TurnKept
<1>2. TurnKept /\ [Next]_vars => TurnKept'
  <2> SUFFICES ASSUME TurnKept, [Next]_vars PROVE TurnKept' OBVIOUS
  <2>1. ASSUME NEW t \in Tasks, submit(t) PROVE TurnKept'
    <3>1. (\E q, sl : pump(q, sl)) \/ (last' = last /\ passed' = passed) BY <2>1 DEF submit, NoPump
    <3> QED BY <3>1, PumpTurn DEF TurnKept
  <2>2. ASSUME NEW t \in Tasks, abort(t) PROVE TurnKept' BY <2>2 DEF abort, TurnKept
  <2>3. CASE WaitedLong BY <2>3 DEF WaitedLong, TurnKept
  <2>4. ASSUME NEW s \in Slots, WorkerNext(s) PROVE TurnKept'
    <3>1. CASE workerReady(s) BY <3>1, PumpTurn DEF workerReady
    <3>2. CASE workerResult(s) BY <3>2, PumpTurn DEF workerResult
    <3>3. CASE startFails(s) BY <3>3 DEF startFails, NoPump, TurnKept
    <3>4. CASE respawn(s) BY <3>4 DEF respawn, NoPump, TurnKept
    <3>5. CASE stopWorker(s) BY <3>5 DEF stopWorker, NoPump, TurnKept
    <3> QED BY <2>4, <3>1, <3>2, <3>3, <3>4, <3>5 DEF WorkerNext
  <2>5. ASSUME NEW s \in Slots, workerCrash(s) PROVE TurnKept' BY <2>5 DEF workerCrash, NoPump, TurnKept
  <2>6. CASE close BY <2>6 DEF close, TurnKept
  <2>7. CASE UNCHANGED vars BY <2>7 DEF vars, TurnKept
  <2> QED BY <2>1, <2>2, <2>3, <2>4, <2>5, <2>6, <2>7 DEF Next
<1>3. TurnKept => OverdueIsNext BY DEF TurnKept, OverdueIsNext
<1> QED BY <1>1, <1>2, <1>3, PTL DEF Spec
=============================================================================
