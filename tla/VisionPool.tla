------------------------------ MODULE VisionPool ------------------------------
(***************************************************************************)
(* The worker-thread pool of the vision engine (vision/pool.ts): two       *)
(* queues in front of a fixed number of workers, each of which analyses    *)
(* one image at a time, crashes, fails to start and is replaced.           *)
(*                                                                         *)
(* The pool itself runs on the main thread, so every event (a submitted    *)
(* analysis, an aborted one, a message or the exit of a worker, a respawn  *)
(* timer, close) is one action with everything its handler does, the       *)
(* trailing pump() included.  A slot without a worker waits for the timer  *)
(* of scheduleRespawn.  Time matters only to background work: a flag per   *)
(* task says that it has waited backgroundMaxWaitMs.                       *)
(***************************************************************************)
EXTENDS Integers, Sequences, FiniteSets

CONSTANTS
    Interactive,  \* analyses a candidate waits for
    Background,   \* identity samples
    Slots,        \* opts.size workers
    MaxQueue,     \* opts.maxQueue, per priority
    MaxCrashes    \* bound on crashes and failed starts, together

ASSUME PoolAssumption ==
    /\ Interactive \cap Background = {}
    /\ "none" \notin Interactive \cup Background
    /\ IsFiniteSet(Slots) /\ Slots # {}
    /\ MaxQueue \in Nat \ {0} /\ MaxCrashes \in Nat

Tasks == Interactive \cup Background
Priorities == {"interactive", "background"}
NoTask == "none"

VARIABLES
    queues,   \* per priority, the waiting tasks in order of arrival
    slot,     \* per slot, its worker and the task it has
    last,     \* lastWasOverdue
    closed,   \* close() was called
    overdue,  \* background tasks that have waited long enough
    settled,  \* per task, how often its promise was resolved or rejected
    given,    \* tasks submitted so far
    passed,   \* interactive tasks begun since the oldest background task became overdue
    crashes

vars == <<queues, slot, last, closed, overdue, settled, given, passed, crashes>>

Priority(t) == IF t \in Interactive THEN "interactive" ELSE "background"
NoWorker == [worker |-> "none", task |-> NoTask]
Ready == [worker |-> "ready", task |-> NoTask]

TypeOK ==
    /\ queues \in [Priorities -> Seq(Tasks)]
    /\ slot \in [Slots -> [worker : {"none", "starting", "ready", "stopped"}, task : Tasks \cup {NoTask}]]
    /\ last \in BOOLEAN /\ closed \in BOOLEAN
    /\ overdue \subseteq Background
    /\ settled \in [Tasks -> Nat]
    /\ given \subseteq Tasks
    /\ passed \in Nat
    /\ crashes \in 0..MaxCrashes

\* start() returned: every worker is ready
Init ==
    /\ queues = [p \in Priorities |-> <<>>]
    /\ slot = [s \in Slots |-> Ready]
    /\ last = FALSE /\ closed = FALSE
    /\ overdue = {}
    /\ settled = [t \in Tasks |-> 0]
    /\ given = {}
    /\ passed = 0
    /\ crashes = 0

Free(sl) == {s \in Slots : sl[s].worker = "ready" /\ sl[s].task = NoTask}
InFlight(sl) == {s \in Slots : sl[s].task # NoTask}
In(seq) == {seq[n] : n \in DOMAIN seq}
Queued(q) == In(q["interactive"]) \cup In(q["background"])

(***************************************************************************)
(* nextTask: interactive work first, unless the oldest background task is  *)
(* overdue and the task before was not taken for that reason.              *)
(***************************************************************************)
OverdueIn(q) == q["background"] # <<>> /\ Head(q["background"]) \in overdue

(* Mutant: taking interactive work does not end the background's turn off. *)
nextTaskForgets(q) ==
    IF q["interactive"] # <<>> /\ ~(OverdueIn(q) /\ ~last)
    THEN /\ last' = last
         /\ passed' = IF OverdueIn(q) THEN passed + 1 ELSE 0
         /\ queues' = [q EXCEPT !["interactive"] = Tail(@)]
    ELSE /\ last' = OverdueIn(q)
         /\ passed' = 0
         /\ queues' = [q EXCEPT !["background"] = Tail(@)]

nextTask(q) ==
    IF q["interactive"] # <<>> /\ ~(OverdueIn(q) /\ ~last)
    THEN /\ last' = FALSE
         /\ passed' = IF OverdueIn(q) THEN passed + 1 ELSE 0
         /\ queues' = [q EXCEPT !["interactive"] = Tail(@)]
    ELSE /\ last' = OverdueIn(q)
         /\ passed' = 0
         /\ queues' = [q EXCEPT !["background"] = Tail(@)]

\* The head that nextTask took off.
Taken(q) == IF queues'["interactive"] # q["interactive"] THEN Head(q["interactive"])
            ELSE Head(q["background"])

(***************************************************************************)
(* pump: a free worker takes the next task.  The code loops; one turn is   *)
(* all it can take, for no worker is free while work waits (NoIdleWorker)  *)
(* and a handler adds one task or frees one worker at most.  Which worker  *)
(* makes no difference.                                                    *)
(***************************************************************************)
pump(q, sl) ==
    IF Free(sl) = {} \/ Queued(q) = {}
    THEN queues' = q /\ slot' = sl /\ UNCHANGED <<last, passed>>
    ELSE /\ nextTask(q)
         /\ slot' = [sl EXCEPT ![CHOOSE s \in Free(sl) : TRUE].task = Taken(q)]

Settle(S) ==
    settled' = [t \in Tasks |-> IF t \in S THEN settled[t] + 1 ELSE settled[t]]

NoPump == UNCHANGED <<last, passed>>

(***************************************************************************)
(* submit: refused when the pool is closed, or when no worker is free and  *)
(* the queue of its priority is full.                                      *)
(***************************************************************************)
submit(t) ==
    LET p == Priority(t) IN
    /\ t \notin given
    /\ given' = given \cup {t}
    /\ IF closed \/ (Free(slot) = {} /\ Len(queues[p]) >= MaxQueue)
       THEN Settle({t}) /\ UNCHANGED <<queues, slot>> /\ NoPump
       ELSE pump([queues EXCEPT ![p] = Append(@, t)], slot) /\ UNCHANGED settled
    /\ UNCHANGED <<closed, overdue, crashes>>

\* queue.splice(i, 1)
Spliced(q, i) == [n \in 1..(Len(q) - 1) |-> IF n < i THEN q[n] ELSE q[n + 1]]

\* the abort listener: a task that is still queued is dropped
abort(t) ==
    LET p == Priority(t) IN
    /\ \E i \in DOMAIN queues[p] :
          /\ queues[p][i] = t
          /\ queues' = [queues EXCEPT ![p] = Spliced(@, i)]
    /\ Settle({t})
    /\ passed' = IF OverdueIn(queues') THEN passed ELSE 0
    /\ UNCHANGED <<slot, last, closed, overdue, given, crashes>>

\* time passes for the background task that has waited longest
WaitedLong ==
    \E i \in DOMAIN queues["background"] :
        /\ queues["background"][i] \notin overdue
        /\ \A j \in 1..(i - 1) : queues["background"][j] \in overdue
        /\ overdue' = overdue \cup {queues["background"][i]}
    /\ UNCHANGED <<queues, slot, last, closed, settled, given, passed, crashes>>

(* Mutant: a worker that becomes ready waits for the next submission.      *)
workerReadyNoPump(s) ==
    /\ slot[s].worker = "starting"
    /\ slot' = [slot EXCEPT ![s] = Ready]
    /\ NoPump
    /\ UNCHANGED <<queues, closed, overdue, settled, given, crashes>>

(***************************************************************************)
(* Messages and exits of the worker in slot s.                             *)
(***************************************************************************)
workerReady(s) ==
    /\ slot[s].worker = "starting"
    /\ pump(queues, [slot EXCEPT ![s] = Ready])
    /\ UNCHANGED <<closed, overdue, settled, given, crashes>>

workerResult(s) ==
    /\ slot[s].task # NoTask
    /\ Settle({slot[s].task})
    /\ pump(queues, [slot EXCEPT ![s].task = NoTask])
    /\ UNCHANGED <<closed, overdue, given, crashes>>

Crash == crashes < MaxCrashes /\ crashes' = crashes + 1

(* Mutant: the exit handler forgets the task in flight.                    *)
workerCrashLoses(s) ==
    /\ slot[s].worker = "ready"
    /\ Crash
    /\ slot' = [slot EXCEPT ![s] = IF closed THEN [NoWorker EXCEPT !.worker = "stopped"] ELSE NoWorker]
    /\ NoPump
    /\ UNCHANGED <<queues, closed, overdue, settled, given>>

(* Mutant: a crashed worker is not replaced.                               *)
workerCrashForGood(s) ==
    /\ slot[s].worker = "ready"
    /\ Crash
    /\ Settle({slot[s].task} \ {NoTask})
    /\ slot' = [slot EXCEPT ![s] = [NoWorker EXCEPT !.worker = "stopped"]]
    /\ NoPump
    /\ UNCHANGED <<queues, closed, overdue, given>>

\* a worker that had started exits: its task fails, a replacement is scheduled
workerCrash(s) ==
    /\ slot[s].worker = "ready"
    /\ Crash
    /\ Settle({slot[s].task} \ {NoTask})
    /\ slot' = [slot EXCEPT ![s] = IF closed THEN [NoWorker EXCEPT !.worker = "stopped"] ELSE NoWorker]
    /\ NoPump
    /\ UNCHANGED <<queues, closed, overdue, given>>

\* a replacement fails to start; with no worker ready, what waits fails with it
startFails(s) ==
    /\ slot[s].worker = "starting"
    /\ Crash
    /\ slot' = [slot EXCEPT ![s] = IF closed THEN [NoWorker EXCEPT !.worker = "stopped"] ELSE NoWorker]
    /\ IF ~closed /\ \A x \in Slots : slot[x].worker # "ready"
       THEN /\ queues' = [p \in Priorities |-> <<>>]
            /\ Settle(Queued(queues))
            /\ passed' = 0 /\ UNCHANGED last
       ELSE UNCHANGED <<queues, settled>> /\ NoPump
    /\ UNCHANGED <<closed, overdue, given>>

\* the timer of scheduleRespawn; after close() it does nothing, once and for all
respawn(s) ==
    /\ slot[s].worker = "none"
    /\ slot' = [slot EXCEPT ![s].worker = IF closed THEN "stopped" ELSE "starting"]
    /\ NoPump
    /\ UNCHANGED <<queues, closed, overdue, settled, given, crashes>>

(***************************************************************************)
(* close: refuse new work, fail queued work, wait for the work in flight,  *)
(* then stop the workers.                                                  *)
(***************************************************************************)
close ==
    /\ ~closed
    /\ closed' = TRUE
    /\ Settle(Queued(queues))
    /\ queues' = [p \in Priorities |-> <<>>]
    /\ passed' = 0 /\ UNCHANGED last
    /\ UNCHANGED <<slot, overdue, given, crashes>>

stopWorker(s) ==
    /\ closed /\ InFlight(slot) = {}
    /\ slot[s].worker \in {"starting", "ready"}
    /\ slot' = [slot EXCEPT ![s] = [NoWorker EXCEPT !.worker = "stopped"]]
    /\ NoPump
    /\ UNCHANGED <<queues, closed, overdue, settled, given, crashes>>

WorkerNext(s) ==
    \/ workerReady(s) \/ workerResult(s) \/ startFails(s) \/ respawn(s) \/ stopWorker(s)

Next ==
    \/ \E t \in Tasks : submit(t) \/ abort(t)
    \/ WaitedLong
    \/ \E s \in Slots : WorkerNext(s) \/ workerCrash(s)
    \/ close

\* Workers answer, start or fail to start, and timers fire; nobody has to
\* submit, abort, crash or close.
Fairness == \A s \in Slots : WF_vars(WorkerNext(s))

Spec == Init /\ [][Next]_vars /\ Fairness

-----------------------------------------------------------------------------
Waiting(t) == t \in Queued(queues)
Running(t) == \E s \in Slots : slot[s].task = t

(* An analysis is in one place only: waiting, with one worker, or settled; *)
(* its promise is settled once, whatever crashes, aborts and closing do.   *)
EachTaskOnce ==
    \A t \in given :
        /\ settled[t] = IF Waiting(t) \/ Running(t) THEN 0 ELSE 1
        /\ ~(Waiting(t) /\ Running(t))
        /\ \A s, x \in Slots : slot[s].task = t /\ slot[x].task = t => s = x

(* No worker idles while work waits: every handler that frees a worker or  *)
(* adds work pumps.                                                        *)
NoIdleWorker == Queued(queues) # {} => Free(slot) = {}

(* Overdue background work "alternates with interactive work (no           *)
(* starvation either way)": at most one interactive analysis begins before *)
(* it does.                                                                *)
OverdueIsNext == passed <= 1

(* Every analysis handed in is settled in the end: none hangs because its  *)
(* worker crashed, a replacement failed to start or the pool was closed.   *)
EverySubmissionSettles == \A t \in Tasks : (t \in given) ~> (settled[t] > 0)
=============================================================================
