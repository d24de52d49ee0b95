-------------------------------- MODULE Sched --------------------------------
(***************************************************************************)
(* The scheduler (sched/mod.rs): a queue per priority, the current task    *)
(* and the idle task, which is in no queue until it has once run.  The     *)
(* kernel never blocks or ends a task; states Blocked and Zombie are set   *)
(* here by the running task itself, and waking puts it in its queue.       *)
(***************************************************************************)
EXTENDS IntrusiveList, SequencesExt, FiniteSets

CONSTANTS
  Tasks,        \* tasks, Idle among them
  Idle,         \* the task for set_idle
  priority,     \* Task::priority of each: 0..4, the idle task's is 0
  TimeSlice     \* ticks of a time slice: 10 in the code

ASSUME SchedAssumption ==
  /\ IsFiniteSet(Tasks) /\ Idle \in Tasks /\ None \notin Tasks
  /\ priority \in [Tasks -> 0..4]
  /\ TimeSlice \in Nat \ {0}

VARIABLES
  tasks,        \* the tasks that exist: state and time_slice
  run_queues,   \* run_queues, one per priority
  node,         \* run_queue_node of each task
  current,      \* SCHEDULER.current
  ready_count,
  stopped       \* history: tasks that stopped and were not woken since

schedVars == <<tasks, run_queues, node, current, ready_count, stopped>>

Priorities == 0..4
Born == DOMAIN tasks
NewTask == [state |-> "Ready", time_slice |-> TimeSlice]

\* The scheduler as one record, for the functions that change it twice.
Sch == [tasks |-> tasks, queues |-> run_queues, node |-> node, current |-> current, ready |-> ready_count]
Become(s) == /\ tasks' = s.tasks /\ run_queues' = s.queues /\ node' = s.node
             /\ current' = s.current /\ ready_count' = s.ready

enqueue(s, t) ==
  LET x == push_back(s.queues[priority[t]], s.node, t)
  IN  [s EXCEPT !.queues[priority[t]] = x.list, !.node = x.links, !.ready = @ + 1]

\* The queue pick_next takes from: the highest that is not empty.
Waiting(s) == {p \in Priorities : ~is_empty(s.queues[p])}
Highest(s) == CHOOSE p \in Waiting(s) : \A q \in Waiting(s) : q <= p

Dequeued(s) ==
  LET p == Highest(s)
      x == pop_front(s.queues[p], s.node)
  IN  [s EXCEPT !.queues[p] = x.list, !.node = x.links, !.ready = @ - 1, !.current = s.queues[p].head]

\* Nothing to pick and no idle task: the current task stays.
pick_next(s) ==
  IF Waiting(s) # {} THEN Dequeued(s)
  ELSE IF Idle \in DOMAIN s.tasks THEN [s EXCEPT !.current = Idle]
  ELSE [s EXCEPT !.current = None]

\* Mutant: puts the old task back whatever its state.
PutBack_always(s) ==
  IF s.current = None THEN s
  ELSE enqueue([s EXCEPT !.tasks[s.current] = NewTask], s.current)
PutBack(s) ==
  IF s.current = None \/ s.tasks[s.current].state # "Running" THEN s
  ELSE enqueue([s EXCEPT !.tasks[s.current] = NewTask], s.current)

schedule(s) ==
  LET t == pick_next(PutBack(s))
  IN  IF t.current = None THEN s ELSE [t EXCEPT !.tasks[t.current].state = "Running"]
-----------------------------------------------------------------------------
SchedInit ==
  /\ tasks = <<>>
  /\ run_queues = [p \in Priorities |-> EmptyList]
  /\ node = [t \in Tasks |-> Unlinked]
  /\ current = None
  /\ ready_count = 0
  /\ stopped = {}

\* Task::new, then enqueue or set_idle.
Spawn(t) ==
  /\ t \notin Born
  /\ LET s == [Sch EXCEPT !.tasks = [u \in Born \cup {t} |-> IF u = t THEN NewTask ELSE tasks[u]]]
     IN  Become(IF t = Idle THEN s ELSE enqueue(s, t))
  /\ UNCHANGED stopped

\* The timer interrupt.
TimerTick ==
  /\ current # None
  /\ LET left == IF tasks[current].time_slice > 0 THEN tasks[current].time_slice - 1 ELSE 0
         s    == [Sch EXCEPT !.tasks[current].time_slice = left]
     IN  Become(IF left = 0 THEN schedule(s) ELSE s)
  /\ UNCHANGED stopped

\* sys_yield, and the kernel when it has created its first tasks.
Yield == Become(schedule(Sch)) /\ UNCHANGED stopped

\* The running task blocks or exits, and gives way.
Stop(state) ==
  /\ current # None /\ current # Idle /\ tasks[current].state = "Running"
  /\ Become(schedule([Sch EXCEPT !.tasks[current].state = state]))
  /\ stopped' = stopped \cup {current}

Wake(t) ==
  /\ t \in Born /\ tasks[t].state = "Blocked"
  /\ Become(enqueue([Sch EXCEPT !.tasks[t].state = "Ready"], t))
  /\ stopped' = stopped \ {t}

SchedNext ==
  \/ TimerTick
  \/ Yield
  \/ \E state \in {"Blocked", "Zombie"} : Stop(state)
  \/ \E t \in Tasks : Spawn(t) \/ Wake(t)
-----------------------------------------------------------------------------
Queue(p) == Walked(run_queues[p], node, Cardinality(Tasks) + 1)

\* A ready task waits once, in the queue of its priority, unless it is the idle
\* task; the running task is the current one and waits nowhere; a task that
\* stopped does neither until it is woken.
QueuesExact ==
  /\ \A p \in Priorities :
       /\ IsList(run_queues[p], node, Queue(p))
       /\ IsInjective(Queue(p))
       /\ ToSet(Queue(p)) \subseteq {t \in Born : tasks[t].state = "Ready" /\ priority[t] = p}
  /\ \A t \in Born :
       /\ tasks[t].state = "Ready" => t = Idle \/ t \in ToSet(Queue(priority[t]))
       /\ tasks[t].state = "Running" => t = current
       /\ t \in stopped => tasks[t].state \in {"Blocked", "Zombie"}
  /\ ready_count = run_queues[0].len + run_queues[1].len + run_queues[2].len
                   + run_queues[3].len + run_queues[4].len
=============================================================================
