----------------------------- MODULE ThreadPool -----------------------------
(***************************************************************************)
(* The thread pool of thread_pool.c, the main thread that feeds it and the *)
(* SIGINT handler that destroys it.                                        *)
(*                                                                         *)
(* A task is the memory of one task_t; main allocates a fresh one for each *)
(* connection.  What a task does is left out but for its end.  The list of *)
(* tasks is accessed under pool->lock only, so a critical section is two   *)
(* steps: taking the lock, and the rest up to its release; a signal may    *)
(* come between the two.  Nobody ever waits on pool->cond, so its signal   *)
(* and broadcast do nothing.                                               *)
(***************************************************************************)
EXTENDS Integers, Sequences

CONSTANTS
    Requested,    \* the argument of thread_pool_create
    Task,         \* memory of tasks
    Null,         \* the null pointer
    MaxSignals    \* a bound: how many SIGINTs the process gets

ASSUME PoolAssumption ==
    /\ Requested \in Int
    /\ Null \notin Task
    /\ MaxSignals \in Nat

thread_count == IF Requested <= 0 THEN 5 ELSE Requested

Main == 0
Worker == 1..thread_count
Thread == 0..thread_count
Nobody == -1

VARIABLES
    up,        \* the process runs
    signals,   \* SIGINTs delivered so far
    assigned,  \* the global variable pool is set
    made,      \* threads that thread_pool_create has created
    shutdown, task_head, task_tail, task_count,   \* fields of the pool
    lock,      \* the thread that holds pool->lock, or Nobody
    next,      \* next[t]: the link of task t
    used,      \* tasks that have been allocated
    new,       \* the task main is about to add
    queued,    \* history variable: tasks added and not yet taken, in order
    pc,        \* pc[t]: what thread t does next
    run,       \* run[w]: the task that worker w runs
    dpc,       \* dpc[t]: where t is in thread_pool_destroy, "out" if it is not
    i,         \* i[t]: the thread that t's loop in thread_pool_destroy is at
    joiner,    \* joiner[w]: the thread that waits in pthread_join for w
    reaped,    \* threads that have been joined
    freed      \* the pool's memory has been freed

process == <<up, signals, assigned, made>>
links == <<task_head, task_tail, task_count, next>>
tasks == <<used, new, queued>>
destroying == <<dpc, i, joiner, reaped, freed>>
vars == <<process, shutdown, links, lock, tasks, pc, run, destroying>>

Label == {"none", "create", "accept", "addLock", "addBody", "lock", "check", "run", "exited"}
DestroyLabel == {"out", "lock", "flag", "join", "wait", "exit"}

(* Types of the variables of thread_pool.c, main.c and their threads. *)
TypeOK ==
    /\ up \in BOOLEAN /\ assigned \in BOOLEAN /\ shutdown \in BOOLEAN /\ freed \in BOOLEAN
    /\ signals \in 0..MaxSignals
    /\ made \in 0..thread_count
    /\ task_head \in Task \cup {Null} /\ task_tail \in Task \cup {Null}
    /\ new \in Task \cup {Null}
    /\ task_count \in Nat
    /\ lock \in Thread \cup {Nobody}
    /\ next \in [Task -> Task \cup {Null}]
    /\ used \in SUBSET Task
    /\ queued \in Seq(Task)
    /\ pc \in [Thread -> Label]
    /\ run \in [Worker -> Task \cup {Null}]
    /\ dpc \in [Thread -> DestroyLabel]
    /\ i \in [Thread -> 1..(thread_count + 1)]
    /\ joiner \in [Worker -> Thread \cup {Nobody}]
    /\ reaped \in SUBSET Worker

(* thread_pool_create up to the creation of the threads. *)
Init ==
    /\ up = TRUE /\ signals = 0 /\ assigned = FALSE /\ made = 0
    /\ shutdown = FALSE
    /\ task_head = Null /\ task_tail = Null /\ task_count = 0
    /\ next = [t \in Task |-> Null]
    /\ lock = Nobody
    /\ used = {} /\ new = Null /\ queued = <<>>
    /\ pc = [t \in Thread |-> IF t = Main THEN "create" ELSE "none"]
    /\ run = [w \in Worker |-> Null]
    /\ dpc = [t \in Thread |-> "out"]
    /\ i = [t \in Thread |-> 1]
    /\ joiner = [w \in Worker |-> Nobody]
    /\ reaped = {} /\ freed = FALSE

(* A thread in thread_pool_destroy does not go on with what it was doing. *)
At(t, label) == up /\ dpc[t] = "out" /\ pc[t] = label
Goto(t, label) == pc' = [pc EXCEPT ![t] = label]

Acquire(t) == lock = Nobody /\ lock' = t
Release == lock' = Nobody

-----------------------------------------------------------------------------
(* The main thread.                                                        *)

(* One pthread_create of the loop, and the return of the pool, which main
   puts in its global variable. *)
Create ==
    /\ At(Main, "create")
    /\ made < thread_count
    /\ made' = made + 1
    /\ Goto(made + 1, "lock")
    /\ UNCHANGED <<up, signals, assigned, shutdown, links, lock, tasks, run, destroying>>

Created ==
    /\ At(Main, "create")
    /\ made = thread_count
    /\ assigned' = TRUE
    /\ Goto(Main, "accept")
    /\ UNCHANGED <<up, signals, made, shutdown, links, lock, tasks, run, destroying>>

(* pthread_create fails: the pool is destroyed, and main returns. *)
CreateFails ==
    /\ At(Main, "create")
    /\ made < thread_count
    /\ dpc' = [dpc EXCEPT ![Main] = "lock"]
    /\ UNCHANGED <<process, shutdown, links, lock, tasks, pc, run, i, joiner, reaped, freed>>

(* A connection: thread_pool_add_task allocates a task for it.  Where malloc
   fails there is no task. *)
Accept ==
    /\ At(Main, "accept")
    /\ \E t \in Task \ used :
         /\ new' = t
         /\ used' = used \cup {t}
         /\ next' = [next EXCEPT ![t] = Null]
    /\ Goto(Main, "addLock")
    /\ UNCHANGED <<process, shutdown, task_head, task_tail, task_count, lock, queued, run, destroying>>

AddLock ==
    /\ At(Main, "addLock")
    /\ Acquire(Main)
    /\ Goto(Main, "addBody")
    /\ UNCHANGED <<process, shutdown, links, tasks, run, destroying>>

(* Mutant: the tail moves only when the list was empty. *)
LinkAtTail_TailStays ==
    /\ IF task_head = Null
       THEN task_head' = new /\ task_tail' = new /\ UNCHANGED next
       ELSE next' = [next EXCEPT ![task_tail] = new] /\ UNCHANGED <<task_head, task_tail>>
    /\ task_count' = task_count + 1

LinkAtTail ==
    /\ IF task_head = Null
       THEN task_head' = new /\ UNCHANGED next
       ELSE next' = [next EXCEPT ![task_tail] = new] /\ UNCHANGED task_head
    /\ task_tail' = new
    /\ task_count' = task_count + 1

AddBody ==
    /\ At(Main, "addBody")
    /\ LinkAtTail
    /\ queued' = Append(queued, new)
    /\ new' = Null
    /\ Release
    /\ Goto(Main, "accept")
    /\ UNCHANGED <<process, shutdown, used, run, destroying>>

-----------------------------------------------------------------------------
(* worker_thread                                                           *)

Lock(w) ==
    /\ At(w, "lock")
    /\ Acquire(w)
    /\ Goto(w, "check")
    /\ UNCHANGED <<process, shutdown, links, tasks, run, destroying>>

(* Under the lock: leave when the pool shuts down, go round when there is
   nothing to do, or take the task at the head. *)
Leave(w) ==
    /\ At(w, "check")
    /\ shutdown
    /\ Release
    /\ Goto(w, "exited")
    /\ UNCHANGED <<process, shutdown, links, tasks, run, destroying>>

Poll(w) ==
    /\ At(w, "check")
    /\ ~shutdown
    /\ task_head = Null
    /\ Release
    /\ Goto(w, "lock")
    /\ UNCHANGED <<process, shutdown, links, tasks, run, destroying>>

(* Mutant: the list is cut off behind the head. *)
UnlinkHead_CutsOff ==
    /\ task_head' = Null
    /\ task_tail' = Null
    /\ task_count' = task_count - 1
    /\ UNCHANGED next

UnlinkHead ==
    /\ task_head' = next[task_head]
    /\ task_tail' = IF next[task_head] = Null THEN Null ELSE task_tail
    /\ task_count' = task_count - 1
    /\ UNCHANGED next

(* Mutant: the task at the tail is run where the head is unlinked. *)
TakeTask_RunsTail(w) ==
    /\ At(w, "check")
    /\ ~shutdown
    /\ task_head # Null
    /\ run' = [run EXCEPT ![w] = task_tail]
    /\ UnlinkHead
    /\ queued' = Tail(queued)
    /\ Release
    /\ Goto(w, "run")
    /\ UNCHANGED <<process, shutdown, used, new, destroying>>

TakeTask(w) ==
    /\ At(w, "check")
    /\ ~shutdown
    /\ task_head # Null
    /\ run' = [run EXCEPT ![w] = task_head]
    /\ UnlinkHead
    /\ queued' = Tail(queued)
    /\ Release
    /\ Goto(w, "run")
    /\ UNCHANGED <<process, shutdown, used, new, destroying>>

(* The task function returns: the client has gone. *)
EndTask(w) ==
    /\ At(w, "run")
    /\ run' = [run EXCEPT ![w] = Null]
    /\ Goto(w, "lock")
    /\ UNCHANGED <<process, shutdown, links, lock, tasks, destroying>>

-----------------------------------------------------------------------------
(* SIGINT and thread_pool_destroy.                                         *)

(* The kernel gives the signal to the main thread unless that is in the
   handler already, which blocks it; then to some other thread. *)
Catchers ==
    IF dpc[Main] = "out" THEN {Main}
    ELSE {w \in Worker : dpc[w] = "out" /\ pc[w] \notin {"none", "exited"}}

(* Before pool is assigned the handler has nothing to destroy and exits. *)
Signal ==
    /\ up
    /\ signals < MaxSignals
    /\ signals' = signals + 1
    /\ IF assigned
       THEN /\ \E t \in Catchers : dpc' = [dpc EXCEPT ![t] = "lock"]
            /\ UNCHANGED up
       ELSE up' = FALSE /\ UNCHANGED dpc
    /\ UNCHANGED <<assigned, made, shutdown, links, lock, tasks, pc, run, i, joiner, reaped, freed>>

Destroying(t, label) == up /\ dpc[t] = label
Proceed(t, label) == dpc' = [dpc EXCEPT ![t] = label]

DestroyLock(t) ==
    /\ Destroying(t, "lock")
    /\ Acquire(t)
    /\ Proceed(t, "flag")
    /\ UNCHANGED <<process, shutdown, links, tasks, pc, run, i, joiner, reaped, freed>>

(* Mutant: shutdown is not set. *)
SetShutdown_Forgets(t) ==
    /\ Destroying(t, "flag")
    /\ Release
    /\ Proceed(t, "join")
    /\ UNCHANGED <<process, shutdown, links, tasks, pc, run, i, joiner, reaped, freed>>

SetShutdown(t) ==
    /\ Destroying(t, "flag")
    /\ shutdown' = TRUE
    /\ Release
    /\ Proceed(t, "join")
    /\ UNCHANGED <<process, links, tasks, pc, run, i, joiner, reaped, freed>>

(* pthread_join waits for a thread that was created, is not the caller, was
   not joined before and that nobody else waits for. *)
Joinable(t, w) == w <= made /\ w # t /\ w \notin reaped /\ joiner[w] = Nobody

Join(t) ==
    /\ Destroying(t, "join")
    /\ i[t] <= thread_count
    /\ Joinable(t, i[t])
    /\ joiner' = [joiner EXCEPT ![i[t]] = t]
    /\ Proceed(t, "wait")
    /\ UNCHANGED <<process, shutdown, links, lock, tasks, pc, run, i, reaped, freed>>

(* Mutant: the loop goes one thread too far. *)
JoinFails_OneMore(t) ==
    /\ Destroying(t, "join")
    /\ i[t] <= thread_count + 1
    /\ ~Joinable(t, i[t])
    /\ i' = [i EXCEPT ![t] = @ + 1]
    /\ UNCHANGED <<process, shutdown, links, lock, tasks, pc, run, dpc, joiner, reaped, freed>>

(* Any other call returns an error, which is ignored.  With a thread id that
   was never written, or one of a thread already joined, it may also crash. *)
JoinFails(t) ==
    /\ Destroying(t, "join")
    /\ i[t] <= thread_count
    /\ ~Joinable(t, i[t])
    /\ \/ i' = [i EXCEPT ![t] = @ + 1] /\ UNCHANGED up
       \/ (i[t] > made \/ i[t] \in reaped) /\ up' = FALSE /\ UNCHANGED i
    /\ UNCHANGED <<signals, assigned, made, shutdown, links, lock, tasks, pc, run, dpc,
                   joiner, reaped, freed>>

(* Mutant: the wait ends whether or not the thread has. *)
Joined_Early(t) ==
    /\ Destroying(t, "wait")
    /\ reaped' = reaped \cup {i[t]}
    /\ joiner' = [joiner EXCEPT ![i[t]] = Nobody]
    /\ i' = [i EXCEPT ![t] = @ + 1]
    /\ Proceed(t, "join")
    /\ UNCHANGED <<process, shutdown, links, lock, tasks, pc, run, freed>>

Joined(t) ==
    /\ Destroying(t, "wait")
    /\ pc[i[t]] = "exited"
    /\ reaped' = reaped \cup {i[t]}
    /\ joiner' = [joiner EXCEPT ![i[t]] = Nobody]
    /\ i' = [i EXCEPT ![t] = @ + 1]
    /\ Proceed(t, "join")
    /\ UNCHANGED <<process, shutdown, links, lock, tasks, pc, run, freed>>

(* The tasks that are left and the pool are freed. *)
Free(t) ==
    /\ Destroying(t, "join")
    /\ i[t] = thread_count + 1
    /\ queued' = <<>>
    /\ freed' = TRUE
    /\ Proceed(t, "exit")
    /\ UNCHANGED <<process, shutdown, links, lock, used, new, pc, run, i, joiner, reaped>>

(* exit(0) in the handler, or the return of main. *)
Exit(t) ==
    /\ Destroying(t, "exit")
    /\ up' = FALSE
    /\ UNCHANGED <<signals, assigned, made, shutdown, links, lock, tasks, pc, run, destroying>>

-----------------------------------------------------------------------------

MainStep == Create \/ Created \/ CreateFails \/ Accept \/ AddLock \/ AddBody
Critical(w) == Leave(w) \/ Poll(w) \/ TakeTask(w)
WorkerStep(w) == Lock(w) \/ Critical(w) \/ EndTask(w)
DestroyStep(t) ==
    \/ DestroyLock(t) \/ SetShutdown(t) \/ Join(t) \/ JoinFails(t) \/ Joined(t)
    \/ Free(t) \/ Exit(t)
Down == ~up /\ UNCHANGED vars

Next ==
    \/ MainStep
    \/ \E w \in Worker : WorkerStep(w)
    \/ Signal
    \/ \E t \in Thread : DestroyStep(t)
    \/ Down

Spec == Init /\ [][Next]_vars

(* Every thread gets the processor, and a mutex that is free again and again
   is not withheld for ever from a thread that waits for it.  TasksEnd: every
   client hangs up some day. *)
Fairness ==
    /\ SF_vars(AddLock)
    /\ WF_vars(Create \/ Created) /\ WF_vars(AddBody)
    /\ \A w \in Worker : SF_vars(Lock(w)) /\ WF_vars(Critical(w))
    /\ \A t \in Thread : SF_vars(DestroyLock(t)) /\ WF_vars(DestroyStep(t))

TasksEnd == \A w \in Worker : WF_vars(EndTask(w))

FairSpec == Spec /\ Fairness
LeavingSpec == FairSpec /\ TasksEnd

-----------------------------------------------------------------------------
(* Properties.                                                             *)

(* The linked list holds exactly the tasks added and not yet taken, in the
   order of their addition: head, links, tail and count agree with it between
   any two critical sections (thread_pool_add_task, worker_thread). *)
QueueShape ==
    freed \/
    /\ task_count = Len(queued)
    /\ task_head = (IF queued = <<>> THEN Null ELSE queued[1])
    /\ task_tail = (IF queued = <<>> THEN Null ELSE queued[Len(queued)])
    /\ \A k \in DOMAIN queued :
         next[queued[k]] = (IF k = Len(queued) THEN Null ELSE queued[k + 1])

(* When the pool is freed no thread will use it again: every worker that was
   created has ended, and whoever destroys the pool is past it. *)
FreedAlone ==
    freed => \A t \in Thread :
        dpc[t] = "exit" \/ (t # Main /\ pc[t] \in {"none", "exited"})

(* The pool implements TaskQueue: what a worker runs is what was at the head
   of the line, and no task is lost, run twice or overtaken. *)
Queue == INSTANCE TaskQueue WITH
    queue <- queued,
    running <- run,
    seen <- used \ {new}

ImplementsTaskQueue == Queue!Spec

(* A task that main hands over is run by some worker. *)
TaskIsRun ==
    \A t \in Task : new = t ~> (\E w \in Worker : run[w] = t) \/ signals > 0 \/ ~up

(* A destruction that can take the lock comes to its end and the process with
   it, when the clients leave. *)
ShutdownEnds ==
    \A t \in Thread : dpc[t] = "flag" ~> ~up

(* The same of every destruction that has begun. *)
ShutdownAlwaysEnds ==
    \A t \in Thread : dpc[t] = "lock" ~> ~up
=============================================================================
