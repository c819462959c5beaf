--------------------------- MODULE ThreadPoolProofs ---------------------------
(***************************************************************************)
(* Theorems about ThreadPool, for any number of threads and tasks, where   *)
(* the process gets at most one SIGINT.  With a second one, which a worker *)
(* has to handle, the pool is freed under the feet of its threads.         *)
(***************************************************************************)
EXTENDS ThreadPool, TLAPS

OneSignal == MaxSignals <= 1

(* Main is thread 0, the workers are the others, and there is one at least. *)
LEMMA Threads ==
    /\ thread_count \in Nat /\ thread_count >= 1
    /\ Main \in Thread /\ Main \notin Worker
    /\ Worker \subseteq Thread
    /\ Nobody \notin Thread
    /\ \A t \in Thread : t = Main \/ t \in Worker
BY PoolAssumption DEF thread_count, Main, Worker, Thread, Nobody

-----------------------------------------------------------------------------
(* The inductive invariant.                                                *)

MainLabel == {"create", "accept", "addLock", "addBody"}
WorkerLabel == {"none", "lock", "check", "run", "exited"}
Gone(w) == pc[w] \in {"none", "exited"}

(* Only main destroys the pool, and its loop of joins leaves no worker
   behind it that still runs. *)
MainDestroys ==
    /\ pc[Main] \in MainLabel
    /\ pc[Main] = "create" <=> ~assigned
    /\ \A w \in Worker : dpc[w] = "out" /\ pc[w] \in WorkerLabel
    /\ \A w \in Worker : pc[w] = "none" <=> w > made
    /\ dpc[Main] # "out" => signals = 1 \/ ~assigned
    /\ dpc[Main] \in {"out", "lock", "flag"} => i[Main] = 1
    /\ dpc[Main] \in {"join", "wait"} => \A w \in Worker : w < i[Main] => Gone(w)
    /\ dpc[Main] = "wait" => i[Main] \in Worker
    /\ \A w \in Worker : joiner[w] # Nobody => dpc[Main] = "wait" /\ i[Main] = w
    /\ \A w \in reaped : pc[w] = "exited"
    /\ dpc[Main] = "exit" => \A w \in Worker : Gone(w)
    /\ freed => dpc[Main] = "exit"

(* The list of tasks is what it should be, without repetition, and a task is
   in one place only: about to be added, in the list, or with a worker. *)
ListOfTasks ==
    /\ QueueShape
    /\ \A k, l \in DOMAIN queued : k # l => queued[k] # queued[l]
    /\ \A k \in DOMAIN queued : queued[k] \in used /\ queued[k] # new
    /\ new # Null => new \in used /\ next[new] = Null
    /\ new # Null <=> pc[Main] \in {"addLock", "addBody"}
    /\ \A w \in Worker : run[w] # Null <=> pc[w] = "run"

Inv == TypeOK /\ MainDestroys /\ ListOfTasks

LEMMA InitInv == Init => Inv
<1> SUFFICES ASSUME Init PROVE Inv
  OBVIOUS
<1> USE Threads, PoolAssumption
<1>1. TypeOK
  <2>1. pc \in [Thread -> Label] /\ dpc \in [Thread -> DestroyLabel]
    BY DEF Init, Label, DestroyLabel
  <2>2. i \in [Thread -> 1..(thread_count + 1)] /\ joiner \in [Worker -> Thread \cup {Nobody}]
    BY DEF Init
  <2>3. next \in [Task -> Task \cup {Null}] /\ run \in [Worker -> Task \cup {Null}]
    BY DEF Init
  <2>4. queued \in Seq(Task) /\ used \in SUBSET Task /\ reaped \in SUBSET Worker
    BY DEF Init
  <2>5. signals \in 0..MaxSignals /\ made \in 0..thread_count /\ task_count \in Nat
    BY DEF Init
  <2> QED BY <2>1, <2>2, <2>3, <2>4, <2>5 DEF Init, TypeOK
<1>2. MainDestroys
  BY DEF Init, MainDestroys, MainLabel, WorkerLabel, Worker
<1>3. ListOfTasks
  BY DEF Init, ListOfTasks, QueueShape
<1> QED BY <1>1, <1>2, <1>3 DEF Inv

-----------------------------------------------------------------------------
(* What the three parts of the invariant depend on.                        *)

(* A step that leaves the tasks alone keeps the list, unless it moves main
   into or out of adding a task, or a worker into or out of running one. *)
LEMMA ListFrame ==
    ASSUME ListOfTasks, UNCHANGED <<links, tasks, run, freed>>,
           pc'[Main] \in {"addLock", "addBody"} <=> pc[Main] \in {"addLock", "addBody"},
           \A w \in Worker : pc'[w] = "run" <=> pc[w] = "run"
    PROVE  ListOfTasks'
BY DEF ListOfTasks, QueueShape, links, tasks

(* A step that leaves the destruction alone keeps MainDestroys: no thread
   that is gone comes back, and none goes back to not being created. *)
LEMMA DestroyFrame ==
    ASSUME TypeOK, MainDestroys, UNCHANGED <<signals, assigned, made, destroying>>,
           \A w \in Worker : Gone(w) => pc'[w] = pc[w],
           \A w \in Worker : ~Gone(w) => pc'[w] \in WorkerLabel \ {"none"},
           pc'[Main] \in MainLabel,
           pc'[Main] = "create" <=> pc[Main] = "create"
    PROVE  MainDestroys'
<1>1. UNCHANGED <<dpc, i, joiner, reaped, freed, signals, assigned, made>>
  BY DEF destroying
<1>2. \A w \in Worker : Gone(w) => Gone(w)'
  BY DEF Gone
<1>3. \A w \in Worker : pc'[w] = "none" <=> pc[w] = "none"
  BY DEF Gone
<1>4. \A w \in Worker : pc'[w] \in WorkerLabel
  BY DEF Gone, WorkerLabel
<1>5. \A w \in reaped : w \in Worker /\ pc'[w] = "exited"
  BY DEF MainDestroys, TypeOK, Gone
<1> QED BY <1>1, <1>2, <1>3, <1>4, <1>5 DEF MainDestroys

(* A step that moves one thread keeps the types of the program counters. *)
LEMMA GotoType ==
    ASSUME TypeOK, NEW t \in Thread, NEW l \in Label, Goto(t, l)
    PROVE  /\ pc' \in [Thread -> Label]
           /\ \A u \in Thread : pc'[u] = IF u = t THEN l ELSE pc[u]
BY DEF TypeOK, Goto

(* A thread that acts outside thread_pool_destroy means the pool is alive. *)
LEMMA Alive ==
    ASSUME MainDestroys,
           dpc[Main] = "out" \/ \E w \in Worker : ~Gone(w)
    PROVE  ~freed
BY DEF MainDestroys

-----------------------------------------------------------------------------
(* Types.                                                                  *)

(* What main does keeps the types. *)
LEMMA MainTypes ==
    ASSUME Inv, MainStep PROVE TypeOK'
<1> USE Threads, PoolAssumption DEF Inv
<1> USE DEF process, links, tasks, destroying
<1>1. CASE Create
  <2>1. made + 1 \in Thread /\ made' = made + 1 /\ made' \in 0..thread_count
    BY <1>1 DEF Create, TypeOK, Thread
  <2>2. pc' \in [Thread -> Label]
    BY <1>1, <2>1, GotoType DEF Create, Label
  <2> QED BY <1>1, <2>1, <2>2 DEF Create, TypeOK
<1>2. CASE Created
  <2>1. pc' \in [Thread -> Label]
    BY <1>2, GotoType DEF Created, Label
  <2> QED BY <1>2, <2>1 DEF Created, TypeOK
<1>3. CASE CreateFails
  <2>1. dpc' \in [Thread -> DestroyLabel]
    BY <1>3 DEF CreateFails, TypeOK, DestroyLabel
  <2> QED BY <1>3, <2>1 DEF CreateFails, TypeOK
<1>4. CASE Accept
  <2>1. pc' \in [Thread -> Label]
    BY <1>4, GotoType DEF Accept, Label
  <2>2. new' \in Task /\ used' \in SUBSET Task /\ next' \in [Task -> Task \cup {Null}]
    BY <1>4 DEF Accept, TypeOK
  <2> QED BY <1>4, <2>1, <2>2 DEF Accept, TypeOK
<1>5. CASE AddLock
  <2>1. pc' \in [Thread -> Label]
    BY <1>5, GotoType DEF AddLock, Label
  <2> QED BY <1>5, <2>1 DEF AddLock, Acquire, TypeOK
<1>6. CASE AddBody
  <2>1. pc' \in [Thread -> Label]
    BY <1>6, GotoType DEF AddBody, Label
  <2>2. new \in Task
    BY <1>6 DEF AddBody, At, ListOfTasks, TypeOK
  <2>3. queued' \in Seq(Task)
    BY <1>6, <2>2 DEF AddBody, TypeOK
  <2>4. /\ task_head' \in Task \cup {Null} /\ task_tail' \in Task \cup {Null}
        /\ next' \in [Task -> Task \cup {Null}] /\ task_count' \in Nat
    <3>1. LinkAtTail
      BY <1>6 DEF AddBody
    <3>2. CASE task_head = Null
      BY <2>2, <3>1, <3>2 DEF LinkAtTail, TypeOK
    <3>3. CASE task_head # Null
      <4>1. next' = [next EXCEPT ![task_tail] = new] /\ task_head' = task_head
        BY <3>1, <3>3 DEF LinkAtTail
      <4>2. next' \in [Task -> Task \cup {Null}]
        BY <2>2, <4>1 DEF TypeOK
      <4> QED BY <2>2, <3>1, <4>1, <4>2 DEF LinkAtTail, TypeOK
    <3> QED BY <3>2, <3>3
  <2> QED BY <1>6, <2>1, <2>2, <2>3, <2>4 DEF AddBody, Release, TypeOK
<1> QED BY <1>1, <1>2, <1>3, <1>4, <1>5, <1>6 DEF MainStep

(* A task can only be taken from a list that holds one. *)
LEMMA HeadOfList ==
    ASSUME Inv, NEW w \in Worker, TakeTask(w)
    PROVE  /\ queued # <<>> /\ Len(queued) \in Nat \ {0}
           /\ task_head = Head(queued) /\ task_head \in Task
           /\ task_count = Len(queued)
           /\ 1 \in DOMAIN queued
           /\ next[task_head] = (IF Len(queued) = 1 THEN Null ELSE queued[2])
<1>1. ~freed
  BY Alive DEF Inv, TakeTask, At, Gone
<1>2. queued # <<>> /\ task_head = queued[1] /\ task_count = Len(queued) /\ queued \in Seq(Task)
  BY <1>1 DEF Inv, ListOfTasks, QueueShape, TakeTask, TypeOK
<1>3. Len(queued) \in Nat \ {0} /\ 1 \in DOMAIN queued /\ Head(queued) = queued[1]
  BY <1>2
<1>4. next[queued[1]] = (IF 1 = Len(queued) THEN Null ELSE queued[1 + 1])
  BY <1>1, <1>3 DEF Inv, ListOfTasks, QueueShape
<1> QED BY <1>2, <1>3, <1>4

(* What a worker does keeps the types. *)
LEMMA WorkerTypes ==
    ASSUME Inv, NEW w \in Worker, WorkerStep(w) PROVE TypeOK'
<1> USE Threads, PoolAssumption DEF Inv
<1> USE DEF process, links, tasks, destroying
<1>1. CASE Lock(w)
  <2>1. pc' \in [Thread -> Label]
    BY <1>1, GotoType DEF Lock, Label
  <2> QED BY <1>1, <2>1 DEF Lock, Acquire, TypeOK
<1>2. CASE Leave(w)
  <2>1. pc' \in [Thread -> Label]
    BY <1>2, GotoType DEF Leave, Label
  <2> QED BY <1>2, <2>1 DEF Leave, Release, TypeOK
<1>3. CASE Poll(w)
  <2>1. pc' \in [Thread -> Label]
    BY <1>3, GotoType DEF Poll, Label
  <2> QED BY <1>3, <2>1 DEF Poll, Release, TypeOK
<1>4. CASE TakeTask(w)
  <2>1. pc' \in [Thread -> Label]
    BY <1>4, GotoType DEF TakeTask, Label
  <2>2. queued' \in Seq(Task)
    <3>1. queued # <<>> /\ queued \in Seq(Task) /\ queued' = Tail(queued)
      BY <1>4, HeadOfList DEF TakeTask, TypeOK
    <3> QED BY <3>1
  <2>3. /\ task_head' \in Task \cup {Null} /\ task_tail' \in Task \cup {Null}
        /\ next' = next /\ task_count' \in Nat
    <3>1. task_head \in Task /\ task_count \in Nat \ {0}
      BY <1>4, HeadOfList
    <3>2. UnlinkHead
      BY <1>4 DEF TakeTask
    <3>3. next[task_head] \in Task \cup {Null}
      BY <3>1 DEF TypeOK
    <3> QED BY <3>1, <3>2, <3>3 DEF UnlinkHead, TypeOK
  <2>4. run' \in [Worker -> Task \cup {Null}]
    BY <1>4, HeadOfList DEF TakeTask, TypeOK
  <2> QED BY <1>4, <2>1, <2>2, <2>3, <2>4 DEF TakeTask, Release, TypeOK
<1>5. CASE EndTask(w)
  <2>1. pc' \in [Thread -> Label]
    BY <1>5, GotoType DEF EndTask, Label
  <2>2. run' \in [Worker -> Task \cup {Null}]
    BY <1>5 DEF EndTask, TypeOK
  <2> QED BY <1>5, <2>1, <2>2 DEF EndTask, TypeOK
<1> QED BY <1>1, <1>2, <1>3, <1>4, <1>5 DEF WorkerStep, Critical

(* SIGINT and thread_pool_destroy keep the types. *)
LEMMA DestroyTypes ==
    ASSUME Inv, Signal \/ \E t \in Thread : DestroyStep(t) PROVE TypeOK'
<1> USE Threads, PoolAssumption DEF Inv
<1> USE DEF process, links, tasks
<1>1. CASE Signal
  <2>1. Catchers \subseteq Thread
    BY DEF Catchers
  <2>2. dpc' \in [Thread -> DestroyLabel] /\ up' \in BOOLEAN
    BY <1>1, <2>1 DEF Signal, TypeOK, DestroyLabel
  <2>3. signals' \in 0..MaxSignals
    BY <1>1 DEF Signal, TypeOK
  <2> QED BY <1>1, <2>2, <2>3 DEF Signal, TypeOK
<1>2. ASSUME NEW t \in Thread, DestroyStep(t) PROVE TypeOK'
  <2> DEFINE Moves == dpc' \in [Thread -> DestroyLabel]
  <2>1. CASE DestroyLock(t)
    <3>1. Moves
      BY <2>1 DEF DestroyLock, Proceed, TypeOK, DestroyLabel
    <3> QED BY <2>1, <3>1 DEF DestroyLock, Acquire, TypeOK
  <2>2. CASE SetShutdown(t)
    <3>1. Moves
      BY <2>2 DEF SetShutdown, Proceed, TypeOK, DestroyLabel
    <3> QED BY <2>2, <3>1 DEF SetShutdown, Release, TypeOK
  <2>3. CASE Join(t)
    <3>1. Moves
      BY <2>3 DEF Join, Proceed, TypeOK, DestroyLabel
    <3>2. joiner' \in [Worker -> Thread \cup {Nobody}]
      BY <2>3 DEF Join, TypeOK
    <3> QED BY <2>3, <3>1, <3>2 DEF Join, TypeOK
  <2>4. CASE JoinFails(t)
    <3>1. i' \in [Thread -> 1..(thread_count + 1)] /\ up' \in BOOLEAN
      <4>1. i[t] \in 1..thread_count /\ i \in [Thread -> 1..(thread_count + 1)]
        BY <2>4 DEF JoinFails, TypeOK
      <4>2. CASE i' = [i EXCEPT ![t] = @ + 1] /\ UNCHANGED up
        BY <4>1, <4>2 DEF TypeOK
      <4>3. CASE up' = FALSE /\ UNCHANGED i
        BY <4>1, <4>3
      <4> QED BY <2>4, <4>2, <4>3 DEF JoinFails
    <3> QED BY <2>4, <3>1 DEF JoinFails, TypeOK
  <2>5. CASE Joined(t)
    <3>1. Moves
      BY <2>5 DEF Joined, Proceed, TypeOK, DestroyLabel
    <3>2. t = Main /\ i[t] \in Worker
      BY <2>5 DEF Joined, Destroying, MainDestroys
    <3>3. i' \in [Thread -> 1..(thread_count + 1)]
      BY <2>5, <3>2 DEF Joined, TypeOK, Worker
    <3>4. joiner' \in [Worker -> Thread \cup {Nobody}] /\ reaped' \in SUBSET Worker
      BY <2>5, <3>2 DEF Joined, TypeOK
    <3> QED BY <2>5, <3>1, <3>3, <3>4 DEF Joined, TypeOK
  <2>6. CASE Free(t)
    <3>1. Moves
      BY <2>6 DEF Free, Proceed, TypeOK, DestroyLabel
    <3> QED BY <2>6, <3>1 DEF Free, TypeOK
  <2>7. CASE Exit(t)
    BY <2>7 DEF Exit, TypeOK, destroying
  <2> QED BY <1>2, <2>1, <2>2, <2>3, <2>4, <2>5, <2>6, <2>7 DEF DestroyStep
<1> QED BY <1>1, <1>2

-----------------------------------------------------------------------------
(* Who destroys the pool, and whom it has waited for.                      *)

(* What main does outside thread_pool_destroy. *)
LEMMA MainDestruction ==
    ASSUME Inv, MainStep PROVE MainDestroys'
<1> USE Threads, PoolAssumption DEF Inv
<1>1. CASE Create
  <2>1. made + 1 \in Worker /\ made + 1 \in Thread /\ made' = made + 1
    BY <1>1 DEF Create, TypeOK, Worker, Thread
  <2>2. /\ \A u \in Thread : pc'[u] = IF u = made + 1 THEN "lock" ELSE pc[u]
        /\ UNCHANGED <<signals, assigned, destroying>>
        /\ dpc[Main] = "out"
    BY <1>1, <2>1, GotoType DEF Create, Label, At
  <2>3. pc[made + 1] = "none" /\ pc'[Main] = pc[Main]
    <3>1. made + 1 > made /\ made + 1 # Main
      BY <2>1 DEF TypeOK
    <3> QED BY <2>1, <2>2, <3>1 DEF MainDestroys
  <2>4. \A w \in Worker : pc'[w] = "none" <=> w > made'
    <3>1. made \in Nat /\ Worker \subseteq Nat
      BY DEF TypeOK, Worker
    <3>2. \A w \in Worker : w > made' <=> w > made /\ w # made + 1
      BY <2>1, <3>1
    <3>3. \A w \in Worker : pc[w] = "none" <=> w > made
      BY DEF MainDestroys
    <3> QED BY <2>2, <3>2, <3>3
  <2>5. \A w \in Worker : pc'[w] \in WorkerLabel
    BY <2>2 DEF MainDestroys, WorkerLabel
  <2>6. \A w \in reaped : pc'[w] = "exited"
    BY <2>2, <2>3 DEF MainDestroys, TypeOK
  <2> QED BY <2>2, <2>3, <2>4, <2>5, <2>6 DEF MainDestroys, destroying
<1>2. CASE Created
  <2>1. /\ \A u \in Thread : pc'[u] = IF u = Main THEN "accept" ELSE pc[u]
        /\ UNCHANGED <<signals, made, destroying>> /\ dpc[Main] = "out"
    BY <1>2, GotoType DEF Created, Label, At
  <2>2. \A w \in Worker : pc'[w] = pc[w]
    BY <2>1
  <2>3. \A w \in reaped : pc'[w] = pc[w]
    BY <2>2 DEF TypeOK
  <2>4. pc'[Main] = "accept" /\ assigned' = TRUE
    BY <1>2, <2>1 DEF Created
  <2>5. UNCHANGED <<signals, made, dpc, i, joiner, reaped, freed>>
    BY <2>1 DEF destroying
  <2>6. ~freed /\ \A w \in Worker : joiner[w] = Nobody
    BY <2>1 DEF MainDestroys
  <2> QED BY <2>1, <2>2, <2>3, <2>4, <2>5, <2>6 DEF MainDestroys, MainLabel
<1>3. CASE CreateFails
  <2>1. UNCHANGED <<signals, assigned, made, pc, i, joiner, reaped, freed>>
    BY <1>3 DEF CreateFails, process
  <2>2. ~assigned /\ dpc[Main] = "out"
    BY <1>3 DEF CreateFails, At, MainDestroys
  <2>3. dpc'[Main] = "lock" /\ \A w \in Worker : dpc'[w] = dpc[w]
    BY <1>3 DEF CreateFails, TypeOK
  <2>4. \A w \in Worker : joiner'[w] = Nobody
    BY <2>1, <2>2, <2>3 DEF MainDestroys
  <2> QED BY <2>1, <2>2, <2>3, <2>4 DEF MainDestroys
<1>4. CASE Accept \/ AddLock \/ AddBody
  <2>1. PICK l \in {"accept", "addLock", "addBody"} : Goto(Main, l)
    BY <1>4 DEF Accept, AddLock, AddBody
  <2>2. \A u \in Thread : pc'[u] = IF u = Main THEN l ELSE pc[u]
    BY <2>1, GotoType DEF Label
  <2>3. UNCHANGED <<signals, assigned, made, destroying>>
    BY <1>4 DEF Accept, AddLock, AddBody, process
  <2>4. \A w \in Worker : pc'[w] = pc[w]
    BY <2>2
  <2>5. pc[Main] # "create"
    BY <1>4 DEF Accept, AddLock, AddBody, At
  <2>6. \A w \in Worker : pc[w] \in WorkerLabel /\ (~Gone(w) => pc[w] # "none")
    BY DEF MainDestroys, Gone
  <2>7. pc'[Main] \in MainLabel /\ pc'[Main] # "create"
    BY <2>2 DEF MainLabel
  <2> QED BY <2>3, <2>4, <2>5, <2>6, <2>7, DestroyFrame
<1> QED BY <1>1, <1>2, <1>3, <1>4 DEF MainStep

(* What a worker does: it does not end but through Leave, and once ended or
   before it was created it does nothing. *)
LEMMA WorkerDestruction ==
    ASSUME Inv, NEW w \in Worker, WorkerStep(w) PROVE MainDestroys'
<1> USE Threads DEF Inv
<1>1. UNCHANGED <<signals, assigned, made, destroying>>
  BY DEF WorkerStep, Lock, Critical, Leave, Poll, TakeTask, EndTask, process
<1>2. ~Gone(w)
  BY DEF WorkerStep, Lock, Critical, Leave, Poll, TakeTask, EndTask, At, Gone
<1>3. PICK l \in {"lock", "check", "run", "exited"} : Goto(w, l)
  BY DEF WorkerStep, Lock, Critical, Leave, Poll, TakeTask, EndTask
<1>4. \A u \in Thread : pc'[u] = IF u = w THEN l ELSE pc[u]
  BY <1>3, GotoType DEF Label
<1>5. \A u \in Worker : Gone(u) => pc'[u] = pc[u]
  BY <1>2, <1>4
<1>6. \A u \in Worker : ~Gone(u) => pc'[u] \in WorkerLabel \ {"none"}
  BY <1>4 DEF MainDestroys, Gone, WorkerLabel
<1>7. pc'[Main] = pc[Main] /\ pc[Main] \in MainLabel
  BY <1>4 DEF MainDestroys
<1> QED BY <1>1, <1>5, <1>6, <1>7, DestroyFrame

(* SIGINT is caught by main, since it is the first. *)
LEMMA SignalDestruction ==
    ASSUME OneSignal, Inv, Signal PROVE MainDestroys'
<1> USE Threads, PoolAssumption DEF Inv
<1>1. UNCHANGED <<assigned, made, pc, i, joiner, reaped, freed>> /\ signals = 0 /\ signals' = 1
  BY DEF Signal, OneSignal, TypeOK
<1>2. CASE assigned
  <2>1. dpc[Main] = "out"
    BY <1>1, <1>2 DEF MainDestroys
  <2>2. dpc' = [dpc EXCEPT ![Main] = "lock"]
    BY <1>2, <2>1 DEF Signal, Catchers
  <2>3. dpc'[Main] = "lock" /\ \A w \in Worker : dpc'[w] = dpc[w]
    BY <2>2 DEF TypeOK
  <2>4. \A w \in Worker : joiner'[w] = Nobody
    BY <1>1, <2>1 DEF MainDestroys
  <2> QED BY <1>1, <2>1, <2>3, <2>4 DEF MainDestroys
<1>3. CASE ~assigned
  <2>1. dpc' = dpc
    BY <1>3 DEF Signal
  <2> QED BY <1>1, <1>3, <2>1 DEF MainDestroys, Gone
<1> QED BY <1>2, <1>3

(* thread_pool_destroy: the loop counts a thread as waited for only when it
   has ended or was never created. *)
LEMMA DestroyDestruction ==
    ASSUME Inv, NEW t \in Thread, DestroyStep(t) PROVE MainDestroys'
<1> USE Threads DEF Inv
<1>1. t = Main
  BY DEF DestroyStep, DestroyLock, SetShutdown, Join, JoinFails, Joined, Free, Exit,
         Destroying, MainDestroys
<1>2. UNCHANGED <<signals, assigned, made, pc>>
  BY DEF DestroyStep, DestroyLock, SetShutdown, Join, JoinFails, Joined, Free, Exit, process
<1>3. dpc[Main] # "out"
  BY <1>1 DEF DestroyStep, DestroyLock, SetShutdown, Join, JoinFails, Joined, Free, Exit, Destroying
<1>4. i[Main] \in 1..(thread_count + 1)
  BY DEF TypeOK
<1>5. ASSUME NEW l, dpc' = [dpc EXCEPT ![Main] = l]
      PROVE  dpc'[Main] = l /\ \A w \in Worker : dpc'[w] = dpc[w]
  BY <1>5 DEF TypeOK
<1>6. CASE DestroyLock(t)
  BY <1>1, <1>2, <1>3, <1>5, <1>6 DEF DestroyLock, Destroying, Proceed, MainDestroys, Gone
<1>7. CASE SetShutdown(t)
  <2>1. /\ dpc' = [dpc EXCEPT ![Main] = "join"] /\ dpc[Main] = "flag"
        /\ UNCHANGED <<i, joiner, reaped, freed>>
    BY <1>1, <1>7 DEF SetShutdown, Destroying, Proceed
  <2>2. i[Main] = 1 /\ \A w \in Worker : ~(w < i[Main])
    BY <2>1 DEF MainDestroys, Worker
  <2> QED BY <1>2, <1>3, <1>5, <2>1, <2>2 DEF MainDestroys
<1>8. CASE Join(t)
  <2>1. /\ dpc' = [dpc EXCEPT ![Main] = "wait"] /\ dpc[Main] = "join"
        /\ joiner' = [joiner EXCEPT ![i[Main]] = Main]
        /\ UNCHANGED <<i, reaped, freed>>
        /\ i[Main] <= thread_count
    BY <1>1, <1>8 DEF Join, Destroying, Proceed
  <2>2. i[Main] \in Worker
    BY <1>4, <2>1 DEF Worker
  <2>3. \A w \in Worker : joiner'[w] # Nobody => i[Main] = w
    BY <2>1 DEF TypeOK, MainDestroys
  <2>4. dpc'[Main] = "wait" /\ \A w \in Worker : dpc'[w] = dpc[w]
    BY <1>5, <2>1
  <2> QED BY <1>2, <1>3, <2>1, <2>2, <2>3, <2>4 DEF MainDestroys, Gone
<1>9. CASE JoinFails(t)
  <2>1. /\ dpc[Main] = "join" /\ i[Main] \in Worker /\ ~Joinable(Main, i[Main])
        /\ UNCHANGED <<dpc, joiner, reaped, freed>>
        /\ i' = [i EXCEPT ![Main] = @ + 1] \/ UNCHANGED i
    <3>1. i[Main] <= thread_count /\ dpc[Main] = "join" /\ ~Joinable(Main, i[Main])
      BY <1>1, <1>9 DEF JoinFails, Destroying
    <3>2. UNCHANGED <<dpc, joiner, reaped, freed>>
      BY <1>9 DEF JoinFails
    <3>3. i' = [i EXCEPT ![Main] = @ + 1] \/ UNCHANGED i
      BY <1>1, <1>9 DEF JoinFails
    <3> QED BY <1>4, <3>1, <3>2, <3>3 DEF Worker
  <2>2. joiner[i[Main]] = Nobody
    BY <2>1 DEF MainDestroys
  <2>3. Gone(i[Main])
    <3>1. i[Main] # Main
      BY <2>1
    <3>2. i[Main] > made \/ i[Main] \in reaped
      BY <2>1, <2>2, <3>1 DEF Joinable, TypeOK, Worker
    <3> QED BY <2>1, <3>2 DEF MainDestroys, Gone
  <2>4. i'[Main] = i[Main] + 1 \/ i'[Main] = i[Main]
    BY <2>1 DEF TypeOK
  <2>5. \A w \in Worker : w < i'[Main] => Gone(w)
    BY <1>4, <2>1, <2>3, <2>4 DEF MainDestroys, Worker
  <2>6. \A w \in Worker : joiner[w] = Nobody
    BY <2>1 DEF MainDestroys
  <2> QED BY <1>2, <2>1, <2>5, <2>6 DEF MainDestroys, Gone
<1>10. CASE Joined(t)
  <2>1. /\ dpc' = [dpc EXCEPT ![Main] = "join"] /\ dpc[Main] = "wait"
        /\ joiner' = [joiner EXCEPT ![i[Main]] = Nobody]
        /\ i' = [i EXCEPT ![Main] = @ + 1]
        /\ reaped' = reaped \cup {i[Main]} /\ freed' = freed
        /\ pc[i[Main]] = "exited"
    BY <1>1, <1>10 DEF Joined, Destroying, Proceed
  <2>2. i'[Main] = i[Main] + 1
    BY <2>1 DEF TypeOK
  <2>3. \A w \in Worker : w < i'[Main] => Gone(w)
    BY <1>4, <2>1, <2>2 DEF MainDestroys, Worker, Gone
  <2>4. \A w \in Worker : joiner'[w] = Nobody
    BY <2>1 DEF TypeOK, MainDestroys
  <2>5. dpc'[Main] = "join" /\ \A w \in Worker : dpc'[w] = dpc[w]
    BY <1>5, <2>1
  <2>6. \A w \in reaped' : pc[w] = "exited"
    BY <2>1 DEF MainDestroys
  <2> QED BY <1>2, <1>3, <2>1, <2>3, <2>4, <2>5, <2>6 DEF MainDestroys, Gone
<1>11. CASE Free(t)
  <2>1. /\ dpc' = [dpc EXCEPT ![Main] = "exit"] /\ dpc[Main] = "join"
        /\ UNCHANGED <<i, joiner, reaped>> /\ i[Main] = thread_count + 1
    BY <1>1, <1>11 DEF Free, Destroying, Proceed
  <2>2. \A w \in Worker : Gone(w)
    BY <2>1 DEF MainDestroys, Worker
  <2>3. \A w \in Worker : joiner[w] = Nobody
    BY <2>1 DEF MainDestroys
  <2>4. dpc'[Main] = "exit" /\ \A w \in Worker : dpc'[w] = dpc[w]
    BY <1>5, <2>1
  <2> QED BY <1>2, <1>3, <2>1, <2>2, <2>3, <2>4 DEF MainDestroys, Gone
<1>12. CASE Exit(t)
  BY <1>2, <1>12 DEF Exit, MainDestroys, destroying, Gone
<1> QED BY <1>6, <1>7, <1>8, <1>9, <1>10, <1>11, <1>12 DEF DestroyStep

-----------------------------------------------------------------------------
(* The list of tasks.                                                      *)

(* Linking the new task behind the tail makes it the last of the list. *)
LEMMA AddBodyList ==
    ASSUME Inv, AddBody PROVE ListOfTasks'
<1> USE Threads, PoolAssumption DEF Inv
<1>n. PICK n \in Nat : n = Len(queued) /\ DOMAIN queued = 1..n /\ queued \in Seq(Task)
  BY DEF TypeOK
<1>1. /\ pc[Main] = "addBody" /\ dpc[Main] = "out" /\ ~freed /\ freed' = freed
      /\ LinkAtTail /\ queued' = Append(queued, new) /\ new' = Null
      /\ UNCHANGED <<used, run>>
  BY Alive DEF AddBody, At, destroying
<1>2. \A u \in Thread : pc'[u] = IF u = Main THEN "accept" ELSE pc[u]
  BY GotoType DEF AddBody, Label
<1>3. new \in Task /\ new # Null /\ new \in used /\ next[new] = Null
  BY <1>1 DEF ListOfTasks, TypeOK
<1>4. n \in Nat /\ (queued = <<>> <=> n = 0)
  BY <1>n
<1>5. /\ Len(queued') = n + 1 /\ DOMAIN queued' = 1..(n + 1)
      /\ \A k \in 1..n : queued'[k] = queued[k]
      /\ queued'[n + 1] = new
      /\ queued' # <<>>
  BY <1>n, <1>1, <1>3
<1>6. /\ task_count = n
      /\ task_head = (IF n = 0 THEN Null ELSE queued[1])
      /\ task_tail = (IF n = 0 THEN Null ELSE queued[n])
      /\ \A k \in 1..n : next[queued[k]] = (IF k = n THEN Null ELSE queued[k + 1])
      /\ \A k \in 1..n : queued[k] \in Task /\ queued[k] \in used /\ queued[k] # new
      /\ \A k, l \in 1..n : k # l => queued[k] # queued[l]
  <2>1. QueueShape /\ ~freed
    BY <1>1 DEF ListOfTasks
  <2>2. /\ task_count = n
        /\ task_head = (IF n = 0 THEN Null ELSE queued[1])
        /\ task_tail = (IF n = 0 THEN Null ELSE queued[n])
    BY <1>n, <1>4, <2>1 DEF QueueShape
  <2>3. \A k \in 1..n : next[queued[k]] = (IF k = n THEN Null ELSE queued[k + 1])
    BY <1>n, <2>1 DEF QueueShape
  <2>4. \A k \in 1..n : queued[k] \in Task
    BY <1>n
  <2>5. /\ \A k \in 1..n : queued[k] \in used /\ queued[k] # new
        /\ \A k, l \in 1..n : k # l => queued[k] # queued[l]
    BY <1>n DEF ListOfTasks
  <2> QED BY <2>2, <2>3, <2>4, <2>5
<1>7. task_tail' = new /\ task_count' = n + 1 /\ task_head' = queued'[1]
  <2>1. n # 0 => 1 \in 1..n
    BY <1>4
  <2>2. task_tail' = new /\ task_count' = n + 1
    BY <1>1, <1>6 DEF LinkAtTail
  <2>3. task_head' = queued'[1]
    BY <1>1, <1>3, <1>5, <1>6, <2>1 DEF LinkAtTail
  <2> QED BY <2>2, <2>3
<1>8. \A k \in 1..(n + 1) :
         next'[queued'[k]] = (IF k = n + 1 THEN Null ELSE queued'[k + 1])
  <2>1. CASE n = 0
    <3>1. next' = next
      BY <1>1, <1>6, <2>1 DEF LinkAtTail
    <3> QED BY <1>3, <1>5, <2>1, <3>1
  <2>2. CASE n # 0
    <3>1. task_tail = queued[n] /\ task_tail \in Task /\ task_head # Null
      <4>1. 1 \in 1..n /\ n \in 1..n
        BY <2>2
      <4> QED BY <1>6, <2>2, <4>1
    <3>2. next' = [next EXCEPT ![task_tail] = new]
      BY <1>1, <3>1 DEF LinkAtTail
    <3>3. \A t \in Task : next'[t] = IF t = queued[n] THEN new ELSE next[t]
      BY <3>1, <3>2 DEF TypeOK
    <3>4. next'[queued'[n + 1]] = Null
      <4>1. n \in 1..n
        BY <2>2
      <4> QED BY <1>3, <1>5, <1>6, <3>3, <4>1
    <3>5. next'[queued'[n]] = queued'[n + 1]
      BY <1>4, <1>5, <2>2, <3>1, <3>3
    <3>6. ASSUME NEW k \in 1..n, k # n
          PROVE  next'[queued'[k]] = queued'[k + 1]
      <4>1. k + 1 \in 1..n /\ n \in 1..n
        BY <1>4, <3>6
      <4> QED BY <1>5, <1>6, <3>3, <3>6, <4>1
    <3>7. ASSUME NEW k \in 1..(n + 1)
          PROVE  next'[queued'[k]] = (IF k = n + 1 THEN Null ELSE queued'[k + 1])
      <4>1. k = n + 1 \/ k = n \/ (k \in 1..n /\ k # n)
        BY <1>4, <3>7
      <4> QED BY <1>4, <3>4, <3>5, <3>6, <4>1
    <3> QED BY <3>7
  <2> QED BY <2>1, <2>2
<1>9. QueueShape'
  BY <1>4, <1>5, <1>7, <1>8 DEF QueueShape
<1>10. \A k, l \in DOMAIN queued' : k # l => queued'[k] # queued'[l]
  <2>1. ASSUME NEW k \in 1..(n + 1), NEW l \in 1..(n + 1), k # l
        PROVE  queued'[k] # queued'[l]
    <3>1. \/ k \in 1..n /\ l \in 1..n
          \/ k \in 1..n /\ l = n + 1
          \/ k = n + 1 /\ l \in 1..n
      BY <1>4, <2>1
    <3> QED BY <1>5, <1>6, <2>1, <3>1
  <2> QED BY <1>5, <2>1
<1>11. \A k \in DOMAIN queued' : queued'[k] \in used' /\ queued'[k] # new'
  <2>1. ASSUME NEW k \in 1..(n + 1) PROVE queued'[k] \in used /\ queued'[k] # Null
    <3>1. k \in 1..n \/ k = n + 1
      BY <1>4, <2>1
    <3> QED BY <1>3, <1>5, <1>6, <3>1
  <2> QED BY <1>1, <1>5, <2>1
<1>12. \A w \in Worker : run'[w] # Null <=> pc'[w] = "run"
  BY <1>1, <1>2 DEF ListOfTasks
<1> HIDE DEF Inv
<1> QED BY <1>1, <1>2, <1>9, <1>10, <1>11, <1>12 DEF ListOfTasks

(* Unlinking the head leaves the rest of the list as it was. *)
LEMMA TakeTaskList ==
    ASSUME Inv, NEW w \in Worker, TakeTask(w) PROVE ListOfTasks'
<1> USE Threads, PoolAssumption DEF Inv
<1>n. PICK n \in Nat : n = Len(queued) /\ DOMAIN queued = 1..n /\ queued \in Seq(Task)
  BY DEF TypeOK
<1>1. /\ pc[w] = "check" /\ ~freed /\ freed' = freed
      /\ UnlinkHead /\ queued' = Tail(queued)
      /\ run' = [run EXCEPT ![w] = task_head]
      /\ UNCHANGED <<used, new>>
  BY Alive DEF TakeTask, At, destroying, Gone
<1>2. \A u \in Thread : pc'[u] = IF u = w THEN "run" ELSE pc[u]
  BY GotoType DEF TakeTask, Label
<1>3. /\ n >= 1 /\ queued # <<>>
      /\ task_head = queued[1] /\ task_head \in Task /\ task_count = n
      /\ next[task_head] = (IF n = 1 THEN Null ELSE queued[2])
  <2>1. 1 \in DOMAIN queued /\ queued # <<>> /\ task_head = Head(queued)
    BY HeadOfList
  <2>2. Head(queued) = queued[1]
    BY <1>n, <2>1
  <2> QED BY <1>n, <2>1, <2>2, HeadOfList
<1>4. /\ Len(queued') = n - 1 /\ DOMAIN queued' = 1..(n - 1)
      /\ \A k \in 1..(n - 1) : queued'[k] = queued[k + 1]
      /\ queued' = <<>> <=> n = 1
  <2>1. queued' = Tail(queued) /\ Len(Tail(queued)) = n - 1
    BY <1>n, <1>1, <1>3
  <2>2. \A k \in 1..(n - 1) : Tail(queued)[k] = queued[k + 1]
    BY <1>n, <1>3
  <2>3. Tail(queued) \in Seq(Task)
    BY <1>n, <1>3
  <2>4. DOMAIN Tail(queued) = 1..(n - 1) /\ (Tail(queued) = <<>> <=> n - 1 = 0)
    <3>1. Len(Tail(queued)) = n - 1
      BY <2>1
    <3>2. DOMAIN Tail(queued) = 1..Len(Tail(queued))
      BY <2>3
    <3>3. \A s \in Seq(Task) : s = <<>> <=> Len(s) = 0
      OBVIOUS
    <3> QED BY <2>3, <3>1, <3>2, <3>3
  <2> QED BY <2>1, <2>2, <2>4
<1>5. /\ task_tail = queued[n]
      /\ \A k \in 1..n : next[queued[k]] = (IF k = n THEN Null ELSE queued[k + 1])
      /\ \A k \in 1..n : queued[k] \in Task /\ queued[k] \in used /\ queued[k] # new
      /\ \A k, l \in 1..n : k # l => queued[k] # queued[l]
  <2>1. QueueShape /\ ~freed
    BY <1>1 DEF ListOfTasks
  <2>2. task_tail = queued[n]
    BY <1>n, <1>3, <2>1 DEF QueueShape
  <2>3. \A k \in 1..n : next[queued[k]] = (IF k = n THEN Null ELSE queued[k + 1])
    BY <1>n, <2>1 DEF QueueShape
  <2>4. \A k \in 1..n : queued[k] \in Task
    BY <1>n
  <2>5. /\ \A k \in 1..n : queued[k] \in used /\ queued[k] # new
        /\ \A k, l \in 1..n : k # l => queued[k] # queued[l]
    BY <1>n DEF ListOfTasks
  <2> QED BY <2>2, <2>3, <2>4, <2>5
<1>6. QueueShape'
  <2>1. task_count' = n - 1 /\ next' = next
    BY <1>1, <1>3 DEF UnlinkHead
  <2>2. task_head' = (IF n = 1 THEN Null ELSE queued'[1])
    BY <1>1, <1>3, <1>4 DEF UnlinkHead
  <2>3. task_tail' = (IF n = 1 THEN Null ELSE queued'[n - 1])
    <3>1. n # 1 => 2 \in 1..n /\ n - 1 \in 1..(n - 1) /\ (n - 1) + 1 = n
      BY <1>3
    <3>2. n # 1 => next[task_head] # Null
      BY <1>3, <1>5, <3>1
    <3> QED BY <1>1, <1>3, <1>4, <1>5, <3>1, <3>2 DEF UnlinkHead
  <2>4. ASSUME NEW k \in 1..(n - 1)
        PROVE  next'[queued'[k]] = (IF k = n - 1 THEN Null ELSE queued'[k + 1])
    <3>1. k + 1 \in 1..n /\ (k # n - 1 => k + 1 \in 1..(n - 1)) /\ (k + 1 = n <=> k = n - 1)
      BY <1>3
    <3> QED BY <1>4, <1>5, <2>1, <3>1
  <2> QED BY <1>4, <2>1, <2>2, <2>3, <2>4 DEF QueueShape
<1>7. \A k \in 1..(n - 1) : k + 1 \in 1..n
  BY <1>3
<1>8. \A k, l \in DOMAIN queued' : k # l => queued'[k] # queued'[l]
  BY <1>4, <1>5, <1>7
<1>9. \A k \in DOMAIN queued' : queued'[k] \in used' /\ queued'[k] # new'
  BY <1>1, <1>4, <1>5, <1>7
<1>10. new' # Null => new' \in used' /\ next'[new'] = Null
  BY <1>1 DEF ListOfTasks, UnlinkHead
<1>11. new' # Null <=> pc'[Main] \in {"addLock", "addBody"}
  BY <1>1, <1>2 DEF ListOfTasks
<1>12. \A u \in Worker : run'[u] # Null <=> pc'[u] = "run"
  BY <1>1, <1>2, <1>3 DEF ListOfTasks, TypeOK
<1> QED BY <1>6, <1>8, <1>9, <1>10, <1>11, <1>12 DEF ListOfTasks

(* What main does keeps the list. *)
LEMMA MainList ==
    ASSUME Inv, MainStep PROVE ListOfTasks'
<1> USE Threads, PoolAssumption DEF Inv
<1>1. CASE Create
  <2>1. made + 1 \in Worker /\ made + 1 \in Thread /\ made + 1 # Main /\ made + 1 > made
    BY <1>1 DEF Create, TypeOK, Worker, Thread, Main
  <2>2. \A u \in Thread : pc'[u] = IF u = made + 1 THEN "lock" ELSE pc[u]
    BY <1>1, <2>1, GotoType DEF Create, Label
  <2>3. pc[made + 1] = "none"
    BY <2>1 DEF MainDestroys
  <2>4. UNCHANGED <<links, tasks, run, freed>>
    BY <1>1 DEF Create, destroying
  <2>5. pc'[Main] = pc[Main] /\ \A w \in Worker : pc'[w] = "run" <=> pc[w] = "run"
    BY <2>1, <2>2, <2>3
  <2> QED BY <2>4, <2>5, ListFrame
<1>2. CASE Created
  <2>1. \A u \in Thread : pc'[u] = IF u = Main THEN "accept" ELSE pc[u]
    BY <1>2, GotoType DEF Created, Label
  <2>2. UNCHANGED <<links, tasks, run, freed>> /\ pc[Main] = "create"
    BY <1>2 DEF Created, At, destroying
  <2> QED BY <2>1, <2>2, ListFrame
<1>3. CASE CreateFails
  <2>1. UNCHANGED <<links, tasks, run, freed, pc>>
    BY <1>3 DEF CreateFails
  <2> QED BY <2>1, ListFrame
<1>4. CASE Accept
  <2>1. PICK t \in Task \ used : /\ new' = t /\ used' = used \cup {t}
                                 /\ next' = [next EXCEPT ![t] = Null]
    BY <1>4 DEF Accept
  <2>2. \A u \in Thread : pc'[u] = IF u = Main THEN "addLock" ELSE pc[u]
    BY <1>4, GotoType DEF Accept, Label
  <2>3. /\ UNCHANGED <<task_head, task_tail, task_count, queued, run, freed>>
        /\ ~freed
    BY <1>4, Alive DEF Accept, At, destroying
  <2>4. \A k \in DOMAIN queued : queued[k] \in Task /\ queued[k] # t
    BY <2>1 DEF TypeOK, ListOfTasks
  <2>5. \A k \in DOMAIN queued : next'[queued[k]] = next[queued[k]]
    BY <2>1, <2>4 DEF TypeOK
  <2>6. QueueShape'
    BY <2>3, <2>5 DEF ListOfTasks, QueueShape
  <2>7. \A k \in DOMAIN queued' : queued'[k] \in used' /\ queued'[k] # new'
    BY <2>1, <2>3, <2>4 DEF ListOfTasks
  <2>8. new' # Null /\ new' \in used' /\ next'[new'] = Null
    BY <2>1 DEF TypeOK
  <2>9. \A w \in Worker : run'[w] # Null <=> pc'[w] = "run"
    BY <2>2, <2>3 DEF ListOfTasks
  <2> QED BY <2>2, <2>3, <2>6, <2>7, <2>8, <2>9 DEF ListOfTasks
<1>5. CASE AddLock
  <2>1. \A u \in Thread : pc'[u] = IF u = Main THEN "addBody" ELSE pc[u]
    BY <1>5, GotoType DEF AddLock, Label
  <2>2. UNCHANGED <<links, tasks, run, freed>> /\ pc[Main] = "addLock"
    BY <1>5 DEF AddLock, At, destroying
  <2> QED BY <2>1, <2>2, ListFrame
<1>6. CASE AddBody
  BY <1>6, AddBodyList
<1> QED BY <1>1, <1>2, <1>3, <1>4, <1>5, <1>6 DEF MainStep

(* What a worker does keeps the list. *)
LEMMA WorkerList ==
    ASSUME Inv, NEW w \in Worker, WorkerStep(w) PROVE ListOfTasks'
<1> USE Threads DEF Inv
<1>1. CASE Lock(w) \/ Leave(w) \/ Poll(w)
  <2>1. PICK l \in {"lock", "check", "exited"} : Goto(w, l)
    BY <1>1 DEF Lock, Leave, Poll
  <2>2. \A u \in Thread : pc'[u] = IF u = w THEN l ELSE pc[u]
    BY <2>1, GotoType DEF Label
  <2>3. UNCHANGED <<links, tasks, run, freed>> /\ pc[w] # "run"
    BY <1>1 DEF Lock, Leave, Poll, At, destroying
  <2> QED BY <2>2, <2>3, ListFrame
<1>2. CASE TakeTask(w)
  BY <1>2, TakeTaskList
<1>3. CASE EndTask(w)
  <2>1. \A u \in Thread : pc'[u] = IF u = w THEN "lock" ELSE pc[u]
    BY <1>3, GotoType DEF EndTask, Label
  <2>2. UNCHANGED <<links, tasks, freed>> /\ run' = [run EXCEPT ![w] = Null]
    BY <1>3 DEF EndTask, destroying
  <2>3. \A u \in Worker : run'[u] # Null <=> pc'[u] = "run"
    BY <2>1, <2>2 DEF ListOfTasks, TypeOK
  <2>4. pc'[Main] = pc[Main]
    BY <2>1
  <2> QED BY <2>2, <2>3, <2>4 DEF ListOfTasks, QueueShape, links, tasks
<1> QED BY <1>1, <1>2, <1>3 DEF WorkerStep, Critical

(* SIGINT and thread_pool_destroy keep the list until they free it. *)
LEMMA DestroyList ==
    ASSUME Inv, Signal \/ \E t \in Thread : DestroyStep(t) PROVE ListOfTasks'
<1> USE DEF Inv
<1>1. CASE Signal
  <2>1. UNCHANGED <<links, tasks, run, freed, pc>>
    BY <1>1 DEF Signal
  <2> QED BY <2>1, ListFrame
<1>2. ASSUME NEW t \in Thread, Free(t) PROVE ListOfTasks'
  <2>1. /\ freed' = TRUE /\ queued' = <<>>
        /\ UNCHANGED <<next, used, new, pc, run>>
    BY <1>2 DEF Free, links
  <2> QED BY <2>1 DEF ListOfTasks, QueueShape
<1>3. ASSUME NEW t \in Thread, DestroyStep(t), ~Free(t) PROVE ListOfTasks'
  <2>1. UNCHANGED <<links, tasks, run, freed, pc>>
    BY <1>3 DEF DestroyStep, DestroyLock, SetShutdown, Join, JoinFails, Joined, Exit, destroying
  <2> QED BY <2>1, ListFrame
<1> QED BY <1>1, <1>2, <1>3

-----------------------------------------------------------------------------
(* The theorems.                                                           *)

LEMMA NextInv ==
    ASSUME OneSignal, Inv, [Next]_vars PROVE Inv'
<1>1. CASE MainStep
  BY <1>1, MainTypes, MainDestruction, MainList DEF Inv
<1>2. ASSUME NEW w \in Worker, WorkerStep(w) PROVE Inv'
  BY <1>2, WorkerTypes, WorkerDestruction, WorkerList DEF Inv
<1>3. CASE Signal
  BY <1>3, DestroyTypes, SignalDestruction, DestroyList DEF Inv
<1>4. ASSUME NEW t \in Thread, DestroyStep(t) PROVE Inv'
  BY <1>4, DestroyTypes, DestroyDestruction, DestroyList DEF Inv
<1>5. CASE UNCHANGED vars
  <2>1. TypeOK'
    BY <1>5 DEF Inv, TypeOK, vars, process, links, tasks, destroying
  <2>2. MainDestroys'
    BY <1>5 DEF Inv, MainDestroys, Gone, vars, process, destroying
  <2>3. ListOfTasks'
    BY <1>5, ListFrame DEF Inv, vars, destroying
  <2> QED BY <2>1, <2>2, <2>3 DEF Inv
<1> QED BY <1>1, <1>2, <1>3, <1>4, <1>5 DEF Next, Down

LEMMA AlwaysInv == ASSUME OneSignal PROVE Spec => []Inv
<1>1. Inv /\ [Next]_vars => Inv'
  BY NextInv
<1> QED BY InitInv, <1>1, PTL DEF Spec

(* The variables of the pool, of main and of the threads keep their types. *)
THEOREM PoolTypes ==
    ASSUME OneSignal PROVE Spec => []TypeOK
<1>1. Inv => TypeOK
  BY DEF Inv
<1> QED BY <1>1, AlwaysInv, PTL

(* The linked list of tasks is at all times what thread_pool_add_task and
   worker_thread take it for. *)
THEOREM ListIsAQueue ==
    ASSUME OneSignal PROVE Spec => []QueueShape
<1>1. Inv => QueueShape
  BY DEF Inv, ListOfTasks
<1> QED BY <1>1, AlwaysInv, PTL

(* After one SIGINT the pool is freed by main alone, with every worker gone:
   the loop of joins in thread_pool_destroy skips nobody who runs. *)
THEOREM PoolIsFreedAlone ==
    ASSUME OneSignal PROVE Spec => []FreedAlone
<1>1. Inv => FreedAlone
  BY Threads DEF Inv, MainDestroys, FreedAlone, Gone
<1> QED BY <1>1, AlwaysInv, PTL

(* A step of the pool is a step of the queue, or none. *)
LEMMA StepIsQueueStep ==
    ASSUME Inv, [Next]_vars PROVE [Queue!Next]_(Queue!vars)
<1> USE Threads, PoolAssumption DEF Inv
<1> DEFINE mapped == <<queued, run, used \ {new}>>
<1> SUFFICES Queue!Next \/ UNCHANGED mapped
  BY DEF Queue!vars
<1>1. CASE Accept
  <2>1. PICK t \in Task \ used : new' = t /\ used' = used \cup {t}
    BY <1>1 DEF Accept
  <2>2. new = Null /\ Null \notin used
    BY <1>1 DEF Accept, At, ListOfTasks, TypeOK
  <2>3. used' \ {new'} = used \ {new}
    BY <2>1, <2>2
  <2> QED BY <1>1, <2>3 DEF Accept
<1>2. CASE AddBody
  <2>1. /\ queued' = Append(queued, new) /\ new' = Null /\ UNCHANGED <<used, run>>
        /\ new # Null /\ new \in used /\ new \in Task /\ Null \notin used
    BY <1>2 DEF AddBody, At, ListOfTasks, TypeOK
  <2>2. new \in Task \ (used \ {new})
    BY <2>1
  <2>3. used' \ {new'} = (used \ {new}) \cup {new}
    BY <2>1
  <2>4. Queue!Submit
    BY <2>1, <2>2, <2>3 DEF Queue!Submit
  <2> QED BY <2>4 DEF Queue!Next
<1>3. ASSUME NEW w \in Worker, TakeTask(w) PROVE Queue!Next
  <2>1. /\ queued # <<>> /\ task_head = Head(queued)
        /\ run' = [run EXCEPT ![w] = task_head] /\ queued' = Tail(queued)
        /\ UNCHANGED <<used, new>>
    BY <1>3, HeadOfList DEF TakeTask
  <2>2. run[w] = Null
    BY <1>3 DEF TakeTask, At, ListOfTasks
  <2>3. Queue!Begin(w)
    BY <2>1, <2>2 DEF Queue!Begin
  <2> QED BY <2>3 DEF Queue!Next
<1>4. ASSUME NEW w \in Worker, EndTask(w) PROVE Queue!Next
  <2>1. run[w] # Null /\ run' = [run EXCEPT ![w] = Null] /\ UNCHANGED <<queued, used, new>>
    BY <1>4 DEF EndTask, At, ListOfTasks, tasks
  <2>2. Queue!End(w)
    BY <2>1 DEF Queue!End
  <2> QED BY <2>2 DEF Queue!Next
<1>5. ASSUME NEW t \in Thread, Free(t) PROVE Queue!Next
  <2>1. Queue!Discard
    BY <1>5 DEF Free, Queue!Discard
  <2> QED BY <2>1 DEF Queue!Next
<1>6. CASE Create \/ Created \/ CreateFails \/ AddLock
  BY <1>6 DEF Create, Created, CreateFails, AddLock, tasks
<1>7. ASSUME NEW w \in Worker, Lock(w) \/ Leave(w) \/ Poll(w) PROVE UNCHANGED mapped
  BY <1>7 DEF Lock, Leave, Poll, tasks
<1>8. CASE Signal \/ UNCHANGED vars
  BY <1>8 DEF Signal, vars, tasks
<1>9. ASSUME NEW t \in Thread, DestroyStep(t), ~Free(t) PROVE UNCHANGED mapped
  BY <1>9 DEF DestroyStep, DestroyLock, SetShutdown, Join, JoinFails, Joined, Exit, tasks
<1> QED BY <1>1, <1>2, <1>3, <1>4, <1>5, <1>6, <1>7, <1>8, <1>9
        DEF Next, Down, MainStep, WorkerStep, Critical

(* The thread pool runs tasks as TaskQueue says: in the order of
   thread_pool_add_task, each once, and none that was not added. *)
THEOREM PoolIsATaskQueue ==
    ASSUME OneSignal PROVE Spec => ImplementsTaskQueue
<1>1. Init => Queue!Init
  BY PoolAssumption DEF Init, Queue!Init
<1>2. Inv /\ [Next]_vars => [Queue!Next]_(Queue!vars)
  BY StepIsQueueStep
<1> QED BY <1>1, <1>2, AlwaysInv, PTL DEF Spec, ImplementsTaskQueue, Queue!Spec
=============================================================================
