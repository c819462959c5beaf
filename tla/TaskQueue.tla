----------------------------- MODULE TaskQueue -----------------------------
(***************************************************************************)
(* What the thread pool promises: tasks are run in the order in which they *)
(* were submitted, each by one worker and once, until the pool is shut     *)
(* down and what still waits is discarded.                                 *)
(***************************************************************************)
EXTENDS Sequences

CONSTANTS Task, Worker, Null

VARIABLES queue,     \* tasks that wait, the oldest first
          running,   \* running[w]: the task that w runs, or Null
          seen       \* tasks that have been submitted

vars == <<queue, running, seen>>

Init == queue = <<>> /\ running = [w \in Worker |-> Null] /\ seen = {}

Submit ==
    /\ \E t \in Task \ seen : seen' = seen \cup {t} /\ queue' = Append(queue, t)
    /\ UNCHANGED running

Begin(w) ==
    /\ running[w] = Null
    /\ queue # <<>>
    /\ running' = [running EXCEPT ![w] = Head(queue)]
    /\ queue' = Tail(queue)
    /\ UNCHANGED seen

End(w) ==
    /\ running[w] # Null
    /\ running' = [running EXCEPT ![w] = Null]
    /\ UNCHANGED <<queue, seen>>

Discard == queue' = <<>> /\ UNCHANGED <<running, seen>>

Next == Submit \/ Discard \/ \E w \in Worker : Begin(w) \/ End(w)

Spec == Init /\ [][Next]_vars
=============================================================================
