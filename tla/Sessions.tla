------------------------------ MODULE Sessions ------------------------------
(***************************************************************************)
(* What the server promises to a connection: it waits its turn, is served  *)
(* once, in the order of arrival and by one of N workers, and is then      *)
(* finished.  A waiting connection may be dropped when memory is short.    *)
(***************************************************************************)
EXTENDS Naturals, Sequences, SequencesExt, FiniteSets

CONSTANTS Conn, N

VARIABLES waiting,   \* connections in the order in which they arrived
          serving,   \* connections in the hands of a worker
          finished   \* connections that will never be served (again)

vars == <<waiting, serving, finished>>

Init == waiting = <<>> /\ serving = {} /\ finished = {}

Arrive(c) ==
    /\ c \notin ToSet(waiting) \cup serving \cup finished
    /\ waiting' = Append(waiting, c)
    /\ UNCHANGED <<serving, finished>>

Begin ==
    /\ waiting # <<>>
    /\ Cardinality(serving) < N
    /\ serving' = serving \cup {Head(waiting)}
    /\ waiting' = Tail(waiting)
    /\ UNCHANGED finished

Drop ==
    /\ \E i \in DOMAIN waiting :
         /\ waiting' = RemoveAt(waiting, i)
         /\ finished' = finished \cup {waiting[i]}
    /\ UNCHANGED serving

End(c) ==
    /\ c \in serving
    /\ serving' = serving \ {c}
    /\ finished' = finished \cup {c}
    /\ UNCHANGED waiting

Next == Begin \/ Drop \/ \E c \in Conn : Arrive(c) \/ End(c)

Spec == Init /\ [][Next]_vars
=============================================================================
