------------------------------ MODULE Requests ------------------------------
(***************************************************************************)
(* What the handlers do below the list of clients: workers use the files   *)
(* of accounts and messages, and fork the processes that ask the weather   *)
(* service.  A process outlives the worker's job, and the server.          *)
(***************************************************************************)
EXTENDS FileStore, Weather

vars == <<storeVars, weatherVars>>

TypeOK == StoreTypeOK /\ WeatherTypeOK

Init == StoreInit /\ WeatherInit

(* obtain_weather: the parent does not wait for the child.  Nothing is done
   when the sender is not found, and nothing is said when fork fails. *)
Fork(w) ==
    /\ At(w, "fork")
    /\ \/ \E c \in Child : Start(c)
       \/ UNCHANGED weatherVars
    /\ Goto(w, "deliver")
    /\ UNCHANGED <<fileVars, jobVars, failed, crashes>>

(* Nothing is asked any more. *)
Quiet ==
    /\ \A w \in Worker : todo[w] = <<>>
    /\ \A c \in Child : stage[c] \in {"none", "exit"}
    /\ UNCHANGED vars

Next ==
    \/ \E w \in Worker : (StoreStep(w) /\ UNCHANGED weatherVars) \/ Fork(w)
    \/ \E c \in Child : ChildStep(c) /\ UNCHANGED storeVars
    \/ Crash /\ UNCHANGED weatherVars
    \/ Quiet

Spec == Init /\ [][Next]_vars
=============================================================================
