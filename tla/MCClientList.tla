---------------------------- MODULE MCClientList ----------------------------
(***************************************************************************)
(* A small instance of ClientList for TLC: one thread adds and takes out,  *)
(* the other makes every other call.                                       *)
(***************************************************************************)
EXTENDS ClientList, TLC

CONSTANTS t1, t2, f1, f2, s1, s2, ip1, alice

TwoThreads == {t1, t2}
TwoFds == {f1, f2}
TwoSlots == {s1, s2}
Interchangeable == Permutations(Fd) \cup Permutations(Slot)

Calling(op, f) == [op |-> op, fd |-> f, ip |-> ip1, name |-> alice, state |-> "auth"]

TwoScripts ==
    (t1 :> {Calling(op, f) : op \in {"add", "remove"}, f \in Fd} \cup {Calling("cleanup", NoFd)}) @@
    (t2 :> {Calling(op, f) : op \in {"setState", "setName", "touch", "findFd"}, f \in Fd} \cup
           {Calling(op, NoFd) : op \in {"walk", "findName", "findIp", "removeName",
                                        "connected", "authed", "print", "clear"}})
=============================================================================
