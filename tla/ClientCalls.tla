---------------------------- MODULE ClientCalls ----------------------------
(***************************************************************************)
(* The calls of client_list.h, and which client a call is about.  A client *)
(* is a record with at least the fields fd, ip, name, state and old; old   *)
(* says that last_activity lies further back than the timeout of           *)
(* cleanup_inactive_clients.                                               *)
(***************************************************************************)
EXTENDS Naturals, Sequences, SequencesExt, FiniteSets

CONSTANTS Fd, Ip, Name, NoFd, NoName

State == {"disconnected", "connected", "auth"}

Finders == {"findFd", "findName", "findIp"}
Setters == {"setName", "setState", "touch"}
Counters == {"connected", "authed"}
ByFd == {"add", "remove", "findFd", "setName", "setState", "touch"}
ByName == {"removeName", "findName"}

Call == [op : Finders \cup Setters \cup Counters \cup
              {"add", "remove", "removeName", "cleanup", "print", "clear", "walk"},
         fd : Fd \cup {NoFd}, ip : Ip, name : Name, state : State]

(* The test in the loop of the function. *)
Meets(c, e) ==
    \/ c.op \in ByFd /\ e.fd = c.fd
    \/ c.op \in ByName /\ e.name = c.name
    \/ c.op = "findIp" /\ e.ip = c.ip
    \/ c.op = "cleanup" /\ e.old

Counted(c, e) ==
    \/ c.op = "connected" /\ e.state # "disconnected"
    \/ c.op = "authed" /\ e.state = "auth"

(* Mutant: the state of a new client is left as malloc gave it. *)
Enters_AsItWas(c, e) == [e EXCEPT !.fd = c.fd, !.ip = c.ip, !.old = FALSE]

(* The fields of a client that has just been added. *)
Enters(c, e) ==
    [e EXCEPT !.fd = c.fd, !.ip = c.ip, !.name = NoName,
              !.state = "connected", !.old = FALSE]

Changed(c, e) ==
    CASE c.op = "setName" -> [e EXCEPT !.name = c.name]
      [] c.op = "setState" -> [e EXCEPT !.state = c.state]
      [] c.op = "touch" -> [e EXCEPT !.old = FALSE]
=============================================================================
