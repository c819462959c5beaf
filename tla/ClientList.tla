----------------------------- MODULE ClientList -----------------------------
(***************************************************************************)
(* client_list.c at the level of its pointers.  A thread that calls one of *)
(* its functions takes client_list_mutex, follows the links with current   *)
(* and prev, and changes one word at a time.  The group message and the    *)
(* online list of message_handler.c ("walk") read the same words with no   *)
(* lock, so every write is a step of its own.                              *)
(*                                                                         *)
(* Any thread may make any call at any time, also those the server makes   *)
(* nowhere; clear_client_list alone is called when the other threads have  *)
(* ended (main.c:13), and the process exits after it.                      *)
(*                                                                         *)
(* Memory is sequentially consistent, and memory that is freed keeps what  *)
(* it held but for its first words until malloc hands it out again.        *)
(***************************************************************************)
EXTENDS ClientCalls

CONSTANTS Thread,
          Slot,     \* memory slots for nodes
          Null,     \* the null pointer, and "nothing"
          Calls     \* Calls[t]: the calls that thread t makes

ASSUME ClientListAssumption ==
    /\ Null \notin Slot \cup Thread \cup Call
    /\ NoFd \notin Fd
    /\ NoName \notin Name
    /\ Calls \in [Thread -> SUBSET Call]

VARIABLES
    head,    \* client_list_head
    mem,     \* mem[s]: the fields of the node in slot s
    alloc,   \* the slots that malloc has handed out
    mutex,   \* the thread that holds client_list_mutex, or Null
    closed,  \* descriptors that a clean-up has closed and nobody got since
    call,    \* call[t]: the call that t is in, or Null
    pc, cur, prev, count, ret,   \* the locals of the call
    list,    \* history variable: the nodes in the list, the newest first
    due      \* history variable: members that t's walk has to meet yet

memVars == <<head, mem, alloc, closed>>
callVars == <<call, pc, cur, prev, count, ret>>
vars == <<memVars, mutex, callVars, list, due>>

Node == [fd : Fd \cup {NoFd}, ip : Ip, name : Name \cup {NoName},
         state : State, old : BOOLEAN, next : Slot \cup {Null}]

Label == {"idle", "lock", "loop", "free", "link", "publish", "unlock", "relock",
          "exited", "start", "visit", "next"}

TypeOK ==
    /\ head \in Slot \cup {Null}
    /\ mem \in [Slot -> Node]
    /\ alloc \in SUBSET Slot
    /\ mutex \in Thread \cup {Null}
    /\ closed \in SUBSET (Fd \cup {NoFd})
    /\ call \in [Thread -> Call \cup {Null}]
    /\ pc \in [Thread -> Label]
    /\ cur \in [Thread -> Slot \cup {Null}]
    /\ prev \in [Thread -> Slot \cup {Null}]
    /\ count \in [Thread -> Nat]
    /\ ret \in [Thread -> Slot \cup {Null}]
    /\ list \in Seq(Slot)
    /\ due \in [Thread -> SUBSET Slot]

Init ==
    /\ head = Null
    /\ mem \in [Slot -> {n \in Node : n.fd = NoFd /\ n.next = Null
                                       /\ n.name = NoName /\ n.state = "connected" /\ n.old = FALSE}]
    /\ alloc = {}
    /\ mutex = Null
    /\ closed = {}
    /\ call = [t \in Thread |-> Null]
    /\ pc = [t \in Thread |-> "idle"]
    /\ cur = [t \in Thread |-> Null]
    /\ prev = [t \in Thread |-> Null]
    /\ count = [t \in Thread |-> 0]
    /\ ret = [t \in Thread |-> Null]
    /\ list = <<>>
    /\ due = [t \in Thread |-> {}]

Linked == ToSet(list)
Members == {s \in Linked : mem[s].state = "auth"}
Drop(s) == [t \in Thread |-> due[t] \ {s}]

At(t, label) == pc[t] = label
Goto(t, label) == pc' = [pc EXCEPT ![t] = label]
Op(t) == call[t].op

(* The walk has the node in front of it and the call is about that node. *)
Here(t, ops) == At(t, "loop") /\ cur[t] # Null /\ Op(t) \in ops /\ Meets(call[t], mem[cur[t]])

-----------------------------------------------------------------------------
(* The start of a call: the lock, and the first node.                      *)

(* accept gave the descriptor that is added to a new connection. *)
Invoke(t) ==
    /\ At(t, "idle")
    /\ \A u \in Thread : pc[u] # "exited" /\ (call[u] # Null => Op(u) # "clear")
    /\ \E c \in Calls[t] :
         /\ c.op = "clear" => \A u \in Thread : call[u] = Null
         /\ call' = [call EXCEPT ![t] = c]
         /\ Goto(t, IF c.op = "walk" THEN "start" ELSE "lock")
         /\ closed' = IF c.op = "add" THEN closed \ {c.fd} ELSE closed
    /\ UNCHANGED <<head, mem, alloc, mutex, cur, prev, count, ret, list, due>>

(* Mutant: add_client does not look for the descriptor. *)
Lock_NoLook(t) ==
    /\ At(t, "lock")
    /\ mutex = Null
    /\ mutex' = t
    /\ cur' = [cur EXCEPT ![t] = IF Op(t) = "add" THEN Null ELSE head]
    /\ Goto(t, "loop")
    /\ UNCHANGED <<memVars, call, prev, count, ret, list, due>>

Lock(t) ==
    /\ At(t, "lock")
    /\ mutex = Null
    /\ mutex' = t
    /\ cur' = [cur EXCEPT ![t] = head]
    /\ Goto(t, "loop")
    /\ UNCHANGED <<memVars, call, prev, count, ret, list, due>>

(* current = current->next. *)
Advance(t) ==
    /\ At(t, "loop")
    /\ cur[t] # Null
    /\ Op(t) # "clear"
    /\ ~Meets(call[t], mem[cur[t]])
    /\ prev' = [prev EXCEPT ![t] = cur[t]]
    /\ cur' = [cur EXCEPT ![t] = mem[cur[t]].next]
    /\ count' = [count EXCEPT ![t] = IF Counted(call[t], mem[cur[t]]) THEN @ + 1 ELSE @]
    /\ UNCHANGED <<memVars, mutex, call, pc, ret, list, due>>

Unlock(t) ==
    /\ At(t, "unlock")
    /\ mutex' = Null
    /\ call' = [call EXCEPT ![t] = Null]
    /\ Goto(t, IF Op(t) = "clear" THEN "exited" ELSE "idle")
    /\ cur' = [cur EXCEPT ![t] = Null]
    /\ prev' = [prev EXCEPT ![t] = Null]
    /\ count' = [count EXCEPT ![t] = 0]
    /\ ret' = [ret EXCEPT ![t] = Null]
    /\ UNCHANGED <<memVars, list, due>>

(* A find function, or add_client, has come to a node it was looking for. *)
Found(t) ==
    /\ Here(t, Finders \cup {"add"})
    /\ ret' = [ret EXCEPT ![t] = cur[t]]
    /\ Goto(t, "unlock")
    /\ UNCHANGED <<memVars, mutex, call, cur, prev, count, list, due>>

(* The end of the list.  print_client_list calls get_connected_count and
   get_authenticated_count there, with the mutex in its hands: the mutex is
   not a recursive one, and the thread waits for itself. *)
NotFound(t) ==
    /\ At(t, "loop")
    /\ cur[t] = Null
    /\ Op(t) \notin {"add", "clear"}
    /\ Goto(t, IF Op(t) = "print" THEN "relock" ELSE "unlock")
    /\ UNCHANGED <<memVars, mutex, call, cur, prev, count, ret, list, due>>

-----------------------------------------------------------------------------
(* add_client, when no node has the descriptor.                            *)

MallocFails(t) ==
    /\ At(t, "loop")
    /\ cur[t] = Null
    /\ Op(t) = "add"
    /\ Goto(t, "unlock")
    /\ UNCHANGED <<memVars, mutex, call, cur, prev, count, ret, list, due>>

Malloc(t) ==
    /\ At(t, "loop")
    /\ cur[t] = Null
    /\ Op(t) = "add"
    /\ \E s \in Slot \ alloc :
         /\ alloc' = alloc \cup {s}
         /\ mem' = [mem EXCEPT ![s] = Enters(call[t], @)]
         /\ cur' = [cur EXCEPT ![t] = s]
    /\ Goto(t, "link")
    /\ UNCHANGED <<head, mutex, closed, call, prev, count, ret, list, due>>

Link(t) ==
    /\ At(t, "link")
    /\ mem' = [mem EXCEPT ![cur[t]].next = head]
    /\ Goto(t, "publish")
    /\ UNCHANGED <<head, alloc, mutex, closed, call, cur, prev, count, ret, list, due>>

(* Mutant: the descriptor is returned where the node is promised. *)
Publish_ReturnsFd(t) ==
    /\ At(t, "publish")
    /\ head' = cur[t]
    /\ list' = <<cur[t]>> \o list
    /\ ret' = [ret EXCEPT ![t] = call[t].fd]
    /\ Goto(t, "unlock")
    /\ UNCHANGED <<mem, alloc, mutex, closed, call, cur, prev, count, due>>

Publish(t) ==
    /\ At(t, "publish")
    /\ head' = cur[t]
    /\ list' = <<cur[t]>> \o list
    /\ ret' = [ret EXCEPT ![t] = cur[t]]
    /\ Goto(t, "unlock")
    /\ UNCHANGED <<mem, alloc, mutex, closed, call, cur, prev, count, due>>

-----------------------------------------------------------------------------
(* The update functions, and those that take nodes out.                    *)

Update(t) ==
    /\ Here(t, Setters)
    /\ mem' = [mem EXCEPT ![cur[t]] = Changed(call[t], @)]
    /\ due' = IF mem'[cur[t]].state = "auth" THEN due ELSE Drop(cur[t])
    /\ ret' = [ret EXCEPT ![t] = cur[t]]
    /\ Goto(t, "unlock")
    /\ UNCHANGED <<head, alloc, mutex, closed, call, cur, prev, count, list>>

Without(s) == RemoveAt(list, CHOOSE i \in DOMAIN list : list[i] = s)

(* Mutant: the node at the head is not taken out. *)
Unlink_NeverHead(t) ==
    /\ Here(t, {"remove", "removeName", "cleanup"})
    /\ IF prev[t] = Null
       THEN UNCHANGED <<head, mem, list, due>>
       ELSE /\ mem' = [mem EXCEPT ![prev[t]].next = mem[cur[t]].next]
            /\ list' = Without(cur[t])
            /\ due' = Drop(cur[t])
            /\ UNCHANGED head
    /\ ret' = [ret EXCEPT ![t] = IF Op(t) = "cleanup" THEN Null ELSE cur[t]]
    /\ Goto(t, "free")
    /\ UNCHANGED <<alloc, mutex, closed, call, cur, prev, count>>

(* prev->next, or client_list_head, skips the node. *)
Unlink(t) ==
    /\ Here(t, {"remove", "removeName", "cleanup"})
    /\ IF prev[t] = Null
       THEN head' = mem[cur[t]].next /\ UNCHANGED mem
       ELSE mem' = [mem EXCEPT ![prev[t]].next = mem[cur[t]].next] /\ UNCHANGED head
    /\ list' = Without(cur[t])
    /\ due' = Drop(cur[t])
    /\ ret' = [ret EXCEPT ![t] = IF Op(t) = "cleanup" THEN Null ELSE cur[t]]
    /\ Goto(t, "free")
    /\ UNCHANGED <<alloc, mutex, closed, call, cur, prev, count>>

(* Mutant: the link is overwritten too. *)
Free_ClearsLink(t) ==
    /\ At(t, "free")
    /\ alloc' = alloc \ {cur[t]}
    /\ mem' = [mem EXCEPT ![cur[t]].fd = NoFd, ![cur[t]].next = Null]
    /\ IF Op(t) = "cleanup"
       THEN /\ closed' = closed \cup {mem[cur[t]].fd}
            /\ cur' = [cur EXCEPT ![t] = mem[cur[t]].next]
            /\ Goto(t, "loop")
       ELSE /\ Goto(t, "unlock")
            /\ UNCHANGED <<closed, cur>>
    /\ UNCHANGED <<head, mutex, call, prev, count, ret, list, due>>

(* free overwrites the first words, where the descriptor is.  The clean-up
   closes the descriptor before and goes on with the next node. *)
Free(t) ==
    /\ At(t, "free")
    /\ alloc' = alloc \ {cur[t]}
    /\ mem' = [mem EXCEPT ![cur[t]].fd = NoFd]
    /\ IF Op(t) = "cleanup"
       THEN /\ closed' = closed \cup {mem[cur[t]].fd}
            /\ cur' = [cur EXCEPT ![t] = mem[cur[t]].next]
            /\ Goto(t, "loop")
       ELSE /\ Goto(t, "unlock")
            /\ UNCHANGED <<closed, cur>>
    /\ UNCHANGED <<head, mutex, call, prev, count, ret, list, due>>

(* clear_client_list frees node after node and resets the head at the end. *)
ClearNode(t) ==
    /\ At(t, "loop")
    /\ Op(t) = "clear"
    /\ cur[t] # Null
    /\ alloc' = alloc \ {cur[t]}
    /\ closed' = closed \cup {mem[cur[t]].fd}
    /\ mem' = [mem EXCEPT ![cur[t]].fd = NoFd]
    /\ cur' = [cur EXCEPT ![t] = mem[cur[t]].next]
    /\ list' = Tail(list)
    /\ UNCHANGED <<head, mutex, call, pc, prev, count, ret, due>>

ClearHead(t) ==
    /\ At(t, "loop")
    /\ Op(t) = "clear"
    /\ cur[t] = Null
    /\ head' = Null
    /\ Goto(t, "unlock")
    /\ UNCHANGED <<mem, alloc, mutex, closed, call, cur, prev, count, ret, list, due>>

-----------------------------------------------------------------------------
(* A walk without the lock (message_handler.c).                            *)

WalkStart(t) ==
    /\ At(t, "start")
    /\ cur' = [cur EXCEPT ![t] = head]
    /\ due' = [due EXCEPT ![t] = Members]
    /\ Goto(t, "visit")
    /\ UNCHANGED <<memVars, mutex, call, prev, count, ret, list>>

WalkVisit(t) ==
    /\ At(t, "visit")
    /\ cur[t] # Null
    /\ due' = IF mem[cur[t]].state = "auth" THEN [due EXCEPT ![t] = @ \ {cur[t]}] ELSE due
    /\ Goto(t, "next")
    /\ UNCHANGED <<memVars, mutex, call, cur, prev, count, ret, list>>

WalkNext(t) ==
    /\ At(t, "next")
    /\ cur' = [cur EXCEPT ![t] = mem[cur[t]].next]
    /\ Goto(t, "visit")
    /\ UNCHANGED <<memVars, mutex, call, prev, count, ret, list, due>>

WalkEnd(t) ==
    /\ At(t, "visit")
    /\ cur[t] = Null
    /\ call' = [call EXCEPT ![t] = Null]
    /\ Goto(t, "idle")
    /\ due' = [due EXCEPT ![t] = {}]
    /\ UNCHANGED <<memVars, mutex, cur, prev, count, ret, list>>

-----------------------------------------------------------------------------

(* Time passes.  The clean-up has read the clock once, when it started. *)
Age ==
    /\ \A t \in Thread : mutex = t => Op(t) # "cleanup"
    /\ \E s \in Linked : mem' = [mem EXCEPT ![s].old = TRUE]
    /\ UNCHANGED <<head, alloc, mutex, closed, callVars, list, due>>

Locked(t) ==
    \/ Advance(t) \/ Found(t) \/ NotFound(t)
    \/ MallocFails(t) \/ Malloc(t) \/ Link(t) \/ Publish(t)
    \/ Update(t) \/ Unlink(t) \/ Free(t) \/ ClearNode(t) \/ ClearHead(t)
    \/ Unlock(t)

Walk(t) == WalkStart(t) \/ WalkVisit(t) \/ WalkNext(t) \/ WalkEnd(t)

Next == Age \/ \E t \in Thread : Invoke(t) \/ Lock(t) \/ Locked(t) \/ Walk(t)

Spec == Init /\ [][Next]_vars

-----------------------------------------------------------------------------
(* Properties.                                                             *)

Clearing == \E t \in Thread : call[t] # Null /\ Op(t) = "clear" /\ pc[t] \in {"loop", "unlock"}

Succ(i) == IF i < Len(list) THEN list[i + 1] ELSE Null
First == IF list = <<>> THEN Null ELSE list[1]

(* The words of memory are a list at every step, also between two steps of a
   function: the links lead from client_list_head through every client that
   was added and not taken out, once each, in memory that is not free. *)
ListShape ==
    /\ ~Clearing => head = First
    /\ \A i \in DOMAIN list : mem[list[i]].next = Succ(i) /\ list[i] \in alloc
    /\ \A i, j \in DOMAIN list : i # j => list[i] # list[j]

(* Whatever is called from however many threads, no descriptor is on the list
   twice, so a lookup or a removal by descriptor has one answer. *)
UniqueFds ==
    \A i, j \in DOMAIN list : i # j => mem[list[i]].fd # mem[list[j]].fd

(* The clean-up closes a descriptor only when its node cannot be reached any
   more from client_list_head: the kernel may give the number away at once,
   and somebody who walks without the lock must not come to it through the
   old node. *)
ClosedWhenUnlinked ==
    [][\A f \in closed' \ closed : \A i \in DOMAIN list' : mem[list'[i]].fd # f]_vars

(* A walk without the lock, over nodes that are taken out, freed, handed out
   again and put back at the head under its eyes, has met every member that
   was one when it started and has stayed. *)
WalkMissesNobody ==
    \A t \in Thread : At(t, "visit") /\ cur[t] = Null => due[t] = {}

(* The list implements the abstract directory: every call takes effect at
   one moment, although it is many steps.  Walks are no calls of it. *)
Client(s) == [id |-> s, fd |-> mem[s].fd, ip |-> mem[s].ip, name |-> mem[s].name,
              state |-> mem[s].state, old |-> mem[s].old]
Done(t) == At(t, "unlock") \/ (At(t, "free") /\ Op(t) # "cleanup")

Abstract == INSTANCE Directory WITH
    Calls <- UNION {{c \in Calls[t] : c.op # "walk"} : t \in Thread},
    Id <- Slot,
    dir <- [i \in DOMAIN list |-> Client(list[i])],
    call <- [t \in Thread |-> IF call[t] # Null /\ Op(t) = "walk" THEN Null ELSE call[t]],
    done <- [t \in Thread |-> Done(t)],
    ret <- [t \in Thread |-> IF Done(t) THEN ret[t] ELSE Null],
    count <- [t \in Thread |-> IF Done(t) THEN count[t] ELSE 0]

ImplementsDirectory == Abstract!Spec
=============================================================================
