------------------------------ MODULE Registry ------------------------------
(***************************************************************************)
(* The list of connected clients of client_list.c: nodes in allocated      *)
(* memory, linked from client_list_head.  The functions that hold          *)
(* client_list_mutex from their first to their last access are one step    *)
(* each.  What makes the list hard is the code that does not hold it: a    *)
(* find function returns a pointer after it has unlocked, and the group    *)
(* message and the online list follow the links with no lock at all.  So a *)
(* node is a memory slot that may be freed and allocated again while some  *)
(* thread still points at it.                                              *)
(*                                                                         *)
(* Memory is sequentially consistent here.                                 *)
(***************************************************************************)
EXTENDS Sockets, FiniteSetsExt

CONSTANTS Slot,   \* memory slots for nodes
          Null    \* the null pointer

ASSUME RegistryAssumption == Null \notin Slot

VARIABLES list,   \* the linked nodes, client_list_head first
          node    \* node[s]: the fields of slot s, linked or freed

regVars == <<list, node>>

Node == [fd : Fd \cup {NoFd}, name : User \cup {NoName},
         state : {"connected", "auth"}, next : Slot \cup {Null}]

RegistryTypeOK ==
    /\ list \in Seq(Slot)
    /\ node \in [Slot -> Node]

RegistryInit ==
    /\ list = <<>>
    /\ node = [s \in Slot |->
                 [fd |-> NoFd, name |-> NoName, state |-> "connected", next |-> Null]]

Linked == ToSet(list)
ListHead == IF list = <<>> THEN Null ELSE Head(list)

(* The link out of the i-th node. *)
Successor(i) == IF i < Len(list) THEN list[i + 1] ELSE Null

(* What current->next reads: the link of a linked node, and of a freed one
   the link it had when it was freed. *)
NextOf(s) ==
    IF s \in Linked
    THEN Successor(CHOOSE i \in DOMAIN list : list[i] = s)
    ELSE node[s].next

WithFd(f) == {i \in DOMAIN list : node[list[i]].fd = f}
WithName(n) == {i \in DOMAIN list : node[list[i]].name = n}
FirstOf(I) == IF I = {} THEN Null ELSE list[Min(I)]

find_client_by_sockfd(f) == FirstOf(WithFd(f))
find_client_by_username(n) == FirstOf(WithName(n))

(* A node that is already there for this descriptor is returned as it is;
   otherwise any free slot may hold the new one.  add_client fails when
   malloc does: that is the caller's other branch. *)
add_client(f) ==
    IF WithFd(f) # {}
    THEN UNCHANGED regVars
    ELSE \E s \in Slot \ Linked :
            /\ list' = Cons(s, list)
            /\ node' = [node EXCEPT ![s] =
                 [fd |-> f, name |-> NoName, state |-> "connected", next |-> Null]]

(* Mutants: the link of the node is cleared before it is freed; the head is
   moved whether or not there is a node before the one removed. *)
remove_client_Unlinks(f) ==
    IF WithFd(f) = {}
    THEN UNCHANGED regVars
    ELSE LET i == Min(WithFd(f)) IN
            /\ list' = RemoveAt(list, i)
            /\ node' = [node EXCEPT ![list[i]].fd = NoFd,
                                    ![list[i]].next = Null]

remove_client_MovesHead(f) ==
    IF WithFd(f) = {}
    THEN UNCHANGED regVars
    ELSE LET i == Min(WithFd(f)) IN
            /\ list' = SubSeq(list, i + 1, Len(list))
            /\ node' = [node EXCEPT ![list[i]].fd = NoFd,
                                    ![list[i]].next = Successor(i)]

(* free() keeps the contents of the slot but for the first 16 bytes, which
   hold sockfd and the start of ip and get the allocator's own links. *)
remove_client(f) ==
    IF WithFd(f) = {}
    THEN UNCHANGED regVars
    ELSE LET i == Min(WithFd(f)) IN
            /\ list' = RemoveAt(list, i)
            /\ node' = [node EXCEPT ![list[i]].fd = NoFd,
                                    ![list[i]].next = Successor(i)]

(* Mutant: the name is put on the node at the head. *)
update_client_username_Head(f, n) ==
    /\ node' = IF list = <<>> THEN node ELSE [node EXCEPT ![ListHead].name = n]
    /\ UNCHANGED list

update_client_username(f, n) ==
    /\ node' = IF WithFd(f) = {} THEN node
               ELSE [node EXCEPT ![find_client_by_sockfd(f)].name = n]
    /\ UNCHANGED list

update_client_state(f, st) ==
    /\ node' = IF WithFd(f) = {} THEN node
               ELSE [node EXCEPT ![find_client_by_sockfd(f)].state = st]
    /\ UNCHANGED list

(* Two nodes of the list never carry the same descriptor, so that a lookup or
   a removal by descriptor has one answer (add_client, remove_client), even
   where a descriptor is closed by one worker and reused by another. *)
UniqueFds ==
    \A i, j \in DOMAIN list :
        i # j => list[i] # list[j] /\ node[list[i]].fd # node[list[j]].fd

=============================================================================
