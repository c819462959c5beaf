----------------------------- MODULE ChatServer -----------------------------
(***************************************************************************)
(* The chat server: the main thread accepts connections and queues them,   *)
(* each worker of the pool takes one connection from the queue and runs    *)
(* handle_client on it until the connection ends.  All workers share the   *)
(* descriptor table (Sockets) and the client list (Registry).              *)
(*                                                                         *)
(* A step is an access to something shared: a system call, a function that *)
(* holds client_list_mutex, or a read through a pointer without it.        *)
(*                                                                         *)
(* The queue is the abstract FIFO of the pool.  What a request does to the *)
(* files of accounts and messages is left out: a login or a look at a      *)
(* history file succeeds or fails freely.  last_activity, ip, connect_time *)
(* and thread_id are left out: no code that runs reads them.               *)
(***************************************************************************)
EXTENDS Registry, FiniteSets

CONSTANT Worker   \* the threads of the pool

ASSUME WorkerAssumption == Worker # {} /\ IsFiniteSet(Worker)

VARIABLES
    queue,  \* accepted connections no worker has taken yet
    pc,     \* pc[w]: what worker w does next
    sock,   \* client_sock of handle_client
    own,    \* history variable: the connection worker w was given
    rc,     \* the connection on which w's recv blocks
    req,    \* msg: the request that w handles
    cur,    \* receiver, sender or current: the node w's handler points at
    out,    \* the descriptor just read from a node, the argument of write
    due,    \* history variable: listed members w's traversal has to reach yet
    child   \* connections a weather process has still to answer

poolVars == <<queue, pc, sock, own>>
localVars == <<rc, req, cur, out, due>>
vars == <<sockVars, regVars, poolVars, localVars, child>>

Label == {"idle", "add", "recv", "wait", "auth", "setName", "setState", "reply",
          "findReceiver", "checkReceiver", "loadReceiver", "writeReceiver",
          "findSender", "checkSender", "loadSender", "writeSender",
          "storeGroup", "member", "loadMember", "writeMember", "nextMember",
          "listUsers", "scan", "scanNext", "findSelf",
          "findRequester", "loadRequester", "history", "loadAnswer", "answer",
          "fork", "exitRemove", "exitClose", "byeRemove", "byeClose"}

Task == [fd : Fd, conn : Conn]

TypeOK ==
    /\ SocketsTypeOK
    /\ RegistryTypeOK
    /\ queue \in Seq(Task)
    /\ pc \in [Worker -> Label]
    /\ sock \in [Worker -> Fd \cup {NoFd}]
    /\ own \in [Worker -> Conn \cup {NoConn}]
    /\ rc \in [Worker -> Conn \cup {NoConn}]
    /\ req \in [Worker -> Message \cup {NoMsg}]
    /\ cur \in [Worker -> Slot \cup {Null}]
    /\ out \in [Worker -> Fd \cup {NoFd}]
    /\ due \in [Worker -> SUBSET Slot]
    /\ child \in SUBSET Conn
    \* a request is in hand exactly while a handler runs
    /\ \A w \in Worker :
         (req[w] = NoMsg) <=> (pc[w] \in {"idle", "add", "recv", "wait", "byeRemove", "byeClose"})

Init ==
    /\ SocketsInit
    /\ RegistryInit
    /\ queue = <<>>
    /\ pc = [w \in Worker |-> "idle"]
    /\ sock = [w \in Worker |-> NoFd]
    /\ own = [w \in Worker |-> NoConn]
    /\ rc = [w \in Worker |-> NoConn]
    /\ req = [w \in Worker |-> NoMsg]
    /\ cur = [w \in Worker |-> Null]
    /\ out = [w \in Worker |-> NoFd]
    /\ due = [w \in Worker |-> {}]
    /\ child = {}

-----------------------------------------------------------------------------
(* The main thread.                                                        *)

(* accept() yields a descriptor that is free: the lowest, but which one that
   is depends on the files that other threads have open at the moment. *)
Accept ==
    /\ alive
    /\ backlog # <<>>
    /\ \E f \in Fd :
         /\ fdtab[f] = NoConn
         /\ fdtab' = [fdtab EXCEPT ![f] = Head(backlog)]
         /\ queue' = Append(queue, [fd |-> f, conn |-> Head(backlog)])
    /\ backlog' = Tail(backlog)
    /\ UNCHANGED <<alive, peer, inbox, sent, granted, regVars, pc, sock, own, localVars, child>>

(* thread_pool_add_task fails for want of memory: main closes the connection. *)
AcceptDropped ==
    /\ alive
    /\ backlog # <<>>
    /\ \E f \in Fd : fdtab[f] = NoConn
    /\ backlog' = Tail(backlog)
    /\ UNCHANGED <<alive, peer, inbox, sent, granted, fdtab, regVars, poolVars, localVars, child>>

-----------------------------------------------------------------------------
(* A worker: taking a task, and the loop of handle_client.                 *)

At(w, label) == alive /\ pc[w] = label
Goto(w, label) == pc' = [pc EXCEPT ![w] = label]

(* Mutant: the request is still in hand when the handler has returned. *)
Return_Keeps(w) ==
    /\ Goto(w, "recv")
    /\ cur' = [cur EXCEPT ![w] = Null]
    /\ out' = [out EXCEPT ![w] = NoFd]
    /\ due' = [due EXCEPT ![w] = {}]
    /\ UNCHANGED req

(* The handler of a request returns to the loop; its locals are gone. *)
Return(w) ==
    /\ Goto(w, "recv")
    /\ req' = [req EXCEPT ![w] = NoMsg]
    /\ cur' = [cur EXCEPT ![w] = Null]
    /\ out' = [out EXCEPT ![w] = NoFd]
    /\ due' = [due EXCEPT ![w] = {}]

(* Mutant: the task at the tail is taken first. *)
Take_Newest(w) ==
    /\ At(w, "idle")
    /\ queue # <<>>
    /\ queue' = Front(queue)
    /\ sock' = [sock EXCEPT ![w] = Last(queue).fd]
    /\ own' = [own EXCEPT ![w] = Last(queue).conn]
    /\ Goto(w, "add")
    /\ UNCHANGED <<sockVars, regVars, localVars, child>>

(* Mutant: the head is reset where only the tail should be. *)
Take_DropsRest(w) ==
    /\ At(w, "idle")
    /\ queue # <<>>
    /\ queue' = <<>>
    /\ sock' = [sock EXCEPT ![w] = Head(queue).fd]
    /\ own' = [own EXCEPT ![w] = Head(queue).conn]
    /\ Goto(w, "add")
    /\ UNCHANGED <<sockVars, regVars, localVars, child>>

Take(w) ==
    /\ At(w, "idle")
    /\ queue # <<>>
    /\ queue' = Tail(queue)
    /\ sock' = [sock EXCEPT ![w] = Head(queue).fd]
    /\ own' = [own EXCEPT ![w] = Head(queue).conn]
    /\ Goto(w, "add")
    /\ UNCHANGED <<sockVars, regVars, localVars, child>>

(* Nobody waits on the pool's condition variable: an idle worker polls. *)
Spin(w) ==
    /\ At(w, "idle")
    /\ queue = <<>>
    /\ UNCHANGED vars

(* The task function has returned: the worker is free again. *)
Finish(w) ==
    /\ Goto(w, "idle")
    /\ sock' = [sock EXCEPT ![w] = NoFd]
    /\ own' = [own EXCEPT ![w] = NoConn]
    /\ UNCHANGED queue

AddClient(w) ==
    /\ At(w, "add")
    /\ add_client(sock[w])
    /\ Goto(w, "recv")
    /\ UNCHANGED <<sockVars, queue, sock, own, localVars, child>>

(* Mutants: without the close, and without the return after it. *)
AddClientFails_Leaks(w) ==
    /\ At(w, "add")
    /\ WithFd(sock[w]) = {}
    /\ Finish(w)
    /\ UNCHANGED <<sockVars, regVars, localVars, child>>

AddClientFails_GoesOn(w) ==
    /\ At(w, "add")
    /\ WithFd(sock[w]) = {}
    /\ Close(sock[w])
    /\ Goto(w, "recv")
    /\ UNCHANGED <<regVars, queue, sock, own, localVars, child>>

AddClientFails(w) ==
    /\ At(w, "add")
    /\ WithFd(sock[w]) = {}
    /\ Close(sock[w])
    /\ Finish(w)
    /\ UNCHANGED <<regVars, localVars, child>>

(* recv looks its descriptor up once: while it blocks it keeps the socket,
   whatever becomes of the number. *)
Recv(w) ==
    /\ At(w, "recv")
    /\ rc' = [rc EXCEPT ![w] = Resolve(sock[w])]
    /\ Goto(w, IF Resolve(sock[w]) = NoConn THEN "byeRemove" ELSE "wait")
    /\ UNCHANGED <<sockVars, regVars, queue, sock, own, req, cur, out, due, child>>

FirstStep(kind) ==
    CASE kind = "login" -> "auth"
      [] kind = "register" -> "reply"
      [] kind = "private" -> "findReceiver"
      [] kind = "group" -> "storeGroup"
      [] kind = "list" -> "listUsers"
      [] kind \in {"history", "weather"} -> "findRequester"
      [] kind = "exit" -> "exitRemove"

(* A request of an unknown type or action gets no answer. *)
RecvMsg(w) ==
    /\ At(w, "wait")
    /\ rc[w] \in Conn /\ inbox[rc[w]] # NoMsg /\ peer[rc[w]] # "reset"
    /\ inbox' = [inbox EXCEPT ![rc[w]] = NoMsg]
    /\ IF inbox[rc[w]].kind = "other"
       THEN /\ Goto(w, "recv")
            /\ UNCHANGED req
       ELSE /\ Goto(w, FirstStep(inbox[rc[w]].kind))
            /\ req' = [req EXCEPT ![w] = inbox[rc[w]]]
    /\ UNCHANGED <<alive, peer, sent, granted, backlog, fdtab, regVars,
                   queue, sock, own, rc, cur, out, due, child>>

(* Mutants: the node is not removed; an error of recv is retried. *)
RecvEnd_Unremoved(w) ==
    /\ At(w, "wait")
    /\ rc[w] \in Conn
    /\ \/ peer[rc[w]] = "closed" /\ inbox[rc[w]] = NoMsg
       \/ peer[rc[w]] = "reset"
    /\ Goto(w, "byeClose")
    /\ UNCHANGED <<sockVars, regVars, queue, sock, own, localVars, child>>

RecvEnd_Retries(w) ==
    /\ At(w, "wait")
    /\ rc[w] \in Conn
    /\ \/ peer[rc[w]] = "closed" /\ inbox[rc[w]] = NoMsg /\ Goto(w, "byeRemove")
       \/ peer[rc[w]] = "reset" /\ Goto(w, "recv")
    /\ UNCHANGED <<sockVars, regVars, queue, sock, own, localVars, child>>

(* recv returns 0 once the data are read and the peer has closed, or -1 on
   a connection that the peer has reset. *)
RecvEnd(w) ==
    /\ At(w, "wait")
    /\ rc[w] \in Conn
    /\ \/ peer[rc[w]] = "closed" /\ inbox[rc[w]] = NoMsg
       \/ peer[rc[w]] = "reset"
    /\ Goto(w, "byeRemove")
    /\ UNCHANGED <<sockVars, regVars, queue, sock, own, localVars, child>>

(* remove_client, with the history variable kept in step: a node that has
   left the list is no longer due. *)
Unlist(f) ==
    /\ remove_client(f)
    /\ due' = [x \in Worker |-> due[x] \ {find_client_by_sockfd(f)}]

(* MSG_TYPE_EXIT: the break that follows the close leaves the switch, not
   the loop, so the next step is another recv. *)
ExitRemove(w) ==
    /\ At(w, "exitRemove")
    /\ Unlist(sock[w])
    /\ Goto(w, "exitClose")
    /\ UNCHANGED <<sockVars, queue, sock, own, rc, req, cur, out, child>>

ExitClose(w) ==
    /\ At(w, "exitClose")
    /\ Close(sock[w])
    /\ Return(w)
    /\ UNCHANGED <<regVars, queue, sock, own, rc, child>>

ByeRemove(w) ==
    /\ At(w, "byeRemove")
    /\ Unlist(sock[w])
    /\ Goto(w, "byeClose")
    /\ UNCHANGED <<sockVars, queue, sock, own, rc, req, cur, out, child>>

ByeClose(w) ==
    /\ At(w, "byeClose")
    /\ Close(sock[w])
    /\ Finish(w)
    /\ rc' = [rc EXCEPT ![w] = NoConn]
    /\ UNCHANGED <<regVars, req, cur, out, due, child>>

-----------------------------------------------------------------------------
(* process_auth_message                                                    *)

Authenticate(w) ==
    /\ At(w, "auth")
    /\ \/ /\ granted' = [granted EXCEPT ![rc[w]] = TRUE]
          /\ Goto(w, "setName")
       \/ /\ UNCHANGED granted
          /\ Goto(w, "reply")
    /\ UNCHANGED <<alive, peer, inbox, sent, backlog, fdtab, regVars,
                   queue, sock, own, localVars, child>>

SetName(w) ==
    /\ At(w, "setName")
    /\ update_client_username(sock[w], req[w].from)
    /\ Goto(w, "setState")
    /\ UNCHANGED <<sockVars, queue, sock, own, localVars, child>>

SetState(w) ==
    /\ At(w, "setState")
    /\ update_client_state(sock[w], "auth")
    /\ Goto(w, "reply")
    /\ UNCHANGED <<sockVars, queue, sock, own, localVars, child>>

(* The answer to a login, a registration or a request for the list. *)
Reply(w) ==
    /\ At(w, "reply")
    /\ WriteTo(Resolve(sock[w]))
    /\ Return(w)
    /\ UNCHANGED <<regVars, queue, sock, own, rc, child>>

-----------------------------------------------------------------------------
(* What the handlers do with a node they point at.                         *)

(* find_client_by_username locks and unlocks: the pointer outlives the lock. *)
Find(w, name, found) ==
    LET s == find_client_by_username(name) IN
    /\ IF s = Null
       THEN Return(w)
       ELSE /\ Goto(w, found)
            /\ cur' = [cur EXCEPT ![w] = s]
            /\ UNCHANGED <<req, out, due>>
    /\ UNCHANGED <<sockVars, regVars, queue, sock, own, rc, child>>

CheckState(w, yes) ==
    /\ IF node[cur[w]].state = "auth"
       THEN /\ Goto(w, yes)
            /\ UNCHANGED <<req, cur, out, due>>
       ELSE Return(w)
    /\ UNCHANGED <<sockVars, regVars, queue, sock, own, rc, child>>

LoadFd(w, next) ==
    /\ out' = [out EXCEPT ![w] = node[cur[w]].fd]
    /\ Goto(w, next)
    /\ UNCHANGED <<sockVars, regVars, queue, sock, own, rc, req, cur, due, child>>

WriteAnd(w, next) ==
    /\ WriteTo(Resolve(out[w]))
    /\ Goto(w, next)
    /\ out' = [out EXCEPT ![w] = NoFd]
    /\ UNCHANGED <<regVars, queue, sock, own, rc, req, cur, child>>

WriteAndReturn(w) ==
    /\ WriteTo(Resolve(out[w]))
    /\ Return(w)
    /\ UNCHANGED <<regVars, queue, sock, own, rc, child>>

-----------------------------------------------------------------------------
(* process_private_message: the message is filed for both and written to   *)
(* the receiver and the sender.                                            *)

FindReceiver(w) == At(w, "findReceiver") /\ Find(w, req[w].to, "checkReceiver")
CheckReceiver(w) == At(w, "checkReceiver") /\ CheckState(w, "loadReceiver")
LoadReceiver(w) == At(w, "loadReceiver") /\ LoadFd(w, "writeReceiver")
WriteReceiver(w) == At(w, "writeReceiver") /\ WriteAnd(w, "findSender") /\ UNCHANGED due
FindSender(w) == At(w, "findSender") /\ Find(w, req[w].from, "checkSender")
CheckSender(w) == At(w, "checkSender") /\ CheckState(w, "loadSender")
LoadSender(w) == At(w, "loadSender") /\ LoadFd(w, "writeSender")
WriteSender(w) == At(w, "writeSender") /\ WriteAndReturn(w)

-----------------------------------------------------------------------------
(* Traversals of the list without its lock.                                *)

Members == {s \in Linked : node[s].state = "auth"}

StartAtHead(w, first) ==
    /\ cur' = [cur EXCEPT ![w] = ListHead]
    /\ due' = [due EXCEPT ![w] = Members]
    /\ Goto(w, first)
    /\ UNCHANGED <<sockVars, regVars, queue, sock, own, rc, req, out, child>>

FollowNext(w, loop) ==
    /\ cur' = [cur EXCEPT ![w] = NextOf(cur[w])]
    /\ Goto(w, loop)
    /\ UNCHANGED <<sockVars, regVars, queue, sock, own, rc, req, out, due, child>>

(* process_group_message: the message is filed under ALL and written to
   every member. *)
StoreGroup(w) == At(w, "storeGroup") /\ StartAtHead(w, "member")

Member(w) ==
    /\ At(w, "member")
    /\ IF cur[w] = Null
       THEN Return(w)
       ELSE /\ Goto(w, IF node[cur[w]].state = "auth" THEN "loadMember" ELSE "nextMember")
            /\ UNCHANGED <<req, cur, out, due>>
    /\ UNCHANGED <<sockVars, regVars, queue, sock, own, rc, child>>

LoadMember(w) == At(w, "loadMember") /\ LoadFd(w, "writeMember")

WriteMember(w) ==
    /\ At(w, "writeMember")
    /\ WriteAnd(w, "nextMember")
    /\ due' = [due EXCEPT ![w] = @ \ {cur[w]}]

NextMember(w) == At(w, "nextMember") /\ FollowNext(w, "member")

(* send_online_list: the names of the members are appended to a buffer,
   then the node of this connection is looked up and the buffer sent. *)
ListUsers(w) == At(w, "listUsers") /\ StartAtHead(w, "scan")

Scan(w) ==
    /\ At(w, "scan")
    /\ Goto(w, IF cur[w] = Null THEN "findSelf" ELSE "scanNext")
    /\ due' = IF cur[w] # Null /\ node[cur[w]].state = "auth"
              THEN [due EXCEPT ![w] = @ \ {cur[w]}] ELSE due
    /\ UNCHANGED <<sockVars, regVars, queue, sock, own, rc, req, cur, out, child>>

ScanNext(w) == At(w, "scanNext") /\ FollowNext(w, "scan")

FindSelf(w) ==
    /\ At(w, "findSelf")
    /\ IF find_client_by_sockfd(sock[w]) = Null
       THEN Return(w)
       ELSE /\ Goto(w, "reply")
            /\ UNCHANGED <<req, cur, out, due>>
    /\ UNCHANGED <<sockVars, regVars, queue, sock, own, rc, child>>

-----------------------------------------------------------------------------
(* send_history and obtain_weather: the answer goes to the node found under *)
(* the name in the request.                                                *)

FindRequester(w) ==
    /\ At(w, "findRequester")
    /\ IF req[w].kind = "history"
       THEN Find(w, req[w].from, "loadRequester")
       ELSE \E l \in {"loadAnswer", "fork"} : Find(w, req[w].from, l)

(* read_history_messages gets the descriptor by value, and writes the file
   piece by piece and then an end marker.  When there is no such file, or a
   piece cannot be written, the caller reads sender->sockfd again for a
   notice that there is no history. *)
LoadRequester(w) ==
    /\ At(w, "loadRequester")
    /\ \E l \in {"history", "loadAnswer"} : LoadFd(w, l)

HistoryPiece(w) ==
    /\ At(w, "history")
    /\ WriteTo(Resolve(out[w]))
    /\ Goto(w, IF WriteFails(Resolve(out[w])) THEN "loadAnswer" ELSE "history")
    /\ UNCHANGED <<regVars, queue, sock, own, localVars, child>>

HistoryEnd(w) == At(w, "history") /\ WriteAndReturn(w)

(* The notice that there is no history, or no name of a city. *)
LoadAnswer(w) == At(w, "loadAnswer") /\ LoadFd(w, "answer")
Answer(w) == At(w, "answer") /\ WriteAndReturn(w)

(* fork copies the node and the descriptor table: the child answers the
   connection that the descriptor denotes now.  fork may fail. *)
Fork(w) ==
    /\ At(w, "fork")
    /\ \/ child' = child \cup ({Resolve(node[cur[w]].fd)} \ {NoConn})
       \/ UNCHANGED child
    /\ Return(w)
    /\ UNCHANGED <<sockVars, regVars, queue, sock, own, rc>>

(* The child writes its one answer; a SIGPIPE is its own. *)
ChildAnswer(c) ==
    /\ c \in child
    /\ child' = child \ {c}
    /\ peer' = IF peer[c] = "closed" THEN [peer EXCEPT ![c] = "reset"] ELSE peer
    /\ UNCHANGED <<alive, inbox, sent, granted, backlog, fdtab, regVars, poolVars, localVars>>

-----------------------------------------------------------------------------

Main == Accept \/ AcceptDropped

HandleClient(w) ==
    \/ AddClient(w) \/ AddClientFails(w) \/ Recv(w) \/ RecvMsg(w) \/ RecvEnd(w)
    \/ ExitRemove(w) \/ ExitClose(w) \/ ByeRemove(w) \/ ByeClose(w)

Auth(w) == Authenticate(w) \/ SetName(w) \/ SetState(w) \/ Reply(w)

Private(w) ==
    \/ FindReceiver(w) \/ CheckReceiver(w) \/ LoadReceiver(w) \/ WriteReceiver(w)
    \/ FindSender(w) \/ CheckSender(w) \/ LoadSender(w) \/ WriteSender(w)

Group(w) ==
    StoreGroup(w) \/ Member(w) \/ LoadMember(w) \/ WriteMember(w) \/ NextMember(w)

OnlineList(w) == ListUsers(w) \/ Scan(w) \/ ScanNext(w) \/ FindSelf(w)

HistoryOrWeather(w) ==
    \/ FindRequester(w) \/ LoadRequester(w) \/ HistoryPiece(w) \/ HistoryEnd(w)
    \/ LoadAnswer(w) \/ Answer(w) \/ Fork(w)

WorkerStep(w) ==
    \/ Take(w) \/ HandleClient(w) \/ Auth(w) \/ Private(w) \/ Group(w)
    \/ OnlineList(w) \/ HistoryOrWeather(w)

Client(c) ==
    /\ Connect(c) \/ Send(c) \/ HangUp(c)
    /\ UNCHANGED <<regVars, poolVars, localVars, child>>

(* The process is gone: nothing moves any more. *)
Dead == ~alive /\ UNCHANGED vars

Next ==
    \/ Main
    \/ \E w \in Worker : WorkerStep(w) \/ Spin(w)
    \/ \E c \in Conn : Client(c) \/ ChildAnswer(c)
    \/ Dead

Spec == Init /\ [][Next]_vars

(* Fairness.  Main and every worker get the processor; a worker that waits in
   recv has no step until there is something to read, and a blocked write is
   not modelled (the peers drain their sockets).  A history file is finite.
   FairSpec says nothing of the clients; LeavingSpec adds that every client
   hangs up some day. *)
Fairness ==
    /\ WF_vars(Main)
    /\ \A w \in Worker : WF_vars(WorkerStep(w)) /\ WF_vars(HistoryEnd(w))

FairSpec == Spec /\ Fairness
LeavingSpec == FairSpec /\ \A c \in Conn : WF_vars(HangUp(c) /\ UNCHANGED <<regVars, poolVars, localVars, child>>)

-----------------------------------------------------------------------------
(* Properties.                                                             *)

Busy(w) == pc[w] # "idle"
Handling(w) == pc[w] \notin {"idle", "add", "byeClose"}
Queued(c) == \E i \in DOMAIN queue : queue[i].conn = c

(* Every node of the list is that of a descriptor some worker is handling:
   no node outlives its handler (handle_client removes it on every way out),
   so the list is never longer than the pool, and the names of all members
   fit the buffer of send_online_list. *)
ListedHasHandler ==
    \A i \in DOMAIN list :
        \E w \in Worker : Handling(w) /\ sock[w] = node[list[i]].fd

(* Every open descriptor is in a queued task or in the hands of a worker:
   no path of main or handle_client forgets to close one. *)
NoDescriptorLeak ==
    \A f \in Fd : fdtab[f] # NoConn =>
        \/ \E i \in DOMAIN queue : queue[i].fd = f
        \/ \E w \in Worker : Busy(w) /\ sock[w] = f

(* A traversal that has reached the end of the list has met every client
   that was a member when it started and has not left since, although it
   runs without the lock while nodes are freed, allocated again and put back
   at the head (process_group_message, send_online_list). *)
TraversalComplete ==
    \A w \in Worker :
        pc[w] \in {"member", "scan"} /\ cur[w] = Null => due[w] = {}

(* A queued task and a worker own their connection alone: the descriptor in
   their hands is open and denotes the connection accepted for it, and nobody
   else has that descriptor.  Requests that make a handler close its socket
   and go on (MSG_TYPE_EXIT) are not among those of an instance this holds
   of. *)
ExclusiveOwner ==
    /\ \A w \in Worker : Busy(w) => sock[w] \in Fd /\ fdtab[sock[w]] = own[w] /\ own[w] \in Conn
    /\ \A i \in DOMAIN queue : fdtab[queue[i].fd] = queue[i].conn
    /\ \A v, w \in Worker : v # w /\ Busy(v) /\ Busy(w) => sock[v] # sock[w]
    /\ \A i \in DOMAIN queue, w \in Worker : Busy(w) => sock[w] # queue[i].fd
    /\ \A i, j \in DOMAIN queue : i # j => queue[i].fd # queue[j].fd

(* The members other clients see (auth nodes) are connections on which the
   server accepted a login, under the account that logged in there. *)
MembersAreLoggedIn ==
    \A i \in DOMAIN list : node[list[i]].state = "auth" =>
        LET c == Resolve(node[list[i]].fd) IN
            c \in Conn /\ granted[c] /\ node[list[i]].name = Account[c]

(* The history, the weather, a notice and the sender's copy of a private
   message are found by name and written through a pointer; they go to the
   connection that asked, when no two connections use one account. *)
AnswerGoesToRequester ==
    \A w \in Worker :
        /\ pc[w] \in {"history", "answer", "writeSender"} => Resolve(out[w]) = own[w]
        /\ pc[w] \in {"fork", "loadRequester", "loadAnswer", "loadSender"} =>
             Resolve(node[cur[w]].fd) = own[w]

(* A node leaves the list only by the hand of the worker that serves its
   connection (remove_client in handle_client). *)
OnlyOwnNodeRemoved ==
    [][\A s \in Linked \ Linked' : \E w \in Worker :
          pc[w] \in {"exitRemove", "byeRemove"} /\ Resolve(node[s].fd) = own[w]]_vars

(* A private message is written to a connection of the account it is for. *)
PrivateReachesAddressee ==
    \A w \in Worker : pc[w] = "writeReceiver" /\ Resolve(out[w]) # NoConn =>
        Account[Resolve(out[w])] = req[w].to

(* A write to a connection that is gone fails and the server goes on. *)
ServerSurvives == alive

(* A worker whose client has gone away comes free: the handler it is in ends
   whatever the other workers do to the list meanwhile, recv reports the
   end, and the node and the descriptor are given back. *)
GoneClientIsReleased ==
    \A w \in Worker, c \in Conn :
        own[w] = c /\ peer[c] # "open" ~> own[w] # c \/ ~alive

(* A connection that main has accepted is handled by some worker. *)
AcceptedIsServed ==
    \A c \in Conn : Queued(c) ~> (\E w \in Worker : own[w] = c) \/ ~alive

(* The server implements Sessions, with a connection found by the descriptor
   in the hands of a worker or a task, not by the history variable. *)
WaitingConns == [i \in DOMAIN queue |-> Resolve(queue[i].fd)] \o backlog
ServedConns == {Resolve(sock[w]) : w \in {v \in Worker : Busy(v)}}

Abstract == INSTANCE Sessions WITH
    N <- Cardinality(Worker),
    waiting <- WaitingConns,
    serving <- ServedConns,
    finished <- {c \in Conn : peer[c] # "off"} \ (ToSet(WaitingConns) \cup ServedConns)

(* Every accepted connection is served once, in the order of arrival, by one
   worker of the pool. *)
ImplementsSessions == Abstract!Spec
=============================================================================
