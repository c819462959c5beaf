--------------------------- MODULE OwnershipProofs ---------------------------
(***************************************************************************)
(* Who owns a descriptor and a node, whom a traversal of the list meets,   *)
(* and that connections are served as Sessions says: proved of ChatServer  *)
(* for any number of workers, connections, descriptors, slots and accounts. *)
(***************************************************************************)
EXTENDS ChatServerProofs

-----------------------------------------------------------------------------
(* The steps of the handlers of message_handler.c leave the list, the      *)
(* descriptors and the loop of handle_client alone.                        *)

LoopLabel == {"idle", "add", "recv", "wait", "exitRemove", "exitClose", "byeRemove", "byeClose"}

Handler(w) == Auth(w) \/ Private(w) \/ Group(w) \/ OnlineList(w) \/ HistoryOrWeather(w)

HandlerFrame(w) ==
    /\ pc[w] \notin LoopLabel
    /\ \E l \in (Label \ LoopLabel) \cup {"recv"} : pc' = [pc EXCEPT ![w] = l]
    /\ UNCHANGED <<queue, sock, own, rc, list, fdtab, inbox, sent, backlog>>
    /\ \A s \in Slot : node'[s].fd = node[s].fd

LEMMA HandlerStep ==
    ASSUME TypeInv, NEW w \in Worker, Handler(w) PROVE HandlerFrame(w)
<1> USE DEF HandlerFrame, LoopLabel, Label, At, Goto, Return
<1>1. CASE Auth(w)
  <2>1. CASE Authenticate(w) \/ Reply(w)
    BY <2>1 DEF Authenticate, Reply, WriteTo, regVars, localVars
  <2>2. CASE SetName(w) \/ SetState(w)
    <3>1. req[w] \in Message
      BY <2>2 DEF SetName, SetState, TypeInv, Types, NoRequest
    <3>2. list' = list /\ \A s \in Slot : node'[s].fd = node[s].fd
      BY <2>2, <3>1, UpdateIs DEF SetName, SetState, TypeInv, Types, Message
    <3> QED BY <2>2, <3>2 DEF SetName, SetState, sockVars, localVars
  <2> QED BY <1>1, <2>1, <2>2 DEF Auth
<1>2. CASE Private(w)
  BY <1>2 DEF Private, FindReceiver, CheckReceiver, LoadReceiver, WriteReceiver,
              FindSender, CheckSender, LoadSender, WriteSender, Find, CheckState, LoadFd,
              WriteAnd, WriteAndReturn, WriteTo, sockVars, regVars
<1>3. CASE Group(w) \/ OnlineList(w)
  BY <1>3 DEF Group, StoreGroup, Member, LoadMember, WriteMember, NextMember,
              OnlineList, ListUsers, Scan, ScanNext, FindSelf, StartAtHead, FollowNext,
              LoadFd, WriteAnd, WriteTo, sockVars, regVars
<1>4. CASE HistoryOrWeather(w)
  BY <1>4 DEF HistoryOrWeather, FindRequester, LoadRequester, HistoryPiece, HistoryEnd,
              LoadAnswer, Answer, Fork, Find, LoadFd, WriteAndReturn, WriteTo,
              sockVars, regVars, localVars
<1> QED BY <1>1, <1>2, <1>3, <1>4 DEF Handler

-----------------------------------------------------------------------------
(* The list: one node for each descriptor, and a handler for each node.    *)

ListInv == TypeInv /\ UniqueFds /\ ListedHasHandler

LEMMA InitListInv == Init => ListInv
<1> SUFFICES ASSUME Init PROVE UniqueFds /\ ListedHasHandler
  BY InitTypeInv DEF ListInv
<1>1. list = <<>>
  BY DEF Init, RegistryInit
<1> QED BY <1>1 DEF UniqueFds, ListedHasHandler

(* While the list and the descriptors in it stay, and no worker stops
   handling its connection, both hold on. *)
LEMMA ListFrame ==
    ASSUME ListInv, list' = list, \A s \in Slot : node'[s].fd = node[s].fd,
           \A w \in Worker : Handling(w) => Handling(w)' /\ sock'[w] = sock[w]
    PROVE  UniqueFds' /\ ListedHasHandler'
<1>1. \A i \in DOMAIN list : list[i] \in Slot
  BY ElementOfSeq, LenProperties DEF ListInv, TypeInv, Types, RegistryTypeOK
<1>2. UniqueFds'
  BY <1>1 DEF ListInv, UniqueFds
<1>3. ListedHasHandler'
  BY <1>1 DEF ListInv, ListedHasHandler
<1> QED BY <1>2, <1>3

LEMMA LoopListInv ==
    ASSUME ListInv, NEW w \in Worker, Take(w) \/ HandleClient(w)
    PROVE  UniqueFds' /\ ListedHasHandler'
<1>0. pc \in [Worker -> Label] /\ sock \in [Worker -> Fd \cup {NoFd}] /\ RegistryTypeOK
  BY DEF ListInv, TypeInv, Types
<1>1. CASE Take(w) \/ AddClientFails(w) \/ ByeClose(w)
  <2>1. UNCHANGED regVars /\ ~Handling(w)
    BY <1>1 DEF Take, AddClientFails, ByeClose, At, Handling
  <2>2. \A v \in Worker : v # w => pc'[v] = pc[v] /\ sock'[v] = sock[v]
    BY <1>0, <1>1 DEF Take, AddClientFails, ByeClose, Finish, Goto
  <2> QED BY <2>1, <2>2, ListFrame DEF regVars, Handling
<1>2. CASE Recv(w) \/ RecvMsg(w) \/ RecvEnd(w) \/ ExitClose(w)
  <2>1. UNCHANGED <<regVars, sock>>
    BY <1>2 DEF Recv, RecvMsg, RecvEnd, ExitClose
  <2>2. PICK l : pc' = [pc EXCEPT ![w] = l] /\ l \notin {"idle", "add", "byeClose"}
    <3>1. CASE RecvMsg(w)
      <4>1. inbox[rc[w]].kind \in AllKinds
        BY <3>1 DEF RecvMsg, ListInv, TypeInv, Types, SocketsTypeOK, Message
      <4>2. inbox[rc[w]].kind # "other" => FirstStep(inbox[rc[w]].kind) \notin {"idle", "add", "byeClose"}
        BY <4>1 DEF FirstStep, AllKinds
      <4> QED BY <3>1, <4>2 DEF RecvMsg, Goto
    <3>2. CASE Recv(w) \/ RecvEnd(w) \/ ExitClose(w)
      BY <3>2 DEF Recv, RecvEnd, ExitClose, Return, Goto
    <3> QED BY <1>2, <3>1, <3>2
  <2> QED BY <1>0, <2>1, <2>2, ListFrame DEF regVars, Handling
<1>3. CASE AddClient(w)
  <2>1. /\ UniqueFds'
        /\ \A i \in DOMAIN list' :
             \/ node'[list'[i]].fd = sock[w]
             \/ \E j \in DOMAIN list : list'[i] = list[j] /\ node'[list'[i]] = node[list[j]]
    BY <1>0, <1>3, AddClientIs DEF AddClient, ListInv
  <2>2. /\ sock' = sock /\ Handling(w)'
        /\ \A v \in Worker : Handling(v) => Handling(v)'
    BY <1>0, <1>3 DEF AddClient, Goto, Handling
  <2> QED BY <2>1, <2>2 DEF ListInv, ListedHasHandler
<1>4. CASE ExitRemove(w) \/ ByeRemove(w)
  <2>1. /\ UniqueFds'
        /\ \A i \in DOMAIN list' :
             /\ node'[list'[i]].fd # sock[w]
             /\ \E j \in DOMAIN list : list'[i] = list[j] /\ node'[list'[i]] = node[list[j]]
    BY <1>0, <1>4, RemoveClientIs DEF ExitRemove, ByeRemove, Unlist, ListInv
  <2>2. sock' = sock /\ \A v \in Worker : v # w /\ Handling(v) => Handling(v)'
    BY <1>0, <1>4 DEF ExitRemove, ByeRemove, Goto, Handling
  <2> QED BY <2>1, <2>2 DEF ListInv, ListedHasHandler
<1> QED BY <1>1, <1>2, <1>3, <1>4 DEF HandleClient

LEMMA NextListInv == ListInv /\ [Next]_vars => ListInv'
<1> SUFFICES ASSUME ListInv, [Next]_vars PROVE UniqueFds' /\ ListedHasHandler'
  BY NextTypeInv DEF ListInv
<1>1. CASE Main \/ (\E c \in Conn : Client(c) \/ ChildAnswer(c)) \/ UNCHANGED vars
  <2>1. UNCHANGED <<regVars, pc, sock>>
    BY <1>1 DEF Main, Accept, AcceptDropped, Client, ChildAnswer, vars, poolVars
  <2> QED BY <2>1, ListFrame DEF regVars, Handling
<1>2. ASSUME NEW w \in Worker, Handler(w) PROVE UniqueFds' /\ ListedHasHandler'
  <2>1. HandlerFrame(w) /\ pc \in [Worker -> Label]
    BY <1>2, HandlerStep DEF ListInv, TypeInv, Types
  <2> QED BY <2>1, ListFrame DEF HandlerFrame, Handling, LoopLabel
<1>3. ASSUME NEW w \in Worker, Take(w) \/ HandleClient(w) PROVE UniqueFds' /\ ListedHasHandler'
  BY <1>3, LoopListInv
<1> QED BY <1>1, <1>2, <1>3 DEF Next, WorkerStep, Handler, Spin, Dead

(* The nodes of the list carry different descriptors, whatever the workers
   do, exit requests included. *)
THEOREM FdsStayUnique == Spec => []UniqueFds
<1>1. ListInv => UniqueFds
  BY DEF ListInv
<1> QED BY <1>1, InitListInv, NextListInv, PTL DEF Spec

(* No node outlives the worker that handles its descriptor. *)
THEOREM NoNodeOutlivesHandler == Spec => []ListedHasHandler
<1>1. ListInv => ListedHasHandler
  BY DEF ListInv
<1> QED BY <1>1, InitListInv, NextListInv, PTL DEF Spec

-----------------------------------------------------------------------------
(* Descriptors: every open one is in a task of the queue or in the hands   *)
(* of a worker.                                                            *)

LeakInv == TypeInv /\ NoDescriptorLeak

(* While nothing is opened and no owner lets go, no descriptor leaks. *)
LEMMA LeakFrame ==
    ASSUME NoDescriptorLeak, queue' = queue,
           \A f \in Fd : fdtab'[f] # NoConn =>
              /\ fdtab[f] # NoConn
              /\ \A w \in Worker : Busy(w) /\ sock[w] = f => Busy(w)' /\ sock'[w] = f
    PROVE  NoDescriptorLeak'
BY DEF NoDescriptorLeak

LEMMA NextLeakInv == LeakInv /\ [Next]_vars => LeakInv'
<1> SUFFICES ASSUME LeakInv, [Next]_vars PROVE NoDescriptorLeak'
  BY NextTypeInv DEF LeakInv
<1>0. /\ pc \in [Worker -> Label] /\ sock \in [Worker -> Fd \cup {NoFd}]
      /\ own \in [Worker -> Conn \cup {NoConn}] /\ queue \in Seq(Task)
      /\ fdtab \in [Fd -> Conn \cup {NoConn}] /\ NoFd \notin Fd /\ NoConn \notin Conn
  BY SocketsAssumption DEF LeakInv, TypeInv, Types, SocketsTypeOK
<1>1. CASE Accept
  <2>1. PICK f \in Fd : /\ fdtab' = [fdtab EXCEPT ![f] = Head(backlog)]
                        /\ queue' = Append(queue, [fd |-> f, conn |-> Head(backlog)])
    BY <1>1 DEF Accept
  <2>2. DOMAIN queue = 1..Len(queue) /\ Len(queue) \in Nat
    BY <1>0, LenProperties
  <2>3. Head(backlog) \in Conn
    BY <1>1 DEF Accept, LeakInv, TypeInv, Types, SocketsTypeOK
  <2>4. [fd |-> f, conn |-> Head(backlog)] \in Task
    BY <2>3 DEF Task
  <2>5. /\ Len(queue) + 1 \in DOMAIN queue' /\ queue'[Len(queue) + 1].fd = f
        /\ \A i \in DOMAIN queue : i \in DOMAIN queue' /\ queue'[i] = queue[i]
    BY <1>0, <2>1, <2>2, <2>4, AppendProperties
  <2>6. UNCHANGED <<pc, sock>>
    BY <1>1 DEF Accept
  <2> QED BY <1>0, <2>1, <2>5, <2>6 DEF LeakInv, NoDescriptorLeak, Busy
<1>2. CASE AcceptDropped \/ (\E c \in Conn : Client(c) \/ ChildAnswer(c)) \/ UNCHANGED vars
  <2>1. UNCHANGED <<pc, sock, queue, fdtab>>
    BY <1>2 DEF AcceptDropped, Client, Connect, Send, HangUp, ChildAnswer, vars, poolVars, sockVars
  <2> QED BY <2>1, LeakFrame DEF LeakInv, Busy
<1>3. ASSUME NEW w \in Worker, Take(w) PROVE NoDescriptorLeak'
  <2>1. /\ UNCHANGED fdtab /\ queue # <<>> /\ queue' = Tail(queue)
        /\ \A v \in Worker : v # w => pc'[v] = pc[v] /\ sock'[v] = sock[v]
        /\ pc[w] = "idle" /\ pc'[w] = "add" /\ sock'[w] = Head(queue).fd
    BY <1>0, <1>3 DEF Take, At, Goto, sockVars
  <2>2. \A i \in DOMAIN queue :
           \/ i = 1 /\ queue[i] = Head(queue)
           \/ i - 1 \in DOMAIN queue' /\ queue'[i - 1] = queue[i]
    BY <1>0, <2>1, HeadTailProperties, LenProperties
  <2>3. ASSUME NEW f \in Fd, fdtab'[f] # NoConn
        PROVE  \/ \E i \in DOMAIN queue' : queue'[i].fd = f
               \/ \E v \in Worker : pc'[v] # "idle" /\ sock'[v] = f
    <3>1. CASE \E i \in DOMAIN queue : queue[i].fd = f
      BY <2>1, <2>2, <3>1
    <3>2. CASE \E v \in Worker : pc[v] # "idle" /\ sock[v] = f
      BY <2>1, <3>2
    <3> QED BY <2>1, <2>3, <3>1, <3>2 DEF LeakInv, NoDescriptorLeak, Busy
  <2> QED BY <2>3 DEF NoDescriptorLeak, Busy
<1>4. ASSUME NEW w \in Worker, AddClientFails(w) \/ ByeClose(w) PROVE NoDescriptorLeak'
  <2>1. /\ queue' = queue
        /\ fdtab' = IF sock[w] \in Fd THEN [fdtab EXCEPT ![sock[w]] = NoConn] ELSE fdtab
        /\ \A v \in Worker : v # w => pc'[v] = pc[v] /\ sock'[v] = sock[v]
    BY <1>0, <1>4 DEF AddClientFails, ByeClose, Finish, Close, Goto
  <2> QED BY <1>0, <2>1, LeakFrame DEF LeakInv, Busy
<1>5. ASSUME NEW w \in Worker, HandleClient(w), ~AddClientFails(w), ~ByeClose(w)
      PROVE  NoDescriptorLeak'
  <2>1. UNCHANGED <<queue, sock>>
    BY <1>5 DEF HandleClient, AddClient, Recv, RecvMsg, RecvEnd, ExitRemove, ExitClose, ByeRemove
  <2>2. \A f \in Fd : fdtab'[f] # NoConn => fdtab[f] # NoConn
    BY <1>0, <1>5 DEF HandleClient, AddClient, Recv, RecvMsg, RecvEnd, ExitRemove, ExitClose,
                      ByeRemove, Close, sockVars
  <2>3. PICK l : l # "idle" /\ pc' = [pc EXCEPT ![w] = l]
    <3>1. CASE RecvMsg(w)
      <4>1. inbox[rc[w]].kind \in AllKinds
        BY <3>1 DEF RecvMsg, LeakInv, TypeInv, Types, SocketsTypeOK, Message
      <4>2. inbox[rc[w]].kind # "other" => FirstStep(inbox[rc[w]].kind) # "idle"
        BY <4>1 DEF FirstStep, AllKinds
      <4> QED BY <3>1, <4>2 DEF RecvMsg, Goto
    <3> QED BY <1>5, <3>1 DEF HandleClient, AddClient, Recv, RecvEnd, ExitRemove, ExitClose,
                              ByeRemove, Return, Goto
  <2> QED BY <1>0, <2>1, <2>2, <2>3, LeakFrame DEF LeakInv, Busy
<1>6. ASSUME NEW w \in Worker, Handler(w) PROVE NoDescriptorLeak'
  <2>1. HandlerFrame(w)
    BY <1>6, HandlerStep DEF LeakInv
  <2> QED BY <1>0, <2>1, LeakFrame DEF HandlerFrame, LoopLabel, LeakInv, Busy
<1> QED BY <1>1, <1>2, <1>3, <1>4, <1>5, <1>6 DEF Next, Main, WorkerStep, Handler, Spin, Dead

(* No path through main and handle_client loses an open descriptor. *)
THEOREM NoDescriptorIsLost == Spec => []NoDescriptorLeak
<1>1. Init => LeakInv
  <2>1. Init => NoDescriptorLeak
    BY DEF Init, SocketsInit, NoDescriptorLeak
  <2> QED BY <2>1, InitTypeInv DEF LeakInv
<1>2. LeakInv => NoDescriptorLeak
  BY DEF LeakInv
<1> QED BY <1>1, <1>2, NextLeakInv, PTL DEF Spec

-----------------------------------------------------------------------------
(* Ownership of connections, where no client sends an exit request: its     *)
(* handler closes the socket and goes on, and then none of this holds.      *)

NoExit == \A c \in Conn : "exit" \notin Kinds[c]

(* Without exit requests no worker is at the two steps they lead to. *)
ExitFree ==
    /\ \A c \in Conn : inbox[c] # NoMsg => inbox[c].kind # "exit"
    /\ \A w \in Worker : pc[w] \notin {"exitRemove", "exitClose"}

(* What recv waits on, and a handler has read from, is the worker's own. *)
ReadsOwn == \A w \in Worker : pc[w] \notin {"idle", "add", "recv"} => rc[w] = own[w]

OwnerInv == TypeInv /\ NoExit /\ ExitFree /\ ExclusiveOwner /\ ReadsOwn

LEMMA InitOwnerInv == NoExit /\ Init => OwnerInv
<1> SUFFICES ASSUME NoExit, Init PROVE ExitFree /\ ExclusiveOwner /\ ReadsOwn
  BY InitTypeInv DEF OwnerInv
<1> QED BY DEF Init, SocketsInit, ExitFree, ExclusiveOwner, ReadsOwn, Busy

(* Who owns what stays so while no descriptor is opened or closed and no
   worker takes a connection; a worker that is idle owns nothing. *)
LEMMA OwnerFrame ==
    ASSUME ExclusiveOwner, UNCHANGED <<queue, fdtab>>,
           \A w \in Worker : Busy(w)' => Busy(w) /\ sock'[w] = sock[w] /\ own'[w] = own[w]
    PROVE  ExclusiveOwner'
BY DEF ExclusiveOwner

LEMMA NextExitFree ==
    ASSUME OwnerInv, [Next]_vars PROVE ExitFree'
<1>0. /\ pc \in [Worker -> Label]
      /\ inbox \in [Conn -> Message \cup {NoMsg}]
      /\ \A c \in Conn : inbox[c] # NoMsg => inbox[c].kind # "exit"
      /\ \A w \in Worker : pc[w] \notin {"exitRemove", "exitClose"}
  BY DEF OwnerInv, TypeInv, Types, SocketsTypeOK, ExitFree
<1>1. CASE \/ Main \/ (\E c \in Conn : ChildAnswer(c)) \/ UNCHANGED vars
  BY <1>0, <1>1 DEF Main, Accept, AcceptDropped, ChildAnswer, vars, sockVars, poolVars, ExitFree
<1>2. ASSUME NEW c \in Conn, Client(c) PROVE ExitFree'
  <2>1. UNCHANGED pc
    BY <1>2 DEF Client, poolVars
  <2>2. CASE Send(c)
    <3>1. PICK m \in Requests(c) : inbox' = [inbox EXCEPT ![c] = m]
      BY <2>2 DEF Send
    <3>2. m.kind # "exit"
      BY DEF Requests, OwnerInv, NoExit
    <3> QED BY <1>0, <2>1, <3>1, <3>2 DEF ExitFree
  <2>3. CASE Connect(c) \/ HangUp(c)
    BY <1>0, <2>1, <2>3 DEF Connect, HangUp, ExitFree
  <2> QED BY <1>2, <2>2, <2>3 DEF Client
<1>3. ASSUME NEW w \in Worker, RecvMsg(w) PROVE ExitFree'
  <2>1. rc[w] \in Conn /\ inbox[rc[w]] # NoMsg /\ inbox' = [inbox EXCEPT ![rc[w]] = NoMsg]
    BY <1>3 DEF RecvMsg
  <2>2. inbox[rc[w]].kind \in AllKinds \ {"exit"}
    BY <1>0, <2>1 DEF Message
  <2>3. inbox[rc[w]].kind # "other" => FirstStep(inbox[rc[w]].kind) \notin {"exitRemove", "exitClose"}
    BY <2>2 DEF FirstStep, AllKinds
  <2>4. PICK l : l \notin {"exitRemove", "exitClose"} /\ pc' = [pc EXCEPT ![w] = l]
    BY <1>3, <2>3 DEF RecvMsg, Goto
  <2> QED BY <1>0, <2>1, <2>4 DEF ExitFree
<1>4. ASSUME NEW w \in Worker, Take(w) \/ HandleClient(w), ~RecvMsg(w) PROVE ExitFree'
  <2>1. inbox' = inbox
    BY <1>4 DEF Take, HandleClient, AddClient, AddClientFails, Recv, RecvEnd, ExitRemove, ExitClose,
                ByeRemove, ByeClose, Close, sockVars
  <2>2. \E l : l \notin {"exitRemove", "exitClose"} /\ pc' = [pc EXCEPT ![w] = l]
    BY <1>0, <1>4 DEF Take, HandleClient, AddClient, AddClientFails, Recv, RecvEnd, ExitRemove,
                      ExitClose, ByeRemove, ByeClose, Return, Finish, Goto, At
  <2> QED BY <1>0, <2>1, <2>2 DEF ExitFree
<1>5. ASSUME NEW w \in Worker, Handler(w) PROVE ExitFree'
  <2>1. HandlerFrame(w)
    BY <1>5, HandlerStep DEF OwnerInv
  <2> QED BY <1>0, <2>1 DEF HandlerFrame, LoopLabel, ExitFree
<1> QED BY <1>1, <1>2, <1>3, <1>4, <1>5 DEF Next, WorkerStep, Handler, Spin, Dead

LEMMA NextExclusiveOwner ==
    ASSUME OwnerInv, [Next]_vars PROVE ExclusiveOwner'
<1>0. /\ pc \in [Worker -> Label] /\ sock \in [Worker -> Fd \cup {NoFd}]
      /\ own \in [Worker -> Conn \cup {NoConn}] /\ queue \in Seq(Task)
      /\ fdtab \in [Fd -> Conn \cup {NoConn}] /\ NoFd \notin Fd /\ NoConn \notin Conn
      /\ ExclusiveOwner
  BY SocketsAssumption DEF OwnerInv, TypeInv, Types, SocketsTypeOK
<1>00. /\ DOMAIN queue = 1..Len(queue) /\ Len(queue) \in Nat
      /\ \A i \in DOMAIN queue : queue[i].fd \in Fd /\ queue[i].conn \in Conn
  <2>1. \A i \in DOMAIN queue : queue[i] \in Task
    BY <1>0, LenProperties, ElementOfSeq
  <2> QED BY <1>0, <2>1, LenProperties DEF Task
<1>1. CASE Accept
  <2>1. PICK f \in Fd : /\ fdtab[f] = NoConn
                        /\ fdtab' = [fdtab EXCEPT ![f] = Head(backlog)]
                        /\ queue' = Append(queue, [fd |-> f, conn |-> Head(backlog)])
    BY <1>1 DEF Accept
  <2>2. Head(backlog) \in Conn
    BY <1>1 DEF Accept, OwnerInv, TypeInv, Types, SocketsTypeOK
  <2>3. UNCHANGED <<pc, sock, own>>
    BY <1>1 DEF Accept
  <2>4. \A i \in DOMAIN queue' :
           \/ i \in DOMAIN queue /\ queue'[i] = queue[i]
           \/ i = Len(queue) + 1 /\ queue'[i].fd = f /\ queue'[i].conn = Head(backlog)
    <3>1. [fd |-> f, conn |-> Head(backlog)] \in Task
      BY <2>2 DEF Task
    <3> QED BY <1>0, <1>00, <2>1, <3>1, AppendProperties
  <2>5. /\ \A w \in Worker : Busy(w) => sock[w] # f
        /\ \A i \in DOMAIN queue : queue[i].fd # f
    BY <1>0, <1>00, <2>1 DEF ExclusiveOwner
  <2>6. /\ \A w \in Worker : Busy(w)' => sock'[w] \in Fd /\ fdtab'[sock'[w]] = own'[w] /\ own'[w] \in Conn
        /\ \A v, w \in Worker : v # w /\ Busy(v)' /\ Busy(w)' => sock'[v] # sock'[w]
    BY <1>0, <2>1, <2>3, <2>5 DEF ExclusiveOwner, Busy
  <2>7. \A i \in DOMAIN queue' : fdtab'[queue'[i].fd] = queue'[i].conn
    BY <1>0, <1>00, <2>1, <2>4, <2>5 DEF ExclusiveOwner
  <2>8. \A i \in DOMAIN queue', w \in Worker : Busy(w)' => sock'[w] # queue'[i].fd
    BY <1>0, <2>3, <2>4, <2>5 DEF ExclusiveOwner, Busy
  <2>9. \A i, j \in DOMAIN queue' : i # j => queue'[i].fd # queue'[j].fd
    BY <1>0, <1>00, <2>4, <2>5 DEF ExclusiveOwner
  <2> QED BY <2>6, <2>7, <2>8, <2>9 DEF ExclusiveOwner
<1>2. CASE AcceptDropped \/ (\E c \in Conn : Client(c) \/ ChildAnswer(c)) \/ UNCHANGED vars
  <2>1. UNCHANGED <<pc, sock, own, queue, fdtab>>
    BY <1>2 DEF AcceptDropped, Client, Connect, Send, HangUp, ChildAnswer, vars, poolVars, sockVars
  <2> QED BY <1>0, <2>1, OwnerFrame DEF Busy
<1>3. ASSUME NEW w \in Worker, Take(w) PROVE ExclusiveOwner'
  <2>1. /\ UNCHANGED fdtab /\ queue # <<>> /\ queue' = Tail(queue)
        /\ \A v \in Worker : v # w => pc'[v] = pc[v] /\ sock'[v] = sock[v] /\ own'[v] = own[v]
        /\ sock'[w] = queue[1].fd /\ own'[w] = queue[1].conn
    BY <1>0, <1>3 DEF Take, Goto, sockVars
  <2>2. /\ 1 \in DOMAIN queue
        /\ \A i \in DOMAIN queue' : i + 1 \in DOMAIN queue /\ i + 1 # 1 /\ queue'[i] = queue[i + 1]
    BY <1>0, <1>00, <2>1, HeadTailProperties, LenProperties
  <2>3. \A v \in Worker : v # w /\ Busy(v)' => Busy(v) /\ sock[v] # queue[1].fd
    BY <1>0, <2>1, <2>2 DEF ExclusiveOwner, Busy
  <2>4. /\ \A v \in Worker : Busy(v)' => sock'[v] \in Fd /\ fdtab'[sock'[v]] = own'[v] /\ own'[v] \in Conn
        /\ \A u, v \in Worker : u # v /\ Busy(u)' /\ Busy(v)' => sock'[u] # sock'[v]
    BY <1>0, <1>00, <2>1, <2>2, <2>3 DEF ExclusiveOwner
  <2>5. \A i \in DOMAIN queue' : fdtab'[queue'[i].fd] = queue'[i].conn
    BY <1>0, <2>1, <2>2 DEF ExclusiveOwner
  <2>6. \A i \in DOMAIN queue', v \in Worker : Busy(v)' => sock'[v] # queue'[i].fd
    <3> TAKE i \in DOMAIN queue', v \in Worker
    <3> HAVE Busy(v)'
    <3>1. CASE v = w
      BY <1>0, <2>1, <2>2, <3>1 DEF ExclusiveOwner
    <3>2. CASE v # w
      BY <1>0, <2>1, <2>2, <2>3, <3>2 DEF ExclusiveOwner
    <3> QED BY <3>1, <3>2
  <2>7. \A i, j \in DOMAIN queue' : i # j => queue'[i].fd # queue'[j].fd
    <3> TAKE i, j \in DOMAIN queue'
    <3> HAVE i # j
    <3>1. i \in Nat /\ j \in Nat
      BY <1>0, <2>1, HeadTailProperties, LenProperties
    <3> QED BY <1>0, <2>2, <3>1 DEF ExclusiveOwner
  <2> QED BY <2>4, <2>5, <2>6, <2>7 DEF ExclusiveOwner
<1>4. ASSUME NEW w \in Worker, AddClientFails(w) \/ ByeClose(w) PROVE ExclusiveOwner'
  <2>1. Busy(w) /\ sock[w] \in Fd
    BY <1>0, <1>4 DEF AddClientFails, ByeClose, At, Busy, ExclusiveOwner
  <2>2. /\ queue' = queue
        /\ fdtab' = [fdtab EXCEPT ![sock[w]] = NoConn]
        /\ ~Busy(w)'
        /\ \A v \in Worker : v # w => pc'[v] = pc[v] /\ sock'[v] = sock[v] /\ own'[v] = own[v]
    BY <1>0, <1>4, <2>1 DEF AddClientFails, ByeClose, Finish, Close, Goto, Busy
  <2>3. \A v \in Worker : Busy(v)' => v # w /\ Busy(v) /\ sock[v] # sock[w]
    BY <1>0, <2>1, <2>2 DEF ExclusiveOwner, Busy
  <2>4. \A i \in DOMAIN queue : queue[i].fd # sock[w]
    BY <1>0, <2>1 DEF ExclusiveOwner
  <2> QED BY <1>0, <1>00, <2>1, <2>2, <2>3, <2>4 DEF ExclusiveOwner
<1>5. ASSUME NEW w \in Worker, HandleClient(w), ~AddClientFails(w), ~ByeClose(w)
      PROVE  ExclusiveOwner'
  <2>1. ~ExitClose(w) /\ ~ExitRemove(w)
    BY DEF ExitClose, ExitRemove, At, OwnerInv, ExitFree
  <2>2. UNCHANGED <<queue, sock, own, fdtab>> /\ Busy(w)
    BY <1>5, <2>1 DEF HandleClient, AddClient, Recv, RecvMsg, RecvEnd, ByeRemove, At, Busy, sockVars
  <2>3. \A v \in Worker : v # w => pc'[v] = pc[v]
    BY <1>0, <1>5, <2>1 DEF HandleClient, AddClient, Recv, RecvMsg, RecvEnd, ByeRemove, Goto
  <2> QED BY <1>0, <2>2, <2>3, OwnerFrame DEF Busy
<1>6. ASSUME NEW w \in Worker, Handler(w) PROVE ExclusiveOwner'
  <2>1. HandlerFrame(w)
    BY <1>6, HandlerStep DEF OwnerInv
  <2> QED BY <1>0, <2>1, OwnerFrame DEF HandlerFrame, LoopLabel, Busy
<1> QED BY <1>1, <1>2, <1>3, <1>4, <1>5, <1>6 DEF Next, Main, WorkerStep, Handler, Spin, Dead

LEMMA NextReadsOwn ==
    ASSUME OwnerInv, [Next]_vars PROVE ReadsOwn'
<1>0. /\ pc \in [Worker -> Label] /\ rc \in [Worker -> Conn \cup {NoConn}]
      /\ ExclusiveOwner /\ ReadsOwn /\ NoConn \notin Conn
  BY SocketsAssumption DEF OwnerInv, TypeInv, Types
<1>1. CASE Main \/ (\E c \in Conn : Client(c) \/ ChildAnswer(c)) \/ UNCHANGED vars
  <2>1. UNCHANGED <<pc, own, rc>>
    BY <1>1 DEF Main, Accept, AcceptDropped, Client, ChildAnswer, vars, poolVars, localVars
  <2> QED BY <1>0, <2>1 DEF ReadsOwn
<1>2. ASSUME NEW w \in Worker, Take(w) \/ AddClient(w) \/ AddClientFails(w) \/ ByeClose(w)
      PROVE  ReadsOwn'
  <2>1. /\ pc'[w] \in {"idle", "add", "recv"}
        /\ \A v \in Worker : v # w => pc'[v] = pc[v] /\ own'[v] = own[v] /\ rc'[v] = rc[v]
    <3>1. own \in [Worker -> Conn \cup {NoConn}]
      BY DEF OwnerInv, TypeInv, Types
    <3> QED BY <1>0, <1>2, <3>1 DEF Take, AddClient, AddClientFails, ByeClose, Finish, Goto, localVars
  <2> QED BY <1>0, <2>1 DEF ReadsOwn
<1>3. ASSUME NEW w \in Worker, Recv(w) PROVE ReadsOwn'
  <2>1. Resolve(sock[w]) = own[w]
    BY <1>0, <1>3 DEF Recv, At, Resolve, ExclusiveOwner, Busy
  <2> QED BY <1>0, <1>3, <2>1 DEF Recv, Goto, ReadsOwn
<1>4. ASSUME NEW w \in Worker, RecvMsg(w) \/ RecvEnd(w) \/ ByeRemove(w) PROVE ReadsOwn'
  <2>1. /\ UNCHANGED <<own, rc>> /\ pc[w] \in {"wait", "byeRemove"}
        /\ \A v \in Worker : v # w => pc'[v] = pc[v]
    BY <1>0, <1>4 DEF RecvMsg, RecvEnd, ByeRemove, At, Goto, localVars
  <2> QED BY <1>0, <2>1 DEF ReadsOwn
<1>5. ASSUME NEW w \in Worker PROVE ~ExitRemove(w) /\ ~ExitClose(w)
  BY DEF ExitClose, ExitRemove, At, OwnerInv, ExitFree
<1>6. ASSUME NEW w \in Worker, Handler(w) PROVE ReadsOwn'
  <2>1. HandlerFrame(w)
    BY <1>6, HandlerStep DEF OwnerInv
  <2> QED BY <1>0, <2>1 DEF HandlerFrame, LoopLabel, ReadsOwn
<1> QED BY <1>1, <1>2, <1>3, <1>4, <1>5, <1>6
        DEF Next, Main, WorkerStep, HandleClient, Handler, Spin, Dead

LEMMA NextOwnerInv == OwnerInv /\ [Next]_vars => OwnerInv'
BY NextTypeInv, NextExitFree, NextExclusiveOwner, NextReadsOwn DEF OwnerInv, NoExit

(* Where no exit request comes, the descriptor in the hands of a worker or a
   task is open, denotes the connection that was accepted for it, and is in
   nobody else's hands: no close in handle_client hits another's connection. *)
THEOREM OwnersAreExclusive == NoExit /\ Spec => []ExclusiveOwner
<1>1. OwnerInv => ExclusiveOwner
  BY DEF OwnerInv
<1> QED BY <1>1, InitOwnerInv, NextOwnerInv, PTL DEF Spec

(* There too, a node leaves the list only by the hand of the worker that
   serves its connection. *)
LEMMA RemovesOwnNode ==
    ASSUME OwnerInv, ListInv, [Next]_vars
    PROVE  \A s \in Linked \ Linked' : \E w \in Worker :
              pc[w] \in {"exitRemove", "byeRemove"} /\ Resolve(node[s].fd) = own[w]
<1> SUFFICES ASSUME NEW s \in Linked, s \notin Linked'
             PROVE  \E w \in Worker : pc[w] \in {"exitRemove", "byeRemove"} /\ Resolve(node[s].fd) = own[w]
  OBVIOUS
<1>1. PICK j \in DOMAIN list : list[j] = s
  BY DEF Linked, ToSet
<1>2. \A i \in DOMAIN list' : list'[i] # s
  BY DEF Linked, ToSet
<1>3. list' # list
  BY <1>1, <1>2
<1>4. RegistryTypeOK /\ UniqueFds /\ sock \in [Worker -> Fd \cup {NoFd}]
  BY DEF ListInv, TypeInv, Types
<1>5. ASSUME NEW w \in Worker PROVE ~AddClient(w) /\ ~Handler(w)
  <2>1. ~Handler(w)
    BY <1>3, HandlerStep DEF HandlerFrame, OwnerInv
  <2>2. ~AddClient(w)
    BY <1>1, <1>2, <1>4, AddClientIs DEF AddClient
  <2> QED BY <2>1, <2>2
<1>6. PICK w \in Worker : ExitRemove(w) \/ ByeRemove(w)
  BY <1>3, <1>5 DEF Next, Main, Accept, AcceptDropped, WorkerStep, HandleClient, Take, Recv, RecvMsg,
     AddClientFails, RecvEnd, ExitClose, ByeClose, Handler, Spin, Dead, Client, ChildAnswer, regVars, vars
<1>7. pc[w] \in {"exitRemove", "byeRemove"} /\ remove_client(sock[w])
  BY <1>6 DEF ExitRemove, ByeRemove, At, Unlist
<1>8. node[s].fd = sock[w]
  BY <1>1, <1>2, <1>4, <1>7, RemoveClientIs
<1>9. Resolve(sock[w]) = own[w]
  BY <1>7 DEF Resolve, OwnerInv, ExclusiveOwner, Busy
<1> QED BY <1>7, <1>8, <1>9

THEOREM NodesAreRemovedByTheirWorker == NoExit /\ Spec => OnlyOwnNodeRemoved
<1>1. NoExit /\ Spec => [](OwnerInv /\ ListInv)
  BY InitOwnerInv, NextOwnerInv, InitListInv, NextListInv, PTL DEF Spec
<1>2. OwnerInv /\ ListInv /\ [Next]_vars =>
        [\A s \in Linked \ Linked' : \E w \in Worker :
            pc[w] \in {"exitRemove", "byeRemove"} /\ Resolve(node[s].fd) = own[w]]_vars
  BY RemovesOwnNode
<1> QED BY <1>1, <1>2, PTL DEF Spec, OnlyOwnNodeRemoved

-----------------------------------------------------------------------------
(* Traversals without the lock: what a traversal has to reach yet lies      *)
(* ahead of it, although nodes leave and enter the list under its eyes.     *)

(* cov[s] holds nodes of the list that whoever stands on s, in the list or
   freed, comes to on the way to the end. *)
Covers(cov, s) == IF s = Null THEN {} ELSE cov[s]

Traversing == {"member", "scan", "loadMember", "writeMember", "nextMember", "scanNext"}

Ahead(cov, w) ==
    /\ pc[w] \in {"member", "scan"} => due[w] \subseteq Covers(cov, cur[w])
    /\ pc[w] \in {"loadMember", "writeMember"} => due[w] \subseteq cov[cur[w]]
    /\ pc[w] \in {"nextMember", "scanNext"} => due[w] \subseteq Covers(cov, NextOf(cur[w]))

IsCover(cov) ==
    /\ \A s \in Slot : cov[s] \subseteq Linked /\ cov[s] \subseteq {s} \cup Covers(cov, NextOf(s))
    /\ Linked \subseteq Covers(cov, ListHead)
    /\ \A w \in Worker : Ahead(cov, w)

Covered == \E cov \in [Slot -> SUBSET Slot] : IsCover(cov)

DueAreMembers == \A w \in Worker : due[w] \subseteq Members

TraversalInv == ListInv /\ DueAreMembers /\ Covered

LEMMA InitTraversalInv == Init => TraversalInv
<1> SUFFICES ASSUME Init PROVE DueAreMembers /\ Covered
  BY InitListInv DEF TraversalInv
<1>1. list = <<>> /\ Linked = {}
  BY DEF Init, RegistryInit, Linked, ToSet
<1> DEFINE cov == [s \in Slot |-> {}]
<1>2. IsCover(cov)
  BY <1>1 DEF IsCover, Covers, Ahead, Init
<1> QED BY <1>2 DEF Covered, DueAreMembers, Init

LEMMA TraversalFacts ==
    ASSUME TraversalInv, [Next]_vars
    PROVE  /\ TypeInv /\ TypeInv' /\ ListInv /\ ListInv' /\ RegistryTypeOK /\ UniqueFds
           /\ pc \in [Worker -> Label] /\ cur \in [Worker -> Slot \cup {Null}]
           /\ due \in [Worker -> SUBSET Slot] /\ cur' \in [Worker -> Slot \cup {Null}]
           /\ \A w \in Worker : pc'[w] \in Pointing => cur'[w] \in Slot
           /\ \A s \in Slot : NextOf(s) \in Slot \cup {Null}
           /\ ListHead \in Slot \cup {Null} /\ Linked \subseteq Slot /\ Null \notin Slot
<1>1. TypeInv /\ TypeInv' /\ ListInv /\ ListInv' /\ RegistryTypeOK /\ UniqueFds
  BY NextListInv DEF TraversalInv, ListInv, TypeInv, Types
<1>2. Links
  BY <1>1, LinkIs
<1>3. ListHead \in Slot \cup {Null} /\ Linked \subseteq Slot
  BY <1>2 DEF Links
<1>4. \A s \in Slot : NextOf(s) \in Slot \cup {Null}
  BY <1>1, LinkIsSlotOrNull
<1> QED BY <1>1, <1>3, <1>4, RegistryAssumption DEF TypeInv, Types

(* A step that leaves the links alone, and everybody who traverses where he
   is. *)
LEMMA StillCovered ==
    ASSUME TraversalInv, [Next]_vars, Linked' = Linked, ListHead' = ListHead,
           \A s \in Slot : /\ NextOf(s)' = NextOf(s)
                           /\ node[s].state = "auth" => node'[s].state = "auth",
           \A w \in Worker :
              /\ due'[w] \subseteq due[w]
              /\ pc'[w] \in Traversing => pc'[w] = pc[w] /\ cur'[w] = cur[w]
    PROVE  DueAreMembers' /\ Covered'
<1>1. PICK cov \in [Slot -> SUBSET Slot] : IsCover(cov)
  BY DEF TraversalInv, Covered
<1>2. DueAreMembers'
  BY TraversalFacts DEF TraversalInv, DueAreMembers, Members
<1>3. ASSUME NEW w \in Worker PROVE Ahead(cov, w)'
  <2>1. pc'[w] \in Traversing => pc'[w] = pc[w] /\ cur'[w] = cur[w]
    OBVIOUS
  <2>2. pc'[w] \in {"nextMember", "scanNext"} => cur'[w] \in Slot
    BY TraversalFacts DEF Pointing
  <2>3. Ahead(cov, w)
    BY <1>1 DEF IsCover
  <2> QED BY <2>1, <2>2, <2>3 DEF Ahead, Traversing, Covers
<1>4. IsCover(cov)'
  BY <1>1, <1>3 DEF IsCover, Covers
<1> QED BY <1>2, <1>4 DEF Covered

(* The steps of the traversals themselves. *)
LEMMA TraversalStep ==
    ASSUME TraversalInv, Next, NEW w \in Worker, Group(w) \/ OnlineList(w)
    PROVE  DueAreMembers' /\ Covered'
<1> USE DEF At, Goto, Return
<1>0. /\ pc \in [Worker -> Label] /\ cur \in [Worker -> Slot \cup {Null}]
      /\ due \in [Worker -> SUBSET Slot]
      /\ \A v \in Worker : pc[v] \in Pointing => cur[v] \in Slot
      /\ TypeInv
  BY TraversalFacts DEF TypeInv
<1>1. UNCHANGED <<list, node>>
  BY DEF Group, OnlineList, StoreGroup, Member, LoadMember, WriteMember, NextMember, ListUsers,
         Scan, ScanNext, FindSelf, StartAtHead, FollowNext, LoadFd, WriteAnd, regVars
<1>2. /\ Linked' = Linked /\ ListHead' = ListHead /\ Members' = Members
      /\ \A s : NextOf(s)' = NextOf(s)
  BY <1>1 DEF Linked, ListHead, Members, NextOf, Successor
<1>3. \A v \in Worker \ {w} : pc'[v] = pc[v] /\ cur'[v] = cur[v] /\ due'[v] = due[v]
  BY <1>0 DEF Group, OnlineList, StoreGroup, Member, LoadMember, WriteMember, NextMember, ListUsers,
         Scan, ScanNext, FindSelf, StartAtHead, FollowNext, LoadFd, WriteAnd
<1>4. PICK cov \in [Slot -> SUBSET Slot] : IsCover(cov)
  BY DEF TraversalInv, Covered
<1>5. Ahead(cov, w) /\ due[w] \subseteq Members
  BY <1>4 DEF IsCover, TraversalInv, DueAreMembers
<1>6. due'[w] \subseteq Members /\ Ahead(cov, w)'
  <2>1. CASE StoreGroup(w) \/ ListUsers(w)
    <3>1. pc'[w] \in {"member", "scan"} /\ cur'[w] = ListHead /\ due'[w] = Members
      BY <1>0, <2>1 DEF StoreGroup, ListUsers, StartAtHead
    <3>2. Members \subseteq Covers(cov, ListHead)
      BY <1>4 DEF IsCover, Members
    <3> QED BY <3>1, <3>2 DEF Ahead
  <2>2. CASE Member(w)
    <3>1. CASE cur[w] = Null
      BY <1>0, <2>2, <3>1 DEF Member, Ahead
    <3>2. CASE cur[w] # Null
      <4>1. /\ cur[w] \in Slot /\ due'[w] = due[w] /\ cur'[w] = cur[w] /\ pc[w] = "member"
            /\ pc'[w] = IF node[cur[w]].state = "auth" THEN "loadMember" ELSE "nextMember"
        BY <1>0, <2>2, <3>2 DEF Member
      <4>2. due[w] \subseteq cov[cur[w]]
        BY <1>5, <3>2, <4>1 DEF Ahead, Covers
      <4>3. cov[cur[w]] \subseteq {cur[w]} \cup Covers(cov, NextOf(cur[w]))
        BY <1>4, <4>1 DEF IsCover
      <4>4. node[cur[w]].state # "auth" => cur[w] \notin due[w]
        BY <1>5 DEF Members
      <4> QED BY <1>2, <1>5, <4>1, <4>2, <4>3, <4>4 DEF Ahead
    <3> QED BY <3>1, <3>2
  <2>3. CASE LoadMember(w)
    BY <1>0, <1>5, <2>3 DEF LoadMember, LoadFd, Ahead
  <2>4. CASE WriteMember(w)
    <3>1. /\ cur[w] \in Slot /\ due'[w] = due[w] \ {cur[w]} /\ cur'[w] = cur[w]
          /\ pc[w] = "writeMember" /\ pc'[w] = "nextMember"
      BY <1>0, <2>4 DEF WriteMember, WriteAnd, Pointing
    <3>2. cov[cur[w]] \subseteq {cur[w]} \cup Covers(cov, NextOf(cur[w]))
      BY <1>4, <3>1 DEF IsCover
    <3> QED BY <1>2, <1>5, <3>1, <3>2 DEF Ahead
  <2>5. CASE NextMember(w) \/ ScanNext(w)
    <3>1. /\ due'[w] = due[w] /\ cur'[w] = NextOf(cur[w])
          /\ pc[w] \in {"nextMember", "scanNext"} /\ pc'[w] \in {"member", "scan"}
      BY <1>0, <2>5 DEF NextMember, ScanNext, FollowNext
    <3> QED BY <1>5, <3>1 DEF Ahead
  <2>6. CASE Scan(w)
    <3>1. CASE cur[w] = Null
      BY <1>0, <1>5, <2>6, <3>1 DEF Scan, Ahead
    <3>2. CASE cur[w] # Null
      <4>1. /\ cur[w] \in Slot /\ cur'[w] = cur[w] /\ pc[w] = "scan" /\ pc'[w] = "scanNext"
            /\ due'[w] = IF node[cur[w]].state = "auth" THEN due[w] \ {cur[w]} ELSE due[w]
        BY <1>0, <2>6, <3>2 DEF Scan
      <4>2. due[w] \subseteq cov[cur[w]]
        BY <1>5, <3>2, <4>1 DEF Ahead, Covers
      <4>3. cov[cur[w]] \subseteq {cur[w]} \cup Covers(cov, NextOf(cur[w]))
        BY <1>4, <4>1 DEF IsCover
      <4>4. cur[w] \notin due'[w] /\ due'[w] \subseteq due[w]
        BY <1>5, <4>1 DEF Members
      <4> QED BY <1>2, <1>5, <4>1, <4>2, <4>3, <4>4 DEF Ahead
    <3> QED BY <3>1, <3>2
  <2>7. CASE FindSelf(w)
    BY <1>0, <1>5, <2>7 DEF FindSelf, Ahead
  <2> QED BY <2>1, <2>2, <2>3, <2>4, <2>5, <2>6, <2>7 DEF Group, OnlineList
<1>7. DueAreMembers'
  BY <1>2, <1>3, <1>6 DEF TraversalInv, DueAreMembers
<1>8. ASSUME NEW v \in Worker \ {w} PROVE Ahead(cov, v)'
  BY <1>2, <1>3, <1>4 DEF IsCover, Ahead, Covers
<1>9. IsCover(cov)'
  BY <1>2, <1>4, <1>6, <1>8 DEF IsCover, Covers
<1> QED BY <1>7, <1>9 DEF Covered

(* A node that is put in lies before everything in the list. *)
LEMMA TraversalAdd ==
    ASSUME TraversalInv, Next, NEW w \in Worker, AddClient(w), WithFd(sock[w]) = {}
    PROVE  DueAreMembers' /\ Covered'
<1> USE DEF At, Goto
<1>0. /\ pc \in [Worker -> Label] /\ sock[w] \in Fd \cup {NoFd} /\ RegistryTypeOK /\ UniqueFds
  BY TraversalFacts DEF TypeInv, Types
<1>1. PICK cov \in [Slot -> SUBSET Slot] : IsCover(cov)
  BY DEF TraversalInv, Covered
<1>2. PICK s \in Slot \ Linked :
         /\ Linked' = Linked \cup {s} /\ ListHead' = s /\ NextOf(s)' = ListHead
         /\ \A u \in Slot \ {s} : NextOf(u)' = NextOf(u) /\ node'[u] = node[u]
  BY <1>0, LinksAfterAdd DEF AddClient
<1>3. /\ UNCHANGED <<cur, due>> /\ pc'[w] = "recv"
      /\ \A v \in Worker \ {w} : pc'[v] = pc[v]
  BY <1>0 DEF AddClient, localVars
<1>4. DueAreMembers'
  <2>1. Members \subseteq Members'
    BY <1>2, TraversalFacts DEF Members
  <2> QED BY <1>3, <2>1 DEF TraversalInv, DueAreMembers
<1> DEFINE with == [u \in Slot |-> IF u = s THEN Linked \cup {s} ELSE cov[u]]
<1>5. PICK new \in [Slot -> SUBSET Slot] :
         new[s] = Linked \cup {s} /\ \A u \in Slot : u # s => new[u] = cov[u]
  <2>1. /\ with \in [Slot -> SUBSET Slot] /\ with[s] = Linked \cup {s}
        /\ \A u \in Slot : u # s => with[u] = cov[u]
    BY <1>1, TraversalFacts
  <2> HIDE DEF with
  <2> QED BY <2>1
<1>6. \A u \in Slot \cup {Null} : Covers(cov, u) \subseteq Covers(new, u)
  BY <1>1, <1>5 DEF Covers, IsCover
<1>7. \A u \in Slot : new[u] \subseteq Linked' /\ new[u] \subseteq {u} \cup Covers(new, NextOf(u)')
  <2> TAKE u \in Slot
  <2>1. CASE u = s
    <3>1. Linked \subseteq Covers(cov, ListHead)
      BY <1>1 DEF IsCover
    <3> QED BY <1>2, <1>5, <1>6, <2>1, <3>1, TraversalFacts
  <2>2. CASE u # s
    <3>1. cov[u] \subseteq Linked /\ cov[u] \subseteq {u} \cup Covers(cov, NextOf(u))
      BY <1>1 DEF IsCover
    <3> QED BY <1>2, <1>5, <1>6, <2>2, <3>1, TraversalFacts
  <2> QED BY <2>1, <2>2
<1>8. Linked' \subseteq Covers(new, ListHead')
  BY <1>2, <1>5, TraversalFacts DEF Covers
<1>9. ASSUME NEW v \in Worker PROVE Ahead(new, v)'
  <2>1. CASE v = w
    BY <1>3, <2>1 DEF Ahead
  <2>2. CASE v # w
    <3>1. pc'[v] = pc[v] /\ due'[v] = due[v] /\ cur'[v] = cur[v] /\ cur[v] \in Slot \cup {Null}
          /\ (pc[v] \in Pointing => cur[v] \in Slot)
      BY <1>3, <2>2, TraversalFacts DEF TypeInv
    <3>2. Ahead(cov, v) /\ due[v] \subseteq Linked
      BY <1>1 DEF IsCover, TraversalInv, DueAreMembers, Members
    <3>3. CASE pc[v] \in {"member", "scan"}
      BY <1>6, <3>1, <3>2, <3>3 DEF Ahead
    <3>4. CASE pc[v] \in {"loadMember", "writeMember"}
      <4>1. due[v] \subseteq cov[cur[v]] /\ cur[v] \in Slot
        BY <3>1, <3>2, <3>4 DEF Ahead, Pointing
      <4>2. due[v] \subseteq new[cur[v]]
        BY <1>5, <3>2, <4>1
      <4> QED BY <3>1, <3>4, <4>2 DEF Ahead
    <3>5. CASE pc[v] \in {"nextMember", "scanNext"}
      <4>1. due[v] \subseteq Covers(cov, NextOf(cur[v])) /\ cur[v] \in Slot
        BY <3>1, <3>2, <3>5 DEF Ahead, Pointing
      <4>2. CASE cur[v] = s
        <5>1. Linked \subseteq Covers(new, ListHead)
          BY <1>1, <1>6, TraversalFacts DEF IsCover
        <5>2. NextOf(cur[v])' = ListHead
          BY <1>2, <3>1, <4>2
        <5> QED BY <3>1, <3>2, <3>5, <5>1, <5>2 DEF Ahead
      <4>3. CASE cur[v] # s
        <5>1. NextOf(cur[v])' = NextOf(cur[v])
          BY <1>2, <3>1, <4>1, <4>3
        <5>2. Covers(cov, NextOf(cur[v])) \subseteq Covers(new, NextOf(cur[v]))
          BY <1>6, <4>1, TraversalFacts
        <5> QED BY <3>1, <3>5, <4>1, <5>1, <5>2 DEF Ahead
      <4> QED BY <4>2, <4>3
    <3> QED BY <3>1, <3>3, <3>4, <3>5 DEF Ahead
  <2> QED BY <2>1, <2>2
<1>10. IsCover(new)'
  BY <1>7, <1>8, <1>9 DEF IsCover, Covers
<1> QED BY <1>4, <1>5, <1>10 DEF Covered

(* A node that is taken out is nobody's any more; those who stand on it go on
   from there. *)
LEMMA TraversalRemove ==
    ASSUME TraversalInv, Next, NEW w \in Worker, ExitRemove(w) \/ ByeRemove(w),
           WithFd(sock[w]) # {}
    PROVE  DueAreMembers' /\ Covered'
<1> USE DEF At, Goto
<1>0. /\ pc \in [Worker -> Label] /\ due \in [Worker -> SUBSET Slot]
      /\ RegistryTypeOK /\ UniqueFds
  BY TraversalFacts
<1>1. PICK cov \in [Slot -> SUBSET Slot] : IsCover(cov)
  BY DEF TraversalInv, Covered
<1>2. PICK x : x = find_client_by_sockfd(sock[w])
  OBVIOUS
<1>3. /\ x \in Linked /\ Linked' = Linked \ {x}
      /\ ListHead' = IF ListHead = x THEN NextOf(x) ELSE ListHead
      /\ \A u \in Slot :
           /\ node'[u].state = node[u].state
           /\ NextOf(u)' = IF u \in Linked /\ NextOf(u) = x THEN NextOf(x) ELSE NextOf(u)
  BY <1>0, <1>2, LinksAfterRemove DEF ExitRemove, ByeRemove, Unlist
<1>4. /\ cur' = cur /\ \A v \in Worker : due'[v] = due[v] \ {x}
      /\ pc'[w] \in {"exitClose", "byeClose"} /\ \A v \in Worker \ {w} : pc'[v] = pc[v]
  BY <1>0, <1>2 DEF ExitRemove, ByeRemove, Unlist
<1>5. DueAreMembers'
  <2>1. Members' = Members \ {x}
    BY <1>3, TraversalFacts DEF Members
  <2> QED BY <1>4, <2>1 DEF TraversalInv, DueAreMembers
<1> DEFINE without == [u \in Slot |-> cov[u] \ {x}]
<1>6. PICK new \in [Slot -> SUBSET Slot] : \A u \in Slot : new[u] = cov[u] \ {x}
  <2>1. without \in [Slot -> SUBSET Slot] /\ \A u \in Slot : without[u] = cov[u] \ {x}
    BY <1>1
  <2> HIDE DEF without
  <2> QED BY <2>1
<1>7. /\ \A u \in Slot \cup {Null} : Covers(new, u) = Covers(cov, u) \ {x}
      /\ x \in Slot /\ x # Null
  BY <1>3, <1>6, TraversalFacts DEF Covers
<1>8. Covers(cov, x) \ {x} \subseteq Covers(new, NextOf(x))
  <2>1. cov[x] \subseteq {x} \cup Covers(cov, NextOf(x)) /\ NextOf(x) \in Slot \cup {Null}
    BY <1>1, <1>7, TraversalFacts DEF IsCover
  <2> QED BY <1>7, <2>1 DEF Covers
<1>9. \A u \in Slot : Covers(cov, NextOf(u)) \ {x} \subseteq Covers(new, NextOf(u)')
  BY <1>3, <1>7, <1>8, TraversalFacts
<1>10. \A u \in Slot : new[u] \subseteq Linked' /\ new[u] \subseteq {u} \cup Covers(new, NextOf(u)')
  <2> TAKE u \in Slot
  <2>1. cov[u] \subseteq Linked /\ cov[u] \subseteq {u} \cup Covers(cov, NextOf(u))
    BY <1>1 DEF IsCover
  <2> QED BY <1>3, <1>6, <1>9, <2>1
<1>11. Linked' \subseteq Covers(new, ListHead')
  <2>1. Linked \subseteq Covers(cov, ListHead)
    BY <1>1 DEF IsCover
  <2> QED BY <1>3, <1>7, <1>8, <2>1, TraversalFacts
<1>12. ASSUME NEW v \in Worker PROVE Ahead(new, v)'
  <2>1. CASE v = w
    BY <1>4, <2>1 DEF Ahead
  <2>2. CASE v # w
    <3>1. pc'[v] = pc[v] /\ due'[v] = due[v] \ {x} /\ cur'[v] = cur[v]
          /\ cur[v] \in Slot \cup {Null} /\ (pc[v] \in Pointing => cur[v] \in Slot)
      BY <1>4, <2>2, TraversalFacts DEF TypeInv
    <3>2. Ahead(cov, v)
      BY <1>1 DEF IsCover
    <3>3. CASE pc[v] \in {"member", "scan"}
      BY <1>7, <3>1, <3>2, <3>3 DEF Ahead
    <3>4. CASE pc[v] \in {"loadMember", "writeMember"}
      BY <1>6, <3>1, <3>2, <3>4 DEF Ahead, Pointing
    <3>5. CASE pc[v] \in {"nextMember", "scanNext"}
      <4>1. due[v] \subseteq Covers(cov, NextOf(cur[v])) /\ cur[v] \in Slot
        BY <3>1, <3>2, <3>5 DEF Ahead, Pointing
      <4>2. due'[v] \subseteq Covers(new, NextOf(cur[v])')
        BY <1>9, <3>1, <4>1
      <4> QED BY <3>1, <3>5, <4>2 DEF Ahead
    <3> QED BY <3>1, <3>3, <3>4, <3>5 DEF Ahead
  <2> QED BY <2>1, <2>2
<1>13. IsCover(new)'
  BY <1>10, <1>11, <1>12 DEF IsCover, Covers
<1> QED BY <1>5, <1>6, <1>13 DEF Covered

LEMMA NextTraversalInv == TraversalInv /\ [Next]_vars => TraversalInv'
<1> SUFFICES ASSUME TraversalInv, [Next]_vars PROVE DueAreMembers' /\ Covered'
  BY NextListInv DEF TraversalInv
<1> USE DEF At, Goto, Return
<1>0. /\ pc \in [Worker -> Label] /\ cur \in [Worker -> Slot \cup {Null}]
      /\ due \in [Worker -> SUBSET Slot] /\ RegistryTypeOK /\ UniqueFds /\ TypeInv
  BY TraversalFacts
<1>1. ASSUME UNCHANGED <<list, node>>,
             \A w \in Worker :
                /\ due'[w] \subseteq due[w]
                /\ pc'[w] \in Traversing => pc'[w] = pc[w] /\ cur'[w] = cur[w]
      PROVE  DueAreMembers' /\ Covered'
  <2>1. Linked' = Linked /\ ListHead' = ListHead /\ \A s : NextOf(s)' = NextOf(s)
    BY <1>1 DEF Linked, ListHead, NextOf, Successor
  <2> QED BY <1>1, <2>1, StillCovered
<1>2. CASE Main \/ (\E c \in Conn : Client(c) \/ ChildAnswer(c)) \/ UNCHANGED vars
  <2>1. UNCHANGED <<list, node, pc, cur, due>>
    BY <1>2 DEF Main, Accept, AcceptDropped, Client, ChildAnswer, vars, poolVars, localVars, regVars
  <2> QED BY <1>1, <2>1
<1>3. ASSUME NEW w \in Worker,
             \/ Take(w) \/ AddClientFails(w) \/ Recv(w) \/ RecvMsg(w) \/ RecvEnd(w)
             \/ ExitClose(w) \/ ByeClose(w) \/ Authenticate(w) \/ Reply(w)
             \/ Private(w) \/ HistoryOrWeather(w)
      PROVE  DueAreMembers' /\ Covered'
  <2>1. UNCHANGED <<list, node>>
    BY <1>3 DEF Take, AddClientFails, Recv, RecvMsg, RecvEnd, ExitClose, ByeClose, Authenticate, Reply,
       Private, FindReceiver, CheckReceiver, LoadReceiver, WriteReceiver, FindSender, CheckSender,
       LoadSender, WriteSender, HistoryOrWeather, FindRequester, LoadRequester, HistoryPiece,
       HistoryEnd, LoadAnswer, Answer, Fork, Find, CheckState, LoadFd, WriteAnd, WriteAndReturn, regVars
  <2>2. due' \in {due, [due EXCEPT ![w] = {}]}
    BY <1>3 DEF Take, AddClientFails, Recv, RecvMsg, RecvEnd, ExitClose, ByeClose, Authenticate, Reply,
       Private, FindReceiver, CheckReceiver, LoadReceiver, WriteReceiver, FindSender, CheckSender,
       LoadSender, WriteSender, HistoryOrWeather, FindRequester, LoadRequester, HistoryPiece,
       HistoryEnd, LoadAnswer, Answer, Fork, Find, CheckState, LoadFd, WriteAnd, WriteAndReturn, localVars
  <2>3. \A v \in Worker : due'[v] \subseteq due[v]
    BY <1>0, <2>2
  <2>4. /\ \E l \in Label \ Traversing : pc' = [pc EXCEPT ![w] = l]
        /\ \A v \in Worker \ {w} : cur'[v] = cur[v]
    <3>1. CASE RecvMsg(w)
      <4>1. inbox[rc[w]].kind \in AllKinds
        BY <1>0, <3>1 DEF RecvMsg, TypeInv, Types, SocketsTypeOK, Message
      <4>2. inbox[rc[w]].kind # "other" => FirstStep(inbox[rc[w]].kind) \in Label \ Traversing
        BY <4>1 DEF FirstStep, AllKinds, Label, Traversing
      <4>3. cur' = cur
        BY <3>1 DEF RecvMsg
      <4> QED BY <3>1, <4>2, <4>3 DEF RecvMsg, Label, Traversing
    <3>2. CASE Take(w) \/ AddClientFails(w) \/ Recv(w) \/ RecvEnd(w) \/ ExitClose(w) \/ ByeClose(w)
               \/ Authenticate(w) \/ Reply(w)
      BY <1>0, <3>2 DEF Take, AddClientFails, Recv, RecvEnd, ExitClose, ByeClose, Authenticate, Reply,
         Finish, localVars, Label, Traversing
    <3>3. CASE Private(w)
      BY <1>0, <3>3 DEF Private, FindReceiver, CheckReceiver, LoadReceiver, WriteReceiver, FindSender,
         CheckSender, LoadSender, WriteSender, Find, CheckState, LoadFd, WriteAnd, WriteAndReturn,
         Label, Traversing
    <3>4. CASE HistoryOrWeather(w)
      BY <1>0, <3>4 DEF HistoryOrWeather, FindRequester, LoadRequester, HistoryPiece, HistoryEnd,
         LoadAnswer, Answer, Fork, Find, LoadFd, WriteAndReturn, localVars, Label, Traversing
    <3> QED BY <1>3, <3>1, <3>2, <3>3, <3>4
  <2>5. \A v \in Worker : pc'[v] \in Traversing => pc'[v] = pc[v] /\ cur'[v] = cur[v]
    BY <1>0, <2>4
  <2> QED BY <1>1, <2>1, <2>3, <2>5
<1>4. ASSUME NEW w \in Worker, AddClient(w) PROVE DueAreMembers' /\ Covered'
  <2>1. CASE WithFd(sock[w]) = {}
    <3>1. Next
      BY <1>4 DEF Next, WorkerStep, HandleClient
    <3> QED BY <1>4, <2>1, <3>1, TraversalAdd
  <2>2. CASE WithFd(sock[w]) # {}
    <3>1. /\ UNCHANGED <<list, node, cur, due>> /\ pc'[w] = "recv"
          /\ \A v \in Worker \ {w} : pc'[v] = pc[v]
      BY <1>0, <1>4, <2>2 DEF AddClient, add_client, regVars, localVars
    <3> QED BY <1>1, <3>1 DEF Traversing
  <2> QED BY <2>1, <2>2
<1>5. ASSUME NEW w \in Worker, ExitRemove(w) \/ ByeRemove(w) PROVE DueAreMembers' /\ Covered'
  <2>1. CASE WithFd(sock[w]) # {}
    <3>1. Next
      BY <1>5 DEF Next, WorkerStep, HandleClient
    <3> QED BY <1>5, <2>1, <3>1, TraversalRemove
  <2>2. CASE WithFd(sock[w]) = {}
    <3>1. /\ UNCHANGED <<list, node, cur>> /\ pc'[w] \in {"exitClose", "byeClose"}
          /\ \A v \in Worker \ {w} : pc'[v] = pc[v]
          /\ \A v \in Worker : due'[v] \subseteq due[v]
      BY <1>0, <1>5, <2>2 DEF ExitRemove, ByeRemove, Unlist, remove_client, regVars
    <3> QED BY <1>1, <3>1 DEF Traversing
  <2> QED BY <2>1, <2>2
<1>6. ASSUME NEW w \in Worker, SetName(w) \/ SetState(w) PROVE DueAreMembers' /\ Covered'
  <2>1. /\ UNCHANGED <<cur, due, list>> /\ pc'[w] \in {"setState", "reply"}
        /\ \A v \in Worker \ {w} : pc'[v] = pc[v]
    BY <1>0, <1>6 DEF SetName, SetState, localVars, update_client_username, update_client_state
  <2>2. \A s \in Slot : /\ node'[s].next = node[s].next
                        /\ node[s].state = "auth" => node'[s].state = "auth"
    <3>1. CASE WithFd(sock[w]) = {}
      BY <1>6, <3>1 DEF SetName, SetState, update_client_username, update_client_state
    <3>2. CASE WithFd(sock[w]) # {}
      <4>1. PICK x \in Slot : x = find_client_by_sockfd(sock[w])
        <5>1. \A i \in DOMAIN list : list[i] \in Slot
          BY <1>0, ElementOfSeq, LenProperties DEF RegistryTypeOK
        <5> QED BY <1>0, <3>2, <5>1, FindByFdIs
      <4>2. \/ node' = [node EXCEPT ![x].name = req[w].from]
            \/ node' = [node EXCEPT ![x].state = "auth"]
        BY <1>6, <3>2, <4>1 DEF SetName, SetState, update_client_username, update_client_state
      <4>3. node \in [Slot -> Node]
        BY <1>0 DEF RegistryTypeOK
      <4> HIDE <1>6
      <4> QED BY <4>2, <4>3 DEF Node
    <3> QED BY <3>1, <3>2
  <2>3. Linked' = Linked /\ ListHead' = ListHead /\ \A s \in Slot : NextOf(s)' = NextOf(s)
    BY <2>1, <2>2 DEF Linked, ListHead, NextOf, Successor
  <2> QED BY <2>1, <2>2, <2>3, StillCovered DEF Traversing
<1>7. ASSUME NEW w \in Worker, Group(w) \/ OnlineList(w) PROVE DueAreMembers' /\ Covered'
  <2>1. Next
    BY <1>7 DEF Next, WorkerStep
  <2> QED BY <1>7, <2>1, TraversalStep
<1> QED BY <1>2, <1>3, <1>4, <1>5, <1>6, <1>7
        DEF Next, Main, WorkerStep, HandleClient, Auth, Spin, Dead

(* A traversal that has come to the end has met every member that was one
   when it started and has not left, for any number of clients that leave and
   enter under its eyes, exit requests included. *)
THEOREM TraversalsAreComplete == Spec => []TraversalComplete
<1>1. TraversalInv => TraversalComplete
  BY DEF TraversalInv, Covered, IsCover, Ahead, Covers, TraversalComplete
<1> QED BY <1>1, InitTraversalInv, NextTraversalInv, PTL DEF Spec

-----------------------------------------------------------------------------
(* The connections that wait, in the queue of the pool and before it in the *)
(* backlog of the kernel, are one line: the server implements Sessions.     *)

InLine(s, q, b) ==
    /\ s \in Seq(Conn) /\ Len(s) = Len(q) + Len(b)
    /\ \A i \in 1..Len(q) : s[i] = q[i].conn
    /\ \A i \in 1..Len(b) : s[Len(q) + i] = b[i]

LEMMA WaitingIs == OwnerInv => InLine(WaitingConns, queue, backlog)
<1> SUFFICES ASSUME OwnerInv PROVE InLine(WaitingConns, queue, backlog)
  OBVIOUS
<1>1. queue \in Seq(Task) /\ backlog \in Seq(Conn)
  BY DEF OwnerInv, TypeInv, Types, SocketsTypeOK
<1>2. DOMAIN queue = 1..Len(queue) /\ Len(queue) \in Nat /\ \A i \in 1..Len(queue) : queue[i] \in Task
  BY <1>1, LenProperties, ElementOfSeq
<1> DEFINE q == [i \in DOMAIN queue |-> Resolve(queue[i].fd)]
<1>3. \A i \in 1..Len(queue) : Resolve(queue[i].fd) = queue[i].conn /\ queue[i].conn \in Conn
  BY <1>2 DEF Task, Resolve, OwnerInv, ExclusiveOwner
<1>4. q \in Seq(Conn) /\ Len(q) = Len(queue) /\ \A i \in 1..Len(queue) : q[i] = queue[i].conn
  <2>1. q = [i \in 1..Len(queue) |-> queue[i].conn]
    BY <1>2, <1>3
  <2> HIDE DEF q
  <2>2. \A i \in 1..Len(queue) : queue[i].conn \in Conn
    BY <1>3
  <2>3. q \in [1..Len(queue) -> Conn]
    BY <2>1, <2>2
  <2>4. q \in Seq(Conn)
    BY <2>3, <1>2, SeqDef
  <2>5. Len(q) = Len(queue)
    BY <2>3, <2>4, <1>2, LenProperties
  <2> QED BY <2>1, <2>4, <2>5
<1>5. WaitingConns = q \o backlog
  BY DEF WaitingConns
<1> HIDE DEF q
<1>6. Len(backlog) \in Nat
  BY <1>1, LenProperties
<1>7. /\ q \o backlog \in Seq(Conn) /\ Len(q \o backlog) = Len(q) + Len(backlog)
      /\ \A i \in 1..(Len(q) + Len(backlog)) :
           (q \o backlog)[i] = IF i <= Len(q) THEN q[i] ELSE backlog[i - Len(q)]
  BY <1>1, <1>4, ConcatProperties
<1>8. \A i \in 1..Len(backlog) : (q \o backlog)[Len(queue) + i] = backlog[i]
  <2> TAKE i \in 1..Len(backlog)
  <2>1. Len(queue) + i \in 1..(Len(q) + Len(backlog)) /\ ~(Len(queue) + i <= Len(q))
    BY <1>2, <1>4, <1>6
  <2>2. (Len(queue) + i) - Len(q) = i
    BY <1>2, <1>4
  <2> QED BY <1>7, <2>1, <2>2
<1>9. \A i \in 1..Len(queue) : (q \o backlog)[i] = queue[i].conn
  BY <1>2, <1>4, <1>6, <1>7
<1> QED BY <1>4, <1>5, <1>7, <1>8, <1>9 DEF InLine

LEMMA WaitingIsNext == OwnerInv' => InLine(WaitingConns, queue, backlog)'
BY WaitingIs, PTL

(* Two descriptions of one line are of the same line. *)
LEMMA LineIsOne ==
    ASSUME NEW q \in Seq(Task), NEW b \in Seq(Conn), NEW s, NEW t, InLine(s, q, b), InLine(t, q, b)
    PROVE  s = t
<1> DEFINE n == Len(q)  m == Len(b)
<1>1. n \in Nat /\ m \in Nat
  BY LenProperties
<1>2. ASSUME NEW i \in 1..Len(s) PROVE s[i] = t[i]
  <2>1. i \in 1..(n + m)
    BY DEF InLine
  <2>2. i \in 1..n \/ (i - n \in 1..m /\ n + (i - n) = i)
    BY <1>1, <2>1
  <2>3. CASE i \in 1..n
    BY <2>3 DEF InLine
  <2>4. CASE i - n \in 1..m /\ n + (i - n) = i
    <3> DEFINE j == i - n
    <3>1. s[n + j] = b[j] /\ t[n + j] = b[j]
      BY <2>4 DEF InLine
    <3> QED BY <2>4, <3>1
  <2> QED BY <2>2, <2>3, <2>4
<1>3. s \in Seq(Conn) /\ t \in Seq(Conn) /\ Len(s) = Len(t)
  BY DEF InLine
<1> QED BY <1>2, <1>3, SeqEqual

(* accept moves the boundary between the backlog and the queue. *)
LEMMA AcceptInLine ==
    ASSUME NEW q \in Seq(Task), NEW b \in Seq(Conn), b # <<>>, NEW x \in Task, x.conn = Head(b),
           NEW s, InLine(s, q, b)
    PROVE  InLine(s, Append(q, x), Tail(b))
<1> DEFINE n == Len(q)  m == Len(b)
<1>1. n \in Nat /\ m \in Nat /\ m # 0
  BY LenProperties, EmptySeq
<1> DEFINE p == Append(q, x)  c == Tail(b)
<1>2. Len(p) = n + 1 /\ p[n + 1] = x /\ \A i \in 1..n : p[i] = q[i]
  BY AppendProperties, LenProperties
<1>3. Len(c) = m - 1 /\ \A i \in 1..(m - 1) : c[i] = b[i + 1]
  BY HeadTailProperties
<1>4. x.conn = b[1]
  BY HeadTailProperties
<1> HIDE DEF p, c, n, m
<1>5. /\ s \in Seq(Conn) /\ Len(s) = n + m
      /\ \A i \in 1..n : s[i] = q[i].conn
      /\ \A i \in 1..m : s[n + i] = b[i]
  BY DEF InLine, n, m
<1>6. s[n + 1] = b[1]
  BY <1>1, <1>5
<1>7. ASSUME NEW i \in 1..(n + 1) PROVE s[i] = p[i].conn
  <2>1. CASE i = n + 1
    BY <1>2, <1>4, <1>6, <2>1
  <2>2. CASE i # n + 1
    <3>1. i \in 1..n
      BY <1>1, <2>2
    <3> QED BY <1>2, <1>5, <3>1
  <2> QED BY <2>1, <2>2
<1>8. ASSUME NEW i \in 1..(m - 1) PROVE s[(n + 1) + i] = c[i]
  <2>1. i + 1 \in 1..m /\ (n + 1) + i = n + (i + 1)
    BY <1>1
  <2> QED BY <1>3, <1>5, <2>1
<1>9. Len(s) = Len(p) + Len(c)
  BY <1>1, <1>2, <1>3, <1>5
<1> QED BY <1>2, <1>3, <1>5, <1>7, <1>8, <1>9 DEF InLine, p, c

(* A connection that is dropped was the oldest of the backlog. *)
LEMMA DropInLine ==
    ASSUME NEW q \in Seq(Task), NEW b \in Seq(Conn), b # <<>>, NEW s, InLine(s, q, b)
    PROVE  Len(q) + 1 \in 1..Len(s) /\ InLine(RemoveAt(s, Len(q) + 1), q, Tail(b))
<1> DEFINE n == Len(q)  m == Len(b)
<1>1. n \in Nat /\ m \in Nat /\ m # 0
  BY LenProperties, EmptySeq
<1> DEFINE c == Tail(b)  t == RemoveAt(s, n + 1)
<1>2. Len(c) = m - 1 /\ \A i \in 1..(m - 1) : c[i] = b[i + 1]
  BY HeadTailProperties
<1>3. /\ s \in Seq(Conn) /\ Len(s) = n + m
      /\ \A i \in 1..n : s[i] = q[i].conn
      /\ \A i \in 1..m : s[n + i] = b[i]
  BY DEF InLine
<1> HIDE DEF c, n, m
<1>4. n + 1 \in 1..Len(s)
  BY <1>1, <1>3
<1>5. /\ t \in Seq(Conn) /\ Len(t) = Len(s) - 1
      /\ \A j \in 1..(Len(s) - 1) : t[j] = IF j < n + 1 THEN s[j] ELSE s[j + 1]
  BY <1>3, <1>4, RemoveAtIs
<1> HIDE DEF t
<1>6. \A i \in 1..n : t[i] = q[i].conn
  BY <1>1, <1>3, <1>5
<1>7. ASSUME NEW i \in 1..(m - 1) PROVE t[n + i] = c[i]
  <2>1. i + 1 \in 1..m /\ (n + i) + 1 = n + (i + 1) /\ n + i \in 1..(Len(s) - 1) /\ ~(n + i < n + 1)
    BY <1>1, <1>3
  <2>2. t[n + i] = s[(n + i) + 1]
    BY <1>5, <2>1
  <2>3. s[n + (i + 1)] = b[i + 1]
    BY <1>3, <2>1
  <2> QED BY <1>2, <2>1, <2>2, <2>3
<1>8. Len(t) = n + Len(c)
  BY <1>1, <1>2, <1>3, <1>5
<1> QED BY <1>2, <1>4, <1>5, <1>6, <1>7, <1>8 DEF InLine, t, c, n

(* A worker takes the first of the line. *)
LEMMA TakeInLine ==
    ASSUME NEW q \in Seq(Task), NEW b \in Seq(Conn), q # <<>>, NEW s, InLine(s, q, b)
    PROVE  s # <<>> /\ Head(s) = Head(q).conn /\ InLine(Tail(s), Tail(q), b)
<1> DEFINE n == Len(q)  m == Len(b)
<1>1. n \in Nat /\ m \in Nat /\ n # 0
  BY LenProperties, EmptySeq
<1> DEFINE p == Tail(q)  t == Tail(s)
<1>2. Len(p) = n - 1 /\ \A i \in 1..(n - 1) : p[i] = q[i + 1]
  BY HeadTailProperties
<1>0. Head(q) = q[1]
  BY HeadTailProperties
<1>3. /\ s \in Seq(Conn) /\ Len(s) = n + m
      /\ \A i \in 1..n : s[i] = q[i].conn
      /\ \A i \in 1..m : s[n + i] = b[i]
  BY DEF InLine
<1> HIDE DEF p, n, m
<1>4. s # <<>>
  BY <1>1, <1>3, EmptySeq
<1>5. /\ t \in Seq(Conn) /\ Len(t) = Len(s) - 1 /\ Head(s) = s[1]
      /\ \A j \in 1..(Len(s) - 1) : t[j] = s[j + 1]
  BY <1>3, <1>4, HeadTailProperties
<1> HIDE DEF t
<1>6. Head(s) = Head(q).conn
  BY <1>0, <1>1, <1>3, <1>5
<1>7. ASSUME NEW i \in 1..(n - 1) PROVE t[i] = p[i].conn
  <2>1. i + 1 \in 1..n /\ i \in 1..(Len(s) - 1)
    BY <1>1, <1>3
  <2> QED BY <1>2, <1>3, <1>5, <2>1
<1>8. ASSUME NEW i \in 1..m PROVE t[(n - 1) + i] = b[i]
  <2>1. (n - 1) + i \in 1..(Len(s) - 1) /\ ((n - 1) + i) + 1 = n + i
    BY <1>1, <1>3
  <2> QED BY <1>3, <1>5, <2>1
<1>9. Len(t) = Len(p) + m
  BY <1>1, <1>2, <1>3, <1>5
<1> QED BY <1>2, <1>4, <1>5, <1>6, <1>7, <1>8, <1>9 DEF InLine, t, p, m

(* A connection arrives at the end. *)
LEMMA ConnectInLine ==
    ASSUME NEW q \in Seq(Task), NEW b \in Seq(Conn), NEW c \in Conn, NEW s, InLine(s, q, b)
    PROVE  InLine(Append(s, c), q, Append(b, c))
<1> DEFINE n == Len(q)  m == Len(b)
<1>1. n \in Nat /\ m \in Nat
  BY LenProperties
<1> DEFINE d == Append(b, c)  t == Append(s, c)
<1>2. Len(d) = m + 1 /\ d[m + 1] = c /\ \A i \in 1..m : d[i] = b[i]
  BY AppendProperties, LenProperties
<1>3. /\ s \in Seq(Conn) /\ Len(s) = n + m
      /\ \A i \in 1..n : s[i] = q[i].conn
      /\ \A i \in 1..m : s[n + i] = b[i]
  BY DEF InLine
<1> HIDE DEF d, n, m
<1>4. /\ t \in Seq(Conn) /\ Len(t) = Len(s) + 1 /\ t[Len(s) + 1] = c
      /\ \A i \in 1..Len(s) : t[i] = s[i]
  BY <1>3, AppendProperties, LenProperties
<1> HIDE DEF t
<1>5. \A i \in 1..n : t[i] = q[i].conn
  BY <1>1, <1>3, <1>4
<1>6. ASSUME NEW i \in 1..(m + 1) PROVE t[n + i] = d[i]
  <2>1. CASE i = m + 1
    BY <1>1, <1>2, <1>3, <1>4, <2>1
  <2>2. CASE i # m + 1
    <3>1. i \in 1..m /\ n + i \in 1..Len(s)
      BY <1>1, <1>3, <2>2
    <3> QED BY <1>2, <1>3, <1>4, <3>1
  <2> QED BY <2>1, <2>2
<1>7. Len(t) = n + Len(d)
  BY <1>1, <1>2, <1>3, <1>4
<1> QED BY <1>2, <1>4, <1>5, <1>6, <1>7 DEF InLine, t, d, n

(* What a step of the server does to the line, to the workers and to the
   connections that have been opened. *)
SameServing(W) == \A w \in W : (Busy(w)' <=> Busy(w)) /\ (Busy(w) => own'[w] = own[w])
SamePeers(C) == \A c \in C : peer'[c] = "off" <=> peer[c] = "off"

Rests == WaitingConns' = WaitingConns /\ SameServing(Worker) /\ SamePeers(Conn)
Arrives(c) ==
    /\ peer[c] = "off" /\ peer'[c] # "off" /\ SamePeers(Conn \ {c})
    /\ WaitingConns' = Append(WaitingConns, c) /\ SameServing(Worker)
Drops(i) ==
    /\ i \in DOMAIN WaitingConns /\ WaitingConns' = RemoveAt(WaitingConns, i)
    /\ SameServing(Worker) /\ SamePeers(Conn)
Begins(w) ==
    /\ ~Busy(w) /\ Busy(w)' /\ own'[w] = Head(WaitingConns) /\ SameServing(Worker \ {w})
    /\ WaitingConns # <<>> /\ WaitingConns' = Tail(WaitingConns) /\ SamePeers(Conn)
Ends(w) ==
    /\ Busy(w) /\ ~Busy(w)' /\ SameServing(Worker \ {w})
    /\ WaitingConns' = WaitingConns /\ SamePeers(Conn)

SessionStep ==
    \/ Rests \/ (\E c \in Conn : Arrives(c)) \/ (\E i \in Nat : Drops(i))
    \/ (\E w \in Worker : Begins(w) \/ Ends(w))

(* Where the line is the same. *)
LEMMA SameLine ==
    ASSUME OwnerInv, OwnerInv', queue' = queue, backlog' = backlog
    PROVE  WaitingConns' = WaitingConns
<1>1. queue \in Seq(Task) /\ backlog \in Seq(Conn)
  BY DEF OwnerInv, TypeInv, Types, SocketsTypeOK
<1>2. InLine(WaitingConns, queue, backlog) /\ InLine(WaitingConns, queue, backlog)'
  BY WaitingIs, WaitingIsNext
<1>3. InLine(WaitingConns', queue, backlog)
  BY <1>2 DEF InLine
<1> DEFINE s == WaitingConns
<1> HIDE DEF s
<1>4. InLine(s, queue, backlog) /\ InLine(s', queue, backlog)
  BY <1>2, <1>3 DEF s
<1>5. s' = s
  BY <1>1, <1>4, LineIsOne
<1> QED BY <1>5 DEF s

LEMMA NextSessionStep ==
    ASSUME OwnerInv, [Next]_vars PROVE SessionStep
<1>0. /\ OwnerInv' /\ queue \in Seq(Task) /\ backlog \in Seq(Conn)
      /\ queue' \in Seq(Task) /\ backlog' \in Seq(Conn)
      /\ pc \in [Worker -> Label] /\ own \in [Worker -> Conn \cup {NoConn}]
      /\ sock \in [Worker -> Fd \cup {NoFd}] /\ peer \in [Conn -> PeerState]
  BY NextOwnerInv DEF OwnerInv, TypeInv, Types, SocketsTypeOK
<1>1. InLine(WaitingConns, queue, backlog) /\ InLine(WaitingConns', queue', backlog')
  BY <1>0, WaitingIs, WaitingIsNext DEF InLine
<1>2. CASE Accept
  <2>1. PICK x \in Task : /\ backlog # <<>> /\ x.conn = Head(backlog)
                          /\ queue' = Append(queue, x) /\ backlog' = Tail(backlog)
    <3>1. backlog # <<>> /\ Head(backlog) \in Conn
      BY <1>0, <1>2, HeadTailProperties DEF Accept
    <3> QED BY <1>2, <3>1 DEF Accept, Task
  <2>2. InLine(WaitingConns, Append(queue, x), Tail(backlog))
    BY <1>0, <1>1, <2>1, AcceptInLine
  <2>3. InLine(WaitingConns, queue', backlog')
    BY <2>1, <2>2
  <2>4. WaitingConns' = WaitingConns
    BY <1>0, <1>1, <2>3, LineIsOne
  <2>5. Rests
    BY <1>2, <2>4 DEF Accept, Rests, SameServing, SamePeers, Busy
  <2> QED BY <2>5 DEF SessionStep
<1>3. CASE AcceptDropped
  <2>1. backlog # <<>> /\ queue' = queue /\ backlog' = Tail(backlog)
    BY <1>3 DEF AcceptDropped, poolVars
  <2> DEFINE i == Len(queue) + 1
  <2>2. i \in 1..Len(WaitingConns) /\ InLine(RemoveAt(WaitingConns, i), queue, Tail(backlog))
    BY <1>0, <1>1, <2>1, DropInLine
  <2>3. InLine(RemoveAt(WaitingConns, i), queue', backlog')
    BY <2>1, <2>2
  <2>4. WaitingConns' = RemoveAt(WaitingConns, i)
    BY <1>0, <1>1, <2>3, LineIsOne
  <2>5. i \in DOMAIN WaitingConns /\ i \in Nat
    BY <1>1, <2>2, LenProperties DEF InLine
  <2>6. Drops(i)
    BY <1>3, <2>4, <2>5 DEF AcceptDropped, poolVars, Drops, SameServing, SamePeers, Busy
  <2> QED BY <2>5, <2>6 DEF SessionStep
<1>4. ASSUME NEW c \in Conn, Client(c) PROVE SessionStep
  <2>1. UNCHANGED <<pc, own, queue>>
    BY <1>4 DEF Client, poolVars
  <2>2. CASE Connect(c)
    <3>1. peer[c] = "off" /\ peer' = [peer EXCEPT ![c] = "open"] /\ backlog' = Append(backlog, c)
      BY <2>2 DEF Connect
    <3>2. InLine(Append(WaitingConns, c), queue, Append(backlog, c))
      BY <1>0, <1>1, ConnectInLine
    <3>3. InLine(Append(WaitingConns, c), queue', backlog')
      BY <2>1, <3>1, <3>2
    <3>4. WaitingConns' = Append(WaitingConns, c)
      BY <1>0, <1>1, <3>3, LineIsOne
    <3>5. Arrives(c)
      BY <1>0, <2>1, <3>1, <3>4 DEF Arrives, SameServing, SamePeers, Busy
    <3> QED BY <3>5 DEF SessionStep
  <2>3. CASE Send(c) \/ HangUp(c)
    <3>1. /\ backlog' = backlog
          /\ peer' = peer \/ (peer[c] = "open" /\ \E how \in {"closed", "reset"} : peer' = [peer EXCEPT ![c] = how])
      BY <2>3 DEF Send, HangUp
    <3>2. WaitingConns' = WaitingConns
      BY <1>0, <2>1, <3>1, SameLine
    <3>3. SamePeers(Conn)
      BY <1>0, <3>1 DEF SamePeers
    <3> QED BY <2>1, <3>2, <3>3 DEF SessionStep, Rests, SameServing, Busy
  <2> QED BY <1>4, <2>2, <2>3 DEF Client
<1>5. ASSUME NEW w \in Worker, Take(w) PROVE SessionStep
  <2>1. /\ queue # <<>> /\ queue' = Tail(queue) /\ UNCHANGED <<backlog, peer>>
        /\ pc[w] = "idle" /\ pc'[w] = "add" /\ own'[w] = Head(queue).conn
        /\ \A v \in Worker : v # w => pc'[v] = pc[v] /\ own'[v] = own[v]
    BY <1>0, <1>5 DEF Take, At, Goto, sockVars
  <2>2. /\ WaitingConns # <<>> /\ Head(WaitingConns) = Head(queue).conn
        /\ InLine(Tail(WaitingConns), Tail(queue), backlog)
    BY <1>0, <1>1, <2>1, TakeInLine
  <2>3. InLine(Tail(WaitingConns), queue', backlog')
    BY <2>1, <2>2
  <2>4. WaitingConns' = Tail(WaitingConns)
    BY <1>0, <1>1, <2>3, LineIsOne
  <2>5. Begins(w)
    BY <2>1, <2>2, <2>4 DEF Begins, SameServing, SamePeers, Busy
  <2> QED BY <2>5 DEF SessionStep
<1>6. ASSUME NEW w \in Worker, AddClientFails(w) \/ ByeClose(w) PROVE SessionStep
  <2>1. /\ UNCHANGED <<queue, backlog, peer>> /\ pc[w] # "idle" /\ pc'[w] = "idle"
        /\ \A v \in Worker : v # w => pc'[v] = pc[v] /\ own'[v] = own[v]
    BY <1>0, <1>6 DEF AddClientFails, ByeClose, Finish, Close, At, Goto
  <2>2. WaitingConns' = WaitingConns
    BY <1>0, <2>1, SameLine
  <2>3. Ends(w)
    BY <2>1, <2>2 DEF Ends, SameServing, SamePeers, Busy
  <2> QED BY <2>3 DEF SessionStep
<1>7. ASSUME NEW w \in Worker, HandleClient(w), ~AddClientFails(w), ~ByeClose(w) PROVE SessionStep
  <2>1. ~ExitClose(w) /\ ~ExitRemove(w)
    BY DEF ExitClose, ExitRemove, At, OwnerInv, ExitFree
  <2>2. UNCHANGED <<queue, own, backlog, peer>> /\ Busy(w)
    BY <1>7, <2>1 DEF HandleClient, AddClient, Recv, RecvMsg, RecvEnd, ByeRemove, At, Busy, sockVars
  <2>3. PICK l : l # "idle" /\ pc' = [pc EXCEPT ![w] = l]
    <3>1. CASE RecvMsg(w)
      <4>1. inbox[rc[w]].kind \in AllKinds
        BY <3>1 DEF RecvMsg, OwnerInv, TypeInv, Types, SocketsTypeOK, Message
      <4>2. inbox[rc[w]].kind # "other" => FirstStep(inbox[rc[w]].kind) # "idle"
        BY <4>1 DEF FirstStep, AllKinds
      <4> QED BY <3>1, <4>2 DEF RecvMsg, Goto
    <3> QED BY <1>7, <2>1, <3>1 DEF HandleClient, AddClient, Recv, RecvEnd, ByeRemove, Goto
  <2>4. WaitingConns' = WaitingConns
    BY <1>0, <2>2, SameLine
  <2>5. Rests
    BY <1>0, <2>2, <2>3, <2>4 DEF Rests, SameServing, SamePeers, Busy
  <2> QED BY <2>5 DEF SessionStep
<1>8. ASSUME NEW w \in Worker, Handler(w) PROVE SessionStep
  <2>1. HandlerFrame(w)
    BY <1>8, HandlerStep DEF OwnerInv
  <2>2. WaitingConns' = WaitingConns
    BY <1>0, <2>1, SameLine DEF HandlerFrame
  <2>3. peer' = peer \/ \E c : WriteTo(c)
    BY <1>8 DEF Handler, Auth, Authenticate, SetName, SetState, Reply, sockVars,
       Private, FindReceiver, CheckReceiver, LoadReceiver, WriteReceiver, FindSender, CheckSender,
       LoadSender, WriteSender, HistoryOrWeather, FindRequester, LoadRequester, HistoryPiece,
       HistoryEnd, LoadAnswer, Answer, Fork, Find, CheckState, LoadFd, WriteAnd, WriteAndReturn,
       Group, StoreGroup, Member, LoadMember, WriteMember, NextMember, OnlineList, ListUsers,
       Scan, ScanNext, FindSelf, StartAtHead, FollowNext
  <2>4. SamePeers(Conn)
    BY <1>0, <2>3 DEF SamePeers, WriteTo
  <2>5. SameServing(Worker)
    BY <1>0, <2>1 DEF HandlerFrame, LoopLabel, SameServing, Busy
  <2> QED BY <2>2, <2>4, <2>5 DEF SessionStep, Rests
<1>9. CASE (\E c \in Conn : ChildAnswer(c)) \/ UNCHANGED vars
  <2>1. UNCHANGED <<queue, backlog, pc, own>>
    BY <1>9 DEF ChildAnswer, vars, sockVars, poolVars
  <2>2. SamePeers(Conn)
    BY <1>0, <1>9 DEF SamePeers, ChildAnswer, vars, sockVars
  <2>3. WaitingConns' = WaitingConns
    BY <1>0, <2>1, SameLine
  <2> QED BY <2>1, <2>2, <2>3 DEF SessionStep, Rests, SameServing, Busy
<1> QED BY <1>2, <1>3, <1>4, <1>5, <1>6, <1>7, <1>8, <1>9 DEF Next, Main, WorkerStep, Handler, Spin, Dead

(* A connection is in one place at most: in the line, once, or in the hands
   of one worker; and it has been opened by its client. *)
EachOnce ==
    /\ \A i, j \in DOMAIN WaitingConns : i # j => WaitingConns[i] # WaitingConns[j]
    /\ \A i \in DOMAIN WaitingConns, w \in Worker : Busy(w) => WaitingConns[i] # own[w]
    /\ \A v, w \in Worker : v # w /\ Busy(v) /\ Busy(w) => own[v] # own[w]
    /\ \A i \in DOMAIN WaitingConns : peer[WaitingConns[i]] # "off"
    /\ \A w \in Worker : Busy(w) => peer[own[w]] # "off"

SessionInv == OwnerInv /\ EachOnce

LEMMA SessionFacts ==
    ASSUME OwnerInv
    PROVE  /\ WaitingConns \in Seq(Conn) /\ Len(WaitingConns) \in Nat
           /\ DOMAIN WaitingConns = 1..Len(WaitingConns)
           /\ \A i \in DOMAIN WaitingConns : WaitingConns[i] \in Conn
           /\ \A w \in Worker : Busy(w) => own[w] \in Conn /\ Resolve(sock[w]) = own[w]
           /\ peer \in [Conn -> PeerState]
<1>1. WaitingConns \in Seq(Conn)
  BY WaitingIs DEF InLine
<1>2. \A w \in Worker : Busy(w) => own[w] \in Conn /\ Resolve(sock[w]) = own[w]
  BY DEF OwnerInv, ExclusiveOwner, Resolve
<1> QED BY <1>1, <1>2, LenProperties, ElementOfSeq DEF OwnerInv, TypeInv, Types, SocketsTypeOK

LEMMA InitEachOnce == NoExit /\ Init => SessionInv
<1> SUFFICES ASSUME NoExit, Init PROVE EachOnce
  BY InitOwnerInv DEF SessionInv
<1>1. OwnerInv /\ Len(queue) = 0 /\ Len(backlog) = 0
  BY InitOwnerInv, EmptySeq DEF Init, SocketsInit
<1>2. DOMAIN WaitingConns = {}
  BY <1>1, WaitingIs, SessionFacts DEF InLine
<1> QED BY <1>2 DEF EachOnce, Init, Busy

LEMMA NextEachOnce ==
    ASSUME SessionInv, [Next]_vars PROVE EachOnce'
<1> DEFINE s == WaitingConns
<1>0. /\ OwnerInv /\ EachOnce /\ SessionStep
      /\ s \in Seq(Conn) /\ Len(s) \in Nat /\ DOMAIN s = 1..Len(s)
      /\ \A i \in DOMAIN s : s[i] \in Conn
      /\ \A w \in Worker : Busy(w) => own[w] \in Conn
  BY NextSessionStep, SessionFacts DEF SessionInv
<1>1. /\ \A i, j \in DOMAIN s : i # j => s[i] # s[j]
      /\ \A i \in DOMAIN s, w \in Worker : Busy(w) => s[i] # own[w]
      /\ \A v, w \in Worker : v # w /\ Busy(v) /\ Busy(w) => own[v] # own[w]
      /\ \A i \in DOMAIN s : peer[s[i]] # "off"
      /\ \A w \in Worker : Busy(w) => peer[own[w]] # "off"
  BY <1>0 DEF EachOnce
<1> DEFINE Once ==
         /\ \A i, j \in DOMAIN s' : i # j => s'[i] # s'[j]
         /\ \A i \in DOMAIN s', w \in Worker : Busy(w)' => s'[i] # own'[w]
         /\ \A v, w \in Worker : v # w /\ Busy(v)' /\ Busy(w)' => own'[v] # own'[w]
         /\ \A i \in DOMAIN s' : peer'[s'[i]] # "off"
         /\ \A w \in Worker : Busy(w)' => peer'[own'[w]] # "off"
<1> SUFFICES Once
  BY DEF EachOnce
<1>2. CASE Rests
  <2>1. s' = s /\ SameServing(Worker) /\ SamePeers(Conn)
    BY <1>2 DEF Rests
  <2> HIDE DEF s
  <2> QED BY <1>0, <1>1, <2>1 DEF SameServing, SamePeers
<1>3. ASSUME NEW c \in Conn, Arrives(c) PROVE Once
  <2>1. /\ peer[c] = "off" /\ peer'[c] # "off" /\ SamePeers(Conn \ {c}) /\ SameServing(Worker)
        /\ s' = Append(s, c)
    BY <1>3 DEF Arrives
  <2> HIDE DEF s
  <2>2. /\ DOMAIN s' = 1..(Len(s) + 1) /\ s'[Len(s) + 1] = c
        /\ \A i \in DOMAIN s : s'[i] = s[i]
    <3>1. Append(s, c) \in Seq(Conn) /\ Len(Append(s, c)) = Len(s) + 1
          /\ Append(s, c)[Len(s) + 1] = c /\ \A i \in 1..Len(s) : Append(s, c)[i] = s[i]
      BY <1>0, AppendProperties
    <3>2. DOMAIN Append(s, c) = 1..Len(Append(s, c))
      BY <3>1, LenProperties
    <3> QED BY <1>0, <2>1, <3>1, <3>2
  <2>3. \A i \in DOMAIN s' : i \in DOMAIN s \/ i = Len(s) + 1
    BY <1>0, <2>2
  <2>4. /\ \A i \in DOMAIN s : s[i] # c
        /\ \A w \in Worker : Busy(w) => own[w] # c
    BY <1>1, <2>1
  <2>5. \A i \in DOMAIN s' : (i \in DOMAIN s /\ s'[i] = s[i]) \/ (i = Len(s) + 1 /\ s'[i] = c)
    BY <2>2, <2>3
  <2> QED BY <1>0, <1>1, <2>1, <2>4, <2>5 DEF SameServing, SamePeers
<1>4. ASSUME NEW k \in Nat, Drops(k) PROVE Once
  <2>1. /\ k \in DOMAIN s /\ s' = RemoveAt(s, k) /\ SameServing(Worker) /\ SamePeers(Conn)
    BY <1>4 DEF Drops
  <2> HIDE DEF s
  <2>2. /\ RemoveAt(s, k) \in Seq(Conn) /\ Len(RemoveAt(s, k)) = Len(s) - 1
        /\ \A j \in 1..(Len(s) - 1) : RemoveAt(s, k)[j] = IF j < k THEN s[j] ELSE s[j + 1]
    BY <1>0, <2>1, RemoveAtIs
  <2>3. DOMAIN s' = 1..(Len(s) - 1) /\ \A j \in DOMAIN s' : s'[j] = IF j < k THEN s[j] ELSE s[j + 1]
    BY <2>1, <2>2, LenProperties
  <2>4. \A j \in DOMAIN s' : j \in Nat /\ j \in DOMAIN s /\ j + 1 \in DOMAIN s
    BY <1>0, <2>3
  <2>5. \A j \in DOMAIN s' : \E i \in DOMAIN s : s'[j] = s[i]
    BY <2>3, <2>4
  <2>6. ASSUME NEW i \in DOMAIN s', NEW j \in DOMAIN s', i # j PROVE s'[i] # s'[j]
    <3>1. PICK a \in DOMAIN s : s'[i] = s[a] /\ a = IF i < k THEN i ELSE i + 1
      BY <2>3, <2>4
    <3>2. PICK b \in DOMAIN s : s'[j] = s[b] /\ b = IF j < k THEN j ELSE j + 1
      BY <2>3, <2>4
    <3>3. i \in Nat /\ j \in Nat /\ k \in Nat
      BY <2>4
    <3>4. a # b
      BY <2>6, <3>1, <3>2, <3>3
    <3> QED BY <1>1, <3>1, <3>2, <3>4
  <2> QED BY <1>0, <1>1, <2>1, <2>5, <2>6 DEF SameServing, SamePeers
<1>5. ASSUME NEW w \in Worker, Begins(w) PROVE Once
  <2>1. /\ ~Busy(w) /\ Busy(w)' /\ own'[w] = Head(s) /\ SameServing(Worker \ {w}) /\ SamePeers(Conn)
        /\ s # <<>> /\ s' = Tail(s)
    BY <1>5 DEF Begins
  <2> HIDE DEF s
  <2>2. /\ Tail(s) \in Seq(Conn) /\ Len(Tail(s)) = Len(s) - 1 /\ Head(s) = s[1]
        /\ \A i \in 1..Len(Tail(s)) : Tail(s)[i] = s[i + 1]
    BY <1>0, <2>1, HeadTailProperties
  <2>3. DOMAIN s' = 1..(Len(s) - 1) /\ \A i \in DOMAIN s' : s'[i] = s[i + 1]
    BY <2>1, <2>2, LenProperties
  <2>4. /\ 1 \in DOMAIN s
        /\ \A i \in DOMAIN s' : i + 1 \in DOMAIN s /\ i + 1 # 1 /\ i \in Nat
    <3>1. Len(s) # 0
      BY <1>0, <2>1, EmptySeq
    <3> QED BY <1>0, <2>3, <3>1
  <2>5. ASSUME NEW i \in DOMAIN s', NEW j \in DOMAIN s', i # j PROVE s'[i] # s'[j]
    <3>1. i + 1 # j + 1
      BY <2>4, <2>5
    <3> QED BY <1>1, <2>3, <2>4, <3>1
  <2>6. own'[w] = s[1]
    BY <2>1, <2>2
  <2>7. \A v \in Worker : v # w /\ Busy(v)' => Busy(v) /\ own'[v] = own[v]
    BY <2>1 DEF SameServing
  <2>8. \A i \in DOMAIN s' : s'[i] # s[1]
    BY <1>1, <2>3, <2>4
  <2>9. \A v \in Worker : v # w /\ Busy(v)' => own'[v] # s[1]
    BY <1>1, <2>4, <2>7
  <2>10. \A i \in DOMAIN s', v \in Worker : Busy(v)' => s'[i] # own'[v]
    BY <1>1, <2>3, <2>4, <2>6, <2>7, <2>8
  <2>11. \A u, v \in Worker : u # v /\ Busy(u)' /\ Busy(v)' => own'[u] # own'[v]
    BY <1>1, <2>6, <2>7, <2>9
  <2>12. \A i \in DOMAIN s' : peer'[s'[i]] # "off"
    BY <1>0, <1>1, <2>1, <2>3, <2>4 DEF SamePeers
  <2>13. \A v \in Worker : Busy(v)' => peer'[own'[v]] # "off"
    BY <1>0, <1>1, <2>1, <2>4, <2>6, <2>7 DEF SamePeers
  <2> QED BY <2>5, <2>10, <2>11, <2>12, <2>13
<1>6. ASSUME NEW w \in Worker, Ends(w) PROVE Once
  <2>1. s' = s /\ SamePeers(Conn) /\ \A v \in Worker : Busy(v)' => Busy(v) /\ own'[v] = own[v]
    BY <1>6 DEF Ends, SameServing
  <2> HIDE DEF s
  <2> QED BY <1>0, <1>1, <2>1 DEF SamePeers
<1> QED BY <1>0, <1>2, <1>3, <1>4, <1>5, <1>6 DEF SessionStep

LEMMA NextSessionInv == SessionInv /\ [Next]_vars => SessionInv'
BY NextOwnerInv, NextEachOnce DEF SessionInv

(* A worker that is idle leaves room: fewer connections are served than there
   are workers. *)
LEMMA RoomToServe ==
    ASSUME SessionInv, NEW w \in Worker, ~Busy(w)
    PROVE  Cardinality(ServedConns) < Cardinality(Worker)
<1> DEFINE B == {v \in Worker : Busy(v)}
           f == [v \in B |-> own[v]]
<1>1. ServedConns = {own[v] : v \in B}
  BY SessionFacts DEF SessionInv, ServedConns
<1>2. IsFiniteSet(B) /\ IsFiniteSet(Worker \ {w})
      /\ Cardinality(B) <= Cardinality(Worker \ {w})
      /\ Cardinality(Worker \ {w}) = Cardinality(Worker) - 1
      /\ Cardinality(B) \in Nat /\ Cardinality(Worker) \in Nat
  <2>1. IsFiniteSet(Worker \ {w}) /\ Cardinality(Worker \ {w}) = Cardinality(Worker) - 1
    BY WorkerAssumption, FS_RemoveElement
  <2>2. B \in SUBSET (Worker \ {w})
    OBVIOUS
  <2>3. IsFiniteSet(B) /\ Cardinality(B) <= Cardinality(Worker \ {w})
    BY <2>1, <2>2, FS_Subset
  <2> QED BY <2>1, <2>3, WorkerAssumption, FS_CardinalityType
<1>3. f \in Surjection(B, ServedConns)
  BY <1>1 DEF Surjection
<1>4. IsFiniteSet(ServedConns) /\ Cardinality(ServedConns) <= Cardinality(B)
  BY <1>2, <1>3, FS_Surjection
<1>5. Cardinality(ServedConns) \in Nat
  BY <1>4, FS_CardinalityType
<1> QED BY <1>2, <1>4, <1>5

(* The connections in the hands of the workers, by their history variable. *)
ServedOwn == ServedConns = {own[v] : v \in {w \in Worker : Busy(w)}}

LEMMA ServedIs == OwnerInv => ServedOwn
BY SessionFacts DEF ServedConns, ServedOwn

LEMMA ServedIsNext == OwnerInv' => ServedOwn'
BY ServedIs, PTL

Opened == {c \in Conn : peer[c] # "off"}
Gone == Opened \ (ToSet(WaitingConns) \cup ServedConns)

(* A step of the server is a step of the sessions, or none. *)
LEMMA StepIsSessionStep ==
    ASSUME SessionInv, SessionInv', [Next]_vars PROVE [Abstract!Next]_(Abstract!vars)
<1> DEFINE s == WaitingConns
           served == ServedConns
           gone == Gone
<1>0. /\ OwnerInv /\ OwnerInv' /\ EachOnce /\ SessionStep
      /\ s \in Seq(Conn) /\ Len(s) \in Nat /\ DOMAIN s = 1..Len(s)
      /\ \A i \in DOMAIN s : s[i] \in Conn
      /\ \A w \in Worker : Busy(w) => own[w] \in Conn
  BY NextSessionStep, SessionFacts DEF SessionInv
<1>1. /\ served = {own[v] : v \in {w \in Worker : Busy(w)}}
      /\ served' = {own'[v] : v \in {w \in Worker : Busy(w)'}}
  BY <1>0, ServedIs, ServedIsNext DEF ServedOwn
<1>2. \A c \in Conn : c \in Opened' <=> peer'[c] # "off"
  BY DEF Opened
<1> SUFFICES Abstract!Next \/ (s' = s /\ served' = served /\ gone' = gone)
  BY DEF Abstract!vars, Gone, Opened
<1>3. CASE Rests
  <2>1. s' = s /\ served' = served /\ Opened' = Opened
    BY <1>1, <1>3 DEF Rests, SameServing, SamePeers, Opened
  <2> QED BY <2>1 DEF Gone
<1>4. ASSUME NEW c \in Conn, Arrives(c) PROVE Abstract!Next
  <2>1. s' = Append(s, c) /\ served' = served /\ Opened' = Opened \cup {c} /\ c \notin Opened
    BY <1>1, <1>4 DEF Arrives, SameServing, SamePeers, Opened
  <2>2. c \notin ToSet(s) \cup served
    BY <1>1, <1>4 DEF Arrives, EachOnce, SessionInv, ToSet
  <2>3. ToSet(s') = ToSet(s) \cup {c}
    BY <1>0, <2>1, SetOfAppend
  <2>4. gone' = gone /\ c \notin gone
    BY <2>1, <2>2, <2>3 DEF Gone
  <2>5. Abstract!Arrive(c)
    BY <2>1, <2>2, <2>4 DEF Abstract!Arrive, Gone, Opened, Abstract!ToSet, ToSet
  <2> QED BY <2>5 DEF Abstract!Next
<1>5. ASSUME NEW k \in Nat, Drops(k) PROVE Abstract!Next
  <2>1. k \in DOMAIN s /\ s' = RemoveAt(s, k) /\ served' = served /\ Opened' = Opened
    BY <1>1, <1>5 DEF Drops, SameServing, SamePeers, Opened
  <2>2. ToSet(s') = ToSet(s) \ {s[k]}
    BY <1>0, <2>1, SetOfRemoved DEF EachOnce
  <2>3. s[k] \in Opened /\ s[k] \in ToSet(s) /\ s[k] \notin served
    BY <1>0, <1>1, <2>1 DEF EachOnce, ToSet, Opened
  <2>4. gone' = gone \cup {s[k]}
    BY <2>1, <2>2, <2>3 DEF Gone
  <2>5. Abstract!Drop
    BY <2>1, <2>4 DEF Abstract!Drop, Gone, Opened, Abstract!RemoveAt, RemoveAt
  <2> QED BY <2>5 DEF Abstract!Next
<1>6. ASSUME NEW w \in Worker, Begins(w) PROVE Abstract!Next
  <2>1. s # <<>> /\ s' = Tail(s) /\ served' = served \cup {Head(s)} /\ Opened' = Opened
    BY <1>1, <1>6 DEF Begins, SameServing, SamePeers, Opened
  <2>2. ToSet(s) = ToSet(s') \cup {Head(s)}
    BY <1>0, <2>1, SetOfTail
  <2>3. gone' = gone
    BY <2>1, <2>2 DEF Gone
  <2>4. Cardinality(served) < Cardinality(Worker)
    BY <1>6, RoomToServe DEF Begins
  <2>5. Abstract!Cardinality(served) = Cardinality(served)
    BY Zenon DEF Abstract!Cardinality, Cardinality
  <2>6. Abstract!Begin
    BY <2>1, <2>3, <2>4, <2>5 DEF Abstract!Begin, Gone, Opened
  <2> QED BY <2>6 DEF Abstract!Next
<1>7. ASSUME NEW w \in Worker, Ends(w) PROVE Abstract!Next
  <2>0. PICK c \in Conn : c = own[w]
    BY <1>0, <1>7 DEF Ends
  <2>1. s' = s /\ served' = served \ {c} /\ Opened' = Opened /\ c \in served
    BY <1>0, <1>1, <1>7, <2>0 DEF Ends, SameServing, SamePeers, Opened, EachOnce
  <2>2. c \in Opened /\ c \notin ToSet(s)
    BY <1>0, <1>7, <2>0 DEF Ends, EachOnce, ToSet, Opened
  <2>3. gone' = gone \cup {c}
    BY <2>1, <2>2 DEF Gone
  <2>4. Abstract!End(c)
    BY <2>1, <2>3 DEF Abstract!End, Gone, Opened
  <2> QED BY <2>4 DEF Abstract!Next
<1> QED BY <1>0, <1>3, <1>4, <1>5, <1>6, <1>7 DEF SessionStep

(* Where no exit request comes, the server is Sessions: every connection it
   accepts is served once, in the order of arrival, by one worker. *)
THEOREM ServerIsSessions == NoExit /\ Spec => ImplementsSessions
<1>1. Init => Abstract!Init
  <2> SUFFICES ASSUME Init PROVE Abstract!Init
    OBVIOUS
  <2>1. queue = <<>> /\ backlog = <<>> /\ ServedConns = {} /\ \A c \in Conn : peer[c] = "off"
    BY DEF Init, SocketsInit, ServedConns, Busy
  <2>2. WaitingConns = <<>>
    BY <2>1 DEF WaitingConns
  <2> QED BY <2>1, <2>2 DEF Abstract!Init
<1>2. SessionInv /\ SessionInv' /\ [Next]_vars => [Abstract!Next]_(Abstract!vars)
  BY StepIsSessionStep
<1> QED BY <1>1, <1>2, InitEachOnce, NextSessionInv, PTL DEF Spec, ImplementsSessions, Abstract!Spec

=============================================================================
