-------------------------- MODULE ChatServerProofs --------------------------
(***************************************************************************)
(* Theorems about ChatServer, for any number of workers, connections,      *)
(* descriptors, slots and accounts.                                        *)
(***************************************************************************)
EXTENDS ChatServer, RegistryProofs

-----------------------------------------------------------------------------
(* Type correctness.                                                       *)

(* The parts of TypeOK: the kinds of value, and when a request is in hand. *)
Types ==
    /\ SocketsTypeOK
    /\ RegistryTypeOK
    /\ queue \in Seq(Task)
    /\ pc \in [Worker -> Label]
    /\ sock \in [Worker -> Fd \cup {NoFd}]
    /\ own \in [Worker -> Conn \cup {NoConn}]
    /\ rc \in [Worker -> Conn \cup {NoConn}]
    /\ req \in [Worker -> Message \cup {NoMsg}]
    /\ cur \in [Worker -> Slot \cup {Null}]
    /\ out \in [Worker -> Fd \cup {NoFd}]
    /\ due \in [Worker -> SUBSET Slot]
    /\ child \in SUBSET Conn

(* The labels at which no request is in hand, and those at which the handler
   points at a node. *)
NoRequest == {"idle", "add", "recv", "wait", "byeRemove", "byeClose"}
Pointing == {"checkReceiver", "loadReceiver", "checkSender", "loadSender",
             "loadMember", "writeMember", "nextMember", "scanNext",
             "loadRequester", "history", "loadAnswer", "fork"}

(* The inductive strengthening of TypeOK: the pointers that are followed are
   not null and the descriptor recv is waiting on is that of a connection. *)
TypeInv ==
    /\ Types
    /\ \A w \in Worker : (req[w] = NoMsg) <=> (pc[w] \in NoRequest)
    /\ \A w \in Worker : pc[w] \in Pointing => cur[w] \in Slot
    /\ \A w \in Worker : pc[w] \in {"auth"} => rc[w] \in Conn

LEMMA TypeInvImpliesTypeOK == TypeInv => TypeOK
BY DEF TypeInv, Types, TypeOK, NoRequest

LEMMA InitTypeInv == Init => TypeInv
BY SocketsAssumption
   DEF Init, SocketsInit, RegistryInit, TypeInv, Types, SocketsTypeOK, RegistryTypeOK,
       PeerState, Node, Label, NoRequest, Pointing


(* What a step leaves alone keeps its type, and so do the system calls. *)
LEMMA SocketsFrame ==
    ASSUME SocketsTypeOK,
           \/ UNCHANGED sockVars
           \/ \E c \in Conn \cup {NoConn} : WriteTo(c)
           \/ \E f : Close(f)
    PROVE  SocketsTypeOK'
<1>1. CASE UNCHANGED sockVars
  BY <1>1 DEF sockVars, SocketsTypeOK
<1>2. CASE \E c \in Conn \cup {NoConn} : WriteTo(c)
  BY <1>2 DEF WriteTo, SocketsTypeOK, PeerState
<1>3. CASE \E f : Close(f)
  BY <1>3 DEF Close, SocketsTypeOK
<1> QED BY <1>1, <1>2, <1>3

LEMMA RegistryFrame == RegistryTypeOK /\ UNCHANGED regVars => RegistryTypeOK'
BY DEF regVars, RegistryTypeOK

(* A handler that returns drops its request and its pointers. *)
LEMMA ReturnKeeps ==
    ASSUME TypeInv, NEW w \in Worker, Return(w), UNCHANGED <<queue, sock, own, rc>>,
           SocketsTypeOK', RegistryTypeOK', child' \in SUBSET Conn
    PROVE  TypeInv'
BY DEF Return, Goto, TypeInv, Types, Label, NoRequest, Pointing

(* A step inside a handler or inside the loop, which keeps the request. *)
LEMMA GotoKeeps ==
    ASSUME TypeInv, NEW w \in Worker, NEW l \in Label, Goto(w, l),
           UNCHANGED <<queue, sock, own, rc, req, child>>,
           l \in NoRequest <=> pc[w] \in NoRequest,
           l # "auth",
           NEW s \in Slot \cup {Null}, cur' = [cur EXCEPT ![w] = s],
           l \in Pointing => s \in Slot,
           out' \in [Worker -> Fd \cup {NoFd}],
           due' \in [Worker -> SUBSET Slot],
           SocketsTypeOK', RegistryTypeOK'
    PROVE  TypeInv'
<1>1. pc' = [pc EXCEPT ![w] = l]
  BY DEF Goto
<1>2. Types'
  BY <1>1 DEF TypeInv, Types
<1>3. \A v \in Worker : v # w => pc'[v] = pc[v] /\ cur'[v] = cur[v]
  BY <1>1 DEF TypeInv, Types
<1>4. pc'[w] = l /\ cur'[w] = s
  BY <1>1 DEF TypeInv, Types
<1>5. \A v \in Worker : (req'[v] = NoMsg) <=> (pc'[v] \in NoRequest)
  BY <1>3, <1>4 DEF TypeInv
<1>6. \A v \in Worker : pc'[v] \in Pointing => cur'[v] \in Slot
  BY <1>3, <1>4 DEF TypeInv
<1>7. \A v \in Worker : pc'[v] \in {"auth"} => rc'[v] \in Conn
  BY <1>3, <1>4 DEF TypeInv
<1> QED BY <1>2, <1>5, <1>6, <1>7 DEF TypeInv

(* The same when the pointer stays too. *)
LEMMA GotoKeepsCur ==
    ASSUME TypeInv, NEW w \in Worker, NEW l \in Label, Goto(w, l),
           UNCHANGED <<queue, sock, own, rc, req, cur, child>>,
           l \in NoRequest <=> pc[w] \in NoRequest,
           l # "auth",
           l \in Pointing => cur[w] \in Slot,
           out' \in [Worker -> Fd \cup {NoFd}],
           due' \in [Worker -> SUBSET Slot],
           SocketsTypeOK', RegistryTypeOK'
    PROVE  TypeInv'
<1>1. cur' = [cur EXCEPT ![w] = cur[w]] /\ cur[w] \in Slot \cup {Null}
  BY DEF TypeInv, Types
<1> QED BY <1>1, GotoKeeps

(* And when only the place changes. *)
LEMMA GotoKeepsLocals ==
    ASSUME TypeInv, NEW w \in Worker, NEW l \in Label \ (NoRequest \cup {"auth"}), Goto(w, l),
           UNCHANGED <<queue, sock, own, localVars, child>>,
           pc[w] \notin NoRequest, l \in Pointing => cur[w] \in Slot,
           SocketsTypeOK', RegistryTypeOK'
    PROVE  TypeInv'
<1>1. UNCHANGED <<queue, sock, own, rc, req, cur, out, due, child>>
  BY DEF localVars
<1>2. out' \in [Worker -> Fd \cup {NoFd}] /\ due' \in [Worker -> SUBSET Slot]
  BY <1>1 DEF TypeInv, Types
<1> QED BY <1>1, <1>2, GotoKeepsCur

(* The building blocks of the handlers. *)
LEMMA FindKeeps ==
    ASSUME TypeInv, NEW w \in Worker, NEW n, NEW l \in Label \ (NoRequest \cup {"auth"}),
           pc[w] \notin NoRequest, Find(w, n, l)
    PROVE  TypeInv'
<1>1. SocketsTypeOK' /\ RegistryTypeOK'
  BY SocketsFrame, RegistryFrame DEF Find, TypeInv, Types
<1>2. CASE Return(w) /\ UNCHANGED child
  BY <1>1, <1>2, ReturnKeeps DEF Find, TypeInv, Types
<1>3. CASE /\ Goto(w, l)
           /\ find_client_by_username(n) # Null
           /\ cur' = [cur EXCEPT ![w] = find_client_by_username(n)]
           /\ UNCHANGED <<req, out, due>>
  <2>1. find_client_by_username(n) \in Slot
    BY <1>3, FindByNameIs DEF TypeInv, Types
  <2> QED BY <1>1, <1>3, <2>1, GotoKeeps DEF Find, TypeInv, Types
<1> QED BY <1>2, <1>3 DEF Find

LEMMA CheckStateKeeps ==
    ASSUME TypeInv, NEW w \in Worker, NEW l \in Label \ (NoRequest \cup {"auth"}),
           pc[w] \notin NoRequest, cur[w] \in Slot, CheckState(w, l)
    PROVE  TypeInv'
<1>1. SocketsTypeOK' /\ RegistryTypeOK'
  BY SocketsFrame, RegistryFrame DEF CheckState, TypeInv, Types
<1>2. CASE Return(w)
  BY <1>1, <1>2, ReturnKeeps DEF CheckState, TypeInv, Types
<1>3. CASE Goto(w, l) /\ UNCHANGED <<req, cur, out, due>>
  BY <1>1, <1>3, GotoKeepsCur DEF CheckState, TypeInv, Types
<1> QED BY <1>2, <1>3 DEF CheckState

LEMMA LoadFdKeeps ==
    ASSUME TypeInv, NEW w \in Worker, NEW l \in Label \ (NoRequest \cup {"auth"}),
           pc[w] \notin NoRequest, cur[w] \in Slot, LoadFd(w, l)
    PROVE  TypeInv'
<1>1. SocketsTypeOK' /\ RegistryTypeOK'
  BY SocketsFrame, RegistryFrame DEF LoadFd, TypeInv, Types
<1>2. out' \in [Worker -> Fd \cup {NoFd}]
  BY DEF LoadFd, TypeInv, Types, RegistryTypeOK, Node
<1> QED BY <1>1, <1>2, GotoKeepsCur DEF LoadFd, TypeInv, Types

LEMMA WriteKeeps ==
    ASSUME TypeInv, NEW w \in Worker, NEW l \in Label \ (NoRequest \cup {"auth"}),
           pc[w] \notin NoRequest, l \in Pointing => cur[w] \in Slot,
           \/ WriteAnd(w, l) /\ due' \in [Worker -> SUBSET Slot]
           \/ WriteAndReturn(w)
    PROVE  TypeInv'
<1>1. Resolve(out[w]) \in Conn \cup {NoConn}
  BY DEF Resolve, TypeInv, Types, SocketsTypeOK
<1>2. SocketsTypeOK' /\ RegistryTypeOK'
  BY <1>1, SocketsFrame, RegistryFrame DEF WriteAnd, WriteAndReturn, TypeInv, Types
<1>3. CASE WriteAnd(w, l) /\ due' \in [Worker -> SUBSET Slot]
  <2>1. out' \in [Worker -> Fd \cup {NoFd}]
    BY <1>3 DEF WriteAnd, TypeInv, Types
  <2> QED BY <1>2, <1>3, <2>1, GotoKeepsCur DEF WriteAnd
<1>4. CASE WriteAndReturn(w)
  BY <1>2, <1>4, ReturnKeeps DEF WriteAndReturn, TypeInv, Types
<1> QED BY <1>3, <1>4

LEMMA StartKeeps ==
    ASSUME TypeInv, NEW w \in Worker, NEW l \in Label \ (NoRequest \cup Pointing \cup {"auth"}),
           pc[w] \notin NoRequest, StartAtHead(w, l)
    PROVE  TypeInv'
<1>1. SocketsTypeOK' /\ RegistryTypeOK'
  BY SocketsFrame, RegistryFrame DEF StartAtHead, TypeInv, Types
<1>2. ListHead \in Slot \cup {Null} /\ Members \in SUBSET Slot
  BY ElementOfSeq, LenProperties, HeadTailProperties
     DEF ListHead, Members, Linked, ToSet, TypeInv, Types, RegistryTypeOK
<1>3. due' \in [Worker -> SUBSET Slot]
  BY <1>2 DEF StartAtHead, TypeInv, Types
<1> QED BY <1>1, <1>2, <1>3, GotoKeeps DEF StartAtHead, TypeInv, Types

LEMMA FollowKeeps ==
    ASSUME TypeInv, NEW w \in Worker, NEW l \in Label \ (NoRequest \cup Pointing \cup {"auth"}),
           pc[w] \notin NoRequest, cur[w] \in Slot, FollowNext(w, l)
    PROVE  TypeInv'
<1>1. SocketsTypeOK' /\ RegistryTypeOK'
  BY SocketsFrame, RegistryFrame DEF FollowNext, TypeInv, Types
<1>2. NextOf(cur[w]) \in Slot \cup {Null}
  BY LinkIsSlotOrNull DEF TypeInv, Types
<1> QED BY <1>1, <1>2, GotoKeeps DEF FollowNext, TypeInv, Types

(* Every step keeps TypeInv: one step of the proof per action. *)
LEMMA MainTypeInv == TypeInv /\ Main => TypeInv'
<1> SUFFICES ASSUME TypeInv, Main PROVE TypeInv'
  OBVIOUS
<1>1. backlog # <<>> /\ Head(backlog) \in Conn /\ Tail(backlog) \in Seq(Conn)
  BY DEF Main, Accept, AcceptDropped, TypeInv, Types, SocketsTypeOK
<1>2. UNCHANGED <<regVars, pc, sock, own, localVars, child>>
  BY DEF Main, Accept, AcceptDropped, poolVars
<1>3. RegistryTypeOK'
  BY <1>2, RegistryFrame DEF TypeInv, Types
<1>4. SocketsTypeOK' /\ queue' \in Seq(Task)
  <2>1. CASE Accept
    <3>1. PICK f \in Fd : /\ fdtab' = [fdtab EXCEPT ![f] = Head(backlog)]
                          /\ queue' = Append(queue, [fd |-> f, conn |-> Head(backlog)])
      BY <2>1 DEF Accept
    <3>2. queue' \in Seq(Task)
      BY <1>1, <3>1 DEF Task, TypeInv, Types
    <3> QED BY <1>1, <2>1, <3>1, <3>2 DEF Accept, TypeInv, Types, SocketsTypeOK
  <2>2. CASE AcceptDropped
    BY <1>1, <2>2 DEF AcceptDropped, poolVars, TypeInv, Types, SocketsTypeOK
  <2> QED BY <2>1, <2>2 DEF Main
<1> QED BY <1>2, <1>3, <1>4 DEF TypeInv, Types, localVars

LEMMA ClientTypeInv ==
    ASSUME TypeInv, NEW c \in Conn, Client(c) \/ ChildAnswer(c) PROVE TypeInv'
<1>1. UNCHANGED <<regVars, poolVars, localVars>> /\ child' \in SUBSET Conn
  BY DEF Client, ChildAnswer, TypeInv, Types
<1>2. RegistryTypeOK'
  BY <1>1, RegistryFrame DEF TypeInv, Types
<1>3. SocketsTypeOK'
  <2> USE DEF TypeInv, Types, SocketsTypeOK
  <2>1. CASE Connect(c)
    BY <2>1 DEF Connect, PeerState
  <2>2. CASE Send(c)
    <3>1. PICK m \in Requests(c) : inbox' = [inbox EXCEPT ![c] = m]
      BY <2>2 DEF Send
    <3>2. m \in Message
      BY DEF Requests
    <3>3. sent[c] < MaxSend[c] /\ sent' = [sent EXCEPT ![c] = @ + 1] /\ MaxSend \in [Conn -> Nat]
      BY <2>2, SocketsAssumption DEF Send
    <3>4. sent' \in [Conn -> Nat] /\ \A d \in Conn : sent'[d] <= MaxSend[d]
      BY <3>3
    <3> QED BY <2>2, <3>1, <3>2, <3>4 DEF Send
  <2>3. CASE HangUp(c)
    BY <2>3 DEF HangUp, PeerState
  <2>4. CASE ChildAnswer(c)
    BY <2>4 DEF ChildAnswer, PeerState
  <2> QED BY <2>1, <2>2, <2>3, <2>4 DEF Client
<1> QED BY <1>1, <1>2, <1>3 DEF TypeInv, Types, poolVars, localVars

LEMMA HandleClientTypeInv ==
    ASSUME TypeInv, NEW w \in Worker, Take(w) \/ HandleClient(w) PROVE TypeInv'
<1> USE DEF TypeInv, Types
<1>1. CASE Take(w)
  <2>1. Head(queue) \in Task /\ Tail(queue) \in Seq(Task)
    BY <1>1 DEF Take
  <2>2. SocketsTypeOK' /\ RegistryTypeOK'
    BY <1>1, SocketsFrame, RegistryFrame DEF Take
  <2> QED BY <1>1, <2>1, <2>2 DEF Take, At, Goto, Label, NoRequest, Pointing, Task, localVars
<1>2. CASE AddClient(w)
  <2>1. SocketsTypeOK' /\ RegistryTypeOK'
    BY <1>2, SocketsFrame, AddClientIs DEF AddClient
  <2> QED BY <1>2, <2>1 DEF AddClient, At, Goto, Label, NoRequest, Pointing, localVars
<1>3. CASE AddClientFails(w)
  <2>1. SocketsTypeOK' /\ RegistryTypeOK'
    BY <1>3, SocketsFrame, RegistryFrame DEF AddClientFails
  <2> QED BY <1>3, <2>1 DEF AddClientFails, Finish, At, Goto, Label, NoRequest, Pointing, localVars
<1>4. CASE Recv(w)
  <2>1. SocketsTypeOK' /\ RegistryTypeOK'
    BY <1>4, SocketsFrame, RegistryFrame DEF Recv
  <2>2. Resolve(sock[w]) \in Conn \cup {NoConn}
    BY DEF Resolve, SocketsTypeOK
  <2> QED BY <1>4, <2>1, <2>2 DEF Recv, At, Goto, Label, NoRequest, Pointing
<1>5. CASE RecvMsg(w)
  <2> DEFINE m == inbox[rc[w]]
  <2>1. rc[w] \in Conn /\ m \in Message /\ m # NoMsg /\ m.kind \in AllKinds
    BY <1>5 DEF RecvMsg, Message, SocketsTypeOK
  <2>2. m.kind # "other" => FirstStep(m.kind) \in Label \ (NoRequest \cup Pointing)
    BY <2>1 DEF FirstStep, AllKinds, Label, NoRequest, Pointing
  <2>3. /\ inbox' = [inbox EXCEPT ![rc[w]] = NoMsg]
        /\ UNCHANGED <<alive, peer, sent, granted, backlog, fdtab, regVars,
                       queue, sock, own, rc, cur, out, due, child>>
        /\ pc[w] = "wait"
    BY <1>5 DEF RecvMsg, At
  <2>4. SocketsTypeOK' /\ RegistryTypeOK'
    BY <2>3, RegistryFrame DEF SocketsTypeOK
  <2>5. CASE m.kind = "other"
    <3>1. pc' = [pc EXCEPT ![w] = "recv"] /\ req' = req
      BY <1>5, <2>5 DEF RecvMsg, Goto
    <3> QED BY <2>3, <2>4, <3>1 DEF Label, NoRequest, Pointing
  <2>6. CASE m.kind # "other"
    <3>1. pc' = [pc EXCEPT ![w] = FirstStep(m.kind)] /\ req' = [req EXCEPT ![w] = m]
      BY <1>5, <2>6 DEF RecvMsg, Goto
    <3> HIDE DEF m
    <3> QED BY <2>1, <2>2, <2>3, <2>4, <2>6, <3>1
  <2> QED BY <2>5, <2>6
<1>6. CASE RecvEnd(w)
  <2>1. SocketsTypeOK' /\ RegistryTypeOK'
    BY <1>6, SocketsFrame, RegistryFrame DEF RecvEnd
  <2> QED BY <1>6, <2>1 DEF RecvEnd, At, Goto, Label, NoRequest, Pointing, localVars
<1>7. CASE ExitRemove(w) \/ ByeRemove(w)
  <2>1. SocketsTypeOK' /\ RegistryTypeOK' /\ due' \in [Worker -> SUBSET Slot]
    BY <1>7, SocketsFrame, RemoveClientIs DEF ExitRemove, ByeRemove, Unlist
  <2>2. CASE ExitRemove(w)
    BY <2>1, <2>2 DEF ExitRemove, At, Goto, Label, NoRequest, Pointing
  <2>3. CASE ByeRemove(w)
    BY <2>1, <2>3 DEF ByeRemove, At, Goto, Label, NoRequest, Pointing
  <2> QED BY <1>7, <2>2, <2>3
<1>8. CASE ExitClose(w)
  <2>1. SocketsTypeOK' /\ RegistryTypeOK'
    BY <1>8, SocketsFrame, RegistryFrame DEF ExitClose
  <2> QED BY <1>8, <2>1, ReturnKeeps DEF ExitClose
<1>9. CASE ByeClose(w)
  <2>1. SocketsTypeOK' /\ RegistryTypeOK'
    BY <1>9, SocketsFrame, RegistryFrame DEF ByeClose
  <2> QED BY <1>9, <2>1 DEF ByeClose, Finish, At, Goto, Label, NoRequest, Pointing
<1> QED BY <1>1, <1>2, <1>3, <1>4, <1>5, <1>6, <1>7, <1>8, <1>9 DEF HandleClient

LEMMA AuthTypeInv ==
    ASSUME TypeInv, NEW w \in Worker, Auth(w) PROVE TypeInv'
<1> USE DEF TypeInv, Types
<1>1. CASE Authenticate(w)
  <2>1. RegistryTypeOK'
    BY <1>1, RegistryFrame DEF Authenticate
  <2>2. SocketsTypeOK'
    BY <1>1 DEF Authenticate, At, SocketsTypeOK
  <2>3. PICK l \in {"setName", "reply"} : Goto(w, l)
    BY <1>1 DEF Authenticate
  <2>4. l \in Label \ (NoRequest \cup {"auth"}) /\ l \notin Pointing
    BY DEF Label, NoRequest, Pointing
  <2>5. pc[w] \notin NoRequest /\ UNCHANGED <<queue, sock, own, localVars, child>>
    BY <1>1 DEF Authenticate, At, NoRequest
  <2> QED BY <2>1, <2>2, <2>3, <2>4, <2>5, GotoKeepsLocals
<1>2. CASE SetName(w) \/ SetState(w)
  <2>1. req[w].from \in User
    BY <1>2 DEF SetName, SetState, At, Message, NoRequest
  <2>2. SocketsTypeOK' /\ RegistryTypeOK'
    BY <1>2, <2>1, SocketsFrame, UpdateIs DEF SetName, SetState
  <2>3. CASE SetName(w)
    <3>1. "setState" \in Label \ (NoRequest \cup {"auth"}) /\ "setState" \notin Pointing
      BY DEF Label, NoRequest, Pointing
    <3>2. /\ pc[w] \notin NoRequest /\ Goto(w, "setState")
          /\ UNCHANGED <<queue, sock, own, localVars, child>>
      BY <2>3 DEF SetName, At, NoRequest
    <3> QED BY <2>2, <3>1, <3>2, GotoKeepsLocals
  <2>4. CASE SetState(w)
    <3>1. "reply" \in Label \ (NoRequest \cup {"auth"}) /\ "reply" \notin Pointing
      BY DEF Label, NoRequest, Pointing
    <3>2. /\ pc[w] \notin NoRequest /\ Goto(w, "reply")
          /\ UNCHANGED <<queue, sock, own, localVars, child>>
      BY <2>4 DEF SetState, At, NoRequest
    <3> QED BY <2>2, <3>1, <3>2, GotoKeepsLocals
  <2> QED BY <1>2, <2>3, <2>4
<1>3. CASE Reply(w)
  <2>1. Resolve(sock[w]) \in Conn \cup {NoConn}
    BY DEF Resolve, SocketsTypeOK
  <2>2. SocketsTypeOK' /\ RegistryTypeOK'
    BY <1>3, <2>1, SocketsFrame, RegistryFrame DEF Reply
  <2> QED BY <1>3, <2>2, ReturnKeeps DEF Reply
<1> QED BY <1>1, <1>2, <1>3 DEF Auth

LEMMA PrivateTypeInv ==
    ASSUME TypeInv, NEW w \in Worker, Private(w) PROVE TypeInv'
<1> USE DEF At, Label, NoRequest, Pointing
<1>1. CASE FindReceiver(w)
  BY <1>1, FindKeeps DEF FindReceiver
<1>2. CASE CheckReceiver(w)
  BY <1>2, CheckStateKeeps DEF CheckReceiver, TypeInv
<1>3. CASE LoadReceiver(w)
  BY <1>3, LoadFdKeeps DEF LoadReceiver, TypeInv
<1>4. CASE WriteReceiver(w)
  BY <1>4, WriteKeeps DEF WriteReceiver, TypeInv, Types
<1>5. CASE FindSender(w)
  BY <1>5, FindKeeps DEF FindSender
<1>6. CASE CheckSender(w)
  BY <1>6, CheckStateKeeps DEF CheckSender, TypeInv
<1>7. CASE LoadSender(w)
  BY <1>7, LoadFdKeeps DEF LoadSender, TypeInv
<1>8. CASE WriteSender(w)
  <2>1. "findSender" \in Label \ (NoRequest \cup {"auth"}) /\ "findSender" \notin Pointing
    OBVIOUS
  <2> QED BY <1>8, <2>1, WriteKeeps DEF WriteSender
<1> QED BY <1>1, <1>2, <1>3, <1>4, <1>5, <1>6, <1>7, <1>8 DEF Private

LEMMA TraversalTypeInv ==
    ASSUME TypeInv, NEW w \in Worker, Group(w) \/ OnlineList(w) PROVE TypeInv'
<1> USE DEF At, Label, NoRequest, Pointing
<1>1. CASE StoreGroup(w)
  BY <1>1, StartKeeps DEF StoreGroup
<1>2. CASE ListUsers(w)
  BY <1>2, StartKeeps DEF ListUsers
<1>3. CASE Member(w)
  <2>1. SocketsTypeOK' /\ RegistryTypeOK'
    BY <1>3, SocketsFrame, RegistryFrame DEF Member, TypeInv, Types
  <2>2. CASE Return(w)
    BY <1>3, <2>1, <2>2, ReturnKeeps DEF Member, TypeInv, Types
  <2>3. CASE /\ cur[w] # Null
             /\ \E l \in {"loadMember", "nextMember"} : Goto(w, l)
             /\ UNCHANGED <<req, cur, out, due>>
    <3>1. cur[w] \in Slot
      BY <2>3 DEF TypeInv, Types
    <3>2. PICK l \in {"loadMember", "nextMember"} : Goto(w, l)
      BY <2>3
    <3>3. l \in Label \ (NoRequest \cup {"auth"})
      OBVIOUS
    <3>4. pc[w] \notin NoRequest /\ UNCHANGED <<queue, sock, own, localVars, child>>
      BY <1>3, <2>3 DEF Member, localVars
    <3> QED BY <2>1, <3>1, <3>2, <3>3, <3>4, GotoKeepsLocals
  <2> QED BY <1>3, <2>2, <2>3 DEF Member
<1>4. CASE LoadMember(w)
  BY <1>4, LoadFdKeeps DEF LoadMember, TypeInv
<1>5. CASE WriteMember(w)
  <2>1. due' \in [Worker -> SUBSET Slot]
    BY <1>5 DEF WriteMember, TypeInv, Types
  <2> QED BY <1>5, <2>1, WriteKeeps DEF WriteMember, TypeInv
<1>6. CASE NextMember(w)
  BY <1>6, FollowKeeps DEF NextMember, TypeInv
<1>7. CASE Scan(w)
  <2>1. SocketsTypeOK' /\ RegistryTypeOK'
    BY <1>7, SocketsFrame, RegistryFrame DEF Scan, TypeInv, Types
  <2>2. due' \in [Worker -> SUBSET Slot]
    BY <1>7 DEF Scan, TypeInv, Types
  <2>3. CASE cur[w] = Null
    <3>1. "findSelf" \in Label /\ "findSelf" \notin NoRequest \cup {"auth"} \cup Pointing
      OBVIOUS
    <3>2. /\ pc[w] \notin NoRequest /\ Goto(w, "findSelf")
          /\ UNCHANGED <<queue, sock, own, rc, req, cur, out, child>>
      BY <1>7, <2>3 DEF Scan
    <3>3. out' \in [Worker -> Fd \cup {NoFd}]
      BY <3>2 DEF TypeInv, Types
    <3> QED BY <2>1, <2>2, <3>1, <3>2, <3>3, GotoKeepsCur
  <2>4. CASE cur[w] # Null
    <3>1. cur[w] \in Slot
      BY <2>4 DEF TypeInv, Types
    <3>2. "scanNext" \in Label /\ "scanNext" \notin NoRequest \cup {"auth"}
      OBVIOUS
    <3>3. /\ pc[w] \notin NoRequest /\ Goto(w, "scanNext")
          /\ UNCHANGED <<queue, sock, own, rc, req, cur, out, child>>
      BY <1>7, <2>4 DEF Scan
    <3>4. out' \in [Worker -> Fd \cup {NoFd}]
      BY <3>3 DEF TypeInv, Types
    <3> QED BY <2>1, <2>2, <3>1, <3>2, <3>3, <3>4, GotoKeepsCur
  <2> QED BY <2>3, <2>4
<1>8. CASE ScanNext(w)
  BY <1>8, FollowKeeps DEF ScanNext, TypeInv
<1>9. CASE FindSelf(w)
  <2>1. SocketsTypeOK' /\ RegistryTypeOK'
    BY <1>9, SocketsFrame, RegistryFrame DEF FindSelf, TypeInv, Types
  <2>2. CASE Return(w)
    BY <1>9, <2>1, <2>2, ReturnKeeps DEF FindSelf, TypeInv, Types
  <2>3. CASE Goto(w, "reply") /\ UNCHANGED <<req, cur, out, due>>
    <3>1. "reply" \in Label \ (NoRequest \cup {"auth"}) /\ "reply" \notin Pointing
      OBVIOUS
    <3>2. pc[w] \notin NoRequest /\ UNCHANGED <<queue, sock, own, localVars, child>>
      BY <1>9, <2>3 DEF FindSelf, localVars
    <3> QED BY <2>1, <2>3, <3>1, <3>2, GotoKeepsLocals
  <2> QED BY <1>9, <2>2, <2>3 DEF FindSelf
<1> QED BY <1>1, <1>2, <1>3, <1>4, <1>5, <1>6, <1>7, <1>8, <1>9 DEF Group, OnlineList

LEMMA HistoryTypeInv ==
    ASSUME TypeInv, NEW w \in Worker, HistoryOrWeather(w) PROVE TypeInv'
<1> USE DEF At, Label, NoRequest, Pointing
<1>1. CASE FindRequester(w)
  <2>1. PICK l \in {"loadRequester", "loadAnswer", "fork"} : Find(w, req[w].from, l)
    BY <1>1 DEF FindRequester
  <2> QED BY <1>1, <2>1, FindKeeps DEF FindRequester
<1>2. CASE LoadRequester(w)
  <2>1. PICK l \in {"history", "loadAnswer"} : LoadFd(w, l)
    BY <1>2 DEF LoadRequester
  <2> QED BY <1>2, <2>1, LoadFdKeeps DEF LoadRequester, TypeInv
<1>3. CASE HistoryPiece(w)
  <2>1. Resolve(out[w]) \in Conn \cup {NoConn}
    BY DEF Resolve, TypeInv, Types, SocketsTypeOK
  <2>2. SocketsTypeOK' /\ RegistryTypeOK'
    BY <1>3, <2>1, SocketsFrame, RegistryFrame DEF HistoryPiece, TypeInv, Types
  <2>3. PICK l \in {"loadAnswer", "history"} : Goto(w, l)
    BY <1>3 DEF HistoryPiece
  <2>4. cur[w] \in Slot /\ pc[w] = "history"
    BY <1>3 DEF HistoryPiece, TypeInv
  <2>5. l \in Label \ (NoRequest \cup {"auth"}) /\ pc[w] \notin NoRequest
    BY <2>4
  <2>6. UNCHANGED <<queue, sock, own, localVars, child>>
    BY <1>3 DEF HistoryPiece
  <2> QED BY <2>2, <2>3, <2>4, <2>5, <2>6, GotoKeepsLocals
<1>4. CASE HistoryEnd(w) \/ Answer(w)
  <2>1. "findSender" \in Label \ (NoRequest \cup {"auth"}) /\ "findSender" \notin Pointing
    OBVIOUS
  <2> QED BY <1>4, <2>1, WriteKeeps DEF HistoryEnd, Answer
<1>5. CASE LoadAnswer(w)
  BY <1>5, LoadFdKeeps DEF LoadAnswer, TypeInv
<1>6. CASE Fork(w)
  <2>1. SocketsTypeOK' /\ RegistryTypeOK'
    BY <1>6, SocketsFrame, RegistryFrame DEF Fork, TypeInv, Types
  <2>2. child' \in SUBSET Conn
    <3>1. child \in SUBSET Conn
      BY DEF TypeInv, Types
    <3>2. Resolve(node[cur[w]].fd) \in Conn \cup {NoConn}
      BY DEF Resolve, TypeInv, Types, SocketsTypeOK
    <3>3. \/ child' = child
          \/ child' = child \cup ({Resolve(node[cur[w]].fd)} \ {NoConn})
      BY <1>6 DEF Fork
    <3> QED BY <3>1, <3>2, <3>3
  <2> QED BY <1>6, <2>1, <2>2, ReturnKeeps DEF Fork
<1> QED BY <1>1, <1>2, <1>3, <1>4, <1>5, <1>6 DEF HistoryOrWeather

LEMMA NextTypeInv == TypeInv /\ [Next]_vars => TypeInv'
<1> SUFFICES ASSUME TypeInv, [Next]_vars PROVE TypeInv'
  OBVIOUS
<1>1. CASE UNCHANGED vars
  BY <1>1, SocketsFrame, RegistryFrame DEF vars, poolVars, localVars, TypeInv, Types
<1> QED
  BY <1>1, MainTypeInv, ClientTypeInv, HandleClientTypeInv, AuthTypeInv, PrivateTypeInv,
     TraversalTypeInv, HistoryTypeInv DEF Next, WorkerStep, Spin, Dead

(* TypeOK is an invariant of the server: every variable keeps its type and a
   request is in hand exactly while a handler of message_handler.c runs. *)
THEOREM TypeCorrect == Spec => []TypeOK
<1>1. Spec => []TypeInv
  BY InitTypeInv, NextTypeInv, PTL DEF Spec
<1> QED BY <1>1, TypeInvImpliesTypeOK, PTL
=============================================================================
