----------------------------- MODULE LoginProofs -----------------------------
(***************************************************************************)
(* The members the server shows have logged in, under the account they are *)
(* shown under, and answers go to who asked: proved where no client sends  *)
(* an exit request.                                                        *)
(***************************************************************************)
EXTENDS OwnershipProofs

(* A request, waiting or in hand, is from the account of its connection. *)
RequestsAreOwn ==
    /\ \A c \in Conn : inbox[c] # NoMsg => inbox[c].from = Account[c]
    /\ \A w \in Worker : pc[w] \notin NoRequest => req[w].from = Account[own[w]]

(* Between the answer of the account file and the two updates of the node
   the login is already granted; between the updates the name is set. *)
LoginUnderWay ==
    \A w \in Worker :
        /\ pc[w] \in {"setName", "setState"} => granted[own[w]]
        /\ pc[w] = "setState" =>
             \A i \in DOMAIN list : node[list[i]].fd = sock[w] => node[list[i]].name = Account[own[w]]

(* A node marked auth is that of a connection that has logged in, said of
   the worker that handles it. *)
MarkedIsGranted ==
    \A w \in Worker, i \in DOMAIN list :
        Handling(w) /\ node[list[i]].fd = sock[w] /\ node[list[i]].state = "auth" =>
            granted[own[w]] /\ node[list[i]].name = Account[own[w]]

Ground == OwnerInv /\ ListInv
LoginInv == Ground /\ RequestsAreOwn /\ LoginUnderWay /\ MarkedIsGranted

LEMMA InitLoginInv == NoExit /\ Init => LoginInv
<1> SUFFICES ASSUME NoExit, Init PROVE RequestsAreOwn /\ LoginUnderWay /\ MarkedIsGranted
  BY InitOwnerInv, InitListInv DEF LoginInv, Ground
<1> QED BY DEF Init, SocketsInit, RegistryInit, RequestsAreOwn, LoginUnderWay, MarkedIsGranted,
               Handling, NoRequest

(* What the types and the owners give every proof below. *)
LEMMA GroundFacts ==
    ASSUME Ground
    PROVE  /\ pc \in [Worker -> Label] /\ sock \in [Worker -> Fd \cup {NoFd}]
           /\ own \in [Worker -> Conn \cup {NoConn}]
           /\ req \in [Worker -> Message \cup {NoMsg}]
           /\ inbox \in [Conn -> Message \cup {NoMsg}]
           /\ granted \in [Conn -> BOOLEAN]
           /\ RegistryTypeOK /\ UniqueFds /\ TypeInv
           /\ \A i \in DOMAIN list : list[i] \in Slot
           /\ \A w \in Worker : Busy(w) => own[w] \in Conn
           /\ \A v, w \in Worker : v # w /\ Busy(v) /\ Busy(w) => sock[v] # sock[w]
           /\ \A w \in Worker : Handling(w) => Busy(w)
           /\ \A w \in Worker : pc[w] \notin {"idle", "add", "recv"} => rc[w] = own[w]
<1>1. TypeInv /\ RegistryTypeOK /\ UniqueFds /\ ExclusiveOwner /\ ReadsOwn
  BY DEF Ground, OwnerInv, ListInv, TypeInv, Types
<1>2. \A i \in DOMAIN list : list[i] \in Slot
  BY <1>1, LenProperties, ElementOfSeq DEF RegistryTypeOK
<1> QED BY <1>1, <1>2 DEF TypeInv, Types, SocketsTypeOK, ExclusiveOwner, ReadsOwn, Busy, Handling

(* While no node changes, no login is revoked and no worker starts a login
   or the handling of a connection, what is known of the members stays. *)
LEMMA MembersFrame ==
    ASSUME LoginInv,
           \A i \in DOMAIN list' :
              \E j \in DOMAIN list : list'[i] = list[j] /\ node'[list'[i]] = node[list[j]],
           \A w \in Worker : Busy(w) /\ granted[own[w]] => granted'[own[w]],
           \A w \in Worker :
              \/ ~Handling(w)' /\ pc'[w] \notin {"setName", "setState"}
              \/ /\ Handling(w) /\ sock'[w] = sock[w] /\ own'[w] = own[w]
                 /\ pc'[w] \in {"setName", "setState"} => pc'[w] = pc[w]
    PROVE  LoginUnderWay' /\ MarkedIsGranted'
<1>1. \A w \in Worker : Handling(w) => Busy(w)
  BY GroundFacts DEF LoginInv
<1>2. LoginUnderWay'
  BY <1>1 DEF LoginInv, LoginUnderWay
<1>3. MarkedIsGranted'
  BY <1>1 DEF LoginInv, MarkedIsGranted
<1> QED BY <1>2, <1>3

(* The handlers' steps but those of a login. *)
LEMMA OtherHandlerStep ==
    ASSUME NEW w \in Worker, TypeInv, Handler(w), ~Authenticate(w), ~SetName(w), ~SetState(w)
    PROVE  /\ UNCHANGED <<node, granted>>
           /\ \A v \in Worker : v # w => req'[v] = req[v]
           /\ pc'[w] = "recv" \/ req'[w] = req[w]
           /\ pc'[w] \notin {"setName", "setState"}
<1> USE DEF Goto, Return
<1>0. pc \in [Worker -> Label] /\ req \in [Worker -> Message \cup {NoMsg}]
  BY DEF TypeInv, Types
<1>1. CASE Auth(w) \/ Private(w)
  BY <1>0, <1>1 DEF Auth, Reply, Private, FindReceiver, CheckReceiver, LoadReceiver, WriteReceiver,
              FindSender, CheckSender, LoadSender, WriteSender, Find, CheckState, LoadFd,
              WriteAnd, WriteAndReturn, WriteTo, sockVars, regVars
<1>2. CASE Group(w) \/ OnlineList(w)
  BY <1>0, <1>2 DEF Group, StoreGroup, Member, LoadMember, WriteMember, NextMember,
              OnlineList, ListUsers, Scan, ScanNext, FindSelf, StartAtHead, FollowNext,
              LoadFd, WriteAnd, WriteTo, sockVars, regVars
<1>3. CASE HistoryOrWeather(w)
  BY <1>0, <1>3 DEF HistoryOrWeather, FindRequester, LoadRequester, HistoryPiece, HistoryEnd,
              LoadAnswer, Answer, Fork, Find, LoadFd, WriteAndReturn, WriteTo,
              sockVars, regVars, localVars
<1> QED BY <1>1, <1>2, <1>3 DEF Handler

LEMMA NextRequestsAreOwn ==
    ASSUME LoginInv, [Next]_vars PROVE RequestsAreOwn'
<1>0. /\ pc \in [Worker -> Label] /\ req \in [Worker -> Message \cup {NoMsg}]
      /\ inbox \in [Conn -> Message \cup {NoMsg}] /\ own \in [Worker -> Conn \cup {NoConn}]
      /\ RequestsAreOwn /\ TypeInv
  BY GroundFacts DEF LoginInv
<1>1. CASE Main \/ (\E c \in Conn : ChildAnswer(c)) \/ UNCHANGED vars
  <2>1. UNCHANGED <<pc, own, req, inbox>>
    BY <1>1 DEF Main, Accept, AcceptDropped, ChildAnswer, vars, sockVars, poolVars, localVars
  <2> QED BY <1>0, <2>1 DEF RequestsAreOwn
<1>2. ASSUME NEW c \in Conn, Client(c) PROVE RequestsAreOwn'
  <2>1. UNCHANGED <<pc, own, req>>
    BY <1>2 DEF Client, poolVars, localVars
  <2>2. inbox' = inbox \/ \E m \in Requests(c) : inbox' = [inbox EXCEPT ![c] = m]
    BY <1>2 DEF Client, Connect, HangUp, Send
  <2>3. \A m \in Requests(c) : m.from = Account[c]
    BY DEF Requests
  <2> QED BY <1>0, <2>1, <2>2, <2>3 DEF RequestsAreOwn
<1>3. ASSUME NEW w \in Worker, RecvMsg(w) PROVE RequestsAreOwn'
  <2>1. rc[w] \in Conn /\ rc[w] = own[w] /\ inbox[rc[w]] # NoMsg
    BY <1>3, GroundFacts DEF LoginInv, RecvMsg, At
  <2>2. inbox[rc[w]].from = Account[own[w]]
    BY <1>0, <2>1 DEF RequestsAreOwn
  <2>3. inbox' = [inbox EXCEPT ![rc[w]] = NoMsg] /\ own' = own
    BY <1>3 DEF RecvMsg
  <2>4. \/ pc' = [pc EXCEPT ![w] = "recv"] /\ req' = req
        \/ \E l : pc' = [pc EXCEPT ![w] = l] /\ req' = [req EXCEPT ![w] = inbox[rc[w]]]
    BY <1>3 DEF RecvMsg, Goto
  <2> QED BY <1>0, <2>1, <2>2, <2>3, <2>4 DEF RequestsAreOwn, NoRequest
<1>4. ASSUME NEW w \in Worker, Take(w) \/ HandleClient(w), ~RecvMsg(w), ~ExitRemove(w), ~ExitClose(w)
      PROVE  RequestsAreOwn'
  <2>1. UNCHANGED <<inbox, req>>
    BY <1>4 DEF Take, HandleClient, AddClient, AddClientFails, Recv, RecvEnd,
                ByeRemove, ByeClose, Close, sockVars, localVars
  <2>2. /\ pc'[w] \in NoRequest
        /\ \A v \in Worker : v # w => pc'[v] = pc[v] /\ own'[v] = own[v]
    BY <1>0, <1>4 DEF Take, HandleClient, AddClient, AddClientFails, Recv, RecvEnd,
                      ByeRemove, ByeClose, Finish, Goto, NoRequest
  <2> QED BY <1>0, <2>1, <2>2 DEF RequestsAreOwn
<1>5. ASSUME NEW w \in Worker PROVE ~ExitRemove(w) /\ ~ExitClose(w)
  BY DEF ExitClose, ExitRemove, At, LoginInv, Ground, OwnerInv, ExitFree
<1>6. ASSUME NEW w \in Worker, Handler(w) PROVE RequestsAreOwn'
  <2>1. HandlerFrame(w)
    BY <1>0, <1>6, HandlerStep
  <2>2. pc[w] \notin NoRequest
    BY <2>1 DEF HandlerFrame, LoopLabel, NoRequest
  <2>3. /\ \A v \in Worker : v # w => req'[v] = req[v]
        /\ pc'[w] = "recv" \/ req'[w] = req[w]
    <3>1. CASE Authenticate(w) \/ SetName(w) \/ SetState(w)
      BY <3>1 DEF Authenticate, SetName, SetState, localVars
    <3> QED BY <1>0, <1>6, <3>1, OtherHandlerStep
  <2> QED BY <1>0, <2>1, <2>2, <2>3 DEF HandlerFrame, RequestsAreOwn, NoRequest
<1> QED BY <1>1, <1>2, <1>3, <1>4, <1>5, <1>6 DEF Next, WorkerStep, Handler, Spin, Dead

(* The three steps of a login that is accepted. *)
LEMMA LoginSteps ==
    ASSUME LoginInv, NEW w \in Worker, Authenticate(w) \/ SetName(w) \/ SetState(w)
    PROVE  LoginUnderWay' /\ MarkedIsGranted'
<1>0. /\ pc \in [Worker -> Label] /\ req \in [Worker -> Message \cup {NoMsg}]
      /\ granted \in [Conn -> BOOLEAN] /\ RegistryTypeOK /\ UniqueFds
      /\ \A i \in DOMAIN list : list[i] \in Slot
      /\ RequestsAreOwn /\ LoginUnderWay /\ MarkedIsGranted
      /\ \A v \in Worker : Handling(v) => Busy(v)
      /\ \A v \in Worker : Busy(v) => own[v] \in Conn
      /\ \A u, v \in Worker : u # v /\ Busy(u) /\ Busy(v) => sock[u] # sock[v]
  BY GroundFacts DEF LoginInv
<1>1. Busy(w) /\ Handling(w) /\ own[w] \in Conn /\ pc[w] \notin NoRequest
  BY <1>0 DEF Authenticate, SetName, SetState, At, Busy, Handling, NoRequest
<1>2. CASE Authenticate(w)
  <2>1. rc[w] = own[w] /\ UNCHANGED <<list, node, sock, own>>
    BY <1>2, GroundFacts DEF LoginInv, Authenticate, At, regVars
  <2>2. \/ granted' = [granted EXCEPT ![own[w]] = TRUE] /\ pc' = [pc EXCEPT ![w] = "setName"]
        \/ granted' = granted /\ pc' = [pc EXCEPT ![w] = "reply"]
    BY <1>2, <2>1 DEF Authenticate, Goto
  <2>3. \A c \in Conn : granted[c] => granted'[c]
    BY <1>0, <2>2
  <2>4. LoginUnderWay'
    BY <1>0, <1>1, <2>1, <2>2, <2>3 DEF LoginUnderWay, Busy
  <2>5. \A v \in Worker : Handling(v)' => Handling(v)
    BY <1>0, <1>1, <2>2 DEF Handling
  <2>6. MarkedIsGranted'
    BY <1>0, <2>1, <2>3, <2>5 DEF MarkedIsGranted
  <2> QED BY <2>4, <2>6
<1>3. CASE SetName(w)
  <2>1. /\ req[w].from = Account[own[w]] /\ granted[own[w]]
        /\ req[w] \in Message /\ req[w].from \in User
    BY <1>0, <1>1, <1>3, SocketsAssumption
       DEF SetName, At, RequestsAreOwn, LoginUnderWay, LoginInv, Ground, OwnerInv, TypeInv, Message
  <2>2. /\ list' = list /\ UNCHANGED <<sock, own, granted>>
        /\ pc' = [pc EXCEPT ![w] = "setState"]
    BY <1>3 DEF SetName, update_client_username, Goto, sockVars
  <2>3. \A i \in DOMAIN list :
           node'[list[i]] = IF node[list[i]].fd = sock[w]
                            THEN [node[list[i]] EXCEPT !.name = Account[own[w]]] ELSE node[list[i]]
    BY <1>0, <1>3, <2>1, UpdateNameIs DEF SetName
  <2>4. \A i \in DOMAIN list :
           /\ node'[list[i]].fd = node[list[i]].fd
           /\ node'[list[i]].state = node[list[i]].state
           /\ node[list[i]].fd = sock[w] => node'[list[i]].name = Account[own[w]]
           /\ node[list[i]].fd # sock[w] => node'[list[i]].name = node[list[i]].name
    <3> TAKE i \in DOMAIN list
    <3>1. node[list[i]] \in Node
      BY <1>0 DEF RegistryTypeOK
    <3>2. CASE node[list[i]].fd = sock[w]
      BY <2>3, <3>1, <3>2 DEF Node
    <3>3. CASE node[list[i]].fd # sock[w]
      BY <2>3, <3>3
    <3> QED BY <3>2, <3>3
  <2>5. LoginUnderWay'
    BY <1>0, <1>1, <2>1, <2>2, <2>4 DEF LoginUnderWay, Busy
  <2>6. MarkedIsGranted'
    BY <1>0, <1>1, <2>1, <2>2, <2>4 DEF MarkedIsGranted, Handling
  <2> QED BY <2>5, <2>6
<1>4. CASE SetState(w)
  <2>1. /\ granted[own[w]]
        /\ \A i \in DOMAIN list : node[list[i]].fd = sock[w] => node[list[i]].name = Account[own[w]]
    BY <1>0, <1>4 DEF SetState, At, LoginUnderWay
  <2>2. /\ list' = list /\ UNCHANGED <<sock, own, granted>>
        /\ pc' = [pc EXCEPT ![w] = "reply"]
    BY <1>4 DEF SetState, update_client_state, Goto, sockVars
  <2>3. \A i \in DOMAIN list :
           node'[list[i]] = IF node[list[i]].fd = sock[w]
                            THEN [node[list[i]] EXCEPT !.state = "auth"] ELSE node[list[i]]
    BY <1>0, <1>4, UpdateStateIs DEF SetState
  <2>4. \A i \in DOMAIN list :
           /\ node'[list[i]].fd = node[list[i]].fd
           /\ node'[list[i]].name = node[list[i]].name
           /\ node[list[i]].fd # sock[w] => node'[list[i]].state = node[list[i]].state
    <3> TAKE i \in DOMAIN list
    <3>1. node[list[i]] \in Node
      BY <1>0 DEF RegistryTypeOK
    <3>2. CASE node[list[i]].fd = sock[w]
      BY <2>3, <3>1, <3>2 DEF Node
    <3>3. CASE node[list[i]].fd # sock[w]
      BY <2>3, <3>3
    <3> QED BY <3>2, <3>3
  <2>5. LoginUnderWay'
    BY <1>0, <1>1, <2>2, <2>4 DEF LoginUnderWay, Busy
  <2>6. MarkedIsGranted'
    BY <1>0, <1>1, <2>1, <2>2, <2>4 DEF MarkedIsGranted, Handling
  <2> QED BY <2>5, <2>6
<1> QED BY <1>2, <1>3, <1>4

LEMMA NextMembers ==
    ASSUME LoginInv, [Next]_vars PROVE LoginUnderWay' /\ MarkedIsGranted'
<1>0. /\ pc \in [Worker -> Label] /\ sock \in [Worker -> Fd \cup {NoFd}]
      /\ own \in [Worker -> Conn \cup {NoConn}]
      /\ RegistryTypeOK /\ UniqueFds /\ TypeInv
      /\ \A i \in DOMAIN list : list[i] \in Slot
      /\ \A v \in Worker : Handling(v) => Busy(v)
      /\ \A u, v \in Worker : u # v /\ Busy(u) /\ Busy(v) => sock[u] # sock[v]
  BY GroundFacts DEF LoginInv
<1>1. CASE Main \/ (\E c \in Conn : Client(c) \/ ChildAnswer(c)) \/ UNCHANGED vars
  <2>1. UNCHANGED <<pc, sock, own, list, node, granted>>
    BY <1>1 DEF Main, Accept, AcceptDropped, Client, Connect, Send, HangUp, ChildAnswer,
                vars, sockVars, regVars, poolVars
  <2>2. \A v \in Worker : \/ ~Handling(v)' /\ pc'[v] \notin {"setName", "setState"}
                          \/ Handling(v)
    BY <2>1 DEF Handling
  <2> QED BY <2>1, <2>2, MembersFrame
<1>2. ASSUME NEW w \in Worker, Take(w) \/ AddClientFails(w) \/ ByeClose(w)
      PROVE  LoginUnderWay' /\ MarkedIsGranted'
  <2>1. /\ UNCHANGED <<list, node, granted>> /\ pc'[w] \in {"idle", "add"}
        /\ \A v \in Worker : v # w => pc'[v] = pc[v] /\ sock'[v] = sock[v] /\ own'[v] = own[v]
    BY <1>0, <1>2 DEF Take, AddClientFails, ByeClose, Finish, Close, Goto, sockVars, regVars
  <2>2. ~Handling(w)' /\ \A v \in Worker : v # w => (Handling(v)' <=> Handling(v))
    BY <2>1 DEF Handling
  <2>3. \A v \in Worker : Handling(v) \/ pc[v] \notin {"setName", "setState"}
    BY DEF Handling
  <2> QED BY <2>1, <2>2, <2>3, MembersFrame
<1>3. ASSUME NEW w \in Worker, AddClient(w) PROVE LoginUnderWay' /\ MarkedIsGranted'
  <2>1. /\ pc[w] = "add" /\ pc' = [pc EXCEPT ![w] = "recv"]
        /\ UNCHANGED <<sock, own, granted>>
    BY <1>3 DEF AddClient, At, Goto, sockVars
  <2>2. \A i \in DOMAIN list' :
           \/ node'[list'[i]].fd = sock[w] /\ node'[list'[i]].state = "connected"
           \/ \E j \in DOMAIN list : list'[i] = list[j] /\ node'[list'[i]] = node[list[j]]
    BY <1>0, <1>3, AddClientIs DEF AddClient
  <2>3. \A j \in DOMAIN list : node[list[j]].fd # sock[w]
    <3> TAKE j \in DOMAIN list
    <3>1. PICK v \in Worker : Handling(v) /\ sock[v] = node[list[j]].fd
      BY DEF LoginInv, Ground, ListInv, ListedHasHandler
    <3>2. v # w /\ Busy(v) /\ Busy(w)
      BY <2>1, <3>1 DEF Handling, Busy
    <3> QED BY <1>0, <3>1, <3>2
  <2>4. LoginUnderWay'
    <3>1. \A v \in Worker : pc'[v] = "setState" => v # w /\ pc[v] = "setState" /\ sock[v] # sock[w]
      BY <1>0, <2>1 DEF Busy
    <3>2. \A v \in Worker : pc'[v] \in {"setName", "setState"} => pc[v] = pc'[v]
      BY <1>0, <2>1
    <3> QED BY <2>1, <2>2, <3>1, <3>2 DEF LoginInv, LoginUnderWay
  <2>5. MarkedIsGranted'
    <3>1. \A v \in Worker : Handling(v)' => v = w \/ Handling(v)
      BY <1>0, <2>1 DEF Handling
    <3> QED BY <2>1, <2>2, <2>3, <3>1 DEF LoginInv, MarkedIsGranted
  <2> QED BY <2>4, <2>5
<1>4. ASSUME NEW w \in Worker, Recv(w) \/ RecvMsg(w) \/ RecvEnd(w) PROVE LoginUnderWay' /\ MarkedIsGranted'
  <2>1. UNCHANGED <<list, node, granted, sock, own>> /\ Handling(w)
    BY <1>4 DEF Recv, RecvMsg, RecvEnd, At, Handling, sockVars, regVars
  <2>2. PICK l : l \notin {"setName", "setState"} /\ pc' = [pc EXCEPT ![w] = l]
    <3>1. CASE RecvMsg(w)
      <4>1. inbox[rc[w]].kind \in AllKinds
        BY <3>1, GroundFacts DEF LoginInv, RecvMsg, Message
      <4>2. inbox[rc[w]].kind # "other" => FirstStep(inbox[rc[w]].kind) \notin {"setName", "setState"}
        BY <4>1 DEF FirstStep, AllKinds
      <4> QED BY <3>1, <4>2 DEF RecvMsg, Goto
    <3>2. CASE Recv(w) \/ RecvEnd(w)
      BY <3>2 DEF Recv, RecvEnd, Goto
    <3> QED BY <1>4, <3>1, <3>2
  <2>3. \A v \in Worker : v # w => (Handling(v)' <=> Handling(v)) /\ pc'[v] = pc[v]
    BY <1>0, <2>2 DEF Handling
  <2>4. pc'[w] \notin {"setName", "setState"}
    BY <1>0, <2>2
  <2>5. \A v \in Worker : Handling(v) \/ pc[v] \notin {"setName", "setState"}
    BY DEF Handling
  <2> QED BY <2>1, <2>3, <2>4, <2>5, MembersFrame
<1>5. ASSUME NEW w \in Worker, ByeRemove(w) PROVE LoginUnderWay' /\ MarkedIsGranted'
  <2>1. UNCHANGED <<granted, sock, own>> /\ pc' = [pc EXCEPT ![w] = "byeClose"]
    BY <1>5 DEF ByeRemove, Goto, sockVars
  <2>2. \A i \in DOMAIN list' :
           \E j \in DOMAIN list : list'[i] = list[j] /\ node'[list'[i]] = node[list[j]]
    BY <1>0, <1>5, RemoveClientIs DEF ByeRemove, Unlist
  <2>3. ~Handling(w)' /\ pc'[w] = "byeClose"
    BY <1>0, <2>1 DEF Handling
  <2>4. \A v \in Worker : v # w => (Handling(v)' <=> Handling(v)) /\ pc'[v] = pc[v]
    BY <1>0, <2>1 DEF Handling
  <2>5. \A v \in Worker : Handling(v) \/ pc[v] \notin {"setName", "setState"}
    BY DEF Handling
  <2> QED BY <2>1, <2>2, <2>3, <2>4, <2>5, MembersFrame
<1>6. ASSUME NEW w \in Worker PROVE ~ExitRemove(w) /\ ~ExitClose(w)
  BY DEF ExitClose, ExitRemove, At, LoginInv, Ground, OwnerInv, ExitFree
<1>7. ASSUME NEW w \in Worker, Handler(w) PROVE LoginUnderWay' /\ MarkedIsGranted'
  <2>1. CASE Authenticate(w) \/ SetName(w) \/ SetState(w)
    BY <2>1, LoginSteps
  <2>2. CASE ~Authenticate(w) /\ ~SetName(w) /\ ~SetState(w)
    <3>1. HandlerFrame(w)
      BY <1>0, <1>7, HandlerStep
    <3>2. UNCHANGED <<node, granted>> /\ pc'[w] \notin {"setName", "setState"}
      BY <1>0, <1>7, <2>2, OtherHandlerStep
    <3>3. UNCHANGED <<list, sock, own>> /\ Handling(w)
      BY <3>1 DEF HandlerFrame, LoopLabel, Handling
    <3>4. \A v \in Worker : v # w => (Handling(v)' <=> Handling(v)) /\ pc'[v] = pc[v]
      BY <1>0, <3>1 DEF HandlerFrame, Handling
    <3>5. \A v \in Worker : Handling(v) \/ pc[v] \notin {"setName", "setState"}
      BY DEF Handling
    <3> QED BY <3>2, <3>3, <3>4, <3>5, MembersFrame
  <2> QED BY <2>1, <2>2
<1> QED BY <1>1, <1>2, <1>3, <1>4, <1>5, <1>6, <1>7
        DEF Next, WorkerStep, HandleClient, Handler, Spin, Dead

LEMMA NextLoginInv == LoginInv /\ [Next]_vars => LoginInv'
BY NextOwnerInv, NextListInv, NextRequestsAreOwn, NextMembers DEF LoginInv, Ground

(* A node of the list is that of the connection its handler was given, so
   what is known of it there is known of the connection. *)
LEMMA LoginInvImpliesMembers == LoginInv => MembersAreLoggedIn
<1> SUFFICES ASSUME LoginInv, NEW i \in DOMAIN list, node[list[i]].state = "auth"
             PROVE  LET c == Resolve(node[list[i]].fd) IN
                      c \in Conn /\ granted[c] /\ node[list[i]].name = Account[c]
  BY DEF MembersAreLoggedIn
<1>1. PICK w \in Worker : Handling(w) /\ sock[w] = node[list[i]].fd
  BY DEF LoginInv, Ground, ListInv, ListedHasHandler
<1>2. Resolve(sock[w]) = own[w] /\ own[w] \in Conn
  BY <1>1 DEF Resolve, Handling, Busy, LoginInv, Ground, OwnerInv, ExclusiveOwner
<1> QED BY <1>1, <1>2 DEF LoginInv, MarkedIsGranted

(* Where no exit request comes, every member of the list is a connection on
   which the server has accepted a login, under the account of that login. *)
THEOREM MembersHaveLoggedIn == NoExit /\ Spec => []MembersAreLoggedIn
BY InitLoginInv, NextLoginInv, LoginInvImpliesMembers, PTL DEF Spec

-----------------------------------------------------------------------------
(* Answers that are found by name go to who asked, where no two connections *)
(* use one account.                                                         *)

OneAccountEach == \A c, d \in Conn : c # d => Account[c] # Account[d]

(* A node bears the account of its connection, or no name yet. *)
Named ==
    \A w \in Worker, i \in DOMAIN list :
        Handling(w) /\ node[list[i]].fd = sock[w] => node[list[i]].name \in {NoName, Account[own[w]]}

(* A handler that has found the node of who asked points at its own node,
   which nobody else takes out; what it has read there is its descriptor. *)
AtOwnNode == {"checkSender", "loadSender", "loadRequester", "history", "loadAnswer", "fork"}
WithOwnFd == {"history", "answer", "writeSender"}

OwnNode(w) ==
    /\ pc[w] \in AtOwnNode => cur[w] \in Linked /\ node[cur[w]].fd = sock[w]
    /\ pc[w] \in WithOwnFd => out[w] = sock[w]

AnswerInv ==
    LoginInv /\ SessionInv /\ OneAccountEach /\ Named /\ \A w \in Worker : OwnNode(w)

LEMMA InitAnswerInv == NoExit /\ OneAccountEach /\ Init => AnswerInv
<1> SUFFICES ASSUME NoExit, OneAccountEach, Init PROVE Named /\ \A w \in Worker : OwnNode(w)
  BY InitLoginInv, InitEachOnce DEF AnswerInv
<1> QED BY DEF Init, RegistryInit, Named, Handling, OwnNode, AtOwnNode, WithOwnFd

(* While nodes keep their descriptor and name and nobody starts to handle a
   connection, the names stay right. *)
LEMMA NamedFrame ==
    ASSUME Named,
           \A i \in DOMAIN list' : \E j \in DOMAIN list :
              /\ node'[list'[i]].fd = node[list[j]].fd
              /\ node'[list'[i]].name = node[list[j]].name,
           \A w \in Worker : Handling(w)' => Handling(w) /\ sock'[w] = sock[w] /\ own'[w] = own[w]
    PROVE  Named'
BY DEF Named

LEMMA NextNamed ==
    ASSUME AnswerInv, [Next]_vars PROVE Named'
<1>0. /\ pc \in [Worker -> Label] /\ sock \in [Worker -> Fd \cup {NoFd}]
      /\ own \in [Worker -> Conn \cup {NoConn}]
      /\ RegistryTypeOK /\ UniqueFds /\ TypeInv /\ LoginInv /\ Named
      /\ \A i \in DOMAIN list : list[i] \in Slot
      /\ \A v \in Worker : Handling(v) => Busy(v)
      /\ \A u, v \in Worker : u # v /\ Busy(u) /\ Busy(v) => sock[u] # sock[v]
  BY GroundFacts DEF LoginInv, AnswerInv
<1>1. CASE Main \/ (\E c \in Conn : Client(c) \/ ChildAnswer(c)) \/ UNCHANGED vars
  <2>1. UNCHANGED <<pc, sock, own, list, node>>
    BY <1>1 DEF Main, Accept, AcceptDropped, Client, ChildAnswer, vars, regVars, poolVars
  <2> QED BY <1>0, <2>1 DEF Named, Handling
<1>2. ASSUME NEW w \in Worker, Take(w) \/ AddClientFails(w) \/ ByeClose(w) PROVE Named'
  <2>1. /\ UNCHANGED <<list, node>> /\ pc'[w] \in {"idle", "add"}
        /\ \A v \in Worker : v # w => pc'[v] = pc[v] /\ sock'[v] = sock[v] /\ own'[v] = own[v]
    BY <1>0, <1>2 DEF Take, AddClientFails, ByeClose, Finish, Goto, regVars
  <2> QED BY <1>0, <2>1, NamedFrame DEF Handling
<1>3. ASSUME NEW w \in Worker, AddClient(w) PROVE Named'
  <2>1. /\ pc[w] = "add" /\ pc' = [pc EXCEPT ![w] = "recv"] /\ UNCHANGED <<sock, own>>
    BY <1>3 DEF AddClient, At, Goto
  <2>2. \A i \in DOMAIN list' :
           \/ node'[list'[i]].name = NoName
           \/ \E j \in DOMAIN list : list'[i] = list[j] /\ node'[list'[i]] = node[list[j]]
    BY <1>0, <1>3, AddClientIs DEF AddClient
  <2>3. \A j \in DOMAIN list : node[list[j]].fd # sock[w]
    <3> TAKE j \in DOMAIN list
    <3>1. PICK v \in Worker : Handling(v) /\ sock[v] = node[list[j]].fd
      BY <1>0 DEF LoginInv, Ground, ListInv, ListedHasHandler
    <3>2. v # w /\ Busy(v) /\ Busy(w)
      BY <2>1, <3>1 DEF Handling, Busy
    <3> QED BY <1>0, <3>1, <3>2
  <2>4. \A v \in Worker : Handling(v)' => v = w \/ Handling(v)
    BY <1>0, <2>1 DEF Handling
  <2> QED BY <1>0, <2>1, <2>2, <2>3, <2>4 DEF Named
<1>4. ASSUME NEW w \in Worker, Recv(w) \/ RecvMsg(w) \/ RecvEnd(w) PROVE Named'
  <2>1. UNCHANGED <<list, node, sock, own>> /\ Handling(w)
    BY <1>4 DEF Recv, RecvMsg, RecvEnd, At, Handling, regVars
  <2>2. \A v \in Worker : v # w => pc'[v] = pc[v]
    BY <1>0, <1>4 DEF Recv, RecvMsg, RecvEnd, Goto
  <2> QED BY <1>0, <2>1, <2>2, NamedFrame DEF Handling
<1>5. ASSUME NEW w \in Worker, ByeRemove(w) PROVE Named'
  <2>1. UNCHANGED <<sock, own>> /\ pc' = [pc EXCEPT ![w] = "byeClose"]
    BY <1>5 DEF ByeRemove, Goto
  <2>2. \A i \in DOMAIN list' :
           \E j \in DOMAIN list : list'[i] = list[j] /\ node'[list'[i]] = node[list[j]]
    BY <1>0, <1>5, RemoveClientIs DEF ByeRemove, Unlist
  <2>3. \A v \in Worker : Handling(v)' => Handling(v)
    BY <1>0, <2>1 DEF Handling
  <2> QED BY <1>0, <2>1, <2>2, <2>3, NamedFrame
<1>6. ASSUME NEW w \in Worker PROVE ~ExitRemove(w) /\ ~ExitClose(w)
  BY <1>0 DEF ExitClose, ExitRemove, At, LoginInv, Ground, OwnerInv, ExitFree
<1>7. ASSUME NEW w \in Worker, Handler(w) PROVE Named'
  <2>1. HandlerFrame(w)
    BY <1>0, <1>7, HandlerStep
  <2>2. UNCHANGED <<list, sock, own>> /\ Handling(w)
    BY <2>1 DEF HandlerFrame, LoopLabel, Handling
  <2>3. \A v \in Worker : Handling(v)' => Handling(v)
    BY <1>0, <2>1, <2>2 DEF HandlerFrame, Handling
  <2>4. CASE SetName(w)
    <3>1. /\ req[w].from = Account[own[w]] /\ req[w] \in Message /\ req[w].from \in User
      BY <1>0, <2>4 DEF SetName, At, RequestsAreOwn, LoginInv, TypeInv, Types, NoRequest, Message
    <3>2. \A i \in DOMAIN list :
             node'[list[i]] = IF node[list[i]].fd = sock[w]
                              THEN [node[list[i]] EXCEPT !.name = Account[own[w]]] ELSE node[list[i]]
      BY <1>0, <2>4, <3>1, UpdateNameIs DEF SetName
    <3>3. \A i \in DOMAIN list :
             /\ node'[list[i]].fd = node[list[i]].fd
             /\ node[list[i]].fd = sock[w] => node'[list[i]].name = Account[own[w]]
             /\ node[list[i]].fd # sock[w] => node'[list[i]].name = node[list[i]].name
      <4> TAKE i \in DOMAIN list
      <4>1. node[list[i]] \in Node
        BY <1>0 DEF RegistryTypeOK
      <4>2. CASE node[list[i]].fd = sock[w]
        BY <3>2, <4>1, <4>2 DEF Node
      <4>3. CASE node[list[i]].fd # sock[w]
        BY <3>2, <4>3
      <4> QED BY <4>2, <4>3
    <3>4. \A v \in Worker : v # w /\ Handling(v) => sock[v] # sock[w]
      BY <1>0, <2>2
    <3> QED BY <1>0, <2>2, <2>3, <3>3, <3>4 DEF Named
  <2>5. CASE SetState(w)
    <3>1. \A i \in DOMAIN list :
             node'[list[i]] = IF node[list[i]].fd = sock[w]
                              THEN [node[list[i]] EXCEPT !.state = "auth"] ELSE node[list[i]]
      BY <1>0, <2>5, UpdateStateIs DEF SetState
    <3>2. \A i \in DOMAIN list :
             node'[list[i]].fd = node[list[i]].fd /\ node'[list[i]].name = node[list[i]].name
      <4> TAKE i \in DOMAIN list
      <4>1. node[list[i]] \in Node
        BY <1>0 DEF RegistryTypeOK
      <4>2. CASE node[list[i]].fd = sock[w]
        BY <3>1, <4>1, <4>2 DEF Node
      <4>3. CASE node[list[i]].fd # sock[w]
        BY <3>1, <4>3
      <4> QED BY <4>2, <4>3
    <3> QED BY <1>0, <2>2, <2>3, <3>2, NamedFrame
  <2>6. CASE ~SetName(w) /\ ~SetState(w)
    <3>1. node' = node
      <4>1. CASE Authenticate(w)
        BY <4>1 DEF Authenticate, regVars
      <4> QED BY <1>0, <1>7, <2>6, <4>1, OtherHandlerStep
    <3> QED BY <1>0, <2>2, <2>3, <3>1, NamedFrame
  <2> QED BY <2>4, <2>5, <2>6
<1> QED BY <1>1, <1>2, <1>3, <1>4, <1>5, <1>6, <1>7
        DEF Next, WorkerStep, HandleClient, Handler, Spin, Dead

(* The node of a connection stays in the list, and stays its node, until its
   own worker takes it out. *)
LEMMA NodeStays ==
    ASSUME LoginInv, [Next]_vars, NEW w \in Worker, Handling(w), ~ByeRemove(w),
           NEW s \in Linked, node[s].fd = sock[w]
    PROVE  s \in Linked' /\ node'[s].fd = sock[w]
<1>0. /\ sock \in [Worker -> Fd \cup {NoFd}] /\ RegistryTypeOK /\ UniqueFds /\ TypeInv
      /\ \A i \in DOMAIN list : list[i] \in Slot
      /\ \A v \in Worker : Handling(v) => Busy(v)
      /\ \A u, v \in Worker : u # v /\ Busy(u) /\ Busy(v) => sock[u] # sock[v]
  BY GroundFacts DEF LoginInv
<1>1. PICK i \in DOMAIN list : s = list[i]
  BY DEF Linked, ToSet
<1>2. s \in Slot
  BY <1>0, <1>1
<1>3. ASSUME list' = list, node'[s].fd = node[s].fd PROVE s \in Linked' /\ node'[s].fd = sock[w]
  BY <1>3 DEF Linked
<1>4. ASSUME NEW v \in Worker, Handler(v) PROVE s \in Linked' /\ node'[s].fd = sock[w]
  BY <1>0, <1>2, <1>3, <1>4, HandlerStep DEF HandlerFrame
<1>5. ASSUME NEW v \in Worker, AddClient(v) PROVE s \in Linked' /\ node'[s].fd = sock[w]
  <2>1. add_client(sock[v]) /\ sock[v] \in Fd \cup {NoFd}
    BY <1>0, <1>5 DEF AddClient
  <2>2. CASE WithFd(sock[v]) = {}
    <3>1. PICK n \in Slot \ Linked : /\ Linked' = Linked \cup {n}
                                    /\ \A u \in Slot \ {n} : node'[u] = node[u]
      BY <1>0, <2>1, <2>2, LinksAfterAdd
    <3> QED BY <1>2, <3>1
  <2>3. CASE WithFd(sock[v]) # {}
    BY <1>3, <2>1, <2>3 DEF add_client, regVars
  <2> QED BY <2>2, <2>3
<1>6. ASSUME NEW v \in Worker, ByeRemove(v) PROVE s \in Linked' /\ node'[s].fd = sock[w]
  <2>1. v # w /\ Busy(v) /\ Busy(w) /\ remove_client(sock[v])
    BY <1>0, <1>6 DEF ByeRemove, At, Busy, Unlist
  <2>2. node[list[i]].fd # sock[v]
    BY <1>0, <1>1, <2>1
  <2>3. PICK k \in DOMAIN list' : list'[k] = list[i]
    BY <1>0, <2>1, <2>2, RemoveClientIs
  <2>4. \E j \in DOMAIN list : list'[k] = list[j] /\ node'[list'[k]] = node[list[j]]
    BY <1>0, <2>1, RemoveClientIs
  <2>5. s \in Linked'
    BY <1>1, <2>3 DEF Linked, ToSet
  <2> QED BY <1>1, <2>3, <2>4, <2>5
<1>7. ASSUME NEW v \in Worker PROVE ~ExitRemove(v)
  BY DEF ExitRemove, At, LoginInv, Ground, OwnerInv, ExitFree
<1>8. CASE UNCHANGED <<list, node>>
  BY <1>3, <1>8
<1> QED BY <1>4, <1>5, <1>6, <1>7, <1>8 DEF Next, Main, Accept, AcceptDropped, WorkerStep, HandleClient,
   Take, Recv, RecvMsg, AddClientFails, RecvEnd, ExitClose, ByeClose, Handler, Spin, Dead, Client,
   ChildAnswer, regVars, vars

(* Whoever looks up the account a request is from finds his own node: no
   other node bears that name. *)
LEMMA FindsOwnNode ==
    ASSUME AnswerInv, NEW w \in Worker, Handling(w), NEW s,
           s = find_client_by_username(Account[own[w]]), s # Null
    PROVE  s \in Linked /\ node[s].fd = sock[w]
<1>0. /\ RegistryTypeOK /\ \A v \in Worker : Handling(v) => Busy(v)
      /\ \A v \in Worker : Busy(v) => own[v] \in Conn
      /\ \A u, v \in Worker : u # v /\ Busy(u) /\ Busy(v) => own[u] # own[v]
  BY GroundFacts DEF AnswerInv, LoginInv, SessionInv, EachOnce
<1>1. PICK i \in DOMAIN list : node[list[i]].name = Account[own[w]] /\ s = list[i]
  BY <1>0, FindByNameIs
<1>2. PICK v \in Worker : Handling(v) /\ sock[v] = node[list[i]].fd
  BY DEF AnswerInv, LoginInv, Ground, ListInv, ListedHasHandler
<1>3. node[list[i]].name \in {NoName, Account[own[v]]}
  BY <1>2 DEF AnswerInv, Named
<1>4. own[w] \in Conn /\ own[v] \in Conn /\ Account[own[w]] # NoName
  BY <1>0, <1>2, SocketsAssumption
<1>5. own[v] = own[w]
  BY <1>1, <1>3, <1>4 DEF AnswerInv, OneAccountEach
<1>6. v = w
  BY <1>0, <1>2, <1>5
<1> QED BY <1>1, <1>2, <1>6 DEF Linked, ToSet

(* The steps by which a handler comes to its own node and goes on with it. *)
Answering(w) ==
    \/ FindSender(w) \/ CheckSender(w) \/ LoadSender(w) \/ FindRequester(w)
    \/ LoadRequester(w) \/ HistoryPiece(w) \/ LoadAnswer(w)

LEMMA AnswerMove ==
    ASSUME TypeInv, [Next]_vars, NEW w \in Worker, pc'[w] \in AtOwnNode \cup WithOwnFd, ~Answering(w)
    PROVE  pc'[w] = pc[w] /\ sock'[w] = sock[w] /\ cur'[w] = cur[w] /\ out'[w] = out[w]
<1> USE DEF Goto, Return
<1>0. /\ pc \in [Worker -> Label] /\ sock \in [Worker -> Fd \cup {NoFd}]
      /\ cur \in [Worker -> Slot \cup {Null}] /\ out \in [Worker -> Fd \cup {NoFd}]
  BY DEF TypeInv, Types
<1>1. CASE Main \/ (\E c \in Conn : Client(c) \/ ChildAnswer(c)) \/ UNCHANGED vars
  BY <1>1 DEF Main, Accept, AcceptDropped, Client, ChildAnswer, vars, poolVars, localVars
<1>2. ASSUME NEW v \in Worker, v # w, Take(v) \/ HandleClient(v)
      PROVE  pc'[w] = pc[w] /\ sock'[w] = sock[w] /\ cur'[w] = cur[w] /\ out'[w] = out[w]
  BY <1>0, <1>2 DEF Take, HandleClient, AddClient, AddClientFails, Recv, RecvMsg, RecvEnd,
     ExitRemove, ExitClose, ByeRemove, ByeClose, Finish, localVars
<1>3. ASSUME NEW v \in Worker, v # w, Handler(v)
      PROVE  pc'[w] = pc[w] /\ sock'[w] = sock[w] /\ cur'[w] = cur[w] /\ out'[w] = out[w]
  <2>1. CASE Auth(v) \/ Private(v)
    BY <1>0, <1>3, <2>1 DEF Auth, Authenticate, SetName, SetState, Reply, Private, FindReceiver,
       CheckReceiver, LoadReceiver, WriteReceiver, FindSender, CheckSender, LoadSender, WriteSender,
       Find, CheckState, LoadFd, WriteAnd, WriteAndReturn, localVars
  <2>2. CASE Group(v) \/ OnlineList(v)
    BY <1>0, <1>3, <2>2 DEF Group, StoreGroup, Member, LoadMember, WriteMember, NextMember,
       OnlineList, ListUsers, Scan, ScanNext, FindSelf, StartAtHead, FollowNext, LoadFd, WriteAnd
  <2>3. CASE HistoryOrWeather(v)
    BY <1>0, <1>3, <2>3 DEF HistoryOrWeather, FindRequester, LoadRequester, HistoryPiece, HistoryEnd,
       LoadAnswer, Answer, Fork, Find, LoadFd, WriteAndReturn, localVars
  <2> QED BY <1>3, <2>1, <2>2, <2>3 DEF Handler
<1>4. ~Take(w) /\ ~HandleClient(w)
  <2>1. CASE RecvMsg(w)
    <3>1. inbox[rc[w]].kind \in AllKinds
      BY <2>1 DEF RecvMsg, TypeInv, Types, SocketsTypeOK, Message
    <3>2. inbox[rc[w]].kind # "other" =>
            FirstStep(inbox[rc[w]].kind) \notin AtOwnNode \cup WithOwnFd
      BY <3>1 DEF FirstStep, AllKinds, AtOwnNode, WithOwnFd
    <3> QED BY <1>0, <2>1, <3>2 DEF RecvMsg, AtOwnNode, WithOwnFd
  <2> QED BY <1>0, <2>1 DEF Take, HandleClient, AddClient, AddClientFails, Recv, RecvEnd,
     ExitRemove, ExitClose, ByeRemove, ByeClose, Finish, AtOwnNode, WithOwnFd
<1>5. ~Handler(w)
  <2> USE DEF AtOwnNode, WithOwnFd
  <2>1. ~Auth(w)
    BY <1>0 DEF Auth, Authenticate, SetName, SetState, Reply
  <2>2. ~Private(w)
    BY <1>0 DEF Answering, Private, FindReceiver, CheckReceiver, LoadReceiver, WriteReceiver, WriteSender,
       Find, CheckState, LoadFd, WriteAnd, WriteAndReturn
  <2>3. ~Group(w) /\ ~OnlineList(w)
    BY <1>0 DEF Group, StoreGroup, Member, LoadMember, WriteMember, NextMember,
       OnlineList, ListUsers, Scan, ScanNext, FindSelf, StartAtHead, FollowNext, LoadFd, WriteAnd
  <2>4. ~HistoryOrWeather(w)
    BY <1>0 DEF Answering, HistoryOrWeather, HistoryEnd, Answer, Fork, WriteAndReturn
  <2> QED BY <2>1, <2>2, <2>3, <2>4 DEF Handler
<1> QED BY <1>1, <1>2, <1>3, <1>4, <1>5 DEF Next, WorkerStep, Handler, Spin, Dead

LEMMA NextOwnNode ==
    ASSUME AnswerInv, [Next]_vars, NEW w \in Worker PROVE OwnNode(w)'
<1>0. /\ pc \in [Worker -> Label] /\ cur \in [Worker -> Slot \cup {Null}]
      /\ out \in [Worker -> Fd \cup {NoFd}] /\ TypeInv /\ LoginInv /\ OwnNode(w)
      /\ RegistryTypeOK
  BY GroundFacts DEF AnswerInv, LoginInv, TypeInv, Types
<1> SUFFICES ASSUME pc'[w] \in AtOwnNode \cup WithOwnFd PROVE OwnNode(w)'
  BY DEF OwnNode
<1>1. CASE ~Answering(w)
  <2>1. pc'[w] = pc[w] /\ sock'[w] = sock[w] /\ cur'[w] = cur[w] /\ out'[w] = out[w]
    BY <1>0, <1>1, AnswerMove
  <2>2. Handling(w) /\ pc[w] # "byeRemove"
    BY <2>1 DEF Handling, AtOwnNode, WithOwnFd
  <2>3. ~ByeRemove(w)
    BY <2>2 DEF ByeRemove, At
  <2>4. ASSUME pc'[w] \in AtOwnNode PROVE cur'[w] \in Linked' /\ node'[cur'[w]].fd = sock'[w]
    <3>1. cur[w] \in Linked /\ node[cur[w]].fd = sock[w]
      BY <1>0, <2>1, <2>4 DEF OwnNode
    <3>2. cur[w] \in Linked' /\ node'[cur[w]].fd = sock[w]
      BY <1>0, <2>2, <2>3, <3>1, NodeStays
    <3> QED BY <2>1, <3>2
  <2> QED BY <1>0, <2>1, <2>4 DEF OwnNode
<1>2. CASE FindSender(w) \/ FindRequester(w)
  <2>1. req[w].from = Account[own[w]] /\ Handling(w)
    BY <1>0, <1>2 DEF FindSender, FindRequester, At, LoginInv, RequestsAreOwn, NoRequest, Handling
  <2>2. UNCHANGED <<list, node, sock>>
    BY <1>2 DEF FindSender, FindRequester, Find, regVars
  <2>3. \E l \in {"checkSender", "loadRequester", "loadAnswer", "fork"} : Find(w, req[w].from, l)
    BY <1>2 DEF FindSender, FindRequester
  <2>4. PICK s : s = find_client_by_username(Account[own[w]])
    OBVIOUS
  <2>5. CASE s = Null
    <3>1. pc'[w] = "recv"
      BY <1>0, <2>1, <2>3, <2>4, <2>5 DEF Find, Return, Goto
    <3> QED BY <3>1 DEF AtOwnNode, WithOwnFd
  <2>6. CASE s # Null
    <3>1. /\ cur'[w] = s
          /\ pc'[w] \in {"checkSender", "loadRequester", "loadAnswer", "fork"}
      BY <1>0, <2>1, <2>3, <2>4, <2>6 DEF Find, Goto
    <3>2. s \in Linked /\ node[s].fd = sock[w]
      BY <2>1, <2>4, <2>6, FindsOwnNode
    <3>3. Linked' = Linked
      BY <2>2 DEF Linked
    <3> QED BY <2>2, <3>1, <3>2, <3>3 DEF OwnNode, WithOwnFd
  <2> QED BY <2>5, <2>6
<1>3. CASE CheckSender(w) \/ HistoryPiece(w)
  <2>1. UNCHANGED <<list, node, sock>> /\ pc[w] \in {"checkSender", "history"}
    BY <1>3 DEF CheckSender, CheckState, HistoryPiece, At, regVars
  <2>2. /\ UNCHANGED <<cur, out>>
        /\ pc'[w] = "loadSender" \/ (pc[w] = "history" /\ pc'[w] \in {"history", "loadAnswer"})
    BY <1>0, <1>3 DEF CheckSender, CheckState, HistoryPiece, At, Goto, Return, localVars,
                      AtOwnNode, WithOwnFd
  <2>3. Linked' = Linked
    BY <2>1 DEF Linked
  <2> QED BY <1>0, <2>1, <2>2, <2>3 DEF OwnNode, AtOwnNode, WithOwnFd
<1>4. CASE LoadSender(w) \/ LoadRequester(w) \/ LoadAnswer(w)
  <2>1. /\ UNCHANGED <<list, node, sock, cur>> /\ out'[w] = node[cur[w]].fd
        /\ pc[w] \in {"loadSender", "loadRequester", "loadAnswer"}
    BY <1>0, <1>4 DEF LoadSender, LoadRequester, LoadAnswer, LoadFd, At, regVars
  <2>2. cur[w] \in Linked /\ node[cur[w]].fd = sock[w]
    BY <1>0, <2>1 DEF OwnNode, AtOwnNode
  <2>3. Linked' = Linked
    BY <2>1 DEF Linked
  <2> QED BY <2>1, <2>2, <2>3 DEF OwnNode
<1> QED BY <1>1, <1>2, <1>3, <1>4 DEF Answering

LEMMA NextAnswerInv == AnswerInv /\ [Next]_vars => AnswerInv'
<1> SUFFICES ASSUME AnswerInv, [Next]_vars PROVE AnswerInv'
  OBVIOUS
<1>1. LoginInv' /\ SessionInv' /\ OneAccountEach'
  BY NextLoginInv, NextSessionInv DEF AnswerInv, OneAccountEach
<1>2. Named'
  BY NextNamed
<1>3. \A w \in Worker : OwnNode(w)'
  BY NextOwnNode
<1> QED BY <1>1, <1>2, <1>3 DEF AnswerInv

LEMMA AnswerInvImpliesOwn == AnswerInv => AnswerGoesToRequester
<1> SUFFICES ASSUME AnswerInv, NEW w \in Worker
             PROVE  /\ pc[w] \in {"history", "answer", "writeSender"} => Resolve(out[w]) = own[w]
                    /\ pc[w] \in {"fork", "loadRequester", "loadAnswer", "loadSender"} =>
                         Resolve(node[cur[w]].fd) = own[w]
  BY DEF AnswerGoesToRequester
<1>1. OwnNode(w) /\ (Busy(w) => Resolve(sock[w]) = own[w])
  BY SessionFacts DEF AnswerInv, SessionInv
<1> QED BY <1>1 DEF OwnNode, AtOwnNode, WithOwnFd, Busy

(* Where no exit request comes and no two connections use one account, the
   history, the weather, a notice and the sender's copy of a private message
   go to the connection that asked, although they are written through a
   pointer that is followed after the lock is gone. *)
THEOREM AnswersGoToRequester ==
    NoExit /\ OneAccountEach /\ Spec => []AnswerGoesToRequester
BY InitAnswerInv, NextAnswerInv, AnswerInvImpliesOwn, PTL DEF Spec
=============================================================================
