------------------------------ MODULE Sockets ------------------------------
(***************************************************************************)
(* The TCP sockets under the chat server, as far as its code can tell them *)
(* apart: which descriptor is bound to which connection, what the peer has *)
(* sent and whether it is still there, and what a write does to a peer     *)
(* that is gone.  The kernel is not part of the repository; every operator *)
(* says what the server's calls rely on.                                   *)
(*                                                                         *)
(* The other end of a connection is a client program: it connects, sends   *)
(* requests one at a time and at some point goes away.                     *)
(***************************************************************************)
EXTENDS Naturals, Sequences, SequencesExt

CONSTANTS
    Conn,     \* connections: each is opened at most once
    Fd,       \* descriptor numbers the process may get for a client
    User,     \* account names
    Account,  \* Account[c]: the account the person at the end of c uses
    Kinds,    \* Kinds[c]: the kinds of request that come on c
    MaxSend,  \* MaxSend[c], a bound: how many requests come on c
    All,      \* the name under which group messages are filed, "ALL"
    NoConn, NoFd, NoName, NoMsg   \* "nothing here" values

AllKinds == {"login", "register", "other", "private", "group", "list",
             "history", "weather", "exit"}

ASSUME SocketsAssumption ==
    /\ Account \in [Conn -> User]
    /\ Kinds \in [Conn -> SUBSET AllKinds]
    /\ MaxSend \in [Conn -> Nat]
    /\ NoConn \notin Conn
    /\ NoFd \notin Fd
    /\ NoName \notin User
    /\ All \notin User

VARIABLES
    alive,    \* the server process has not been killed by SIGPIPE
    peer,     \* peer[c]: what the client at the end of c has done so far
    inbox,    \* inbox[c]: the request that waits in the receive buffer
    sent,     \* sent[c]: how many requests the client has sent
    granted,  \* granted[c]: the server has accepted a login that came on c
    backlog,  \* connections the kernel has completed and main not accepted
    fdtab     \* fdtab[f]: the connection descriptor f denotes, or NoConn

sockVars == <<alive, peer, inbox, sent, granted, backlog, fdtab>>

PeerState == {"off", "open", "closed", "reset"}
Message == [kind : AllKinds, from : User, to : User \cup {All}]

SocketsTypeOK ==
    /\ alive \in BOOLEAN
    /\ peer \in [Conn -> PeerState]
    /\ inbox \in [Conn -> Message \cup {NoMsg}]
    /\ sent \in [Conn -> Nat] /\ \A c \in Conn : sent[c] <= MaxSend[c]
    /\ granted \in [Conn -> BOOLEAN]
    /\ backlog \in Seq(Conn)
    /\ fdtab \in [Fd -> Conn \cup {NoConn}]

SocketsInit ==
    /\ alive = TRUE
    /\ peer = [c \in Conn |-> "off"]
    /\ inbox = [c \in Conn |-> NoMsg]
    /\ sent = [c \in Conn |-> 0]
    /\ granted = [c \in Conn |-> FALSE]
    /\ backlog = <<>>
    /\ fdtab = [f \in Fd |-> NoConn]

-----------------------------------------------------------------------------
(* The clients.                                                            *)

Connect(c) ==
    /\ peer[c] = "off"
    /\ peer' = [peer EXCEPT ![c] = "open"]
    /\ backlog' = Append(backlog, c)
    /\ UNCHANGED <<alive, inbox, sent, granted, fdtab>>

(* What the person at the end of c may ask for.  A client asks for anything
   but an account or a login only once it is logged in. *)
Requests(c) ==
    { m \in Message :
        /\ m.kind \in Kinds[c]
        /\ m.from = Account[c]
        /\ m.kind \notin {"login", "register", "other"} => granted[c]
        /\ IF m.kind = "private" THEN m.to # All
           ELSE IF m.kind = "history" THEN m.to \in {All, Account[c]}
           ELSE m.to = All }

Send(c) ==
    /\ peer[c] = "open"
    /\ inbox[c] = NoMsg
    /\ sent[c] < MaxSend[c]
    /\ \E m \in Requests(c) : inbox' = [inbox EXCEPT ![c] = m]
    /\ sent' = [sent EXCEPT ![c] = @ + 1]
    /\ UNCHANGED <<alive, peer, granted, backlog, fdtab>>

(* "closed" is a FIN: the server reads what was sent and then 0; "reset" is
   an RST: the server reads -1 and its next writes fail. *)
HangUp(c) ==
    /\ peer[c] = "open"
    /\ \E how \in {"closed", "reset"} : peer' = [peer EXCEPT ![c] = how]
    /\ UNCHANGED <<alive, inbox, sent, granted, backlog, fdtab>>

-----------------------------------------------------------------------------
(* The calls of the server.                                                *)

Resolve(f) == IF f \in Fd THEN fdtab[f] ELSE NoConn

(* write(2) on the connection c, NoConn for a descriptor that is not open
   (EBADF, nothing happens).  The first write after the peer's FIN is
   answered by an RST.  A write on a reset connection fails: the first may
   report ECONNRESET, any other raises SIGPIPE, whose default action ends
   the process. *)
WriteTo(c) ==
    /\ peer' = IF c \in Conn /\ peer[c] = "closed"
               THEN [peer EXCEPT ![c] = "reset"] ELSE peer
    /\ IF c \in Conn /\ peer[c] = "reset"
       THEN alive' \in BOOLEAN ELSE alive' = alive
    /\ UNCHANGED <<inbox, sent, granted, backlog, fdtab>>

WriteFails(c) == c = NoConn \/ peer[c] = "reset"

Close(f) ==
    /\ fdtab' = IF f \in Fd THEN [fdtab EXCEPT ![f] = NoConn] ELSE fdtab
    /\ UNCHANGED <<alive, peer, inbox, sent, granted, backlog>>

=============================================================================
