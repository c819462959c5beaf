----------------------------- MODULE ChatClient -----------------------------
(***************************************************************************)
(* The console client (client.c) on its connection: the main thread reads  *)
(* commands and writes requests, a second thread reads what the server     *)
(* sends; the two share is_authenticated and g_username with no lock.      *)
(*                                                                         *)
(* The connection holds at most Cap messages in each direction; a write to *)
(* a full one blocks.  A message is read whole.  The server is outside:    *)
(* it takes the requests in order and answers each; Says tells which of    *)
(* the words that the client looks for its answers contain.                *)
(***************************************************************************)
EXTENDS Naturals, Sequences, SequencesExt

CONSTANTS
    Name,      \* account names
    NoName,    \* the empty string
    Torn,      \* a name that is being overwritten
    Cap,       \* messages that fit a direction of the connection
    Says,      \* Says[a]: what the client finds in the answer a
    MaxTyped,  \* a bound: the commands the user types
    MaxNews    \* a bound: the messages other users cause

Answer == {"granted", "refused", "registered", "notRegistered", "loggedOut"}
Found == {"welcome", "failed", "bye", "nothing", "noAnswer"}

ASSUME ClientAssumption ==
    /\ NoName \notin Name /\ Torn \notin Name \cup {NoName}
    /\ Cap \in Nat \ {0} /\ MaxTyped \in Nat /\ MaxNews \in Nat
    /\ Says \in [Answer -> Found]

VARIABLES
    is_authenticated, g_username,
    mpc,      \* what the main thread does next
    msg,      \* the request it has in hand
    rpc,      \* what the receiving thread does next
    ruser,    \* username of the message it handles
    ended,    \* the client process has ended
    up,       \* requests on their way to the server
    down,     \* messages on their way to the client
    owed,     \* messages the server has to write
    session,  \* the account the server holds logged in on this connection
    granted,  \* history variable: the server has ever accepted a login on it
    gone,     \* the server has closed its end
    typed, news

clientVars == <<is_authenticated, g_username, mpc, msg, rpc, ruser, ended>>
serverVars == <<owed, session, granted, gone, news>>
vars == <<clientVars, serverVars, up, down, typed>>

Kind == {"register", "login", "logout", "chat", "list", "exit"}
Request == [kind : Kind, name : Name \cup {NoName, Torn}]
Message == [found : Found, name : Name \cup {NoName}]
NoRequest == [kind |-> "chat", name |-> NoName]

TypeOK ==
    /\ is_authenticated \in BOOLEAN
    /\ g_username \in Name \cup {NoName, Torn}
    /\ mpc \in {"prompt", "copy", "write", "leave"}
    /\ msg \in Request
    /\ rpc \in {"read", "name", "copyName", "wipe"}
    /\ ruser \in Name \cup {NoName}
    /\ ended \in BOOLEAN
    /\ up \in Seq(Request) /\ Len(up) <= Cap
    /\ down \in Seq(Message) /\ Len(down) <= Cap
    /\ owed \in Seq(Message)
    /\ session \in Name \cup {NoName}
    /\ granted \in BOOLEAN
    /\ gone \in BOOLEAN
    /\ typed \in 0..MaxTyped /\ news \in 0..MaxNews

Init ==
    /\ is_authenticated = FALSE
    /\ g_username = NoName
    /\ mpc = "prompt"
    /\ msg = NoRequest
    /\ rpc = "read"
    /\ ruser = NoName
    /\ ended = FALSE
    /\ up = <<>> /\ down = <<>> /\ owed = <<>>
    /\ session = NoName
    /\ granted = FALSE
    /\ gone = FALSE
    /\ typed = 0 /\ news = 0

-----------------------------------------------------------------------------
(* process_input: the user types, at any time, any command.                *)

Types ==
    /\ ~ended
    /\ mpc = "prompt"
    /\ typed < MaxTyped
    /\ typed' = typed + 1
    /\ UNCHANGED <<is_authenticated, g_username, rpc, ruser, ended, up, down, serverVars>>

Prepares(kind, name, next) ==
    msg' = [kind |-> kind, name |-> name] /\ mpc' = next

(* Mutant: the login counts before the server has answered. *)
TypeLogin_AtOnce ==
    /\ ~ended
    /\ mpc = "prompt"
    /\ typed < MaxTyped
    /\ typed' = typed + 1
    /\ ~is_authenticated
    /\ \E n \in Name : Prepares("login", n, "write") /\ g_username' = n
    /\ is_authenticated' = TRUE
    /\ UNCHANGED <<rpc, ruser, ended, up, down, serverVars>>

(* login_user waits for the server's word before it sets anything. *)
TypeLogin ==
    /\ Types
    /\ IF is_authenticated
       THEN UNCHANGED <<msg, mpc>>
       ELSE \E n \in Name : Prepares("login", n, "write")

TypeRegister ==
    /\ Types
    /\ \E n \in Name : Prepares("register", n, "write")

(* logout_user, send_private_message, send_group_message, request_online_list
   look at is_authenticated first and at g_username later. *)
TypeOther ==
    \E kind \in {"logout", "chat", "list"} :
        /\ Types
        /\ IF is_authenticated
           THEN Prepares(kind, NoName, "copy")
           ELSE UNCHANGED <<msg, mpc>>

(* "/exit" says good-bye when the user is logged in. *)
TypeExit ==
    /\ Types
    /\ IF is_authenticated
       THEN Prepares("exit", NoName, "copy")
       ELSE mpc' = "leave" /\ UNCHANGED msg

Copy ==
    /\ ~ended
    /\ mpc = "copy"
    /\ msg' = [msg EXCEPT !.name = g_username]
    /\ mpc' = "write"
    /\ UNCHANGED <<is_authenticated, g_username, rpc, ruser, ended, up, down, serverVars, typed>>

(* Mutant: a write that was done is repeated. *)
Write_Again ==
    /\ ~ended
    /\ mpc = "write"
    /\ IF gone
       THEN up' = up /\ ended' \in BOOLEAN
       ELSE Len(up) < Cap /\ up' = up \o <<msg, msg>> /\ UNCHANGED ended
    /\ mpc' = IF msg.kind = "exit" THEN "leave" ELSE "prompt"
    /\ msg' = NoRequest
    /\ UNCHANGED <<is_authenticated, g_username, rpc, ruser, down, serverVars, typed>>

(* send_message.  A write to a connection that the server has closed ends the
   process, by SIGPIPE or by exit, or is lost. *)
Write ==
    /\ ~ended
    /\ mpc = "write"
    /\ IF gone
       THEN up' = up /\ ended' \in BOOLEAN
       ELSE Len(up) < Cap /\ up' = Append(up, msg) /\ UNCHANGED ended
    /\ mpc' = IF msg.kind = "exit" THEN "leave" ELSE "prompt"
    /\ msg' = NoRequest
    /\ UNCHANGED <<is_authenticated, g_username, rpc, ruser, down, serverVars, typed>>

(* "/exit", or the end of the input. *)
Leave ==
    /\ ~ended
    /\ mpc \in {"leave", "prompt"}
    /\ ended' = TRUE
    /\ UNCHANGED <<is_authenticated, g_username, mpc, msg, rpc, ruser, up, down, serverVars, typed>>

-----------------------------------------------------------------------------
(* receive_messages                                                        *)

Receives == ~ended /\ UNCHANGED <<mpc, msg, up, serverVars, typed>>

(* Mutants: the word for a logout is forgotten; the thread waits for the main
   thread to be at its prompt. *)
Receive_NoBye ==
    /\ Receives
    /\ rpc = "read"
    /\ down # <<>>
    /\ down' = Tail(down)
    /\ CASE Head(down).found = "welcome" ->
              /\ is_authenticated' = TRUE
              /\ rpc' = IF Head(down).name = NoName THEN "read" ELSE "name"
              /\ ruser' = Head(down).name
         [] Head(down).found = "failed" ->
              /\ is_authenticated' = FALSE
              /\ rpc' = "wipe"
              /\ UNCHANGED ruser
         [] OTHER -> UNCHANGED <<is_authenticated, rpc, ruser>>
    /\ UNCHANGED <<g_username, ended>>

Receive_AtPrompt ==
    /\ Receives
    /\ rpc = "read"
    /\ mpc = "prompt"
    /\ down # <<>>
    /\ down' = Tail(down)
    /\ UNCHANGED <<g_username, ended, is_authenticated, rpc, ruser>>

(* The flag is set before the name is, and the name is kept when the answer
   names none.  Messages of the other types are only shown. *)
Receive ==
    /\ Receives
    /\ rpc = "read"
    /\ down # <<>>
    /\ down' = Tail(down)
    /\ CASE Head(down).found = "welcome" ->
              /\ is_authenticated' = TRUE
              /\ rpc' = IF Head(down).name = NoName THEN "read" ELSE "name"
              /\ ruser' = Head(down).name
         [] Head(down).found \in {"failed", "bye"} ->
              /\ is_authenticated' = FALSE
              /\ rpc' = "wipe"
              /\ UNCHANGED ruser
         [] OTHER -> UNCHANGED <<is_authenticated, rpc, ruser>>
    /\ UNCHANGED <<g_username, ended>>

(* strncpy, character by character, and memset, which empties the string with
   the first byte. *)
SetName ==
    /\ Receives
    /\ \/ rpc = "name" /\ g_username' = Torn /\ rpc' = "copyName" /\ UNCHANGED ruser
       \/ rpc = "copyName" /\ g_username' = ruser /\ rpc' = "read" /\ ruser' = NoName
    /\ UNCHANGED <<is_authenticated, ended, down>>

Wipe ==
    /\ Receives
    /\ rpc = "wipe"
    /\ g_username' = NoName
    /\ rpc' = "read"
    /\ UNCHANGED <<is_authenticated, ruser, ended, down>>

(* Mutant: an end or an error is passed over. *)
ReceiveEnd_GoesOn ==
    /\ Receives
    /\ rpc = "read"
    /\ gone /\ down = <<>>
    /\ UNCHANGED <<is_authenticated, g_username, rpc, ruser, ended, down>>

(* read returns 0 or -1: the process ends. *)
ReceiveEnd ==
    /\ Receives
    /\ rpc = "read"
    /\ gone /\ down = <<>>
    /\ ended' = TRUE
    /\ UNCHANGED <<is_authenticated, g_username, rpc, ruser, down>>

-----------------------------------------------------------------------------
(* The server at the other end.                                            *)

Owes(answer, name) ==
    owed' = IF Says[answer] = "noAnswer" THEN owed
            ELSE Append(owed, [found |-> Says[answer], name |-> name])

Serves == ~gone /\ UNCHANGED <<clientVars, typed>>

(* A request is handled when what is owed for the ones before is written.  The
   type of the client's good-bye is that of a request for a history here: of
   nobody's, which goes to any connection without a name. *)
Handle ==
    /\ Serves
    /\ owed = <<>>
    /\ up # <<>>
    /\ up' = Tail(up)
    /\ LET m == Head(up) IN
         \/ /\ m.kind = "login" /\ session' = m.name /\ granted' = TRUE
            /\ Owes("granted", m.name) /\ UNCHANGED gone
         \/ m.kind = "login" /\ Owes("refused", NoName) /\ UNCHANGED <<session, granted, gone>>
         \/ /\ m.kind = "register"
            /\ \E a \in {"registered", "notRegistered"} : Owes(a, NoName)
            /\ UNCHANGED <<session, granted, gone>>
         \/ /\ m.kind = "logout" /\ Owes("loggedOut", NoName)
            /\ session' = IF Says["loggedOut"] = "noAnswer" THEN session ELSE NoName
            /\ UNCHANGED <<granted, gone>>
         \/ /\ m.kind \in {"chat", "list"}
            /\ owed' = Append(owed, [found |-> "nothing", name |-> NoName])
            /\ UNCHANGED <<session, granted, gone>>
         \/ /\ m.kind = "exit"
            /\ owed' \in {owed, Append(owed, [found |-> "nothing", name |-> NoName])}
            /\ UNCHANGED <<session, granted, gone>>
    /\ UNCHANGED <<down, news>>

ServerWrite ==
    /\ Serves
    /\ owed # <<>>
    /\ Len(down) < Cap
    /\ down' = Append(down, Head(owed))
    /\ owed' = Tail(owed)
    /\ UNCHANGED <<up, session, granted, gone, news>>

(* What other users write. *)
News ==
    /\ Serves
    /\ news < MaxNews
    /\ news' = news + 1
    /\ owed' = Append(owed, [found |-> "nothing", name |-> NoName])
    /\ UNCHANGED <<up, down, session, granted, gone>>

Hangup ==
    /\ Serves
    /\ gone' = TRUE
    /\ UNCHANGED <<up, down, owed, session, granted, news>>

Over == ended /\ UNCHANGED vars

-----------------------------------------------------------------------------

Main == TypeLogin \/ TypeRegister \/ TypeOther \/ TypeExit \/ Copy \/ Write \/ Leave
Receiver == Receive \/ SetName \/ Wipe \/ ReceiveEnd
Server == Handle \/ ServerWrite \/ News \/ Hangup

Next == Main \/ Receiver \/ Server \/ Over

Spec == Init /\ [][Next]_vars

(* The threads run; the server reads what it is sent and writes what it owes,
   when the connection lets it.  Nothing is assumed of the user. *)
FairSpec ==
    /\ Spec
    /\ WF_vars(Copy) /\ WF_vars(Write) /\ WF_vars(Receiver)
    /\ WF_vars(Handle \/ ServerWrite)

-----------------------------------------------------------------------------
(* Properties.                                                             *)

(* Nothing is under way. *)
Quiet ==
    /\ ~ended /\ ~gone /\ mpc = "prompt" /\ rpc = "read"
    /\ up = <<>> /\ down = <<>> /\ owed = <<>>

(* A client that takes itself for logged in is logged in, under the name it
   shows, whatever requests crossed whatever answers (receive_messages). *)
BelievesTheServer ==
    Quiet /\ is_authenticated => session = g_username

(* A client uses the server only after a login was accepted: no chat, no list
   and no good-bye is prepared or sent before (send_group_message and the like). *)
NothingBeforeLogin ==
    ~granted =>
        /\ mpc # "copy"
        /\ \A i \in DOMAIN up : up[i].kind \in {"login", "register"}

(* The client ends when the server has closed the connection, also while the
   main thread waits for its user or in a write (receive_messages). *)
ServerGoneEndsClient == gone ~> ended

(* A write comes back although the server itself may be blocked in a write to
   this client: the other thread reads on (main, receive_messages). *)
WriteReturns == mpc = "write" ~> mpc # "write" \/ ended

(* A login that the server has accepted is noticed. *)
GrantIsNoticed == Quiet /\ session # NoName => is_authenticated
=============================================================================
