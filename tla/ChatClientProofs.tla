-------------------------- MODULE ChatClientProofs --------------------------
(***************************************************************************)
(* What the console client believes, proved of ChatClient for any names,   *)
(* buffers, number of commands and of messages from others, and for any    *)
(* server that speaks the client's words.                                  *)
(***************************************************************************)
EXTENDS ChatClient, TLAPS, SequenceTheorems

(* The words of the server: it greets those it lets in and nobody else, and
   the word for a logout, when there is one, is understood. *)
SpeaksClientsWords ==
    /\ Says["granted"] = "welcome"
    /\ \A a \in Answer \ {"granted"} : Says[a] # "welcome"
    /\ Says["loggedOut"] \in {"failed", "bye", "noAnswer"}

(* A sequence with an element put behind its last one. *)
LEMMA AppendIs ==
    ASSUME NEW S, NEW s \in Seq(S), NEW x \in S
    PROVE  /\ Append(s, x) \in Seq(S) /\ Len(Append(s, x)) = Len(s) + 1
           /\ DOMAIN Append(s, x) = 1..(Len(s) + 1)
           /\ \A i \in 1..Len(s) : Append(s, x)[i] = s[i] /\ s[i] \in S
           /\ Append(s, x)[Len(s) + 1] = x
<1>1. Len(s) \in Nat /\ \A i \in 1..Len(s) : s[i] \in S
  BY LenProperties, ElementOfSeq
<1>2. Append(s, x) \in Seq(S) /\ Len(Append(s, x)) = Len(s) + 1
      /\ \A i \in 1..Len(s) : Append(s, x)[i] = s[i]
      /\ Append(s, x)[Len(s) + 1] = x
  BY AppendProperties
<1> QED BY <1>1, <1>2, LenProperties

(* A sequence without its first element. *)
LEMMA TailIs ==
    ASSUME NEW S, NEW s \in Seq(S), s # <<>>
    PROVE  /\ Tail(s) \in Seq(S) /\ Len(s) \in Nat \ {0} /\ Len(Tail(s)) = Len(s) - 1
           /\ DOMAIN Tail(s) = 1..(Len(s) - 1) /\ DOMAIN s = 1..Len(s)
           /\ \A i \in 1..(Len(s) - 1) : Tail(s)[i] = s[i + 1]
           /\ Head(s) = s[1] /\ s[1] \in S
<1>1. Len(s) \in Nat \ {0} /\ DOMAIN s = 1..Len(s) /\ s[1] \in S
  BY LenProperties, ElementOfSeq, EmptySeq
<1>2. Tail(s) \in Seq(S) /\ Len(Tail(s)) = Len(s) - 1
      /\ \A i \in 1..(Len(s) - 1) : Tail(s)[i] = s[i + 1]
      /\ Head(s) = s[1]
  BY <1>1, HeadTailProperties
<1> QED BY <1>1, <1>2, LenProperties

-----------------------------------------------------------------------------
(* Types, and what a request in hand or on its way looks like.             *)

Named(m) == m.kind \in {"login", "register"} => m.name \in Name

Requested ==
    /\ mpc = "copy" => msg.kind \notin {"login", "register"}
    /\ Named(msg)
    /\ \A i \in DOMAIN up : Named(up[i])

TypeInv == TypeOK /\ Requested

LEMMA InitTypeInv == Init => TypeInv
<1> SUFFICES ASSUME Init PROVE TypeInv
  OBVIOUS
<1>1. <<>> \in Seq(Request) /\ <<>> \in Seq(Message) /\ Len(<<>>) = 0
  OBVIOUS
<1>2. up = <<>> /\ down = <<>> /\ owed = <<>> /\ typed \in 0..MaxTyped /\ news \in 0..MaxNews
  BY ClientAssumption DEF Init
<1>3. TypeOK
  <2>1. /\ up \in Seq(Request) /\ down \in Seq(Message) /\ owed \in Seq(Message)
        /\ Len(up) = 0 /\ Len(down) = 0 /\ 0 <= Cap
    BY <1>1, <1>2, ClientAssumption
  <2>2. NoRequest \in Request
    BY DEF NoRequest, Request, Kind
  <2> QED BY <1>2, <2>1, <2>2 DEF Init, TypeOK
<1>4. Requested
  BY <1>2 DEF Init, Requested, Named, NoRequest
<1> QED BY <1>3, <1>4 DEF TypeInv

(* The steps of a command at the prompt. *)
Typing == TypeLogin \/ TypeRegister \/ TypeOther \/ TypeExit

LEMMA TypingStep ==
    ASSUME TypeInv, Typing
    PROVE  /\ UNCHANGED <<is_authenticated, g_username, rpc, ruser, ended, up, down, serverVars>>
           /\ typed' \in 0..MaxTyped /\ ~ended /\ mpc = "prompt"
           /\ \/ UNCHANGED msg /\ mpc' \in {"prompt", "leave"}
              \/ msg' \in Request /\ msg'.name \in Name /\ mpc' = "write"
                 /\ msg'.kind \in {"login", "register"}
              \/ msg' \in Request /\ msg'.name = NoName /\ mpc' = "copy" /\ is_authenticated
                 /\ msg'.kind \notin {"login", "register"}
<1>1. Types /\ typed' \in 0..MaxTyped
  BY ClientAssumption DEF Typing, TypeLogin, TypeRegister, TypeOther, TypeExit, Types, TypeInv, TypeOK
<1> QED BY <1>1 DEF Typing, TypeLogin, TypeRegister, TypeOther, TypeExit, Types, Prepares,
                    Request, Kind

(* The server takes the first request; it owes nothing, and then one answer or
   none.  Only a login that is granted makes it hold somebody logged in. *)
Speaks(words) ==
    owed' \in {<<>>} \cup {<<[found |-> f, name |-> NoName]>> : f \in words}

LEMMA HandleStep ==
    ASSUME TypeInv, Handle
    PROVE  /\ UNCHANGED <<clientVars, typed, down, news, gone>> /\ ~gone
           /\ up # <<>> /\ up' = Tail(up) /\ owed = <<>> /\ Head(up) \in Request
           /\ \/ /\ session' = Head(up).name /\ session' \in Name /\ granted' = TRUE
                 /\ \/ Says["granted"] = "noAnswer" /\ owed' = <<>>
                    \/ owed' = <<[found |-> Says["granted"], name |-> session']>>
              \/ /\ UNCHANGED <<session, granted>>
                 /\ Speaks({"nothing"} \cup {Says[a] : a \in Answer \ {"granted"}})
              \/ /\ UNCHANGED granted /\ session' = NoName /\ Says["loggedOut"] # "noAnswer"
                 /\ owed' = <<[found |-> Says["loggedOut"], name |-> NoName]>>
<1>1. /\ UNCHANGED <<clientVars, typed, down, news>> /\ ~gone
      /\ up # <<>> /\ up' = Tail(up) /\ owed = <<>>
  BY DEF Handle, Serves
<1>2. Head(up) \in Request /\ Named(Head(up))
  <2>1. up \in Seq(Request) /\ \A i \in DOMAIN up : Named(up[i])
    BY DEF TypeInv, TypeOK, Requested
  <2>2. Head(up) = up[1] /\ up[1] \in Request /\ 1 \in DOMAIN up
    BY <1>1, <2>1, TailIs
  <2> QED BY <2>1, <2>2
<1>3. \A x : Append(owed, x) = <<x>>
  BY <1>1
<1> DEFINE m == Head(up)
<1> HIDE DEF m
<1>4. /\ UNCHANGED gone
      /\ \/ /\ m.kind = "login" /\ session' = m.name /\ granted' = TRUE
            /\ owed' = IF Says["granted"] = "noAnswer" THEN <<>>
                       ELSE <<[found |-> Says["granted"], name |-> m.name]>>
         \/ /\ UNCHANGED <<session, granted>>
            /\ \/ owed' = <<>>
               \/ owed' = <<[found |-> "nothing", name |-> NoName]>>
               \/ \E a \in {"refused", "registered", "notRegistered"} :
                     owed' = <<[found |-> Says[a], name |-> NoName]>>
         \/ /\ UNCHANGED granted
            /\ session' = IF Says["loggedOut"] = "noAnswer" THEN session ELSE NoName
            /\ owed' = IF Says["loggedOut"] = "noAnswer" THEN <<>>
                       ELSE <<[found |-> Says["loggedOut"], name |-> NoName]>>
  BY <1>1, <1>3 DEF Handle, Owes, m
<1>5. m.kind = "login" => m.name \in Name
  BY <1>2 DEF Named, m
<1> QED BY <1>1, <1>2, <1>4, <1>5 DEF Speaks, Answer, m

LEMMA NextTypeInv == TypeInv /\ [Next]_vars => TypeInv'
<1> SUFFICES ASSUME TypeInv, [Next]_vars PROVE TypeInv'
  OBVIOUS
<1>0. TypeOK /\ Requested
  BY DEF TypeInv
<1>1. CASE UNCHANGED vars
  BY <1>0, <1>1 DEF vars, clientVars, serverVars, TypeInv, TypeOK, Requested, Named
<1>2. CASE Typing
  BY <1>0, <1>2, TypingStep DEF serverVars, TypeInv, TypeOK, Requested, Named
<1>3. CASE Copy
  BY <1>0, <1>3 DEF Copy, serverVars, TypeInv, TypeOK, Requested, Named, Request
<1>4. CASE Write
  <2>1. up' \in Seq(Request) /\ Len(up') <= Cap /\ \A i \in DOMAIN up' : Named(up'[i])
    <3>1. CASE gone
      BY <1>0, <1>4, <3>1 DEF Write, TypeOK, Requested
    <3>2. CASE ~gone
      <4>1. Len(up) < Cap /\ up' = Append(up, msg)
        BY <1>4, <3>2 DEF Write
      <4>2. Len(up) \in Nat /\ DOMAIN up = 1..Len(up) /\ Cap \in Nat
        BY <1>0, LenProperties, ClientAssumption DEF TypeOK
      <4>3. up \in Seq(Request) /\ msg \in Request /\ Named(msg) /\ \A i \in DOMAIN up : Named(up[i])
        BY <1>0 DEF TypeOK, Requested
      <4> DEFINE l == Append(up, msg)
      <4>4. /\ l \in Seq(Request) /\ Len(l) = Len(up) + 1 /\ DOMAIN l = 1..(Len(up) + 1)
            /\ \A i \in 1..Len(up) : l[i] = up[i]
            /\ l[Len(up) + 1] = msg
        BY <4>3, AppendIs
      <4>5. up' = l
        BY <4>1
      <4> HIDE DEF l
      <4>6. \A i \in DOMAIN l : Named(l[i])
        BY <4>2, <4>3, <4>4
      <4> QED BY <4>1, <4>2, <4>4, <4>5, <4>6
    <3> QED BY <3>1, <3>2
  <2>2. /\ UNCHANGED <<is_authenticated, g_username, rpc, ruser, down, serverVars, typed>>
        /\ ended' \in BOOLEAN /\ mpc' \in {"leave", "prompt"} /\ msg' = NoRequest
    BY <1>0, <1>4 DEF Write, TypeOK
  <2> QED BY <1>0, <2>1, <2>2
          DEF serverVars, TypeInv, TypeOK, Requested, Named, NoRequest, Request, Kind
<1>5. CASE Leave
  BY <1>0, <1>5 DEF Leave, serverVars, TypeInv, TypeOK, Requested, Named
<1>6. CASE Receive
  <2>1. /\ down # <<>> /\ down' = Tail(down) /\ UNCHANGED <<mpc, msg, up, serverVars, typed, g_username, ended>>
    BY <1>6 DEF Receive, Receives
  <2>2. down' \in Seq(Message) /\ Len(down') <= Cap /\ Head(down) \in Message
    <3>1. down \in Seq(Message) /\ Len(down) <= Cap /\ Cap \in Nat
      BY <1>0, ClientAssumption DEF TypeOK
    <3>2. Len(down) \in Nat \ {0} /\ Len(Tail(down)) = Len(down) - 1 /\ Tail(down) \in Seq(Message)
          /\ Head(down) \in Message
      BY <2>1, <3>1, TailIs
    <3> QED BY <2>1, <3>1, <3>2
  <2>3. is_authenticated' \in BOOLEAN /\ rpc' \in {"read", "name", "wipe"} /\ ruser' \in Name \cup {NoName}
    BY <1>0, <1>6, <2>2 DEF Receive, Message, TypeOK
  <2> QED BY <1>0, <2>1, <2>2, <2>3 DEF serverVars, TypeInv, TypeOK, Requested, Named
<1>7. CASE SetName \/ Wipe \/ ReceiveEnd
  <2>1. UNCHANGED <<is_authenticated, mpc, msg, up, down, serverVars, typed>>
    BY <1>7 DEF SetName, Wipe, ReceiveEnd, Receives
  <2>2. /\ g_username' \in Name \cup {NoName, Torn} /\ rpc' \in {"read", "copyName"} \cup {rpc}
        /\ ruser' \in Name \cup {NoName} /\ ended' \in BOOLEAN
    BY <1>0, <1>7 DEF SetName, Wipe, ReceiveEnd, Receives, TypeOK
  <2> QED BY <1>0, <2>1, <2>2 DEF serverVars, TypeInv, TypeOK, Requested, Named
<1>8. CASE Handle
  <2>1. /\ up' \in Seq(Request) /\ Len(up') <= Cap /\ \A i \in DOMAIN up' : Named(up'[i])
    <3>1. up # <<>> /\ up' = Tail(up)
      BY <1>8 DEF Handle
    <3>2. up \in Seq(Request) /\ Len(up) <= Cap /\ Cap \in Nat /\ \A i \in DOMAIN up : Named(up[i])
      BY <1>0, ClientAssumption DEF TypeOK, Requested
    <3> DEFINE l == Tail(up)
    <3>3. /\ l \in Seq(Request) /\ Len(up) \in Nat \ {0} /\ Len(l) = Len(up) - 1
          /\ DOMAIN l = 1..(Len(up) - 1) /\ DOMAIN up = 1..Len(up)
          /\ \A i \in 1..(Len(up) - 1) : l[i] = up[i + 1]
      BY <3>1, <3>2, TailIs
    <3>4. up' = l
      BY <3>1
    <3> HIDE DEF l
    <3>5. Len(l) <= Cap
      BY <3>2, <3>3
    <3>6. ASSUME NEW i \in DOMAIN l PROVE Named(l[i])
      <4>1. i \in 1..(Len(up) - 1) /\ i + 1 \in DOMAIN up
        BY <3>3
      <4> QED BY <3>2, <3>3, <4>1
    <3> QED BY <3>3, <3>4, <3>5, <3>6
  <2>2. owed' \in Seq(Message) /\ session' \in Name \cup {NoName} /\ granted' \in BOOLEAN
    <3>1. \A a \in Answer : Says[a] \in Found
      BY ClientAssumption
    <3>2. \A f \in Found, n \in Name \cup {NoName} : <<[found |-> f, name |-> n]>> \in Seq(Message)
      BY DEF Message
    <3>3. <<>> \in Seq(Message) /\ "nothing" \in Found
      BY DEF Found
    <3>4. session' \in Name \cup {NoName} /\ granted' \in BOOLEAN
      BY <1>0, <1>8, HandleStep DEF TypeOK
    <3>5. owed' \in Seq(Message)
      <4>1. CASE owed' = <<>>
        BY <3>3, <4>1
      <4>2. CASE \E f \in Found, n \in Name \cup {NoName} : owed' = <<[found |-> f, name |-> n]>>
        BY <3>2, <4>2
      <4>3. {"nothing"} \cup {Says[a] : a \in Answer \ {"granted"}} \subseteq Found
        BY <3>1, <3>3
      <4>4. "granted" \in Answer /\ "loggedOut" \in Answer
        BY DEF Answer
      <4> QED BY <1>0, <1>8, <3>1, <4>1, <4>2, <4>3, <4>4, HandleStep DEF Speaks
    <3> QED BY <3>4, <3>5
  <2>3. UNCHANGED <<clientVars, typed, down, news, gone>>
    BY <1>8, HandleStep
  <2> QED BY <1>0, <2>1, <2>2, <2>3 DEF clientVars, TypeInv, TypeOK, Requested, Named
<1>9. CASE ServerWrite
  <2>1. /\ owed # <<>> /\ Len(down) < Cap /\ down' = Append(down, Head(owed)) /\ owed' = Tail(owed)
        /\ UNCHANGED <<clientVars, typed, up, session, granted, gone, news>>
    BY <1>9 DEF ServerWrite, Serves
  <2>2. owed' \in Seq(Message) /\ Head(owed) \in Message
    BY <1>0, <2>1, TailIs DEF TypeOK
  <2>3. down' \in Seq(Message) /\ Len(down') <= Cap
    <3>1. Len(down) \in Nat /\ Cap \in Nat /\ down \in Seq(Message)
      BY <1>0, LenProperties, ClientAssumption DEF TypeOK
    <3>2. Len(down') = Len(down) + 1 /\ down' \in Seq(Message)
      BY <2>1, <2>2, <3>1, AppendIs
    <3> QED BY <2>1, <3>1, <3>2
  <2> QED BY <1>0, <2>1, <2>2, <2>3 DEF clientVars, TypeInv, TypeOK, Requested, Named
<1>10. CASE News \/ Hangup
  <2>1. UNCHANGED <<clientVars, typed, up, down, session, granted>>
    BY <1>10 DEF News, Hangup, Serves
  <2>2. owed' \in Seq(Message) /\ news' \in 0..MaxNews /\ gone' \in BOOLEAN
    <3>1. [found |-> "nothing", name |-> NoName] \in Message
      BY DEF Message, Found
    <3>2. Append(owed, [found |-> "nothing", name |-> NoName]) \in Seq(Message)
      BY <1>0, <3>1, AppendIs DEF TypeOK
    <3>3. news' \in 0..MaxNews /\ gone' \in BOOLEAN
      <4>1. news \in 0..MaxNews /\ MaxNews \in Nat /\ gone \in BOOLEAN
        BY <1>0, ClientAssumption DEF TypeOK
      <4>2. CASE News
        <5>1. news < MaxNews /\ news' = news + 1 /\ gone' = gone
          BY <4>2 DEF News
        <5> QED BY <4>1, <5>1
      <4>3. CASE Hangup
        BY <4>1, <4>3 DEF Hangup
      <4> QED BY <1>10, <4>2, <4>3
    <3>4. owed' \in {owed, Append(owed, [found |-> "nothing", name |-> NoName])}
      BY <1>10 DEF News, Hangup
    <3> QED BY <1>0, <3>2, <3>3, <3>4 DEF TypeOK
  <2> QED BY <1>0, <2>1, <2>2 DEF clientVars, TypeInv, TypeOK, Requested, Named
<1> QED BY <1>1, <1>2, <1>3, <1>4, <1>5, <1>6, <1>7, <1>8, <1>9, <1>10
        DEF Next, Main, Receiver, Server, Typing, Over

(* The variables of client and connection keep their types, and no more
   messages are under way than the connection holds. *)
THEOREM ClientTypes == Spec => []TypeOK
<1>1. TypeInv => TypeOK
  BY DEF TypeInv
<1> QED BY <1>1, InitTypeInv, NextTypeInv, PTL DEF Spec

-----------------------------------------------------------------------------
(* Before the server has accepted a login, it greets nobody, so the client  *)
(* is not authenticated and prepares nothing but registrations and logins.  *)

Early == {"login", "register"}

NoGreeting ==
    ~granted =>
        /\ ~is_authenticated
        /\ \A i \in DOMAIN owed : owed[i].found # "welcome"
        /\ \A i \in DOMAIN down : down[i].found # "welcome"
        /\ mpc # "copy" /\ (mpc = "write" => msg.kind \in Early)
        /\ \A i \in DOMAIN up : up[i].kind \in Early

LEMMA NextNoGreeting ==
    ASSUME TypeInv, NoGreeting, SpeaksClientsWords, [Next]_vars PROVE NoGreeting'
<1> SUFFICES ASSUME ~granted' PROVE NoGreeting'
  BY DEF NoGreeting
<1>0. /\ up \in Seq(Request) /\ down \in Seq(Message) /\ owed \in Seq(Message) /\ msg \in Request
  BY DEF TypeInv, TypeOK
<1>1. ~granted
  <2>1. CASE Handle
    BY <2>1, HandleStep
  <2>2. CASE ~Handle
    BY <2>2 DEF Next, Main, TypeLogin, TypeRegister, TypeOther, TypeExit, Types, Copy, Write, Leave,
       Receiver, Receive, SetName, Wipe, ReceiveEnd, Receives, Server, ServerWrite, News, Hangup,
       Serves, Over, vars, serverVars
  <2> QED BY <2>1, <2>2
<1>2. /\ ~is_authenticated /\ mpc # "copy" /\ (mpc = "write" => msg.kind \in Early)
      /\ \A i \in DOMAIN owed : owed[i].found # "welcome"
      /\ \A i \in DOMAIN down : down[i].found # "welcome"
      /\ \A i \in DOMAIN up : up[i].kind \in Early
  BY <1>1 DEF NoGreeting
<1>3. CASE UNCHANGED vars
  BY <1>2, <1>3 DEF vars, clientVars, serverVars, NoGreeting
<1>4. CASE Typing
  BY <1>2, <1>4, TypingStep DEF serverVars, NoGreeting, Early
<1>5. CASE Copy \/ Leave
  BY <1>2, <1>5 DEF Copy, Leave, serverVars, NoGreeting
<1>6. CASE Write
  <2>1. UNCHANGED <<is_authenticated, down, owed>> /\ mpc' \in {"leave", "prompt"} /\ msg.kind \in Early
    BY <1>2, <1>6 DEF Write, serverVars
  <2>2. \A i \in DOMAIN up' : up'[i].kind \in Early
    <3>1. up' \in {up, Append(up, msg)}
      BY <1>6 DEF Write
    <3> DEFINE l == Append(up, msg)
    <3>2. /\ DOMAIN l = 1..(Len(up) + 1) /\ Len(up) \in Nat /\ DOMAIN up = 1..Len(up)
          /\ \A i \in 1..Len(up) : l[i] = up[i]
          /\ l[Len(up) + 1] = msg
      BY <1>0, AppendIs, LenProperties
    <3>3. up' \in {up, l}
      BY <3>1
    <3> HIDE DEF l
    <3>4. CASE up' = up
      BY <1>2, <3>4
    <3>5. CASE up' = l
      BY <1>2, <2>1, <3>2, <3>5
    <3> QED BY <3>3, <3>4, <3>5
  <2> QED BY <1>2, <2>1, <2>2 DEF NoGreeting
<1>7. CASE Receive
  <2>1. down # <<>> /\ down' = Tail(down) /\ UNCHANGED <<mpc, msg, up, owed>>
    BY <1>7 DEF Receive, Receives, serverVars
  <2> DEFINE l == Tail(down)
  <2>2. /\ DOMAIN l = 1..(Len(down) - 1) /\ DOMAIN down = 1..Len(down) /\ Len(down) \in Nat \ {0}
        /\ \A i \in 1..(Len(down) - 1) : l[i] = down[i + 1]
        /\ Head(down) = down[1]
    BY <1>0, <2>1, TailIs
  <2>3. Head(down).found # "welcome" /\ down' = l
    BY <1>2, <2>1, <2>2
  <2>4. ~is_authenticated'
    BY <1>2, <1>7, <2>3 DEF Receive
  <2> HIDE DEF l
  <2>5. \A i \in DOMAIN down' : down'[i].found # "welcome"
    BY <1>2, <2>2, <2>3
  <2> QED BY <1>2, <2>1, <2>4, <2>5 DEF NoGreeting
<1>8. CASE SetName \/ Wipe \/ ReceiveEnd
  BY <1>2, <1>8 DEF SetName, Wipe, ReceiveEnd, Receives, serverVars, NoGreeting
<1>9. CASE Handle
  <2>1. /\ UNCHANGED <<clientVars, down>> /\ up # <<>> /\ up' = Tail(up)
        /\ Speaks({"nothing"} \cup {Says[a] : a \in Answer \ {"granted"}})
    <3>1. Says["loggedOut"] \in {Says[a] : a \in Answer \ {"granted"}}
      BY DEF Answer
    <3> QED BY <1>9, <3>1, HandleStep DEF Speaks
  <2>2. \A i \in DOMAIN owed' : owed'[i].found # "welcome"
    <3>1. CASE owed' = <<>>
      BY <3>1
    <3>2. CASE owed' # <<>>
      <4>1. PICK f : owed' = <<[found |-> f, name |-> NoName]>> /\ f # "welcome"
        BY <2>1, <3>2 DEF Speaks, SpeaksClientsWords
      <4> QED BY <4>1
    <3> QED BY <3>1, <3>2
  <2> DEFINE l == Tail(up)
  <2>3. /\ DOMAIN l = 1..(Len(up) - 1) /\ DOMAIN up = 1..Len(up) /\ Len(up) \in Nat \ {0}
        /\ \A i \in 1..(Len(up) - 1) : l[i] = up[i + 1]
    BY <1>0, <2>1, TailIs
  <2>4. up' = l
    BY <2>1
  <2> HIDE DEF l
  <2>5. \A i \in DOMAIN up' : up'[i].kind \in Early
    BY <1>2, <2>3, <2>4
  <2> QED BY <1>2, <2>1, <2>2, <2>5 DEF clientVars, NoGreeting
<1>10. CASE ServerWrite
  <2>1. /\ owed # <<>> /\ down' = Append(down, Head(owed)) /\ owed' = Tail(owed) /\ UNCHANGED <<clientVars, up>>
    BY <1>10 DEF ServerWrite, Serves
  <2> DEFINE l == Tail(owed)  k == Append(down, owed[1])
  <2>2. /\ DOMAIN l = 1..(Len(owed) - 1) /\ DOMAIN owed = 1..Len(owed) /\ Len(owed) \in Nat \ {0}
        /\ \A i \in 1..(Len(owed) - 1) : l[i] = owed[i + 1]
        /\ Head(owed) = owed[1] /\ owed[1] \in Message
    BY <1>0, <2>1, TailIs
  <2>3. /\ DOMAIN k = 1..(Len(down) + 1) /\ DOMAIN down = 1..Len(down) /\ Len(down) \in Nat
        /\ \A i \in 1..Len(down) : k[i] = down[i]
        /\ k[Len(down) + 1] = owed[1]
    BY <1>0, <2>2, AppendIs, LenProperties
  <2>4. owed' = l /\ down' = k
    BY <2>1, <2>2
  <2> HIDE DEF l, k
  <2>5. \A i \in DOMAIN owed' : owed'[i].found # "welcome"
    BY <1>2, <2>2, <2>4
  <2>6. \A i \in DOMAIN down' : down'[i].found # "welcome"
    BY <1>2, <2>2, <2>3, <2>4
  <2> QED BY <1>2, <2>1, <2>5, <2>6 DEF clientVars, NoGreeting
<1>11. CASE News \/ Hangup
  <2>1. UNCHANGED <<clientVars, up, down>> /\ owed' \in {owed, Append(owed, [found |-> "nothing", name |-> NoName])}
    BY <1>11 DEF News, Hangup, Serves
  <2> DEFINE x == [found |-> "nothing", name |-> NoName]  l == Append(owed, x)
  <2>2. x \in Message /\ x.found # "welcome"
    BY DEF Message, Found
  <2> HIDE DEF x
  <2>3. /\ DOMAIN l = 1..(Len(owed) + 1) /\ DOMAIN owed = 1..Len(owed) /\ Len(owed) \in Nat
        /\ \A i \in 1..Len(owed) : l[i] = owed[i]
        /\ l[Len(owed) + 1] = x
    BY <1>0, <2>2, AppendIs, LenProperties
  <2>4. owed' \in {owed, l}
    BY <2>1 DEF x
  <2> HIDE DEF l
  <2>5. \A i \in DOMAIN owed' : owed'[i].found # "welcome"
    <3>1. CASE owed' = owed
      BY <1>2, <3>1
    <3>2. CASE owed' = l
      BY <1>2, <2>2, <2>3, <3>2
    <3> QED BY <2>4, <3>1, <3>2
  <2> QED BY <1>2, <2>1, <2>5 DEF clientVars, NoGreeting
<1> QED BY <1>3, <1>4, <1>5, <1>6, <1>7, <1>8, <1>9, <1>10, <1>11
        DEF Next, Main, Receiver, Server, Typing, Over

(* Against a server that greets only whom it lets in, the client prepares and
   sends no chat, list, logout or good-bye before a login was accepted. *)
THEOREM NothingIsSentBeforeLogin ==
    SpeaksClientsWords /\ Spec => []NothingBeforeLogin
<1> DEFINE I == SpeaksClientsWords /\ TypeInv /\ NoGreeting
<1>1. SpeaksClientsWords /\ Init => I
  BY InitTypeInv DEF Init, NoGreeting
<1>2. I /\ [Next]_vars => I'
  BY NextTypeInv, NextNoGreeting DEF SpeaksClientsWords
<1>3. I => NothingBeforeLogin
  BY DEF NoGreeting, NothingBeforeLogin, Early
<1> QED BY <1>1, <1>2, <1>3, PTL DEF Spec

-----------------------------------------------------------------------------
(* What the client will believe when all that is under way has come, given  *)
(* what the server holds.                                                   *)

Effective(m) == m.found \in {"welcome", "failed", "bye"}
Calm(s) == \A i \in DOMAIN s : ~Effective(s[i])

(* The last message of s that has an effect, if it greets, greets the account
   that is logged in. *)
EndsRight(s) ==
    \A i \in DOMAIN s :
        s[i].found = "welcome" /\ (\A j \in DOMAIN s : j > i => ~Effective(s[j]))
          => s[i].name = session

Greetings(s) == \A i \in DOMAIN s : s[i].found = "welcome" => s[i].name \in Name

(* What the client believes once the thread that receives has done with the
   message in hand. *)
Settled ==
    /\ rpc = "read" /\ is_authenticated => g_username = session
    /\ rpc \in {"name", "copyName"} => ruser = session
    /\ rpc = "wipe" => ~is_authenticated

Belief ==
    /\ Greetings(owed) /\ Greetings(down)
    /\ EndsRight(owed)
    /\ Calm(owed) => EndsRight(down)
    /\ Calm(owed) /\ Calm(down) => Settled

LEMMA BeliefFrame ==
    ASSUME Belief, UNCHANGED <<owed, down, session>>, Settled => Settled'
    PROVE  Belief'
BY DEF Belief, Greetings, EndsRight, Calm

LEMMA ReceiveBelief ==
    ASSUME TypeInv, Belief, Receive PROVE Belief'
<1>1. /\ down # <<>> /\ down' = Tail(down) /\ rpc = "read" /\ UNCHANGED <<owed, session, g_username>>
  BY DEF Receive, Receives, serverVars
<1> DEFINE l == Tail(down)  m == down[1]
<1>2. /\ DOMAIN l = 1..(Len(down) - 1) /\ DOMAIN down = 1..Len(down) /\ Len(down) \in Nat \ {0}
      /\ \A i \in 1..(Len(down) - 1) : l[i] = down[i + 1]
      /\ Head(down) = m
  BY <1>1, TailIs DEF TypeInv, TypeOK
<1>3. down' = l
  BY <1>1
<1>4. Greetings(down)
  BY DEF Belief
<1> HIDE DEF l
<1>5. Greetings(down)'
  BY <1>2, <1>3, <1>4 DEF Greetings
<1>6. Calm(owed) => EndsRight(down)'
  <2> SUFFICES ASSUME Calm(owed), NEW i \in DOMAIN l, l[i].found = "welcome",
                      \A j \in DOMAIN l : j > i => ~Effective(l[j])
               PROVE  l[i].name = session
    BY <1>1, <1>3 DEF EndsRight
  <2>1. i + 1 \in DOMAIN down /\ down[i + 1] = l[i]
    BY <1>2
  <2>2. ASSUME NEW j \in DOMAIN down, j > i + 1 PROVE ~Effective(down[j])
    <3>1. j - 1 \in DOMAIN l /\ j - 1 > i /\ down[(j - 1) + 1] = l[j - 1] /\ (j - 1) + 1 = j
      BY <1>2, <2>2
    <3> QED BY <3>1
  <2> QED BY <2>1, <2>2 DEF Belief, EndsRight
<1>7. ASSUME Calm(owed), Calm(l) PROVE Settled'
  <2>1. \A j \in DOMAIN down : j > 1 => ~Effective(down[j])
    <3> SUFFICES ASSUME NEW j \in DOMAIN down, j > 1 PROVE ~Effective(down[j])
      OBVIOUS
    <3>1. j - 1 \in DOMAIN l /\ down[(j - 1) + 1] = l[j - 1] /\ (j - 1) + 1 = j
      BY <1>2
    <3> QED BY <1>7, <3>1 DEF Calm
  <2>2. 1 \in DOMAIN down
    BY <1>2
  <2>3. CASE m.found = "welcome"
    <3>1. m.name = session /\ m.name \in Name
      BY <1>4, <1>7, <2>1, <2>2, <2>3 DEF Belief, EndsRight, Greetings
    <3>2. rpc' = "name" /\ ruser' = m.name
      BY <1>2, <2>3, <3>1, ClientAssumption DEF Receive
    <3> QED BY <1>1, <3>1, <3>2 DEF Settled
  <2>4. CASE m.found \in {"failed", "bye"}
    <3>1. rpc' = "wipe" /\ ~is_authenticated'
      BY <1>2, <2>4 DEF Receive
    <3> QED BY <3>1 DEF Settled
  <2>5. CASE ~Effective(m)
    <3>1. Calm(down)
      <4> SUFFICES ASSUME NEW j \in DOMAIN down PROVE ~Effective(down[j])
        BY DEF Calm
      <4>1. j = 1 \/ j > 1
        BY <1>2
      <4> QED BY <2>1, <2>5, <4>1
    <3>2. UNCHANGED <<is_authenticated, rpc, ruser>>
      BY <1>2, <2>5 DEF Receive, Effective
    <3> QED BY <1>1, <1>7, <3>1, <3>2 DEF Belief, Settled
  <2> QED BY <2>3, <2>4, <2>5 DEF Effective
<1> QED BY <1>1, <1>3, <1>5, <1>6, <1>7 DEF Belief, Greetings, EndsRight, Calm

LEMMA ServerWriteBelief ==
    ASSUME TypeInv, Belief, ServerWrite PROVE Belief'
<1>1. /\ owed # <<>> /\ down' = Append(down, Head(owed)) /\ owed' = Tail(owed)
      /\ UNCHANGED <<clientVars, session>>
  BY DEF ServerWrite, Serves
<1> DEFINE l == Tail(owed)  k == Append(down, owed[1])  x == owed[1]
<1>2. /\ DOMAIN l = 1..(Len(owed) - 1) /\ DOMAIN owed = 1..Len(owed) /\ Len(owed) \in Nat \ {0}
      /\ \A i \in 1..(Len(owed) - 1) : l[i] = owed[i + 1]
      /\ Head(owed) = x /\ x \in Message
  BY <1>1, TailIs DEF TypeInv, TypeOK
<1>3. /\ DOMAIN k = 1..(Len(down) + 1) /\ DOMAIN down = 1..Len(down) /\ Len(down) \in Nat
      /\ \A i \in 1..Len(down) : k[i] = down[i]
      /\ k[Len(down) + 1] = x
  BY <1>2, AppendIs, LenProperties DEF TypeInv, TypeOK
<1>4. owed' = l /\ down' = k
  BY <1>1, <1>2
<1> HIDE DEF l, k, x
<1>5. x = owed[1] /\ 1 \in DOMAIN owed
  BY <1>2 DEF x
<1>6. Greetings(l) /\ Greetings(k)
  <2>0. /\ \A i \in DOMAIN owed : owed[i].found = "welcome" => owed[i].name \in Name
        /\ \A i \in DOMAIN down : down[i].found = "welcome" => down[i].name \in Name
    BY DEF Belief, Greetings
  <2>1. Greetings(l)
    BY <1>2, <2>0 DEF Greetings
  <2>2. ASSUME NEW i \in DOMAIN k, k[i].found = "welcome" PROVE k[i].name \in Name
    <3>1. i \in DOMAIN down \/ i = Len(down) + 1
      BY <1>3
    <3>2. CASE i \in DOMAIN down
      BY <1>3, <2>0, <2>2, <3>2
    <3>3. CASE i = Len(down) + 1
      BY <1>3, <1>5, <2>0, <2>2, <3>3
    <3> QED BY <3>1, <3>2, <3>3
  <2> QED BY <2>1, <2>2 DEF Greetings
<1>7. EndsRight(l)
  <2> SUFFICES ASSUME NEW i \in DOMAIN l, l[i].found = "welcome",
                      \A j \in DOMAIN l : j > i => ~Effective(l[j])
               PROVE  l[i].name = session
    BY DEF EndsRight
  <2>1. i + 1 \in DOMAIN owed /\ owed[i + 1] = l[i]
    BY <1>2
  <2>2. ASSUME NEW j \in DOMAIN owed, j > i + 1 PROVE ~Effective(owed[j])
    <3>1. j - 1 \in DOMAIN l /\ j - 1 > i /\ owed[(j - 1) + 1] = l[j - 1] /\ (j - 1) + 1 = j
      BY <1>2, <2>2
    <3> QED BY <3>1
  <2> QED BY <2>1, <2>2 DEF Belief, EndsRight
<1>8. Calm(l) /\ ~Effective(x) => Calm(owed)
  <2> SUFFICES ASSUME Calm(l), ~Effective(x), NEW j \in DOMAIN owed PROVE ~Effective(owed[j])
    BY DEF Calm
  <2>1. CASE j = 1
    BY <1>5, <2>1
  <2>2. CASE j # 1
    <3>1. j - 1 \in DOMAIN l /\ owed[(j - 1) + 1] = l[j - 1] /\ (j - 1) + 1 = j
      BY <1>2, <2>2
    <3> QED BY <3>1 DEF Calm
  <2> QED BY <2>1, <2>2
<1>9. Calm(l) => EndsRight(k)
  <2> SUFFICES ASSUME Calm(l), NEW i \in DOMAIN k, k[i].found = "welcome",
                      \A j \in DOMAIN k : j > i => ~Effective(k[j])
               PROVE  k[i].name = session
    BY DEF EndsRight
  <2>1. CASE i = Len(down) + 1
    <3>1. \A j \in DOMAIN owed : j > 1 => ~Effective(owed[j])
      <4> SUFFICES ASSUME NEW j \in DOMAIN owed, j > 1 PROVE ~Effective(owed[j])
        OBVIOUS
      <4>1. j - 1 \in DOMAIN l /\ owed[(j - 1) + 1] = l[j - 1] /\ (j - 1) + 1 = j
        BY <1>2
      <4> QED BY <4>1 DEF Calm
    <3> QED BY <1>3, <1>5, <2>1, <3>1 DEF Belief, EndsRight
  <2>2. CASE i # Len(down) + 1
    <3>1. i \in DOMAIN down /\ k[i] = down[i] /\ Len(down) + 1 > i /\ Len(down) + 1 \in DOMAIN k
      BY <1>3, <2>2
    <3>2. ~Effective(x)
      BY <1>3, <3>1
    <3>3. EndsRight(down)
      BY <1>8, <3>2 DEF Belief
    <3>4. \A j \in DOMAIN down : j > i => ~Effective(down[j])
      BY <1>3
    <3> QED BY <3>1, <3>3, <3>4 DEF EndsRight
  <2> QED BY <2>1, <2>2
<1>10. Calm(l) /\ Calm(k) => Settled
  <2>1. Calm(k) => Calm(down) /\ ~Effective(x)
    BY <1>3 DEF Calm
  <2> QED BY <1>8, <2>1 DEF Belief
<1>11. Settled => Settled'
  BY <1>1 DEF Settled, clientVars
<1> QED BY <1>1, <1>4, <1>6, <1>7, <1>9, <1>10, <1>11 DEF Belief, Greetings, EndsRight, Calm

LEMMA HandleBelief ==
    ASSUME TypeInv, Belief, SpeaksClientsWords, Handle PROVE Belief'
<1>1. UNCHANGED <<clientVars, down>> /\ owed = <<>>
  BY HandleStep
<1>2. Calm(owed) /\ EndsRight(down) /\ Greetings(down) /\ (Calm(down) => Settled)
  BY <1>1 DEF Belief, Calm
<1>3. CASE session' \in Name /\ owed' = <<[found |-> "welcome", name |-> session']>>
  BY <1>1, <1>2, <1>3 DEF Belief, Greetings, EndsRight, Calm, Effective
<1>4. CASE session' = session /\ Speaks({"nothing"} \cup {Says[a] : a \in Answer \ {"granted"}})
  <2>1. /\ Greetings(owed)' /\ EndsRight(owed)'
    <3>1. CASE owed' = <<>>
      BY <3>1 DEF Greetings, EndsRight
    <3>2. CASE owed' # <<>>
      <4>1. PICK f : owed' = <<[found |-> f, name |-> NoName]>> /\ f # "welcome"
        BY <1>4, <3>2 DEF Speaks, SpeaksClientsWords
      <4> QED BY <4>1 DEF Greetings, EndsRight
    <3> QED BY <3>1, <3>2
  <2>2. /\ Greetings(down)' /\ EndsRight(down)' /\ (Calm(down)' => Settled')
    BY <1>1, <1>2, <1>4 DEF Greetings, EndsRight, Calm, Settled, clientVars
  <2> QED BY <2>1, <2>2 DEF Belief
<1>5. CASE owed' = <<[found |-> Says["loggedOut"], name |-> NoName]>> /\ Says["loggedOut"] # "noAnswer"
  <2>1. Says["loggedOut"] \in {"failed", "bye"}
    BY <1>5 DEF SpeaksClientsWords
  <2>2. /\ Greetings(owed)' /\ EndsRight(owed)' /\ ~Calm(owed)'
    BY <1>5, <2>1 DEF Greetings, EndsRight, Calm, Effective
  <2>3. Greetings(down)'
    BY <1>1, <1>2 DEF Greetings
  <2> QED BY <2>2, <2>3 DEF Belief
<1> QED BY <1>3, <1>4, <1>5, HandleStep DEF SpeaksClientsWords

LEMMA NewsBelief ==
    ASSUME TypeInv, Belief, News PROVE Belief'
<1>1. /\ owed' = Append(owed, [found |-> "nothing", name |-> NoName])
      /\ UNCHANGED <<clientVars, down, session>>
  BY DEF News, Serves
<1> DEFINE x == [found |-> "nothing", name |-> NoName]  l == Append(owed, x)
<1>2. x \in Message /\ ~Effective(x) /\ x.found # "welcome"
  BY DEF Message, Found, Effective
<1> HIDE DEF x
<1>3. /\ DOMAIN l = 1..(Len(owed) + 1) /\ DOMAIN owed = 1..Len(owed) /\ Len(owed) \in Nat
      /\ \A i \in 1..Len(owed) : l[i] = owed[i]
      /\ l[Len(owed) + 1] = x
  BY <1>2, AppendIs, LenProperties DEF TypeInv, TypeOK
<1>4. owed' = l
  BY <1>1 DEF x
<1> HIDE DEF l
<1>5. \A i \in DOMAIN l : i \in DOMAIN owed \/ (l[i].found # "welcome" /\ ~Effective(l[i]))
  BY <1>2, <1>3
<1>6. Greetings(l) /\ EndsRight(l)
  <2>1. ASSUME NEW i \in DOMAIN l, l[i].found = "welcome"
        PROVE  i \in DOMAIN owed /\ l[i] = owed[i]
    BY <1>3, <1>5, <2>1
  <2>2. Greetings(l)
    BY <2>1 DEF Belief, Greetings
  <2>3. ASSUME NEW i \in DOMAIN l, l[i].found = "welcome",
               \A j \in DOMAIN l : j > i => ~Effective(l[j])
        PROVE  l[i].name = session
    <3>1. i \in DOMAIN owed /\ l[i] = owed[i]
      BY <2>1, <2>3
    <3>2. \A j \in DOMAIN owed : j \in DOMAIN l /\ l[j] = owed[j]
      BY <1>3
    <3>3. \A j \in DOMAIN owed : j > i => ~Effective(owed[j])
      BY <2>3, <3>2
    <3> QED BY <2>3, <3>1, <3>3 DEF Belief, EndsRight
  <2> QED BY <2>2, <2>3 DEF EndsRight
<1>7. Calm(l) => Calm(owed)
  BY <1>3 DEF Calm
<1>8. Settled => Settled'
  BY <1>1 DEF Settled, clientVars
<1> QED BY <1>1, <1>4, <1>6, <1>7, <1>8 DEF Belief, Greetings, EndsRight, Calm

LEMMA NextBelief ==
    ASSUME TypeInv, Belief, SpeaksClientsWords, [Next]_vars PROVE Belief'
<1>1. CASE Typing
  <2>1. UNCHANGED <<is_authenticated, g_username, rpc, ruser, owed, down, session>>
    BY <1>1, TypingStep DEF serverVars
  <2> QED BY <2>1, BeliefFrame DEF Settled
<1>2. CASE Copy \/ Write \/ Leave \/ Hangup \/ UNCHANGED vars
  <2>1. UNCHANGED <<is_authenticated, g_username, rpc, ruser, owed, down, session>>
    BY <1>2 DEF Copy, Write, Leave, Hangup, Serves, serverVars, clientVars, vars
  <2> QED BY <2>1, BeliefFrame DEF Settled
<1>3. CASE SetName \/ Wipe \/ ReceiveEnd
  <2>1. UNCHANGED <<owed, down, session, is_authenticated>>
    BY <1>3 DEF SetName, Wipe, ReceiveEnd, Receives, serverVars
  <2>2. Settled => Settled'
    BY <1>3, <2>1 DEF SetName, Wipe, ReceiveEnd, Settled
  <2> QED BY <2>1, <2>2, BeliefFrame
<1> QED BY <1>1, <1>2, <1>3, ReceiveBelief, ServerWriteBelief, HandleBelief, NewsBelief
        DEF Next, Main, Receiver, Server, Typing, Over

(* Against a server that speaks the client's words, a client that takes itself
   for logged in when nothing is under way is logged in, under the name it
   shows: for any commands, at any time, and any number of logins whose answers
   cross. *)
THEOREM ClientBelievesTheServer ==
    SpeaksClientsWords /\ Spec => []BelievesTheServer
<1> DEFINE I == SpeaksClientsWords /\ TypeInv /\ Belief
<1>1. SpeaksClientsWords /\ Init => I
  <2>1. Init => owed = <<>> /\ down = <<>> /\ Settled
    BY DEF Init, Settled
  <2>2. Init => Belief
    BY <2>1 DEF Belief, Greetings, EndsRight
  <2> QED BY <2>2, InitTypeInv
<1>2. I /\ [Next]_vars => I'
  BY NextTypeInv, NextBelief DEF SpeaksClientsWords
<1>3. I => BelievesTheServer
  BY DEF Belief, BelievesTheServer, Quiet, Settled, Calm
<1> QED BY <1>1, <1>2, <1>3, PTL DEF Spec
=============================================================================
