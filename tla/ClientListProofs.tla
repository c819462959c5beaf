-------------------------- MODULE ClientListProofs --------------------------
(***************************************************************************)
(* Theorems about ClientList, for any threads, memory slots and calls.     *)
(***************************************************************************)
EXTENDS ClientList, TLAPS, SequenceTheorems, FiniteSetTheorems

-----------------------------------------------------------------------------
(* The inductive invariant.                                                *)

Critical == {"loop", "free", "link", "publish", "unlock", "relock"}
Removers == {"remove", "removeName", "cleanup"}

(* Who holds the mutex, and what a thread may be doing in which call. *)
Holder == \A t \in Thread : pc[t] \in Critical <=> mutex = t

CallsFit ==
    \A t \in Thread :
        /\ call[t] = Null <=> pc[t] \in {"idle", "exited"}
        /\ call[t] # Null => (Op(t) = "walk" <=> pc[t] \in {"start", "visit", "next"})
        /\ pc[t] \in {"link", "publish"} => Op(t) = "add"
        /\ pc[t] = "free" => Op(t) \in Removers

(* The locals of a thread that does not hold the mutex. *)
Fresh ==
    \A t \in Thread : pc[t] \notin Critical => prev[t] = Null /\ count[t] = 0

(* clear_client_list runs alone, and nothing runs after it. *)
Alone ==
    \A t \in Thread : pc[t] = "exited" \/ (call[t] # Null /\ Op(t) = "clear") =>
        \A u \in Thread \ {t} : call[u] = Null

(* The k-th node, and what holds of a thread that has come there. *)
Elem(k) == IF k \in DOMAIN list THEN list[k] ELSE Null

Before(t, k) ==
    /\ k \in 1..(Len(list) + 1)
    /\ prev[t] = Elem(k - 1)
    /\ \A i \in 1..(k - 1) : ~Meets(call[t], mem[list[i]])

PositionOf(t) ==
    pc[t] = "loop" =>
        IF Op(t) = "clear" THEN cur[t] = First
        ELSE \E k \in 1..(Len(list) + 1) : Before(t, k) /\ cur[t] = Elem(k)

(* The node that is put in, or was taken out, is in no list. *)
NotInList(s) ==
    /\ s \in alloc \ Linked
    /\ \A u \in Linked : mem[u].fd # mem[s].fd

ApartOf(t) ==
    /\ pc[t] = "link" => NotInList(cur[t]) /\ mem[cur[t]].fd = call[t].fd
    /\ pc[t] = "publish" => NotInList(cur[t]) /\ mem[cur[t]].next = head
    /\ pc[t] = "free" =>
         /\ NotInList(cur[t])
         /\ Op(t) = "cleanup" =>
              \E k \in 1..(Len(list) + 1) : Before(t, k) /\ mem[cur[t]].next = Elem(k)

ClearedOf(t) == pc[t] = "unlock" /\ Op(t) = "clear" => list = <<>> /\ head = Null

Places == \A t \in Thread : PositionOf(t) /\ ApartOf(t) /\ ClearedOf(t)

FdsDiffer == \A s, u \in Linked : s # u => mem[s].fd # mem[u].fd

(* Members that a walk has to meet yet are members; and only a walk has some. *)
DueAreMembers ==
    \A t \in Thread :
        /\ due[t] \subseteq Members
        /\ pc[t] \notin {"visit", "next"} => due[t] = {}
        /\ pc[t] = "next" => cur[t] # Null

(* cov[s] holds nodes of the list that whoever stands on s, in the list or
   taken out of it, meets on the way to the end. *)
Covers(cov, s) == IF s = Null THEN {} ELSE cov[s]

IsCover(cov) ==
    /\ \A s \in Slot : /\ cov[s] \subseteq Linked
                       /\ cov[s] \subseteq {s} \cup Covers(cov, mem[s].next)
    /\ ~Clearing => Linked \subseteq Covers(cov, head)
    /\ \A t \in Thread :
         /\ pc[t] = "visit" => due[t] \subseteq Covers(cov, cur[t])
         /\ pc[t] = "next" => due[t] \subseteq Covers(cov, mem[cur[t]].next)

Covered == \E cov \in [Slot -> SUBSET Slot] : IsCover(cov)

Inv ==
    /\ TypeOK /\ ListShape /\ FdsDiffer
    /\ Holder /\ CallsFit /\ Fresh /\ Alone
    /\ Places
    /\ DueAreMembers /\ Covered

-----------------------------------------------------------------------------
(* Facts about the list.                                                   *)

LEMMA ListFacts ==
    ASSUME TypeOK
    PROVE  /\ Len(list) \in Nat /\ DOMAIN list = 1..Len(list)
           /\ \A i \in DOMAIN list : list[i] \in Slot /\ list[i] \in Linked /\ list[i] # Null
           /\ \A s \in Linked : s \in Slot /\ s # Null /\ \E i \in DOMAIN list : s = list[i]
           /\ \A k : Elem(k) \in Slot \cup {Null}
           /\ \A k : Elem(k) = Null <=> k \notin DOMAIN list
           /\ \A k \in DOMAIN list : Elem(k) = list[k]
           /\ \A i \in DOMAIN list : Succ(i) = Elem(i + 1)
           /\ First = Elem(1)
           /\ Null \notin Slot
<1>1. Len(list) \in Nat /\ DOMAIN list = 1..Len(list)
  BY LenProperties DEF TypeOK
<1>2. \A i \in DOMAIN list : list[i] \in Slot
  BY <1>1, ElementOfSeq DEF TypeOK
<1>3. Null \notin Slot
  BY ClientListAssumption
<1>4. Linked = {list[i] : i \in DOMAIN list}
  BY DEF Linked, ToSet
<1>5. \A i \in DOMAIN list : Succ(i) = Elem(i + 1)
  BY <1>1 DEF Succ, Elem
<1>6. First = Elem(1)
  BY <1>1, EmptySeq DEF First, Elem, TypeOK
<1> QED BY <1>1, <1>2, <1>3, <1>4, <1>5, <1>6 DEF Elem

(* A sequence without its i-th element. *)
LEMMA RemoveAtIs ==
    ASSUME NEW S, NEW s \in Seq(S), NEW i \in 1..Len(s)
    PROVE  /\ RemoveAt(s, i) \in Seq(S)
           /\ Len(RemoveAt(s, i)) = Len(s) - 1
           /\ \A j \in 1..(Len(s) - 1) :
                RemoveAt(s, i)[j] = IF j < i THEN s[j] ELSE s[j + 1]
<1> DEFINE a == SubSeq(s, 1, i - 1)
           b == SubSeq(s, i + 1, Len(s))
<1>1. \A j \in 1..Len(s) : s[j] \in S
  BY ElementOfSeq
<1>2. a \in Seq(S) /\ Len(a) = i - 1 /\ \A j \in 1..(i - 1) : a[j] = s[j]
  BY <1>1, SubSeqProperties, LenProperties
<1>3. b \in Seq(S) /\ Len(b) = Len(s) - i /\ \A j \in 1..(Len(s) - i) : b[j] = s[i + j]
  BY <1>1, SubSeqProperties, LenProperties
<1>4. RemoveAt(s, i) = a \o b
  BY DEF RemoveAt
<1> HIDE DEF a, b
<1>5. Len(s) \in Nat
  BY LenProperties
<1>6. /\ a \o b \in Seq(S)
      /\ Len(a \o b) = Len(a) + Len(b)
      /\ \A j \in 1..(Len(a) + Len(b)) : (a \o b)[j] = IF j <= Len(a) THEN a[j] ELSE b[j - Len(a)]
  BY <1>2, <1>3, ConcatProperties
<1>7. \A j \in 1..(Len(s) - 1) : (a \o b)[j] = IF j < i THEN s[j] ELSE s[j + 1]
  <2> TAKE j \in 1..(Len(s) - 1)
  <2>1. CASE j < i
    BY <1>2, <1>3, <1>5, <1>6, <2>1
  <2>2. CASE ~ (j < i)
    <3>1. j - (i - 1) \in 1..(Len(s) - i) /\ i + (j - (i - 1)) = j + 1
      BY <1>5, <2>2
    <3>2. (a \o b)[j] = b[j - (i - 1)]
      BY <1>2, <1>3, <1>5, <1>6, <2>2
    <3>3. b[j - (i - 1)] = s[i + (j - (i - 1))]
      BY <1>3, <3>1
    <3> QED BY <2>2, <3>1, <3>2, <3>3
  <2> QED BY <2>1, <2>2
<1> QED BY <1>2, <1>3, <1>4, <1>5, <1>6, <1>7

(* What is in a sequence when an element is taken out, or put before it. *)
LEMMA FirstTakenOut ==
    ASSUME NEW S, NEW s \in Seq(S), 1 \in 1..Len(s), NEW l \in Seq(S),
           \A m, n \in DOMAIN s : m # n => s[m] # s[n],
           Len(l) = Len(s) - 1,
           \A j \in 1..(Len(s) - 1) : l[j] = s[j + 1]
    PROVE  /\ DOMAIN l = 1..(Len(s) - 1)
           /\ ToSet(l) = ToSet(s) \ {s[1]}
<1>1. Len(s) \in Nat /\ DOMAIN s = 1..Len(s) /\ DOMAIN l = 1..(Len(s) - 1)
  BY LenProperties
<1>2. \A j \in DOMAIN l : j + 1 \in DOMAIN s /\ j + 1 # 1 /\ l[j] = s[j + 1]
  BY <1>1
<1>3. \A m \in DOMAIN s : m # 1 => m - 1 \in DOMAIN l /\ l[m - 1] = s[m]
  BY <1>1
<1>4. ToSet(l) \subseteq ToSet(s) \ {s[1]}
  BY <1>1, <1>2 DEF ToSet
<1>5. ToSet(s) \ {s[1]} \subseteq ToSet(l)
  BY <1>1, <1>3 DEF ToSet
<1> QED BY <1>1, <1>4, <1>5

LEMMA PutBefore ==
    ASSUME NEW S, NEW s \in Seq(S), NEW x \in S, NEW l \in Seq(S),
           Len(l) = Len(s) + 1,
           \A j \in 1..(Len(s) + 1) : l[j] = IF j = 1 THEN x ELSE s[j - 1]
    PROVE  /\ DOMAIN l = 1..(Len(s) + 1)
           /\ ToSet(l) = ToSet(s) \cup {x}
<1>1. Len(s) \in Nat /\ DOMAIN s = 1..Len(s) /\ DOMAIN l = 1..(Len(s) + 1)
  BY LenProperties
<1>2. \A m \in DOMAIN s : m + 1 \in DOMAIN l /\ l[m + 1] = s[m]
  BY <1>1
<1>3. 1 \in DOMAIN l /\ l[1] = x
  BY <1>1
<1>4. \A j \in DOMAIN l : j = 1 \/ (j - 1 \in DOMAIN s /\ l[j] = s[j - 1])
  BY <1>1
<1>5. ToSet(l) \subseteq ToSet(s) \cup {x}
  BY <1>1, <1>3, <1>4 DEF ToSet
<1>6. ToSet(s) \subseteq ToSet(l)
  BY <1>1, <1>2 DEF ToSet
<1>7. x \in ToSet(l)
  BY <1>1, <1>3 DEF ToSet
<1> QED BY <1>1, <1>5, <1>6, <1>7

(* The list when its k-th node has been taken out. *)
LEMMA WithoutIs ==
    ASSUME TypeOK, ListShape, NEW k \in DOMAIN list, list' = Without(list[k])
    PROVE  /\ list' \in Seq(Slot) /\ Len(list') = Len(list) - 1
           /\ DOMAIN list' = 1..(Len(list) - 1)
           /\ \A j \in 1..(Len(list) - 1) :
                list'[j] = IF j < k THEN list[j] ELSE list[j + 1]
           /\ Linked' = Linked \ {list[k]}
<1>1. Len(list) \in Nat /\ DOMAIN list = 1..Len(list) /\ list \in Seq(Slot)
  BY ListFacts DEF TypeOK
<1>2. (CHOOSE i \in DOMAIN list : list[i] = list[k]) = k
  BY DEF ListShape
<1> DEFINE l == RemoveAt(list, k)
<1>3. list' = l
  BY <1>2 DEF Without
<1>4. /\ l \in Seq(Slot) /\ Len(l) = Len(list) - 1
      /\ \A j \in 1..(Len(list) - 1) : l[j] = IF j < k THEN list[j] ELSE list[j + 1]
  BY <1>1, RemoveAtIs
<1> HIDE DEF l
<1>5. DOMAIN l = 1..(Len(list) - 1) /\ ToSet(l) = ToSet(list) \ {list[k]}
  <2>1. Len(list) \in Nat /\ DOMAIN list = 1..Len(list) /\ DOMAIN l = 1..(Len(list) - 1)
    BY <1>1, <1>4, LenProperties
  <2>2. \A j \in DOMAIN l : \E m \in DOMAIN list : m # k /\ l[j] = list[m]
    <3> TAKE j \in DOMAIN l
    <3>1. CASE j < k
      <4>1. j \in DOMAIN list /\ j # k /\ l[j] = list[j]
        BY <1>4, <2>1, <3>1
      <4> QED BY <4>1
    <3>2. CASE ~(j < k)
      <4>1. j + 1 \in DOMAIN list /\ j + 1 # k /\ l[j] = list[j + 1]
        BY <1>4, <2>1, <3>2
      <4> QED BY <4>1
    <3> QED BY <3>1, <3>2
  <2>3. \A m \in DOMAIN list : m # k => \E j \in DOMAIN l : l[j] = list[m]
    <3> TAKE m \in DOMAIN list
    <3>1. CASE m < k
      <4>1. m \in DOMAIN l /\ l[m] = list[m]
        BY <1>4, <2>1, <3>1
      <4> QED BY <4>1
    <3>2. CASE m > k
      <4>1. m - 1 \in DOMAIN l /\ l[m - 1] = list[m]
        BY <1>4, <2>1, <3>2
      <4> QED BY <4>1
    <3> QED BY <2>1, <3>1, <3>2
  <2>4. list[k] \notin ToSet(l)
    BY <2>2 DEF ListShape, ToSet
  <2>5. ToSet(l) \subseteq ToSet(list)
    BY <2>2 DEF ToSet
  <2>6. ToSet(list) \subseteq ToSet(l) \cup {list[k]}
    BY <2>3 DEF ToSet
  <2> QED BY <2>1, <2>4, <2>5, <2>6
<1> QED BY <1>3, <1>4, <1>5 DEF Linked

(* The list when a node has been put in. *)
LEMMA PutInIs ==
    ASSUME TypeOK, NEW x \in Slot, list' = <<x>> \o list
    PROVE  /\ list' \in Seq(Slot) /\ Len(list') = Len(list) + 1
           /\ DOMAIN list' = 1..(Len(list) + 1)
           /\ \A j \in 1..(Len(list) + 1) : list'[j] = IF j = 1 THEN x ELSE list[j - 1]
           /\ Linked' = Linked \cup {x}
<1>1. Len(list) \in Nat /\ DOMAIN list = 1..Len(list) /\ list \in Seq(Slot)
  BY ListFacts DEF TypeOK
<1>2. <<x>> \in Seq(Slot) /\ Len(<<x>>) = 1 /\ <<x>>[1] = x
  OBVIOUS
<1> DEFINE l == <<x>> \o list
<1>3. list' = l
  OBVIOUS
<1>4. /\ l \in Seq(Slot) /\ Len(l) = Len(list) + 1
      /\ \A j \in 1..(Len(list) + 1) : l[j] = IF j = 1 THEN x ELSE list[j - 1]
  BY <1>1, <1>2, ConcatProperties
<1> HIDE DEF l
<1>5. DOMAIN l = 1..(Len(list) + 1) /\ ToSet(l) = ToSet(list) \cup {x}
  BY <1>1, <1>4, PutBefore
<1> QED BY <1>3, <1>4, <1>5 DEF Linked

(* The list without its head. *)
LEMMA TailIs ==
    ASSUME TypeOK, ListShape, list # <<>>, list' = Tail(list)
    PROVE  /\ list' \in Seq(Slot) /\ Len(list') = Len(list) - 1
           /\ DOMAIN list' = 1..(Len(list) - 1)
           /\ \A j \in 1..(Len(list) - 1) : list'[j] = list[j + 1]
           /\ Linked' = Linked \ {list[1]}
           /\ 1 \in DOMAIN list
<1>1. Len(list) \in Nat /\ DOMAIN list = 1..Len(list) /\ list \in Seq(Slot)
  BY ListFacts DEF TypeOK
<1>2. 1 \in DOMAIN list
  BY <1>1, EmptySeq
<1> DEFINE l == Tail(list)
<1>3. list' = l
  OBVIOUS
<1>4. /\ l \in Seq(Slot) /\ Len(l) = Len(list) - 1
      /\ \A j \in 1..(Len(list) - 1) : l[j] = list[j + 1]
  BY <1>1, <1>2, HeadTailProperties
<1> HIDE DEF l
<1>5. DOMAIN l = 1..(Len(list) - 1) /\ ToSet(l) = ToSet(list) \ {list[1]}
  <2>1. \A m, n \in DOMAIN list : m # n => list[m] # list[n]
    BY DEF ListShape
  <2>2. 1 \in 1..Len(list)
    BY <1>1, <1>2
  <2> QED BY <1>1, <1>4, <2>1, <2>2, FirstTakenOut
<1> QED BY <1>2, <1>3, <1>4, <1>5 DEF Linked

-----------------------------------------------------------------------------
(* Types.                                                                  *)

LEMMA EntersIs ==
    ASSUME NEW c \in Call, NEW e \in Node
    PROVE  /\ Enters(c, e) \in Node
           /\ Enters(c, e).fd = c.fd /\ Enters(c, e).next = e.next
BY DEF Enters, Call, Node, State

LEMMA ChangedIs ==
    ASSUME NEW c \in Call, c.op \in Setters, NEW e \in Node
    PROVE  /\ Changed(c, e) \in Node
           /\ Changed(c, e).fd = e.fd /\ Changed(c, e).next = e.next
<1>1. CASE c.op = "setName"
  <2>1. Changed(c, e) = [e EXCEPT !.name = c.name]
    BY <1>1 DEF Changed
  <2> QED BY <2>1 DEF Call, Node
<1>2. CASE c.op = "setState"
  <2>1. Changed(c, e) = [e EXCEPT !.state = c.state]
    BY <1>2 DEF Changed
  <2> QED BY <2>1 DEF Call, Node
<1>3. CASE c.op = "touch"
  <2>1. Changed(c, e) = [e EXCEPT !.old = FALSE]
    BY <1>3 DEF Changed
  <2> QED BY <2>1 DEF Call, Node
<1> QED BY <1>1, <1>2, <1>3 DEF Setters

(* A thread in a call has a call in hand; the two that change a node stand on
   one. *)
LEMMA InCall ==
    ASSUME Inv, NEW t \in Thread
    PROVE  /\ pc[t] \notin {"idle", "exited"} => call[t] \in Call
           /\ pc[t] \in {"free", "link", "publish"} =>
                cur[t] \in Slot /\ mem[cur[t]] \in Node /\ cur[t] \in alloc /\ cur[t] \notin Linked
<1>1. pc[t] \notin {"idle", "exited"} => call[t] \in Call
  BY DEF Inv, TypeOK, CallsFit
<1>2. pc[t] \in {"free", "link", "publish"} => NotInList(cur[t])
  BY DEF Inv, Places, ApartOf
<1> QED BY <1>1, <1>2 DEF Inv, TypeOK, NotInList

(* The node that a thread in the loop stands on is the k-th of the list. *)
LEMMA InLoop ==
    ASSUME Inv, NEW t \in Thread, pc[t] = "loop", cur[t] # Null
    PROVE  /\ call[t] \in Call /\ cur[t] \in Slot /\ mem[cur[t]] \in Node
           /\ cur[t] \in Linked
           /\ Op(t) = "clear" => cur[t] = list[1] /\ 1 \in DOMAIN list /\ list # <<>>
           /\ Op(t) # "clear" =>
                \E k \in DOMAIN list :
                  /\ cur[t] = list[k] /\ Before(t, k)
                  /\ mem[cur[t]].next = Elem(k + 1)
<1> USE ListFacts DEF Inv
<1>1. call[t] \in Call /\ cur[t] \in Slot /\ mem[cur[t]] \in Node
  <2>1. call[t] \in Call
    BY InCall
  <2>2. cur[t] \in Slot
    BY DEF TypeOK
  <2> QED BY <2>1, <2>2 DEF TypeOK
<1>2. CASE Op(t) = "clear"
  <2>1. cur[t] = Elem(1)
    BY <1>2 DEF Places, PositionOf
  <2>2. 1 \in DOMAIN list /\ cur[t] = list[1]
    BY <2>1
  <2>3. list # <<>>
    BY <2>2
  <2> QED BY <1>1, <1>2, <2>2, <2>3
<1>3. CASE Op(t) # "clear"
  <2>1. PICK k \in 1..(Len(list) + 1) : Before(t, k) /\ cur[t] = Elem(k)
    BY <1>3 DEF Places, PositionOf
  <2>2. k \in DOMAIN list /\ cur[t] = list[k]
    BY <2>1
  <2>3. mem[cur[t]].next = Elem(k + 1)
    BY <2>2 DEF ListShape
  <2> QED BY <1>1, <1>3, <2>1, <2>2, <2>3
<1> QED BY <1>2, <1>3

LEMMA GotoType ==
    ASSUME TypeOK, NEW t \in Thread, NEW l \in Label, Goto(t, l)
    PROVE  /\ pc' \in [Thread -> Label]
           /\ pc'[t] = l /\ \A u \in Thread \ {t} : pc'[u] = pc[u]
BY DEF TypeOK, Goto

LEMMA TypesKept == ASSUME Inv, Next PROVE TypeOK'
<1> USE ClientListAssumption DEF vars, memVars, callVars
<1>0. TypeOK
  BY DEF Inv
<1> USE <1>0
<1>1. CASE Age
  <2>1. PICK s \in Linked : mem' = [mem EXCEPT ![s].old = TRUE]
    BY <1>1 DEF Age
  <2>2. s \in Slot /\ mem[s] \in Node
    BY ListFacts DEF TypeOK
  <2>3. [mem[s] EXCEPT !.old = TRUE] \in Node
    BY <2>2 DEF Node
  <2>4. mem' \in [Slot -> Node]
    BY <2>1, <2>2, <2>3 DEF TypeOK
  <2> QED BY <1>1, <2>4 DEF Age, TypeOK
<1>2. ASSUME NEW t \in Thread, Invoke(t) PROVE TypeOK'
  <2>1. PICK c \in Calls[t] :
           /\ call' = [call EXCEPT ![t] = c]
           /\ Goto(t, IF c.op = "walk" THEN "start" ELSE "lock")
           /\ closed' = IF c.op = "add" THEN closed \ {c.fd} ELSE closed
    BY <1>2 DEF Invoke
  <2>2. c \in Call
    BY <1>2
  <2>3. pc' \in [Thread -> Label] /\ call' \in [Thread -> Call \cup {Null}]
        /\ closed' \in SUBSET (Fd \cup {NoFd})
    BY <1>2, <2>1, <2>2, GotoType DEF Label, TypeOK
  <2> QED BY <1>2, <2>3 DEF Invoke, TypeOK
<1>3. ASSUME NEW t \in Thread, Lock(t) PROVE TypeOK'
  <2>1. pc' \in [Thread -> Label]
    BY <1>3, GotoType DEF Lock, Label
  <2> QED BY <1>3, <2>1 DEF Lock, TypeOK
<1>4. ASSUME NEW t \in Thread, Advance(t) PROVE TypeOK'
  <2>1. cur[t] \in Slot /\ mem[cur[t]] \in Node
    BY <1>4, InLoop DEF Advance, At
  <2>2. count[t] + 1 \in Nat
    BY <1>4 DEF TypeOK
  <2>3. cur' \in [Thread -> Slot \cup {Null}] /\ prev' \in [Thread -> Slot \cup {Null}]
        /\ count' \in [Thread -> Nat]
    BY <1>4, <2>1, <2>2 DEF Advance, TypeOK, Node
  <2> QED BY <1>4, <2>3 DEF Advance, TypeOK
<1>5. ASSUME NEW t \in Thread, Unlock(t) PROVE TypeOK'
  <2>1. pc' \in [Thread -> Label]
    BY <1>5, GotoType DEF Unlock, Label
  <2> QED BY <1>5, <2>1 DEF Unlock, TypeOK
<1>6. ASSUME NEW t \in Thread, Found(t) PROVE TypeOK'
  <2>1. pc' \in [Thread -> Label]
    BY <1>6, GotoType DEF Found, Label
  <2> QED BY <1>6, <2>1 DEF Found, TypeOK
<1>7. ASSUME NEW t \in Thread, NotFound(t) \/ MallocFails(t) PROVE TypeOK'
  <2>1. pc' \in [Thread -> Label]
    BY <1>7, GotoType DEF NotFound, MallocFails, Label
  <2> QED BY <1>7, <2>1 DEF NotFound, MallocFails, TypeOK
<1>8. ASSUME NEW t \in Thread, Malloc(t) PROVE TypeOK'
  <2>1. pc' \in [Thread -> Label]
    BY <1>8, GotoType DEF Malloc, Label
  <2>2. PICK s \in Slot \ alloc :
           /\ alloc' = alloc \cup {s}
           /\ mem' = [mem EXCEPT ![s] = Enters(call[t], @)]
           /\ cur' = [cur EXCEPT ![t] = s]
    BY <1>8 DEF Malloc
  <2>3. call[t] \in Call
    BY <1>8, InCall DEF Malloc, At
  <2>4. Enters(call[t], mem[s]) \in Node
    BY <2>3, EntersIs DEF TypeOK
  <2> QED BY <1>8, <2>1, <2>2, <2>4 DEF Malloc, TypeOK
<1>9. ASSUME NEW t \in Thread, Link(t) PROVE TypeOK'
  <2>1. pc' \in [Thread -> Label]
    BY <1>9, GotoType DEF Link, Label
  <2>2. cur[t] \in Slot /\ mem[cur[t]] \in Node
    BY <1>9, InCall DEF Link, At
  <2>3. mem' \in [Slot -> Node]
    BY <1>9, <2>2 DEF Link, TypeOK, Node
  <2> QED BY <1>9, <2>1, <2>3 DEF Link, TypeOK
<1>10. ASSUME NEW t \in Thread, Publish(t) PROVE TypeOK'
  <2>1. pc' \in [Thread -> Label]
    BY <1>10, GotoType DEF Publish, Label
  <2>2. cur[t] \in Slot
    BY <1>10, InCall DEF Publish, At
  <2>3. list' \in Seq(Slot)
    BY <1>10, <2>2, PutInIs DEF Publish
  <2>4. head' \in Slot \cup {Null} /\ ret' \in [Thread -> Slot \cup {Null}]
    BY <1>10, <2>2 DEF Publish, TypeOK
  <2> HIDE DEF TypeOK
  <2> QED BY <1>10, <2>1, <2>3, <2>4 DEF Publish, TypeOK
<1>11. ASSUME NEW t \in Thread, Update(t) PROVE TypeOK'
  <2>1. pc' \in [Thread -> Label]
    BY <1>11, GotoType DEF Update, Label
  <2>2. call[t] \in Call /\ cur[t] \in Slot /\ mem[cur[t]] \in Node /\ Op(t) \in Setters
    BY <1>11, InLoop DEF Update, Here, At
  <2>3. Changed(call[t], mem[cur[t]]) \in Node
    BY <2>2, ChangedIs DEF Op
  <2>4. due' \in [Thread -> SUBSET Slot]
    BY <1>11 DEF Update, Drop, TypeOK
  <2>5. mem' \in [Slot -> Node]
    BY <1>11, <2>2, <2>3 DEF Update, TypeOK
  <2>6. ret' \in [Thread -> Slot \cup {Null}]
    BY <1>11, <2>2 DEF Update, TypeOK
  <2> QED BY <1>11, <2>1, <2>4, <2>5, <2>6 DEF Update, TypeOK
<1>12. ASSUME NEW t \in Thread, Unlink(t) PROVE TypeOK'
  <2>1. pc' \in [Thread -> Label]
    BY <1>12, GotoType DEF Unlink, Label
  <2>2. PICK k \in DOMAIN list :
           /\ cur[t] \in Slot /\ mem[cur[t]] \in Node /\ cur[t] = list[k]
    BY <1>12, InLoop DEF Unlink, Here, At
  <2>3. list' = Without(list[k])
    BY <1>12, <2>2 DEF Unlink
  <2>4. list' \in Seq(Slot)
    BY <2>3, WithoutIs DEF Inv
  <2>5. due' \in [Thread -> SUBSET Slot]
    BY <1>12 DEF Unlink, Drop, TypeOK
  <2>6. mem[cur[t]].next \in Slot \cup {Null}
    BY <2>2 DEF Node
  <2>7. head' \in Slot \cup {Null} /\ mem' \in [Slot -> Node]
    <3>1. CASE prev[t] = Null
      BY <1>12, <2>6, <3>1 DEF Unlink, TypeOK
    <3>2. CASE prev[t] # Null
      <4>1. prev[t] \in Slot /\ mem[prev[t]] \in Node
        BY <3>2 DEF TypeOK
      <4>2. [mem[prev[t]] EXCEPT !.next = mem[cur[t]].next] \in Node
        BY <2>6, <4>1 DEF Node
      <4>3. head' = head /\ mem' = [mem EXCEPT ![prev[t]].next = mem[cur[t]].next]
        BY <1>12, <3>2 DEF Unlink
      <4> QED BY <4>1, <4>2, <4>3 DEF TypeOK
    <3> QED BY <3>1, <3>2
  <2>8. ret' \in [Thread -> Slot \cup {Null}]
    BY <1>12, <2>2 DEF Unlink, TypeOK
  <2> QED BY <1>12, <2>1, <2>4, <2>5, <2>7, <2>8 DEF Unlink, TypeOK
<1>13. ASSUME NEW t \in Thread, Free(t) PROVE TypeOK'
  <2>1. cur[t] \in Slot /\ mem[cur[t]] \in Node
    BY <1>13, InCall DEF Free, At
  <2>2. pc' \in [Thread -> Label]
    BY <1>13, GotoType DEF Free, Label
  <2>3. mem' \in [Slot -> Node]
    BY <1>13, <2>1 DEF Free, TypeOK, Node
  <2>4. mem[cur[t]].next \in Slot \cup {Null} /\ mem[cur[t]].fd \in Fd \cup {NoFd}
    BY <2>1 DEF Node
  <2>5. cur' \in [Thread -> Slot \cup {Null}] /\ closed' \in SUBSET (Fd \cup {NoFd})
    <3>1. CASE Op(t) = "cleanup"
      <4>1. /\ cur' = [cur EXCEPT ![t] = mem[cur[t]].next]
            /\ closed' = closed \cup {mem[cur[t]].fd}
        BY <1>13, <3>1 DEF Free
      <4>2. cur \in [Thread -> Slot \cup {Null}] /\ closed \in SUBSET (Fd \cup {NoFd})
        BY DEF TypeOK
      <4> HIDE DEF TypeOK
      <4> QED BY <2>4, <4>1, <4>2
    <3>2. CASE Op(t) # "cleanup"
      BY <1>13, <3>2 DEF Free, TypeOK
    <3> QED BY <3>1, <3>2
  <2> QED BY <1>13, <2>2, <2>3, <2>5 DEF Free, TypeOK
<1>14. ASSUME NEW t \in Thread, ClearNode(t) PROVE TypeOK'
  <2>1. cur[t] \in Slot /\ mem[cur[t]] \in Node /\ list # <<>>
    BY <1>14, InLoop DEF ClearNode, At
  <2>2. list' \in Seq(Slot)
    BY <1>14, <2>1, TailIs DEF ClearNode, Inv
  <2>3. mem' \in [Slot -> Node]
    BY <1>14, <2>1 DEF ClearNode, TypeOK, Node
  <2>4. cur' \in [Thread -> Slot \cup {Null}] /\ closed' \in SUBSET (Fd \cup {NoFd})
    BY <1>14, <2>1 DEF ClearNode, TypeOK, Node
  <2> QED BY <1>14, <2>2, <2>3, <2>4 DEF ClearNode, TypeOK
<1>15. ASSUME NEW t \in Thread, ClearHead(t) PROVE TypeOK'
  <2>1. pc' \in [Thread -> Label]
    BY <1>15, GotoType DEF ClearHead, Label
  <2> QED BY <1>15, <2>1 DEF ClearHead, TypeOK
<1>16. ASSUME NEW t \in Thread, WalkStart(t) PROVE TypeOK'
  <2>1. pc' \in [Thread -> Label]
    BY <1>16, GotoType DEF WalkStart, Label
  <2>2. Members \in SUBSET Slot
    BY ListFacts DEF Members
  <2> QED BY <1>16, <2>1, <2>2 DEF WalkStart, TypeOK
<1>17. ASSUME NEW t \in Thread, WalkVisit(t) PROVE TypeOK'
  <2>1. pc' \in [Thread -> Label]
    BY <1>17, GotoType DEF WalkVisit, Label
  <2> QED BY <1>17, <2>1 DEF WalkVisit, TypeOK
<1>18. ASSUME NEW t \in Thread, WalkNext(t) PROVE TypeOK'
  <2>1. pc' \in [Thread -> Label]
    BY <1>18, GotoType DEF WalkNext, Label
  <2>2. cur[t] \in Slot /\ mem[cur[t]] \in Node
    BY <1>18 DEF WalkNext, At, TypeOK, Inv, DueAreMembers
  <2> QED BY <1>18, <2>1, <2>2 DEF WalkNext, TypeOK, Node
<1>19. ASSUME NEW t \in Thread, WalkEnd(t) PROVE TypeOK'
  <2>1. pc' \in [Thread -> Label]
    BY <1>19, GotoType DEF WalkEnd, Label
  <2> QED BY <1>19, <2>1 DEF WalkEnd, TypeOK
<1> QED BY <1>1, <1>2, <1>3, <1>4, <1>5, <1>6, <1>7, <1>8, <1>9, <1>10, <1>11, <1>12,
           <1>13, <1>14, <1>15, <1>16, <1>17, <1>18, <1>19 DEF Next, Locked, Walk

-----------------------------------------------------------------------------
(* Who holds the mutex, who is in which call.                              *)

Control == Holder /\ CallsFit /\ Fresh /\ Alone

LEMMA ControlKept == ASSUME Inv, Next PROVE Control'
<1> USE ClientListAssumption DEF Control, Holder, CallsFit, Fresh, Alone, Critical, Op, At
<1>0. TypeOK /\ TypeOK' /\ Control
  BY TypesKept DEF Inv
<1> USE <1>0
<1>1. CASE Age
  BY <1>1 DEF Age, callVars
<1>2. ASSUME NEW t \in Thread, Invoke(t) PROVE Control'
  BY <1>2 DEF Invoke, Goto, TypeOK, memVars
<1>3. ASSUME NEW t \in Thread, Lock(t) PROVE Control'
  BY <1>3 DEF Lock, Goto, TypeOK, memVars
<1>4. ASSUME NEW t \in Thread, Advance(t) PROVE Control'
  BY <1>4 DEF Advance, Goto, TypeOK, memVars
<1>5. ASSUME NEW t \in Thread, Unlock(t) PROVE Control'
  BY <1>5 DEF Unlock, Goto, TypeOK, memVars
<1>6. ASSUME NEW t \in Thread, Found(t) PROVE Control'
  BY <1>6 DEF Found, Goto, TypeOK, memVars, Here
<1>7. ASSUME NEW t \in Thread, NotFound(t) PROVE Control'
  BY <1>7 DEF NotFound, Goto, TypeOK, memVars
<1>8. ASSUME NEW t \in Thread, MallocFails(t) PROVE Control'
  BY <1>8 DEF MallocFails, Goto, TypeOK, memVars
<1>9. ASSUME NEW t \in Thread, Malloc(t) PROVE Control'
  BY <1>9 DEF Malloc, Goto, TypeOK, memVars
<1>10. ASSUME NEW t \in Thread, Link(t) PROVE Control'
  BY <1>10 DEF Link, Goto, TypeOK, memVars
<1>11. ASSUME NEW t \in Thread, Publish(t) PROVE Control'
  BY <1>11 DEF Publish, Goto, TypeOK, memVars
<1>12. ASSUME NEW t \in Thread, Update(t) PROVE Control'
  BY <1>12 DEF Update, Goto, TypeOK, memVars, Here, Setters
<1>13. ASSUME NEW t \in Thread, Unlink(t) PROVE Control'
  BY <1>13 DEF Unlink, Goto, TypeOK, memVars, Here, Removers
<1>14. ASSUME NEW t \in Thread, Free(t) PROVE Control'
  <2>1. pc[t] = "free" /\ UNCHANGED <<mutex, call, prev, count>>
    BY <1>14 DEF Free
  <2>2. pc' = [pc EXCEPT ![t] = "loop"] \/ pc' = [pc EXCEPT ![t] = "unlock"]
    BY <1>14 DEF Free, Goto
  <2>3. CASE pc' = [pc EXCEPT ![t] = "loop"]
    BY <2>1, <2>3 DEF TypeOK
  <2>4. CASE pc' = [pc EXCEPT ![t] = "unlock"]
    BY <2>1, <2>4 DEF TypeOK
  <2> QED BY <2>2, <2>3, <2>4
<1>15. ASSUME NEW t \in Thread, ClearNode(t) PROVE Control'
  BY <1>15 DEF ClearNode, Goto, TypeOK, memVars
<1>16. ASSUME NEW t \in Thread, ClearHead(t) PROVE Control'
  BY <1>16 DEF ClearHead, Goto, TypeOK, memVars
<1>17. ASSUME NEW t \in Thread, WalkStart(t) PROVE Control'
  BY <1>17 DEF WalkStart, Goto, TypeOK, memVars
<1>18. ASSUME NEW t \in Thread, WalkVisit(t) PROVE Control'
  BY <1>18 DEF WalkVisit, Goto, TypeOK, memVars
<1>19. ASSUME NEW t \in Thread, WalkNext(t) PROVE Control'
  BY <1>19 DEF WalkNext, Goto, TypeOK, memVars
<1>20. ASSUME NEW t \in Thread, WalkEnd(t) PROVE Control'
  BY <1>20 DEF WalkEnd, Goto, TypeOK, memVars
<1> QED BY <1>1, <1>2, <1>3, <1>4, <1>5, <1>6, <1>7, <1>8, <1>9, <1>10, <1>11, <1>12, <1>13, <1>14, <1>15, <1>16, <1>17, <1>18, <1>19, <1>20 DEF Next, Locked, Walk

-----------------------------------------------------------------------------
(* The shape of the list.                                                  *)

(* A step that touches no link and no descriptor of the list. *)
LEMMA SameShape ==
    ASSUME Inv, TypeOK', UNCHANGED <<list, head>>, Clearing => Clearing',
           \A u \in Linked :
               mem'[u].next = mem[u].next /\ mem'[u].fd = mem[u].fd /\ u \in alloc'
    PROVE  ListShape' /\ FdsDiffer'
<1>1. Linked' = Linked /\ First' = First /\ \A i : Succ(i)' = Succ(i)
  BY DEF Linked, First, Succ
<1>2. \A i \in DOMAIN list : list[i] \in Linked
  BY ListFacts DEF Inv
<1>3. ListShape'
  BY <1>1, <1>2 DEF Inv, ListShape
<1>4. FdsDiffer'
  BY <1>1 DEF Inv, FdsDiffer
<1> QED BY <1>3, <1>4

(* Nobody clears the list while a thread is in another call. *)
LEMMA NotClearing ==
    ASSUME Inv, NEW t \in Thread, call[t] # Null, Op(t) # "clear"
    PROVE  ~Clearing /\ head = First
BY DEF Inv, Alone, Clearing, ListShape

(* A thread that clears goes on clearing until it unlocks. *)
LEMMA ClearingStays ==
    ASSUME Inv, Next, \A t \in Thread : ~Unlock(t)
    PROVE  Clearing => Clearing'
<1> SUFFICES ASSUME NEW u \in Thread, call[u] # Null, Op(u) = "clear", pc[u] \in {"loop", "unlock"}
             PROVE  /\ call'[u] = call[u]
                    /\ pc'[u] \in {"loop", "unlock"}
  BY DEF Clearing, Op
<1> USE DEF Op, At, Goto, callVars
<1>0. pc \in [Thread -> Label]
  BY DEF Inv, TypeOK
<1>1. \A t \in Thread \ {u} : call[t] = Null /\ pc[t] \in {"idle", "exited"}
  BY DEF Inv, Alone, CallsFit
<1>2. CASE Age
  BY <1>2 DEF Age
<1>3. ASSUME NEW t \in Thread, t # u, Invoke(t) \/ Lock(t) \/ Locked(t) \/ Walk(t)
      PROVE  FALSE
  <2>1. call[t] = Null /\ pc[t] \in {"idle", "exited"}
    BY <1>1, <1>3
  <2>2. ~Invoke(t)
    BY DEF Invoke
  <2>3. ~Lock(t) /\ ~Walk(t)
    BY <2>1 DEF Lock, Walk, WalkStart, WalkVisit, WalkNext, WalkEnd
  <2>4. ~Locked(t)
    BY <2>1 DEF Locked, Advance, Found, NotFound, MallocFails, Malloc, Link, Publish, Update,
                Unlink, Free, ClearNode, ClearHead, Unlock, Here
  <2> QED BY <1>3, <2>2, <2>3, <2>4
<1>4. ASSUME Invoke(u) \/ Lock(u) \/ Locked(u) \/ Walk(u)
      PROVE  ClearNode(u) \/ ClearHead(u)
  <2>1. ~Invoke(u) /\ ~Lock(u) /\ ~Walk(u)
    BY DEF Invoke, Lock, Walk, WalkStart, WalkVisit, WalkNext, WalkEnd
  <2>2. ~Advance(u) /\ ~NotFound(u) /\ ~MallocFails(u) /\ ~Malloc(u)
    BY DEF Advance, NotFound, MallocFails, Malloc
  <2>3. ~Found(u) /\ ~Update(u) /\ ~Unlink(u)
    BY DEF Found, Update, Unlink, Here, Finders, Setters
  <2>4. ~Link(u) /\ ~Publish(u) /\ ~Free(u)
    BY DEF Link, Publish, Free
  <2> QED BY <1>4, <2>1, <2>2, <2>3, <2>4 DEF Locked
<1>5. ASSUME ClearNode(u) \/ ClearHead(u)
      PROVE  call' = call /\ (pc' = pc \/ pc' = [pc EXCEPT ![u] = "unlock"])
  BY <1>5 DEF ClearNode, ClearHead
<1> QED BY <1>0, <1>2, <1>3, <1>4, <1>5 DEF Next

(* What the words of memory are after each kind of step.  First the steps
   that leave the list as it is. *)
LEMMA QuietShape ==
    ASSUME Inv, TypeOK', Next, UNCHANGED <<list, head, mem, alloc>>
    PROVE  ListShape' /\ FdsDiffer'
<1>1. CASE \E t \in Thread : Unlock(t)
  <2>1. Linked' = Linked /\ First' = First /\ \A i : Succ(i)' = Succ(i)
    BY DEF Linked, First, Succ
  <2>2. head = First
    <3>1. PICK t \in Thread : Unlock(t)
      BY <1>1
    <3>2. pc[t] = "unlock" /\ call[t] # Null
      BY <3>1 DEF Unlock, At, Inv, CallsFit
    <3>3. CASE Op(t) = "clear"
      <4>1. list = <<>> /\ head = Null
        BY <3>2, <3>3 DEF Inv, Places, ClearedOf
      <4> QED BY <4>1 DEF First
    <3>4. CASE Op(t) # "clear"
      BY <3>2, <3>4, NotClearing
    <3> QED BY <3>3, <3>4
  <2> QED BY <2>1, <2>2 DEF Inv, ListShape, FdsDiffer
<1>2. CASE \A t \in Thread : ~Unlock(t)
  <2>1. \A u \in Linked : u \in alloc
    BY ListFacts DEF Inv, ListShape
  <2> QED BY <1>2, <2>1, ClearingStays, SameShape
<1> QED BY <1>1, <1>2

(* Unlink takes out the k-th node: its predecessor, or client_list_head,
   leads to its successor, and nothing else changes. *)
TakesOut(t, k) ==
    /\ cur[t] = list[k] /\ Before(t, k) /\ mem[list[k]].next = Elem(k + 1)
    /\ head = First /\ alloc' = alloc
    /\ Len(list') = Len(list) - 1 /\ DOMAIN list' = 1..(Len(list) - 1)
    /\ \A j \in 1..(Len(list) - 1) : list'[j] = IF j < k THEN list[j] ELSE list[j + 1]
    /\ Linked' = Linked \ {list[k]}
    /\ \A m \in Nat : Elem(m)' = IF m < k THEN Elem(m) ELSE Elem(m + 1)
    /\ head' = IF k = 1 THEN Elem(2) ELSE head
    /\ \A s \in Slot : /\ mem'[s].fd = mem[s].fd /\ mem'[s].ip = mem[s].ip
                       /\ mem'[s].name = mem[s].name /\ mem'[s].old = mem[s].old
                       /\ mem'[s].state = mem[s].state
                       /\ mem'[s].next = IF s = Elem(k - 1) THEN Elem(k + 1) ELSE mem[s].next

LEMMA UnlinkIs ==
    ASSUME Inv, NEW t \in Thread, Unlink(t)
    PROVE  \E k \in DOMAIN list : TakesOut(t, k)
<1>0. TypeOK /\ ListShape
  BY DEF Inv
<1>1. call[t] # Null /\ Op(t) # "clear"
  BY InLoop, ClientListAssumption DEF Unlink, Here, At
<1>2. PICK k \in DOMAIN list :
         cur[t] = list[k] /\ Before(t, k) /\ mem[cur[t]].next = Elem(k + 1)
  BY <1>1, InLoop DEF Unlink, Here, At
<1>3. head = First
  BY <1>1, NotClearing
<1>4. list' = Without(list[k]) /\ alloc' = alloc
  BY <1>2 DEF Unlink
<1>5. /\ Len(list') = Len(list) - 1 /\ DOMAIN list' = 1..(Len(list) - 1)
      /\ \A j \in 1..(Len(list) - 1) : list'[j] = IF j < k THEN list[j] ELSE list[j + 1]
      /\ Linked' = Linked \ {list[k]}
  BY <1>0, <1>4, WithoutIs
<1>6. Len(list) \in Nat /\ DOMAIN list = 1..Len(list)
  BY <1>0, ListFacts
<1>7. prev[t] = Elem(k - 1)
  BY <1>2 DEF Before
<1>8. /\ k = 1 => head' = Elem(2) /\ mem' = mem /\ Elem(k - 1) = Null
      /\ k # 1 => /\ head' = head /\ Elem(k - 1) \in Slot
                  /\ mem' = [mem EXCEPT ![Elem(k - 1)].next = Elem(k + 1)]
  <2>1. k = 1 => prev[t] = Null
    BY <1>0, <1>6, <1>7, ListFacts
  <2>2. k # 1 => prev[t] # Null /\ Elem(k - 1) \in Slot
    <3>1. k # 1 => k - 1 \in DOMAIN list
      BY <1>6
    <3>2. k # 1 => Elem(k - 1) # Null /\ Elem(k - 1) \in Slot
      BY <1>0, <3>1, ListFacts
    <3> QED BY <1>7, <3>2
  <2> QED BY <1>2, <1>7, <2>1, <2>2 DEF Unlink
<1>9. \A s \in Slot : /\ mem'[s].fd = mem[s].fd /\ mem'[s].ip = mem[s].ip
                      /\ mem'[s].name = mem[s].name /\ mem'[s].old = mem[s].old
                      /\ mem'[s].state = mem[s].state
                      /\ mem'[s].next = IF s = Elem(k - 1) THEN Elem(k + 1) ELSE mem[s].next
  <2>1. CASE k = 1
    <3>1. \A s \in Slot : s # Elem(k - 1)
      BY <1>8, <2>1, ClientListAssumption
    <3> QED BY <1>8, <2>1, <3>1
  <2>2. CASE k # 1
    <3> DEFINE p == Elem(k - 1)
               e == [mem[p] EXCEPT !.next = Elem(k + 1)]
    <3>1. p \in Slot /\ mem[p] \in Node /\ mem \in [Slot -> Node]
      BY <1>0, <1>8, <2>2 DEF TypeOK
    <3>2. /\ e.fd = mem[p].fd /\ e.ip = mem[p].ip /\ e.name = mem[p].name
          /\ e.old = mem[p].old /\ e.state = mem[p].state /\ e.next = Elem(k + 1)
      BY <3>1 DEF Node
    <3>3. mem' = [mem EXCEPT ![p] = e]
      BY <1>8, <2>2
    <3> HIDE DEF e, p
    <3>4. \A s \in Slot : mem'[s] = IF s = p THEN e ELSE mem[s]
      BY <3>1, <3>3
    <3>5. \A s \in Slot :
             /\ mem'[s].fd = mem[s].fd /\ mem'[s].ip = mem[s].ip
             /\ mem'[s].name = mem[s].name /\ mem'[s].old = mem[s].old
             /\ mem'[s].state = mem[s].state
             /\ mem'[s].next = IF s = p THEN Elem(k + 1) ELSE mem[s].next
      BY <3>2, <3>4
    <3> QED BY <3>5 DEF p
  <2> QED BY <2>1, <2>2
<1> HIDE DEF Unlink
<1>10. \A m \in Nat : Elem(m)' = IF m < k THEN Elem(m) ELSE Elem(m + 1)
  BY <1>5, <1>6 DEF Elem
<1>11. head' = IF k = 1 THEN Elem(2) ELSE head
  BY <1>8
<1> QED BY <1>2, <1>3, <1>4, <1>5, <1>9, <1>10, <1>11 DEF TakesOut

LEMMA ShapeKept == ASSUME Inv, Next PROVE ListShape' /\ FdsDiffer'
<1> USE DEF vars, memVars, callVars, At
<1>0. TypeOK /\ TypeOK' /\ ListShape /\ FdsDiffer
  BY TypesKept DEF Inv
<1> USE <1>0
<1>1. \A u \in Linked : u \in alloc /\ u \in Slot
  BY ListFacts DEF ListShape
<1>2. CASE Age
  <2>1. PICK s \in Linked : mem' = [mem EXCEPT ![s].old = TRUE]
    BY <1>2 DEF Age
  <2>2. \A u \in Slot : mem[u] \in Node
    BY DEF TypeOK
  <2>3. \A u \in Linked : mem'[u].next = mem[u].next /\ mem'[u].fd = mem[u].fd
    BY <1>1, <2>1, <2>2 DEF TypeOK, Node
  <2>4. Clearing => Clearing'
    BY <1>2 DEF Age, Clearing, Op
  <2> QED BY <1>1, <1>2, <2>3, <2>4, SameShape DEF Age
<1>3. ASSUME NEW t \in Thread,
             \/ Invoke(t) \/ Lock(t) \/ Advance(t) \/ Found(t) \/ NotFound(t)
             \/ MallocFails(t) \/ Unlock(t) \/ Walk(t)
      PROVE  ListShape' /\ FdsDiffer'
  <2>1. UNCHANGED <<list, head, mem, alloc>>
    BY <1>3 DEF Invoke, Lock, Advance, Found, NotFound, MallocFails, Unlock, Walk,
                WalkStart, WalkVisit, WalkNext, WalkEnd
  <2> QED BY <2>1, QuietShape
<1>4. ASSUME NEW t \in Thread, Malloc(t) PROVE ListShape' /\ FdsDiffer'
  <2>1. PICK s \in Slot \ alloc :
           alloc' = alloc \cup {s} /\ mem' = [mem EXCEPT ![s] = Enters(call[t], @)]
    BY <1>4 DEF Malloc
  <2>2. \A u \in Linked : u \in alloc' /\ mem'[u] = mem[u]
    BY <1>1, <2>1 DEF TypeOK
  <2>3. ~Clearing
    BY <1>4, NotClearing DEF Malloc, Inv, CallsFit
  <2> QED BY <1>4, <2>2, <2>3, SameShape DEF Malloc
<1>5. ASSUME NEW t \in Thread, Link(t) PROVE ListShape' /\ FdsDiffer'
  <2>1. cur[t] \notin Linked /\ call[t] # Null /\ Op(t) # "clear"
    BY <1>5, InCall DEF Link, Inv, CallsFit
  <2>2. \A u \in Linked : u \in alloc' /\ mem'[u] = mem[u]
    BY <1>1, <1>5, <2>1 DEF Link, TypeOK
  <2> QED BY <1>5, <2>1, <2>2, SameShape, NotClearing DEF Link
<1>6. ASSUME NEW t \in Thread, Publish(t) PROVE ListShape' /\ FdsDiffer'
  <2> DEFINE x == cur[t]
  <2>1. x \in Slot /\ x \notin Linked /\ x \in alloc /\ call[t] # Null /\ Op(t) # "clear"
    BY <1>6, InCall DEF Publish, Inv, CallsFit
  <2>2. mem[x].next = head /\ \A u \in Linked : mem[u].fd # mem[x].fd
    BY <1>6 DEF Publish, Inv, Places, ApartOf, NotInList
  <2>3. head = First
    BY <2>1, NotClearing
  <2>4. head' = x /\ mem' = mem /\ alloc' = alloc /\ list' = <<x>> \o list
    BY <1>6 DEF Publish
  <2>5. /\ DOMAIN list' = 1..(Len(list) + 1) /\ Len(list') = Len(list) + 1
        /\ \A j \in 1..(Len(list) + 1) : list'[j] = IF j = 1 THEN x ELSE list[j - 1]
        /\ Linked' = Linked \cup {x}
    BY <2>1, <2>4, PutInIs
  <2>6. Len(list) \in Nat /\ DOMAIN list = 1..Len(list) /\ list' # <<>>
    BY <2>5, ListFacts
  <2> HIDE <1>6 DEF x
  <2>7. First' = x /\ head' = First'
    BY <2>4, <2>5, <2>6 DEF First
  <2>8. Succ(1)' = First
    BY <2>5, <2>6, EmptySeq DEF Succ, First, TypeOK
  <2>9. \A i \in DOMAIN list : list'[i + 1] = list[i] /\ Succ(i + 1)' = Succ(i)
    BY <2>5, <2>6 DEF Succ
  <2>10. \A i \in DOMAIN list' : i = 1 \/ (i - 1 \in DOMAIN list /\ (i - 1) + 1 = i)
    BY <2>5, <2>6
  <2>11. list'[1] = x /\ 1 \in DOMAIN list'
    BY <2>5, <2>6
  <2>12. \A i \in DOMAIN list' : mem'[list'[i]].next = Succ(i)' /\ list'[i] \in alloc'
    <3> TAKE i \in DOMAIN list'
    <3>1. CASE i = 1
      BY <2>1, <2>2, <2>3, <2>4, <2>8, <2>11, <3>1
    <3>2. CASE i - 1 \in DOMAIN list /\ (i - 1) + 1 = i
      <4>1. list'[i] = list[i - 1] /\ Succ(i)' = Succ(i - 1)
        BY <2>9, <3>2
      <4>2. mem[list[i - 1]].next = Succ(i - 1) /\ list[i - 1] \in alloc
        BY <3>2 DEF ListShape
      <4> QED BY <2>4, <4>1, <4>2
    <3> QED BY <2>10, <3>1, <3>2
  <2>13. \A i, j \in DOMAIN list' : i # j => list'[i] # list'[j]
    <3>1. \A i \in DOMAIN list : list[i] # x
      BY <2>1, ListFacts
    <3>2. \A i \in DOMAIN list' : i # 1 => i - 1 \in DOMAIN list /\ list'[i] = list[i - 1]
      BY <2>5, <2>6
    <3>3. \A i, j \in DOMAIN list' : i # j /\ i # 1 /\ j # 1 => i - 1 # j - 1
      BY <2>5, <2>6
    <3> QED BY <2>11, <3>1, <3>2, <3>3 DEF ListShape
  <2>14. FdsDiffer'
    BY <2>2, <2>4, <2>5 DEF FdsDiffer
  <2> QED BY <2>7, <2>12, <2>13, <2>14 DEF ListShape
<1>7. ASSUME NEW t \in Thread, Update(t) PROVE ListShape' /\ FdsDiffer'
  <2>1. call[t] \in Call /\ cur[t] \in Slot /\ mem[cur[t]] \in Node /\ Op(t) \in Setters
    BY <1>7, InLoop DEF Update, Here
  <2>2. mem' = [mem EXCEPT ![cur[t]] = Changed(call[t], mem[cur[t]])]
    BY <1>7 DEF Update
  <2>3. LET e == Changed(call[t], mem[cur[t]])
        IN  e.fd = mem[cur[t]].fd /\ e.next = mem[cur[t]].next
    BY <2>1, ChangedIs DEF Op
  <2>4. \A u \in Linked : mem'[u].next = mem[u].next /\ mem'[u].fd = mem[u].fd
    BY <1>1, <2>1, <2>2, <2>3 DEF TypeOK
  <2>5. ~Clearing
    BY <2>1, NotClearing, ClientListAssumption DEF Setters
  <2> QED BY <1>1, <1>7, <2>4, <2>5, SameShape DEF Update
<1>8. ASSUME NEW t \in Thread, Unlink(t) PROVE ListShape' /\ FdsDiffer'
  <2>1. PICK k \in DOMAIN list : TakesOut(t, k)
    BY <1>8, UnlinkIs
  <2>3. head = First
    BY <2>1 DEF TakesOut
  <2>4. alloc' = alloc
    BY <2>1 DEF TakesOut
  <2>5. /\ Len(list') = Len(list) - 1 /\ DOMAIN list' = 1..(Len(list) - 1)
        /\ \A j \in 1..(Len(list) - 1) : list'[j] = IF j < k THEN list[j] ELSE list[j + 1]
        /\ Linked' = Linked \ {list[k]}
    BY <2>1 DEF TakesOut
  <2>6. Len(list) \in Nat /\ DOMAIN list = 1..Len(list)
    BY ListFacts
  <2>8. head' = IF k = 1 THEN Elem(2) ELSE head
    BY <2>1 DEF TakesOut
  <2>9. \A j \in 1..Len(list) :
           /\ mem'[list[j]].fd = mem[list[j]].fd
           /\ j # k - 1 => mem'[list[j]].next = mem[list[j]].next
           /\ j = k - 1 => mem'[list[j]].next = Elem(k + 1)
    <3>1. \A j \in 1..Len(list) : list[j] \in Slot
      BY <2>6, ListFacts
    <3>2. \A j \in 1..Len(list) : j = k - 1 <=> list[j] = Elem(k - 1)
      BY <2>6, ListFacts DEF ListShape
    <3> QED BY <2>1, <3>1, <3>2 DEF TakesOut
  <2> HIDE <1>8
  <2>10. \A m \in Nat : Elem(m)' = IF m < k THEN Elem(m) ELSE Elem(m + 1)
    BY <2>1 DEF TakesOut
  <2>11. head' = First'
    <3>1. First' = Elem(1)'
      BY <2>5, <2>6, EmptySeq, TypesKept DEF First, Elem, TypeOK
    <3>2. CASE k = 1
      BY <2>6, <2>8, <2>10, <3>1, <3>2
    <3>3. CASE k # 1
      BY <2>3, <2>6, <2>8, <2>10, <3>1, <3>3, ListFacts
    <3> QED BY <3>2, <3>3
  <2>12. \A i \in DOMAIN list' : mem'[list'[i]].next = Succ(i)' /\ list'[i] \in alloc'
    <3> TAKE i \in DOMAIN list'
    <3>1. Succ(i)' = Elem(i + 1)'
      BY <2>5, <2>6 DEF Succ, Elem
    <3>2. \A m \in DOMAIN list : mem[list[m]].next = Elem(m + 1) /\ list[m] \in alloc
      BY ListFacts DEF ListShape
    <3>3. CASE i < k - 1
      <4>1. list'[i] = list[i] /\ i \in DOMAIN list /\ i # k - 1 /\ Elem(i + 1)' = Elem(i + 1)
        <5>1. i \in 1..(Len(list) - 1) /\ i < k /\ i + 1 \in Nat /\ i + 1 < k
          BY <2>5, <2>6, <3>3
        <5>2. list'[i] = list[i] /\ Elem(i + 1)' = Elem(i + 1)
          BY <2>5, <2>10, <5>1
        <5>3. i \in DOMAIN list /\ i # k - 1
          BY <2>6, <3>3, <5>1
        <5> QED BY <5>2, <5>3
      <4> QED BY <2>4, <2>6, <2>9, <3>1, <3>2, <4>1
    <3>4. CASE i = k - 1
      <4>1. list'[i] = list[i] /\ i \in DOMAIN list /\ Elem(i + 1)' = Elem(k + 1)
        BY <2>5, <2>6, <2>10, <3>4
      <4> QED BY <2>4, <2>6, <2>9, <3>1, <3>2, <3>4, <4>1
    <3>5. CASE i > k - 1
      <4>1. list'[i] = list[i + 1] /\ i + 1 \in DOMAIN list /\ i + 1 # k - 1
            /\ Elem(i + 1)' = Elem((i + 1) + 1)
        BY <2>5, <2>6, <2>10, <3>5
      <4> QED BY <2>4, <2>6, <2>9, <3>1, <3>2, <4>1
    <3> QED BY <2>5, <2>6, <3>3, <3>4, <3>5
  <2>13. \A i, j \in DOMAIN list' : i # j => list'[i] # list'[j]
    <3> DEFINE at(i) == IF i < k THEN i ELSE i + 1
    <3>1. \A i \in DOMAIN list' : at(i) \in DOMAIN list /\ list'[i] = list[at(i)]
      BY <2>5, <2>6
    <3>2. \A i, j \in DOMAIN list' : i # j => at(i) # at(j)
      BY <2>5, <2>6
    <3> HIDE DEF at
    <3> QED BY <3>1, <3>2 DEF ListShape
  <2>14. FdsDiffer'
    <3>1. \A s \in Linked : mem'[s].fd = mem[s].fd
      BY <2>6, <2>9, ListFacts
    <3> QED BY <2>5, <3>1 DEF FdsDiffer
  <2> QED BY <2>11, <2>12, <2>13, <2>14 DEF ListShape
<1>9. ASSUME NEW t \in Thread, Free(t) PROVE ListShape' /\ FdsDiffer'
  <2>1. cur[t] \notin Linked /\ call[t] # Null /\ Op(t) # "clear"
    BY <1>9, InCall DEF Free, Inv, CallsFit, Removers
  <2>2. \A u \in Linked : u \in alloc' /\ mem'[u] = mem[u]
    BY <1>1, <1>9, <2>1 DEF Free, TypeOK
  <2> QED BY <1>9, <2>1, <2>2, SameShape, NotClearing DEF Free
<1>10. ASSUME NEW t \in Thread, ClearNode(t) PROVE ListShape' /\ FdsDiffer'
  <2>1. cur[t] = list[1] /\ 1 \in DOMAIN list /\ list # <<>> /\ cur[t] \in Slot
        /\ mem[cur[t]] \in Node
    BY <1>10, InLoop DEF ClearNode
  <2>2. list' = Tail(list) /\ alloc' = alloc \ {list[1]}
        /\ mem' = [mem EXCEPT ![list[1]].fd = NoFd]
    BY <1>10, <2>1 DEF ClearNode
  <2>3. /\ Len(list') = Len(list) - 1 /\ DOMAIN list' = 1..(Len(list) - 1)
        /\ \A j \in 1..(Len(list) - 1) : list'[j] = list[j + 1]
        /\ Linked' = Linked \ {list[1]}
    BY <2>1, <2>2, TailIs
  <2>4. Clearing'
    BY <1>10, ClientListAssumption DEF ClearNode, Clearing, Op, Inv, CallsFit
  <2>5. Len(list) \in Nat /\ DOMAIN list = 1..Len(list)
    BY ListFacts
  <2> HIDE <1>10
  <2>6. \A u \in Linked \ {list[1]} : mem'[u] = mem[u]
    BY <1>1, <2>1, <2>2 DEF TypeOK
  <2>7. \A i \in DOMAIN list' :
           i + 1 \in DOMAIN list /\ list'[i] = list[i + 1] /\ list[i + 1] # list[1]
           /\ Succ(i)' = Succ(i + 1) /\ list[i + 1] \in Linked
    <3> TAKE i \in DOMAIN list'
    <3>1. i + 1 \in DOMAIN list /\ list'[i] = list[i + 1] /\ i + 1 # 1
      BY <2>3, <2>5
    <3>2. list[i + 1] # list[1]
      BY <2>1, <3>1 DEF ListShape
    <3>3. Succ(i)' = Succ(i + 1)
      BY <2>3, <2>5 DEF Succ
    <3> QED BY <3>1, <3>2, <3>3, ListFacts
  <2>8. \A i \in DOMAIN list' : mem'[list'[i]].next = Succ(i)' /\ list'[i] \in alloc'
    BY <2>2, <2>6, <2>7 DEF ListShape
  <2>9. \A i, j \in DOMAIN list' : i # j => list'[i] # list'[j]
    <3>1. \A i, j \in DOMAIN list' : i # j => i + 1 # j + 1
      BY <2>3, <2>5
    <3> QED BY <2>7, <3>1 DEF ListShape
  <2>10. FdsDiffer'
    BY <2>3, <2>6 DEF FdsDiffer
  <2> QED BY <2>4, <2>8, <2>9, <2>10 DEF ListShape
<1>11. ASSUME NEW t \in Thread, ClearHead(t) PROVE ListShape' /\ FdsDiffer'
  <2>1. cur[t] = First /\ cur[t] = Null
    BY <1>11 DEF ClearHead, Inv, Places, PositionOf
  <2>2. list = <<>>
    BY <2>1, ListFacts, EmptySeq DEF First, TypeOK
  <2>3. list' = list /\ head' = Null /\ mem' = mem
    BY <1>11 DEF ClearHead
  <2>4. DOMAIN list' = {} /\ First' = Null /\ Linked' = {}
    BY <2>2, <2>3 DEF First, Linked, ToSet
  <2> QED BY <2>3, <2>4 DEF ListShape, FdsDiffer
<1> QED BY <1>2, <1>3, <1>4, <1>5, <1>6, <1>7, <1>8, <1>9, <1>10, <1>11 DEF Next, Locked

-----------------------------------------------------------------------------
(* Where the thread that holds the mutex has come.                         *)

Place(t) == PositionOf(t) /\ ApartOf(t) /\ ClearedOf(t)

(* Only one thread is in the critical section. *)
LEMMA NoOther ==
    ASSUME Inv, NEW t \in Thread, pc[t] \in Critical, NEW u \in Thread \ {t}
    PROVE  pc[u] \notin Critical
BY DEF Inv, Holder

LEMMA OutsideNothing ==
    ASSUME NEW u \in Thread, pc'[u] \notin Critical
    PROVE  Place(u)'
BY DEF Place, PositionOf, ApartOf, ClearedOf, Critical

(* A thread that does nothing while the list stays as it is. *)
LEMMA PlaceStays ==
    ASSUME Inv, NEW u \in Thread, UNCHANGED <<list, head, alloc>>,
           pc'[u] = pc[u], cur'[u] = cur[u], prev'[u] = prev[u], call'[u] = call[u],
           UNCHANGED mem \/ (Age /\ mem' # mem)
    PROVE  Place(u)'
<1>1. PositionOf(u) /\ ApartOf(u) /\ ClearedOf(u)
  BY DEF Inv, Places
<1>2. First' = First /\ Linked' = Linked /\ \A k : Elem(k)' = Elem(k)
  BY DEF First, Linked, Elem
<1>3. CASE UNCHANGED mem
  <2>1. \A k : Before(u, k)' <=> Before(u, k)
    BY <1>2, <1>3 DEF Before
  <2> QED BY <1>1, <1>2, <1>3, <2>1 DEF Place, PositionOf, ApartOf, ClearedOf, NotInList, Op
<1>4. CASE Age /\ mem' # mem
  <2>1. PICK s \in Linked : mem' = [mem EXCEPT ![s].old = TRUE]
    BY <1>4 DEF Age
  <2>2. s \in Slot /\ mem[s] \in Node /\ mem \in [Slot -> Node]
    BY ListFacts DEF Inv, TypeOK
  <2> DEFINE e == [mem[s] EXCEPT !.old = TRUE]
  <2>3. e.fd = mem[s].fd /\ e.next = mem[s].next /\ e.name = mem[s].name /\ e.ip = mem[s].ip
    BY <2>2 DEF Node
  <2>4. mem' = [mem EXCEPT ![s] = e]
    BY <2>1
  <2> HIDE DEF e
  <2>5. \A x \in Slot : /\ mem'[x].fd = mem[x].fd /\ mem'[x].next = mem[x].next
                        /\ mem'[x].name = mem[x].name /\ mem'[x].ip = mem[x].ip
    BY <2>2, <2>3, <2>4
  <2>6. mutex = u => Op(u) # "cleanup"
    BY <1>4 DEF Age
  <2>7. pc[u] \in Critical => mutex = u
    BY DEF Inv, Holder
  <2>8. \A i \in DOMAIN list : list[i] \in Slot
    BY ListFacts DEF Inv
  <2>9. pc[u] \in Critical =>
           \A i \in DOMAIN list : Meets(call[u], mem'[list[i]]) <=> Meets(call[u], mem[list[i]])
    BY <2>5, <2>6, <2>7, <2>8 DEF Meets, Op
  <2>10. pc[u] \in Critical => \A k : Before(u, k) => Before(u, k)'
    <3> SUFFICES ASSUME pc[u] \in Critical, NEW k, Before(u, k)
                 PROVE  Before(u, k)'
      OBVIOUS
    <3>1. k \in 1..(Len(list) + 1) /\ 1..(k - 1) \subseteq DOMAIN list
      BY ListFacts DEF Before, Inv
    <3> QED BY <1>2, <2>9, <3>1 DEF Before
  <2>11. \A x \in Linked : x \in Slot
    BY ListFacts DEF Inv
  <2>12. \A x \in Slot : NotInList(x) => NotInList(x)'
    BY <1>2, <2>5, <2>11 DEF NotInList
  <2>13. pc[u] \in {"link", "publish", "free"} => cur[u] \in Slot
    BY InCall
  <2>14. PositionOf(u)'
    BY <1>1, <1>2, <2>10 DEF PositionOf, Op, Critical
  <2>15. ApartOf(u)'
    <3>1. pc[u] = "link" => NotInList(cur[u])' /\ (mem[cur[u]].fd = call[u].fd)'
      BY <1>1, <2>5, <2>12, <2>13 DEF ApartOf
    <3>2. pc[u] = "publish" => NotInList(cur[u])' /\ (mem[cur[u]].next = head)'
      BY <1>1, <2>5, <2>12, <2>13 DEF ApartOf
    <3>3. pc[u] = "free" => NotInList(cur[u])'
      BY <1>1, <2>12, <2>13 DEF ApartOf
    <3>4. pc[u] = "free" /\ Op(u) = "cleanup" =>
            \E k \in 1..(Len(list) + 1) : Before(u, k)' /\ (mem[cur[u]].next = Elem(k))'
      BY <1>1, <1>2, <2>5, <2>10, <2>13 DEF ApartOf, Critical
    <3> QED BY <3>1, <3>2, <3>3, <3>4 DEF ApartOf, Op
  <2> QED BY <1>1, <2>14, <2>15 DEF Place, ClearedOf, Op
<1> QED BY <1>3, <1>4

(* Where the thread with the mutex is after a step of its own. *)
LEMMA OwnPlace ==
    ASSUME Inv, Next, NEW t \in Thread, Locked(t)
    PROVE  Place(t)'
<1> USE DEF At, callVars, memVars
<1>0. /\ TypeOK /\ TypeOK' /\ pc \in [Thread -> Label] /\ call \in [Thread -> Call \cup {Null}]
      /\ cur \in [Thread -> Slot \cup {Null}] /\ prev \in [Thread -> Slot \cup {Null}]
  BY TypesKept DEF Inv, TypeOK
<1>1. Len(list) \in Nat /\ DOMAIN list = 1..Len(list)
  BY <1>0, ListFacts
<1>2. CASE Advance(t)
  <2>1. PICK k \in DOMAIN list :
           cur[t] = list[k] /\ Before(t, k) /\ mem[cur[t]].next = Elem(k + 1)
    BY <1>2, InLoop DEF Advance
  <2>2. /\ UNCHANGED <<list, mem, call, pc>> /\ ~Meets(call[t], mem[list[k]])
        /\ prev' = [prev EXCEPT ![t] = list[k]] /\ cur' = [cur EXCEPT ![t] = Elem(k + 1)]
    BY <1>2, <2>1 DEF Advance
  <2>3. prev'[t] = list[k] /\ cur'[t] = Elem(k + 1) /\ pc'[t] = "loop" /\ Op(t)' # "clear"
    BY <1>0, <1>2, <2>2 DEF Advance, Op
  <2>4. \A m : Elem(m)' = Elem(m)
    BY <2>2 DEF Elem
  <2>5. k + 1 \in 1..(Len(list) + 1) /\ (k + 1) - 1 = k /\ Elem(k) = list[k]
        /\ \A i \in 1..k : i = k \/ i \in 1..(k - 1)
    BY <1>0, <1>1, ListFacts
  <2>6. Before(t, k + 1)'
    BY <2>1, <2>2, <2>3, <2>4, <2>5 DEF Before
  <2>7. k + 1 \in 1..(Len(list') + 1)
    BY <2>2, <2>5
  <2> QED BY <2>3, <2>4, <2>6, <2>7 DEF Place, PositionOf, ApartOf, ClearedOf
<1>3. CASE Found(t) \/ Update(t)
  <2>1. call[t] \in Call /\ Op(t) # "clear"
    BY <1>3, InLoop DEF Found, Update, Here, Finders, Setters
  <2>2. pc'[t] = "unlock" /\ Op(t)' # "clear"
    BY <1>0, <1>3, <2>1 DEF Found, Update, Goto, Op
  <2> QED BY <2>2 DEF Place, PositionOf, ApartOf, ClearedOf
<1>4. CASE NotFound(t) \/ MallocFails(t)
  <2>1. pc'[t] \in {"unlock", "relock"} /\ Op(t)' # "clear"
    BY <1>0, <1>4 DEF NotFound, MallocFails, Goto, Op
  <2> QED BY <2>1 DEF Place, PositionOf, ApartOf, ClearedOf
<1>5. CASE Unlock(t)
  <2>1. pc'[t] \in {"idle", "exited"}
    BY <1>0, <1>5 DEF Unlock, Goto
  <2> QED BY <2>1 DEF Place, PositionOf, ApartOf, ClearedOf
<1>6. CASE Malloc(t)
  <2>1. PICK s \in Slot \ alloc :
           /\ alloc' = alloc \cup {s}
           /\ mem' = [mem EXCEPT ![s] = Enters(call[t], mem[s])]
           /\ cur' = [cur EXCEPT ![t] = s]
    BY <1>6 DEF Malloc
  <2>2. /\ pc[t] = "loop" /\ cur[t] = Null /\ Op(t) = "add" /\ call' = call /\ list' = list
        /\ pc'[t] = "link" /\ cur'[t] = s /\ call[t] \in Call
    BY <1>0, <1>6, <2>1, InCall DEF Malloc, Goto
  <2>3. PICK k \in 1..(Len(list) + 1) : Before(t, k) /\ cur[t] = Elem(k)
    BY <2>2 DEF Inv, Places, PositionOf
  <2>4. k = Len(list) + 1
    BY <1>0, <1>1, <2>2, <2>3, ListFacts
  <2>5. \A i \in DOMAIN list : mem[list[i]].fd # call[t].fd
    BY <1>1, <2>2, <2>3, <2>4 DEF Before, Meets, ByFd, Op
  <2>6. s \notin Linked
    BY <1>0, <2>1, ListFacts DEF Inv, ListShape
  <2>7. mem'[s].fd = call[t].fd /\ \A u \in Linked : mem'[u] = mem[u]
    BY <1>0, <2>1, <2>2, <2>6, EntersIs, ListFacts DEF TypeOK
  <2>8. \A u \in Linked : mem[u].fd # call[t].fd
    BY <1>0, <2>5, ListFacts
  <2>9. NotInList(s)'
    BY <2>1, <2>2, <2>6, <2>7, <2>8 DEF NotInList, Linked
  <2> QED BY <2>2, <2>7, <2>9 DEF Place, PositionOf, ApartOf, ClearedOf
<1>7. CASE Link(t)
  <2>1. NotInList(cur[t]) /\ cur[t] \in Slot /\ mem[cur[t]] \in Node
    BY <1>7, InCall DEF Link, Inv, Places, ApartOf
  <2>2. /\ pc'[t] = "publish" /\ cur' = cur /\ UNCHANGED <<list, head, alloc>>
        /\ mem' = [mem EXCEPT ![cur[t]].next = head]
    BY <1>0, <1>7 DEF Link, Goto
  <2>3. mem'[cur[t]].fd = mem[cur[t]].fd /\ mem'[cur[t]].next = head
    BY <1>0, <2>1, <2>2 DEF TypeOK, Node
  <2>4. \A u \in Linked : mem'[u] = mem[u]
    BY <1>0, <2>1, <2>2, ListFacts DEF NotInList, TypeOK
  <2>5. NotInList(cur[t])'
    BY <2>1, <2>2, <2>3, <2>4 DEF NotInList, Linked
  <2> QED BY <2>2, <2>3, <2>5 DEF Place, PositionOf, ApartOf, ClearedOf
<1>8. CASE Publish(t)
  <2>1. pc'[t] = "unlock" /\ Op(t) = "add" /\ Op(t)' = Op(t)
    BY <1>0, <1>8 DEF Publish, Goto, Op, Inv, CallsFit
  <2> QED BY <2>1 DEF Place, PositionOf, ApartOf, ClearedOf
<1>9. CASE Unlink(t)
  <2>1. PICK k \in DOMAIN list : TakesOut(t, k)
    BY <1>9, UnlinkIs
  <2>2. /\ pc'[t] = "free" /\ UNCHANGED <<cur, prev, call, alloc>>
    BY <1>0, <1>9 DEF Unlink, Goto
  <2> HIDE <1>9
  <2>3. /\ cur[t] = list[k] /\ list[k] \in Slot /\ list[k] \in alloc /\ list[k] \in Linked
    BY <1>0, <2>1, ListFacts DEF TakesOut, Inv, ListShape
  <2>4. NotInList(cur[t])'
    <3>1. Linked' = Linked \ {list[k]} /\ \A s \in Slot : mem'[s].fd = mem[s].fd
      BY <2>1 DEF TakesOut
    <3>2. \A u \in Linked : u \in Slot /\ (u # list[k] => mem[u].fd # mem[list[k]].fd)
      BY <1>0, <2>3, ListFacts DEF Inv, FdsDiffer
    <3> QED BY <2>2, <2>3, <3>1, <3>2 DEF NotInList
  <2>5. Before(t, k)' /\ k \in 1..(Len(list') + 1)
    <3>1. k \in 1..(Len(list') + 1)
      BY <1>1, <2>1 DEF TakesOut
    <3>2. prev'[t] = Elem(k - 1)'
      BY <1>1, <2>1, <2>2 DEF TakesOut, Before
    <3>3. \A i \in 1..(k - 1) : list'[i] = list[i] /\ list[i] \in Slot
      <4>1. \A i \in 1..(k - 1) : i < k /\ i \in DOMAIN list /\ i \in 1..(Len(list) - 1)
        BY <1>1
      <4>2. \A i \in 1..(Len(list) - 1) : list'[i] = IF i < k THEN list[i] ELSE list[i + 1]
        BY <2>1 DEF TakesOut
      <4> QED BY <1>0, <4>1, <4>2, ListFacts
    <3>4. \A s \in Slot : Meets(call[t], mem'[s]) <=> Meets(call[t], mem[s])
      BY <2>1 DEF TakesOut, Meets
    <3>5. \A i \in 1..(k - 1) : ~Meets(call[t], mem[list[i]])
      BY <2>1 DEF TakesOut, Before
    <3> QED BY <2>2, <3>1, <3>2, <3>3, <3>4, <3>5 DEF Before
  <2>6. mem'[cur[t]].next = Elem(k)'
    <3>1. Elem(k)' = Elem(k + 1)
      BY <1>1, <2>1 DEF TakesOut
    <3>2. list[k] # Elem(k - 1)
      BY <1>0, <1>1, ListFacts DEF Inv, ListShape
    <3> QED BY <2>1, <2>3, <3>1, <3>2 DEF TakesOut
  <2> QED BY <2>2, <2>4, <2>5, <2>6 DEF Place, PositionOf, ApartOf, ClearedOf
<1>10. CASE Free(t)
  <2>1. NotInList(cur[t]) /\ cur[t] \in Slot /\ mem[cur[t]] \in Node
        /\ Op(t) # "clear"
    BY <1>10, InCall DEF Free, Inv, Places, ApartOf, CallsFit, Removers
  <2>2. UNCHANGED <<list, prev, call>> /\ mem' = [mem EXCEPT ![cur[t]].fd = NoFd]
    BY <1>10 DEF Free
  <2>3. Op(t)' = Op(t) /\ Linked' = Linked /\ \A k : Elem(k)' = Elem(k)
    BY <2>2 DEF Op, Linked, Elem
  <2>4. CASE Op(t) # "cleanup"
    <3>1. pc'[t] = "unlock"
      BY <1>0, <1>10, <2>4 DEF Free, Goto
    <3> QED BY <2>1, <2>3, <3>1 DEF Place, PositionOf, ApartOf, ClearedOf
  <2>5. CASE Op(t) = "cleanup"
    <3>1. pc'[t] = "loop" /\ cur'[t] = mem[cur[t]].next /\ pc[t] = "free"
      BY <1>0, <1>10, <2>5 DEF Free, Goto
    <3>2. PICK k \in 1..(Len(list) + 1) : Before(t, k) /\ mem[cur[t]].next = Elem(k)
      BY <2>5, <3>1 DEF Inv, Places, ApartOf
    <3>3. \A u \in Linked : mem'[u] = mem[u]
      BY <1>0, <2>1, <2>2, ListFacts DEF NotInList, TypeOK
    <3>4. \A i \in 1..(k - 1) : list[i] \in Linked
      BY <1>0, <1>1, ListFacts
    <3>5. Before(t, k)'
      BY <2>2, <2>3, <3>2, <3>3, <3>4 DEF Before
    <3>6. k \in 1..(Len(list') + 1)
      BY <2>2
    <3> QED BY <2>1, <2>3, <3>1, <3>2, <3>5, <3>6 DEF Place, PositionOf, ApartOf, ClearedOf
  <2> QED BY <2>4, <2>5
<1>11. CASE ClearNode(t)
  <2>1. cur[t] = list[1] /\ 1 \in DOMAIN list /\ list # <<>>
    BY <1>11, InLoop DEF ClearNode
  <2>2. /\ pc' = pc /\ pc[t] = "loop" /\ call' = call /\ Op(t) = "clear"
        /\ cur'[t] = mem[list[1]].next /\ list' = Tail(list)
    BY <1>0, <1>11, <2>1 DEF ClearNode
  <2>3. cur'[t] = Succ(1)
    BY <2>1, <2>2 DEF Inv, ListShape
  <2>4. Len(list') = Len(list) - 1 /\ \A j \in 1..(Len(list) - 1) : list'[j] = list[j + 1]
    BY <1>0, <2>1, <2>2, TailIs DEF Inv
  <2>5. First' = Succ(1)
    <3>1. list' \in Seq(Slot)
      BY <1>0 DEF TypeOK
    <3>2. CASE Len(list) = 1
      <4>1. list' = <<>>
        BY <2>4, <3>1, <3>2, EmptySeq
      <4> QED BY <3>2, <4>1 DEF First, Succ
    <3>3. CASE Len(list) > 1
      <4>1. list' # <<>> /\ list'[1] = list[2]
        BY <1>1, <2>4, <3>1, <3>3, EmptySeq
      <4> QED BY <3>3, <4>1 DEF First, Succ
    <3> QED BY <1>1, <2>1, <3>2, <3>3
  <2> HIDE <1>11
  <2>6. pc'[t] = "loop" /\ Op(t)' = "clear" /\ cur'[t] = First'
    BY <2>2, <2>3, <2>5 DEF Op
  <2> QED BY <2>6 DEF Place, PositionOf, ApartOf, ClearedOf
<1>12. CASE ClearHead(t)
  <2>1. cur[t] = First /\ cur[t] = Null
    BY <1>12 DEF ClearHead, Inv, Places, PositionOf
  <2>2. list = <<>>
    BY <1>0, <2>1, ListFacts, EmptySeq DEF First, TypeOK
  <2>3. list' = <<>> /\ head' = Null /\ pc'[t] = "unlock"
    BY <1>0, <1>12, <2>2 DEF ClearHead, Goto
  <2> QED BY <2>3 DEF Place, PositionOf, ApartOf, ClearedOf
<1> QED BY <1>2, <1>3, <1>4, <1>5, <1>6, <1>7, <1>8, <1>9, <1>10, <1>11, <1>12 DEF Locked

LEMMA PlacesKept == ASSUME Inv, Next PROVE Places'
<1> USE DEF At, callVars, memVars
<1>0. TypeOK /\ TypeOK' /\ pc \in [Thread -> Label] /\ call \in [Thread -> Call \cup {Null}]
  BY TypesKept DEF Inv, TypeOK
<1>1. CASE Age
  <2>1. \A u \in Thread : Place(u)'
    BY <1>1, PlaceStays DEF Age
  <2> QED BY <2>1 DEF Places, Place
<1>2. ASSUME NEW t \in Thread, Invoke(t) \/ Walk(t) PROVE Places'
  <2>1. UNCHANGED <<list, head, alloc, mem>>
    BY <1>2 DEF Invoke, Walk, WalkStart, WalkVisit, WalkNext, WalkEnd
  <2>2. pc'[t] \notin Critical
    BY <1>0, <1>2 DEF Invoke, Walk, WalkStart, WalkVisit, WalkNext, WalkEnd, Goto, Critical
  <2>3. \A u \in Thread \ {t} :
           pc'[u] = pc[u] /\ cur'[u] = cur[u] /\ prev'[u] = prev[u] /\ call'[u] = call[u]
    BY <1>2, <1>0 DEF Invoke, Walk, WalkStart, WalkVisit, WalkNext, WalkEnd, Goto, TypeOK
  <2>4. \A u \in Thread : Place(u)'
    BY <2>1, <2>2, <2>3, PlaceStays, OutsideNothing
  <2> QED BY <2>4 DEF Places, Place
<1>3. ASSUME NEW t \in Thread, Lock(t) PROVE Places'
  <2>1. UNCHANGED <<list, head, alloc, mem, call, prev>> /\ pc[t] = "lock" /\ mutex = Null
    BY <1>3 DEF Lock
  <2>2. \A u \in Thread \ {t} :
           pc'[u] = pc[u] /\ cur'[u] = cur[u] /\ prev'[u] = prev[u] /\ call'[u] = call[u]
    BY <1>0, <1>3 DEF Lock, Goto, TypeOK
  <2>3. pc'[t] = "loop" /\ cur'[t] = head
    BY <1>0, <1>3 DEF Lock, Goto, TypeOK
  <2>4. head = First
    <3>1. \A u \in Thread : pc[u] \notin Critical
      BY <2>1, ClientListAssumption DEF Inv, Holder
    <3>2. ~Clearing
      BY <3>1 DEF Clearing, Critical
    <3> QED BY <3>2 DEF Inv, ListShape
  <2>5. Place(t)'
    <3>1. First' = First /\ 1 \in 1..(Len(list) + 1) /\ \A k : Elem(k)' = Elem(k)
      BY <2>1, ListFacts DEF First, Elem
    <3>2. prev[t] = Null /\ Elem(0) = Null
      BY <2>1, ListFacts DEF Inv, Fresh, Critical
    <3>3. Before(t, 1)'
      BY <2>1, <3>1, <3>2 DEF Before
    <3>4. First' = Elem(1)' /\ 1 \in 1..(Len(list') + 1)
      BY <1>0, <2>1, <3>1, ListFacts
    <3>5. PositionOf(t)'
      BY <2>1, <2>3, <2>4, <3>1, <3>3, <3>4 DEF PositionOf
    <3> QED BY <2>3, <3>5 DEF Place, ApartOf, ClearedOf
  <2>6. \A u \in Thread : Place(u)'
    BY <2>1, <2>2, <2>5, PlaceStays
  <2> QED BY <2>6 DEF Places, Place
<1>4. ASSUME NEW t \in Thread, Locked(t) PROVE Places'
  <2>1. pc[t] \in Critical
    BY <1>4 DEF Locked, Advance, Found, NotFound, MallocFails, Malloc, Link, Publish, Update,
                Unlink, Free, ClearNode, ClearHead, Unlock, Here, Critical
  <2>2. \A u \in Thread \ {t} : pc'[u] = pc[u]
    BY <1>0, <1>4 DEF Locked, Advance, Found, NotFound, MallocFails, Malloc, Link, Publish, Update,
                Unlink, Free, ClearNode, ClearHead, Unlock, Here, Goto
  <2>3. \A u \in Thread \ {t} : Place(u)'
    BY <2>1, <2>2, NoOther, OutsideNothing
  <2>4. Place(t)'
    BY <1>4, OwnPlace
  <2>5. \A u \in Thread : Place(u)'
    BY <2>3, <2>4
  <2> QED BY <2>5 DEF Places, Place
<1> QED BY <1>1, <1>2, <1>3, <1>4 DEF Next

-----------------------------------------------------------------------------
(* Those who walk without the lock.                                        *)

(* Every other step leaves them where they are. *)
LEMMA WalkersStay ==
    ASSUME Inv, Next, \A t \in Thread : ~Walk(t)
    PROVE  \A u \in Thread :
             /\ pc'[u] \in {"visit", "next"} => pc'[u] = pc[u] /\ cur'[u] = cur[u]
             /\ due'[u] \subseteq due[u]
<1> USE DEF callVars, memVars
<1>0. /\ pc \in [Thread -> Label] /\ cur \in [Thread -> Slot \cup {Null}]
      /\ due \in [Thread -> SUBSET Slot]
  BY DEF Inv, TypeOK
<1>1. CASE Age
  BY <1>1 DEF Age
<1>2. ASSUME NEW t \in Thread, Invoke(t) \/ Lock(t) \/ Locked(t)
      PROVE  /\ \A u \in Thread \ {t} : pc'[u] = pc[u] /\ cur'[u] = cur[u]
             /\ pc'[t] \notin {"visit", "next"}
  BY <1>0, <1>2 DEF Invoke, Lock, Locked, Advance, Found, NotFound, MallocFails, Malloc, Link,
                    Publish, Update, Unlink, Free, ClearNode, ClearHead, Unlock, Here, Goto, At
<1>3. ASSUME NEW t \in Thread, Invoke(t) \/ Lock(t) \/ Locked(t)
      PROVE  \A u \in Thread : due'[u] \subseteq due[u]
  <2>1. due' = due \/ due' = Drop(cur[t])
    BY <1>3 DEF Invoke, Lock, Locked, Advance, Found, NotFound, MallocFails, Malloc, Link,
                Publish, Update, Unlink, Free, ClearNode, ClearHead, Unlock
  <2> QED BY <1>0, <2>1 DEF Drop
<1> QED BY <1>1, <1>2, <1>3 DEF Next

(* A thread that clears the list is the only one there is. *)
LEMMA NobodyWalks ==
    ASSUME Inv, NEW t \in Thread, call[t] # Null, Op(t) = "clear"
    PROVE  \A u \in Thread : due[u] = {} /\ pc[u] \notin {"visit", "next"}
<1>1. \A u \in Thread \ {t} : call[u] = Null /\ pc[u] \in {"idle", "exited"}
  BY DEF Inv, Alone, CallsFit
<1>2. pc[t] \notin {"visit", "next"}
  BY DEF Inv, CallsFit
<1> QED BY <1>1, <1>2 DEF Inv, DueAreMembers

(* Steps that make no member of the list another. *)
LEMMA DueStays ==
    ASSUME Inv, TypeOK', Linked \subseteq Linked',
           \A s \in Linked : mem'[s].state = mem[s].state
    PROVE  Members \subseteq Members'
BY DEF Members

LEMMA DueKept == ASSUME Inv, Next PROVE DueAreMembers'
<1> USE DEF callVars, memVars, At
<1>0. /\ TypeOK /\ TypeOK' /\ ListShape /\ DueAreMembers
      /\ pc \in [Thread -> Label] /\ cur \in [Thread -> Slot \cup {Null}]
      /\ due \in [Thread -> SUBSET Slot] /\ mem \in [Slot -> Node]
  BY TypesKept DEF Inv, TypeOK
<1>1. CASE \E t \in Thread : Walk(t)
  <2>1. PICK t \in Thread : Walk(t)
    BY <1>1
  <2>2. UNCHANGED <<list, mem>> /\ Members' = Members
    BY <2>1 DEF Walk, WalkStart, WalkVisit, WalkNext, WalkEnd, Members, Linked
  <2>3. \A u \in Thread \ {t} : pc'[u] = pc[u] /\ cur'[u] = cur[u] /\ due'[u] = due[u]
    BY <1>0, <2>1 DEF Walk, WalkStart, WalkVisit, WalkNext, WalkEnd, Goto
  <2>4. /\ due'[t] \subseteq Members
        /\ pc'[t] \notin {"visit", "next"} => due'[t] = {}
        /\ pc'[t] = "next" => cur'[t] # Null
    <3>1. CASE WalkStart(t)
      BY <1>0, <3>1 DEF WalkStart, Goto
    <3>2. CASE WalkVisit(t)
      BY <1>0, <3>2 DEF WalkVisit, Goto, DueAreMembers
    <3>3. CASE WalkNext(t)
      BY <1>0, <3>3 DEF WalkNext, Goto, DueAreMembers
    <3>4. CASE WalkEnd(t)
      BY <1>0, <3>4 DEF WalkEnd, Goto, DueAreMembers
    <3> QED BY <2>1, <3>1, <3>2, <3>3, <3>4 DEF Walk
  <2> QED BY <1>0, <2>2, <2>3, <2>4 DEF DueAreMembers
<1>2. CASE \A t \in Thread : ~Walk(t)
  <2>1. \A u \in Thread :
           /\ pc'[u] \in {"visit", "next"} => pc'[u] = pc[u] /\ cur'[u] = cur[u]
           /\ due'[u] \subseteq due[u]
    BY <1>2, WalkersStay
  <2>2. \A u \in Thread : pc'[u] \notin {"visit", "next"} => due'[u] = {}
    <3>1. CASE Age
      BY <1>0, <3>1 DEF Age, DueAreMembers
    <3>2. ASSUME NEW t \in Thread, Invoke(t) \/ Lock(t) \/ Locked(t)
          PROVE  pc[t] \notin {"visit", "next"} /\ \A u \in Thread \ {t} : pc'[u] = pc[u]
      BY <1>0, <3>2 DEF Invoke, Lock, Locked, Advance, Found, NotFound, MallocFails, Malloc, Link,
                    Publish, Update, Unlink, Free, ClearNode, ClearHead, Unlock, Here, Goto
    <3> QED BY <1>0, <1>2, <2>1, <3>1, <3>2 DEF Next, DueAreMembers
  <2>3. SUFFICES \A u \in Thread : due'[u] \subseteq Members'
    BY <1>0, <2>1, <2>2 DEF DueAreMembers
  <2>4. ASSUME Members \subseteq Members' PROVE \A u \in Thread : due'[u] \subseteq Members'
    BY <1>0, <2>1, <2>4 DEF DueAreMembers
  <2>5. CASE Age
    <3>1. PICK s \in Linked : mem' = [mem EXCEPT ![s].old = TRUE]
      BY <2>5 DEF Age
    <3>2. s \in Slot /\ mem[s] \in Node
      BY <1>0, ListFacts
    <3>3. [mem[s] EXCEPT !.old = TRUE].state = mem[s].state
      BY <3>2 DEF Node
    <3>4. \A x \in Slot : mem'[x].state = mem[x].state
      BY <1>0, <3>1, <3>2, <3>3
    <3>5. Linked' = Linked
      BY <2>5 DEF Age, Linked
    <3> QED BY <1>0, <2>4, <3>4, <3>5, DueStays, ListFacts
  <2>6. ASSUME NEW t \in Thread,
               \/ Invoke(t) \/ Lock(t) \/ Advance(t) \/ Found(t) \/ NotFound(t)
               \/ MallocFails(t) \/ Unlock(t) \/ ClearHead(t)
        PROVE  Members' = Members
    BY <2>6 DEF Invoke, Lock, Advance, Found, NotFound, MallocFails, Unlock, ClearHead,
                Members, Linked
  <2>7. ASSUME NEW t \in Thread, Malloc(t) PROVE Members' = Members
    <3>1. PICK s \in Slot \ alloc : mem' = [mem EXCEPT ![s] = Enters(call[t], @)]
      BY <2>7 DEF Malloc
    <3>2. s \notin Linked /\ list' = list
      BY <1>0, <2>7, <3>1, ListFacts DEF ListShape, Malloc
    <3>3. \A x \in Linked : mem'[x] = mem[x]
      BY <1>0, <3>1, <3>2, ListFacts
    <3> QED BY <3>2, <3>3 DEF Members, Linked
  <2>8. ASSUME NEW t \in Thread, Link(t) \/ Free(t) PROVE Members' = Members
    <3>1. cur[t] \notin Linked
      BY <2>8, InCall DEF Link, Free
    <3>2. \A x \in Linked : mem'[x] = mem[x]
      BY <1>0, <2>8, <3>1, ListFacts DEF Link, Free
    <3>3. list' = list
      BY <2>8 DEF Link, Free
    <3> QED BY <3>2, <3>3 DEF Members, Linked
  <2>9. ASSUME NEW t \in Thread, Publish(t) PROVE Members \subseteq Members'
    <3>1. cur[t] \in Slot /\ mem' = mem /\ list' = <<cur[t]>> \o list
      BY <2>9, InCall DEF Publish
    <3>2. Linked' = Linked \cup {cur[t]}
      BY <1>0, <3>1, PutInIs
    <3> QED BY <3>1, <3>2 DEF Members
  <2>10. ASSUME NEW t \in Thread, Update(t) PROVE \A u \in Thread : due'[u] \subseteq Members'
    <3>1. cur[t] \in Slot /\ list' = list
          /\ mem' = [mem EXCEPT ![cur[t]] = Changed(call[t], mem[cur[t]])]
      BY <2>10, InLoop DEF Update, Here
    <3>2. Linked' = Linked /\ \A x \in Linked : x # cur[t] => mem'[x] = mem[x]
      BY <1>0, <3>1, ListFacts DEF Linked
    <3>3. CASE mem'[cur[t]].state = "auth"
      BY <2>4, <3>2, <3>3 DEF Members
    <3>4. CASE mem'[cur[t]].state # "auth"
      <4>1. \A u \in Thread : due'[u] = due[u] \ {cur[t]}
        BY <1>0, <2>10, <3>4 DEF Update, Drop
      <4> QED BY <1>0, <3>2, <4>1 DEF Members, DueAreMembers
    <3> QED BY <3>3, <3>4
  <2>11. ASSUME NEW t \in Thread, Unlink(t) PROVE \A u \in Thread : due'[u] \subseteq Members'
    <3>1. PICK k \in DOMAIN list : TakesOut(t, k)
      BY <2>11, UnlinkIs
    <3>2. \A u \in Thread : due'[u] = due[u] \ {list[k]}
      BY <1>0, <2>11, <3>1 DEF Unlink, Drop, TakesOut
    <3>3. Linked' = Linked \ {list[k]}
      BY <3>1 DEF TakesOut
    <3>4. \A s \in Linked : mem'[s].state = mem[s].state
      <4>1. \A s \in Slot : mem'[s].state = mem[s].state
        BY <3>1 DEF TakesOut
      <4>2. \A s \in Linked : s \in Slot
        BY <1>0, ListFacts
      <4> QED BY <4>1, <4>2
    <3>5. Members' = Members \ {list[k]}
      BY <3>3, <3>4 DEF Members
    <3> QED BY <1>0, <3>2, <3>5 DEF DueAreMembers
  <2>12. ASSUME NEW t \in Thread, ClearNode(t) PROVE \A u \in Thread : due'[u] \subseteq Members'
    <3>1. call[t] # Null /\ Op(t) = "clear" /\ due' = due
      BY <2>12, InLoop, ClientListAssumption DEF ClearNode
    <3> QED BY <3>1, NobodyWalks
  <2> QED BY <1>2, <2>4, <2>5, <2>6, <2>7, <2>8, <2>9, <2>10, <2>11, <2>12 DEF Next, Locked
<1> QED BY <1>1, <1>2

-----------------------------------------------------------------------------
(* What lies ahead of a walk.                                              *)

(* A cover of the list after a step is one before it, or is made from it. *)
LEMMA SameCover ==
    ASSUME Inv, TypeOK', NEW cov \in [Slot -> SUBSET Slot], IsCover(cov), list' = list,
           \A s \in Slot : mem'[s].next = mem[s].next,
           ~Clearing' => (~Clearing /\ head' = head) \/ Linked = {},
           \A t \in Thread :
              /\ pc'[t] = "visit" => due'[t] \subseteq Covers(cov, cur'[t])
              /\ pc'[t] = "next" => due'[t] \subseteq Covers(cov, mem'[cur'[t]].next)
    PROVE  Covered'
<1>1. Linked' = Linked
  BY DEF Linked
<1>2. IsCover(cov)'
  BY <1>1 DEF IsCover, Covers
<1> QED BY <1>2 DEF Covered

(* The nodes ahead of the walks when they are not moving. *)
LEMMA AheadStays ==
    ASSUME Inv, TypeOK', Next, \A t \in Thread : ~Walk(t), DueAreMembers',
           NEW cov \in [Slot -> SUBSET Slot], IsCover(cov),
           \A s \in Slot : mem'[s].next = mem[s].next
    PROVE  \A t \in Thread :
              /\ pc'[t] = "visit" => due'[t] \subseteq Covers(cov, cur'[t])
              /\ pc'[t] = "next" => due'[t] \subseteq Covers(cov, mem'[cur'[t]].next)
<1> TAKE t \in Thread
<1>1. /\ pc'[t] \in {"visit", "next"} => pc'[t] = pc[t] /\ cur'[t] = cur[t]
      /\ due'[t] \subseteq due[t]
  BY WalkersStay
<1>2. pc'[t] = "next" => cur'[t] \in Slot
  BY DEF TypeOK, DueAreMembers
<1> QED BY <1>1, <1>2 DEF IsCover

(* A thread that is unlocking after clear_client_list has left no node. *)
LEMMA AfterUnlock ==
    ASSUME Inv, NEW t \in Thread, Unlock(t)
    PROVE  ~Clearing' => (~Clearing /\ head' = head) \/ Linked = {}
<1>1. pc[t] = "unlock" /\ call[t] # Null /\ head' = head
  BY DEF Unlock, At, Inv, CallsFit, memVars
<1>2. CASE Op(t) = "clear"
  <2>1. list = <<>>
    BY <1>1, <1>2 DEF Inv, Places, ClearedOf
  <2> QED BY <2>1 DEF Linked, ToSet
<1>3. CASE Op(t) # "clear"
  BY <1>1, <1>3, NotClearing
<1> QED BY <1>2, <1>3

LEMMA CoverKept == ASSUME Inv, Next PROVE Covered'
<1> USE DEF callVars, memVars, At
<1>0. /\ TypeOK /\ TypeOK' /\ ListShape /\ DueAreMembers /\ DueAreMembers'
      /\ pc \in [Thread -> Label] /\ cur \in [Thread -> Slot \cup {Null}]
      /\ due \in [Thread -> SUBSET Slot] /\ mem \in [Slot -> Node]
  BY TypesKept, DueKept DEF Inv, TypeOK
<1>1. PICK cov \in [Slot -> SUBSET Slot] : IsCover(cov)
  BY DEF Inv, Covered
<1>2. ASSUME \A t \in Thread : ~Walk(t), list' = list,
             \A s \in Slot : mem'[s].next = mem[s].next,
             head' = head \/ Clearing'
      PROVE  Covered'
  <2>1. ~Clearing' => (~Clearing /\ head' = head) \/ Linked = {}
    BY <1>2, ClearingStays, AfterUnlock
  <2> QED BY <1>0, <1>1, <1>2, <2>1, AheadStays, SameCover
<1>3. CASE \E t \in Thread : Walk(t)
  <2>1. PICK t \in Thread : Walk(t)
    BY <1>3
  <2>2. UNCHANGED <<list, head, mem>>
    BY <2>1 DEF Walk, WalkStart, WalkVisit, WalkNext, WalkEnd
  <2>3. \A u \in Thread \ {t} : pc'[u] = pc[u] /\ cur'[u] = cur[u] /\ due'[u] = due[u]
    BY <1>0, <2>1 DEF Walk, WalkStart, WalkVisit, WalkNext, WalkEnd, Goto
  <2>4. call[t] # Null /\ Op(t) = "walk"
    BY <2>1 DEF Walk, WalkStart, WalkVisit, WalkNext, WalkEnd, Inv, CallsFit
  <2>5. ~Clearing
    BY <2>4, NotClearing
  <2>6. /\ pc'[t] = "visit" => due'[t] \subseteq Covers(cov, cur'[t])
        /\ pc'[t] = "next" => due'[t] \subseteq Covers(cov, mem'[cur'[t]].next)
    <3>1. CASE WalkStart(t)
      <4>1. pc'[t] = "visit" /\ due'[t] = Members /\ cur'[t] = head
        BY <1>0, <3>1 DEF WalkStart, Goto
      <4>2. Members \subseteq Covers(cov, head)
        BY <1>1, <2>5 DEF Members, IsCover
      <4> QED BY <4>1, <4>2
    <3>2. CASE WalkVisit(t)
      <4>1. /\ pc[t] = "visit" /\ pc'[t] = "next" /\ cur'[t] = cur[t] /\ cur[t] \in Slot
            /\ due'[t] = IF mem[cur[t]].state = "auth" THEN due[t] \ {cur[t]} ELSE due[t]
        BY <1>0, <3>2 DEF WalkVisit, Goto
      <4>2. due[t] \subseteq {cur[t]} \cup Covers(cov, mem[cur[t]].next)
        BY <1>1, <4>1 DEF IsCover, Covers
      <4>3. cur[t] \notin due'[t] /\ due'[t] \subseteq due[t]
        BY <1>0, <4>1 DEF DueAreMembers, Members
      <4> QED BY <2>2, <4>1, <4>2, <4>3
    <3>3. CASE WalkNext(t)
      <4>1. /\ pc[t] = "next" /\ pc'[t] = "visit" /\ cur'[t] = mem[cur[t]].next
            /\ due'[t] = due[t]
        BY <1>0, <3>3 DEF WalkNext, Goto
      <4> QED BY <1>1, <4>1 DEF IsCover
    <3>4. CASE WalkEnd(t)
      BY <1>0, <3>4 DEF WalkEnd, Goto
    <3> QED BY <2>1, <3>1, <3>2, <3>3, <3>4 DEF Walk
  <2>7. \A u \in Thread :
           /\ pc'[u] = "visit" => due'[u] \subseteq Covers(cov, cur'[u])
           /\ pc'[u] = "next" => due'[u] \subseteq Covers(cov, mem'[cur'[u]].next)
    <3>1. ASSUME NEW u \in Thread \ {t}
          PROVE  /\ pc'[u] = "visit" => due'[u] \subseteq Covers(cov, cur'[u])
                 /\ pc'[u] = "next" => due'[u] \subseteq Covers(cov, mem'[cur'[u]].next)
      BY <1>1, <2>2, <2>3 DEF IsCover
    <3> QED BY <2>6, <3>1
  <2> HIDE <1>3
  <2> QED BY <1>0, <1>1, <2>2, <2>5, <2>7, SameCover
<1>4. CASE \A t \in Thread : ~Walk(t)
  <2>1. CASE Age
    <3>1. PICK s \in Linked : mem' = [mem EXCEPT ![s].old = TRUE]
      BY <2>1 DEF Age
    <3>2. s \in Slot /\ mem[s] \in Node
      BY <1>0, ListFacts
    <3>3. [mem[s] EXCEPT !.old = TRUE].next = mem[s].next
      BY <3>2 DEF Node
    <3>4. \A x \in Slot : mem'[x].next = mem[x].next
      BY <1>0, <3>1, <3>2, <3>3
    <3> QED BY <1>2, <1>4, <2>1, <3>4 DEF Age
  <2>2. ASSUME NEW t \in Thread,
               \/ Invoke(t) \/ Lock(t) \/ Advance(t) \/ Found(t) \/ NotFound(t)
               \/ MallocFails(t) \/ Unlock(t)
        PROVE  Covered'
    <3>1. list' = list /\ head' = head /\ mem' = mem
      BY <2>2 DEF Invoke, Lock, Advance, Found, NotFound, MallocFails, Unlock
    <3> QED BY <1>2, <1>4, <3>1
  <2>3. ASSUME NEW t \in Thread, ClearHead(t) PROVE Covered'
    <3>1. list' = list /\ mem' = mem /\ Clearing'
      BY <1>0, <2>3, ClientListAssumption DEF ClearHead, Clearing, Op, Goto, Inv, CallsFit
    <3> QED BY <1>2, <1>4, <3>1
  <2>4. ASSUME NEW t \in Thread, Malloc(t) PROVE Covered'
    <3>1. PICK s \in Slot \ alloc : mem' = [mem EXCEPT ![s] = Enters(call[t], mem[s])]
      BY <2>4 DEF Malloc
    <3>2. Enters(call[t], mem[s]).next = mem[s].next
      BY <1>0, <2>4, InCall, EntersIs DEF Malloc
    <3>3. \A x \in Slot : mem'[x].next = mem[x].next
      BY <1>0, <3>1, <3>2
    <3> QED BY <1>2, <1>4, <2>4, <3>3 DEF Malloc
  <2>5. ASSUME NEW t \in Thread, Update(t) PROVE Covered'
    <3>1. cur[t] \in Slot /\ call[t] \in Call /\ call[t].op \in Setters
          /\ mem' = [mem EXCEPT ![cur[t]] = Changed(call[t], mem[cur[t]])]
      BY <2>5, InLoop DEF Update, Here, Op
    <3>2. Changed(call[t], mem[cur[t]]).next = mem[cur[t]].next
      BY <1>0, <3>1, ChangedIs
    <3>3. \A x \in Slot : mem'[x].next = mem[x].next
      BY <1>0, <3>1, <3>2
    <3> QED BY <1>2, <1>4, <2>5, <3>3 DEF Update
  <2>6. ASSUME NEW t \in Thread, Free(t) PROVE Covered'
    <3>1. cur[t] \in Slot /\ mem[cur[t]] \in Node /\ mem' = [mem EXCEPT ![cur[t]].fd = NoFd]
      BY <2>6, InCall DEF Free
    <3>2. [mem[cur[t]] EXCEPT !.fd = NoFd].next = mem[cur[t]].next
      BY <3>1 DEF Node
    <3>3. \A x \in Slot : mem'[x].next = mem[x].next
      BY <1>0, <3>1, <3>2
    <3> QED BY <1>2, <1>4, <2>6, <3>3 DEF Free
  <2>7. ASSUME NEW t \in Thread, Link(t) PROVE Covered'
    <3> DEFINE x == cur[t]
    <3>1. x \in Slot /\ mem[x] \in Node /\ call[t] # Null /\ Op(t) # "clear"
      BY <2>7, InCall DEF Link, Inv, CallsFit
    <3>2. UNCHANGED <<list, head, alloc>> /\ mem' = [mem EXCEPT ![x].next = head]
      BY <2>7 DEF Link
    <3>3. ~Clearing /\ (Clearing => Clearing')
      BY <3>1, NotClearing
    <3>4. \A s \in Slot : mem'[s].next = IF s = x THEN head ELSE mem[s].next
      <4>1. [mem[x] EXCEPT !.next = head].next = head
        BY <3>1 DEF Node
      <4> QED BY <1>0, <3>1, <3>2, <4>1
    <3>5. \A u \in Thread :
             /\ pc'[u] \in {"visit", "next"} => pc'[u] = pc[u] /\ cur'[u] = cur[u]
             /\ due'[u] \subseteq due[u]
      BY <1>4, WalkersStay
    <3>6. \A u \in Thread : due'[u] \subseteq Linked
      BY <1>0, <3>5 DEF DueAreMembers, Members
    <3>7. Linked' = Linked /\ head' = head /\ Linked \subseteq Covers(cov, head)
          /\ Covers(cov, head)' = Covers(cov, head)
      BY <1>1, <3>2, <3>3 DEF Linked, IsCover, Covers
    <3> HIDE <2>7 DEF x
    <3>8. \A s \in Slot : cov[s] \subseteq Linked' /\ cov[s] \subseteq {s} \cup Covers(cov, mem'[s].next)
      BY <1>1, <3>4, <3>7 DEF IsCover
    <3>9. \A u \in Thread :
             /\ pc'[u] = "visit" => due'[u] \subseteq Covers(cov, cur'[u])
             /\ pc'[u] = "next" => due'[u] \subseteq Covers(cov, mem'[cur'[u]].next)
      <4> TAKE u \in Thread
      <4>1. pc'[u] = "visit" => due'[u] \subseteq Covers(cov, cur'[u])
        BY <1>1, <3>5 DEF IsCover
      <4>2. pc'[u] = "next" => cur'[u] \in Slot
        BY <1>0 DEF TypeOK, DueAreMembers
      <4>3. CASE cur'[u] = x
        BY <3>4, <3>6, <3>7, <4>1, <4>2, <4>3
      <4>4. CASE cur'[u] # x
        BY <1>1, <3>4, <3>5, <4>1, <4>2, <4>4 DEF IsCover
      <4> QED BY <4>3, <4>4
    <3>10. IsCover(cov)'
      BY <3>7, <3>8, <3>9 DEF IsCover, Covers
    <3> QED BY <3>10 DEF Covered
  <2>8. ASSUME NEW t \in Thread, Publish(t) PROVE Covered'
    <3> DEFINE x == cur[t]
               with == [s \in Slot |-> IF s = x THEN Linked \cup {x} ELSE cov[s]]
    <3>1. x \in Slot /\ call[t] # Null /\ Op(t) # "clear"
      BY <2>8, InCall DEF Publish, Inv, CallsFit
    <3>2. mem' = mem /\ head' = x /\ list' = <<x>> \o list /\ mem[x].next = head
      BY <2>8 DEF Publish, Inv, Places, ApartOf
    <3>3. Linked' = Linked \cup {x}
      BY <1>0, <3>1, <3>2, PutInIs
    <3>4. \A u \in Thread :
             /\ pc'[u] \in {"visit", "next"} => pc'[u] = pc[u] /\ cur'[u] = cur[u]
             /\ due'[u] \subseteq due[u]
      BY <1>4, WalkersStay
    <3>5. ~Clearing
      BY <3>1, NotClearing
    <3> HIDE <2>8 DEF x
    <3>6. \A s \in Linked : s \in Slot
      BY <1>0, ListFacts
    <3>7. PICK new \in [Slot -> SUBSET Slot] :
             new[x] = Linked \cup {x} /\ \A s \in Slot : s # x => new[s] = cov[s]
      <4>1. /\ with \in [Slot -> SUBSET Slot] /\ with[x] = Linked \cup {x}
            /\ \A s \in Slot : s # x => with[s] = cov[s]
        BY <1>1, <3>1, <3>6
      <4> HIDE DEF with
      <4> QED BY <4>1
    <3>8. \A s \in Slot \cup {Null} : Covers(cov, s) \subseteq Covers(new, s)
      BY <1>1, <3>7 DEF Covers, IsCover
    <3>9. head \in Slot \cup {Null} /\ \A s \in Slot : mem[s].next \in Slot \cup {Null}
      BY <1>0 DEF TypeOK, Node
    <3>10. \A s \in Slot : /\ new[s] \subseteq Linked'
                          /\ new[s] \subseteq {s} \cup Covers(new, mem[s].next)
      <4> TAKE s \in Slot
      <4>1. CASE s = x
        <5>1. Linked \subseteq Covers(cov, head)
          BY <1>1, <3>5 DEF IsCover
        <5> QED BY <3>2, <3>3, <3>7, <3>8, <3>9, <4>1, <5>1
      <4>2. CASE s # x
        <5>1. cov[s] \subseteq Linked /\ cov[s] \subseteq {s} \cup Covers(cov, mem[s].next)
          BY <1>1 DEF IsCover
        <5> QED BY <3>3, <3>7, <3>8, <3>9, <4>2, <5>1
      <4> QED BY <4>1, <4>2
    <3>11. Linked' \subseteq Covers(new, head')
      BY <3>1, <3>2, <3>3, <3>7, ClientListAssumption DEF Covers
    <3>12. \A u \in Thread :
             /\ pc'[u] = "visit" => due'[u] \subseteq Covers(new, cur'[u])
             /\ pc'[u] = "next" => due'[u] \subseteq Covers(new, mem[cur'[u]].next)
      <4> TAKE u \in Thread
      <4>1. cur'[u] \in Slot \cup {Null} /\ (pc'[u] = "next" => cur'[u] \in Slot)
        BY <1>0 DEF TypeOK, DueAreMembers
      <4>2. /\ pc'[u] = "visit" => due'[u] \subseteq Covers(cov, cur'[u])
            /\ pc'[u] = "next" => due'[u] \subseteq Covers(cov, mem[cur'[u]].next)
        BY <1>1, <3>4 DEF IsCover
      <4>3. pc'[u] = "visit" => due'[u] \subseteq Covers(new, cur'[u])
        BY <3>8, <4>1, <4>2
      <4>4. pc'[u] = "next" => due'[u] \subseteq Covers(new, mem[cur'[u]].next)
        BY <3>8, <3>9, <4>1, <4>2
      <4> QED BY <4>3, <4>4
    <3>13. IsCover(new)'
      BY <3>2, <3>10, <3>11, <3>12 DEF IsCover, Covers
    <3> QED BY <3>7, <3>13 DEF Covered
  <2>9. ASSUME NEW t \in Thread, Unlink(t) PROVE Covered'
    <3>1. PICK k \in DOMAIN list : TakesOut(t, k)
      BY <2>9, UnlinkIs
    <3> DEFINE x == list[k]
               y == Elem(k + 1)
               p == Elem(k - 1)
               without == [s \in Slot |-> cov[s] \ {x}]
    <3>2. x \in Slot /\ mem[x].next = y /\ y \in Slot \cup {Null} /\ k \in Nat /\ k # 0
      <4>1. mem[x].next = y
        BY <3>1 DEF TakesOut
      <4>2. k \in Nat /\ k # 0 /\ x \in Slot /\ y \in Slot \cup {Null}
        BY <1>0, ListFacts
      <4> QED BY <4>1, <4>2
    <3>3. /\ Linked' = Linked \ {x} /\ head = First
          /\ head' = (IF k = 1 THEN Elem(2) ELSE head)
          /\ \A s \in Slot : mem'[s].next = IF s = p THEN y ELSE mem[s].next
      BY <3>1 DEF TakesOut
    <3>4. \A s \in Slot : s = p => mem[s].next = x /\ s # x
      <4>1. p \in Slot => k - 1 \in DOMAIN list /\ p = list[k - 1] /\ k = (k - 1) + 1
        BY <1>0, ListFacts
      <4>2. p \in Slot => p # x /\ mem[p].next = Elem(k)
        BY <1>0, <4>1, ListFacts DEF ListShape
      <4> QED BY <1>0, <4>2, ListFacts
    <3>5. k = 1 => head = x /\ head' = y
      BY <1>0, <3>3, ListFacts
    <3>6. k # 1 => head' = head /\ head \in Slot \cup {Null}
      BY <1>0, <3>3 DEF TypeOK
    <3>7. \A u \in Thread :
             /\ pc'[u] \in {"visit", "next"} => pc'[u] = pc[u] /\ cur'[u] = cur[u]
             /\ due'[u] = due[u] \ {x}
      <4>1. \A u \in Thread : due'[u] = due[u] \ {x}
        BY <1>0, <2>9, <3>1 DEF Unlink, Drop, TakesOut
      <4> QED BY <1>4, <4>1, WalkersStay
    <3>8. ~Clearing
      BY <2>9, InLoop, NotClearing, ClientListAssumption DEF Unlink, Here
    <3> HIDE <2>9, <3>1 DEF x, y, p
    <3>9. PICK new \in [Slot -> SUBSET Slot] : \A s \in Slot : new[s] = cov[s] \ {x}
      <4>1. without \in [Slot -> SUBSET Slot] /\ \A s \in Slot : without[s] = cov[s] \ {x}
        BY <1>1
      <4> HIDE DEF without
      <4> QED BY <4>1
    <3>10. \A s \in Slot \cup {Null} : Covers(new, s) = Covers(cov, s) \ {x}
      BY <3>9 DEF Covers
    <3>11. \A s \in Slot : mem[s].next \in Slot \cup {Null} /\ mem'[s].next \in Slot \cup {Null}
      BY <1>0 DEF TypeOK, Node
    <3>12. Covers(cov, x) \ {x} \subseteq Covers(cov, y) \ {x}
      BY <1>1, <3>2, ClientListAssumption DEF IsCover, Covers
    <3>13. \A s \in Slot : Covers(cov, mem[s].next) \ {x} \subseteq Covers(new, mem'[s].next)
      <4> TAKE s \in Slot
      <4>1. CASE s = p
        BY <3>2, <3>3, <3>4, <3>10, <3>12, <4>1
      <4>2. CASE s # p
        BY <3>3, <3>10, <3>11, <4>2
      <4> QED BY <4>1, <4>2
    <3>14. \A s \in Slot : /\ new[s] \subseteq Linked'
                          /\ new[s] \subseteq {s} \cup Covers(new, mem'[s].next)
      <4> TAKE s \in Slot
      <4>1. cov[s] \subseteq Linked /\ cov[s] \subseteq {s} \cup Covers(cov, mem[s].next)
        BY <1>1 DEF IsCover
      <4> QED BY <3>3, <3>9, <3>13, <4>1
    <3>15. Linked' \subseteq Covers(new, head')
      <4>1. Linked \subseteq Covers(cov, head)
        BY <1>1, <3>8 DEF IsCover
      <4> QED BY <3>2, <3>3, <3>5, <3>6, <3>10, <3>12, <4>1
    <3>16. \A u \in Thread :
             /\ pc'[u] = "visit" => due'[u] \subseteq Covers(new, cur'[u])
             /\ pc'[u] = "next" => due'[u] \subseteq Covers(new, mem'[cur'[u]].next)
      <4> TAKE u \in Thread
      <4>1. cur'[u] \in Slot \cup {Null} /\ (pc'[u] = "next" => cur'[u] \in Slot)
        BY <1>0 DEF TypeOK, DueAreMembers
      <4>2. /\ pc'[u] = "visit" => due'[u] \subseteq Covers(cov, cur'[u]) \ {x}
            /\ pc'[u] = "next" => due'[u] \subseteq Covers(cov, mem[cur'[u]].next) \ {x}
        BY <1>1, <3>7 DEF IsCover
      <4>3. pc'[u] = "visit" => due'[u] \subseteq Covers(new, cur'[u])
        BY <3>10, <4>1, <4>2
      <4>4. pc'[u] = "next" => due'[u] \subseteq Covers(new, mem'[cur'[u]].next)
        BY <3>13, <4>1, <4>2
      <4> QED BY <4>3, <4>4
    <3>17. IsCover(new)'
      BY <3>14, <3>15, <3>16 DEF IsCover, Covers
    <3> QED BY <3>9, <3>17 DEF Covered
  <2>10. ASSUME NEW t \in Thread, ClearNode(t) PROVE Covered'
    <3> DEFINE new == [s \in Slot |-> {}]
    <3>1. call[t] # Null /\ Op(t) = "clear" /\ Clearing'
      BY <2>10, ClientListAssumption DEF ClearNode, Clearing, Op, Inv, CallsFit
    <3>2. \A u \in Thread : due[u] = {}
      BY <3>1, NobodyWalks
    <3>3. \A u \in Thread : due'[u] = {}
      BY <2>10, <3>2 DEF ClearNode
    <3> HIDE <2>10
    <3>4. IsCover(new)'
      BY <3>1, <3>3 DEF IsCover
    <3> QED BY <3>4 DEF Covered
  <2> QED BY <1>4, <2>1, <2>2, <2>3, <2>4, <2>5, <2>6, <2>7, <2>8, <2>9, <2>10 DEF Next, Locked
<1> QED BY <1>3, <1>4

-----------------------------------------------------------------------------
(* The invariant, and what follows from it.                                *)

LEMMA InitInv == Init => Inv
<1> SUFFICES ASSUME Init PROVE Inv
  OBVIOUS
<1> USE ClientListAssumption DEF Init
<1>1. TypeOK
  BY DEF TypeOK, Label
<1>2. DOMAIN list = {} /\ Linked = {}
  BY DEF Linked, ToSet
<1>3. ~Clearing
  BY DEF Clearing
<1>4. ListShape /\ FdsDiffer
  BY <1>2 DEF ListShape, First, FdsDiffer
<1>5. Holder /\ CallsFit /\ Fresh /\ Alone
  BY DEF Holder, CallsFit, Fresh, Alone, Critical
<1>6. Places
  BY DEF Places, PositionOf, ApartOf, ClearedOf
<1>7. DueAreMembers
  BY DEF DueAreMembers
<1>8. Covered
  <2> DEFINE cov == [s \in Slot |-> {}]
  <2>1. IsCover(cov)
    BY <1>2 DEF IsCover, Covers
  <2> QED BY <2>1 DEF Covered
<1> QED BY <1>1, <1>4, <1>5, <1>6, <1>7, <1>8 DEF Inv

LEMMA NextInv == Inv /\ [Next]_vars => Inv'
<1> SUFFICES ASSUME Inv, [Next]_vars PROVE Inv'
  OBVIOUS
<1>1. CASE Next
  BY <1>1, TypesKept, ControlKept, ShapeKept, PlacesKept, DueKept, CoverKept DEF Inv, Control
<1>2. CASE UNCHANGED vars
  <2> USE <1>2 DEF vars, memVars, callVars
  <2>1. Linked' = Linked /\ First' = First /\ Members' = Members
        /\ \A k : Elem(k)' = Elem(k) /\ Succ(k)' = Succ(k)
    BY DEF Linked, First, Members, Elem, Succ
  <2>2. TypeOK' /\ ListShape' /\ FdsDiffer' /\ (Clearing' <=> Clearing)
    BY <2>1 DEF Inv, TypeOK, ListShape, FdsDiffer, Clearing, Op
  <2>3. Holder' /\ CallsFit' /\ Fresh' /\ Alone'
    BY DEF Inv, Holder, CallsFit, Fresh, Alone, Op
  <2>4. \A u \in Thread : Place(u)'
    BY PlaceStays
  <2>5. Places'
    BY <2>4 DEF Places, Place
  <2>6. DueAreMembers'
    BY <2>1 DEF Inv, DueAreMembers
  <2>7. Covered'
    <3>1. PICK cov \in [Slot -> SUBSET Slot] : IsCover(cov)
      BY DEF Inv, Covered
    <3>2. IsCover(cov)'
      BY <2>1, <2>2, <3>1 DEF IsCover, Covers
    <3> QED BY <3>2 DEF Covered
  <2> QED BY <2>2, <2>3, <2>5, <2>6, <2>7 DEF Inv
<1> QED BY <1>1, <1>2

LEMMA InvHolds == Spec => []Inv
BY InitInv, NextInv, PTL DEF Spec

(* Whatever the threads call, the variables of the list stay in their sets. *)
THEOREM ListTypes == Spec => []TypeOK
<1>1. Inv => TypeOK
  BY DEF Inv
<1> QED BY <1>1, InvHolds, PTL

(* The words of memory are a list after every single write of every thread,
   for any number of threads, nodes and clients. *)
THEOREM ListStaysWhole == Spec => []ListShape
<1>1. Inv => ListShape
  BY DEF Inv
<1> QED BY <1>1, InvHolds, PTL

(* No descriptor is on the list twice. *)
THEOREM FdsAreUnique == Spec => []UniqueFds
<1>1. Inv => UniqueFds
  <2> SUFFICES ASSUME Inv PROVE UniqueFds
    OBVIOUS
  <2>1. \A i \in DOMAIN list : list[i] \in Linked
    BY ListFacts DEF Inv
  <2> QED BY <2>1 DEF Inv, ListShape, FdsDiffer, UniqueFds
<1> QED BY <1>1, InvHolds, PTL

(* A walk without the lock has met every member that stayed, however many
   nodes were taken out, freed, handed out again and put back meanwhile: by
   Covered, what it has to meet yet lies ahead of it. *)
THEOREM WalksAreComplete == Spec => []WalkMissesNobody
<1>1. Inv => WalkMissesNobody
  <2> SUFFICES ASSUME Inv, NEW t \in Thread, pc[t] = "visit", cur[t] = Null
               PROVE  due[t] = {}
    BY DEF WalkMissesNobody, At
  <2>1. PICK cov \in [Slot -> SUBSET Slot] : IsCover(cov)
    BY DEF Inv, Covered
  <2> QED BY <2>1 DEF IsCover, Covers
<1> QED BY <1>1, InvHolds, PTL

(* The clean-up closes only descriptors whose node is out of the list. *)
THEOREM ClosesWhatIsUnlinked == Spec => ClosedWhenUnlinked
<1>1. Inv /\ [Next]_vars =>
        [\A f \in closed' \ closed : \A i \in DOMAIN list' : mem[list'[i]].fd # f]_vars
  <2> SUFFICES ASSUME Inv, Next, NEW f \in closed' \ closed, NEW i \in DOMAIN list'
               PROVE  mem[list'[i]].fd # f
    OBVIOUS
  <2> USE DEF callVars, memVars, At
  <2>0. TypeOK /\ TypeOK' /\ ListShape
    BY TypesKept DEF Inv
  <2>1. PICK t \in Thread : Free(t) \/ ClearNode(t)
    <3>1. ~Age
      BY DEF Age
    <3>2. ASSUME NEW t \in Thread, Invoke(t) PROVE FALSE
      <4>1. closed' \subseteq closed
        BY <3>2 DEF Invoke
      <4> QED BY <4>1
    <3>3. ASSUME NEW t \in Thread, Lock(t) \/ Walk(t) PROVE FALSE
      BY <3>3 DEF Lock, Walk, WalkStart, WalkVisit, WalkNext, WalkEnd
    <3>4. ASSUME NEW t \in Thread, Locked(t) PROVE Free(t) \/ ClearNode(t)
      BY <3>4 DEF Locked, Advance, Found, NotFound, MallocFails, Malloc, Link,
                  Publish, Update, Unlink, Unlock, ClearHead
    <3> QED BY <3>1, <3>2, <3>3, <3>4 DEF Next
  <2>2. CASE Free(t)
    <3>1. f = mem[cur[t]].fd /\ list' = list
      BY <2>2 DEF Free
    <3>2. NotInList(cur[t])
      BY <2>2 DEF Free, Inv, Places, ApartOf
    <3>3. list[i] \in Linked
      BY <2>0, <3>1, ListFacts
    <3> QED BY <3>1, <3>2, <3>3 DEF NotInList
  <2>3. CASE ClearNode(t)
    <3>1. cur[t] = list[1] /\ 1 \in DOMAIN list /\ list # <<>>
      BY <2>3, InLoop DEF ClearNode
    <3>2. f = mem[list[1]].fd /\ list' = Tail(list)
      BY <2>3, <3>1 DEF ClearNode
    <3>3. /\ DOMAIN list' = 1..(Len(list) - 1) /\ Len(list) \in Nat /\ DOMAIN list = 1..Len(list)
          /\ \A j \in 1..(Len(list) - 1) : list'[j] = list[j + 1]
      BY <2>0, <3>1, <3>2, TailIs, ListFacts
    <3> HIDE <2>3
    <3>4. list'[i] = list[i + 1] /\ i + 1 \in DOMAIN list /\ i + 1 # 1
      BY <3>3
    <3>5. list[i + 1] \in Linked /\ list[1] \in Linked /\ list[i + 1] # list[1]
      BY <2>0, <3>1, <3>4, ListFacts DEF ListShape
    <3> QED BY <3>2, <3>4, <3>5 DEF Inv, FdsDiffer
  <2> QED BY <2>1, <2>2, <2>3
<1> QED BY <1>1, InvHolds, PTL DEF Spec, ClosedWhenUnlinked

-----------------------------------------------------------------------------
(* What the calls have in hand.                                           *)

(* What a call has in hand: it is one of its thread's calls, returns nothing
   before it has taken effect, has counted the nodes it has passed, and has
   filled in the node it is about to put in. *)
Passed(t, k) == {i \in 1..(k - 1) : Counted(call[t], mem[list[i]])}

HasCounted(t) ==
    IF call[t] # Null /\ Op(t) \in Counters
    THEN pc[t] = "loop" =>
           \A k \in 1..(Len(list) + 1) : cur[t] = Elem(k) => count[t] = Cardinality(Passed(t, k))
    ELSE count[t] = 0

HasFilledIn(t) ==
    pc[t] \in {"link", "publish"} =>
        /\ mem[cur[t]].fd = call[t].fd /\ mem[cur[t]].ip = call[t].ip
        /\ mem[cur[t]].name = NoName /\ mem[cur[t]].state = "connected"
        /\ mem[cur[t]].old = FALSE

InHand(t) ==
    /\ call[t] # Null => call[t] \in Calls[t]
    /\ ~Done(t) => ret[t] = Null
    /\ HasCounted(t) /\ HasFilledIn(t)

AllInHand == \A t \in Thread : InHand(t)

(* The thread that acts is the only one whose locals change. *)
LEMMA OthersStay ==
    ASSUME TypeOK, NEW t \in Thread, Invoke(t) \/ Lock(t) \/ Locked(t) \/ Walk(t),
           NEW u \in Thread, u # t
    PROVE  /\ pc'[u] = pc[u] /\ cur'[u] = cur[u] /\ call'[u] = call[u]
           /\ count'[u] = count[u] /\ ret'[u] = ret[u]
<1> USE DEF callVars, memVars, Goto, TypeOK
<1>1. CASE Invoke(t) \/ Lock(t) \/ Walk(t)
  BY <1>1 DEF Invoke, Lock, Walk, WalkStart, WalkVisit, WalkNext, WalkEnd
<1>2. CASE Advance(t) \/ Found(t) \/ NotFound(t) \/ MallocFails(t) \/ Malloc(t) \/ Link(t)
  BY <1>2 DEF Advance, Found, NotFound, MallocFails, Malloc, Link
<1>3. CASE Publish(t) \/ Update(t) \/ Unlink(t)
  BY <1>3 DEF Publish, Update, Unlink
<1>4. CASE Free(t)
  BY <1>4 DEF Free
<1>5. CASE ClearNode(t) \/ ClearHead(t) \/ Unlock(t)
  BY <1>5 DEF ClearNode, ClearHead, Unlock
<1> QED BY <1>1, <1>2, <1>3, <1>4, <1>5 DEF Locked

(* A thread that does nothing keeps what it has in hand. *)
LEMMA InHandStays ==
    ASSUME TypeOK, Inv, NEW u \in Thread, InHand(u),
           pc'[u] = pc[u], cur'[u] = cur[u], call'[u] = call[u],
           count'[u] = count[u], ret'[u] = ret[u],
           pc[u] \in Critical =>
             /\ list' = list
             /\ UNCHANGED mem \/ Age
    PROVE  InHand(u)'
<1>1. call'[u] # Null => call'[u] \in Calls[u]
  BY DEF InHand
<1>2. ~Done(u)' => ret'[u] = Null
  BY DEF InHand, Done, At, Op
<1>3. CASE pc[u] \notin Critical
  BY <1>1, <1>2, <1>3 DEF InHand, HasCounted, HasFilledIn, Critical, Op
<1>4. CASE pc[u] \in Critical /\ UNCHANGED mem
  <2>1. \A k : Elem(k)' = Elem(k) /\ Passed(u, k)' = Passed(u, k)
    BY <1>4 DEF Elem, Passed
  <2> QED BY <1>1, <1>2, <1>4, <2>1 DEF InHand, HasCounted, HasFilledIn, Op
<1>5. CASE pc[u] \in Critical /\ Age
  <2>1. PICK s \in Linked : mem' = [mem EXCEPT ![s].old = TRUE]
    BY <1>5 DEF Age
  <2>2. s \in Slot /\ mem[s] \in Node /\ mem \in [Slot -> Node]
    BY ListFacts DEF TypeOK
  <2> DEFINE e == [mem[s] EXCEPT !.old = TRUE]
  <2>3. e.state = mem[s].state
    BY <2>2 DEF Node
  <2>4. mem' = [mem EXCEPT ![s] = e]
    BY <2>1
  <2> HIDE DEF e
  <2>5. /\ \A x \in Slot : mem'[x].state = mem[x].state
        /\ \A x \in Slot : x # s => mem'[x] = mem[x]
    BY <2>2, <2>3, <2>4
  <2>6. \A k \in 1..(Len(list) + 1) : Passed(u, k)' = Passed(u, k)
    <3> TAKE k \in 1..(Len(list) + 1)
    <3>1. \A i \in 1..(k - 1) : list[i] \in Slot
      <4>1. Len(list) \in Nat /\ DOMAIN list = 1..Len(list) /\ \A i \in DOMAIN list : list[i] \in Slot
        BY ListFacts
      <4>2. 1..(k - 1) \subseteq 1..Len(list)
        BY <4>1
      <4> QED BY <4>1, <4>2
    <3>2. \A i \in 1..(k - 1) : Counted(call[u], mem'[list[i]]) <=> Counted(call[u], mem[list[i]])
      BY <2>5, <3>1 DEF Counted
    <3> QED BY <1>5, <3>2 DEF Passed
  <2>7. \A k : Elem(k)' = Elem(k)
    BY <1>5 DEF Elem
  <2>8. HasCounted(u)'
    BY <1>5, <2>6, <2>7 DEF HasCounted, InHand, Op
  <2>9. HasFilledIn(u)'
    <3>1. pc[u] \in {"link", "publish"} => cur[u] \in Slot /\ cur[u] \notin Linked
      BY InCall
    <3>2. pc[u] \in {"link", "publish"} => mem'[cur[u]] = mem[cur[u]]
      BY <2>5, <3>1
    <3> QED BY <3>2 DEF HasFilledIn, InHand
  <2> QED BY <1>1, <1>2, <2>8, <2>9 DEF InHand
<1> QED BY <1>3, <1>4, <1>5

(* No two positions, the end included, show the same. *)
LEMMA ElemsDiffer ==
    ASSUME TypeOK, ListShape, NEW m \in 1..(Len(list) + 1), NEW n \in 1..(Len(list) + 1),
           Elem(m) = Elem(n)
    PROVE  m = n
<1>1. Len(list) \in Nat /\ DOMAIN list = 1..Len(list)
  BY ListFacts
<1>2. m \in DOMAIN list <=> n \in DOMAIN list
  BY ListFacts
<1>3. CASE m \in DOMAIN list
  <2>1. list[m] = list[n] /\ n \in DOMAIN list
    BY <1>2, <1>3, ListFacts
  <2> QED BY <1>3, <2>1 DEF ListShape
<1>4. CASE m \notin DOMAIN list
  BY <1>1, <1>2, <1>4
<1> QED BY <1>3, <1>4

(* One more node has been passed. *)
LEMMA PassOne ==
    ASSUME TypeOK, NEW t \in Thread, NEW k \in DOMAIN list
    PROVE  /\ IsFiniteSet(Passed(t, k)) /\ Cardinality(Passed(t, k)) \in Nat
           /\ Cardinality(Passed(t, k + 1)) =
                IF Counted(call[t], mem[list[k]]) THEN Cardinality(Passed(t, k)) + 1
                ELSE Cardinality(Passed(t, k))
<1>1. Len(list) \in Nat /\ DOMAIN list = 1..Len(list)
  BY ListFacts
<1>2. IsFiniteSet(1..(k - 1))
  BY <1>1, FS_Interval
<1>3. IsFiniteSet(Passed(t, k))
  BY <1>2, FS_Subset DEF Passed
<1>4. Cardinality(Passed(t, k)) \in Nat
  BY <1>3, FS_CardinalityType
<1>5. (k + 1) - 1 = k /\ \A i : i \in 1..k <=> (i \in 1..(k - 1) \/ i = k)
  BY <1>1
<1>6. k \notin Passed(t, k)
  BY <1>1 DEF Passed
<1>7. CASE Counted(call[t], mem[list[k]])
  <2>1. Passed(t, k + 1) = Passed(t, k) \cup {k}
    BY <1>5, <1>7 DEF Passed
  <2> QED BY <1>3, <1>4, <1>6, <1>7, <2>1, FS_AddElement
<1>8. CASE ~Counted(call[t], mem[list[k]])
  <2>1. Passed(t, k + 1) = Passed(t, k)
    BY <1>5, <1>8 DEF Passed
  <2> QED BY <1>3, <1>4, <1>8, <2>1
<1> QED BY <1>7, <1>8

(* What a thread has in hand after a step of its own. *)
LEMMA InHandAfter ==
    ASSUME Inv, NEW t \in Thread, InHand(t),
           Invoke(t) \/ Lock(t) \/ Locked(t) \/ Walk(t)
    PROVE  InHand(t)'
<1> USE ClientListAssumption DEF callVars, memVars, Goto, At
<1>0. /\ TypeOK /\ Inv
      /\ pc \in [Thread -> Label] /\ call \in [Thread -> Call \cup {Null}]
      /\ cur \in [Thread -> Slot \cup {Null}] /\ count \in [Thread -> Nat]
      /\ ret \in [Thread -> Slot \cup {Null}]
      /\ Len(list) \in Nat /\ DOMAIN list = 1..Len(list)
  BY ListFacts DEF Inv, TypeOK
<1>1. CASE Invoke(t)
  <2>1. PICK c \in Calls[t] :
           /\ call' = [call EXCEPT ![t] = c]
           /\ pc' = [pc EXCEPT ![t] = IF c.op = "walk" THEN "start" ELSE "lock"]
    BY <1>1 DEF Invoke
  <2>2. pc[t] = "idle" /\ call[t] = Null /\ count' = count /\ ret' = ret /\ c # Null
    BY <1>0, <1>1, <2>1 DEF Invoke, Inv, CallsFit
  <2>3. call'[t] = c /\ pc'[t] \in {"start", "lock"} /\ ~Done(t)
    BY <1>0, <2>1, <2>2 DEF Done
  <2>4. count'[t] = 0 /\ ret'[t] = Null
    BY <2>2, <2>3 DEF InHand, HasCounted
  <2> QED BY <2>2, <2>3, <2>4 DEF InHand, HasCounted, HasFilledIn, Op
<1>2. CASE Lock(t)
  <2>1. /\ pc[t] = "lock" /\ pc'[t] = "loop" /\ cur'[t] = head
        /\ UNCHANGED <<list, mem, call, count, ret>> /\ mutex = Null /\ ~Done(t)
    BY <1>0, <1>2 DEF Lock, Done
  <2>2. call[t] # Null /\ count[t] = 0
    BY <1>0, <2>1 DEF Inv, CallsFit, Fresh, Critical
  <2>3. head = First
    <3>1. \A u \in Thread : pc[u] \notin Critical
      BY <1>0, <2>1 DEF Inv, Holder
    <3>2. ~Clearing
      BY <3>1 DEF Clearing, Critical
    <3> QED BY <1>0, <3>2 DEF Inv, ListShape
  <2>4. \A k \in 1..(Len(list) + 1) : Elem(k) = Elem(1) => k = 1
    <3>1. 1 \in 1..(Len(list) + 1)
      BY <1>0
    <3> QED BY <1>0, <3>1, ElemsDiffer DEF Inv
  <2>5. Passed(t, 1)' = {} /\ \A k : Elem(k)' = Elem(k)
    BY <2>1 DEF Passed, Elem
  <2>6. HasCounted(t)'
    <3>1. head = Elem(1) /\ Cardinality({}) = 0
      BY <1>0, <2>3, ListFacts, FS_EmptySet
    <3>2. \A k \in 1..(Len(list) + 1) : head = Elem(k) => k = 1
      BY <2>4, <3>1
    <3>3. \A k \in 1..(Len(list') + 1) : cur'[t] = Elem(k)' => k = 1
      BY <2>1, <2>5, <3>2
    <3> QED BY <2>1, <2>2, <2>5, <3>1, <3>3 DEF HasCounted
  <2> QED BY <2>1, <2>6 DEF InHand, HasFilledIn, Done
<1>3. CASE Walk(t)
  <2>1. /\ pc[t] \in {"start", "visit", "next"} /\ pc'[t] \in {"visit", "next", "idle"}
        /\ UNCHANGED <<count, ret>> /\ call'[t] \in {call[t], Null} /\ ~Done(t)
    BY <1>0, <1>3 DEF Walk, WalkStart, WalkVisit, WalkNext, WalkEnd, Done
  <2>2. call[t] # Null /\ Op(t) = "walk"
    BY <1>0, <2>1 DEF Inv, CallsFit
  <2>3. count[t] = 0 /\ ret[t] = Null
    BY <2>1, <2>2 DEF InHand, HasCounted, Counters
  <2> QED BY <2>1, <2>2, <2>3 DEF InHand, HasCounted, HasFilledIn, Op, Counters
<1>4. CASE Advance(t)
  <2>1. /\ pc[t] = "loop" /\ cur[t] # Null /\ Op(t) # "clear"
        /\ UNCHANGED <<list, mem, call, pc, ret>> /\ ~Done(t)
        /\ cur'[t] = mem[cur[t]].next
        /\ count'[t] = IF Counted(call[t], mem[cur[t]]) THEN count[t] + 1 ELSE count[t]
    BY <1>0, <1>4 DEF Advance, Done
  <2>2. PICK k \in DOMAIN list : cur[t] = list[k] /\ mem[cur[t]].next = Elem(k + 1)
    BY <1>0, <2>1, InLoop
  <2>3. CASE Op(t) \in Counters
    <3>1. call[t] # Null
      BY <1>0, <2>1 DEF Inv, CallsFit
    <3>2. k \in 1..(Len(list) + 1) /\ cur[t] = Elem(k)
      BY <1>0, <2>2, ListFacts
    <3>3. count[t] = Cardinality(Passed(t, k))
      BY <2>1, <2>3, <3>1, <3>2 DEF InHand, HasCounted
    <3>4. count'[t] = Cardinality(Passed(t, k + 1))
      BY <1>0, <2>1, <2>2, <3>3, PassOne
    <3>5. \A m \in 1..(Len(list) + 1) : Elem(k + 1) = Elem(m) => m = k + 1
      <4>1. k + 1 \in 1..(Len(list) + 1)
        BY <1>0, <2>2
      <4> QED BY <1>0, <4>1, ElemsDiffer DEF Inv
    <3>6. \A m : Elem(m)' = Elem(m) /\ Passed(t, m)' = Passed(t, m)
      BY <2>1 DEF Elem, Passed
    <3>7. HasCounted(t)'
      BY <2>1, <2>2, <2>3, <3>1, <3>4, <3>5, <3>6 DEF HasCounted, Op
    <3> QED BY <2>1, <3>7 DEF InHand, HasFilledIn, Done
  <2>4. CASE Op(t) \notin Counters
    <3>1. ~Counted(call[t], mem[cur[t]])
      BY <2>4 DEF Counted, Counters, Op
    <3> QED BY <2>1, <2>4, <3>1 DEF InHand, HasCounted, HasFilledIn, Done, Op
  <2> QED BY <2>3, <2>4
<1>5. CASE Unlock(t)
  <2>1. call'[t] = Null /\ count'[t] = 0 /\ ret'[t] = Null /\ pc'[t] \in {"exited", "idle"}
    BY <1>0, <1>5 DEF Unlock
  <2> QED BY <2>1 DEF InHand, HasCounted, HasFilledIn
<1>6. CASE Found(t) \/ Update(t)
  <2>1. /\ pc[t] = "loop" /\ pc'[t] = "unlock" /\ UNCHANGED <<call, count>>
    BY <1>0, <1>6 DEF Found, Update, Here
  <2> QED BY <2>1 DEF InHand, HasCounted, HasFilledIn, Done, Op
<1>7. CASE NotFound(t) \/ MallocFails(t) \/ ClearHead(t)
  <2>1. /\ pc[t] = "loop" /\ pc'[t] \in {"unlock", "relock"} /\ UNCHANGED <<call, count, ret>>
        /\ ~Done(t)
    BY <1>0, <1>7 DEF NotFound, MallocFails, ClearHead, Done
  <2> QED BY <2>1 DEF InHand, HasCounted, HasFilledIn, Op
<1>8. CASE Malloc(t)
  <2>1. PICK s \in Slot \ alloc :
           /\ mem' = [mem EXCEPT ![s] = Enters(call[t], mem[s])]
           /\ cur' = [cur EXCEPT ![t] = s]
    BY <1>8 DEF Malloc
  <2>2. /\ pc[t] = "loop" /\ pc'[t] = "link" /\ UNCHANGED <<call, count, ret>> /\ ~Done(t)
        /\ cur'[t] = s /\ call[t] \in Call /\ Op(t) = "add"
    BY <1>0, <1>8, <2>1, InCall DEF Malloc, Done
  <2>3. mem[s] \in Node /\ mem'[s] = Enters(call[t], mem[s])
    BY <1>0, <2>1 DEF TypeOK
  <2>4. /\ Enters(call[t], mem[s]).fd = call[t].fd /\ Enters(call[t], mem[s]).ip = call[t].ip
        /\ Enters(call[t], mem[s]).name = NoName
        /\ Enters(call[t], mem[s]).state = "connected" /\ Enters(call[t], mem[s]).old = FALSE
    BY <2>3 DEF Enters, Node
  <2>5. HasFilledIn(t)'
    BY <2>2, <2>3, <2>4 DEF HasFilledIn
  <2> QED BY <2>2, <2>5 DEF InHand, HasCounted, Op
<1>9. CASE Link(t)
  <2>1. /\ pc[t] = "link" /\ pc'[t] = "publish" /\ UNCHANGED <<call, count, ret, cur>> /\ ~Done(t)
        /\ mem' = [mem EXCEPT ![cur[t]].next = head] /\ cur[t] \in Slot /\ mem[cur[t]] \in Node
    BY <1>0, <1>9, InCall DEF Link, Done
  <2>2. /\ mem'[cur[t]].fd = mem[cur[t]].fd /\ mem'[cur[t]].ip = mem[cur[t]].ip
        /\ mem'[cur[t]].name = mem[cur[t]].name /\ mem'[cur[t]].state = mem[cur[t]].state
        /\ mem'[cur[t]].old = mem[cur[t]].old
    BY <1>0, <2>1 DEF TypeOK, Node
  <2>3. HasFilledIn(t)'
    BY <2>1, <2>2 DEF HasFilledIn, InHand
  <2> QED BY <2>1, <2>3 DEF InHand, HasCounted, Op
<1>10. CASE Publish(t)
  <2>1. /\ pc[t] = "publish" /\ pc'[t] = "unlock" /\ UNCHANGED <<call, count>>
    BY <1>0, <1>10 DEF Publish
  <2>2. Op(t) = "add"
    BY <1>0, <2>1 DEF Inv, CallsFit
  <2> QED BY <2>1, <2>2 DEF InHand, HasCounted, HasFilledIn, Done, Op, Counters
<1>11. CASE Unlink(t)
  <2>1. /\ pc[t] = "loop" /\ pc'[t] = "free" /\ UNCHANGED <<call, count>> /\ ~Done(t)
        /\ Op(t) \in Removers
    BY <1>0, <1>11 DEF Unlink, Here, Done, Removers
  <2>2. Op(t) = "cleanup" => ret'[t] = Null
    BY <1>0, <1>11 DEF Unlink
  <2> QED BY <2>1, <2>2 DEF InHand, HasCounted, HasFilledIn, Done, Op, Counters, Removers
<1>12. CASE Free(t)
  <2>1. /\ pc[t] = "free" /\ pc'[t] \in {"loop", "unlock"} /\ UNCHANGED <<call, count, ret>>
        /\ pc'[t] = "loop" => Op(t) = "cleanup"
    BY <1>0, <1>12 DEF Free
  <2>2. Op(t) \in Removers /\ call[t] # Null
    BY <1>0, <2>1 DEF Inv, CallsFit
  <2> QED BY <2>1, <2>2 DEF InHand, HasCounted, HasFilledIn, Done, Op, Counters, Removers
<1>13. CASE ClearNode(t)
  <2>1. pc[t] = "loop" /\ UNCHANGED <<pc, call, count, ret>> /\ ~Done(t) /\ Op(t) = "clear"
    BY <1>13 DEF ClearNode, Done
  <2> QED BY <2>1 DEF InHand, HasCounted, HasFilledIn, Done, Op, Counters
<1> QED BY <1>1, <1>2, <1>3, <1>4, <1>5, <1>6, <1>7, <1>8, <1>9, <1>10, <1>11, <1>12, <1>13
        DEF Locked

LEMMA InitInHand == Init => AllInHand
<1> SUFFICES ASSUME Init, NEW t \in Thread PROVE InHand(t)
  BY DEF AllInHand
<1> QED BY DEF Init, InHand, HasCounted, HasFilledIn

LEMMA NextInHand == Inv /\ AllInHand /\ [Next]_vars => AllInHand'
<1> SUFFICES ASSUME Inv, AllInHand, [Next]_vars, NEW u \in Thread PROVE InHand(u)'
  BY DEF AllInHand
<1> USE DEF callVars, memVars, vars
<1>0. TypeOK /\ InHand(u)
  BY DEF Inv, AllInHand
<1>1. CASE Age \/ UNCHANGED vars
  BY <1>0, <1>1, InHandStays DEF Age
<1>2. ASSUME NEW t \in Thread, Invoke(t) \/ Lock(t) \/ Locked(t) \/ Walk(t) PROVE InHand(u)'
  <2>1. CASE t = u
    BY <1>0, <1>2, <2>1, InHandAfter
  <2>2. CASE t # u
    <3>1. /\ pc'[u] = pc[u] /\ cur'[u] = cur[u] /\ call'[u] = call[u]
          /\ count'[u] = count[u] /\ ret'[u] = ret[u]
      BY <1>0, <1>2, <2>2, OthersStay
    <3>2. pc[u] \in Critical => list' = list /\ UNCHANGED mem
      <4>1. SUFFICES ASSUME pc[u] \in Critical PROVE list' = list /\ UNCHANGED mem
        OBVIOUS
      <4>2. pc[t] \notin Critical
        BY <2>2, <4>1, NoOther
      <4>3. ~Locked(t)
        BY <4>2 DEF Locked, Advance, Found, NotFound, MallocFails, Malloc, Link, Publish, Update,
                    Unlink, Free, ClearNode, ClearHead, Unlock, Here, Critical, At
      <4> QED BY <1>2, <4>3 DEF Invoke, Lock, Walk, WalkStart, WalkVisit, WalkNext, WalkEnd
    <3> QED BY <1>0, <3>1, <3>2, InHandStays
  <2> QED BY <2>1, <2>2
<1> QED BY <1>1, <1>2 DEF Next

-----------------------------------------------------------------------------
(* What the directory sees of the memory and of the calls.                 *)

(* The directory that the memory stands for, and what it shows of a call. *)
Entry == [id : Slot, fd : Fd \cup {NoFd}, ip : Ip, name : Name \cup {NoName},
          state : State, old : BOOLEAN]

Entries == [i \in DOMAIN list |-> Client(list[i])]
CallNow == [t \in Thread |-> IF call[t] # Null /\ Op(t) = "walk" THEN Null ELSE call[t]]
DoneNow == [t \in Thread |-> Done(t)]
RetNow == [t \in Thread |-> IF Done(t) THEN ret[t] ELSE Null]
CountNow == [t \in Thread |-> IF Done(t) THEN count[t] ELSE 0]

SameLocals == UNCHANGED <<CallNow, DoneNow, RetNow, CountNow>>

(* The call of t takes effect, and returns r and n. *)
Takes(t, r, n) ==
    /\ DoneNow' = [DoneNow EXCEPT ![t] = TRUE]
    /\ RetNow' = [RetNow EXCEPT ![t] = r]
    /\ CountNow' = [CountNow EXCEPT ![t] = n]
    /\ CallNow' = CallNow

Waits(t) == CallNow[t] = call[t] /\ call[t] # Null /\ ~DoneNow[t]

LEMMA ClientIs ==
    ASSUME NEW s \in Slot, mem[s] \in Node
    PROVE  /\ Client(s) \in Entry /\ Client(s).id = s
           /\ \A c : Meets(c, Client(s)) <=> Meets(c, mem[s])
           /\ \A c : Counted(c, Client(s)) <=> Counted(c, mem[s])
BY DEF Client, Entry, Node, Meets, Counted

EntriesFit ==
    /\ Entries \in Seq(Entry) /\ Len(Entries) = Len(list)
    /\ DOMAIN Entries = 1..Len(list) /\ Len(list) \in Nat /\ DOMAIN list = 1..Len(list)
    /\ \A i \in 1..Len(list) : /\ Entries[i] = Client(list[i]) /\ Entries[i].id = list[i]
                               /\ list[i] \in Slot /\ mem[list[i]] \in Node

LEMMA EntriesAre == TypeOK => EntriesFit
<1> SUFFICES ASSUME TypeOK PROVE EntriesFit
  OBVIOUS
<1>1. Len(list) \in Nat /\ DOMAIN list = 1..Len(list)
  BY ListFacts
<1>2. \A i \in 1..Len(list) : list[i] \in Slot /\ mem[list[i]] \in Node
  BY <1>1, ListFacts DEF TypeOK
<1>3. \A i \in 1..Len(list) : Client(list[i]) \in Entry /\ Client(list[i]).id = list[i]
  BY <1>2, ClientIs
<1>4. Entries = [i \in 1..Len(list) |-> Client(list[i])]
  BY <1>1 DEF Entries
<1> HIDE DEF Entries
<1>5. Entries \in Seq(Entry) /\ Len(Entries) = Len(list)
  <2>1. Entries \in [1..Len(list) -> Entry]
    BY <1>3, <1>4
  <2> QED BY <1>1, <2>1
<1> QED BY <1>1, <1>2, <1>3, <1>4, <1>5 DEF EntriesFit

LEMMA EntriesAreNext == TypeOK' => EntriesFit'
BY EntriesAre, PTL

(* The nodes in the list are as they were, and so is the directory. *)
LEMMA EntriesStay ==
    ASSUME TypeOK, list' = list,
           \A i \in DOMAIN list :
             /\ mem'[list[i]].fd = mem[list[i]].fd /\ mem'[list[i]].ip = mem[list[i]].ip
             /\ mem'[list[i]].name = mem[list[i]].name
             /\ mem'[list[i]].state = mem[list[i]].state
             /\ mem'[list[i]].old = mem[list[i]].old
    PROVE  Entries' = Entries
BY DEF Entries, Client

(* What the locals show when only the locals of t change. *)
LEMMA LocalsStay ==
    ASSUME NEW t \in Thread,
           \A u \in Thread \ {t} :
             pc'[u] = pc[u] /\ call'[u] = call[u] /\ count'[u] = count[u] /\ ret'[u] = ret[u],
           CallNow'[t] = CallNow[t], DoneNow'[t] = DoneNow[t],
           RetNow'[t] = RetNow[t], CountNow'[t] = CountNow[t]
    PROVE  SameLocals
<1>1. \A u \in Thread \ {t} : (Done(u)' <=> Done(u)) /\ Op(u)' = Op(u)
  BY DEF Done, Op, At
<1>2. CallNow' = CallNow
  BY <1>1 DEF CallNow
<1>3. DoneNow' = DoneNow
  <2>1. \A u \in Thread : Done(u)' = Done(u)
    <3>1. Done(t)' <=> Done(t)
      BY DEF DoneNow, Done, At
    <3>2. \A u \in Thread : Done(u)' <=> Done(u)
      BY <1>1, <3>1
    <3> QED BY <3>2 DEF Done, At
  <2> QED BY <2>1 DEF DoneNow
<1>4. RetNow' = RetNow
  BY <1>1 DEF RetNow
<1>5. CountNow' = CountNow
  BY <1>1 DEF CountNow
<1> QED BY <1>2, <1>3, <1>4, <1>5 DEF SameLocals

LEMMA LocalsTake ==
    ASSUME NEW t \in Thread, NEW r, NEW n,
           \A u \in Thread \ {t} :
             pc'[u] = pc[u] /\ call'[u] = call[u] /\ count'[u] = count[u] /\ ret'[u] = ret[u],
           call'[t] = call[t], Done(t)', ret'[t] = r, count'[t] = n
    PROVE  Takes(t, r, n)
<1>1. \A u \in Thread \ {t} : (Done(u)' <=> Done(u)) /\ Op(u)' = Op(u)
  BY DEF Done, Op, At
<1>2. CallNow' = CallNow
  BY <1>1 DEF CallNow, Op
<1>3. DoneNow' = [DoneNow EXCEPT ![t] = TRUE]
  <2>1. \A u \in Thread : Done(u)' = IF u = t THEN TRUE ELSE Done(u)
    BY <1>1 DEF Done, At
  <2> QED BY <2>1 DEF DoneNow
<1>4. RetNow' = [RetNow EXCEPT ![t] = r]
  BY <1>1 DEF RetNow
<1>5. CountNow' = [CountNow EXCEPT ![t] = n]
  BY <1>1 DEF CountNow
<1> QED BY <1>2, <1>3, <1>4, <1>5 DEF Takes

(* The actions of the directory, in these terms. *)
Nobody(t) == \A i \in DOMAIN Entries : ~Meets(call[t], Entries[i])
FirstMet(t, k) ==
    /\ k \in DOMAIN Entries /\ Meets(call[t], Entries[k])
    /\ \A i \in DOMAIN Entries : Meets(call[t], Entries[i]) => k <= i

LEMMA TakesIs ==
    ASSUME NEW t, NEW r, NEW n, Takes(t, r, n)
    PROVE  Abstract!TakesEffect(t, r, n)
BY DEF Takes, Abstract!TakesEffect, CallNow, DoneNow, RetNow, CountNow

LEMMA PendingIs ==
    ASSUME NEW t, NEW ops, Waits(t), Op(t) \in ops
    PROVE  Abstract!Pending(t, ops)
BY DEF Waits, Abstract!Pending, CallNow, DoneNow, Op

LEMMA CallIs ==
    ASSUME NEW t \in Thread, Waits(t)
    PROVE  /\ Abstract!Found(CallNow[t]) = {i \in DOMAIN Entries : Meets(call[t], Entries[i])}
           /\ \A k : FirstMet(t, k) => Abstract!IsFirst(k, CallNow[t])
           /\ Nobody(t) => Abstract!Found(CallNow[t]) = {}
<1>1. Abstract!Found(CallNow[t]) = {i \in DOMAIN Entries : Meets(call[t], Entries[i])}
  <2>1. \A i : Abstract!Meets(CallNow[t], Entries[i]) <=> Meets(call[t], Entries[i])
    BY DEF Waits, Abstract!Meets, Meets, Abstract!ByFd, ByFd, Abstract!ByName, ByName
  <2>2. {i \in DOMAIN Entries : Abstract!Meets(CallNow[t], Entries[i])}
          = {i \in DOMAIN Entries : Meets(call[t], Entries[i])}
    BY <2>1
  <2>3. Abstract!Found(CallNow[t])
          = {i \in DOMAIN Entries : Abstract!Meets(CallNow[t], Entries[i])}
    BY Zenon DEF Abstract!Found, Entries
  <2> QED BY <2>2, <2>3
<1>2. \A k : FirstMet(t, k) => Abstract!IsFirst(k, CallNow[t])
  BY <1>1 DEF Abstract!IsFirst, FirstMet
<1>3. Nobody(t) => Abstract!Found(CallNow[t]) = {}
  BY <1>1 DEF Nobody
<1> QED BY <1>1, <1>2, <1>3

LEMMA MissIs ==
    ASSUME NEW t \in Thread, Waits(t), Nobody(t), Takes(t, Null, 0), Entries' = Entries,
           Op(t) \in Finders \cup Setters \cup {"add", "remove", "removeName", "cleanup"}
    PROVE  Abstract!Miss(t)
<1>1. Op(t) \in Abstract!Finders \cup Abstract!Setters \cup
                {"add", "remove", "removeName", "cleanup"}
  BY DEF Abstract!Finders, Abstract!Setters, Finders, Setters
<1> QED BY <1>1, PendingIs, CallIs, TakesIs DEF Abstract!Miss, Entries, CallNow

LEMMA HitIs ==
    ASSUME NEW t \in Thread, Waits(t), NEW k, FirstMet(t, k), Takes(t, Entries[k].id, 0),
           Entries' = Entries, Op(t) \in Finders \cup {"add"}
    PROVE  Abstract!Hit(t)
<1>1. Op(t) \in Abstract!Finders \cup {"add"}
  BY DEF Abstract!Finders, Finders
<1> QED BY <1>1, PendingIs, CallIs, TakesIs DEF Abstract!Hit, Entries, CallNow, FirstMet

LEMMA AddIs ==
    ASSUME NEW t \in Thread, Waits(t), Op(t) = "add", Nobody(t), NEW s \in Slot,
           \A i \in DOMAIN Entries : Entries[i].id # s,
           Entries' = <<[id |-> s, fd |-> call[t].fd, ip |-> call[t].ip, name |-> NoName,
                         state |-> "connected", old |-> FALSE]>> \o Entries,
           Takes(t, s, 0)
    PROVE  Abstract!Add(t)
<1>1. s \in Slot \ Abstract!Ids
  BY DEF Abstract!Ids, Entries
<1> QED BY <1>1, PendingIs, CallIs, TakesIs DEF Abstract!Add, Entries, CallNow, Waits

LEMMA ChangeIs ==
    ASSUME NEW t \in Thread, Waits(t), Op(t) \in Setters, NEW k, FirstMet(t, k),
           Takes(t, Entries[k].id, 0),
           Entries' = [Entries EXCEPT ![k] = Changed(call[t], Entries[k])]
    PROVE  Abstract!Change(t)
<1>1. Op(t) \in Abstract!Setters
  BY DEF Abstract!Setters, Setters
<1>2. Abstract!Changed(CallNow[t], Entries[k]) = Changed(call[t], Entries[k])
  BY DEF Waits, Abstract!Changed, Changed
<1> QED BY <1>1, <1>2, PendingIs, CallIs, TakesIs DEF Abstract!Change, Entries, CallNow, FirstMet

LEMMA TakeOutIs ==
    ASSUME NEW t \in Thread, Waits(t), Op(t) \in {"remove", "removeName"}, NEW k, FirstMet(t, k),
           Takes(t, Entries[k].id, 0), Entries' = RemoveAt(Entries, k)
    PROVE  Abstract!TakeOut(t)
<1>1. Entries' = Abstract!RemoveAt(Entries, k)
  BY DEF Abstract!RemoveAt, RemoveAt
<1> QED BY <1>1, PendingIs, CallIs, TakesIs DEF Abstract!TakeOut, Entries, CallNow, FirstMet

LEMMA ExpireIs ==
    ASSUME NEW t \in Thread, Waits(t), Op(t) = "cleanup", NEW k, FirstMet(t, k),
           SameLocals, Entries' = RemoveAt(Entries, k)
    PROVE  Abstract!Expire(t)
<1>1. Entries' = Abstract!RemoveAt(Entries, k)
  BY DEF Abstract!RemoveAt, RemoveAt
<1> QED BY <1>1, PendingIs, CallIs
        DEF Abstract!Expire, Entries, SameLocals, CallNow, DoneNow, RetNow, CountNow, FirstMet

LEMMA CountIs ==
    ASSUME NEW t \in Thread, Waits(t), Op(t) \in Counters, Entries' = Entries,
           Takes(t, Null, Cardinality({i \in DOMAIN Entries : Counted(call[t], Entries[i])}))
    PROVE  Abstract!Count(t)
<1> DEFINE C == {i \in DOMAIN Entries : Abstract!Counted(CallNow[t], Entries[i])}
<1>0. PICK n : n = Cardinality({i \in DOMAIN Entries : Counted(call[t], Entries[i])})
  OBVIOUS
<1>1. Op(t) \in Abstract!Counters
  BY DEF Abstract!Counters, Counters
<1>2. \A i : Abstract!Counted(CallNow[t], Entries[i]) <=> Counted(call[t], Entries[i])
  BY DEF Waits, Abstract!Counted, Counted
<1>3. C = {i \in DOMAIN Entries : Counted(call[t], Entries[i])}
  BY <1>2
<1>4. Abstract!Cardinality(C) = Cardinality(C)
  BY Zenon DEF Abstract!Cardinality, Cardinality
<1>5. Takes(t, Null, n)
  BY <1>0
<1>6. Abstract!TakesEffect(t, Null, n)
  BY <1>5, TakesIs
<1>7. Abstract!Cardinality(C) = n
  BY <1>0, <1>3, <1>4
<1>8. Abstract!TakesEffect(t, Null, Abstract!Cardinality(C)) /\ Entries' = Entries
  BY <1>6, <1>7 DEF Abstract!TakesEffect
<1>9. Abstract!Pending(t, Abstract!Counters)
  BY <1>1, PendingIs
<1> QED BY <1>8, <1>9, Zenon DEF Abstract!Count, Entries, CallNow

LEMMA ClearIs ==
    ASSUME NEW t \in Thread, Waits(t), Op(t) = "clear",
           \/ Entries = <<>> /\ Entries' = Entries /\ Takes(t, Null, 0)
           \/ Entries # <<>> /\ Entries' = Tail(Entries) /\ SameLocals
    PROVE  Abstract!Clear(t)
BY PendingIs, TakesIs DEF Abstract!Clear, Entries, SameLocals, CallNow, DoneNow, RetNow, CountNow

-----------------------------------------------------------------------------
(* The list implements the directory.                                      *)

LEMMA WaitsIn ==
    ASSUME Inv, NEW t \in Thread,
           pc[t] \in {"loop", "publish"} \/ (pc[t] = "free" /\ Op(t) = "cleanup")
    PROVE  Waits(t) /\ call[t] \in Call
<1>1. call[t] \in Call /\ call[t] # Null /\ Op(t) # "walk"
  BY InCall DEF Inv, CallsFit, Removers
<1>2. ~Done(t)
  BY DEF Done, At
<1>3. ~DoneNow[t]
  BY <1>2 DEF DoneNow
<1> QED BY <1>1, <1>3 DEF Waits, CallNow

(* The node that a thread has stopped at is the first one its call is about. *)
LEMMA StopsAtFirst ==
    ASSUME Inv, NEW t \in Thread, pc[t] = "loop", cur[t] # Null, Op(t) # "clear",
           Meets(call[t], mem[cur[t]])
    PROVE  \E k \in DOMAIN list : FirstMet(t, k) /\ cur[t] = list[k] /\ Entries[k].id = cur[t]
<1>1. PICK k \in DOMAIN list : cur[t] = list[k] /\ Before(t, k)
  BY InLoop
<1>2. EntriesFit
  BY EntriesAre DEF Inv
<1>3. \A i \in DOMAIN Entries : Meets(call[t], Entries[i]) <=> Meets(call[t], mem[list[i]])
  BY <1>2, ClientIs DEF EntriesFit
<1>4. \A i \in DOMAIN Entries : i < k => i \in 1..(k - 1)
  BY <1>1, <1>2 DEF EntriesFit
<1>5. \A i \in DOMAIN Entries : Meets(call[t], Entries[i]) => k <= i
  <2>1. \A i \in 1..(k - 1) : ~Meets(call[t], mem[list[i]])
    BY <1>1 DEF Before
  <2>2. \A i \in DOMAIN Entries : Meets(call[t], Entries[i]) => ~(i < k)
    BY <1>3, <1>4, <2>1
  <2> QED BY <1>1, <1>2, <2>2 DEF EntriesFit
<1>6. k \in DOMAIN Entries /\ Meets(call[t], Entries[k]) /\ Entries[k].id = cur[t]
  BY <1>1, <1>2, <1>3 DEF EntriesFit
<1> QED BY <1>1, <1>5, <1>6 DEF FirstMet

(* At the end of the list no client meets the call, and all are counted. *)
LEMMA EndOfList ==
    ASSUME Inv, NEW t \in Thread, InHand(t), pc[t] = "loop", cur[t] = Null, Op(t) # "clear"
    PROVE  /\ Nobody(t)
           /\ Op(t) \in Counters =>
                count[t] = Cardinality({i \in DOMAIN Entries : Counted(call[t], Entries[i])})
<1>1. PICK k \in 1..(Len(list) + 1) : Before(t, k) /\ cur[t] = Elem(k)
  BY DEF Inv, Places, PositionOf
<1>2. EntriesFit
  BY EntriesAre DEF Inv
<1>3. k = Len(list) + 1 /\ k - 1 = Len(list)
  BY <1>1, <1>2, ListFacts DEF Inv, EntriesFit
<1>4. \A i \in DOMAIN Entries : /\ Meets(call[t], Entries[i]) <=> Meets(call[t], mem[list[i]])
                                /\ Counted(call[t], Entries[i]) <=> Counted(call[t], mem[list[i]])
  BY <1>2, ClientIs DEF EntriesFit
<1>5. Nobody(t)
  BY <1>1, <1>2, <1>3, <1>4 DEF Nobody, Before, EntriesFit
<1>6. Passed(t, k) = {i \in DOMAIN Entries : Counted(call[t], Entries[i])}
  BY <1>2, <1>3, <1>4 DEF Passed, EntriesFit
<1>7. Op(t) \in Counters => count[t] = Cardinality(Passed(t, k))
  <2>1. call[t] # Null
    BY InCall, ClientListAssumption
  <2> QED BY <1>1, <2>1 DEF InHand, HasCounted
<1> QED BY <1>5, <1>6, <1>7

(* Taking the k-th node out takes the k-th client out. *)
LEMMA EntriesWithout ==
    ASSUME Inv, TypeOK', NEW t \in Thread, NEW k \in DOMAIN list, TakesOut(t, k)
    PROVE  Entries' = RemoveAt(Entries, k)
<1>1. EntriesFit /\ EntriesFit'
  BY EntriesAre, EntriesAreNext DEF Inv
<1>2. /\ Len(list') = Len(list) - 1
      /\ \A j \in 1..(Len(list) - 1) : list'[j] = IF j < k THEN list[j] ELSE list[j + 1]
      /\ \A s \in Slot : /\ mem'[s].fd = mem[s].fd /\ mem'[s].ip = mem[s].ip
                         /\ mem'[s].name = mem[s].name /\ mem'[s].old = mem[s].old
                         /\ mem'[s].state = mem[s].state
  BY DEF TakesOut
<1> DEFINE e == Entries
           f == Entries'
           r == RemoveAt(e, k)
<1>3. /\ e \in Seq(Entry) /\ f \in Seq(Entry) /\ Len(e) = Len(list) /\ Len(f) = Len(list) - 1
      /\ Len(list) \in Nat /\ k \in 1..Len(e)
  BY <1>1, <1>2 DEF EntriesFit
<1>4. /\ r \in Seq(Entry) /\ Len(r) = Len(e) - 1
      /\ \A j \in 1..(Len(e) - 1) : r[j] = IF j < k THEN e[j] ELSE e[j + 1]
  BY <1>3, RemoveAtIs
<1>5. \A s \in Slot : Client(s)' = Client(s)
  BY <1>2 DEF Client
<1>6. \A j \in 1..(Len(list) - 1) : f[j] = IF j < k THEN e[j] ELSE e[j + 1]
  <2> TAKE j \in 1..(Len(list) - 1)
  <2>1. f[j] = Client(list[j])'
    BY <1>1, <1>2 DEF EntriesFit
  <2>2. PICK s : s = list'[j]
    OBVIOUS
  <2>3. s \in Slot /\ s = IF j < k THEN list[j] ELSE list[j + 1]
    BY <1>1, <1>2, <2>2 DEF EntriesFit
  <2>4. f[j] = Client(s)'
    BY <2>1, <2>2 DEF Client
  <2>5. f[j] = Client(s)
    BY <1>5, <2>3, <2>4
  <2>6. j \in 1..Len(list) /\ j + 1 \in 1..Len(list)
    BY <1>3
  <2>7. e[j] = Client(list[j]) /\ e[j + 1] = Client(list[j + 1])
    BY <1>1, <2>6 DEF EntriesFit
  <2> QED BY <2>3, <2>5, <2>7
<1> HIDE DEF e, f, r
<1>7. f = r
  BY <1>3, <1>4, <1>6, SeqEqual
<1> QED BY <1>7 DEF e, f, r

(* A call that has not taken effect, before or after the step. *)
LEMMA SameEffects ==
    ASSUME NEW t \in Thread,
           \A u \in Thread \ {t} :
             pc'[u] = pc[u] /\ call'[u] = call[u] /\ count'[u] = count[u] /\ ret'[u] = ret[u],
           ~Done(t), ~Done(t)'
    PROVE  DoneNow' = DoneNow /\ RetNow' = RetNow /\ CountNow' = CountNow
<1>1. \A u \in Thread : Done(u)' <=> Done(u)
  BY DEF Done, Op, At
<1>2. \A u \in Thread : Done(u)' = Done(u)
  BY <1>1 DEF Done, At
<1>3. DoneNow' = DoneNow
  BY <1>2 DEF DoneNow
<1>4. RetNow' = RetNow /\ CountNow' = CountNow
  BY <1>1 DEF RetNow, CountNow
<1> QED BY <1>3, <1>4

LEMMA NoEffect ==
    ASSUME NEW t \in Thread,
           \A u \in Thread \ {t} :
             pc'[u] = pc[u] /\ call'[u] = call[u] /\ count'[u] = count[u] /\ ret'[u] = ret[u],
           call'[t] = call[t], ~Done(t), ~Done(t)'
    PROVE  SameLocals
BY SameEffects DEF SameLocals, CallNow, Op

(* A walk is no call of the directory: its start and its end do not show. *)
LEMMA NotShown ==
    ASSUME NEW t \in Thread,
           \A u \in Thread \ {t} :
             pc'[u] = pc[u] /\ call'[u] = call[u] /\ count'[u] = count[u] /\ ret'[u] = ret[u],
           call[t] = Null \/ Op(t) = "walk", call'[t] = Null \/ Op(t)' = "walk",
           ~Done(t), ~Done(t)'
    PROVE  SameLocals
BY SameEffects DEF SameLocals, CallNow, Op

(* A node whose age alone changes. *)
LEMMA AgeOf ==
    ASSUME NEW s \in Slot, mem[s] \in Node, NEW b, mem'[s] = [mem[s] EXCEPT !.old = b]
    PROVE  Client(s)' = [Client(s) EXCEPT !.old = b]
<1>1. /\ mem'[s].fd = mem[s].fd /\ mem'[s].ip = mem[s].ip /\ mem'[s].name = mem[s].name
      /\ mem'[s].state = mem[s].state /\ mem'[s].old = b
  BY DEF Node
<1>2. Client(s)' = [id |-> s, fd |-> mem[s].fd, ip |-> mem[s].ip, name |-> mem[s].name,
                    state |-> mem[s].state, old |-> b]
  BY <1>1 DEF Client
<1> QED BY <1>2 DEF Client

(* A step of a thread with the mutex is a step of the directory, or none. *)
DirectoryStep ==
    \/ Entries' = Entries /\ SameLocals
    \/ Abstract!Next

LEMMA LockedIsStep ==
    ASSUME Inv, TypeOK', NEW t \in Thread, InHand(t), InHand(t)', Locked(t)
    PROVE  DirectoryStep
<1> USE ClientListAssumption DEF callVars, memVars, Goto, At
<1>0. /\ TypeOK /\ Inv /\ TypeOK'
      /\ pc \in [Thread -> Label] /\ call \in [Thread -> Call \cup {Null}]
      /\ cur \in [Thread -> Slot \cup {Null}] /\ count \in [Thread -> Nat]
      /\ ret \in [Thread -> Slot \cup {Null}]
      /\ mem \in [Slot -> Node]
      /\ Len(list) \in Nat /\ DOMAIN list = 1..Len(list)
      /\ \A i \in DOMAIN list : list[i] \in Slot /\ list[i] \in Linked
  BY ListFacts DEF Inv, TypeOK
<1>a. \A u \in Thread \ {t} :
         pc'[u] = pc[u] /\ call'[u] = call[u] /\ count'[u] = count[u] /\ ret'[u] = ret[u]
  BY <1>0, OthersStay
<1>b. EntriesFit /\ EntriesFit'
  BY <1>0, EntriesAre, EntriesAreNext
<1>1. CASE Advance(t)
  <2>1. /\ pc[t] = "loop" /\ pc' = pc /\ UNCHANGED <<list, mem, call, ret>>
        /\ ~Done(t) /\ ~Done(t)'
    BY <1>1 DEF Advance, Done
  <2>2. SameLocals
    BY <1>a, <2>1, NoEffect
  <2> QED BY <1>0, <2>1, <2>2, EntriesStay DEF DirectoryStep
<1>2. CASE Found(t)
  <2>1. /\ pc[t] = "loop" /\ cur[t] # Null /\ Op(t) \in Finders \cup {"add"}
        /\ Meets(call[t], mem[cur[t]]) /\ Op(t) \notin Counters /\ Op(t) # "clear"
        /\ UNCHANGED <<list, mem, call, count>> /\ ret'[t] = cur[t] /\ pc'[t] = "unlock"
    BY <1>0, <1>2 DEF Found, Here, Finders, Counters
  <2>2. PICK k \in DOMAIN list : FirstMet(t, k) /\ Entries[k].id = cur[t]
    BY <1>0, <2>1, StopsAtFirst
  <2>3. Waits(t)
    BY <1>0, <2>1, WaitsIn
  <2>4. count'[t] = 0
    BY <2>1, <2>3 DEF InHand, HasCounted
  <2>5. Takes(t, Entries[k].id, 0)
    BY <1>a, <2>1, <2>2, <2>4, LocalsTake DEF Done
  <2>6. Entries' = Entries
    BY <1>0, <2>1, EntriesStay
  <2>7. Abstract!Hit(t)
    BY <2>1, <2>2, <2>3, <2>5, <2>6, HitIs
  <2> QED BY <2>7 DEF DirectoryStep, Abstract!Next
<1>3. CASE NotFound(t)
  <2>1. /\ pc[t] = "loop" /\ cur[t] = Null /\ Op(t) \notin {"add", "clear"}
        /\ UNCHANGED <<list, mem, call, count, ret>>
        /\ pc'[t] = IF Op(t) = "print" THEN "relock" ELSE "unlock"
    BY <1>0, <1>3 DEF NotFound
  <2>2. Waits(t) /\ call[t] \in Call /\ Op(t) # "walk" /\ Nobody(t)
    BY <1>0, <2>1, WaitsIn, EndOfList DEF Inv, CallsFit
  <2>3. Entries' = Entries /\ ret'[t] = Null
    BY <1>0, <2>1, EntriesStay DEF InHand, Done
  <2>4. CASE Op(t) = "print"
    <3>1. ~Done(t) /\ ~Done(t)'
      BY <2>1, <2>4 DEF Done
    <3>2. SameLocals
      BY <1>a, <2>1, <3>1, NoEffect
    <3> QED BY <2>3, <3>2 DEF DirectoryStep
  <2>5. CASE Op(t) \in Counters
    <3>1. PICK n : n = Cardinality({i \in DOMAIN Entries : Counted(call[t], Entries[i])})
      OBVIOUS
    <3>2. count'[t] = n
      BY <1>0, <2>1, <2>5, <3>1, EndOfList
    <3>3. Done(t)'
      BY <2>1, <2>5 DEF Done, Counters
    <3>4. Takes(t, Null, n)
      BY <1>a, <2>1, <2>3, <3>2, <3>3, LocalsTake
    <3>5. Abstract!Count(t)
      BY <2>2, <2>3, <2>5, <3>1, <3>4, CountIs
    <3> QED BY <3>5 DEF DirectoryStep, Abstract!Next
  <2>6. CASE Op(t) \in Finders \cup Setters \cup {"remove", "removeName", "cleanup"}
    <3>1. Op(t) \notin Counters /\ Done(t)' /\ Op(t) # "print"
      BY <2>1, <2>6 DEF Done, Counters, Finders, Setters
    <3>2. count'[t] = 0
      BY <2>1, <2>2, <3>1 DEF InHand, HasCounted, Waits
    <3>3. Takes(t, Null, 0)
      BY <1>a, <2>1, <2>3, <3>1, <3>2, LocalsTake
    <3>4. Abstract!Miss(t)
      BY <2>2, <2>3, <2>6, <3>3, MissIs
    <3> QED BY <3>4 DEF DirectoryStep, Abstract!Next
  <2>7. Op(t) \in Finders \cup Setters \cup Counters \cup
                  {"add", "remove", "removeName", "cleanup", "print", "clear", "walk"}
    BY <2>2 DEF Call, Op
  <2> QED BY <2>1, <2>2, <2>4, <2>5, <2>6, <2>7
<1>4. CASE MallocFails(t)
  <2>1. /\ pc[t] = "loop" /\ cur[t] = Null /\ Op(t) = "add" /\ Op(t) \notin Counters
        /\ UNCHANGED <<list, mem, call, count, ret>> /\ pc'[t] = "unlock"
    BY <1>0, <1>4 DEF MallocFails, Counters
  <2>2. Waits(t) /\ Nobody(t)
    BY <1>0, <2>1, WaitsIn, EndOfList
  <2>3. Entries' = Entries /\ ret'[t] = Null /\ count'[t] = 0 /\ Done(t)'
    BY <1>0, <2>1, <2>2, EntriesStay DEF InHand, HasCounted, Waits, Done
  <2>4. Takes(t, Null, 0)
    BY <1>a, <2>1, <2>3, LocalsTake
  <2>5. Abstract!Miss(t)
    BY <2>1, <2>2, <2>3, <2>4, MissIs
  <2> QED BY <2>5 DEF DirectoryStep, Abstract!Next
<1>5. CASE Malloc(t) \/ Link(t)
  <2>1. /\ pc[t] \in {"loop", "link"} /\ pc'[t] \in {"link", "publish"}
        /\ UNCHANGED <<list, call, ret, count>> /\ ~Done(t) /\ ~Done(t)'
    BY <1>0, <1>5 DEF Malloc, Link, Done
  <2>2. SameLocals
    BY <1>a, <2>1, NoEffect
  <2>3. \A s \in Linked : mem'[s] = mem[s]
    <3>1. CASE Malloc(t)
      <4>1. PICK s \in Slot \ alloc : mem' = [mem EXCEPT ![s] = Enters(call[t], mem[s])]
        BY <3>1 DEF Malloc
      <4>2. s \notin Linked
        BY <1>0, <4>1, ListFacts DEF Inv, ListShape
      <4> QED BY <1>0, <4>1, <4>2, ListFacts
    <3>2. CASE Link(t)
      <4>1. cur[t] \notin Linked /\ mem' = [mem EXCEPT ![cur[t]].next = head]
        BY <1>0, <3>2, InCall DEF Link
      <4> QED BY <1>0, <4>1, ListFacts
    <3> QED BY <1>5, <3>1, <3>2
  <2> QED BY <1>0, <2>1, <2>2, <2>3, EntriesStay DEF DirectoryStep
<1>6. CASE Unlock(t)
  <2>1. /\ pc[t] = "unlock" /\ UNCHANGED <<list, mem>> /\ pc'[t] \in {"exited", "idle"}
        /\ call' = [call EXCEPT ![t] = Null]
    BY <1>0, <1>6 DEF Unlock
  <2>2. Done(t) /\ ~Done(t)' /\ call'[t] = Null
    BY <1>0, <2>1 DEF Done
  <2>3. Entries' = Entries
    BY <1>0, <2>1, EntriesStay
  <2>4. \A u \in Thread \ {t} : (Done(u)' <=> Done(u)) /\ Op(u)' = Op(u)
    BY <1>a DEF Done, Op
  <2>5. CallNow' = [CallNow EXCEPT ![t] = Null]
    BY <1>a, <2>2, <2>4 DEF CallNow, Op
  <2>6. DoneNow' = [DoneNow EXCEPT ![t] = FALSE]
    <3>1. \A u \in Thread : Done(u)' = IF u = t THEN FALSE ELSE Done(u)
      BY <2>2, <2>4 DEF Done
    <3> QED BY <3>1 DEF DoneNow
  <2>7. RetNow' = [RetNow EXCEPT ![t] = Null]
    BY <1>a, <2>2, <2>4 DEF RetNow
  <2>8. CountNow' = [CountNow EXCEPT ![t] = 0]
    BY <1>a, <2>2, <2>4 DEF CountNow
  <2>9. DoneNow[t]
    BY <2>2 DEF DoneNow
  <2>10. Abstract!Return(t)
    BY <2>3, <2>5, <2>6, <2>7, <2>8, <2>9
       DEF Abstract!Return, Entries, CallNow, DoneNow, RetNow, CountNow
  <2> QED BY <2>10 DEF DirectoryStep, Abstract!Next
<1>7. CASE Free(t)
  <2>1. /\ pc[t] = "free" /\ UNCHANGED <<list, call, ret, count>>
        /\ mem' = [mem EXCEPT ![cur[t]].fd = NoFd]
        /\ pc'[t] = IF Op(t) = "cleanup" THEN "loop" ELSE "unlock"
        /\ cur[t] \notin Linked
    BY <1>0, <1>7, InCall DEF Free
  <2>2. Done(t)' <=> Done(t)
    BY <2>1 DEF Done
  <2>3. Done(t)' = Done(t)
    BY <2>2 DEF Done
  <2>4. SameLocals
    BY <1>a, <2>1, <2>3, LocalsStay DEF CallNow, DoneNow, RetNow, CountNow, Op
  <2>5. \A s \in Linked : mem'[s] = mem[s]
    BY <1>0, <2>1, ListFacts
  <2> QED BY <1>0, <2>1, <2>4, <2>5, EntriesStay DEF DirectoryStep
<1>8. CASE Publish(t)
  <2>1. /\ pc[t] = "publish" /\ list' = <<cur[t]>> \o list /\ UNCHANGED <<mem, call, count>>
        /\ ret'[t] = cur[t] /\ pc'[t] = "unlock"
    BY <1>0, <1>8 DEF Publish
  <2>2. /\ Waits(t) /\ call[t] \in Call /\ Op(t) = "add" /\ cur[t] \in Slot
        /\ mem[cur[t]] \in Node /\ NotInList(cur[t])
    BY <1>0, <2>1, WaitsIn, InCall DEF Inv, CallsFit, Places, ApartOf
  <2>3. PICK s \in Slot : s = cur[t]
    BY <2>2
  <2>4. \A i \in DOMAIN Entries :
           Entries[i].id # s /\ Entries[i].fd = mem[list[i]].fd /\ Entries[i].fd # call[t].fd
    <3>1. \A i \in DOMAIN list : list[i] # s /\ mem[list[i]].fd # call[t].fd
      BY <1>0, <2>1, <2>2, <2>3 DEF NotInList, InHand, HasFilledIn
    <3>2. \A i \in DOMAIN Entries : Entries[i].fd = mem[list[i]].fd
      BY <1>b DEF EntriesFit, Client
    <3> QED BY <1>b, <3>1, <3>2 DEF EntriesFit
  <2>5. Nobody(t)
    BY <2>2, <2>4 DEF Nobody, Meets, Op, ByName
  <2> DEFINE new == [id |-> s, fd |-> call[t].fd, ip |-> call[t].ip, name |-> NoName,
                     state |-> "connected", old |-> FALSE]
             e == Entries
             f == Entries'
             p == <<new>> \o e
  <2>6. new = Client(s) /\ new \in Entry
    <3>1. new = Client(s)
      BY <2>1, <2>3 DEF Client, InHand, HasFilledIn
    <3> QED BY <2>2, <2>3, <3>1, ClientIs
  <2>7. Len(list') = Len(list) + 1
        /\ \A j \in 1..(Len(list) + 1) : list'[j] = IF j = 1 THEN s ELSE list[j - 1]
    BY <1>0, <2>1, <2>3, PutInIs
  <2>8. \A x : Client(x)' = Client(x)
    BY <2>1 DEF Client
  <2>9. \A j \in 1..(Len(list) + 1) : f[j] = IF j = 1 THEN new ELSE e[j - 1]
    <3> TAKE j \in 1..(Len(list) + 1)
    <3>1. PICK x : x = list'[j]
      OBVIOUS
    <3>2. f[j] = Client(x)'
      BY <1>b, <2>7, <3>1 DEF EntriesFit, Client
    <3>3. x = IF j = 1 THEN s ELSE list[j - 1]
      BY <2>7, <3>1
    <3>4. j # 1 => j - 1 \in 1..Len(list)
      BY <1>0
    <3>5. j # 1 => e[j - 1] = Client(list[j - 1])
      BY <1>b, <3>4 DEF EntriesFit
    <3> QED BY <2>6, <2>8, <3>2, <3>3, <3>5
  <2>10. /\ e \in Seq(Entry) /\ f \in Seq(Entry) /\ Len(e) = Len(list)
         /\ Len(f) = Len(list) + 1
    BY <1>b, <2>7 DEF EntriesFit
  <2> HIDE DEF new, e, f
  <2>11. /\ p \in Seq(Entry) /\ Len(p) = Len(list) + 1
         /\ \A j \in 1..(Len(list) + 1) : p[j] = IF j = 1 THEN new ELSE e[j - 1]
    <3>1. <<new>> \in Seq(Entry) /\ Len(<<new>>) = 1 /\ <<new>>[1] = new
      BY <2>6
    <3> QED BY <1>0, <2>10, <3>1, ConcatProperties
  <2> HIDE DEF p
  <2>12. f = p
    BY <2>9, <2>10, <2>11, SeqEqual
  <2>13. Entries' = <<[id |-> s, fd |-> call[t].fd, ip |-> call[t].ip, name |-> NoName,
                       state |-> "connected", old |-> FALSE]>> \o Entries
    BY <2>12 DEF f, p, e, new
  <2>14. count'[t] = 0 /\ Done(t)'
    BY <2>1, <2>2 DEF InHand, HasCounted, Counters, Done
  <2>15. Takes(t, s, 0)
    BY <1>a, <2>1, <2>3, <2>14, LocalsTake
  <2>16. Abstract!Add(t)
    BY <2>2, <2>4, <2>5, <2>13, <2>15, AddIs
  <2> QED BY <2>16 DEF DirectoryStep, Abstract!Next
<1>9. CASE Update(t)
  <2>1. /\ pc[t] = "loop" /\ cur[t] # Null /\ Op(t) \in Setters
        /\ Meets(call[t], mem[cur[t]]) /\ Op(t) \notin Counters /\ Op(t) # "clear"
        /\ UNCHANGED <<list, call, count>> /\ ret'[t] = cur[t] /\ pc'[t] = "unlock"
        /\ mem' = [mem EXCEPT ![cur[t]] = Changed(call[t], mem[cur[t]])]
    BY <1>0, <1>9 DEF Update, Here, Setters, Counters
  <2>2. PICK k \in DOMAIN list :
           FirstMet(t, k) /\ cur[t] = list[k] /\ Entries[k].id = cur[t]
    BY <1>0, <2>1, StopsAtFirst
  <2>3. Waits(t) /\ call[t] \in Call
    BY <1>0, <2>1, WaitsIn
  <2>4. count'[t] = 0 /\ Done(t)'
    BY <2>1, <2>3 DEF InHand, HasCounted, Done
  <2>5. Takes(t, Entries[k].id, 0)
    BY <1>a, <2>1, <2>2, <2>4, LocalsTake
  <2> DEFINE n == mem[list[k]]
  <2>6. n \in Node /\ mem'[list[k]] = Changed(call[t], n)
    BY <1>0, <2>1, <2>2
  <2>7. Client(list[k])' = Changed(call[t], Client(list[k]))
    <3>1. CASE Op(t) = "setName"
      BY <2>1, <2>6, <3>1 DEF Changed, Client, Op, Node
    <3>2. CASE Op(t) = "setState"
      BY <2>1, <2>6, <3>2 DEF Changed, Client, Op, Node
    <3>3. CASE Op(t) = "touch"
      <4>1. \A x : Changed(call[t], x) = [x EXCEPT !.old = FALSE]
        BY <3>3 DEF Changed, Op
      <4>2. mem'[list[k]] = [n EXCEPT !.old = FALSE]
        BY <2>6, <4>1
      <4>3. Client(list[k])' = [Client(list[k]) EXCEPT !.old = FALSE]
        <5>1. PICK x \in Slot : x = list[k] /\ x = list'[k]
          BY <1>0, <2>1
        <5>2. Client(x)' = [Client(x) EXCEPT !.old = FALSE]
          BY <2>6, <4>2, <5>1, AgeOf
        <5> QED BY <5>1, <5>2 DEF Client
      <4> QED BY <4>1, <4>3
    <3> QED BY <2>1, <3>1, <3>2, <3>3 DEF Setters
  <2>8. \A i \in DOMAIN list : i # k => Client(list[i])' = Client(list[i])
    <3>1. \A i \in DOMAIN list : i # k => list[i] # list[k]
      BY <1>0, <2>2 DEF Inv, ListShape
    <3>2. \A i \in DOMAIN list : i # k => mem'[list[i]] = mem[list[i]]
      BY <1>0, <2>1, <2>2, <3>1
    <3> QED BY <2>1, <3>2 DEF Client
  <2>9. Entries' = [Entries EXCEPT ![k] = Changed(call[t], Entries[k])]
    <3>1. Entries[k] = Client(list[k])
      BY <2>2 DEF Entries
    <3>2. \A i \in DOMAIN list :
             Client(list[i])' = IF i = k THEN Changed(call[t], Entries[k]) ELSE Entries[i]
      BY <2>7, <2>8, <3>1 DEF Entries
    <3>3. Entries' = [i \in DOMAIN list |-> Client(list[i])']
      BY <2>1 DEF Entries, Client
    <3>4. Entries = [i \in DOMAIN list |-> Client(list[i])]
      BY DEF Entries
    <3> QED BY <2>2, <3>2, <3>3, <3>4
  <2>10. Abstract!Change(t)
    BY <2>1, <2>2, <2>3, <2>5, <2>9, ChangeIs
  <2> QED BY <2>10 DEF DirectoryStep, Abstract!Next
<1>10. CASE Unlink(t)
  <2>1. /\ pc[t] = "loop" /\ cur[t] # Null /\ Op(t) \in Removers
        /\ Meets(call[t], mem[cur[t]]) /\ Op(t) \notin Counters /\ Op(t) # "clear"
        /\ UNCHANGED <<call, count>> /\ pc'[t] = "free"
        /\ ret'[t] = IF Op(t) = "cleanup" THEN Null ELSE cur[t]
    BY <1>0, <1>10 DEF Unlink, Here, Removers, Counters
  <2>2. PICK k \in DOMAIN list :
           FirstMet(t, k) /\ cur[t] = list[k] /\ Entries[k].id = cur[t]
    BY <1>0, <2>1, StopsAtFirst
  <2>3. PICK m \in DOMAIN list : TakesOut(t, m)
    BY <1>0, <1>10, UnlinkIs
  <2>4. m = k
    <3>1. list[m] = list[k]
      BY <2>2, <2>3 DEF TakesOut
    <3> QED BY <1>0, <3>1 DEF Inv, ListShape
  <2>5. Entries' = RemoveAt(Entries, k)
    BY <1>0, <2>3, <2>4, EntriesWithout
  <2>6. Waits(t)
    BY <1>0, <2>1, WaitsIn
  <2>7. CASE Op(t) = "cleanup"
    <3>1. ~Done(t) /\ ~Done(t)'
      BY <2>1, <2>7 DEF Done, Op
    <3>2. SameLocals
      BY <1>a, <2>1, <3>1, NoEffect
    <3>3. Abstract!Expire(t)
      BY <2>2, <2>5, <2>6, <2>7, <3>2, ExpireIs
    <3> QED BY <3>3 DEF DirectoryStep, Abstract!Next
  <2>8. CASE Op(t) # "cleanup"
    <3>1. Op(t) \in {"remove", "removeName"} /\ count'[t] = 0 /\ Done(t)'
      BY <2>1, <2>6, <2>8 DEF Removers, InHand, HasCounted, Done
    <3>2. Takes(t, Entries[k].id, 0)
      BY <1>a, <2>1, <2>2, <2>8, <3>1, LocalsTake
    <3>3. Abstract!TakeOut(t)
      BY <2>2, <2>5, <2>6, <3>1, <3>2, TakeOutIs
    <3> QED BY <3>3 DEF DirectoryStep, Abstract!Next
  <2> QED BY <2>7, <2>8
<1>11. CASE ClearNode(t)
  <2>1. /\ pc[t] = "loop" /\ cur[t] # Null /\ Op(t) = "clear" /\ UNCHANGED <<pc, call, count, ret>>
        /\ list' = Tail(list) /\ mem' = [mem EXCEPT ![cur[t]].fd = NoFd]
        /\ ~Done(t) /\ ~Done(t)'
    BY <1>11 DEF ClearNode, Done
  <2>2. cur[t] = list[1] /\ 1 \in DOMAIN list /\ list # <<>> /\ Waits(t)
    BY <1>0, <2>1, InLoop, WaitsIn
  <2>3. /\ Len(list') = Len(list) - 1
        /\ \A j \in 1..(Len(list) - 1) : list'[j] = list[j + 1]
    BY <1>0, <2>1, <2>2, TailIs DEF Inv
  <2> DEFINE e == Entries
             f == Entries'
             l == list'
  <2>4. \A j \in 1..(Len(list) - 1) : f[j] = e[j + 1]
    <3> TAKE j \in 1..(Len(list) - 1)
    <3>1. j + 1 \in DOMAIN list /\ j + 1 # 1
      BY <1>0
    <3>2. PICK x : x = list[j + 1]
      OBVIOUS
    <3>3. x # cur[t] /\ x \in Slot
      BY <1>0, <2>2, <3>1, <3>2 DEF Inv, ListShape
    <3>4. mem'[x] = mem[x]
      BY <1>0, <2>1, <3>3
    <3>5. Client(x)' = Client(x)
      BY <3>4 DEF Client
    <3>6. e[j + 1] = Client(x)
      BY <1>b, <1>0, <3>1, <3>2 DEF EntriesFit
    <3>7. list'[j] = x
      BY <2>3, <3>2
    <3> HIDE <2>1
    <3>8. f[j] = Client(x)'
      BY <1>b, <2>3, <3>7 DEF EntriesFit, Client
    <3> QED BY <3>5, <3>6, <3>8
  <2>5. /\ e \in Seq(Entry) /\ f \in Seq(Entry) /\ Len(e) = Len(list)
        /\ Len(f) = Len(list) - 1
    BY <1>b, <2>3 DEF EntriesFit
  <2> HIDE DEF e, f
  <2>6. e # <<>>
    BY <1>0, <2>2, <2>5, EmptySeq
  <2>7. Tail(e) \in Seq(Entry) /\ Len(Tail(e)) = Len(e) - 1
        /\ \A j \in 1..(Len(e) - 1) : Tail(e)[j] = e[j + 1]
    BY <2>5, <2>6, HeadTailProperties
  <2> DEFINE g == Tail(e)
  <2>8. g \in Seq(Entry) /\ Len(g) = Len(f) /\ \A j \in 1..Len(f) : g[j] = f[j]
    BY <2>4, <2>5, <2>7
  <2> HIDE DEF g
  <2>9. f = g
    BY <2>5, <2>8, SeqEqual
  <2>10. Entries # <<>> /\ Entries' = Tail(Entries)
    BY <2>6, <2>9 DEF e, f, g
  <2>11. SameLocals
    BY <1>a, <2>1, NoEffect
  <2>12. Abstract!Clear(t)
    BY <2>1, <2>2, <2>10, <2>11, ClearIs
  <2> QED BY <2>12 DEF DirectoryStep, Abstract!Next
<1>12. CASE ClearHead(t)
  <2>1. /\ pc[t] = "loop" /\ cur[t] = Null /\ Op(t) = "clear"
        /\ UNCHANGED <<list, mem, call, count, ret>> /\ pc'[t] = "unlock"
    BY <1>0, <1>12 DEF ClearHead
  <2>2. cur[t] = First
    BY <2>1 DEF Inv, Places, PositionOf
  <2>3. Entries = <<>> /\ Entries' = Entries
    <3>1. list = <<>>
      BY <1>0, <2>1, <2>2, ListFacts, EmptySeq DEF First, TypeOK
    <3>2. Len(Entries) = 0
      BY <1>b, <3>1 DEF EntriesFit
    <3> QED BY <1>0, <1>b, <2>1, <3>2, EntriesStay, EmptySeq DEF EntriesFit
  <2>4. Waits(t)
    BY <1>0, <2>1, WaitsIn
  <2>5. count'[t] = 0 /\ ret'[t] = Null /\ Done(t)'
    BY <2>1, <2>4 DEF InHand, HasCounted, Counters, Waits, Done
  <2>6. Takes(t, Null, 0)
    BY <1>a, <2>1, <2>5, LocalsTake
  <2>7. Abstract!Clear(t)
    BY <2>1, <2>3, <2>4, <2>6, ClearIs
  <2> QED BY <2>7 DEF DirectoryStep, Abstract!Next
<1> QED BY <1>1, <1>2, <1>3, <1>4, <1>5, <1>6, <1>7, <1>8, <1>9, <1>10, <1>11, <1>12 DEF Locked

LEMMA StepIsDirectoryStep ==
    ASSUME Inv, Inv', AllInHand, AllInHand', [Next]_vars PROVE DirectoryStep
<1> USE ClientListAssumption DEF callVars, memVars, vars, Goto, At
<1>0. /\ TypeOK /\ Inv /\ TypeOK'
      /\ pc \in [Thread -> Label] /\ call \in [Thread -> Call \cup {Null}]
      /\ mem \in [Slot -> Node] /\ DOMAIN list = 1..Len(list)
      /\ \A i \in DOMAIN list : list[i] \in Slot /\ list[i] \in Linked
  BY ListFacts DEF Inv, TypeOK
<1>1. CASE UNCHANGED vars
  BY <1>1 DEF DirectoryStep, Entries, Client, SameLocals, CallNow, DoneNow, RetNow, CountNow,
              Done, Op
<1>2. CASE Age
  <2>1. PICK s \in Linked : mem' = [mem EXCEPT ![s].old = TRUE]
    BY <1>2 DEF Age
  <2>2. PICK k \in DOMAIN list : s = list[k]
    BY <1>0, ListFacts
  <2>3. list' = list /\ SameLocals
    BY <1>2 DEF Age, SameLocals, CallNow, DoneNow, RetNow, CountNow, Done, Op
  <2>4. Client(s)' = [Client(s) EXCEPT !.old = TRUE]
    <3>1. s \in Slot /\ mem'[s] = [mem[s] EXCEPT !.old = TRUE]
      BY <1>0, <2>1, <2>2
    <3> QED BY <1>0, <3>1, AgeOf
  <2>5. \A i \in DOMAIN list : i # k => Client(list[i])' = Client(list[i])
    <3>1. \A i \in DOMAIN list : i # k => list[i] # s
      BY <1>0, <2>2 DEF Inv, ListShape
    <3>2. \A i \in DOMAIN list : i # k => mem'[list[i]] = mem[list[i]]
      BY <1>0, <2>1, <2>2, <3>1
    <3> QED BY <2>3, <3>2 DEF Client
  <2>6. k \in DOMAIN Entries /\ Entries' = [Entries EXCEPT ![k].old = TRUE]
    <3>1. k \in DOMAIN Entries /\ Entries[k] = Client(s)
      BY <2>2 DEF Entries
    <3>2. \A i \in DOMAIN list :
             Client(list[i])' = IF i = k THEN [Entries[k] EXCEPT !.old = TRUE] ELSE Entries[i]
      BY <2>2, <2>3, <2>4, <2>5, <3>1 DEF Entries, Client
    <3>3. Entries' = [i \in DOMAIN list |-> Client(list[i])']
      BY <2>3 DEF Entries, Client
    <3>4. Entries = [i \in DOMAIN list |-> Client(list[i])]
      BY DEF Entries
    <3> QED BY <2>2, <3>1, <3>2, <3>3, <3>4
  <2>7. Abstract!Age
    BY <2>3, <2>6 DEF Abstract!Age, Entries, SameLocals, CallNow, DoneNow, RetNow, CountNow
  <2> QED BY <2>7 DEF DirectoryStep, Abstract!Next
<1>3. ASSUME NEW t \in Thread, Locked(t) PROVE DirectoryStep
  <2>1. InHand(t) /\ InHand(t)'
    BY DEF AllInHand
  <2> QED BY <1>0, <1>3, <2>1, LockedIsStep
<1>4. ASSUME NEW t \in Thread, Lock(t) \/ Walk(t) PROVE DirectoryStep
  <2>1. \A u \in Thread \ {t} :
           pc'[u] = pc[u] /\ call'[u] = call[u] /\ count'[u] = count[u] /\ ret'[u] = ret[u]
    BY <1>0, <1>4, OthersStay
  <2>2. UNCHANGED <<list, mem>>
    BY <1>4 DEF Lock, Walk, WalkStart, WalkVisit, WalkNext, WalkEnd
  <2>3. Entries' = Entries
    BY <2>2 DEF Entries, Client
  <2>4. ~Done(t) /\ ~Done(t)'
    BY <1>0, <1>4 DEF Lock, Walk, WalkStart, WalkVisit, WalkNext, WalkEnd, Done
  <2>5. CASE Lock(t)
    <3>1. call' = call
      BY <2>5 DEF Lock
    <3> QED BY <2>1, <2>3, <2>4, <3>1, NoEffect DEF DirectoryStep
  <2>6. CASE Walk(t)
    <3>1. Op(t) = "walk" /\ call[t] # Null
      BY <1>0, <2>6 DEF Walk, WalkStart, WalkVisit, WalkNext, WalkEnd, Inv, CallsFit
    <3>2. call'[t] \in {call[t], Null}
      BY <1>0, <2>6 DEF Walk, WalkStart, WalkVisit, WalkNext, WalkEnd
    <3> QED BY <2>1, <2>3, <2>4, <3>1, <3>2, NotShown DEF DirectoryStep, Op
  <2> QED BY <1>4, <2>5, <2>6
<1>5. ASSUME NEW t \in Thread, Invoke(t) PROVE DirectoryStep
  <2>1. PICK c \in Calls[t] :
           /\ call' = [call EXCEPT ![t] = c]
           /\ pc' = [pc EXCEPT ![t] = IF c.op = "walk" THEN "start" ELSE "lock"]
    BY <1>5 DEF Invoke
  <2>2. /\ pc[t] = "idle" /\ call[t] = Null /\ c # Null /\ call'[t] = c
        /\ UNCHANGED <<list, mem, ret, count>> /\ ~Done(t) /\ ~Done(t)'
    BY <1>0, <1>5, <2>1 DEF Invoke, Inv, CallsFit, Done
  <2>3. \A u \in Thread \ {t} :
           pc'[u] = pc[u] /\ call'[u] = call[u] /\ count'[u] = count[u] /\ ret'[u] = ret[u]
    BY <1>0, <1>5, OthersStay
  <2>4. Entries' = Entries
    BY <2>2 DEF Entries, Client
  <2>5. CASE c.op = "walk"
    BY <2>2, <2>3, <2>4, <2>5, NotShown DEF DirectoryStep, Op
  <2>6. CASE c.op # "walk"
    <3>1. CallNow[t] = Null /\ CallNow' = [CallNow EXCEPT ![t] = c]
      BY <2>2, <2>3, <2>6 DEF CallNow, Op
    <3>2. DoneNow' = DoneNow /\ RetNow' = RetNow /\ CountNow' = CountNow
      BY <2>2, <2>3, SameEffects
    <3>3. c \in UNION {{x \in Calls[u] : x.op # "walk"} : u \in Thread}
      BY <2>6
    <3>4. Abstract!Invoke(t)
      BY <2>4, <3>1, <3>2, <3>3
         DEF Abstract!Invoke, Entries, CallNow, DoneNow, RetNow, CountNow
    <3> QED BY <3>4 DEF DirectoryStep, Abstract!Next
  <2> QED BY <2>5, <2>6
<1> QED BY <1>1, <1>2, <1>3, <1>4, <1>5 DEF Next

(* Whatever the threads call, and however their steps interleave, the words of
   memory are the abstract directory: every call takes effect at one moment. *)
THEOREM ListIsDirectory == Spec => ImplementsDirectory
<1>1. Init => Abstract!Init
  <2> SUFFICES ASSUME Init PROVE Abstract!Init
    OBVIOUS
  <2>1. \A t \in Thread : ~Done(t) /\ call[t] = Null
    BY DEF Init, Done, At
  <2>2. \A t \in Thread : Done(t) = FALSE
    BY DEF Init, Done, At
  <2>3. Entries = <<>>
    <3>1. TypeOK /\ list = <<>>
      BY InitInv DEF Inv, Init
    <3>2. Entries \in Seq(Entry) /\ Len(Entries) = 0
      BY <3>1, EntriesAre DEF EntriesFit
    <3> QED BY <3>2, EmptySeq
  <2>4. /\ CallNow = [t \in Thread |-> Null] /\ DoneNow = [t \in Thread |-> FALSE]
        /\ RetNow = [t \in Thread |-> Null] /\ CountNow = [t \in Thread |-> 0]
    BY <2>1, <2>2 DEF CallNow, DoneNow, RetNow, CountNow
  <2> QED BY <2>3, <2>4 DEF Abstract!Init, Entries, CallNow, DoneNow, RetNow, CountNow
<1>2. Inv /\ Inv' /\ AllInHand /\ AllInHand' /\ [Next]_vars
        => [Abstract!Next]_(Abstract!vars)
  BY StepIsDirectoryStep
     DEF DirectoryStep, SameLocals, Abstract!vars, Entries, CallNow, DoneNow, RetNow, CountNow
<1>3. Spec => []AllInHand
  BY InitInHand, NextInHand, InvHolds, PTL DEF Spec
<1> QED BY <1>1, <1>2, <1>3, InvHolds, PTL DEF Spec, ImplementsDirectory, Abstract!Spec
=============================================================================
