--------------------------- MODULE RegistryProofs ---------------------------
(***************************************************************************)
(* Facts about the operators of Registry: what a lookup returns, and what  *)
(* adding, removing and updating a node do to the list.                    *)
(***************************************************************************)
EXTENDS Registry, TLAPS, SequenceTheorems, FiniteSetTheorems

(* A non-empty set of naturals has a minimum, and Min is it. *)
LEMMA MinIsLeast ==
    ASSUME NEW I \in SUBSET Nat, I # {}
    PROVE  Min(I) \in I /\ \A i \in I : Min(I) <= i
<1> DEFINE T == {0..i : i \in I}
<1>1. \A i \in I : 0..i \in FiniteSubsetsOf(Nat)
  <2> TAKE i \in I
  <2>1. 0 \in Int /\ i \in Int /\ 0..i \in SUBSET Nat
    OBVIOUS
  <2> QED BY <2>1, FS_Interval DEF FiniteSubsetsOf
<1>2. T \subseteq FiniteSubsetsOf(Nat) /\ T # {}
  BY <1>1
<1>3. PICK t \in T : \A u \in T : ~ (<<u, t>> \in StrictSubsetOrdering(Nat))
  BY <1>2, FS_StrictSubsetOrderingWellFounded, WFMin
<1>4. PICK x \in I : t = 0..x
  OBVIOUS
<1>5. ASSUME NEW y \in I, y < x PROVE FALSE
  <2>1. 0..y \subseteq 0..x /\ 0..y # 0..x /\ 0..y \in SUBSET Nat /\ 0..x \in SUBSET Nat
    BY <1>5
  <2>2. <<0..y, 0..x>> \in StrictSubsetOrdering(Nat)
    BY <2>1 DEF StrictSubsetOrdering
  <2> QED BY <1>3, <1>4, <2>2
<1>6. \A y \in I : x <= y
  BY <1>5
<1> QED BY <1>6 DEF Min

(* The list without its i-th node. *)
LEMMA RemoveAtIs ==
    ASSUME NEW S, NEW s \in Seq(S), NEW i \in 1..Len(s)
    PROVE  /\ RemoveAt(s, i) \in Seq(S)
           /\ Len(RemoveAt(s, i)) = Len(s) - 1
           /\ \A j \in 1..(Len(s) - 1) :
                RemoveAt(s, i)[j] = IF j < i THEN s[j] ELSE s[j + 1]
<1> DEFINE a == SubSeq(s, 1, i - 1)
           b == SubSeq(s, i + 1, Len(s))
<1>1. \A j \in 1..Len(s) : s[j] \in S
  BY ElementOfSeq
<1>2. a \in Seq(S) /\ Len(a) = i - 1 /\ \A j \in 1..(i - 1) : a[j] = s[j]
  BY <1>1, SubSeqProperties, LenProperties
<1>3. b \in Seq(S) /\ Len(b) = Len(s) - i /\ \A j \in 1..(Len(s) - i) : b[j] = s[i + j]
  BY <1>1, SubSeqProperties, LenProperties
<1>4. RemoveAt(s, i) = a \o b
  BY DEF RemoveAt
<1> HIDE DEF a, b
<1>5. Len(s) \in Nat
  BY LenProperties
<1>6. /\ a \o b \in Seq(S)
      /\ Len(a \o b) = Len(a) + Len(b)
      /\ \A j \in 1..(Len(a) + Len(b)) : (a \o b)[j] = IF j <= Len(a) THEN a[j] ELSE b[j - Len(a)]
  BY <1>2, <1>3, ConcatProperties
<1>7. \A j \in 1..(Len(s) - 1) : (a \o b)[j] = IF j < i THEN s[j] ELSE s[j + 1]
  <2> TAKE j \in 1..(Len(s) - 1)
  <2>1. CASE j < i
    BY <1>2, <1>3, <1>5, <1>6, <2>1
  <2>2. CASE ~ (j < i)
    <3>1. j - (i - 1) \in 1..(Len(s) - i) /\ i + (j - (i - 1)) = j + 1
      BY <1>5, <2>2
    <3>2. (a \o b)[j] = b[j - (i - 1)]
      BY <1>2, <1>3, <1>5, <1>6, <2>2
    <3>3. b[j - (i - 1)] = s[i + (j - (i - 1))]
      BY <1>3, <3>1
    <3> QED BY <2>2, <3>1, <3>2, <3>3
  <2> QED BY <2>1, <2>2
<1> QED BY <1>2, <1>3, <1>4, <1>5, <1>6, <1>7

(* The list with a node put before its head. *)
LEMMA ConsIs ==
    ASSUME NEW S, NEW s \in Seq(S), NEW x \in S
    PROVE  /\ Cons(x, s) \in Seq(S)
           /\ Len(Cons(x, s)) = Len(s) + 1
           /\ \A j \in 1..(Len(s) + 1) : Cons(x, s)[j] = IF j = 1 THEN x ELSE s[j - 1]
<1>1. <<x>> \in Seq(S) /\ Len(<<x>>) = 1 /\ <<x>>[1] = x
  OBVIOUS
<1> QED BY <1>1, ConcatProperties, LenProperties DEF Cons

(* What is in a sequence after an element is put in or taken out. *)
LEMMA SetOfAppend ==
    ASSUME NEW S, NEW s \in Seq(S), NEW x \in S PROVE ToSet(Append(s, x)) = ToSet(s) \cup {x}
<1> DEFINE t == Append(s, x)
<1>1. t \in Seq(S) /\ Len(t) = Len(s) + 1 /\ t[Len(s) + 1] = x /\ \A i \in 1..Len(s) : t[i] = s[i]
  BY AppendProperties
<1> HIDE DEF t
<1>2. DOMAIN t = 1..(Len(s) + 1) /\ DOMAIN s = 1..Len(s) /\ Len(s) \in Nat
  BY <1>1, LenProperties
<1>3. /\ DOMAIN s \subseteq DOMAIN t /\ Len(s) + 1 \in DOMAIN t
      /\ \A i \in DOMAIN t : i \in DOMAIN s \/ i = Len(s) + 1
  BY <1>2
<1>4. ToSet(t) = ToSet(s) \cup {x}
  BY <1>1, <1>2, <1>3 DEF ToSet
<1> QED BY <1>4 DEF t

LEMMA SetOfTail ==
    ASSUME NEW S, NEW s \in Seq(S), s # <<>> PROVE ToSet(s) = ToSet(Tail(s)) \cup {Head(s)}
<1> DEFINE t == Tail(s)
<1>1. t \in Seq(S) /\ Len(t) = Len(s) - 1 /\ Head(s) = s[1] /\ \A i \in 1..Len(t) : t[i] = s[i + 1]
  BY HeadTailProperties
<1> HIDE DEF t
<1>2. DOMAIN t = 1..(Len(s) - 1) /\ DOMAIN s = 1..Len(s) /\ Len(s) \in Nat /\ Len(s) # 0
  BY <1>1, LenProperties, EmptySeq
<1>3. /\ 1 \in DOMAIN s /\ \A i \in DOMAIN t : i + 1 \in DOMAIN s
      /\ \A i \in DOMAIN s : i = 1 \/ (i - 1 \in DOMAIN t /\ (i - 1) + 1 = i)
  BY <1>2
<1>4. \A i \in DOMAIN t : t[i] = s[i + 1]
  BY <1>1, <1>2
<1>5. \A i \in DOMAIN s : s[i] = Head(s) \/ \E j \in DOMAIN t : s[i] = t[j]
  BY <1>1, <1>3, <1>4
<1>6. \A i \in DOMAIN t : \E j \in DOMAIN s : t[i] = s[j]
  BY <1>3, <1>4
<1>7. \E j \in DOMAIN s : Head(s) = s[j]
  BY <1>1, <1>3
<1>8. ToSet(s) = ToSet(t) \cup {Head(s)}
  BY <1>5, <1>6, <1>7 DEF ToSet
<1> QED BY <1>8 DEF t

LEMMA SetOfRemoved ==
    ASSUME NEW S, NEW s \in Seq(S), NEW k \in DOMAIN s,
           \A i, j \in DOMAIN s : i # j => s[i] # s[j]
    PROVE  ToSet(RemoveAt(s, k)) = ToSet(s) \ {s[k]}
<1> DEFINE t == RemoveAt(s, k)
<1>1. DOMAIN s = 1..Len(s) /\ Len(s) \in Nat
  BY LenProperties
<1>0. k \in 1..Len(s)
  BY <1>1
<1>2. /\ t \in Seq(S) /\ Len(t) = Len(s) - 1
      /\ \A j \in 1..(Len(s) - 1) : t[j] = IF j < k THEN s[j] ELSE s[j + 1]
  BY <1>0, RemoveAtIs
<1> HIDE DEF t
<1>3. DOMAIN t = 1..(Len(s) - 1)
  BY <1>2, LenProperties
<1>4. ASSUME NEW j \in DOMAIN t PROVE \E i \in DOMAIN s : i # k /\ t[j] = s[i]
  <2>1. CASE j < k
    <3>1. j \in DOMAIN s /\ j # k /\ t[j] = s[j]
      BY <1>1, <1>2, <1>3, <2>1
    <3> QED BY <3>1
  <2>2. CASE ~ (j < k)
    <3>1. j + 1 \in DOMAIN s /\ j + 1 # k /\ t[j] = s[j + 1]
      BY <1>1, <1>2, <1>3, <2>2
    <3> QED BY <3>1
  <2> QED BY <2>1, <2>2
<1>5. ASSUME NEW i \in DOMAIN s, i # k PROVE \E j \in DOMAIN t : s[i] = t[j]
  <2>1. CASE i < k
    <3>1. i \in DOMAIN t /\ t[i] = s[i]
      BY <1>1, <1>2, <1>3, <2>1
    <3> QED BY <3>1
  <2>2. CASE ~ (i < k)
    <3>1. i - 1 \in DOMAIN t /\ ~ (i - 1 < k) /\ (i - 1) + 1 = i
      BY <1>1, <1>3, <1>5, <2>2
    <3>2. t[i - 1] = s[i]
      BY <1>2, <1>3, <3>1
    <3> QED BY <3>1, <3>2
  <2> QED BY <2>1, <2>2
<1>6. ToSet(t) = ToSet(s) \ {s[k]}
  BY <1>4, <1>5 DEF ToSet
<1> QED BY <1>6 DEF t

(* What a lookup returns: the null pointer when no node fits, else a node of
   the list that does. *)
LEMMA FirstOfIs ==
    ASSUME RegistryTypeOK, NEW I \in SUBSET (DOMAIN list)
    PROVE  /\ I = {} => FirstOf(I) = Null
           /\ I # {} => Min(I) \in I /\ FirstOf(I) = list[Min(I)] /\ FirstOf(I) \in Slot
<1>1. I \in SUBSET Nat
  BY LenProperties DEF RegistryTypeOK
<1>2. \A i \in DOMAIN list : list[i] \in Slot
  BY LenProperties, ElementOfSeq DEF RegistryTypeOK
<1>3. I # {} => Min(I) \in I
  BY <1>1, MinIsLeast
<1> QED BY <1>2, <1>3 DEF FirstOf

LEMMA FindByFdIs ==
    ASSUME RegistryTypeOK, NEW f
    PROVE  /\ WithFd(f) = {} => find_client_by_sockfd(f) = Null
           /\ WithFd(f) # {} =>
                \E i \in DOMAIN list : /\ i = Min(WithFd(f)) /\ node[list[i]].fd = f
                                       /\ find_client_by_sockfd(f) = list[i]
<1>1. WithFd(f) \in SUBSET (DOMAIN list)
  BY DEF WithFd
<1> QED BY <1>1, FirstOfIs DEF find_client_by_sockfd, WithFd

LEMMA FindByNameIs ==
    ASSUME RegistryTypeOK, NEW n
    PROVE  /\ find_client_by_username(n) \in Slot \cup {Null}
           /\ find_client_by_username(n) # Null =>
                \E i \in DOMAIN list : /\ node[list[i]].name = n
                                       /\ find_client_by_username(n) = list[i]
<1>1. WithName(n) \in SUBSET (DOMAIN list)
  BY DEF WithName
<1> QED BY <1>1, FirstOfIs DEF find_client_by_username, WithName

LEMMA LinkIsSlotOrNull ==
    ASSUME RegistryTypeOK, NEW s \in Slot
    PROVE  NextOf(s) \in Slot \cup {Null}
<1>1. \A i \in DOMAIN list : Successor(i) \in Slot \cup {Null}
  BY LenProperties, ElementOfSeq DEF Successor, RegistryTypeOK
<1>2. CASE s \in Linked
  <2>1. \E i \in DOMAIN list : list[i] = s
    BY <1>2 DEF Linked, ToSet
  <2> QED BY <1>1, <1>2, <2>1 DEF NextOf
<1>3. CASE s \notin Linked
  BY <1>3 DEF NextOf, RegistryTypeOK, Node
<1> QED BY <1>2, <1>3

(* What add_client does: nothing, or a free slot gets the descriptor and
   becomes the head. *)
LEMMA AddClientIs ==
    ASSUME RegistryTypeOK, NEW f \in Fd \cup {NoFd}, add_client(f)
    PROVE  /\ RegistryTypeOK'
           /\ UniqueFds => UniqueFds'
           /\ \A i \in DOMAIN list' :
                \/ /\ node'[list'[i]].fd = f /\ node'[list'[i]].state = "connected"
                   /\ node'[list'[i]].name = NoName
                \/ \E j \in DOMAIN list : list'[i] = list[j] /\ node'[list'[i]] = node[list[j]]
           /\ \A j \in DOMAIN list : \E i \in DOMAIN list' : list'[i] = list[j]
<1>1. CASE WithFd(f) # {}
  <2>1. UNCHANGED <<list, node>>
    BY <1>1 DEF add_client, regVars
  <2> QED BY <2>1 DEF RegistryTypeOK, UniqueFds
<1>2. CASE WithFd(f) = {}
  <2>1. PICK s \in Slot \ Linked :
           /\ list' = Cons(s, list)
           /\ node' = [node EXCEPT ![s] =
                [fd |-> f, name |-> NoName, state |-> "connected", next |-> Null]]
    BY <1>2 DEF add_client
  <2>2. /\ list' \in Seq(Slot) /\ Len(list') = Len(list) + 1
        /\ \A j \in 1..(Len(list) + 1) : list'[j] = IF j = 1 THEN s ELSE list[j - 1]
    <3>1. s \in Slot /\ list \in Seq(Slot)
      BY DEF RegistryTypeOK
    <3>2. /\ Cons(s, list) \in Seq(Slot) /\ Len(Cons(s, list)) = Len(list) + 1
          /\ \A j \in 1..(Len(list) + 1) : Cons(s, list)[j] = IF j = 1 THEN s ELSE list[j - 1]
      BY <3>1, ConsIs
    <3>3. list' = Cons(s, list)
      BY <2>1
    <3> QED BY <3>2, <3>3
  <2>3. DOMAIN list = 1..Len(list) /\ DOMAIN list' = 1..(Len(list) + 1) /\ Len(list) \in Nat
    BY <2>2, LenProperties DEF RegistryTypeOK
  <2>4. \A j \in DOMAIN list : list[j] \in Slot /\ list[j] # s
    BY <2>3, ElementOfSeq DEF RegistryTypeOK, Linked, ToSet
  <2>5. /\ node' \in [Slot -> Node]
        /\ node'[s].fd = f /\ node'[s].state = "connected" /\ node'[s].name = NoName
        /\ \A t \in Slot : t # s => node'[t] = node[t]
    BY <2>1 DEF RegistryTypeOK, Node
  <2>6. RegistryTypeOK'
    BY <2>2, <2>5 DEF RegistryTypeOK
  <2>7. \A j \in DOMAIN list : node[list[j]].fd # f
    BY <1>2 DEF WithFd
  <2>8. \A i \in DOMAIN list' :
           \/ i = 1 /\ list'[i] = s
           \/ i - 1 \in DOMAIN list /\ list'[i] = list[i - 1] /\ list'[i] # s
              /\ node'[list'[i]] = node[list[i - 1]]
    BY <2>2, <2>3, <2>4, <2>5
  <2>9. UniqueFds => UniqueFds'
    <3> SUFFICES ASSUME UniqueFds, NEW i \in DOMAIN list', NEW j \in DOMAIN list', i # j,
                        node'[list'[i]].fd = node'[list'[j]].fd
                 PROVE  FALSE
      BY DEF UniqueFds
    <3>1. CASE i = 1 \/ j = 1
      <4>1. ASSUME NEW k \in DOMAIN list', k # 1
            PROVE  node'[list'[k]].fd # f
        BY <2>7, <2>8, <4>1
      <4>2. ASSUME NEW k \in DOMAIN list', k = 1
            PROVE  node'[list'[k]].fd = f
        <5>1. list'[k] = s
          BY <2>2, <2>3, <4>2
        <5> QED BY <2>5, <5>1
      <4> QED BY <3>1, <4>1, <4>2
    <3>2. CASE i # 1 /\ j # 1
      <4>1. i - 1 \in DOMAIN list /\ j - 1 \in DOMAIN list /\ i - 1 # j - 1
        BY <2>3, <2>8, <3>2
      <4>2. node[list[i - 1]].fd = node[list[j - 1]].fd
        BY <2>8, <3>2
      <4> QED BY <4>1, <4>2 DEF UniqueFds
    <3> QED BY <3>1, <3>2
  <2>10. \A j \in DOMAIN list : j + 1 \in DOMAIN list' /\ list'[j + 1] = list[j]
    BY <2>2, <2>3
  <2> QED BY <2>5, <2>6, <2>8, <2>9, <2>10
<1> QED BY <1>1, <1>2

(* What remove_client does when nodes are distinct: the node of the
   descriptor leaves, the others stay, and stay as they are. *)
LEMMA RemoveClientIs ==
    ASSUME RegistryTypeOK, NEW f, remove_client(f)
    PROVE  /\ RegistryTypeOK'
           /\ UniqueFds =>
                /\ UniqueFds'
                /\ \A i \in DOMAIN list' :
                     /\ node'[list'[i]].fd # f
                     /\ \E j \in DOMAIN list : list'[i] = list[j] /\ node'[list'[i]] = node[list[j]]
                /\ \A j \in DOMAIN list : node[list[j]].fd # f =>
                     \E i \in DOMAIN list' : list'[i] = list[j]
<1>1. CASE WithFd(f) = {}
  <2>1. UNCHANGED <<list, node>>
    BY <1>1 DEF remove_client, regVars
  <2>2. \A i \in DOMAIN list : node[list[i]].fd # f
    BY <1>1 DEF WithFd
  <2> QED BY <2>1, <2>2 DEF RegistryTypeOK, UniqueFds
<1>2. CASE WithFd(f) # {}
  <2> DEFINE k == Min(WithFd(f))
  <2>1. k \in DOMAIN list /\ node[list[k]].fd = f
    BY <1>2, FindByFdIs
  <2>2. /\ list' = RemoveAt(list, k)
        /\ node' = [node EXCEPT ![list[k]].fd = NoFd, ![list[k]].next = Successor(k)]
    BY <1>2 DEF remove_client
  <2> HIDE DEF k
  <2>3. DOMAIN list = 1..Len(list) /\ Len(list) \in Nat
    BY LenProperties DEF RegistryTypeOK
  <2>4. /\ list' \in Seq(Slot) /\ Len(list') = Len(list) - 1
        /\ \A j \in 1..(Len(list) - 1) : list'[j] = IF j < k THEN list[j] ELSE list[j + 1]
    BY <2>1, <2>2, <2>3, RemoveAtIs DEF RegistryTypeOK
  <2>5. DOMAIN list' = 1..(Len(list) - 1)
    BY <2>4, LenProperties
  <2>6. \A j \in DOMAIN list : list[j] \in Slot
    BY <2>3, ElementOfSeq DEF RegistryTypeOK
  <2>7. Successor(k) \in Slot \cup {Null}
    BY <2>1, <2>3, <2>6 DEF Successor
  <2>8. /\ node' \in [Slot -> Node]
        /\ \A t \in Slot : t # list[k] => node'[t] = node[t]
    BY <2>1, <2>2, <2>6, <2>7 DEF RegistryTypeOK, Node
  <2>9. RegistryTypeOK'
    BY <2>4, <2>8 DEF RegistryTypeOK
  <2>10. ASSUME UniqueFds
         PROVE  /\ UniqueFds'
                /\ \A i \in DOMAIN list' :
                     /\ node'[list'[i]].fd # f
                     /\ \E j \in DOMAIN list : list'[i] = list[j] /\ node'[list'[i]] = node[list[j]]
                /\ \A j \in DOMAIN list : node[list[j]].fd # f =>
                     \E i \in DOMAIN list' : list'[i] = list[j]
    <3> DEFINE old(i) == IF i < k THEN i ELSE i + 1
    <3>1. \A i \in DOMAIN list' :
             old(i) \in DOMAIN list /\ old(i) # k /\ list'[i] = list[old(i)]
      BY <2>1, <2>3, <2>4, <2>5
    <3>2. \A i \in DOMAIN list' : node'[list'[i]] = node[list[old(i)]] /\ node'[list'[i]].fd # f
      BY <2>1, <2>6, <2>8, <2>10, <3>1 DEF UniqueFds
    <3>3. \A i, j \in DOMAIN list' : i # j => old(i) # old(j)
      BY <2>1, <2>3, <2>5
    <3>4. \A j \in DOMAIN list : j # k => \E i \in DOMAIN list' : old(i) = j
      <4> TAKE j \in DOMAIN list
      <4>1. CASE j < k
        BY <2>1, <2>3, <2>5, <4>1
      <4>2. CASE j > k
        <5>1. j - 1 \in DOMAIN list' /\ old(j - 1) = j
          BY <2>1, <2>3, <2>5, <4>2
        <5> QED BY <5>1
      <4> QED BY <2>1, <2>3, <4>1, <4>2
    <3> HIDE DEF old
    <3>5. UniqueFds'
      BY <2>10, <3>1, <3>2, <3>3 DEF UniqueFds
    <3> QED BY <2>1, <3>1, <3>2, <3>4, <3>5
  <2> QED BY <2>9, <2>10
<1> QED BY <1>1, <1>2

(* The updates of a name and of a state leave the list and every descriptor
   alone. *)
LEMMA UpdateIs ==
    ASSUME RegistryTypeOK, NEW f,
           \/ \E n \in User : update_client_username(f, n)
           \/ \E st \in {"connected", "auth"} : update_client_state(f, st)
    PROVE  /\ RegistryTypeOK'
           /\ list' = list
           /\ \A s \in Slot : node'[s].fd = node[s].fd
<1>1. WithFd(f) # {} => find_client_by_sockfd(f) \in Slot
  BY FindByFdIs, LenProperties, ElementOfSeq DEF RegistryTypeOK
<1>2. CASE \E n \in User : update_client_username(f, n)
  BY <1>1, <1>2 DEF update_client_username, RegistryTypeOK, Node
<1>3. CASE \E st \in {"connected", "auth"} : update_client_state(f, st)
  BY <1>1, <1>3 DEF update_client_state, RegistryTypeOK, Node
<1> QED BY <1>2, <1>3

(* When nodes are distinct, an update of the name changes the node of the
   descriptor and no other, and so does an update of the state. *)
LEMMA UpdateNameIs ==
    ASSUME RegistryTypeOK, UniqueFds, NEW f, NEW n \in User, update_client_username(f, n),
           NEW i \in DOMAIN list
    PROVE  node'[list[i]] = IF node[list[i]].fd = f
                            THEN [node[list[i]] EXCEPT !.name = n] ELSE node[list[i]]
<1>1. \A j \in DOMAIN list : list[j] \in Slot
  BY LenProperties, ElementOfSeq DEF RegistryTypeOK
<1>2. CASE WithFd(f) = {}
  BY <1>2 DEF update_client_username, WithFd
<1>3. CASE WithFd(f) # {}
  <2>1. PICK k \in DOMAIN list : node[list[k]].fd = f /\ find_client_by_sockfd(f) = list[k]
    BY <1>3, FindByFdIs
  <2>2. node' = [node EXCEPT ![list[k]].name = n]
    BY <1>3, <2>1 DEF update_client_username
  <2>3. i # k => list[i] # list[k] /\ node[list[i]].fd # f
    BY <2>1 DEF UniqueFds
  <2> QED BY <1>1, <2>1, <2>2, <2>3 DEF RegistryTypeOK
<1> QED BY <1>2, <1>3

LEMMA UpdateStateIs ==
    ASSUME RegistryTypeOK, UniqueFds, NEW f, NEW st, update_client_state(f, st),
           NEW i \in DOMAIN list
    PROVE  node'[list[i]] = IF node[list[i]].fd = f
                            THEN [node[list[i]] EXCEPT !.state = st] ELSE node[list[i]]
<1>1. \A j \in DOMAIN list : list[j] \in Slot
  BY LenProperties, ElementOfSeq DEF RegistryTypeOK
<1>2. CASE WithFd(f) = {}
  BY <1>2 DEF update_client_state, WithFd
<1>3. CASE WithFd(f) # {}
  <2>1. PICK k \in DOMAIN list : node[list[k]].fd = f /\ find_client_by_sockfd(f) = list[k]
    BY <1>3, FindByFdIs
  <2>2. node' = [node EXCEPT ![list[k]].state = st]
    BY <1>3, <2>1 DEF update_client_state
  <2>3. i # k => list[i] # list[k] /\ node[list[i]].fd # f
    BY <2>1 DEF UniqueFds
  <2> QED BY <1>1, <2>1, <2>2, <2>3 DEF RegistryTypeOK
<1> QED BY <1>2, <1>3

-----------------------------------------------------------------------------
(* The links of the list, and what adding and removing a node do to them. *)

(* The links of the list: the i-th node leads to the next one. *)
Links ==
    /\ DOMAIN list = 1..Len(list) /\ Len(list) \in Nat
    /\ \A i \in DOMAIN list : /\ list[i] \in Slot /\ list[i] \in Linked
                              /\ NextOf(list[i]) = Successor(i)
    /\ \A s \in Linked : s \in Slot /\ \E i \in DOMAIN list : list[i] = s
    /\ ListHead = IF Len(list) = 0 THEN Null ELSE list[1]

LEMMA LinkIs == RegistryTypeOK /\ UniqueFds => Links
<1> SUFFICES ASSUME RegistryTypeOK, UniqueFds PROVE Links
  OBVIOUS
<1>1. DOMAIN list = 1..Len(list) /\ Len(list) \in Nat
  BY LenProperties DEF RegistryTypeOK
<1>2. \A i \in DOMAIN list : list[i] \in Slot
  BY <1>1, ElementOfSeq DEF RegistryTypeOK
<1>3. Linked = {list[i] : i \in DOMAIN list}
  BY DEF Linked, ToSet
<1>4. \A i \in DOMAIN list : (CHOOSE j \in DOMAIN list : list[j] = list[i]) = i
  BY DEF UniqueFds
<1>5. ListHead = IF Len(list) = 0 THEN Null ELSE list[1]
  BY <1>1, EmptySeq, HeadTailProperties DEF ListHead, RegistryTypeOK
<1>6. \A i \in DOMAIN list : list[i] \in Linked
  BY <1>3
<1>7. \A i \in DOMAIN list : NextOf(list[i]) = Successor(i)
  BY <1>4, <1>6 DEF NextOf
<1> QED BY <1>1, <1>2, <1>3, <1>5, <1>6, <1>7 DEF Links

LEMMA LinkIsNext == RegistryTypeOK' /\ UniqueFds' => Links'
BY LinkIs, PTL

(* A node that is put in leads to the old head, and no other link changes. *)
LEMMA LinksAfterAdd ==
    ASSUME RegistryTypeOK, UniqueFds, NEW f \in Fd \cup {NoFd}, add_client(f), WithFd(f) = {}
    PROVE  \E s \in Slot \ Linked :
              /\ Linked' = Linked \cup {s} /\ ListHead' = s /\ NextOf(s)' = ListHead
              /\ \A u \in Slot \ {s} : NextOf(u)' = NextOf(u) /\ node'[u] = node[u]
<1>1. PICK s \in Slot \ Linked :
         /\ list' = Cons(s, list)
         /\ node' = [node EXCEPT ![s] =
              [fd |-> f, name |-> NoName, state |-> "connected", next |-> Null]]
  BY DEF add_client
<1>2. RegistryTypeOK' /\ UniqueFds'
  BY AddClientIs
<1>3. /\ Len(list') = Len(list) + 1
      /\ \A j \in 1..(Len(list) + 1) : list'[j] = IF j = 1 THEN s ELSE list[j - 1]
  <2>1. list \in Seq(Slot) /\ s \in Slot
    BY DEF RegistryTypeOK
  <2> DEFINE l == Cons(s, list)
  <2>2. Len(l) = Len(list) + 1 /\ \A j \in 1..(Len(list) + 1) : l[j] = IF j = 1 THEN s ELSE list[j - 1]
    BY <2>1, ConsIs
  <2>3. list' = l
    BY <1>1
  <2> HIDE DEF l
  <2> QED BY <2>2, <2>3
<1>4. DOMAIN list = 1..Len(list) /\ Len(list) \in Nat /\ DOMAIN list' = 1..(Len(list) + 1)
  BY <1>2, <1>3, LinkIsNext DEF Links
<1>5. \A u \in Slot \ {s} : node'[u] = node[u]
  BY <1>1 DEF RegistryTypeOK
<1> HIDE <1>1
<1>6. list'[1] = s /\ 1 \in DOMAIN list'
  BY <1>3, <1>4
<1>7. \A i \in DOMAIN list : i + 1 \in DOMAIN list' /\ list'[i + 1] = list[i]
  BY <1>3, <1>4
<1>8. \A i \in DOMAIN list' : i = 1 \/ (i - 1 \in DOMAIN list /\ list'[i] = list[i - 1])
  BY <1>3, <1>4
<1>9. Linked' = Linked \cup {s}
  <2>1. Linked' \subseteq Linked \cup {s}
    BY <1>6, <1>8 DEF Linked, ToSet
  <2>2. Linked \cup {s} \subseteq Linked'
    BY <1>6, <1>7 DEF Linked, ToSet
  <2> QED BY <2>1, <2>2
<1>10. ListHead' = s
  BY <1>2, <1>3, <1>4, <1>6, LinkIsNext DEF Links
<1>11. NextOf(s)' = ListHead
  <2>1. NextOf(s)' = Successor(1)'
    BY <1>2, <1>6, LinkIsNext DEF Links
  <2>2. Successor(1)' = IF Len(list) = 0 THEN Null ELSE list[1]
    BY <1>3, <1>4 DEF Successor
  <2> QED BY <2>1, <2>2, LinkIs DEF Links
<1>12. \A u \in Slot \ {s} : NextOf(u)' = NextOf(u)
  <2> TAKE u \in Slot \ {s}
  <2>1. CASE u \in Linked
    <3>1. PICK i \in DOMAIN list : list[i] = u
      BY <2>1, LinkIs DEF Links
    <3>2. NextOf(u) = Successor(i)
      BY <3>1, LinkIs DEF Links
    <3>3. NextOf(u)' = Successor(i + 1)'
      <4>1. list'[i + 1] = u /\ i + 1 \in DOMAIN list'
        BY <1>7, <3>1
      <4> QED BY <1>2, <4>1, LinkIsNext DEF Links
    <3>4. Successor(i + 1)' = Successor(i)
      BY <1>3, <1>4 DEF Successor
    <3> QED BY <3>2, <3>3, <3>4
  <2>2. CASE u \notin Linked
    BY <1>5, <1>9, <2>2 DEF NextOf
  <2> QED BY <2>1, <2>2
<1> QED BY <1>5, <1>9, <1>10, <1>11, <1>12

(* The links that led to a node that is taken out lead to its successor; its
   own stays as it was. *)
LEMMA LinksAfterRemove ==
    ASSUME RegistryTypeOK, UniqueFds, NEW f, remove_client(f), WithFd(f) # {},
           NEW x, x = find_client_by_sockfd(f)
    PROVE  /\ x \in Linked /\ Linked' = Linked \ {x}
           /\ ListHead' = IF ListHead = x THEN NextOf(x) ELSE ListHead
           /\ \A u \in Slot :
                /\ node'[u].state = node[u].state
                /\ NextOf(u)' = IF u \in Linked /\ NextOf(u) = x THEN NextOf(x) ELSE NextOf(u)
<1>1. PICK k \in DOMAIN list : k = Min(WithFd(f)) /\ node[list[k]].fd = f /\ x = list[k]
  BY FindByFdIs
<1>2. /\ list' = RemoveAt(list, k)
      /\ node' = [node EXCEPT ![x].fd = NoFd, ![x].next = Successor(k)]
  BY <1>1 DEF remove_client
<1>3. RegistryTypeOK' /\ UniqueFds'
  BY RemoveClientIs
<1>4. DOMAIN list = 1..Len(list) /\ Len(list) \in Nat /\ x \in Slot /\ x \in Linked
      /\ NextOf(x) = Successor(k)
  BY <1>1, LinkIs DEF Links
<1>5. /\ Len(list') = Len(list) - 1
      /\ \A j \in 1..(Len(list) - 1) : list'[j] = IF j < k THEN list[j] ELSE list[j + 1]
  <2>1. list \in Seq(Slot) /\ k \in 1..Len(list)
    BY <1>4 DEF RegistryTypeOK
  <2> DEFINE l == RemoveAt(list, k)
  <2>2. Len(l) = Len(list) - 1 /\ \A j \in 1..(Len(list) - 1) : l[j] = IF j < k THEN list[j] ELSE list[j + 1]
    BY <2>1, RemoveAtIs
  <2>3. list' = l
    BY <1>2
  <2> HIDE DEF l
  <2> QED BY <2>2, <2>3
<1>6. DOMAIN list' = 1..(Len(list) - 1)
  BY <1>3, <1>5, LinkIsNext DEF Links
<1>7. /\ node'[x].next = Successor(k) /\ \A u \in Slot \ {x} : node'[u] = node[u]
      /\ \A u \in Slot : node'[u].state = node[u].state
  BY <1>2, <1>4 DEF RegistryTypeOK, Node
<1> HIDE <1>2
<1>8. \A j \in DOMAIN list : j # k => list[j] # x
  BY <1>1 DEF UniqueFds
<1>9. Linked' = Linked \ {x}
  <2> DEFINE was(i) == IF i < k THEN i ELSE i + 1
             is(j) == IF j < k THEN j ELSE j - 1
  <2>1. \A i \in DOMAIN list' : was(i) \in DOMAIN list /\ was(i) # k /\ list'[i] = list[was(i)]
    BY <1>4, <1>5, <1>6
  <2>2. \A j \in DOMAIN list : j # k => is(j) \in DOMAIN list' /\ list'[is(j)] = list[j]
    BY <1>4, <1>5, <1>6
  <2> HIDE DEF was, is
  <2>3. Linked' \subseteq Linked \ {x}
    BY <1>8, <2>1 DEF Linked, ToSet
  <2>4. Linked \ {x} \subseteq Linked'
    BY <1>1, <2>2 DEF Linked, ToSet
  <2> QED BY <2>3, <2>4
<1>10. \A i \in DOMAIN list : Successor(i) = x <=> i + 1 = k
  <2> TAKE i \in DOMAIN list
  <2>1. CASE i < Len(list)
    BY <1>1, <1>4, <1>8, <2>1 DEF Successor
  <2>2. CASE i = Len(list)
    BY <1>1, <1>4, <2>2, RegistryAssumption DEF Successor
  <2> QED BY <1>4, <2>1, <2>2
<1>11. ListHead' = IF ListHead = x THEN NextOf(x) ELSE ListHead
  <2>1. ListHead = list[1] /\ 1 \in DOMAIN list
    BY <1>1, <1>4, LinkIs DEF Links
  <2>2. ListHead' = IF Len(list') = 0 THEN Null ELSE list'[1]
    BY <1>3, LinkIsNext DEF Links
  <2>3. CASE k = 1
    BY <1>1, <1>4, <1>5, <2>1, <2>2, <2>3 DEF Successor
  <2>4. CASE k # 1
    BY <1>1, <1>4, <1>5, <1>8, <2>1, <2>2, <2>4
  <2> QED BY <2>3, <2>4
<1>12. ASSUME NEW u \in Slot
       PROVE  NextOf(u)' = IF u \in Linked /\ NextOf(u) = x THEN NextOf(x) ELSE NextOf(u)
  <2>1. CASE u = x
    <3>1. NextOf(x) # x
      BY <1>1, <1>4, <1>10
    <3>2. NextOf(x)' = Successor(k)
      BY <1>7, <1>9 DEF NextOf
    <3> QED BY <1>4, <2>1, <3>1, <3>2
  <2>2. CASE u \notin Linked
    BY <1>4, <1>7, <1>9, <2>2 DEF NextOf
  <2>3. CASE u \in Linked /\ u # x
    <3>1. PICK i \in DOMAIN list : list[i] = u /\ i # k
      BY <1>1, <2>3, LinkIs DEF Links
    <3>2. NextOf(u) = Successor(i)
      BY <3>1, LinkIs DEF Links
    <3>3. CASE i < k
      <4>1. list'[i] = u /\ i \in DOMAIN list'
        BY <1>4, <1>5, <1>6, <3>1, <3>3
      <4>2. NextOf(u)' = Successor(i)'
        BY <1>3, <4>1, LinkIsNext DEF Links
      <4>3. Successor(i)' = IF i + 1 = k THEN Successor(k) ELSE Successor(i)
        BY <1>4, <1>5, <1>6, <3>3 DEF Successor
      <4> QED BY <1>4, <1>10, <2>3, <3>1, <3>2, <4>2, <4>3
    <3>4. CASE i > k
      <4>1. list'[i - 1] = u /\ i - 1 \in DOMAIN list'
        BY <1>4, <1>5, <1>6, <3>1, <3>4
      <4>2. NextOf(u)' = Successor(i - 1)'
        BY <1>3, <4>1, LinkIsNext DEF Links
      <4>3. Successor(i - 1)' = Successor(i)
        BY <1>4, <1>5, <1>6, <3>4 DEF Successor
      <4>4. i + 1 # k
        BY <1>4, <3>4
      <4> QED BY <1>10, <3>1, <3>2, <4>2, <4>3, <4>4
    <3> QED BY <1>4, <3>1, <3>3, <3>4
  <2> QED BY <2>1, <2>2, <2>3
<1> QED BY <1>4, <1>7, <1>9, <1>11, <1>12

=============================================================================
