--------------------------- MODULE RequestsProofs ---------------------------
(***************************************************************************)
(* What the files of accounts and messages keep, what answers say of them, *)
(* and what the weather child sends: proved of Requests for any number of  *)
(* workers, jobs, names, crashes and processes, any width of a message and *)
(* any size of a read.                                                     *)
(***************************************************************************)
EXTENDS Requests, TLAPS, SequenceTheorems, FiniteSetTheorems, WellFoundedInduction

LEMMA AppendIs ==
    ASSUME NEW S, NEW s \in Seq(S), NEW x \in S
    PROVE  /\ Append(s, x) \in Seq(S) /\ Len(s) \in Nat /\ Len(Append(s, x)) = Len(s) + 1
           /\ \A i \in 1..Len(s) : Append(s, x)[i] = s[i]
           /\ Append(s, x)[Len(s) + 1] = x
BY AppendProperties, LenProperties

LEMMA TailIs ==
    ASSUME NEW S, NEW s \in Seq(S), s # <<>>
    PROVE  /\ Tail(s) \in Seq(S) /\ Len(s) \in Nat \ {0} /\ Len(Tail(s)) = Len(s) - 1
           /\ DOMAIN Tail(s) = 1..(Len(s) - 1) /\ DOMAIN s = 1..Len(s)
           /\ \A i \in 1..(Len(s) - 1) : Tail(s)[i] = s[i + 1]
<1>1. Len(s) \in Nat \ {0} /\ DOMAIN s = 1..Len(s)
  BY LenProperties, EmptySeq
<1>2. Tail(s) \in Seq(S) /\ Len(Tail(s)) = Len(s) - 1
      /\ \A i \in 1..(Len(s) - 1) : Tail(s)[i] = s[i + 1]
  BY <1>1, HeadTailProperties
<1> QED BY <1>1, <1>2, LenProperties

LEMMA MinIsLeast ==
    ASSUME NEW I \in SUBSET Nat, I # {}
    PROVE  Min(I) \in I /\ \A i \in I : Min(I) <= i
<1> DEFINE T == {0..i : i \in I}
<1>1. \A i \in I : 0..i \in FiniteSubsetsOf(Nat)
  <2> TAKE i \in I
  <2>1. 0 \in Int /\ i \in Int /\ 0..i \in SUBSET Nat
    OBVIOUS
  <2> QED BY <2>1, FS_Interval DEF FiniteSubsetsOf
<1>2. T \subseteq FiniteSubsetsOf(Nat) /\ T # {}
  BY <1>1
<1>3. PICK t \in T : \A u \in T : ~ (<<u, t>> \in StrictSubsetOrdering(Nat))
  BY <1>2, FS_StrictSubsetOrderingWellFounded, WFMin
<1>4. PICK x \in I : t = 0..x
  OBVIOUS
<1>5. ASSUME NEW y \in I, y < x PROVE FALSE
  <2>1. 0..y \subseteq 0..x /\ 0..y # 0..x /\ 0..y \in SUBSET Nat /\ 0..x \in SUBSET Nat
    BY <1>5
  <2>2. <<0..y, 0..x>> \in StrictSubsetOrdering(Nat)
    BY <2>1 DEF StrictSubsetOrdering
  <2> QED BY <1>3, <1>4, <2>2
<1>6. \A y \in I : x <= y
  BY <1>5
<1> QED BY <1>6 DEF Min

LEMMA MinOfTwo ==
    ASSUME NEW a \in Nat, NEW b \in Nat
    PROVE  Min({a, b}) = IF a <= b THEN a ELSE b
<1>1. (IF a <= b THEN a ELSE b) \in {a, b} /\ \A y \in {a, b} : (IF a <= b THEN a ELSE b) <= y
  OBVIOUS
<1>2. \A x \in {a, b} : (\A y \in {a, b} : x <= y) => x = IF a <= b THEN a ELSE b
  OBVIOUS
<1> QED BY <1>1, <1>2 DEF Min

-----------------------------------------------------------------------------
(* The weather child.                                                      *)

LEMMA CallsAre ==
    /\ DOMAIN Calls = 1..4
    /\ Calls[1] = "gethostbyname" /\ Calls[2] = "socket"
    /\ Calls[3] = "connect" /\ Calls[4] = "write" /\ Len(Calls) = 4
    /\ ToSet(Calls) = {"gethostbyname", "socket", "connect", "write"}
<1>1. /\ DOMAIN Calls = 1..4 /\ Len(Calls) = 4
      /\ Calls[1] = "gethostbyname" /\ Calls[2] = "socket"
      /\ Calls[3] = "connect" /\ Calls[4] = "write"
  BY DEF Calls
<1> QED BY <1>1 DEF ToSet

ResponseFits(n) == n \in 0..(ResponseSize - 1)
TextFits(n) == n \in 0..(BUFFER_SIZE - 1)
TextOf(n, d) == n <= MaxHead + MaxDay * d

(* A heading fits; so does another day, when there is room for it, or else the
   ellipsis, as long as a day is missing. *)
LEMMA HeadFits ==
    ASSUME NEW n \in 0..MaxHead, NEW d \in 0..3 PROVE TextFits(n) /\ TextOf(n, d)
BY DEF TextFits, TextOf, MaxHead, MaxDay, BUFFER_SIZE

LEMMA DayFits ==
    ASSUME NEW n, TextFits(n), NEW d \in 0..2, TextOf(n, d), NEW k \in 0..MaxDay
    PROVE  /\ n + k < BUFFER_SIZE - 1 => TextFits(n + k) /\ TextOf(n + k, d + 1)
           /\ ~ (n + k < BUFFER_SIZE - 1) => TextFits(n + Ellipsis)
<1>1. n \in Int /\ n >= 0 /\ n <= 162 + 349 * d /\ k \in Int /\ k >= 0 /\ k <= 349
  BY DEF TextFits, TextOf, MaxHead, MaxDay, BUFFER_SIZE
<1>2. TextOf(n + k, d + 1)
  BY <1>1 DEF TextOf, MaxHead, MaxDay
<1>3. n + k < BUFFER_SIZE - 1 => TextFits(n + k)
  BY <1>1 DEF TextFits, BUFFER_SIZE
<1>4. TextFits(n + Ellipsis)
  <2>1. d = 0 \/ d = 1 \/ d = 2
    OBVIOUS
  <2>2. n <= 860
    BY <1>1, <2>1
  <2> QED BY <1>1, <2>2 DEF TextFits, BUFFER_SIZE, Ellipsis
<1> QED BY <1>2, <1>3, <1>4

(* What is true of one child.  The text grows by at most MaxDay bytes a day,
   so that it leaves room for the ellipsis as long as a day is missing. *)
ChildOk(c) ==
    /\ stage[c] \in Stage
    /\ ResponseFits(total_read[c]) /\ TextFits(length[c])
    /\ day[c] \in 0..MaxDays /\ days[c] \in 0..MaxDays
    /\ stage[c] = "days" => TextOf(length[c], day[c])
    /\ said[c] \in Seq({"error", "weather"})
    /\ Len(said[c]) = (IF stage[c] = "exit" THEN 1 ELSE 0)

Tables ==
    /\ stage = [c \in Child |-> stage[c]] /\ total_read = [c \in Child |-> total_read[c]]
    /\ length = [c \in Child |-> length[c]] /\ day = [c \in Child |-> day[c]]
    /\ days = [c \in Child |-> days[c]] /\ said = [c \in Child |-> said[c]]

WeatherInv == Tables /\ \A c \in Child : ChildOk(c)

SameChild(c) ==
    /\ stage'[c] = stage[c] /\ total_read'[c] = total_read[c] /\ length'[c] = length[c]
    /\ day'[c] = day[c] /\ days'[c] = days[c] /\ said'[c] = said[c]

(* A step of one child leaves the others alone. *)
LEMMA WeatherFrame ==
    ASSUME WeatherInv, NEW c \in Child, Start(c) \/ ChildStep(c)
    PROVE  Tables' /\ \A d \in Child : d # c => SameChild(d)
<1>0. Tables
  BY DEF WeatherInv
<1>1. \/ UNCHANGED stage
      \/ \E x : stage' = [stage EXCEPT ![c] = x]
  BY DEF Start, ChildStep, Call, Read, Parse, AddDay, NoMoreDays, SendError, SendWeather, Passes
<1>2. \/ UNCHANGED total_read
      \/ \E x : total_read' = [total_read EXCEPT ![c] = x]
  BY DEF Start, ChildStep, Call, Read, Parse, AddDay, NoMoreDays, SendError, SendWeather
<1>3. \/ UNCHANGED length
      \/ \E x : length' = [length EXCEPT ![c] = x]
  BY DEF Start, ChildStep, Call, Read, Parse, AddDay, NoMoreDays, SendError, SendWeather
<1>4. \/ UNCHANGED day
      \/ \E x : day' = [day EXCEPT ![c] = x]
  BY DEF Start, ChildStep, Call, Read, Parse, AddDay, NoMoreDays, SendError, SendWeather
<1>5. \/ UNCHANGED days
      \/ \E x : days' = [days EXCEPT ![c] = x]
  BY DEF Start, ChildStep, Call, Read, Parse, AddDay, NoMoreDays, SendError, SendWeather
<1>6. \/ UNCHANGED said
      \/ \E x : said' = [said EXCEPT ![c] = x]
  BY DEF Start, ChildStep, Call, Read, Parse, AddDay, NoMoreDays, SendError, SendWeather, Says
<1>7. /\ stage' = [d \in Child |-> stage'[d]] /\ \A d \in Child : d # c => stage'[d] = stage[d]
  BY <1>0, <1>1 DEF Tables
<1>8. /\ total_read' = [d \in Child |-> total_read'[d]]
      /\ \A d \in Child : d # c => total_read'[d] = total_read[d]
  BY <1>0, <1>2 DEF Tables
<1>9. /\ length' = [d \in Child |-> length'[d]] /\ \A d \in Child : d # c => length'[d] = length[d]
  BY <1>0, <1>3 DEF Tables
<1>10. /\ day' = [d \in Child |-> day'[d]] /\ \A d \in Child : d # c => day'[d] = day[d]
  BY <1>0, <1>4 DEF Tables
<1>11. /\ days' = [d \in Child |-> days'[d]] /\ \A d \in Child : d # c => days'[d] = days[d]
  BY <1>0, <1>5 DEF Tables
<1>12. /\ said' = [d \in Child |-> said'[d]] /\ \A d \in Child : d # c => said'[d] = said[d]
  BY <1>0, <1>6 DEF Tables
<1> QED BY <1>7, <1>8, <1>9, <1>10, <1>11, <1>12 DEF Tables, SameChild

LEMMA ChildStaysOk ==
    ASSUME WeatherInv, NEW c \in Child, Start(c) \/ ChildStep(c) PROVE ChildOk(c)'
<1>0. ChildOk(c) /\ Tables
  BY DEF WeatherInv
<1>a. MaxDays \in 0..3 /\ HeadLength \subseteq 0..MaxHead /\ DayLength \subseteq 0..MaxDay
      /\ ChunkLength \subseteq Nat \ {0}
  BY WeatherAssumption
<1>b. Stage = {"gethostbyname", "socket", "connect", "write", "none", "read", "parse", "days",
               "send", "error", "exit"}
  BY CallsAre DEF Stage
<1>c. \A x : Passes(c, x) => stage'[c] = x
  BY <1>0 DEF Passes, Tables
<1>2. CASE Start(c) \/ Call(c)
  <2>1. UNCHANGED <<total_read, length, day, days, said>> /\ stage[c] # "exit"
    BY <1>2, CallsAre DEF Start, Call, Stands
  <2>2. stage'[c] \in {"gethostbyname", "socket", "connect", "write", "read", "error"}
    BY <1>2, <1>c, CallsAre DEF Start, Call, Stands
  <2> QED BY <1>0, <1>b, <2>1, <2>2 DEF ChildOk
<1>3. CASE Read(c)
  <2>1. UNCHANGED <<length, day, days, said>> /\ stage[c] = "read"
    BY <1>3 DEF Read, Stands
  <2>2. stage'[c] \in {"read", "parse", "error"}
    BY <1>3, <1>c DEF Read
  <2>3. ResponseFits(total_read'[c])
    <3>1. CASE UNCHANGED total_read
      BY <1>0, <3>1 DEF ChildOk
    <3>2. CASE \E n \in ChunkLength : total_read' = [total_read EXCEPT ![c] = Min({@ + n, ResponseSize - 1})]
      <4>1. PICK n \in ChunkLength : total_read' = [total_read EXCEPT ![c] = Min({total_read[c] + n, ResponseSize - 1})]
        BY <3>2
      <4>2. total_read[c] + n \in Nat /\ ResponseSize - 1 \in Nat
        <5>1. total_read[c] \in Nat
          BY <1>0 DEF ChildOk, ResponseFits
        <5>2. n \in Nat /\ 8191 \in Nat /\ ResponseSize - 1 = 8191
          BY <1>a DEF ResponseSize
        <5> QED BY <5>1, <5>2
      <4> DEFINE a == total_read[c] + n  b == ResponseSize - 1
      <4>3. ResponseFits(Min({a, b}))
        <5>1. a \in Nat /\ b \in Nat
          BY <4>2
        <5> HIDE DEF a, b
        <5>2. Min({a, b}) \in 0..b
          BY <5>1, MinOfTwo
        <5> QED BY <5>2 DEF ResponseFits, b
      <4>4. total_read'[c] = Min({a, b})
        BY <1>0, <4>1 DEF Tables
      <4> QED BY <4>3, <4>4
    <3> QED BY <1>3, <3>1, <3>2 DEF Read
  <2> QED BY <1>0, <1>b, <2>1, <2>2, <2>3 DEF ChildOk
<1>4. CASE Parse(c)
  <2>1. UNCHANGED <<total_read, day, said>> /\ stage[c] = "parse" /\ stage'[c] \in {"days", "error"}
    BY <1>4, <1>c DEF Parse, Stands
  <2>2. CASE UNCHANGED <<length, days>> /\ stage'[c] = "error"
    BY <1>0, <1>b, <2>1, <2>2 DEF ChildOk
  <2>3. CASE /\ \E n \in HeadLength : length' = [length EXCEPT ![c] = n]
             /\ \E n \in 0..MaxDays : days' = [days EXCEPT ![c] = n]
    <3>1. length'[c] \in 0..MaxHead /\ days'[c] \in 0..MaxDays
      BY <1>0, <1>a, <2>3 DEF Tables
    <3>2. day[c] \in 0..3
      BY <1>0, <1>a DEF ChildOk
    <3>3. TextFits(length'[c]) /\ TextOf(length'[c], day[c])
      BY <3>1, <3>2, HeadFits
    <3> QED BY <1>0, <1>b, <2>1, <3>1, <3>3 DEF ChildOk
  <2> QED BY <1>4, <1>c, <2>2, <2>3 DEF Parse
<1>5. CASE AddDay(c)
  <2>1. UNCHANGED <<total_read, days, said>> /\ stage[c] = "days" /\ day[c] < days[c]
    BY <1>5 DEF AddDay, Stands
  <2>2. /\ day[c] \in 0..2 /\ day[c] + 1 \in 0..MaxDays /\ stage[c] \in Stage
        /\ TextFits(length[c]) /\ TextOf(length[c], day[c])
    BY <1>0, <1>a, <2>1 DEF ChildOk
  <2>3. PICK n \in DayLength :
           IF length[c] + n < BUFFER_SIZE - 1
           THEN /\ length' = [length EXCEPT ![c] = @ + n]
                /\ day' = [day EXCEPT ![c] = @ + 1]
                /\ UNCHANGED stage
           ELSE /\ length' = [length EXCEPT ![c] = @ + Ellipsis]
                /\ Passes(c, "send")
                /\ UNCHANGED day
    BY <1>5 DEF AddDay
  <2>4. n \in 0..MaxDay
    BY <1>a
  <2> DEFINE room == length[c] + n < BUFFER_SIZE - 1
             more == length[c] + n  dots == length[c] + Ellipsis  next == day[c] + 1
  <2>5. /\ room => TextFits(more) /\ TextOf(more, next)
        /\ ~room => TextFits(dots)
    BY <2>2, <2>4, DayFits
  <2>6. /\ room => length'[c] = more /\ day'[c] = next /\ stage'[c] = stage[c]
        /\ ~room => length'[c] = dots /\ day'[c] = day[c] /\ stage'[c] = "send"
    BY <1>0, <1>c, <2>3 DEF Tables
  <2>7. next \in 0..MaxDays
    BY <2>2
  <2> HIDE DEF room, more, dots, next
  <2>8. CASE room
    BY <1>0, <2>1, <2>5, <2>6, <2>7, <2>8 DEF ChildOk
  <2>9. CASE ~room
    BY <1>0, <1>b, <2>1, <2>5, <2>6, <2>9 DEF ChildOk
  <2> QED BY <2>8, <2>9
<1>6. CASE NoMoreDays(c)
  <2>1. UNCHANGED <<total_read, length, day, days, said>> /\ stage[c] = "days" /\ stage'[c] = "send"
    BY <1>6, <1>c DEF NoMoreDays, Stands
  <2> QED BY <1>0, <1>b, <2>1 DEF ChildOk
<1>7. CASE SendError(c) \/ SendWeather(c)
  <2>1. UNCHANGED <<total_read, length, day, days>> /\ stage'[c] = "exit" /\ stage[c] # "exit"
    BY <1>7, <1>c DEF SendError, SendWeather, Stands
  <2>2. PICK m \in {"error", "weather"} : said' = [said EXCEPT ![c] = Append(@, m)]
    BY <1>7 DEF SendError, SendWeather, Says
  <2>3. Append(said[c], m) \in Seq({"error", "weather"}) /\ Len(Append(said[c], m)) = 1
    <3>1. said[c] \in Seq({"error", "weather"}) /\ Len(said[c]) = 0
      BY <1>0, <2>1 DEF ChildOk
    <3> QED BY <3>1, AppendIs
  <2>4. said'[c] = Append(said[c], m)
    BY <1>0, <2>2 DEF Tables
  <2> QED BY <1>0, <1>b, <2>1, <2>3, <2>4 DEF ChildOk
<1> QED BY <1>2, <1>3, <1>4, <1>5, <1>6, <1>7 DEF ChildStep

LEMMA WeatherStep ==
    ASSUME WeatherInv, NEW c \in Child, Start(c) \/ ChildStep(c) PROVE WeatherInv'
BY WeatherFrame, ChildStaysOk DEF WeatherInv, ChildOk, SameChild

LEMMA WeatherInvImplies == WeatherInv => WeatherTypeOK /\ BuffersHold /\ OneAnswer
<1> SUFFICES ASSUME WeatherInv PROVE WeatherTypeOK /\ BuffersHold /\ OneAnswer
  OBVIOUS
<1>1. \A n : ResponseFits(n) => n \in Nat /\ n < ResponseSize
  BY DEF ResponseFits, ResponseSize
<1>2. \A n : TextFits(n) => n \in Nat /\ n < BUFFER_SIZE
  BY DEF TextFits, BUFFER_SIZE
<1>3. BuffersHold
  BY <1>1, <1>2 DEF WeatherInv, ChildOk, BuffersHold
<1>4. WeatherTypeOK
  BY <1>1, <1>2 DEF WeatherInv, Tables, ChildOk, WeatherTypeOK
<1>5. OneAnswer
  BY DEF WeatherInv, ChildOk, OneAnswer, Stands
<1> QED BY <1>3, <1>4, <1>5

LEMMA WeatherStart == WeatherInit => WeatherInv
<1> SUFFICES ASSUME WeatherInit PROVE WeatherInv
  OBVIOUS
<1>1. Tables
  BY DEF WeatherInit, Tables
<1>2. "none" \in Stage /\ "none" # "exit" /\ MaxDays \in Nat
  BY WeatherAssumption DEF Stage
<1>3. ResponseFits(0) /\ TextFits(0)
  BY DEF ResponseFits, TextFits, ResponseSize, BUFFER_SIZE
<1> QED BY <1>1, <1>2, <1>3 DEF WeatherInit, WeatherInv, ChildOk

-----------------------------------------------------------------------------
(* The workers and the files: types, and which step is whose job's.        *)

StepsOf(op) ==
    CASE op = "register" -> {"check", "append", "reply"}
      [] op = "login" -> {"login", "reply"}
      [] op = "private" -> {"file", "fileOwn", "deliver"}
      [] op = "group" -> {"file", "deliver"}
      [] op = "history" -> {"history", "reply"}
      [] op = "weather" -> {"fork", "deliver"}

WorkerOk(w) ==
    /\ todo[w] \in Seq(Job) /\ pc[w] \in Label /\ ok[w] \in BOOLEAN
    /\ off[w] \in Nat /\ index[w] \in Nat /\ index[w] < Width /\ size[w] \in Nat
    /\ at[w] \in Seq(Nat) /\ shown[w] \in Seq(Cell)
    /\ pc[w] # "idle" => todo[w] # <<>> /\ pc[w] \in StepsOf(job(w).op)
    /\ pc[w] = "idle" => off[w] = 0 /\ at[w] = <<>> /\ shown[w] = <<>>
    /\ \A i \in DOMAIN todo[w] : todo[w][i].op # "history" => todo[w][i].name \in Name

JobTables ==
    /\ todo = [w \in Worker |-> todo[w]] /\ pc = [w \in Worker |-> pc[w]]
    /\ off = [w \in Worker |-> off[w]] /\ index = [w \in Worker |-> index[w]]
    /\ ok = [w \in Worker |-> ok[w]] /\ size = [w \in Worker |-> size[w]]
    /\ at = [w \in Worker |-> at[w]] /\ shown = [w \in Worker |-> shown[w]]

FilesOk ==
    /\ users \in Seq(Name \cup Password \cup {Colon, Eol})
    /\ box \in [Box -> Seq(Cell)]

StoreInv ==
    /\ JobTables /\ FilesOk /\ \A w \in Worker : WorkerOk(w)
    /\ failed \in SUBSET Id /\ crashes \in 0..MaxCrashes

SameJob(w) ==
    /\ todo'[w] = todo[w] /\ pc'[w] = pc[w] /\ off'[w] = off[w] /\ index'[w] = index[w]
    /\ ok'[w] = ok[w] /\ size'[w] = size[w] /\ at'[w] = at[w] /\ shown'[w] = shown[w]

(* A step of the job that w has in hand, but for its end. *)
JobStep(w) ==
    \/ Begin(w) \/ Check(w) \/ AppendAccount(w) \/ Login(w) \/ StoreChar(w) \/ StoreFails(w)
    \/ SendPiece(w) \/ SendEnd(w) \/ Fork(w)

LEMMA StoreStart == StoreInit => StoreInv
<1> SUFFICES ASSUME StoreInit PROVE StoreInv
  OBVIOUS
<1>1. JobTables
  <2>1. PICK t \in Scripts : todo = t
    BY DEF StoreInit
  <2>2. todo \in [Worker -> Seq(Job)]
    BY <2>1, FileStoreAssumption
  <2> QED BY <2>2 DEF StoreInit, JobTables
<1>2. FilesOk
  <2>1. \A S : <<>> \in Seq(S)
    OBVIOUS
  <2> QED BY <2>1 DEF StoreInit, FilesOk
<1>3. ASSUME NEW w \in Worker PROVE WorkerOk(w)
  <2>1. todo \in Scripts
    BY DEF StoreInit
  <2>2. /\ todo[w] \in Seq(Job)
        /\ \A i \in DOMAIN todo[w] : todo[w][i].op # "history" => todo[w][i].name \in Name
    BY <2>1, FileStoreAssumption
  <2>3. \A S : <<>> \in Seq(S)
    OBVIOUS
  <2>4. "idle" \in Label /\ 0 \in Nat /\ 0 < Width
    BY FileStoreAssumption DEF Label
  <2> QED BY <2>2, <2>3, <2>4 DEF StoreInit, WorkerOk
<1>4. failed \in SUBSET Id /\ crashes \in 0..MaxCrashes
  BY FileStoreAssumption DEF StoreInit
<1> QED BY <1>1, <1>2, <1>3, <1>4 DEF StoreInv

(* A step of one worker leaves the jobs of the others alone. *)
LEMMA JobFrame ==
    ASSUME StoreInv, NEW w \in Worker, JobStep(w)
    PROVE  JobTables' /\ todo' = todo /\ \A v \in Worker : v # w => SameJob(v)
<1>0. JobTables
  BY DEF StoreInv
<1> USE DEF Goto, Replies
<1>1. todo' = todo
  BY DEF JobStep, Begin, Check, AppendAccount, Login, StoreChar, StoreFails, SendPiece, SendEnd, Fork, jobVars
<1>2. UNCHANGED pc \/ \E x : pc' = [pc EXCEPT ![w] = x]
  BY DEF JobStep, Begin, Check, AppendAccount, Login, StoreChar, StoreFails, SendPiece, SendEnd, Fork
<1>3. UNCHANGED off \/ \E x : off' = [off EXCEPT ![w] = x]
  BY DEF JobStep, Begin, Check, AppendAccount, Login, StoreChar, StoreFails, SendPiece, SendEnd, Fork, jobVars
<1>4. UNCHANGED index \/ \E x : index' = [index EXCEPT ![w] = x]
  BY DEF JobStep, Begin, Check, AppendAccount, Login, StoreChar, StoreFails, SendPiece, SendEnd, Fork, jobVars
<1>5. UNCHANGED ok \/ \E x : ok' = [ok EXCEPT ![w] = x]
  BY DEF JobStep, Begin, Check, AppendAccount, Login, StoreChar, StoreFails, SendPiece, SendEnd, Fork, jobVars
<1>6. UNCHANGED size \/ \E x : size' = [size EXCEPT ![w] = x]
  BY DEF JobStep, Begin, Check, AppendAccount, Login, StoreChar, StoreFails, SendPiece, SendEnd, Fork, jobVars
<1>7. UNCHANGED at \/ \E x : at' = [at EXCEPT ![w] = x]
  BY DEF JobStep, Begin, Check, AppendAccount, Login, StoreChar, StoreFails, SendPiece, SendEnd, Fork, jobVars
<1>8. UNCHANGED shown \/ \E x : shown' = [shown EXCEPT ![w] = x]
  BY DEF JobStep, Begin, Check, AppendAccount, Login, StoreChar, StoreFails, SendPiece, SendEnd, Fork, jobVars
<1>9. /\ pc' = [v \in Worker |-> pc'[v]] /\ \A v \in Worker : v # w => pc'[v] = pc[v]
  BY <1>0, <1>2 DEF JobTables
<1>10. /\ off' = [v \in Worker |-> off'[v]] /\ \A v \in Worker : v # w => off'[v] = off[v]
  BY <1>0, <1>3 DEF JobTables
<1>11. /\ index' = [v \in Worker |-> index'[v]] /\ \A v \in Worker : v # w => index'[v] = index[v]
  BY <1>0, <1>4 DEF JobTables
<1>12. /\ ok' = [v \in Worker |-> ok'[v]] /\ \A v \in Worker : v # w => ok'[v] = ok[v]
  BY <1>0, <1>5 DEF JobTables
<1>13. /\ size' = [v \in Worker |-> size'[v]] /\ \A v \in Worker : v # w => size'[v] = size[v]
  BY <1>0, <1>6 DEF JobTables
<1>14. /\ at' = [v \in Worker |-> at'[v]] /\ \A v \in Worker : v # w => at'[v] = at[v]
  BY <1>0, <1>7 DEF JobTables
<1>15. /\ shown' = [v \in Worker |-> shown'[v]] /\ \A v \in Worker : v # w => shown'[v] = shown[v]
  BY <1>0, <1>8 DEF JobTables
<1> QED BY <1>0, <1>1, <1>9, <1>10, <1>11, <1>12, <1>13, <1>14, <1>15 DEF JobTables, SameJob

(* The workers whose jobs are dropped are idle again, and the others go on. *)
LEMMA DropsIs ==
    ASSUME StoreInv, NEW W \in SUBSET Worker, Drops(W)
    PROVE  /\ JobTables'
           /\ \A v \in Worker \ W : SameJob(v)
           /\ \A v \in W : pc'[v] = "idle" /\ WorkerOk(v)'
<1>1. JobTables'
  BY DEF Drops, JobTables
<1>2. \A v \in Worker \ W : SameJob(v)
  BY DEF Drops, SameJob
<1>3. ASSUME NEW v \in W PROVE pc'[v] = "idle" /\ WorkerOk(v)'
  <2>0. WorkerOk(v) /\ v \in Worker
    BY DEF StoreInv
  <2>1. /\ off'[v] = 0 /\ index'[v] = 0 /\ ok'[v] = FALSE /\ size'[v] = 0 /\ at'[v] = <<>>
        /\ shown'[v] = <<>> /\ pc'[v] = "idle"
        /\ todo'[v] = IF pc[v] # "idle" THEN Tail(todo[v]) ELSE todo[v]
    BY DEF Drops
  <2>2. /\ todo'[v] \in Seq(Job)
        /\ \A i \in DOMAIN todo'[v] : todo'[v][i].op # "history" => todo'[v][i].name \in Name
    <3>1. CASE pc[v] = "idle"
      BY <2>0, <2>1, <3>1 DEF WorkerOk
    <3>2. CASE pc[v] # "idle"
      <4>1. todo[v] \in Seq(Job) /\ todo[v] # <<>>
            /\ \A i \in DOMAIN todo[v] : todo[v][i].op # "history" => todo[v][i].name \in Name
        BY <2>0, <3>2 DEF WorkerOk
      <4> DEFINE l == Tail(todo[v])
      <4>2. /\ l \in Seq(Job) /\ DOMAIN l = 1..(Len(todo[v]) - 1)
            /\ DOMAIN todo[v] = 1..Len(todo[v]) /\ Len(todo[v]) \in Nat \ {0}
            /\ \A i \in 1..(Len(todo[v]) - 1) : l[i] = todo[v][i + 1]
        BY <4>1, TailIs
      <4>3. todo'[v] = l
        BY <2>1, <3>2
      <4> HIDE DEF l
      <4>4. \A i \in DOMAIN l : i + 1 \in DOMAIN todo[v] /\ l[i] = todo[v][i + 1]
        BY <4>2
      <4> QED BY <4>1, <4>2, <4>3, <4>4
    <3> QED BY <3>1, <3>2
  <2>3. \A S : <<>> \in Seq(S)
    OBVIOUS
  <2>4. "idle" \in Label /\ 0 \in Nat /\ 0 < Width
    BY FileStoreAssumption DEF Label
  <2> QED BY <2>1, <2>2, <2>3, <2>4 DEF WorkerOk
<1> QED BY <1>1, <1>2, <1>3

-----------------------------------------------------------------------------
(* A step of a job: what it reads, and that the files only grow.           *)

Grows(s, t) == Len(s) <= Len(t) /\ \A i \in 1..Len(s) : t[i] = s[i]

LEMMA CutIs ==
    ASSUME NEW S, NEW f \in Seq(S), NEW o \in Nat, NEW p \in Nat \ {0}, NEW c,
           c = SubSeq(f, o + 1, Min({o + p, Len(f)}))
    PROVE  /\ c \in Seq(S) /\ Len(c) \in Nat /\ DOMAIN c = 1..Len(c) /\ Len(c) <= p
           /\ \A i \in 1..Len(c) : o + i \in 1..Len(f) /\ c[i] = f[o + i]
           /\ (c = <<>>) <=> (Len(f) <= o)
           /\ o <= Len(f) => o + Len(c) <= Len(f)
           /\ Len(c) = p \/ Len(f) <= o + Len(c)
<1>1. Len(f) \in Nat /\ \A i \in 1..Len(f) : f[i] \in S
  BY LenProperties, ElementOfSeq
<1> DEFINE m == o + 1  n == IF o + p <= Len(f) THEN o + p ELSE Len(f)
<1>2. c = SubSeq(f, m, n)
  <2> DEFINE a == o + p  b == Len(f)
  <2>1. a \in Nat /\ b \in Nat
    BY <1>1
  <2> HIDE DEF a, b
  <2>2. Min({a, b}) = IF a <= b THEN a ELSE b
    BY <2>1, MinOfTwo
  <2> QED BY <2>2 DEF a, b
<1>3. m \in Int /\ n \in Int /\ m >= 1 /\ n <= Len(f) /\ n <= o + p /\ (n = o + p \/ n = Len(f))
      /\ m = o + 1
  BY <1>1
<1> HIDE DEF m, n
<1>4. \A i \in m..n : f[i] \in S
  BY <1>1, <1>3
<1>5. /\ c \in Seq(S) /\ Len(c) = IF m <= n THEN n - m + 1 ELSE 0
      /\ \A i \in 1..(n - m + 1) : c[i] = f[m + i - 1]
  <2>1. /\ SubSeq(f, m, n) \in Seq(S) /\ Len(SubSeq(f, m, n)) = IF m <= n THEN n - m + 1 ELSE 0
        /\ \A i \in 1..(n - m + 1) : SubSeq(f, m, n)[i] = f[m + i - 1]
    BY <1>3, <1>4, SubSeqProperties
  <2> QED BY <1>2, <2>1
<1>6. Len(c) \in Nat /\ DOMAIN c = 1..Len(c) /\ (c = <<>> <=> Len(c) = 0)
  BY <1>5, LenProperties, EmptySeq
<1>7. ASSUME NEW i \in 1..Len(c) PROVE o + i \in 1..Len(f) /\ c[i] = f[o + i]
  <2>1. m <= n /\ i \in 1..(n - m + 1) /\ m + i - 1 = o + i
    BY <1>3, <1>5, <1>6
  <2> QED BY <2>1, <1>1, <1>3, <1>5
<1>8. Len(c) <= p /\ (Len(c) = 0 <=> Len(f) <= o)
      /\ (o <= Len(f) => o + Len(c) <= Len(f)) /\ (Len(c) = p \/ Len(f) <= o + Len(c))
  <2> DEFINE k == Len(c)  l == Len(f)
  <2>1. k = (IF m <= n THEN n - m + 1 ELSE 0) /\ l \in Nat
    BY <1>1, <1>5
  <2> HIDE DEF k, l
  <2>2. n = IF o + p <= l THEN o + p ELSE l
    BY DEF n, l
  <2>3. k <= p /\ (k = 0 <=> l <= o) /\ (o <= l => o + k <= l) /\ (k = p \/ l <= o + k)
    BY <1>3, <2>1, <2>2
  <2> QED BY <2>3 DEF k, l
<1> QED BY <1>5, <1>6, <1>7, <1>8

LEMMA ReadIs ==
    ASSUME NEW S, NEW f \in Seq(S), NEW w, off[w] \in Nat, NEW c, c = ReadBy(w, f)
    PROVE  /\ c \in Seq(S) /\ Len(c) \in Nat /\ DOMAIN c = 1..Len(c) /\ Len(c) <= Piece
           /\ \A i \in 1..Len(c) : off[w] + i \in 1..Len(f) /\ c[i] = f[off[w] + i]
           /\ (c = <<>>) <=> (Len(f) <= off[w])
           /\ off[w] <= Len(f) => off[w] + Len(c) <= Len(f)
           /\ Len(c) = Piece \/ Len(f) <= off[w] + Len(c)
<1>1. Piece \in Nat \ {0}
  BY FileStoreAssumption
<1>2. c = SubSeq(f, off[w] + 1, Min({off[w] + Piece, Len(f)}))
  BY DEF ReadBy
<1> DEFINE o == off[w]
<1>3. o \in Nat /\ c = SubSeq(f, o + 1, Min({o + Piece, Len(f)}))
  BY <1>2
<1> HIDE DEF o
<1>4. /\ c \in Seq(S) /\ Len(c) \in Nat /\ DOMAIN c = 1..Len(c) /\ Len(c) <= Piece
      /\ \A i \in 1..Len(c) : o + i \in 1..Len(f) /\ c[i] = f[o + i]
      /\ (c = <<>>) <=> (Len(f) <= o)
      /\ o <= Len(f) => o + Len(c) <= Len(f)
      /\ Len(c) = Piece \/ Len(f) <= o + Len(c)
  BY <1>1, <1>3, CutIs
<1> QED BY <1>4 DEF o

(* What is sent of a piece: its beginning. *)
LEMMA FittingIs ==
    ASSUME NEW S, NEW c \in Seq(S), NEW g, g = Fitting(c)
    PROVE  /\ g \in Seq(S) /\ DOMAIN g = 1..Len(g) /\ Len(g) \in Nat
           /\ Len(g) = IF Len(c) <= Piece - Prefix THEN Len(c) ELSE Piece - Prefix
           /\ \A i \in 1..Len(g) : i \in 1..Len(c) /\ g[i] = c[i]
<1>1. Piece - Prefix \in Nat \ {0} /\ Len(c) \in Nat
  BY FileStoreAssumption, LenProperties
<1> DEFINE n == IF Len(c) <= Piece - Prefix THEN Len(c) ELSE Piece - Prefix
<1>2. g = SubSeq(c, 1, n)
  BY <1>1, MinOfTwo DEF Fitting
<1>3. n \in Nat /\ n <= Len(c)
  BY <1>1
<1>4. \A i \in 1..n : c[i] \in S
  BY <1>3, ElementOfSeq
<1> HIDE DEF n
<1>5. /\ g \in Seq(S) /\ Len(g) = IF 1 <= n THEN n - 1 + 1 ELSE 0
      /\ \A i \in 1..(n - 1 + 1) : g[i] = c[1 + i - 1]
  BY <1>2, <1>3, <1>4, SubSeqProperties
<1>6. Len(g) = n /\ DOMAIN g = 1..Len(g)
  BY <1>3, <1>5, LenProperties
<1>7. ASSUME NEW i \in 1..n PROVE g[i] = c[i]
  BY <1>3, <1>5, <1>7
<1> QED BY <1>1, <1>3, <1>5, <1>6, <1>7 DEF n

LEMMA LineEndIs ==
    ASSUME FilesOk, NEW w, off[w] \in Nat PROVE LineEnd(w) \in Nat
<1>1. Len(users) \in Nat
  BY LenProperties DEF FilesOk
<1> DEFINE E == {i \in off[w] + 1 .. Len(users) : users[i] = Eol} \cup {Len(users) + 1}
<1>2. E \in SUBSET Nat /\ E # {}
  BY <1>1
<1> HIDE DEF E
<1>3. Min(E) \in Nat
  BY <1>2, MinIsLeast
<1> QED BY <1>3 DEF LineEnd, E

LEMMA GrowsSame == ASSUME NEW S, NEW s \in Seq(S) PROVE Grows(s, s)
BY LenProperties DEF Grows

LEMMA GrowsAppend ==
    ASSUME NEW S, NEW s \in Seq(S), NEW x \in S PROVE Grows(s, Append(s, x))
BY AppendIs DEF Grows

LEMMA GrowsLine ==
    ASSUME NEW S, NEW s \in Seq(S), NEW a \in S, NEW b \in S, NEW c \in S, NEW d \in S
    PROVE  /\ s \o <<a, b, c, d>> \in Seq(S) /\ Grows(s, s \o <<a, b, c, d>>)
           /\ Len(s \o <<a, b, c, d>>) = Len(s) + 4
           /\ (s \o <<a, b, c, d>>)[Len(s) + 1] = a /\ (s \o <<a, b, c, d>>)[Len(s) + 2] = b
           /\ (s \o <<a, b, c, d>>)[Len(s) + 3] = c /\ (s \o <<a, b, c, d>>)[Len(s) + 4] = d
<1> DEFINE l == <<a, b, c, d>>
<1>1. l \in Seq(S) /\ Len(l) = 4 /\ l[1] = a /\ l[2] = b /\ l[3] = c /\ l[4] = d
  OBVIOUS
<1> HIDE DEF l
<1>2. Len(s) \in Nat
  BY LenProperties
<1>3. /\ s \o l \in Seq(S) /\ Len(s \o l) = Len(s) + 4
      /\ \A i \in 1 .. Len(s) + 4 : (s \o l)[i] = IF i <= Len(s) THEN s[i] ELSE l[i - Len(s)]
  <2>1. /\ s \o l \in Seq(S) /\ Len(s \o l) = Len(s) + Len(l)
        /\ \A i \in 1 .. Len(s) + Len(l) :
             (s \o l)[i] = IF i <= Len(s) THEN s[i] ELSE l[i - Len(s)]
    BY <1>1, ConcatProperties
  <2> QED BY <1>1, <2>1
<1> DEFINE t == s \o l
<1> HIDE DEF t
<1>4. /\ t \in Seq(S) /\ Len(t) = Len(s) + 4
      /\ \A i \in 1 .. Len(s) + 4 : t[i] = IF i <= Len(s) THEN s[i] ELSE l[i - Len(s)]
  BY <1>3 DEF t
<1>5. Grows(s, t)
  BY <1>2, <1>4 DEF Grows
<1>6. t[Len(s) + 1] = a /\ t[Len(s) + 2] = b /\ t[Len(s) + 3] = c /\ t[Len(s) + 4] = d
  <2> DEFINE n == Len(s)
  <2> HIDE DEF n
  <2>1. n \in Nat /\ \A i \in 1..(n + 4) : t[i] = IF i <= n THEN s[i] ELSE l[i - n]
    BY <1>2, <1>4 DEF n
  <2>2. /\ n + 1 \in 1..(n + 4) /\ ~(n + 1 <= n) /\ n + 1 - n = 1
        /\ n + 2 \in 1..(n + 4) /\ ~(n + 2 <= n) /\ n + 2 - n = 2
        /\ n + 3 \in 1..(n + 4) /\ ~(n + 3 <= n) /\ n + 3 - n = 3
        /\ n + 4 \in 1..(n + 4) /\ ~(n + 4 <= n) /\ n + 4 - n = 4
    BY <2>1
  <2>3. t[n + 1] = l[1] /\ t[n + 2] = l[2]
    BY <2>1, <2>2
  <2>4. t[n + 3] = l[3] /\ t[n + 4] = l[4]
    BY <2>1, <2>2
  <2> QED BY <1>1, <2>3, <2>4 DEF n
<1> QED BY <1>4, <1>5, <1>6 DEF t, l

LEMMA StepsAre ==
    ASSUME NEW op \in Op
    PROVE  /\ FirstStep(op) \in StepsOf(op) /\ StepsOf(op) \subseteq Label \ {"idle"}
           /\ "append" \in StepsOf(op) \/ "check" \in StepsOf(op) => op = "register"
           /\ "login" \in StepsOf(op) => op = "login"
           /\ "history" \in StepsOf(op) <=> op = "history"
           /\ "file" \in StepsOf(op) => op \in {"private", "group"}
           /\ "fileOwn" \in StepsOf(op) <=> op = "private"
           /\ "fork" \in StepsOf(op) => op = "weather"
           /\ op \in {"register", "login", "history"} => "reply" \in StepsOf(op)
           /\ op = "register" => "append" \in StepsOf(op)
           /\ op \in {"private", "group", "weather"} => "deliver" \in StepsOf(op)
<1>1. op \in {"register", "login", "private", "group", "history", "weather"}
  BY DEF Op
<1> QED BY <1>1 DEF FirstStep, StepsOf, Label

LEMMA JobIs ==
    ASSUME NEW w \in Worker, WorkerOk(w), todo[w] # <<>>
    PROVE  /\ job(w) \in Job /\ job(w).op \in Op /\ job(w).name \in Box
           /\ job(w).password \in Password /\ job(w).to \in Name
           /\ job(w).op # "history" => job(w).name \in Name
<1>1. todo[w] \in Seq(Job) /\ Len(todo[w]) \in Nat \ {0} /\ DOMAIN todo[w] = 1..Len(todo[w])
  BY TailIs DEF WorkerOk
<1>2. 1 \in 1..Len(todo[w])
  BY <1>1
<1>3. todo[w][1] \in Job
  BY <1>1, <1>2, ElementOfSeq
<1>4. todo[w][1].op # "history" => todo[w][1].name \in Name
  BY <1>1, <1>2 DEF WorkerOk
<1> QED BY <1>3, <1>4 DEF job, Job, Box

FilesGrow ==
    /\ FilesOk' /\ Grows(users, users') /\ \A n \in Box : Grows(box[n], box'[n])
    /\ failed' \in SUBSET Id /\ crashes' = crashes

LEMMA FilesSame ==
    ASSUME StoreInv, UNCHANGED fileVars, failed' \in SUBSET Id, crashes' = crashes PROVE FilesGrow
<1>1. Grows(users, users) /\ \A n \in Box : Grows(box[n], box[n])
  BY GrowsSame DEF StoreInv, FilesOk
<1> QED BY <1>1 DEF FilesGrow, StoreInv, FilesOk, fileVars

(* The files after a step of a job. *)
LEMMA JobWritesFiles ==
    ASSUME StoreInv, NEW w \in Worker, JobStep(w) PROVE FilesGrow
<1>0. WorkerOk(w) /\ FilesOk /\ JobTables
  BY DEF StoreInv
<1>1. CASE Begin(w) \/ Check(w) \/ Login(w) \/ SendPiece(w) \/ SendEnd(w) \/ Fork(w)
  <2>1. UNCHANGED <<fileVars, failed, crashes>>
    BY <1>1 DEF Begin, Check, Login, SendPiece, SendEnd, Fork
  <2> QED BY <2>1, FilesSame DEF StoreInv
<1>2. CASE AppendAccount(w)
  <2>1. pc[w] = "append" /\ UNCHANGED <<box, failed, crashes>>
    BY <1>2 DEF AppendAccount, At
  <2>2. CASE UNCHANGED users
    BY <2>1, <2>2, FilesSame DEF StoreInv, fileVars
  <2>3. CASE users' = users \o <<job(w).name, Colon, job(w).password, Eol>>
    <3>1. todo[w] # <<>> /\ pc[w] \in StepsOf(job(w).op)
      BY <1>0, <2>1 DEF WorkerOk
    <3>2. job(w).op = "register" /\ job(w).name \in Name /\ job(w).password \in Password
      BY <1>0, <2>1, <3>1, JobIs, StepsAre
    <3> DEFINE S == Name \cup Password \cup {Colon, Eol}  a == job(w).name  c == job(w).password
    <3>3. a \in S /\ c \in S /\ Colon \in S /\ Eol \in S /\ users \in Seq(S)
      BY <1>0, <3>2 DEF FilesOk
    <3> HIDE DEF S, a, c
    <3>4. users \o <<a, Colon, c, Eol>> \in Seq(S) /\ Grows(users, users \o <<a, Colon, c, Eol>>)
      BY <3>3, GrowsLine
    <3>5. users' \in Seq(S) /\ Grows(users, users')
      BY <2>3, <3>4 DEF a, c
    <3>6. FilesOk'
      BY <1>0, <2>1, <3>5 DEF FilesOk, S
    <3>7. \A n \in Box : Grows(box[n], box[n])
      BY <1>0, GrowsSame DEF FilesOk
    <3> QED BY <2>1, <3>5, <3>6, <3>7 DEF FilesGrow, StoreInv
  <2> QED BY <1>2, <2>2, <2>3 DEF AppendAccount
<1>3. CASE StoreChar(w) \/ StoreFails(w)
  <2>1. pc[w] \in Filing
    BY <1>3 DEF StoreChar, StoreFails
  <2>2. todo[w] # <<>> /\ pc[w] \in StepsOf(job(w).op)
    BY <1>0, <2>1 DEF WorkerOk, Filing
  <2>3. IdOf(w) \in Id
    <3>1. Len(todo[w]) \in Nat
      BY <1>0, LenProperties DEF WorkerOk
    <3> QED BY <2>1, <3>1 DEF IdOf, Id, Filing
  <2>4. FiledFor(w) \in Box
    <3>1. job(w).op \in {"private", "group"}
      BY <1>0, <2>1, <2>2, JobIs, StepsAre DEF Filing
    <3> QED BY <1>0, <2>2, <3>1, JobIs DEF FiledFor, Box
  <2>5. CASE StoreFails(w)
    <3>1. failed' \in SUBSET Id /\ crashes' = crashes /\ UNCHANGED fileVars
      BY <2>3, <2>5 DEF StoreFails, StoreInv
    <3> QED BY <3>1, FilesSame
  <2>6. CASE StoreChar(w)
    <3> DEFINE x == [id |-> IdOf(w), part |-> index[w] + 1]  n == FiledFor(w)
    <3>1. x \in Cell
      <4>1. index[w] + 1 \in 1..Width
        BY <1>0, FileStoreAssumption DEF WorkerOk
      <4> QED BY <2>3, <4>1 DEF Cell
    <3>2. n \in Box /\ box[n] \in Seq(Cell)
      BY <1>0, <2>4 DEF FilesOk
    <3>3. box' = [box EXCEPT ![n] = Append(@, x)] /\ UNCHANGED <<users, failed, crashes>>
      BY <2>6 DEF StoreChar
    <3> HIDE DEF x, n
    <3>4. Append(box[n], x) \in Seq(Cell) /\ Grows(box[n], Append(box[n], x))
      BY <3>1, <3>2, AppendIs, GrowsAppend
    <3>5. FilesOk'
      BY <1>0, <3>2, <3>3, <3>4 DEF FilesOk
    <3>6. \A m \in Box : Grows(box[m], box'[m])
      <4>1. \A m \in Box : Grows(box[m], box[m])
        BY <1>0, GrowsSame DEF FilesOk
      <4> QED BY <1>0, <3>2, <3>3, <3>4, <4>1 DEF FilesOk
    <3>7. Grows(users, users')
      BY <1>0, <3>3, GrowsSame DEF FilesOk
    <3> QED BY <3>3, <3>5, <3>6, <3>7 DEF FilesGrow, StoreInv
  <2> QED BY <1>3, <2>5, <2>6
<1> QED BY <1>1, <1>2, <1>3 DEF JobStep

(* The worker after a step of its job. *)
LEMMA JobStaysOk ==
    ASSUME StoreInv, NEW w \in Worker, JobStep(w) PROVE WorkerOk(w)'
<1>0. WorkerOk(w) /\ FilesOk /\ JobTables
  BY DEF StoreInv
<1>1. todo' = todo
  BY JobFrame
<1>2. todo[w] # <<>>
  BY <1>0 DEF JobStep, Begin, Check, AppendAccount, Login, StoreChar, StoreFails, SendPiece,
              SendEnd, Fork, At, Filing, WorkerOk
<1> DEFINE op == job(w).op
<1>3. op \in Op /\ job(w).name \in Box
  BY <1>0, <1>2, JobIs
<1>4. /\ \A x : Goto(w, x) => pc'[w] = x
      /\ \A x : Replies(w, x) => pc'[w] = "reply" /\ ok'[w] = x
  BY <1>0 DEF Goto, Replies, JobTables
<1>5. pc[w] # "idle" => pc[w] \in StepsOf(op)
  BY <1>0 DEF WorkerOk
<1>6. ASSUME pc'[w] \in StepsOf(op), ok'[w] \in BOOLEAN, off'[w] \in Nat,
             index'[w] \in Nat, index'[w] < Width, size'[w] \in Nat,
             at'[w] \in Seq(Nat), shown'[w] \in Seq(Cell)
      PROVE  WorkerOk(w)'
  <2>1. pc'[w] \in Label /\ pc'[w] # "idle"
    BY <1>3, <1>6, StepsAre
  <2>2. job(w)' = job(w)
    BY <1>1 DEF job
  <2> QED BY <1>0, <1>1, <1>2, <1>6, <2>1, <2>2 DEF WorkerOk
<1>7. /\ ok[w] \in BOOLEAN /\ off[w] \in Nat /\ index[w] \in Nat /\ index[w] < Width
      /\ size[w] \in Nat /\ at[w] \in Seq(Nat) /\ shown[w] \in Seq(Cell)
  BY <1>0 DEF WorkerOk
<1>8. CASE Begin(w)
  <2>1. pc'[w] = FirstStep(op) /\ UNCHANGED <<off, index, ok, at, shown>>
    BY <1>4, <1>8 DEF Begin
  <2>2. size'[w] = Len(FileRead(job(w)))
    BY <1>0, <1>8 DEF Begin, JobTables
  <2>3. Len(FileRead(job(w))) \in Nat
    BY <1>0, <1>3, LenProperties DEF FileRead, FilesOk
  <2>4. pc'[w] \in StepsOf(op)
    BY <1>3, <2>1, StepsAre
  <2> QED BY <1>6, <1>7, <2>1, <2>2, <2>3, <2>4
<1>9. CASE Check(w)
  <2>1. pc[w] = "check" /\ UNCHANGED <<index, size, at, shown>>
    BY <1>9 DEF Check, At
  <2>2. op = "register" /\ pc[w] \in StepsOf(op)
    BY <1>3, <1>5, <2>1, StepsAre
  <2> DEFINE c == ReadBy(w, users)
  <2>3. Len(c) \in Nat
    BY <1>0, <1>7, ReadIs DEF FilesOk
  <2>4. off'[w] = off[w] + Len(c)
    BY <1>0, <1>9 DEF Check, JobTables
  <2>5. pc'[w] \in {"append", "reply", pc[w]} /\ ok'[w] \in {ok[w], FALSE}
    BY <1>4, <1>9 DEF Check
  <2>6. pc'[w] \in StepsOf(op)
    BY <1>3, <2>2, <2>5, StepsAre
  <2> HIDE DEF c, op
  <2>7. off'[w] \in Nat
    BY <1>7, <2>3, <2>4
  <2> QED BY <1>6, <1>7, <2>1, <2>5, <2>6, <2>7
<1>10. CASE AppendAccount(w) \/ SendEnd(w)
  <2>1. pc[w] \in {"append", "history"} /\ UNCHANGED <<off, index, size, at, shown>>
    BY <1>10 DEF AppendAccount, SendEnd, At
  <2>2. pc'[w] = "reply" /\ ok'[w] \in BOOLEAN
    BY <1>4, <1>10 DEF AppendAccount, SendEnd
  <2>3. pc'[w] \in StepsOf(op)
    BY <1>3, <1>5, <2>1, <2>2, StepsAre
  <2> QED BY <1>6, <1>7, <2>1, <2>2, <2>3
<1>11. CASE Login(w)
  <2>1. pc[w] = "login" /\ UNCHANGED <<index, size, at, shown>>
    BY <1>11 DEF Login, At
  <2>2. LineEnd(w) \in Nat
    BY <1>0, <1>7, LineEndIs
  <2>3. \/ UNCHANGED off /\ pc'[w] = "reply" /\ ok'[w] \in BOOLEAN
        \/ off'[w] = LineEnd(w) /\ UNCHANGED <<pc, ok>>
    BY <1>0, <1>4, <1>11 DEF Login, JobTables
  <2>4. pc'[w] \in StepsOf(op)
    BY <1>3, <1>5, <2>1, <2>3, StepsAre
  <2> QED BY <1>6, <1>7, <2>1, <2>2, <2>3, <2>4
<1>12. CASE StoreChar(w) \/ StoreFails(w)
  <2>1. pc[w] \in Filing /\ UNCHANGED <<off, ok, size, at, shown>>
    BY <1>12 DEF StoreChar, StoreFails
  <2>2. op \in {"private", "group"} /\ (pc'[w] = NextCopy(w) => pc'[w] \in StepsOf(op))
    BY <1>3, <1>5, <2>1, StepsAre DEF Filing, NextCopy, At
  <2>3. /\ pc'[w] = NextCopy(w) \/ UNCHANGED pc
        /\ index'[w] = 0 \/ (index'[w] = index[w] + 1 /\ index[w] + 1 # Width)
    BY <1>0, <1>4, <1>12 DEF StoreChar, StoreFails, JobTables
  <2>4. index'[w] \in Nat /\ index'[w] < Width
    <3> DEFINE i == index[w]  k == index'[w]
    <3>1. i \in Nat /\ i < Width /\ Width \in Nat \ {0} /\ (k = 0 \/ (k = i + 1 /\ i + 1 # Width))
      BY <1>7, <2>3, FileStoreAssumption
    <3> HIDE DEF i, k
    <3>2. k \in Nat /\ k < Width
      BY <3>1
    <3> QED BY <3>2 DEF k
  <2>5. pc'[w] \in StepsOf(op)
    BY <1>5, <2>1, <2>2, <2>3 DEF Filing
  <2> QED BY <1>6, <1>7, <2>1, <2>4, <2>5
<1>13. CASE SendPiece(w)
  <2>1. pc[w] = "history" /\ UNCHANGED <<pc, index, ok, size>>
    BY <1>13 DEF SendPiece, At
  <2> DEFINE f == box[job(w).name]  c == ReadBy(w, f)  g == Fitting(c)
             places == [i \in DOMAIN g |-> off[w] + i]
  <2>2. f \in Seq(Cell)
    BY <1>0, <1>3 DEF FilesOk
  <2>3. /\ off'[w] = off[w] + Len(c) /\ shown'[w] = shown[w] \o g /\ at'[w] = at[w] \o places
    BY <1>0, <1>13 DEF SendPiece, JobTables
  <2> HIDE DEF f
  <2>4. c \in Seq(Cell) /\ Len(c) \in Nat
    BY <1>7, <2>2, ReadIs
  <2> HIDE DEF c
  <2>5. g \in Seq(Cell) /\ DOMAIN g = 1..Len(g) /\ Len(g) \in Nat
    BY <2>4, FittingIs
  <2> HIDE DEF g
  <2>6. places \in Seq(Nat)
    BY <1>7, <2>5
  <2> HIDE DEF places
  <2>7. off'[w] \in Nat
    BY <1>7, <2>3, <2>4
  <2>8. shown'[w] \in Seq(Cell) /\ at'[w] \in Seq(Nat)
    BY <1>7, <2>3, <2>5, <2>6, ConcatProperties
  <2>9. pc'[w] \in StepsOf(op)
    BY <1>5, <2>1
  <2> QED BY <1>6, <1>7, <2>1, <2>7, <2>8, <2>9
<1>14. CASE Fork(w)
  <2>1. pc[w] = "fork" /\ pc'[w] = "deliver" /\ UNCHANGED jobVars
    BY <1>4, <1>14 DEF Fork, At
  <2>2. pc'[w] \in StepsOf(op)
    BY <1>3, <1>5, <2>1, StepsAre
  <2> QED BY <1>6, <1>7, <2>1, <2>2 DEF jobVars
<1> QED BY <1>8, <1>9, <1>10, <1>11, <1>12, <1>13, <1>14 DEF JobStep

-----------------------------------------------------------------------------
(* The steps of the system: of a job, the end of jobs, or of a child.      *)

(* The jobs of W are over, and the files are as they were. *)
JobsEnd(W) ==
    Drops(W) /\ UNCHANGED <<fileVars, failed>> /\ crashes' \in 0..MaxCrashes

LEMMA StepIs ==
    ASSUME StoreInv, WeatherInv, [Next]_vars
    PROVE  /\ WeatherInv'
           /\ \/ \E w \in Worker : JobStep(w)
              \/ \E W \in SUBSET Worker : JobsEnd(W)
              \/ UNCHANGED storeVars
<1> DEFINE Stores == \/ \E w \in Worker : JobStep(w)
                     \/ \E W \in SUBSET Worker : JobsEnd(W)
                     \/ UNCHANGED storeVars
<1>0. UNCHANGED weatherVars => WeatherInv'
  BY DEF weatherVars, WeatherInv, Tables, ChildOk
<1>1. CASE UNCHANGED vars \/ Quiet
  BY <1>0, <1>1 DEF vars, Quiet
<1>2. ASSUME NEW w \in Worker, StoreStep(w), UNCHANGED weatherVars PROVE WeatherInv' /\ Stores
  <2>1. CASE End(w)
    <3>1. JobsEnd({w})
      BY <2>1 DEF End, JobsEnd, StoreInv
    <3> QED BY <1>0, <1>2, <3>1
  <2>2. CASE ~ End(w)
    <3>1. JobStep(w)
      BY <1>2, <2>2 DEF StoreStep, JobStep
    <3> QED BY <1>0, <1>2, <3>1
  <2> QED BY <2>1, <2>2
<1>3. ASSUME NEW w \in Worker, Fork(w) PROVE WeatherInv' /\ Stores
  <2>1. JobStep(w)
    BY <1>3 DEF JobStep
  <2>2. (\E c \in Child : Start(c)) \/ UNCHANGED weatherVars
    BY <1>3 DEF Fork
  <2>3. WeatherInv'
    BY <1>0, <2>2, WeatherStep
  <2> QED BY <2>1, <2>3
<1>4. ASSUME NEW c \in Child, ChildStep(c), UNCHANGED storeVars PROVE WeatherInv' /\ Stores
  BY <1>4, WeatherStep
<1>5. CASE Crash /\ UNCHANGED weatherVars
  <2>1. crashes' \in 0..MaxCrashes
    BY <1>5, FileStoreAssumption DEF Crash, StoreInv
  <2>2. JobsEnd(Worker)
    BY <1>5, <2>1 DEF Crash, JobsEnd, StoreInv
  <2> QED BY <1>0, <1>5, <2>2
<1> QED BY <1>1, <1>2, <1>3, <1>4, <1>5 DEF Next

LEMMA JobsEndGrow ==
    ASSUME StoreInv, NEW W \in SUBSET Worker, JobsEnd(W)
    PROVE  FilesOk' /\ Grows(users, users') /\ \A n \in Box : Grows(box[n], box'[n])
<1>1. Grows(users, users) /\ \A n \in Box : Grows(box[n], box[n])
  BY GrowsSame DEF StoreInv, FilesOk
<1> QED BY <1>1 DEF JobsEnd, StoreInv, FilesOk, fileVars

LEMMA SameStaysOk ==
    ASSUME NEW v \in Worker, WorkerOk(v), SameJob(v) PROVE WorkerOk(v)'
BY DEF WorkerOk, SameJob, job

LEMMA StoreStays ==
    ASSUME StoreInv, WeatherInv, [Next]_vars PROVE StoreInv'
<1>1. ASSUME NEW w \in Worker, JobStep(w) PROVE StoreInv'
  <2>1. JobTables' /\ \A v \in Worker : v # w => SameJob(v)
    BY <1>1, JobFrame
  <2>2. WorkerOk(w)' /\ FilesGrow
    BY <1>1, JobStaysOk, JobWritesFiles
  <2>3. \A v \in Worker : WorkerOk(v)'
    BY <2>1, <2>2, SameStaysOk DEF StoreInv
  <2> QED BY <2>1, <2>2, <2>3 DEF FilesGrow, StoreInv
<1>2. ASSUME NEW W \in SUBSET Worker, JobsEnd(W) PROVE StoreInv'
  <2>1. /\ JobTables' /\ \A v \in Worker \ W : SameJob(v)
        /\ \A v \in W : WorkerOk(v)'
    BY <1>2, DropsIs DEF JobsEnd
  <2>2. \A v \in Worker : WorkerOk(v)'
    BY <2>1, SameStaysOk DEF StoreInv
  <2> QED BY <1>2, <2>1, <2>2, JobsEndGrow DEF JobsEnd, StoreInv
<1>3. CASE UNCHANGED storeVars
  <2>1. \A v \in Worker : SameJob(v)
    BY <1>3 DEF storeVars, jobVars, SameJob
  <2>2. \A v \in Worker : WorkerOk(v)'
    BY <2>1, SameStaysOk DEF StoreInv
  <2> QED BY <1>3, <2>2 DEF storeVars, jobVars, fileVars, StoreInv, JobTables, FilesOk
<1> QED BY <1>1, <1>2, <1>3, StepIs

LEMMA StoreInvImplies == StoreInv => StoreTypeOK
<1> SUFFICES ASSUME StoreInv PROVE StoreTypeOK
  OBVIOUS
<1>1. \A w \in Worker : index[w] \in 0..Width
  BY FileStoreAssumption DEF StoreInv, WorkerOk
<1>2. index \in [Worker -> 0..Width]
  BY <1>1 DEF StoreInv, JobTables
<1> QED BY <1>2 DEF StoreInv, JobTables, WorkerOk, FilesOk, StoreTypeOK

Types == StoreInv /\ WeatherInv

LEMMA TypesHold == Spec => []Types
<1>1. Init => Types
  BY StoreStart, WeatherStart DEF Init, Types
<1>2. Types /\ [Next]_vars => Types'
  BY StoreStays, StepIs DEF Types
<1> QED BY <1>1, <1>2, PTL DEF Spec

(* The types, of the files, of what the workers and the children know, and of
   what they have written. *)
THEOREM RequestTypes == Spec => []TypeOK
<1>1. Types => TypeOK
  BY StoreInvImplies, WeatherInvImplies DEF Types, TypeOK
<1> QED BY <1>1, TypesHold, PTL

(* What the weather child gathers and formats fits its two buffers, whatever
   the service sends: a heading of at most MaxHead bytes and three days of at
   most MaxDay leave room for the ellipsis. *)
THEOREM WeatherFitsBuffers == Spec => []BuffersHold
<1>1. Types => BuffersHold
  BY WeatherInvImplies DEF Types
<1> QED BY <1>1, TypesHold, PTL

(* The client that asks for the weather gets one message from the child. *)
THEOREM WeatherIsAnsweredOnce == Spec => []OneAnswer
<1>1. Types => OneAnswer
  BY WeatherInvImplies DEF Types
<1> QED BY <1>1, TypesHold, PTL

-----------------------------------------------------------------------------
(* The file of accounts: whole lines.                                      *)

CellAt(i, x) ==
    /\ i % 4 = 1 => x \in Name
    /\ i % 4 = 2 => x = Colon
    /\ i % 4 = 3 => x \in Password
    /\ i % 4 = 0 => x = Eol

Lines ==
    /\ Len(users) % 4 = 0
    /\ \A i \in 1..Len(users) : CellAt(i, users[i])

LEMMA FourIs ==
    ASSUME NEW i \in Nat
    PROVE  /\ i % 4 \in 0..3 /\ (i % 4 = 0 => (i + 4) % 4 = 0)
           /\ i % 4 = 0 => (i + 1) % 4 = 1 /\ (i + 2) % 4 = 2 /\ (i + 3) % 4 = 3
OBVIOUS

LEMMA LinesImplies == ASSUME StoreInv, Lines PROVE AccountLinesWhole
<1>1. DOMAIN users = 1..Len(users) /\ Len(users) \in Nat
  BY LenProperties DEF StoreInv, FilesOk
<1>2. ASSUME NEW i \in DOMAIN users
      PROVE  users[i] \in CASE i % 4 = 1 -> Name [] i % 4 = 2 -> {Colon}
                            [] i % 4 = 3 -> Password [] i % 4 = 0 -> {Eol}
  <2>1. CellAt(i, users[i]) /\ i % 4 \in 0..3
    BY <1>1, FourIs DEF Lines
  <2> DEFINE r == i % 4  x == users[i]
  <2>2. /\ r \in 0..3 /\ (r = 1 => x \in Name) /\ (r = 2 => x = Colon)
        /\ (r = 3 => x \in Password) /\ (r = 0 => x = Eol)
    BY <2>1 DEF CellAt
  <2> HIDE DEF r, x
  <2>3. CASE r = 0
    BY <2>2, <2>3 DEF r, x
  <2>4. CASE r = 1
    BY <2>2, <2>4 DEF r, x
  <2>5. CASE r = 2
    BY <2>2, <2>5 DEF r, x
  <2>6. CASE r = 3
    BY <2>2, <2>6 DEF r, x
  <2>7. r = 0 \/ r = 1 \/ r = 2 \/ r = 3
    BY <2>2
  <2> QED BY <2>3, <2>4, <2>5, <2>6, <2>7
<1> QED BY <1>2 DEF AccountLinesWhole, Lines

LEMMA LinesAppend ==
    ASSUME NEW s \in Seq(Name \cup Password \cup {Colon, Eol}), NEW t, NEW a \in Name, NEW b \in Password,
           t = s \o <<a, Colon, b, Eol>>, Len(s) % 4 = 0, \A i \in 1..Len(s) : CellAt(i, s[i])
    PROVE  Len(t) % 4 = 0 /\ \A i \in 1..Len(t) : CellAt(i, t[i])
<1> DEFINE S == Name \cup Password \cup {Colon, Eol}
<1>1. a \in S /\ b \in S /\ Colon \in S /\ Eol \in S /\ s \in Seq(S)
  OBVIOUS
<1> HIDE DEF S
<1>2. /\ Grows(s, t) /\ Len(t) = Len(s) + 4 /\ t[Len(s) + 1] = a
      /\ t[Len(s) + 2] = Colon /\ t[Len(s) + 3] = b /\ t[Len(s) + 4] = Eol
  BY <1>1, GrowsLine
<1> DEFINE n == Len(s)
<1>3. n \in Nat /\ n % 4 = 0
  BY <1>1, LenProperties
<1>4. /\ Len(t) = n + 4 /\ \A i \in 1..n : CellAt(i, t[i])
      /\ t[n + 1] = a /\ t[n + 2] = Colon /\ t[n + 3] = b /\ t[n + 4] = Eol
  BY <1>2 DEF Grows
<1> HIDE DEF n
<1>5. (n + 4) % 4 = 0 /\ (n + 1) % 4 = 1 /\ (n + 2) % 4 = 2 /\ (n + 3) % 4 = 3
  BY <1>3, FourIs
<1>a. \A m, x : (m % 4 = 1 /\ x \in Name) \/ (m % 4 = 2 /\ x = Colon)
              \/ (m % 4 = 3 /\ x \in Password) \/ (m % 4 = 0 /\ x = Eol) => CellAt(m, x)
  BY DEF CellAt
<1>6. CellAt(n + 1, t[n + 1])
  BY <1>4, <1>5, <1>a
<1>7. CellAt(n + 2, t[n + 2])
  BY <1>4, <1>5, <1>a
<1>8. CellAt(n + 3, t[n + 3])
  BY <1>4, <1>5, <1>a
<1>9. CellAt(n + 4, t[n + 4])
  BY <1>4, <1>5, <1>a
<1>10. \A i \in 1..(n + 4) : i \in 1..n \/ i = n + 1 \/ i = n + 2 \/ i = n + 3 \/ i = n + 4
  BY <1>3
<1> QED BY <1>4, <1>5, <1>6, <1>7, <1>8, <1>9, <1>10

(* A registration that writes knows a name and a password. *)
LEMMA AppendWrites ==
    ASSUME StoreInv, NEW w \in Worker, JobStep(w)
    PROVE  \/ UNCHANGED users
           \/ /\ AppendAccount(w) /\ job(w).op = "register"
              /\ job(w).name \in Name /\ job(w).password \in Password
              /\ users' = users \o <<job(w).name, Colon, job(w).password, Eol>>
              /\ pc'[w] = "reply" /\ ok'[w] = TRUE
<1>1. WorkerOk(w) /\ JobTables
  BY DEF StoreInv
<1>2. CASE AppendAccount(w)
  <2>1. pc[w] = "append"
    BY <1>2 DEF AppendAccount, At
  <2>2. todo[w] # <<>> /\ pc[w] \in StepsOf(job(w).op)
    BY <1>1, <2>1 DEF WorkerOk
  <2>3. job(w).op = "register" /\ job(w).name \in Name /\ job(w).password \in Password
    BY <1>1, <2>1, <2>2, JobIs, StepsAre
  <2> QED BY <1>1, <1>2, <2>3 DEF AppendAccount, Replies, Goto, JobTables
<1>3. CASE ~ AppendAccount(w)
  BY <1>3 DEF JobStep, Begin, Check, Login, StoreChar, StoreFails, SendPiece, SendEnd, Fork, fileVars
<1> QED BY <1>2, <1>3

LEMMA LinesStay ==
    ASSUME StoreInv, WeatherInv, Lines, [Next]_vars PROVE Lines'
<1>1. ASSUME NEW w \in Worker, JobStep(w) PROVE Lines'
  <2>1. CASE UNCHANGED users
    BY <2>1 DEF Lines
  <2>2. CASE /\ job(w).name \in Name /\ job(w).password \in Password
             /\ users' = users \o <<job(w).name, Colon, job(w).password, Eol>>
    BY <2>2, LinesAppend DEF Lines, StoreInv, FilesOk
  <2> QED BY <1>1, <2>1, <2>2, AppendWrites
<1>2. CASE UNCHANGED users
  BY <1>2 DEF Lines
<1> QED BY <1>1, <1>2, StepIs DEF JobsEnd, fileVars, storeVars

WholeLines == Types /\ Lines

LEMMA WholeLinesHold == Spec => []WholeLines
<1>1. Init => WholeLines
  <2>1. ASSUME Init PROVE Lines
    <3>1. users = <<>> /\ Len(<<>>) = 0
      BY <2>1 DEF Init, StoreInit
    <3>2. Len(users) = 0 /\ 0 % 4 = 0 /\ 1..0 = {}
      BY <3>1
    <3> QED BY <3>2 DEF Lines
  <2> QED BY <2>1, StoreStart, WeatherStart DEF Init, Types, WholeLines
<1>2. WholeLines /\ [Next]_vars => WholeLines'
  BY LinesStay, StoreStays, StepIs DEF Types, WholeLines
<1> QED BY <1>1, <1>2, PTL DEF Spec

(* users.txt is always a sequence of whole lines, whatever workers register at
   once and wherever the server is killed. *)
THEOREM AccountsAreWhole == Spec => []AccountLinesWhole
<1>1. WholeLines => AccountLinesWhole
  BY LinesImplies DEF WholeLines, Types
<1> QED BY <1>1, WholeLinesHold, PTL

-----------------------------------------------------------------------------
(* The history: what one worker has sent of the file it reads.             *)

(* The first p cells of the file are sent as soon as they are read: a piece
   loses what lies more than p behind its own beginning. *)
Sent(f, o, a, s) ==
    /\ o <= Len(f) /\ Len(a) = Len(s)
    /\ \A i \in 1..Len(a) : a[i] \in 1..o /\ f[a[i]] = s[i]
    /\ \A i, j \in 1..Len(a) : i < j => a[i] < a[j]
    /\ \A k \in 1..o : k <= Piece - Prefix => \E i \in 1..Len(a) : a[i] = k

HistoryOk(w) ==
    pc[w] # "idle" /\ job(w).op = "history" =>
        /\ size[w] <= Len(box[job(w).name])
        /\ Sent(box[job(w).name], off[w], at[w], shown[w])
        /\ pc[w] = "reply" /\ ok[w] => size[w] <= off[w]

(* The file may grow. *)
LEMMA SentStays ==
    ASSUME NEW S, NEW f \in Seq(S), NEW g \in Seq(S), Grows(f, g),
           NEW o \in Nat, NEW a \in Seq(Nat), NEW s, Sent(f, o, a, s)
    PROVE  Sent(g, o, a, s)
<1>1. Len(f) \in Nat /\ Len(g) \in Nat /\ Len(f) <= Len(g) /\ o <= Len(f)
  BY LenProperties DEF Grows, Sent
<1>2. ASSUME NEW i \in 1..Len(a) PROVE a[i] \in 1..o /\ g[a[i]] = s[i]
  <2>1. a[i] \in 1..o /\ f[a[i]] = s[i]
    BY <1>2 DEF Sent
  <2>2. a[i] \in 1..Len(f)
    BY <1>1, <2>1
  <2> QED BY <2>1, <2>2 DEF Grows
<1> QED BY <1>1, <1>2 DEF Sent

LEMMA ConcatIs ==
    ASSUME NEW S, NEW s \in Seq(S), NEW t \in Seq(S)
    PROVE  /\ Len(s \o t) = Len(s) + Len(t)
           /\ \A i \in 1..(Len(s) + Len(t)) :
                (s \o t)[i] = IF i <= Len(s) THEN s[i] ELSE t[i - Len(s)]
BY ConcatProperties

(* Another piece is sent. *)
LEMMA SentMore ==
    ASSUME NEW S, NEW f \in Seq(S), NEW o \in Nat, NEW a \in Seq(Nat), NEW s \in Seq(S),
           Sent(f, o, a, s), NEW n \in Nat, NEW g \in Seq(S), NEW p \in Seq(Nat),
           o + n <= Len(f), Len(g) = IF n <= Piece - Prefix THEN n ELSE Piece - Prefix,
           \A i \in 1..Len(g) : g[i] = f[o + i],
           Len(p) = Len(g), \A i \in 1..Len(g) : p[i] = o + i
    PROVE  Sent(f, o + n, a \o p, s \o g)
<1>1. /\ Len(f) \in Nat /\ Len(a) \in Nat /\ Len(g) \in Nat /\ Len(s) = Len(a)
      /\ Piece - Prefix \in Nat
  BY LenProperties, FileStoreAssumption DEF Sent
<1> DEFINE la == Len(a)  lg == Len(g)  b == a \o p  t == s \o g
<1>2. /\ Len(b) = la + lg /\ \A i \in 1..(la + lg) : b[i] = IF i <= la THEN a[i] ELSE p[i - la]
  <2>1. /\ Len(a \o p) = Len(a) + Len(p)
        /\ \A i \in 1..(Len(a) + Len(p)) :
             (a \o p)[i] = IF i <= Len(a) THEN a[i] ELSE p[i - Len(a)]
    BY ConcatIs, Zenon
  <2> QED BY <2>1
<1>3. /\ Len(t) = la + lg /\ \A i \in 1..(la + lg) : t[i] = IF i <= la THEN s[i] ELSE g[i - la]
  <2>1. /\ Len(s \o g) = Len(s) + Len(g)
        /\ \A i \in 1..(Len(s) + Len(g)) :
             (s \o g)[i] = IF i <= Len(s) THEN s[i] ELSE g[i - Len(s)]
    BY ConcatIs, Zenon
  <2> QED BY <1>1, <2>1
<1>4. /\ la \in Nat /\ lg \in Nat /\ lg <= n /\ (lg = n \/ lg = Piece - Prefix)
      /\ \A i \in 1..lg : g[i] = f[o + i] /\ p[i] = o + i
      /\ o <= Len(f)
      /\ \A i \in 1..la : a[i] \in 1..o /\ f[a[i]] = s[i]
      /\ \A i, j \in 1..la : i < j => a[i] < a[j]
      /\ \A k \in 1..o : k <= Piece - Prefix => \E i \in 1..la : a[i] = k
  <2>1. lg <= n /\ (lg = n \/ lg = Piece - Prefix)
    BY <1>1
  <2>2. /\ o <= Len(f)
        /\ \A i \in 1..la : a[i] \in 1..o /\ f[a[i]] = s[i]
        /\ \A i, j \in 1..la : i < j => a[i] < a[j]
        /\ \A k \in 1..o : k <= Piece - Prefix => \E i \in 1..la : a[i] = k
    BY Zenon DEF Sent
  <2>3. \A i \in 1..lg : g[i] = f[o + i] /\ p[i] = o + i
    BY Zenon
  <2> HIDE DEF la, lg
  <2> QED BY <1>1, <2>1, <2>2, <2>3, Zenon DEF la, lg
<1> HIDE DEF la, lg, b, t
<1>5. ASSUME NEW i \in 1..(la + lg)
      PROVE  \/ i \in 1..la /\ b[i] = a[i] /\ t[i] = s[i]
             \/ \E j \in 1..lg : i = la + j /\ b[i] = o + j /\ t[i] = f[o + j]
  <2>1. CASE i <= la
    BY <1>2, <1>3, <1>4, <2>1
  <2>2. CASE ~ (i <= la)
    <3>1. PICK j \in 1..lg : i = la + j
      <4>1. i - la \in 1..lg /\ i = la + (i - la)
        BY <1>4, <2>2
      <4> QED BY <4>1
    <3>2. i - la = j
      BY <1>4, <3>1
    <3>3. b[i] = p[j] /\ t[i] = g[j]
      BY <1>2, <1>3, <2>2, <3>2
    <3> QED BY <1>4, <3>1, <3>3
  <2> QED BY <2>1, <2>2
<1>6. ASSUME NEW i \in 1..(la + lg) PROVE b[i] \in 1..(o + n) /\ f[b[i]] = t[i]
  <2>1. CASE i \in 1..la /\ b[i] = a[i] /\ t[i] = s[i]
    <3>1. a[i] \in 1..o /\ f[a[i]] = s[i]
      BY <1>4, <2>1, Zenon
    <3>2. b[i] \in 1..o
      BY <2>1, <3>1, Zenon
    <3>3. b[i] \in 1..(o + n)
      BY <3>2
    <3> QED BY <2>1, <3>1, <3>3, Zenon
  <2>2. CASE \E j \in 1..lg : i = la + j /\ b[i] = o + j /\ t[i] = f[o + j]
    <3>1. PICK j \in 1..lg : b[i] = o + j /\ t[i] = f[o + j]
      BY <2>2, Zenon
    <3>2. o + j \in 1..(o + n)
      BY <1>4
    <3> QED BY <3>1, <3>2, Zenon
  <2> QED BY <1>5, <2>1, <2>2
<1>7. ASSUME NEW i \in 1..(la + lg), NEW j \in 1..(la + lg), i < j PROVE b[i] < b[j]
  <2>1. CASE j \in 1..la
    <3>1. i \in 1..la
      BY <1>4, <1>7, <2>1
    <3>2. b[i] = a[i] /\ b[j] = a[j]
      BY <1>2, <1>4, <2>1, <3>1
    <3> QED BY <1>4, <1>7, <2>1, <3>1, <3>2
  <2>2. CASE j \notin 1..la
    <3>1. PICK k \in 1..lg : j = la + k /\ b[j] = o + k
      BY <1>5, <2>2
    <3>2. CASE i \in 1..la /\ b[i] = a[i]
      <4>1. b[i] \in 1..o
        BY <1>4, <3>2
      <4> QED BY <1>4, <3>1, <4>1
    <3>3. CASE \E m \in 1..lg : i = la + m /\ b[i] = o + m
      BY <1>4, <1>7, <3>1, <3>3
    <3> QED BY <1>5, <3>2, <3>3
  <2> QED BY <2>1, <2>2
<1>8. ASSUME NEW k \in 1..(o + n), k <= Piece - Prefix PROVE \E i \in 1..(la + lg) : b[i] = k
  <2>1. CASE k \in 1..o
    <3>1. PICK i \in 1..la : a[i] = k
      BY <1>4, <1>8, <2>1
    <3>2. i \in 1..(la + lg) /\ i <= la
      BY <1>4
    <3>3. b[i] = a[i]
      BY <1>2, <3>2
    <3> QED BY <3>1, <3>2, <3>3
  <2>2. CASE k \notin 1..o
    <3>1. k - o \in 1..n /\ k - o <= Piece - Prefix
      BY <1>1, <1>8, <2>2
    <3>2. k - o \in 1..lg
      BY <1>1, <1>4, <3>1
    <3> DEFINE i == la + (k - o)
    <3>3. i \in 1..(la + lg) /\ ~ (i <= la) /\ i - la = k - o /\ o + (k - o) = k
      BY <1>4, <3>2
    <3> HIDE DEF i
    <3>4. b[i] = k
      BY <1>2, <1>4, <3>2, <3>3
    <3> QED BY <3>3, <3>4
  <2> QED BY <2>1, <2>2
<1> QED BY <1>1, <1>2, <1>3, <1>6, <1>7, <1>8 DEF Sent, b, t

LEMMA SentNothing == ASSUME NEW S, NEW f \in Seq(S) PROVE Sent(f, 0, <<>>, <<>>)
<1>1. Len(<<>>) = 0 /\ 1..0 = {} /\ 0 <= Len(f)
  BY LenProperties
<1> QED BY <1>1 DEF Sent

(* What one worker knows, when the files have grown and its job is the same. *)
LEMMA HistoryFrame ==
    ASSUME NEW w \in Worker, WorkerOk(w), FilesOk, FilesOk', HistoryOk(w), SameJob(w),
           \A n \in Box : Grows(box[n], box'[n])
    PROVE  HistoryOk(w)'
<1> SUFFICES ASSUME pc'[w] # "idle", job(w)'.op = "history"
             PROVE  HistoryOk(w)'
  BY DEF HistoryOk
<1>1. job(w)' = job(w) /\ pc[w] # "idle" /\ job(w).op = "history" /\ todo[w] # <<>>
  BY DEF SameJob, job, WorkerOk
<1> DEFINE f == box[job(w).name]  g == box'[job(w).name]
<1>2. f \in Seq(Cell) /\ g \in Seq(Cell) /\ Grows(f, g)
  BY <1>1, JobIs DEF FilesOk
<1>3. /\ size[w] <= Len(f) /\ Sent(f, off[w], at[w], shown[w])
      /\ (pc[w] = "reply" /\ ok[w] => size[w] <= off[w])
      /\ off[w] \in Nat /\ at[w] \in Seq(Nat) /\ size[w] \in Nat
  BY <1>1 DEF HistoryOk, WorkerOk
<1> HIDE DEF f, g
<1>4. Sent(g, off[w], at[w], shown[w])
  BY <1>2, <1>3, SentStays
<1>5. size[w] <= Len(g)
  BY <1>2, <1>3, LenProperties DEF Grows
<1>6. size'[w] <= Len(g) /\ Sent(g, off'[w], at'[w], shown'[w])
      /\ (pc'[w] = "reply" /\ ok'[w] => size'[w] <= off'[w])
  BY <1>3, <1>4, <1>5 DEF SameJob
<1> QED BY <1>1, <1>6 DEF HistoryOk, g

LEMMA PlacesAre ==
    ASSUME NEW o \in Nat, NEW n \in Nat, NEW p, p = [i \in 1..n |-> o + i]
    PROVE  p \in Seq(Nat) /\ Len(p) = n /\ \A i \in 1..n : p[i] = o + i
OBVIOUS

LEMMA HistoryStep ==
    ASSUME StoreInv, NEW w \in Worker, HistoryOk(w), JobStep(w) PROVE HistoryOk(w)'
<1>0. WorkerOk(w) /\ FilesOk /\ JobTables /\ WorkerOk(w)'
  BY JobStaysOk DEF StoreInv
<1> SUFFICES ASSUME pc'[w] # "idle", job(w)'.op = "history"
             PROVE  HistoryOk(w)'
  BY DEF HistoryOk
<1>1. job(w)' = job(w) /\ job(w).op = "history" /\ todo' = todo
  BY JobFrame DEF job
<1>2. todo[w] # <<>>
  BY <1>0, <1>1 DEF WorkerOk
<1>3. pc[w] # "idle" => pc[w] = "history" \/ pc[w] = "reply"
  BY <1>0, <1>1 DEF WorkerOk, StepsOf
<1>4. Begin(w) \/ SendPiece(w) \/ SendEnd(w)
  BY <1>3 DEF JobStep, Begin, Check, AppendAccount, Login, StoreChar, StoreFails, Fork, At, Filing
<1> DEFINE f == box[job(w).name]
<1>5. f \in Seq(Cell) /\ UNCHANGED box /\ Len(f) \in Nat
  <2>1. UNCHANGED box
    BY <1>4 DEF Begin, SendPiece, SendEnd, fileVars
  <2> QED BY <1>0, <1>2, <2>1, JobIs, LenProperties DEF FilesOk
<1>6. SUFFICES /\ size'[w] <= Len(f) /\ Sent(f, off'[w], at'[w], shown'[w])
               /\ (pc'[w] = "reply" /\ ok'[w] => size'[w] <= off'[w])
  BY <1>1, <1>5, <1>6 DEF HistoryOk
<1>7. CASE Begin(w)
  <2>1. pc[w] = "idle" /\ UNCHANGED <<off, at, shown>> /\ pc'[w] = FirstStep(job(w).op)
    BY <1>0, <1>7 DEF Begin, At, Goto, JobTables
  <2>2. size'[w] = Len(f)
    BY <1>0, <1>1, <1>7 DEF Begin, JobTables, FileRead
  <2>3. off[w] = 0 /\ at[w] = <<>> /\ shown[w] = <<>>
    BY <1>0, <2>1 DEF WorkerOk
  <2>4. pc'[w] = "history"
    BY <1>1, <2>1 DEF FirstStep
  <2> HIDE DEF f
  <2> QED BY <1>5, <2>1, <2>2, <2>3, <2>4, SentNothing
<1>8. /\ pc[w] # "idle" => size[w] <= Len(f) /\ Sent(f, off[w], at[w], shown[w])
      /\ off[w] \in Nat /\ at[w] \in Seq(Nat) /\ shown[w] \in Seq(Cell) /\ size[w] \in Nat
  BY <1>0, <1>1 DEF HistoryOk, WorkerOk
<1> DEFINE c == ReadBy(w, f)
<1>9. CASE SendPiece(w)
  <2> DEFINE g == Fitting(c)  places == [i \in DOMAIN g |-> off[w] + i]
  <2>1. /\ pc[w] = "history" /\ UNCHANGED <<pc, size>>
        /\ off'[w] = off[w] + Len(c) /\ shown'[w] = shown[w] \o g /\ at'[w] = at[w] \o places
    BY <1>0, <1>9 DEF SendPiece, JobTables, At
  <2> HIDE DEF f
  <2>2. /\ c \in Seq(Cell) /\ Len(c) \in Nat
        /\ \A i \in 1..Len(c) : c[i] = f[off[w] + i]
        /\ off[w] <= Len(f) => off[w] + Len(c) <= Len(f)
    BY <1>5, <1>8, ReadIs
  <2> HIDE DEF c
  <2>3. /\ g \in Seq(Cell) /\ DOMAIN g = 1..Len(g) /\ Len(g) \in Nat
        /\ Len(g) = IF Len(c) <= Piece - Prefix THEN Len(c) ELSE Piece - Prefix
        /\ \A i \in 1..Len(g) : i \in 1..Len(c) /\ g[i] = c[i]
    BY <2>2, FittingIs
  <2> HIDE DEF g
  <2>4. places \in Seq(Nat) /\ Len(places) = Len(g) /\ \A i \in 1..Len(g) : places[i] = off[w] + i
    BY <1>8, <2>3, PlacesAre
  <2> HIDE DEF places
  <2>5. Sent(f, off[w], at[w], shown[w]) /\ off[w] <= Len(f) /\ size[w] <= Len(f)
    BY <1>8, <2>1 DEF Sent
  <2>6. \A i \in 1..Len(g) : g[i] = f[off[w] + i]
    BY <2>2, <2>3
  <2>7. off[w] + Len(c) <= Len(f)
    BY <2>2, <2>5
  <2>8. Sent(f, off[w] + Len(c), at[w] \o places, shown[w] \o g)
    BY <1>5, <1>8, <2>2, <2>3, <2>4, <2>5, <2>6, <2>7, SentMore
  <2> QED BY <2>1, <2>5, <2>8
<1>10. CASE SendEnd(w)
  <2>1. pc[w] = "history" /\ UNCHANGED <<off, size, at, shown>>
    BY <1>10 DEF SendEnd, At
  <2>2. ok'[w] => c = <<>>
    BY <1>0, <1>10 DEF SendEnd, Replies, JobTables
  <2> HIDE DEF f
  <2>3. (c = <<>>) <=> (Len(f) <= off[w])
    BY <1>5, <1>8, ReadIs
  <2> QED BY <1>5, <1>8, <2>1, <2>2, <2>3
<1> QED BY <1>4, <1>7, <1>9, <1>10

HistoryInv == Types /\ \A w \in Worker : HistoryOk(w)

LEMMA HistoryStays ==
    ASSUME HistoryInv, [Next]_vars PROVE HistoryInv'
<1>0. StoreInv /\ WeatherInv /\ Types' /\ FilesOk
  BY StoreStays, StepIs DEF HistoryInv, Types, StoreInv
<1>1. ASSUME NEW w \in Worker, JobStep(w), NEW v \in Worker PROVE HistoryOk(v)'
  <2>1. CASE v = w
    BY <1>0, <1>1, <2>1, HistoryStep DEF HistoryInv
  <2>2. CASE v # w
    <3>1. SameJob(v) /\ FilesGrow
      BY <1>0, <1>1, <2>2, JobFrame, JobWritesFiles
    <3> QED BY <1>0, <3>1, HistoryFrame DEF FilesGrow, HistoryInv, StoreInv
  <2> QED BY <2>1, <2>2
<1>2. ASSUME NEW W \in SUBSET Worker, JobsEnd(W), NEW v \in Worker PROVE HistoryOk(v)'
  <2>1. CASE v \in W
    <3>1. pc'[v] = "idle"
      BY <1>0, <1>2, <2>1, DropsIs DEF JobsEnd
    <3> QED BY <3>1 DEF HistoryOk
  <2>2. CASE v \notin W
    <3>1. SameJob(v)
      BY <1>0, <1>2, <2>2, DropsIs DEF JobsEnd
    <3>2. FilesOk' /\ \A n \in Box : Grows(box[n], box'[n])
      BY <1>0, <1>2, JobsEndGrow
    <3> QED BY <1>0, <3>1, <3>2, HistoryFrame DEF HistoryInv, StoreInv
  <2> QED BY <2>1, <2>2
<1>3. ASSUME UNCHANGED storeVars, NEW v \in Worker PROVE HistoryOk(v)'
  BY <1>3 DEF HistoryInv, HistoryOk, storeVars, jobVars, fileVars, job
<1>4. \A v \in Worker : HistoryOk(v)'
  BY <1>0, <1>1, <1>2, <1>3, StepIs
<1> QED BY <1>0, <1>4 DEF HistoryInv

LEMMA HistoryHolds == Spec => []HistoryInv
<1>1. Init => HistoryInv
  <2>1. ASSUME Init, NEW w \in Worker PROVE HistoryOk(w)
    <3>1. pc[w] = "idle"
      BY <2>1 DEF Init, StoreInit
    <3> QED BY <3>1 DEF HistoryOk
  <2> QED BY <2>1, StoreStart, WeatherStart DEF Init, Types, HistoryInv
<1> QED BY <1>1, HistoryStays, PTL DEF Spec

LEMMA HistoryIs ==
    ASSUME HistoryInv, NEW w \in Worker, pc[w] # "idle", job(w).op = "history"
    PROVE  LET f == box[job(w).name] IN
           /\ Sent(f, off[w], at[w], shown[w]) /\ f \in Seq(Cell) /\ DOMAIN f = 1..Len(f)
           /\ Len(f) \in Nat /\ off[w] \in Nat /\ size[w] \in Nat
           /\ at[w] \in Seq(Nat) /\ DOMAIN at[w] = 1..Len(at[w])
           /\ pc[w] = "reply" /\ ok[w] => size[w] <= off[w]
<1>1. WorkerOk(w) /\ FilesOk /\ HistoryOk(w)
  BY DEF HistoryInv, Types, StoreInv
<1>2. todo[w] # <<>>
  BY <1>1 DEF WorkerOk
<1>3. box[job(w).name] \in Seq(Cell)
  BY <1>1, <1>2, JobIs DEF FilesOk
<1>4. at[w] \in Seq(Nat) /\ off[w] \in Nat /\ size[w] \in Nat
  BY <1>1 DEF WorkerOk
<1> QED BY <1>1, <1>3, <1>4, LenProperties DEF HistoryOk

(* What is sent as history stands in the file, in this order and once each,
   whatever others append to it meanwhile. *)
THEOREM HistoryIsTheFile == Spec => []HistoryFaithful
<1>1. ASSUME HistoryInv PROVE HistoryFaithful
  <2>1. ASSUME NEW w \in Worker, pc[w] # "idle", job(w).op = "history"
        PROVE  /\ \A i \in DOMAIN at[w] : at[w][i] \in DOMAIN box[job(w).name]
                                          /\ box[job(w).name][at[w][i]] = shown[w][i]
               /\ \A i, j \in DOMAIN at[w] : i < j => at[w][i] < at[w][j]
    <3> DEFINE f == box[job(w).name]  a == at[w]  s == shown[w]  o == off[w]
    <3>1. /\ Sent(f, o, a, s) /\ DOMAIN f = 1..Len(f) /\ Len(f) \in Nat /\ o \in Nat
          /\ DOMAIN a = 1..Len(a)
      BY <1>1, <2>1, HistoryIs
    <3> HIDE DEF f, a, s, o
    <3>2. /\ \A i \in DOMAIN a : a[i] \in DOMAIN f /\ f[a[i]] = s[i]
          /\ \A i, j \in DOMAIN a : i < j => a[i] < a[j]
      BY <3>1 DEF Sent
    <3> QED BY <3>2 DEF f, a, s
  <2> QED BY <2>1 DEF HistoryFaithful
<1> QED BY <1>1, HistoryHolds, PTL

(* A history that fits one answer is sent whole, also when the file grows past
   that while it is read. *)
THEOREM ShortHistoryIsWhole == Spec => []ShortHistoryWhole
<1>1. ASSUME HistoryInv PROVE ShortHistoryWhole
  <2>1. ASSUME NEW w \in Worker, pc[w] = "reply", job(w).op = "history", ok[w],
               size[w] <= Piece - Prefix
        PROVE  1..size[w] \subseteq ToSet(at[w])
    <3> DEFINE f == box[job(w).name]  a == at[w]  o == off[w]  n == size[w]
    <3>1. /\ Sent(f, o, a, shown[w]) /\ o \in Nat /\ n \in Nat /\ n <= o
          /\ DOMAIN a = 1..Len(a) /\ n <= Piece - Prefix
      BY <1>1, <2>1, HistoryIs
    <3> HIDE DEF f, a, o, n
    <3>2. Piece - Prefix \in Nat
      BY FileStoreAssumption
    <3>3. ASSUME NEW k \in 1..n PROVE k \in ToSet(a)
      <4>1. k \in 1..o /\ k <= Piece - Prefix
        BY <3>1, <3>2
      <4>2. PICK i \in 1..Len(a) : a[i] = k
        BY <3>1, <4>1 DEF Sent
      <4> QED BY <3>1, <4>2 DEF ToSet
    <3> QED BY <3>3 DEF a, n
  <2> QED BY <2>1 DEF ShortHistoryWhole, At
<1> QED BY <1>1, HistoryHolds, PTL

-----------------------------------------------------------------------------
(* The answers to registrations and logins.                                *)

(* The line of the account of j stands in s from the i-th cell. *)
LineOf(s, i, j) ==
    s[i] = j.name /\ s[i + 1] = Colon /\ s[i + 2] = j.password /\ s[i + 3] = Eol

HasLine(s, n, j) == \E i \in 1..n : i + 3 <= n /\ LineOf(s, i, j)

LineRead(s, i, a, b, c, d) == SubSeq(s, i, i + 3) = <<a, b, c, d>>
LineStands(s, i, a, b, c, d) == s[i] = a /\ s[i + 1] = b /\ s[i + 2] = c /\ s[i + 3] = d
StartRead(s, o, a, b, c) == SubSeq(s, o + 1, o + 3) = <<a, b, c>>
StartStands(s, o, a, b, c) == s[o + 1] = a /\ s[o + 2] = b /\ s[o + 3] = c

LEMMA FourCells ==
    ASSUME NEW S, NEW s \in Seq(S), NEW i \in Nat \ {0}, i + 3 <= Len(s), NEW a, NEW b, NEW c, NEW d
    PROVE  LineRead(s, i, a, b, c, d) <=> LineStands(s, i, a, b, c, d)
<1> DEFINE t == SubSeq(s, i, i + 3)
<1>1. \A k \in i..(i + 3) : s[k] \in S
  <2>1. Len(s) \in Nat
    BY LenProperties
  <2>2. \A k \in i..(i + 3) : k \in 1..Len(s)
    BY <2>1
  <2> QED BY <2>2, ElementOfSeq
<1>2. /\ t \in Seq(S) /\ Len(t) = IF i <= i + 3 THEN (i + 3) - i + 1 ELSE 0
      /\ \A k \in 1..((i + 3) - i + 1) : t[k] = s[i + k - 1]
  <2>1. i \in Int /\ i + 3 \in Int
    OBVIOUS
  <2> QED BY <1>1, <2>1, SubSeqProperties
<1> HIDE DEF t
<1>3. Len(t) = 4 /\ t[1] = s[i] /\ t[2] = s[i + 1] /\ t[3] = s[i + 2] /\ t[4] = s[i + 3]
  <2>1. /\ i <= i + 3 /\ (i + 3) - i + 1 = 4 /\ i + 1 - 1 = i /\ i + 2 - 1 = i + 1
        /\ i + 3 - 1 = i + 2 /\ i + 4 - 1 = i + 3
    OBVIOUS
  <2>2. Len(t) = 4 /\ \A k \in 1..4 : t[k] = s[i + k - 1]
    BY <1>2, <2>1
  <2>3. 1 \in 1..4 /\ 2 \in 1..4 /\ 3 \in 1..4 /\ 4 \in 1..4
    OBVIOUS
  <2>4. t[1] = s[i + 1 - 1] /\ t[2] = s[i + 2 - 1] /\ t[3] = s[i + 3 - 1] /\ t[4] = s[i + 4 - 1]
    BY <2>2, <2>3, Zenon
  <2> QED BY <2>1, <2>2, <2>4
<1>4. t = <<t[1], t[2], t[3], t[4]>>
  BY <1>2, <1>3
<1> QED BY <1>3, <1>4 DEF t, LineRead, LineStands

LEMMA ThreeCells ==
    ASSUME NEW S, NEW s \in Seq(S), NEW o \in Nat, o + 3 <= Len(s), NEW a, NEW b, NEW c
    PROVE  /\ SubSeq(s, o + 1, o + 3) # <<>>
           /\ StartRead(s, o, a, b, c) <=> StartStands(s, o, a, b, c)
<1> DEFINE m == o + 1  n == o + 3  t == SubSeq(s, m, n)
<1>0. m \in Int /\ n \in Int /\ n = m + 2 /\ m >= 1 /\ n <= Len(s) /\ m = o + 1
  OBVIOUS
<1> HIDE DEF m, n
<1>1. \A k \in m..n : s[k] \in S
  <2>1. Len(s) \in Nat
    BY LenProperties
  <2>2. \A k \in m..n : k \in 1..Len(s)
    BY <1>0, <2>1
  <2> QED BY <2>2, ElementOfSeq
<1>2. /\ t \in Seq(S) /\ Len(t) = IF m <= n THEN n - m + 1 ELSE 0
      /\ \A k \in 1..(n - m + 1) : t[k] = s[m + k - 1]
  BY <1>0, <1>1, SubSeqProperties
<1> HIDE DEF t
<1>3. Len(t) = 3 /\ t[1] = s[o + 1] /\ t[2] = s[o + 2] /\ t[3] = s[o + 3]
  <2>1. /\ m <= n /\ n - m + 1 = 3 /\ m + 1 - 1 = o + 1 /\ m + 2 - 1 = o + 2
        /\ m + 3 - 1 = o + 3
    BY <1>0
  <2>2. Len(t) = 3 /\ \A k \in 1..3 : t[k] = s[m + k - 1]
    BY <1>2, <2>1
  <2>3. 1 \in 1..3 /\ 2 \in 1..3 /\ 3 \in 1..3
    OBVIOUS
  <2>4. t[1] = s[m + 1 - 1] /\ t[2] = s[m + 2 - 1] /\ t[3] = s[m + 3 - 1]
    BY <2>2, <2>3, Zenon
  <2> QED BY <2>1, <2>2, <2>4
<1>4. t = <<t[1], t[2], t[3]>>
  BY <1>2, <1>3
<1>5. t # <<>> /\ (t = <<a, b, c>> <=> s[o + 1] = a /\ s[o + 2] = b /\ s[o + 3] = c)
  <2>1. t # <<>>
    <3>1. Len(<<>>) = 0
      OBVIOUS
    <3>2. t = <<>> => Len(t) = 0
      BY <3>1, Zenon
    <3> QED BY <1>3, <3>2
  <2>2. t = <<a, b, c>> <=> t[1] = a /\ t[2] = b /\ t[3] = c
    BY <1>4
  <2> QED BY <1>3, <2>1, <2>2
<1> QED BY <1>5 DEF t, m, n, StartRead, StartStands

LEMMA HasIs ==
    ASSUME FilesOk, NEW n \in Nat, n <= Len(users), NEW j PROVE Has(n, j) <=> HasLine(users, n, j)
<1> DEFINE a == j.name  b == j.password  u == users
<1>1. ASSUME NEW i \in 1..n, i + 3 <= n
      PROVE  LineRead(u, i, a, Colon, b, Eol) <=> LineStands(u, i, a, Colon, b, Eol)
  <2> DEFINE S == Name \cup Password \cup {Colon, Eol}
  <2>1. Len(u) \in Nat /\ u \in Seq(S)
    BY LenProperties DEF FilesOk
  <2>2. i + 3 <= Len(u) /\ i \in Nat \ {0}
    BY <1>1, <2>1
  <2> HIDE DEF a, b, u, S
  <2> QED BY <2>1, <2>2, FourCells
<1> QED BY <1>1, Zenon DEF Has, HasLine, LineOf, LineRead, LineStands

(* More lines do not hide an account, nor make one of cells that were there. *)
LEMMA HasLineStays ==
    ASSUME NEW s, NEW t, NEW n \in Nat, NEW m \in Nat, NEW l \in Nat,
           n <= l, n <= m, \A i \in 1..l : t[i] = s[i], NEW j
    PROVE  /\ HasLine(s, n, j) => HasLine(t, m, j)
           /\ HasLine(t, n, j) => HasLine(s, n, j)
<1>1. ASSUME NEW i \in 1..n, i + 3 <= n
      PROVE  LineOf(s, i, j) <=> LineOf(t, i, j)
  <2>1. i \in 1..l /\ i + 1 \in 1..l /\ i + 2 \in 1..l /\ i + 3 \in 1..l
    BY <1>1
  <2> QED BY <2>1 DEF LineOf
<1>2. \A i \in 1..n : i + 3 <= n => i \in 1..m /\ i + 3 <= m
  OBVIOUS
<1> QED BY <1>1, <1>2 DEF HasLine

(* A line of an account begins where a line of the file does. *)
LEMMA LineBegins ==
    ASSUME Lines, FilesOk, NEW i \in Nat \ {0}, i + 3 <= Len(users), NEW j, LineOf(users, i, j)
    PROVE  i % 4 = 1
<1>1. i + 1 \in 1..Len(users) /\ users[i + 1] = Colon
  BY LenProperties DEF FilesOk, LineOf
<1>2. CellAt(i + 1, Colon)
  BY <1>1 DEF Lines
<1>3. Colon \notin Name /\ Colon \notin Password /\ Colon # Eol
  BY FileStoreAssumption
<1>4. (i + 1) % 4 \in 0..3
  OBVIOUS
<1>5. (i + 1) % 4 = 2
  BY <1>2, <1>3, <1>4 DEF CellAt
<1> QED BY <1>5

(* read_line, at the beginning of a line. *)
LEMMA LineReadIs ==
    ASSUME Lines, FilesOk, NEW w, off[w] \in Nat, off[w] % 4 = 0, off[w] <= Len(users), NEW a, NEW b
    PROVE  LET line == SubSeq(users, off[w] + 1, LineEnd(w) - 1) IN
           /\ off[w] = Len(users) => line = <<>>
           /\ off[w] # Len(users) =>
                /\ line # <<>> /\ LineEnd(w) = off[w] + 4 /\ off[w] + 4 <= Len(users)
                /\ users[off[w] + 4] = Eol
                /\ line = <<a, Colon, b>> <=>
                     users[off[w] + 1] = a /\ users[off[w] + 2] = Colon /\ users[off[w] + 3] = b
<1> DEFINE o == off[w]  l == Len(users)
           E == {i \in o + 1 .. l : users[i] = Eol} \cup {l + 1}
<1>1. /\ o \in Nat /\ l \in Nat /\ o <= l /\ o % 4 = 0 /\ l % 4 = 0
      /\ users \in Seq(Name \cup Password \cup {Colon, Eol})
      /\ \A i \in 1..l : CellAt(i, users[i])
  BY LenProperties DEF FilesOk, Lines
<1>2. LineEnd(w) = Min(E)
  BY DEF LineEnd
<1> HIDE DEF o, l
<1>3. E \in SUBSET Nat /\ E # {}
  BY <1>1
<1>4. Min(E) \in E /\ \A i \in E : Min(E) <= i
  BY <1>3, MinIsLeast
<1>5. CASE o = l
  <2>1. E = {l + 1}
    BY <1>1, <1>5
  <2>2. Min(E) = l + 1
    BY <1>4, <2>1
  <2>3. SubSeq(users, o + 1, (l + 1) - 1) = <<>>
    <3>1. o + 1 \in Int /\ (l + 1) - 1 \in Int /\ (l + 1) - 1 < o + 1
      BY <1>1, <1>5
    <3> QED BY <3>1, SubSeqEmpty
  <2> QED BY <1>2, <1>5, <2>2, <2>3 DEF o, l
<1>6. CASE o # l
  <2>1. o + 4 <= l
    BY <1>1, <1>6
  <2>2. /\ o + 1 \in 1..l /\ o + 2 \in 1..l /\ o + 3 \in 1..l /\ o + 4 \in 1..l
        /\ (o + 4) % 4 = 0 /\ (o + 1) % 4 = 1 /\ (o + 2) % 4 = 2 /\ (o + 3) % 4 = 3
    BY <1>1, <2>1, FourIs
  <2>3. /\ users[o + 1] \in Name /\ users[o + 2] = Colon /\ users[o + 3] \in Password
        /\ users[o + 4] = Eol
    BY <1>1, <2>2 DEF CellAt
  <2>4. users[o + 1] # Eol /\ users[o + 2] # Eol /\ users[o + 3] # Eol
    BY <2>3, FileStoreAssumption
  <2>5. o + 4 \in E /\ o + 1 \notin E /\ o + 2 \notin E /\ o + 3 \notin E /\ \A i \in E : i > o
    BY <1>1, <2>1, <2>2, <2>3, <2>4
  <2> DEFINE m == Min(E)
  <2>6. m \in E /\ m \in Nat /\ m <= o + 4 /\ m > o
    BY <1>3, <1>4, <2>5
  <2> HIDE DEF m, E
  <2>7. m = o + 4
    BY <1>1, <2>5, <2>6
  <2>8. LineEnd(w) - 1 = o + 3
    BY <1>1, <1>2, <2>7 DEF m
  <2>9. o + 3 <= Len(users)
    BY <1>1, <2>1 DEF l
  <2>10. /\ SubSeq(users, o + 1, o + 3) # <<>>
         /\ StartRead(users, o, a, Colon, b) <=> StartStands(users, o, a, Colon, b)
    <3> DEFINE S == Name \cup Password \cup {Colon, Eol}
    <3>1. users \in Seq(S)
      BY <1>1
    <3> HIDE DEF S
    <3> QED BY <1>1, <2>9, <3>1, ThreeCells
  <2>11. /\ SubSeq(users, o + 1, o + 3) # <<>>
         /\ SubSeq(users, o + 1, o + 3) = <<a, Colon, b>> <=>
              users[o + 1] = a /\ users[o + 2] = Colon /\ users[o + 3] = b
    BY <2>10, Zenon DEF StartRead, StartStands
  <2> QED BY <1>2, <1>6, <2>1, <2>3, <2>7, <2>8, <2>11 DEF o, l, m
<1> QED BY <1>5, <1>6

(* What the answer to w rests on, while it searches and when it answers. *)
AnswerOk(w) ==
    /\ pc[w] \in {"login", "reply"} /\ job(w).op = "login" => size[w] <= Len(users)
    /\ pc[w] = "login" =>
         off[w] % 4 = 0 /\ off[w] <= Len(users) /\ ~ HasLine(users, off[w], job(w))
    /\ pc[w] = "reply" /\ job(w).op \in {"login", "register"} /\ ok[w] =>
         HasLine(users, Len(users), job(w))
    /\ pc[w] = "reply" /\ job(w).op = "login" /\ ~ ok[w] => ~ HasLine(users, size[w], job(w))

LEMMA AnswerFrame ==
    ASSUME NEW w \in Worker, WorkerOk(w), FilesOk, FilesOk', AnswerOk(w), SameJob(w),
           Grows(users, users')
    PROVE  AnswerOk(w)'
<1>1. job(w)' = job(w) /\ off[w] \in Nat /\ size[w] \in Nat
  BY DEF SameJob, job, WorkerOk
<1> DEFINE u == users  v == users'  j == job(w)  l == Len(users)  k == Len(users')
<1>2. l \in Nat /\ k \in Nat /\ l <= k /\ \A i \in 1..l : v[i] = u[i]
  BY LenProperties DEF FilesOk, Grows
<1>3. /\ pc[w] \in {"login", "reply"} /\ j.op = "login" => size[w] <= l
      /\ pc[w] = "login" => off[w] % 4 = 0 /\ off[w] <= l /\ ~ HasLine(u, off[w], j)
      /\ pc[w] = "reply" /\ j.op \in {"login", "register"} /\ ok[w] => HasLine(u, l, j)
      /\ pc[w] = "reply" /\ j.op = "login" /\ ~ ok[w] => ~ HasLine(u, size[w], j)
  BY DEF AnswerOk
<1> HIDE DEF u, v, j, l, k
<1>4. HasLine(u, l, j) => HasLine(v, k, j)
  <2>1. l <= l
    BY <1>2
  <2> QED BY <1>2, <2>1, HasLineStays
<1>5. off[w] <= l /\ HasLine(v, off[w], j) => HasLine(u, off[w], j)
  BY <1>1, <1>2, HasLineStays
<1>6. size[w] <= l /\ HasLine(v, size[w], j) => HasLine(u, size[w], j)
  BY <1>1, <1>2, HasLineStays
<1>7. /\ pc[w] \in {"login", "reply"} /\ j.op = "login" => size[w] <= k
      /\ pc[w] = "login" => off[w] % 4 = 0 /\ off[w] <= k /\ ~ HasLine(v, off[w], j)
      /\ pc[w] = "reply" /\ j.op \in {"login", "register"} /\ ok[w] => HasLine(v, k, j)
      /\ pc[w] = "reply" /\ j.op = "login" /\ ~ ok[w] => ~ HasLine(v, size[w], j)
  BY <1>1, <1>2, <1>3, <1>4, <1>5, <1>6
<1>8. AnswerOk(w)' <=>
      /\ pc[w] \in {"login", "reply"} /\ j.op = "login" => size[w] <= k
      /\ pc[w] = "login" => off[w] % 4 = 0 /\ off[w] <= k /\ ~ HasLine(v, off[w], j)
      /\ pc[w] = "reply" /\ j.op \in {"login", "register"} /\ ok[w] => HasLine(v, k, j)
      /\ pc[w] = "reply" /\ j.op = "login" /\ ~ ok[w] => ~ HasLine(v, size[w], j)
  <2>1. /\ pc'[w] = pc[w] /\ off'[w] = off[w] /\ ok'[w] = ok[w] /\ size'[w] = size[w]
        /\ job(w)' = job(w)
    BY <1>1 DEF SameJob
  <2> QED BY <2>1 DEF AnswerOk, HasLine, LineOf, v, k, j
<1> QED BY <1>7, <1>8

(* One line is searched. *)
LEMMA NextLineIs ==
    ASSUME Lines, FilesOk, NEW o \in Nat, o % 4 = 0, o + 4 <= Len(users), users[o + 4] = Eol, NEW j
    PROVE  /\ LineOf(users, o + 1, j) =>
                HasLine(users, Len(users), j)
           /\ ~ HasLine(users, o, j) /\ ~ LineOf(users, o + 1, j) => ~ HasLine(users, o + 4, j)
<1>1. Len(users) \in Nat
  BY LenProperties DEF FilesOk
<1>2. o + 1 \in 1..Len(users) /\ o + 1 + 3 <= Len(users)
  BY <1>1
<1>3. ASSUME NEW i \in 1..(o + 4), i + 3 <= o + 4, LineOf(users, i, j)
      PROVE  i = o + 1 \/ (i \in 1..o /\ i + 3 <= o)
  <2>1. i \in Nat \ {0} /\ i + 3 <= Len(users)
    BY <1>1, <1>3
  <2>2. i % 4 = 1
    BY <1>3, <2>1, LineBegins
  <2> QED BY <1>3, <2>1, <2>2
<1> QED BY <1>2, <1>3 DEF HasLine

LEMMA AnswerStep ==
    ASSUME StoreInv, Lines, NEW w \in Worker, AnswerOk(w), JobStep(w) PROVE AnswerOk(w)'
<1>0. WorkerOk(w) /\ FilesOk /\ JobTables /\ WorkerOk(w)' /\ FilesOk'
  BY JobStaysOk, JobWritesFiles DEF StoreInv, FilesGrow
<1> DEFINE j == job(w)
<1>1. job(w)' = j /\ off[w] \in Nat /\ size[w] \in Nat
  BY <1>0, JobFrame DEF job, WorkerOk
<1>2. todo[w] # <<>>
  BY <1>0 DEF JobStep, Begin, Check, AppendAccount, Login, StoreChar, StoreFails, SendPiece,
              SendEnd, Fork, At, Filing, WorkerOk
<1>3. j.op \in Op /\ (pc[w] # "idle" => pc[w] \in StepsOf(j.op))
  BY <1>0, <1>2, JobIs DEF WorkerOk
<1>4. /\ \A x : Goto(w, x) => pc'[w] = x
      /\ \A x : Replies(w, x) => pc'[w] = "reply" /\ ok'[w] = x
  BY <1>0 DEF Goto, Replies, JobTables
<1>5. Len(users) \in Nat
  BY <1>0, LenProperties DEF FilesOk
<1>6. CASE Begin(w)
  <2>1. pc[w] = "idle" /\ UNCHANGED <<users, off, ok>> /\ pc'[w] = FirstStep(j.op)
    BY <1>4, <1>6 DEF Begin, fileVars, At
  <2>2. pc'[w] # "reply" /\ (pc'[w] = "login" => j.op = "login")
    BY <1>3, <2>1 DEF FirstStep, Op
  <2>3. size'[w] = Len(FileRead(j))
    BY <1>0, <1>6 DEF Begin, JobTables
  <2>4. j.op = "login" => size'[w] = Len(users)
    BY <2>3 DEF FileRead
  <2>5. off[w] = 0 /\ ~ HasLine(users, 0, j) /\ 0 % 4 = 0
    BY <1>0, <2>1 DEF WorkerOk, HasLine
  <2> HIDE DEF j
  <2>6. pc'[w] = "login" =>
          size'[w] <= Len(users) /\ off'[w] % 4 = 0 /\ off'[w] <= Len(users)
          /\ ~ HasLine(users, off'[w], j)
    BY <1>5, <2>1, <2>2, <2>4, <2>5
  <2> QED BY <1>1, <2>1, <2>2, <2>6 DEF AnswerOk
<1>7. CASE Login(w)
  <2>1. pc[w] = "login" /\ UNCHANGED <<users, size>> /\ j.op = "login"
    BY <1>3, <1>7, StepsAre DEF Login, fileVars, At
  <2>2. /\ size[w] <= Len(users) /\ off[w] % 4 = 0 /\ off[w] <= Len(users)
        /\ ~ HasLine(users, off[w], j)
    BY <2>1 DEF AnswerOk
  <2> DEFINE line == SubSeq(users, off[w] + 1, LineEnd(w) - 1)
             same == line = <<j.name, Colon, j.password>>
  <2>3. IF line = <<>> \/ same
        THEN pc'[w] = "reply" /\ ok'[w] = same /\ UNCHANGED off
        ELSE pc'[w] = pc[w] /\ off'[w] = LineEnd(w)
    BY <1>0, <1>4, <1>7 DEF Login, JobTables
  <2>4. /\ off[w] = Len(users) => line = <<>>
        /\ off[w] # Len(users) =>
             /\ line # <<>> /\ LineEnd(w) = off[w] + 4 /\ off[w] + 4 <= Len(users)
             /\ users[off[w] + 4] = Eol
             /\ same <=> users[off[w] + 1] = j.name /\ users[off[w] + 2] = Colon
                         /\ users[off[w] + 3] = j.password
    <3> DEFINE n == j.name
               p == j.password
    <3>1. off[w] \in Nat /\ off[w] % 4 = 0 /\ off[w] <= Len(users)
      BY <1>1, <2>2
    <3> HIDE DEF n, p
    <3>2. LET read == SubSeq(users, off[w] + 1, LineEnd(w) - 1) IN
          /\ off[w] = Len(users) => read = <<>>
          /\ off[w] # Len(users) =>
               /\ read # <<>> /\ LineEnd(w) = off[w] + 4 /\ off[w] + 4 <= Len(users)
               /\ users[off[w] + 4] = Eol
               /\ read = <<n, Colon, p>> <=>
                    users[off[w] + 1] = n /\ users[off[w] + 2] = Colon /\ users[off[w] + 3] = p
      BY <1>0, <3>1, LineReadIs, Zenon
    <3> QED BY <3>2, Zenon DEF n, p
  <2>5. ~ (line = <<>> /\ same)
    <3>1. \A a, b, c : <<a, b, c>> # <<>>
      OBVIOUS
    <3> QED BY <3>1, Zenon
  <2> DEFINE o == off[w]
  <2>6. same /\ o # Len(users) <=> LineOf(users, o + 1, j) /\ o # Len(users)
    <3>1. o + 1 + 1 = o + 2 /\ o + 1 + 2 = o + 3 /\ o + 1 + 3 = o + 4
      BY <1>1
    <3> HIDE DEF same, line
    <3> QED BY <2>4, <3>1 DEF LineOf
  <2> HIDE DEF line, same, o, j
  <2>7. CASE o = Len(users)
    <3>1. pc'[w] = "reply" /\ ok'[w] = FALSE
      BY <2>3, <2>4, <2>5, <2>7 DEF o
    <3>2. ~ HasLine(users, size[w], j)
      <4>1. HasLine(users, size[w], j) => HasLine(users, o, j)
        BY <1>1, <1>5, <2>2, <2>7, HasLineStays
      <4> QED BY <2>2, <4>1 DEF o
    <3> QED BY <1>1, <2>1, <2>2, <3>1, <3>2 DEF AnswerOk
  <2>8. CASE o # Len(users)
    <3>1. /\ line # <<>> /\ LineEnd(w) = o + 4 /\ o + 4 <= Len(users) /\ users[o + 4] = Eol
          /\ same <=> LineOf(users, o + 1, j)
      BY <2>4, <2>6, <2>8 DEF o
    <3>2. o \in Nat /\ o % 4 = 0 /\ ~ HasLine(users, o, j)
      BY <1>1, <2>2 DEF o
    <3>3. /\ LineOf(users, o + 1, j) => HasLine(users, Len(users), j)
          /\ ~ LineOf(users, o + 1, j) => ~ HasLine(users, o + 4, j)
      BY <1>0, <3>1, <3>2, NextLineIs
    <3>4. CASE same
      <4>1. pc'[w] = "reply" /\ ok'[w] = TRUE /\ HasLine(users, Len(users), j)
        BY <2>3, <3>1, <3>3, <3>4
      <4> QED BY <1>1, <2>1, <2>2, <4>1 DEF AnswerOk
    <3>5. CASE ~ same
      <4>1. pc'[w] = "login" /\ off'[w] = o + 4 /\ ~ HasLine(users, o + 4, j)
        BY <2>1, <2>3, <3>1, <3>3, <3>5
      <4>2. (o + 4) % 4 = 0
        BY <3>2, FourIs
      <4> QED BY <1>1, <2>1, <2>2, <3>1, <4>1, <4>2 DEF AnswerOk
    <3> QED BY <3>4, <3>5
  <2> QED BY <2>7, <2>8
<1>8. CASE Check(w)
  <2>1. UNCHANGED users /\ j.op = "register" /\ pc[w] = "check" /\ pc'[w] \in {"append", "reply", pc[w]}
        /\ (pc'[w] = "reply" => ok'[w] = FALSE) /\ UNCHANGED size
    BY <1>3, <1>4, <1>8, StepsAre DEF Check, fileVars, At
  <2> QED BY <1>1, <2>1 DEF AnswerOk
<1>9. CASE AppendAccount(w)
  <2>1. j.op = "register" /\ pc'[w] = "reply"
    BY <1>3, <1>4, <1>9, StepsAre DEF AppendAccount, At
  <2>2. CASE UNCHANGED users
    <3>1. ok'[w] = FALSE \/ users' = users \o <<j.name, Colon, j.password, Eol>>
      BY <1>4, <1>9 DEF AppendAccount
    <3>2. users' # users \o <<j.name, Colon, j.password, Eol>>
      <4> DEFINE S == Name \cup Password \cup {Colon, Eol}
      <4>1. j.name \in S /\ j.password \in S /\ Colon \in S /\ Eol \in S /\ users \in Seq(S)
        BY <1>0, <1>2, <2>1, JobIs DEF FilesOk
      <4> HIDE DEF S
      <4>2. Len(users \o <<j.name, Colon, j.password, Eol>>) = Len(users) + 4
        BY <4>1, GrowsLine
      <4> QED BY <1>5, <2>2, <4>2
    <3> QED BY <1>1, <2>1, <3>1, <3>2 DEF AnswerOk
  <2>3. CASE users' = users \o <<j.name, Colon, j.password, Eol>>
    <3> DEFINE S == Name \cup Password \cup {Colon, Eol}  l == Len(users)
    <3>1. j.name \in S /\ j.password \in S /\ Colon \in S /\ Eol \in S /\ users \in Seq(S)
      BY <1>0, <1>2, <2>1, JobIs DEF FilesOk
    <3> HIDE DEF S
    <3>2. /\ Len(users') = l + 4 /\ users'[l + 1] = j.name /\ users'[l + 2] = Colon
          /\ users'[l + 3] = j.password /\ users'[l + 4] = Eol
      BY <2>3, <3>1, GrowsLine
    <3>3. l \in Nat
      BY <1>5
    <3> HIDE DEF l
    <3>4. l + 1 + 1 = l + 2 /\ l + 1 + 2 = l + 3 /\ l + 1 + 3 = l + 4 /\ l + 1 \in 1..(l + 4)
      BY <3>3
    <3>5. LineOf(users', l + 1, j)
      BY <3>2, <3>4 DEF LineOf
    <3>6. HasLine(users', Len(users'), j)
      BY <3>2, <3>3, <3>4, <3>5 DEF HasLine
    <3> HIDE DEF j
    <3>7. HasLine(users', Len(users'), job(w)')
      BY <1>1, <3>6
    <3>8. HasLine(users, Len(users), job(w))'
      BY <3>7 DEF HasLine, LineOf
    <3> QED BY <1>1, <2>1, <3>8 DEF AnswerOk
  <2> QED BY <1>9, <2>2, <2>3 DEF AppendAccount
<1>10. CASE StoreChar(w) \/ StoreFails(w) \/ Fork(w)
  <2>1. j.op \in {"private", "group", "weather"}
    BY <1>3, <1>10, StepsAre DEF StoreChar, StoreFails, Fork, At, Filing
  <2>2. WorkerOk(w)' /\ job(w)' = j
    BY <1>0, <1>1
  <2>3. pc'[w] # "login" /\ j.op \notin {"login", "register"}
    BY <2>1, <2>2 DEF WorkerOk, StepsOf
  <2> HIDE DEF j
  <2> QED BY <1>1, <2>3 DEF AnswerOk
<1>11. CASE SendPiece(w) \/ SendEnd(w)
  <2>1. j.op = "history"
    BY <1>3, <1>11, StepsAre DEF SendPiece, SendEnd, At
  <2>2. pc'[w] # "login" /\ j.op \notin {"login", "register"}
    BY <1>0, <1>1, <2>1 DEF WorkerOk, StepsOf
  <2> HIDE DEF j
  <2> QED BY <1>1, <2>2 DEF AnswerOk
<1> QED BY <1>6, <1>7, <1>8, <1>9, <1>10, <1>11 DEF JobStep

AnswersInv == WholeLines /\ \A w \in Worker : AnswerOk(w)

LEMMA AnswersStay ==
    ASSUME AnswersInv, [Next]_vars PROVE AnswersInv'
<1>0. StoreInv /\ WeatherInv /\ Lines /\ WholeLines' /\ FilesOk
  BY StoreStays, StepIs, LinesStay DEF AnswersInv, WholeLines, Types, StoreInv
<1>1. ASSUME NEW w \in Worker, JobStep(w), NEW v \in Worker PROVE AnswerOk(v)'
  <2>1. CASE v = w
    BY <1>0, <1>1, <2>1, AnswerStep DEF AnswersInv
  <2>2. CASE v # w
    <3>1. SameJob(v) /\ FilesGrow
      BY <1>0, <1>1, <2>2, JobFrame, JobWritesFiles
    <3> QED BY <1>0, <3>1, AnswerFrame DEF FilesGrow, AnswersInv, StoreInv
  <2> QED BY <2>1, <2>2
<1>2. ASSUME NEW W \in SUBSET Worker, JobsEnd(W), NEW v \in Worker PROVE AnswerOk(v)'
  <2>1. CASE v \in W
    <3>1. pc'[v] = "idle"
      BY <1>0, <1>2, <2>1, DropsIs DEF JobsEnd
    <3> QED BY <3>1 DEF AnswerOk
  <2>2. CASE v \notin W
    <3>1. SameJob(v)
      BY <1>0, <1>2, <2>2, DropsIs DEF JobsEnd
    <3>2. FilesOk' /\ Grows(users, users')
      BY <1>0, <1>2, JobsEndGrow
    <3> QED BY <1>0, <3>1, <3>2, AnswerFrame DEF AnswersInv, StoreInv
  <2> QED BY <2>1, <2>2
<1>3. ASSUME UNCHANGED storeVars, NEW v \in Worker PROVE AnswerOk(v)'
  BY <1>3 DEF AnswersInv, AnswerOk, HasLine, LineOf, storeVars, jobVars, fileVars, job
<1>4. \A v \in Worker : AnswerOk(v)'
  BY <1>0, <1>1, <1>2, <1>3, StepIs
<1> QED BY <1>0, <1>4 DEF AnswersInv

(* Who is told that it has an account, or is logged in, has an account; who is
   told that the login failed had none when it asked. *)
THEOREM AnswersAreRight == Spec => []AnswersMatchAccounts
<1>1. Init => AnswersInv
  <2>1. ASSUME Init PROVE Lines /\ \A w \in Worker : AnswerOk(w)
    <3>1. users = <<>> /\ \A w \in Worker : pc[w] = "idle"
      BY <2>1 DEF Init, StoreInit
    <3>2. Len(users) = 0 /\ 0 % 4 = 0 /\ 1..0 = {}
      BY <3>1
    <3> QED BY <3>1, <3>2 DEF Lines, AnswerOk
  <2> QED BY <2>1, StoreStart, WeatherStart DEF Init, Types, WholeLines, AnswersInv
<1>2. ASSUME AnswersInv PROVE AnswersMatchAccounts
  <2>1. ASSUME NEW w \in Worker, pc[w] = "reply"
        PROVE  /\ job(w).op \in {"login", "register"} /\ ok[w] => Has(Len(users), job(w))
               /\ job(w).op = "login" /\ ~ok[w] => ~Has(size[w], job(w))
    <3>1. WorkerOk(w) /\ FilesOk /\ AnswerOk(w) /\ Len(users) \in Nat /\ size[w] \in Nat
      BY <1>2, LenProperties DEF AnswersInv, WholeLines, Types, StoreInv, WorkerOk, FilesOk
    <3>2. Has(Len(users), job(w)) <=> HasLine(users, Len(users), job(w))
      BY <3>1, HasIs
    <3>3. size[w] <= Len(users) => (Has(size[w], job(w)) <=> HasLine(users, size[w], job(w)))
      BY <3>1, HasIs
    <3> QED BY <2>1, <3>1, <3>2, <3>3 DEF AnswerOk
  <2> QED BY <2>1 DEF AnswersMatchAccounts, At
<1>3. AnswersInv /\ [Next]_vars => AnswersInv'
  BY AnswersStay
<1> QED BY <1>1, <1>2, <1>3, PTL DEF Spec

-----------------------------------------------------------------------------
(* The check of a registration: what it has seen of the accounts.          *)

LEMMA MultipleIs ==
    ASSUME NEW p \in Nat \ {0}
    PROVE  0 % p = 0 /\ \A x \in Nat : x % p = 0 => (x + p) % p = 0
<1>1. ASSUME NEW x \in Nat, x % p = 0 PROVE (x + p) % p = 0
  <2>1. PICK q \in Nat : x = p * q
    <3>1. x = p * (x \div p) + (x % p) /\ x \div p \in Nat
      OBVIOUS
    <3>2. p * (x \div p) \in Nat
      BY <3>1
    <3>3. x = p * (x \div p)
      BY <1>1, <3>1, <3>2
    <3> QED BY <3>1, <3>3
  <2>2. PICK k \in Nat : x + p = p * k
    <3>1. q + 1 \in Nat /\ x + p = p * (q + 1)
      BY <2>1
    <3> QED BY <3>1
  <2>3. (p * k) % p = 0
    OBVIOUS
  <2> QED BY <2>2, <2>3, Zenon
<1> QED BY <1>1

LEMMA InLine ==
    ASSUME NEW l \in Nat, l % 4 = 0, NEW i \in 1..l, i % 4 = 1
    PROVE  /\ i + 1 \in 1..l /\ (i + 1) % 4 = 2
           /\ i = 1 \/ (i - 1 \in 1..l /\ (i - 1) % 4 = 0)
OBVIOUS

(* Before its size the file is seen but for names that end a piece; a piece
   that is cut short reaches the end of the file. *)
SeenOk(w) ==
    pc[w] \in {"check", "append"} =>
        /\ size[w] <= Len(users)
        /\ off[w] < size[w] => pc[w] = "check" /\ off[w] % Piece = 0
        /\ \A i \in 1..size[w] : i <= off[w] /\ users[i] = job(w).name => i % Piece = 0

LEMMA SeenFrame ==
    ASSUME NEW w \in Worker, WorkerOk(w), SeenOk(w), SameJob(w), FilesOk, FilesOk',
           Grows(users, users')
    PROVE  SeenOk(w)'
<1> SUFFICES ASSUME pc'[w] \in {"check", "append"} PROVE SeenOk(w)'
  BY DEF SeenOk
<1>1. job(w)' = job(w) /\ pc[w] \in {"check", "append"} /\ size[w] \in Nat
  BY DEF SameJob, job, WorkerOk
<1>2. Len(users) \in Nat /\ Len(users') \in Nat
  BY LenProperties DEF FilesOk
<1>3. Len(users) <= Len(users') /\ \A i \in 1..Len(users) : users'[i] = users[i]
  BY DEF Grows
<1>4. size[w] <= Len(users) /\ \A i \in 1..size[w] : i \in 1..Len(users)
  BY <1>1, <1>2 DEF SeenOk
<1>5. \A i \in 1..size[w] : users'[i] = users[i]
  BY <1>3, <1>4
<1>6. size'[w] <= Len(users')
  BY <1>1, <1>2, <1>3, <1>4 DEF SameJob
<1> QED BY <1>1, <1>5, <1>6 DEF SeenOk, SameJob

LEMMA NamesAre ==
    ASSUME NEW c, NEW n \in Name, NEW i \in DOMAIN c, c[i] = n, i = 1 \/ c[i - 1] = Eol,
           i < Len(c), c[i + 1] = Colon
    PROVE  n \in NamesIn(c)
BY DEF NamesIn

LEMMA SeenStep ==
    ASSUME StoreInv, Lines, NEW w \in Worker, SeenOk(w), JobStep(w) PROVE SeenOk(w)'
<1>0. WorkerOk(w) /\ FilesOk /\ JobTables
  BY DEF StoreInv
<1> SUFFICES ASSUME pc'[w] \in {"check", "append"} PROVE SeenOk(w)'
  BY DEF SeenOk
<1>1. job(w)' = job(w) /\ off[w] \in Nat /\ size[w] \in Nat
  BY <1>0, JobFrame DEF job, WorkerOk
<1>2. todo[w] # <<>>
  BY <1>0 DEF JobStep, Begin, Check, AppendAccount, Login, StoreChar, StoreFails, SendPiece,
              SendEnd, Fork, At, Filing, WorkerOk
<1>3. job(w).op \in Op /\ (pc[w] # "idle" => pc[w] \in StepsOf(job(w).op))
  BY <1>0, <1>2, JobIs DEF WorkerOk
<1>4. /\ \A x : Goto(w, x) => pc'[w] = x
      /\ \A x : Replies(w, x) => pc'[w] = "reply"
  BY <1>0 DEF Goto, Replies, JobTables
<1>5. Len(users) \in Nat /\ Piece \in Nat \ {0}
  BY <1>0, LenProperties, FileStoreAssumption DEF FilesOk
<1>6. Begin(w) \/ Check(w)
  <2>1. ~ (AppendAccount(w) \/ Login(w) \/ StoreChar(w) \/ StoreFails(w) \/ SendPiece(w)
           \/ SendEnd(w) \/ Fork(w))
    BY <1>4 DEF AppendAccount, Login, StoreChar, StoreFails, SendPiece, SendEnd, Fork, At,
                Filing, NextCopy
  <2> QED BY <2>1 DEF JobStep
<1>7. UNCHANGED users
  BY <1>6 DEF Begin, Check, fileVars
<1>8. CASE Begin(w)
  <2>1. pc[w] = "idle" /\ UNCHANGED off /\ pc'[w] = FirstStep(job(w).op)
    BY <1>4, <1>8 DEF Begin, At
  <2>2. size'[w] = Len(FileRead(job(w)))
    BY <1>0, <1>8 DEF Begin, JobTables
  <2>3. pc'[w] = "check" /\ job(w).op = "register"
    BY <1>3, <2>1 DEF FirstStep, Op
  <2>4. size'[w] = Len(users) /\ off[w] = 0
    BY <1>0, <2>1, <2>2, <2>3 DEF FileRead, WorkerOk
  <2>5. 0 % Piece = 0
    BY <1>5, MultipleIs
  <2> QED BY <1>1, <1>5, <1>7, <2>1, <2>3, <2>4, <2>5 DEF SeenOk
<1>9. CASE Check(w)
  <2> DEFINE n == job(w).name  c == ReadBy(w, users)  o == off[w]  z == size[w]  u == users
  <2>1. pc[w] = "check" /\ UNCHANGED size
    BY <1>9 DEF Check, At
  <2>2. /\ z <= Len(u) /\ (o < z => o % Piece = 0)
        /\ \A i \in 1..z : i <= o /\ u[i] = n => i % Piece = 0
    BY <2>1 DEF SeenOk
  <2>3. n \in Name
    BY <1>0, <1>2, <1>3, <2>1, JobIs, StepsAre
  <2>4. /\ off'[w] = o + Len(c)
        /\ c = <<>> \/ (n \notin NamesIn(c) /\ pc'[w] = "check")
    BY <1>0, <1>4, <1>9, <2>1 DEF Check, JobTables
  <2>5. /\ Len(c) \in Nat /\ DOMAIN c = 1..Len(c) /\ Len(c) <= Piece
        /\ \A i \in 1..Len(c) : o + i \in 1..Len(u) /\ c[i] = u[o + i]
        /\ (c = <<>>) <=> (Len(u) <= o)
        /\ Len(c) = Piece \/ Len(u) <= o + Len(c)
    <3> DEFINE S == Name \cup Password \cup {Colon, Eol}
    <3>1. u \in Seq(S) /\ c = ReadBy(w, u)
      BY <1>0 DEF FilesOk
    <3> HIDE DEF S, u, c
    <3>0. off[w] \in Nat
      BY <1>1
    <3>2. /\ c \in Seq(S) /\ Len(c) \in Nat /\ DOMAIN c = 1..Len(c) /\ Len(c) <= Piece
          /\ \A i \in 1..Len(c) : off[w] + i \in 1..Len(u) /\ c[i] = u[off[w] + i]
          /\ (c = <<>>) <=> (Len(u) <= off[w])
          /\ off[w] <= Len(u) => off[w] + Len(c) <= Len(u)
          /\ Len(c) = Piece \/ Len(u) <= off[w] + Len(c)
      BY <3>0, <3>1, ReadIs, SMTT(30)
    <3> QED BY <3>2
  <2> DEFINE k == Len(c)
  <2>6. \A i \in 1..Len(u) : CellAt(i, u[i])
    BY DEF Lines
  <2>7. Len(u) % 4 = 0
    BY DEF Lines
  <2>8. o \in Nat /\ z \in Nat /\ Len(u) \in Nat /\ u' = u
    BY <1>1, <1>5, <1>7
  <2>9. ASSUME NEW i \in 1..z, i <= o + k, u[i] = n PROVE i % Piece = 0
    <3>1. CASE i <= o
      BY <2>2, <2>9, <3>1
    <3>2. CASE ~ (i <= o)
      <4> DEFINE m == i - o
      <4>1. m \in 1..k /\ i = o + m /\ i \in 1..Len(u) /\ k \in Nat
        BY <2>2, <2>5, <2>8, <2>9, <3>2
      <4>2. i % 4 = 1
        <5>1. CellAt(i, n) /\ i \in Nat /\ i % 4 \in 0..3
          BY <2>6, <2>9, <4>1
        <5> QED BY <2>3, <5>1, FileStoreAssumption DEF CellAt
      <4>3. i + 1 \in 1..Len(u) /\ (i + 1) % 4 = 2
        BY <2>7, <2>8, <4>1, <4>2, InLine
      <4>4. u[i + 1] = Colon
        BY <2>6, <4>3 DEF CellAt
      <4>5. i = 1 \/ (i - 1 \in 1..Len(u) /\ u[i - 1] = Eol)
        <5>1. i = 1 \/ (i - 1 \in 1..Len(u) /\ (i - 1) % 4 = 0)
          BY <2>7, <2>8, <4>1, <4>2, InLine
        <5> QED BY <2>6, <5>1 DEF CellAt
      <4>6. c[m] = n /\ m \in DOMAIN c
        BY <2>5, <2>9, <4>1
      <4>7. m = 1 \/ c[m - 1] = Eol
        <5>1. CASE m = 1
          BY <5>1
        <5>2. CASE m # 1
          <6>1. m - 1 \in 1..k /\ o + (m - 1) = i - 1 /\ i # 1
            BY <2>8, <4>1, <5>2
          <6>2. c[m - 1] = u[o + (m - 1)]
            BY <2>5, <6>1
          <6>3. c[m - 1] = u[i - 1]
            BY <6>1, <6>2
          <6> QED BY <4>5, <6>1, <6>3
        <5> QED BY <5>1, <5>2
      <4>8. c # <<>>
        BY <2>5, <2>8, <4>1
      <4>9. m = k
        <5>1. SUFFICES ASSUME m # k PROVE FALSE
          OBVIOUS
        <5>2. m < k /\ m + 1 \in 1..k /\ o + (m + 1) = i + 1
          BY <2>8, <4>1, <5>1
        <5>3. c[m + 1] = Colon
          BY <2>5, <4>4, <5>2
        <5> HIDE DEF m, c, n
        <5>4. n \in NamesIn(c)
          BY <2>3, <4>6, <4>7, <5>2, <5>3, NamesAre
        <5> QED BY <2>4, <4>8, <5>4
      <4>10. k = Piece
        BY <2>5, <2>8, <4>1, <4>3, <4>9
      <4>11. o % Piece = 0
        BY <2>2, <2>8, <2>9, <3>2
      <4>12. (o + Piece) % Piece = 0
        BY <1>5, <2>8, <4>11, MultipleIs
      <4> QED BY <4>1, <4>9, <4>10, <4>12
    <3> QED BY <3>1, <3>2
  <2>10. ASSUME off'[w] < z PROVE pc'[w] = "check" /\ off'[w] % Piece = 0
    <3>1. off'[w] = o + k /\ k \in Nat /\ o + k < z /\ z <= Len(u)
      BY <2>2, <2>4, <2>5, <2>10
    <3>2. c # <<>> /\ k = Piece /\ o < z
      BY <2>5, <2>8, <3>1
    <3>3. (o + Piece) % Piece = 0
      BY <1>5, <2>2, <2>8, <3>2, MultipleIs
    <3> QED BY <2>4, <3>1, <3>2, <3>3
  <2>11. \A i \in 1..z : i <= off'[w] /\ u[i] = n => i % Piece = 0
    BY <2>4, <2>9
  <2> HIDE DEF n
  <2>12. /\ size'[w] <= Len(users')
         /\ off'[w] < size'[w] => pc'[w] = "check" /\ off'[w] % Piece = 0
         /\ \A i \in 1..size'[w] : i <= off'[w] /\ users'[i] = n => i % Piece = 0
    BY <2>1, <2>2, <2>8, <2>10, <2>11
  <2> QED BY <1>1, <2>12 DEF SeenOk, n
<1> QED BY <1>6, <1>8, <1>9

SeenInv == WholeLines /\ \A w \in Worker : SeenOk(w)

LEMMA SeenStays ==
    ASSUME SeenInv, [Next]_vars PROVE SeenInv'
<1>0. StoreInv /\ WeatherInv /\ Lines /\ WholeLines' /\ FilesOk
  BY StoreStays, StepIs, LinesStay DEF SeenInv, WholeLines, Types, StoreInv
<1>1. ASSUME NEW w \in Worker, JobStep(w), NEW v \in Worker PROVE SeenOk(v)'
  <2>1. CASE v = w
    BY <1>0, <1>1, <2>1, SeenStep DEF SeenInv
  <2>2. CASE v # w
    <3>1. SameJob(v) /\ FilesGrow
      BY <1>0, <1>1, <2>2, JobFrame, JobWritesFiles
    <3> QED BY <1>0, <3>1, SeenFrame DEF FilesGrow, SeenInv, StoreInv
  <2> QED BY <2>1, <2>2
<1>2. ASSUME NEW W \in SUBSET Worker, JobsEnd(W), NEW v \in Worker PROVE SeenOk(v)'
  <2>1. CASE v \in W
    <3>1. pc'[v] = "idle"
      BY <1>0, <1>2, <2>1, DropsIs DEF JobsEnd
    <3> QED BY <3>1 DEF SeenOk
  <2>2. CASE v \notin W
    <3>1. SameJob(v)
      BY <1>0, <1>2, <2>2, DropsIs DEF JobsEnd
    <3>2. FilesOk' /\ Grows(users, users')
      BY <1>0, <1>2, JobsEndGrow
    <3> QED BY <1>0, <3>1, <3>2, SeenFrame DEF SeenInv, StoreInv
  <2> QED BY <2>1, <2>2
<1>3. ASSUME UNCHANGED storeVars, NEW v \in Worker PROVE SeenOk(v)'
  BY <1>3 DEF SeenInv, SeenOk, storeVars, jobVars, fileVars, job
<1>4. \A v \in Worker : SeenOk(v)'
  BY <1>0, <1>1, <1>2, <1>3, StepIs
<1> QED BY <1>0, <1>4 DEF SeenInv

(* A registration goes on to write only if no account of the name was there
   when it began, but for one whose name ends a piece. *)
THEOREM LaterSeesEarlier == Spec => []LaterRegistrationSeesEarlier
<1>1. Init => SeenInv
  <2>1. ASSUME Init PROVE Lines /\ \A w \in Worker : SeenOk(w)
    <3>1. users = <<>> /\ \A w \in Worker : pc[w] = "idle"
      BY <2>1 DEF Init, StoreInit
    <3>2. Len(users) = 0 /\ 0 % 4 = 0 /\ 1..0 = {}
      BY <3>1
    <3> QED BY <3>1, <3>2 DEF Lines, SeenOk
  <2> QED BY <2>1, StoreStart, WeatherStart DEF Init, Types, WholeLines, SeenInv
<1>2. ASSUME SeenInv PROVE LaterRegistrationSeesEarlier
  <2>1. ASSUME NEW w \in Worker, pc[w] = "append", NEW i \in 1..size[w], users[i] = job(w).name
        PROVE  i % Piece = 0
    <3>1. SeenOk(w) /\ off[w] \in Nat /\ size[w] \in Nat
      BY <1>2 DEF SeenInv, WholeLines, Types, StoreInv, WorkerOk
    <3>2. ~ (off[w] < size[w])
      BY <2>1, <3>1 DEF SeenOk
    <3>3. i <= off[w]
      BY <3>1, <3>2
    <3> QED BY <2>1, <3>1, <3>3 DEF SeenOk
  <2> QED BY <2>1 DEF LaterRegistrationSeesEarlier, At
<1>3. SeenInv /\ [Next]_vars => SeenInv'
  BY SeenStays
<1> QED BY <1>1, <1>2, <1>3, PTL DEF Spec

-----------------------------------------------------------------------------
(* The files of messages: what stands in them of each call of              *)
(* store_message.                                                          *)

InOrder(f, id) ==
    \A i, j \in DOMAIN f : i < j /\ f[i].id = id /\ f[j].id = id => f[i].part < f[j].part

(* The first k parts of id stand in f, each once. *)
Begun(f, id, k) == PartsOf(f, id) = 1..k /\ InOrder(f, id)

LEMMA BegunNone ==
    ASSUME NEW f \in Seq(Cell), NEW id, \A i \in DOMAIN f : f[i].id # id PROVE Begun(f, id, 0)
BY DEF Begun, PartsOf, InOrder

LEMMA AppendedIs ==
    ASSUME NEW f \in Seq(Cell), NEW x \in Cell, NEW g, g = Append(f, x)
    PROVE  /\ Len(f) \in Nat /\ DOMAIN f = 1..Len(f) /\ DOMAIN g = 1..(Len(f) + 1)
           /\ \A i \in DOMAIN f : i \in DOMAIN g /\ g[i] = f[i] /\ i < Len(f) + 1
           /\ g[Len(f) + 1] = x /\ Len(f) + 1 \in DOMAIN g
           /\ \A i \in DOMAIN g : i \in DOMAIN f \/ i = Len(f) + 1
<1>1. /\ g \in Seq(Cell) /\ Len(f) \in Nat /\ Len(g) = Len(f) + 1
      /\ \A i \in 1..Len(f) : g[i] = f[i]
      /\ g[Len(f) + 1] = x
  <2>1. /\ Append(f, x) \in Seq(Cell) /\ Len(f) \in Nat /\ Len(Append(f, x)) = Len(f) + 1
        /\ \A i \in 1..Len(f) : Append(f, x)[i] = f[i]
        /\ Append(f, x)[Len(f) + 1] = x
    BY AppendIs, Zenon
  <2> QED BY <2>1, Zenon
<1>2. DOMAIN f = 1..Len(f) /\ DOMAIN g = 1..Len(g)
  BY <1>1, LenProperties
<1>3. \A i \in 1..Len(f) : i \in 1..(Len(f) + 1) /\ i < Len(f) + 1
  BY <1>1
<1>4. Len(f) + 1 \in 1..(Len(f) + 1) /\ \A i \in 1..(Len(f) + 1) : i \in 1..Len(f) \/ i = Len(f) + 1
  BY <1>1
<1> QED BY <1>1, <1>2, <1>3, <1>4

LEMMA BegunOther ==
    ASSUME NEW f \in Seq(Cell), NEW x \in Cell, NEW id, x.id # id, NEW k, Begun(f, id, k)
    PROVE  Begun(Append(f, x), id, k)
<1> DEFINE g == Append(f, x)  m == Len(f) + 1
<1>1. /\ \A i \in DOMAIN f : i \in DOMAIN g /\ g[i] = f[i]
      /\ g[m] = x
      /\ \A i \in DOMAIN g : i \in DOMAIN f \/ i = m
  BY AppendedIs
<1> HIDE DEF g, m
<1>2. PartsOf(g, id) = PartsOf(f, id)
  BY <1>1 DEF PartsOf
<1>3. InOrder(g, id)
  BY <1>1 DEF Begun, InOrder
<1> QED BY <1>2, <1>3 DEF Begun, g

LEMMA BegunOwn ==
    ASSUME NEW f \in Seq(Cell), NEW x \in Cell, NEW k \in Nat, x.part = k + 1, Begun(f, x.id, k)
    PROVE  Begun(Append(f, x), x.id, k + 1)
<1> DEFINE g == Append(f, x)  m == Len(f) + 1  id == x.id
<1>1. /\ \A i \in DOMAIN f : i \in DOMAIN g /\ g[i] = f[i] /\ i < m
      /\ g[m] = x /\ m \in DOMAIN g /\ m \in Nat
      /\ DOMAIN f \subseteq Nat
      /\ \A i \in DOMAIN g : i \in DOMAIN f \/ i = m
  BY AppendedIs
<1> HIDE DEF g, m
<1>2. PartsOf(g, id) = PartsOf(f, id) \cup {k + 1}
  BY <1>1 DEF PartsOf
<1>3. PartsOf(g, id) = 1..(k + 1)
  BY <1>2 DEF Begun
<1>4. InOrder(g, id)
  <2>1. ASSUME NEW i \in DOMAIN g, NEW j \in DOMAIN g, i < j, g[i].id = id, g[j].id = id
        PROVE  g[i].part < g[j].part
    <3>1. i \in DOMAIN f
      BY <1>1, <2>1
    <3>2. CASE j \in DOMAIN f
      BY <1>1, <2>1, <3>1, <3>2 DEF Begun, InOrder
    <3>3. CASE j = m
      <4>1. f[i].part \in PartsOf(f, id)
        BY <1>1, <2>1, <3>1 DEF PartsOf
      <4>2. f[i].part \in 1..k
        BY <4>1 DEF Begun
      <4> QED BY <1>1, <3>1, <3>3, <4>2
    <3> QED BY <1>1, <3>2, <3>3
  <2> QED BY <2>1 DEF InOrder
<1> QED BY <1>3, <1>4 DEF Begun, g

(* Of every call of which something stands in f a beginning does. *)
AllBegun(f) == \A i \in DOMAIN f : \E k \in 0..Width : Begun(f, f[i].id, k)

LEMMA AllBegunMore ==
    ASSUME NEW f \in Seq(Cell), AllBegun(f), NEW x \in Cell, NEW k \in Nat, x.part = k + 1,
           Begun(f, x.id, k)
    PROVE  AllBegun(Append(f, x))
<1> DEFINE g == Append(f, x)  m == Len(f) + 1
<1>1. /\ \A i \in DOMAIN f : g[i] = f[i]
      /\ g[m] = x
      /\ \A i \in DOMAIN g : i \in DOMAIN f \/ i = m
  BY AppendedIs
<1>2. Begun(g, x.id, k + 1) /\ k + 1 \in 0..Width
  <2>1. k + 1 \in 1..Width /\ Width \in Nat
    BY FileStoreAssumption DEF Cell
  <2>2. k + 1 \in 0..Width
    BY <2>1
  <2> QED BY <2>2, BegunOwn
<1>3. ASSUME NEW i \in DOMAIN f PROVE \E l \in 0..Width : Begun(g, f[i].id, l)
  <2>1. PICK l \in 0..Width : Begun(f, f[i].id, l)
    BY DEF AllBegun
  <2>2. CASE f[i].id = x.id
    BY <1>2, <2>2
  <2>3. CASE f[i].id # x.id
    BY <2>1, <2>3, BegunOther
  <2> QED BY <2>2, <2>3
<1> HIDE DEF g, m
<1>4. \A i \in DOMAIN g : \E l \in 0..Width : Begun(g, g[i].id, l)
  BY <1>1, <1>2, <1>3
<1> QED BY <1>4 DEF AllBegun, g

(* The calls that w has made: those of its jobs that are over, and of the job
   in hand the copies it has come to. *)
Made(w, id) ==
    \/ Len(todo[w]) < id[2]
    \/ /\ id[2] = Len(todo[w])
       /\ id[3] = "file" => pc[w] \in {"file", "fileOwn", "deliver"}
       /\ id[3] = "fileOwn" => pc[w] \in {"fileOwn", "deliver"}

(* The copies of the private message in hand that are filed, and where. *)
Filed(w) ==
    IF pc[w] = "fileOwn" THEN {"file"}
    ELSE IF pc[w] = "deliver" /\ job(w).op = "private" THEN Filing ELSE {}
CopyFor(w, copy) == IF copy = "file" THEN job(w).to ELSE job(w).name

MadeOnly(w) ==
    \A n \in Box : \A i \in DOMAIN box[n] : box[n][i].id[1] = w => Made(w, box[n][i].id)

CopiesOk(w) ==
    \A copy \in Filed(w) :
        LET id == <<w, Len(todo[w]), copy>> IN
        id \in failed \/ Begun(box[CopyFor(w, copy)], id, Width)

FilingOk(w) ==
    /\ pc[w] \notin Filing => index[w] = 0
    /\ MadeOnly(w)
    /\ pc[w] \in Filing => Begun(box[FiledFor(w)], IdOf(w), index[w])
    /\ CopiesOk(w)

(* What a step of w does to the files of messages: nothing, or one cell more. *)
LEMMA BoxStep ==
    ASSUME StoreInv, NEW w \in Worker, JobStep(w)
    PROVE  /\ failed \subseteq failed'
           /\ \/ UNCHANGED box
              \/ /\ StoreChar(w) /\ FiledFor(w) \in Box /\ index[w] \in Nat
                 /\ [id |-> IdOf(w), part |-> index[w] + 1] \in Cell
                 /\ box'[FiledFor(w)] =
                      Append(box[FiledFor(w)], [id |-> IdOf(w), part |-> index[w] + 1])
                 /\ \A n \in Box : n # FiledFor(w) => box'[n] = box[n]
<1>0. WorkerOk(w) /\ FilesOk /\ JobTables
  BY DEF StoreInv
<1>1. failed \subseteq failed'
  BY DEF JobStep, Begin, Check, AppendAccount, Login, StoreChar, StoreFails, SendPiece, SendEnd, Fork
<1>2. CASE ~ StoreChar(w)
  <2>1. UNCHANGED box
    BY <1>2 DEF JobStep, Begin, Check, AppendAccount, Login, StoreFails, SendPiece, SendEnd, Fork, fileVars
  <2> QED BY <1>1, <2>1
<1>3. CASE StoreChar(w)
  <2>1. pc[w] \in Filing
    BY <1>3 DEF StoreChar
  <2>2. todo[w] # <<>> /\ pc[w] \in StepsOf(job(w).op)
    BY <1>0, <2>1 DEF WorkerOk, Filing
  <2>3. IdOf(w) \in Id
    <3>1. Len(todo[w]) \in Nat
      BY <1>0, LenProperties DEF WorkerOk
    <3> QED BY <2>1, <3>1 DEF IdOf, Id, Filing
  <2>4. FiledFor(w) \in Box
    <3>1. job(w).op \in {"private", "group"}
      BY <1>0, <2>1, <2>2, JobIs, StepsAre DEF Filing
    <3> QED BY <1>0, <2>2, <3>1, JobIs DEF FiledFor, Box
  <2>5. index[w] + 1 \in 1..Width /\ index[w] \in Nat
    BY <1>0, FileStoreAssumption DEF WorkerOk
  <2>6. [id |-> IdOf(w), part |-> index[w] + 1] \in Cell
    BY <2>3, <2>5 DEF Cell
  <2> DEFINE n == FiledFor(w)  x == [id |-> IdOf(w), part |-> index[w] + 1]
  <2>7. box' = [box EXCEPT ![n] = Append(@, x)]
    BY <1>3 DEF StoreChar
  <2> HIDE DEF n, x
  <2>8. box'[n] = Append(box[n], x) /\ \A m \in Box : m # n => box'[m] = box[m]
    BY <1>0, <2>4, <2>7 DEF FilesOk, n
  <2> QED BY <1>1, <1>3, <2>4, <2>5, <2>6, <2>8 DEF n, x
<1> QED BY <1>2, <1>3

(* A step of w leaves the other calls of store_message alone. *)
LEMMA BegunFrame ==
    ASSUME StoreInv, NEW w \in Worker, JobStep(w), NEW id, id # IdOf(w), NEW n \in Box, NEW k,
           Begun(box[n], id, k)
    PROVE  Begun(box'[n], id, k)
<1>1. CASE box'[n] = box[n]
  BY <1>1
<1>2. CASE /\ [id |-> IdOf(w), part |-> index[w] + 1] \in Cell
           /\ box'[n] = Append(box[n], [id |-> IdOf(w), part |-> index[w] + 1])
  <2> DEFINE x == [id |-> IdOf(w), part |-> index[w] + 1]
  <2>1. x.id # id
    <3>1. x.id = IdOf(w)
      OBVIOUS
    <3> QED BY <3>1
  <2>2. box[n] \in Seq(Cell) /\ x \in Cell /\ box'[n] = Append(box[n], x)
    BY <1>2 DEF StoreInv, FilesOk
  <2> HIDE DEF x
  <2> QED BY <2>1, <2>2, BegunOther
<1> QED BY <1>1, <1>2, BoxStep

(* The cells of a worker's calls, after a step of another or of its own. *)
LEMMA CellsAfter ==
    ASSUME StoreInv, NEW w \in Worker, JobStep(w), NEW n \in Box, NEW i \in DOMAIN box'[n]
    PROVE  \/ i \in DOMAIN box[n] /\ box'[n][i] = box[n][i]
           \/ StoreChar(w) /\ box'[n][i].id = IdOf(w)
<1>1. CASE box'[n] = box[n]
  BY <1>1
<1>2. CASE /\ StoreChar(w) /\ [id |-> IdOf(w), part |-> index[w] + 1] \in Cell
           /\ box'[n] = Append(box[n], [id |-> IdOf(w), part |-> index[w] + 1])
  <2> DEFINE x == [id |-> IdOf(w), part |-> index[w] + 1]
             f == box[n]
             g == box'[n]
             d == IdOf(w)
  <2>1. f \in Seq(Cell) /\ x \in Cell /\ g = Append(f, x) /\ x.id = d /\ i \in DOMAIN g
    BY <1>2 DEF StoreInv, FilesOk
  <2> HIDE DEF x, f, g, d
  <2>2. (i \in DOMAIN f /\ g[i] = f[i]) \/ g[i] = x
    BY <2>1, AppendedIs
  <2> QED BY <1>2, <2>1, <2>2 DEF f, g, d
<1> QED BY <1>1, <1>2, BoxStep

LEMMA CopyForIs ==
    ASSUME NEW w \in Worker, WorkerOk(w), NEW copy \in Filed(w)
    PROVE  CopyFor(w, copy) \in Box /\ copy \in Filing
<1>1. todo[w] # <<>>
  BY DEF Filed, WorkerOk
<1>2. pc[w] = "fileOwn" => job(w).op = "private"
  BY <1>1, JobIs, StepsAre DEF WorkerOk
<1> QED BY <1>1, <1>2, JobIs DEF Filed, CopyFor, Box, Filing

LEMMA FiledForIs ==
    ASSUME NEW w \in Worker, WorkerOk(w), pc[w] \in Filing
    PROVE  FiledFor(w) \in Box /\ todo[w] # <<>> /\ job(w).op \in {"private", "group"}
<1>1. todo[w] # <<>> /\ pc[w] \in StepsOf(job(w).op)
  BY DEF WorkerOk, Filing
<1>2. job(w).op \in {"private", "group"}
  BY <1>1, JobIs, StepsAre DEF Filing
<1> QED BY <1>1, <1>2, JobIs DEF FiledFor, Box

LEMMA FilingFrame ==
    ASSUME StoreInv, NEW w \in Worker, JobStep(w), NEW v \in Worker, v # w, FilingOk(v)
    PROVE  FilingOk(v)'
<1>0. SameJob(v) /\ WorkerOk(v) /\ failed \subseteq failed'
  BY JobFrame, BoxStep DEF StoreInv
<1>1. job(v)' = job(v) /\ FiledFor(v)' = FiledFor(v) /\ IdOf(v)' = IdOf(v) /\ Filed(v)' = Filed(v)
      /\ \A copy : CopyFor(v, copy)' = CopyFor(v, copy)
  BY <1>0 DEF SameJob, job, FiledFor, IdOf, Filed, CopyFor, At
<1>2. MadeOnly(v)'
  <2>1. ASSUME NEW n \in Box, NEW i \in DOMAIN box'[n], box'[n][i].id[1] = v
        PROVE  Made(v, box[n][i].id)'
    <3>1. CASE i \in DOMAIN box[n] /\ box'[n][i] = box[n][i]
      <4>1. Made(v, box[n][i].id)
        BY <2>1, <3>1 DEF FilingOk, MadeOnly
      <4> QED BY <1>0, <3>1, <4>1 DEF Made, SameJob
    <3>2. CASE box'[n][i].id = IdOf(w)
      BY <2>1, <3>2 DEF IdOf
    <3> QED BY <3>1, <3>2, CellsAfter
  <2> QED BY <2>1 DEF MadeOnly
<1>3. ASSUME pc[v] \in Filing PROVE Begun(box[FiledFor(v)], IdOf(v), index[v])'
  <2>1. FiledFor(v) \in Box /\ IdOf(v) # IdOf(w) /\ Begun(box[FiledFor(v)], IdOf(v), index[v])
    BY <1>0, <1>3, FiledForIs DEF IdOf, FilingOk
  <2>2. Begun(box'[FiledFor(v)], IdOf(v), index[v])
    BY <2>1, BegunFrame
  <2> QED BY <1>0, <1>1, <2>2 DEF SameJob
<1>4. CopiesOk(v)'
  <2>1. ASSUME NEW copy \in Filed(v)
        PROVE  \/ <<v, Len(todo[v]), copy>> \in failed'
               \/ Begun(box'[CopyFor(v, copy)], <<v, Len(todo[v]), copy>>, Width)
    <3> DEFINE id == <<v, Len(todo[v]), copy>>
    <3>1. id \in failed \/ Begun(box[CopyFor(v, copy)], id, Width)
      BY DEF FilingOk, CopiesOk
    <3>2. id # IdOf(w) /\ CopyFor(v, copy) \in Box
      BY <1>0, CopyForIs DEF IdOf
    <3> HIDE DEF id
    <3>3. id \in failed' \/ Begun(box'[CopyFor(v, copy)], id, Width)
      BY <1>0, <3>1, <3>2, BegunFrame
    <3> QED BY <3>3 DEF id
  <2> QED BY <1>0, <1>1, <2>1 DEF CopiesOk, SameJob
<1> QED BY <1>0, <1>2, <1>3, <1>4 DEF FilingOk, SameJob

LEMMA FilingStep ==
    ASSUME StoreInv, NEW w \in Worker, JobStep(w), FilingOk(w) PROVE FilingOk(w)'
<1>0. WorkerOk(w) /\ FilesOk /\ JobTables /\ todo' = todo /\ job(w)' = job(w) /\ WorkerOk(w)'
      /\ failed \subseteq failed'
  BY JobFrame, JobStaysOk, BoxStep DEF StoreInv, job
<1>1. todo[w] # <<>>
  BY <1>0 DEF JobStep, Begin, Check, AppendAccount, Login, StoreChar, StoreFails, SendPiece,
              SendEnd, Fork, At, Filing, WorkerOk
<1>2. job(w).op \in Op /\ (pc[w] # "idle" => pc[w] \in StepsOf(job(w).op))
      /\ pc'[w] \in StepsOf(job(w).op) \cup {"idle"}
  BY <1>0, <1>1, JobIs DEF WorkerOk
<1>3. /\ \A x : Goto(w, x) => pc'[w] = x
      /\ \A x : Replies(w, x) => pc'[w] = "reply"
  BY <1>0 DEF Goto, Replies, JobTables
<1>4. CASE pc[w] \notin Filing
  <2>1. pc[w] \notin {"file", "fileOwn"} /\ ~ StoreChar(w) /\ ~ StoreFails(w)
    BY <1>4 DEF StoreChar, StoreFails, Filing
  <2>2. UNCHANGED <<box, index>>
    BY <2>1 DEF JobStep, Begin, Check, AppendAccount, Login, SendPiece, SendEnd, Fork, fileVars, jobVars
  <2>3. index[w] = 0 /\ MadeOnly(w)
    BY <1>4 DEF FilingOk
  <2>4. CASE Begin(w)
    <3>1. pc[w] = "idle" /\ pc'[w] = FirstStep(job(w).op)
      BY <1>3, <2>4 DEF Begin, At
    <3>2. pc'[w] # "idle" /\ pc'[w] \notin {"fileOwn", "deliver"}
      BY <1>2, <3>1 DEF FirstStep, Op
    <3>3. \A n \in Box : \A i \in DOMAIN box[n] :
            box[n][i].id[1] = w => Len(todo[w]) < box[n][i].id[2]
      <4>1. ASSUME NEW n \in Box, NEW i \in DOMAIN box[n], box[n][i].id[1] = w
            PROVE  Len(todo[w]) < box[n][i].id[2]
        <5>1. box[n][i] \in Cell
          BY <1>0, ElementOfSeq, LenProperties DEF FilesOk
        <5>2. box[n][i].id[3] \in {"file", "fileOwn"}
          BY <5>1 DEF Cell, Id
        <5>3. Made(w, box[n][i].id)
          BY <2>3, <4>1 DEF MadeOnly
        <5> QED BY <3>1, <5>2, <5>3 DEF Made
      <4> QED BY <4>1
    <3>4. MadeOnly(w)'
      BY <1>0, <2>2, <3>3 DEF MadeOnly, Made
    <3>5. ASSUME pc'[w] \in Filing PROVE Begun(box[FiledFor(w)], IdOf(w), index[w])'
      <4> DEFINE f == box'[FiledFor(w)']
                 id == IdOf(w)'
      <4>1. FiledFor(w)' \in Box
        <5>1. pc'[w] \in StepsOf(job(w).op) /\ pc'[w] \in {"file", "fileOwn"}
          BY <1>2, <3>5 DEF Filing
        <5>2. job(w).op # "history"
          BY <1>2, <5>1, StepsAre
        <5>3. job(w).name \in Name /\ job(w).to \in Name
          BY <1>0, <1>1, <5>2, JobIs
        <5> QED BY <1>0, <5>3 DEF FiledFor, Box
      <4>2. id[1] = w /\ id[2] = Len(todo[w]) /\ Len(todo[w]) \in Nat
        BY <1>0, LenProperties DEF IdOf, WorkerOk
      <4>3. f \in Seq(Cell)
        BY <1>0, <2>2, <4>1 DEF FilesOk
      <4>4. \A i \in DOMAIN f : f[i].id # id
        BY <2>2, <3>3, <4>1, <4>2
      <4> HIDE DEF f, id
      <4>5. Begun(f, id, 0)
        BY <4>3, <4>4, BegunNone
      <4> QED BY <2>2, <2>3, <4>5 DEF f, id
    <3>6. CopiesOk(w)'
      BY <3>2 DEF CopiesOk, Filed
    <3> QED BY <2>2, <2>3, <3>4, <3>5, <3>6 DEF FilingOk
  <2>5. CASE ~ Begin(w)
    <3>1. pc[w] \notin {"idle", "deliver"} /\ pc'[w] \notin Filing /\ pc'[w] # "idle"
      BY <1>3, <2>1, <2>5 DEF JobStep, Check, AppendAccount, Login, SendPiece, SendEnd, Fork, At,
                              Filing
    <3>2. pc'[w] = "deliver" => job(w).op = "weather"
      <4>1. pc'[w] = "deliver" => Fork(w)
        BY <1>3, <2>1, <2>5, <3>1 DEF JobStep, Check, AppendAccount, Login, SendPiece, SendEnd, At
      <4>2. Fork(w) => "fork" \in StepsOf(job(w).op)
        BY <1>2 DEF Fork, At
      <4> QED BY <1>2, <4>1, <4>2, StepsAre
    <3>3. \A id : Made(w, id) => Made(w, id)'
      BY <1>0, <2>1, <3>1 DEF Made
    <3>4. MadeOnly(w)'
      BY <2>2, <2>3, <3>3 DEF MadeOnly
    <3>5. CopiesOk(w)'
      BY <1>0, <3>1, <3>2 DEF CopiesOk, Filed, Filing
    <3> QED BY <2>2, <2>3, <3>1, <3>4, <3>5 DEF FilingOk
  <2> QED BY <2>4, <2>5
<1>5. CASE pc[w] \in Filing
  <2>1. StoreChar(w) \/ StoreFails(w)
    BY <1>5 DEF JobStep, Begin, Check, AppendAccount, Login, SendPiece, SendEnd, Fork, At, Filing
  <2> DEFINE n == FiledFor(w)  id == IdOf(w)  k == index[w]
  <2>2. n \in Box /\ job(w).op \in {"private", "group"}
    BY <1>0, <1>5, FiledForIs
  <2>3. /\ k \in Nat /\ k < Width /\ Begun(box[n], id, k) /\ box[n] \in Seq(Cell)
        /\ MadeOnly(w) /\ CopiesOk(w) /\ Width \in Nat \ {0}
    BY <1>0, <1>5, <2>2, FileStoreAssumption DEF FilingOk, WorkerOk, FilesOk
  <2>4. id = <<w, Len(todo[w]), pc[w]>> /\ pc[w] \in {"file", "fileOwn"}
    BY <1>5 DEF IdOf, Filing
  <2>5. pc[w] = "fileOwn" => job(w).op = "private"
    BY <1>2, <2>4, StepsAre
  <2>6. /\ NextCopy(w) = "fileOwn" => pc[w] = "file" /\ job(w).op = "private"
        /\ NextCopy(w) \in {"fileOwn", "deliver"}
        /\ NextCopy(w) = "deliver" /\ job(w).op = "private" => pc[w] = "fileOwn"
    BY <2>4 DEF NextCopy, At
  <2>7. n = IF job(w).op = "private" THEN CopyFor(w, pc[w]) ELSE All
    BY <2>2, <2>4 DEF FiledFor, CopyFor, At
  <2>8. pc'[w] = pc[w] \/ pc'[w] = NextCopy(w)
    BY <1>3, <2>1 DEF StoreChar, StoreFails
  <2>9. \A x : Made(w, x) => Made(w, x)'
    BY <1>0, <2>4, <2>6, <2>8 DEF Made
  <2>10. MadeOnly(w)'
    <3>1. ASSUME NEW m \in Box, NEW i \in DOMAIN box'[m], box'[m][i].id[1] = w
          PROVE  Made(w, box[m][i].id)'
      <4>1. CASE i \in DOMAIN box[m] /\ box'[m][i] = box[m][i]
        <5>1. Made(w, box[m][i].id)
          BY <2>3, <3>1, <4>1 DEF MadeOnly
        <5>2. Made(w, box[m][i].id) => \/ Len(todo'[w]) < box[m][i].id[2]
               \/ /\ box[m][i].id[2] = Len(todo'[w])
                  /\ box[m][i].id[3] = "file" => pc'[w] \in {"file", "fileOwn", "deliver"}
                  /\ box[m][i].id[3] = "fileOwn" => pc'[w] \in {"fileOwn", "deliver"}
          BY <2>9 DEF Made
        <5> QED BY <4>1, <5>1, <5>2 DEF Made
      <4>2. CASE box'[m][i].id = id
        BY <1>0, <2>4, <2>6, <2>8, <4>2 DEF Made
      <4> QED BY <4>1, <4>2, CellsAfter
    <3> QED BY <3>1 DEF MadeOnly
  <2> HIDE DEF id, n, k
  (* The copy in hand, and the one before it, when the step is over. *)
  <2>11. /\ pc'[w] = pc[w] => Begun(box'[n], id, index'[w]) /\ index'[w] = k + 1
         /\ pc'[w] # pc[w] => index'[w] = 0 /\ (id \in failed' \/ Begun(box'[n], id, Width))
    <3>1. CASE StoreFails(w)
      <4>1. failed' = failed \cup {id} /\ index'[w] = 0 /\ pc'[w] = NextCopy(w)
        BY <1>0, <1>3, <3>1 DEF StoreFails, JobTables, id
      <4>2. pc'[w] # pc[w]
        BY <2>4, <2>6, <4>1
      <4> QED BY <4>1, <4>2
    <3>2. CASE StoreChar(w)
      <4> DEFINE x == [id |-> id, part |-> k + 1]
      <4>1. ~ (UNCHANGED box) => x \in Cell /\ box'[n] = Append(box[n], x)
        BY BoxStep, Zenon DEF id, n, k
      <4>2. x \in Cell /\ box'[n] = Append(box[n], x)
        <5>1. box' = [box EXCEPT ![n] = Append(@, x)]
          BY <3>2, Zenon DEF StoreChar, id, n, k
        <5>2. box'[n] = Append(box[n], x)
          BY <1>0, <2>2, <5>1 DEF FilesOk
        <5>3. id \in Id /\ k + 1 \in 1..Width
          <6>1. Len(todo[w]) \in Nat
            BY <1>0, LenProperties DEF WorkerOk
          <6> QED BY <2>3, <2>4, <6>1 DEF Id
        <5>4. x \in Cell
          BY <5>3 DEF Cell
        <5> QED BY <5>2, <5>4
      <4>3. x.id = id /\ x.part = k + 1
        OBVIOUS
      <4> HIDE DEF x
      <4>4. Begun(box'[n], id, k + 1)
        BY <2>3, <4>2, <4>3, BegunOwn
      <4>5. IF k + 1 = Width THEN pc'[w] = NextCopy(w) /\ index'[w] = 0
            ELSE index'[w] = k + 1 /\ pc'[w] = pc[w]
        BY <1>0, <1>3, <3>2 DEF StoreChar, JobTables, k
      <4>6. NextCopy(w) # pc[w]
        BY <2>4, <2>6
      <4> QED BY <4>4, <4>5, <4>6
    <3> QED BY <2>1, <3>1, <3>2
  <2>12. /\ pc'[w] = pc[w] => FiledFor(w)' = n /\ IdOf(w)' = id
         /\ \A copy : CopyFor(w, copy)' = CopyFor(w, copy)
    BY <1>0 DEF FiledFor, IdOf, CopyFor, At, id, n, k
  <2>a. ASSUME pc[w] = "fileOwn"
        PROVE  \/ <<w, Len(todo[w]), "file">> \in failed'
               \/ Begun(box'[CopyFor(w, "file")], <<w, Len(todo[w]), "file">>, Width)
    <3> DEFINE a == <<w, Len(todo[w]), "file">>  m == CopyFor(w, "file")
    <3>1. a \in failed \/ Begun(box[m], a, Width)
      BY <2>3, <2>a DEF CopiesOk, Filed
    <3>2. a # id
      BY <2>4, <2>a
    <3>3. m \in Box
      BY <1>0, <2>a, CopyForIs DEF Filed
    <3> HIDE DEF a, m
    <3>4. Begun(box[m], a, Width) => Begun(box'[m], a, Width)
      BY <1>5, <2>3, <3>2, <3>3, BegunFrame DEF id
    <3> QED BY <1>0, <3>1, <3>4 DEF a, m
  <2>13. CASE pc'[w] = pc[w]
    <3>1. Begun(box[FiledFor(w)], IdOf(w), index[w])'
      BY <2>11, <2>12, <2>13
    <3>2. CopiesOk(w)'
      BY <1>0, <2>4, <2>12, <2>13, <2>a DEF CopiesOk, Filed
    <3> QED BY <1>5, <2>10, <2>13, <3>1, <3>2 DEF FilingOk
  <2>14. CASE pc'[w] # pc[w]
    <3>1. pc'[w] = NextCopy(w) /\ index'[w] = 0 /\ (id \in failed' \/ Begun(box'[n], id, Width))
      BY <2>8, <2>11, <2>14
    <3>2. CASE NextCopy(w) = "fileOwn"
      <4>1. pc[w] = "file" /\ job(w).op = "private" /\ pc'[w] = "fileOwn"
        BY <2>6, <3>1, <3>2
      <4> DEFINE own == <<w, Len(todo[w]), "fileOwn">>  m == job(w).name
      <4>2. FiledFor(w)' = m /\ IdOf(w)' = own
        BY <1>0, <4>1 DEF FiledFor, IdOf, At
      <4>3. m \in Box
        BY <1>0, <1>1, JobIs
      <4>4. \A i \in DOMAIN box'[m] : box'[m][i].id # own
        <5>1. ~ Made(w, own) /\ own[1] = w
          <6>1. Len(todo[w]) \in Nat
            BY <1>0, LenProperties DEF WorkerOk
          <6> QED BY <4>1, <6>1 DEF Made
        <5>2. \A i \in DOMAIN box[m] : box[m][i].id # own
          BY <2>3, <4>3, <5>1 DEF MadeOnly
        <5>3. id # own
          BY <2>4, <4>1
        <5> HIDE DEF own, m
        <5> QED BY <4>3, <5>2, <5>3, CellsAfter DEF id
      <4>5. box'[m] \in Seq(Cell)
        BY <4>3, JobWritesFiles DEF FilesGrow, FilesOk
      <4> HIDE DEF own, m
      <4>6. Begun(box'[m], own, 0)
        BY <4>4, <4>5, BegunNone
      <4>7. Begun(box[FiledFor(w)], IdOf(w), index[w])'
        BY <3>1, <4>2, <4>6
      <4>8. CopiesOk(w)'
        BY <1>0, <2>4, <2>7, <2>12, <3>1, <4>1 DEF CopiesOk, Filed
      <4> QED BY <2>10, <4>1, <4>7, <4>8 DEF FilingOk, Filing
    <3>3. CASE NextCopy(w) = "deliver"
      <4>1. ASSUME job(w).op = "private", NEW copy \in Filing
            PROVE  \/ <<w, Len(todo[w]), copy>> \in failed'
                   \/ Begun(box'[CopyFor(w, copy)], <<w, Len(todo[w]), copy>>, Width)
        <5>1. pc[w] = "fileOwn"
          BY <2>6, <3>3, <4>1
        <5>2. CASE copy = "file"
          BY <2>a, <5>1, <5>2
        <5>3. CASE copy = "fileOwn"
          BY <2>4, <2>7, <3>1, <4>1, <5>1, <5>3
        <5> QED BY <4>1, <5>2, <5>3 DEF Filing
      <4>2. CopiesOk(w)'
        BY <1>0, <2>12, <3>1, <3>3, <4>1 DEF CopiesOk, Filed
      <4> QED BY <2>10, <3>1, <3>3, <4>2 DEF FilingOk, Filing
    <3> QED BY <2>6, <3>2, <3>3
  <2> QED BY <2>13, <2>14
<1> QED BY <1>4, <1>5

StoredInv ==
    /\ Types
    /\ \A n \in Box : AllBegun(box[n])
    /\ \A w \in Worker : FilingOk(w)

(* Jobs end, and a call of a job that is over is not made again. *)
LEMMA FilingEnds ==
    ASSUME StoreInv, NEW W \in SUBSET Worker, JobsEnd(W), NEW v \in Worker, FilingOk(v)
    PROVE  FilingOk(v)'
<1>0. /\ box' = box /\ failed' = failed /\ WorkerOk(v) /\ JobTables /\ Drops(W)
  BY DEF JobsEnd, StoreInv, fileVars
<1>1. CASE v \in W
  <2>1. /\ pc'[v] = "idle" /\ index'[v] = 0
        /\ todo'[v] = IF pc[v] # "idle" THEN Tail(todo[v]) ELSE todo[v]
    BY <1>0, <1>1 DEF Drops
  <2>2. Len(todo[v]) \in Nat /\ Len(todo'[v]) \in Nat
        /\ IF pc[v] # "idle" THEN Len(todo'[v]) < Len(todo[v]) ELSE Len(todo'[v]) = Len(todo[v])
    <3>1. CASE pc[v] = "idle"
      <4>1. Len(todo[v]) \in Nat
        BY <1>0, LenProperties DEF WorkerOk
      <4> QED BY <2>1, <3>1, <4>1
    <3>2. CASE pc[v] # "idle"
      <4>1. todo[v] \in Seq(Job) /\ todo[v] # <<>>
        BY <1>0, <3>2 DEF WorkerOk
      <4> DEFINE l == Tail(todo[v])
      <4>2. Len(todo[v]) \in Nat \ {0} /\ Len(l) = Len(todo[v]) - 1
        BY <4>1, TailIs
      <4>3. todo'[v] = l
        BY <2>1, <3>2
      <4> HIDE DEF l
      <4> QED BY <3>2, <4>2, <4>3
    <3> QED BY <3>1, <3>2
  <2>3. ASSUME NEW n \in Box, NEW i \in DOMAIN box[n], box[n][i].id[1] = v
        PROVE  Made(v, box[n][i].id)'
    <3> DEFINE id == box[n][i].id
    <3>1. box[n][i] \in Cell
      BY <1>0, ElementOfSeq, LenProperties DEF StoreInv, FilesOk
    <3>2. id[2] \in Nat /\ id[3] \in {"file", "fileOwn"} /\ id' = id
      BY <1>0, <3>1 DEF Cell, Id
    <3>3. Made(v, id)
      BY <2>3 DEF FilingOk, MadeOnly
    <3> HIDE DEF id
    <3>4. Len(todo'[v]) < id[2] \/ (id[2] = Len(todo[v]) /\ pc[v] # "idle")
      BY <2>2, <3>2, <3>3 DEF Made
    <3>5. Len(todo'[v]) < id[2]
      BY <2>2, <3>2, <3>4
    <3>6. Made(v, id)'
      BY <3>2, <3>5 DEF Made
    <3> QED BY <3>6 DEF id
  <2>4. MadeOnly(v)'
    BY <1>0, <2>3 DEF MadeOnly
  <2> QED BY <2>1, <2>4 DEF FilingOk, Filing, CopiesOk, Filed
<1>2. CASE v \notin W
  <2>1. SameJob(v)
    BY <1>0, <1>2, DropsIs
  <2> QED BY <1>0, <2>1 DEF SameJob, FilingOk, MadeOnly, Made, CopiesOk, Filed, CopyFor, FiledFor,
                            IdOf, At, job
<1> QED BY <1>1, <1>2

LEMMA StoredStays ==
    ASSUME StoredInv, [Next]_vars PROVE StoredInv'
<1>0. StoreInv /\ WeatherInv /\ Types' /\ FilesOk
  BY StoreStays, StepIs DEF StoredInv, Types, StoreInv
<1>1. ASSUME NEW w \in Worker, JobStep(w)
      PROVE  (\A n \in Box : AllBegun(box'[n])) /\ \A v \in Worker : FilingOk(v)'
  <2>1. \A v \in Worker : FilingOk(v)'
    BY <1>0, <1>1, FilingStep, FilingFrame DEF StoredInv
  <2>2. ASSUME NEW n \in Box PROVE AllBegun(box'[n])
    <3>1. CASE box'[n] = box[n]
      BY <3>1 DEF StoredInv
    <3>2. CASE box'[n] # box[n]
      <4> DEFINE x == [id |-> IdOf(w), part |-> index[w] + 1]
      <4>1. /\ pc[w] \in Filing /\ n = FiledFor(w) /\ index[w] \in Nat
            /\ x \in Cell /\ box'[n] = Append(box[n], x)
        BY <1>0, <1>1, <3>2, BoxStep DEF StoreChar
      <4>2. Begun(box[n], IdOf(w), index[w]) /\ box[n] \in Seq(Cell) /\ AllBegun(box[n])
        BY <1>0, <4>1 DEF StoredInv, FilingOk, FilesOk
      <4>3. x.id = IdOf(w) /\ x.part = index[w] + 1
        OBVIOUS
      <4> HIDE DEF x
      <4> QED BY <4>1, <4>2, <4>3, AllBegunMore
    <3> QED BY <3>1, <3>2
  <2> QED BY <2>1, <2>2
<1>2. ASSUME NEW W \in SUBSET Worker, JobsEnd(W)
      PROVE  (\A n \in Box : AllBegun(box'[n])) /\ \A v \in Worker : FilingOk(v)'
  <2>1. \A v \in Worker : FilingOk(v)'
    BY <1>0, <1>2, FilingEnds DEF StoredInv
  <2>2. UNCHANGED box
    BY <1>2 DEF JobsEnd, fileVars
  <2> QED BY <2>1, <2>2 DEF StoredInv
<1>3. CASE UNCHANGED storeVars
  <2>1. UNCHANGED <<box, todo, pc, index, failed>>
    BY <1>3 DEF storeVars, jobVars, fileVars
  <2>2. \A v \in Worker : FilingOk(v)'
    BY <2>1 DEF StoredInv, FilingOk, MadeOnly, Made, CopiesOk, Filed, CopyFor, FiledFor, IdOf, At, job
  <2> QED BY <1>0, <2>1, <2>2 DEF StoredInv
<1> QED BY <1>0, <1>1, <1>2, <1>3, StepIs DEF StoredInv

LEMMA StoredHolds == Spec => []StoredInv
<1>1. Init => StoredInv
  <2>1. ASSUME Init PROVE (\A n \in Box : AllBegun(box[n])) /\ \A w \in Worker : FilingOk(w)
    <3>1. /\ \A n \in Box : box[n] = <<>>
          /\ \A w \in Worker : pc[w] = "idle" /\ index[w] = 0
      BY <2>1 DEF Init, StoreInit
    <3>2. \A n \in Box : DOMAIN box[n] = {}
      BY <3>1
    <3> QED BY <3>1, <3>2 DEF AllBegun, FilingOk, MadeOnly, CopiesOk, Filed, Filing
  <2> QED BY <2>1, StoreStart, WeatherStart DEF Init, Types, StoredInv
<1> QED BY <1>1, StoredStays, PTL DEF Spec

(* Of a message there is always a beginning in the file, in order and once,
   whatever others write to it at the same time and wherever the server is
   killed. *)
THEOREM MessagesAreNotOverwritten == Spec => []NothingOverwritten
<1>1. ASSUME StoredInv PROVE NothingOverwritten
  <2>1. ASSUME NEW n \in Box, NEW i \in DOMAIN box[n]
        PROVE  LET cell == box[n][i] IN
               /\ 1..cell.part \subseteq PartsOf(box[n], cell.id)
               /\ \A j \in DOMAIN box[n] :
                    i < j /\ box[n][j].id = cell.id => cell.part < box[n][j].part
    <3> DEFINE f == box[n]  id == f[i].id
    <3>1. PICK k \in 0..Width : Begun(f, id, k)
      BY <1>1 DEF StoredInv, AllBegun
    <3>2. f[i].part \in PartsOf(f, id)
      BY DEF PartsOf
    <3>3. f[i].part \in 1..k /\ k \in Nat
      BY <3>1, <3>2, FileStoreAssumption DEF Begun
    <3>4. 1..f[i].part \subseteq 1..k
      BY <3>3
    <3> QED BY <3>1, <3>4 DEF Begun, InOrder
  <2> QED BY <2>1 DEF NothingOverwritten
<1> QED BY <1>1, StoredHolds, PTL

(* When a private message is forwarded it is whole in both files, unless a
   write failed. *)
THEOREM PrivateIsFiledForBoth == Spec => []FiledForBoth
<1>1. ASSUME StoredInv PROVE FiledForBoth
  <2>1. ASSUME NEW w \in Worker, pc[w] = "deliver", job(w).op = "private", NEW copy \in Filing
        PROVE  LET id == <<w, Len(todo[w]), copy>> IN
               id \in failed \/ PartsOf(box[CopyFor(w, copy)], id) = 1..Width
    BY <1>1, <2>1 DEF StoredInv, FilingOk, CopiesOk, Filed, Begun
  <2> QED BY <2>1 DEF FiledForBoth, CopyFor, At
<1> QED BY <1>1, StoredHolds, PTL
=============================================================================
