----------------------------- MODULE FileStore -----------------------------
(***************************************************************************)
(* The files of accounts and messages (user.c), as the workers of the      *)
(* server use them: with no lock, a step for each read or write.           *)
(*                                                                         *)
(* A file is a sequence of cells, a cell being what the properties tell    *)
(* apart: users.txt has a name, a colon, a password and an end of line for *)
(* each account; a line of a message file has Width cells, marked with the *)
(* call of store_message that writes it.  A read of at most Piece cells    *)
(* stands for one of 1023 bytes.                                           *)
(*                                                                         *)
(* Names hold no colon, and none is "users": such an account would share   *)
(* its message file with the accounts.  A write to a file may fail; one    *)
(* that writes less than it was given is left out.                         *)
(***************************************************************************)
EXTENDS Naturals, Sequences, SequencesExt, FiniteSets, FiniteSetsExt

CONSTANTS
    Worker, Name, Password,
    All,          \* the name of the group's file, ALL
    Colon, Eol,   \* the two characters that users.txt is parsed by
    Width,        \* cells of a stored message
    Piece,        \* cells that one read returns at most
    Prefix,       \* cells that "[... chat history] " takes in an answer
    Scripts,      \* the jobs the workers may get: one of them is played
    MaxCrashes    \* a bound: how often the server is killed and restarted

Op == {"register", "login", "private", "group", "history", "weather"}

(* What a worker is asked: name is the account, or the sender, or the file
   whose history is wanted; to is the receiver of a private message. *)
Job == [op : Op, name : Name \cup {All}, password : Password, to : Name]

ASSUME FileStoreAssumption ==
    /\ All \notin Name
    /\ Name \cap Password = {}
    /\ {Colon, Eol} \cap (Name \cup Password) = {} /\ Colon # Eol
    /\ Width \in Nat \ {0}
    /\ Prefix \in Nat /\ Piece \in Nat /\ Prefix < Piece
    /\ Scripts \subseteq [Worker -> Seq(Job)]
    /\ \A s \in Scripts, w \in Worker : \A i \in DOMAIN s[w] :
         s[w][i].op # "history" => s[w][i].name \in Name
    /\ MaxCrashes \in Nat

VARIABLES
    users,    \* users.txt
    box,      \* box[n]: the message file of n
    todo,     \* todo[w]: the jobs w has, the one in hand first
    pc,       \* pc[w]: where w is in its job
    off,      \* off[w]: how far w has read the file it reads
    index,    \* index[w]: how many cells of its line w has written
    ok,       \* ok[w]: what the function called returns
    size,     \* history variable: how long that file was when the job began
    at,       \* history variable: the places of the cells w has sent as history
    shown,    \* history variable: those cells
    failed,   \* history variable: calls of store_message in which a write failed
    crashes

jobVars == <<todo, off, index, ok, size, at, shown>>
fileVars == <<users, box>>
storeVars == <<fileVars, jobVars, pc, failed, crashes>>

Label == {"idle", "check", "append", "login", "file", "fileOwn", "deliver",
          "history", "fork", "reply"}

(* A call of store_message: the job, and whether it files for the sender. *)
Id == Worker \X Nat \X {"file", "fileOwn"}
Box == Name \cup {All}
Cell == [id : Id, part : 1..Width]

StoreTypeOK ==
    /\ users \in Seq(Name \cup Password \cup {Colon, Eol})
    /\ box \in [Box -> Seq(Cell)]
    /\ todo \in [Worker -> Seq(Job)]
    /\ pc \in [Worker -> Label]
    /\ \A w \in Worker : pc[w] # "idle" => todo[w] # <<>>
    /\ off \in [Worker -> Nat]
    /\ index \in [Worker -> 0..Width]
    /\ ok \in [Worker -> BOOLEAN]
    /\ size \in [Worker -> Nat]
    /\ at \in [Worker -> Seq(Nat)]
    /\ shown \in [Worker -> Seq(Cell)]
    /\ failed \in SUBSET Id
    /\ crashes \in 0..MaxCrashes

StoreInit ==
    /\ users = <<>>
    /\ box = [n \in Box |-> <<>>]
    /\ todo \in Scripts
    /\ pc = [w \in Worker |-> "idle"]
    /\ off = [w \in Worker |-> 0]
    /\ index = [w \in Worker |-> 0]
    /\ ok = [w \in Worker |-> FALSE]
    /\ size = [w \in Worker |-> 0]
    /\ at = [w \in Worker |-> <<>>]
    /\ shown = [w \in Worker |-> <<>>]
    /\ failed = {}
    /\ crashes = 0

At(w, label) == pc[w] = label
Goto(w, label) == pc' = [pc EXCEPT ![w] = label]
job(w) == todo[w][1]
Replies(w, yes) == ok' = [ok EXCEPT ![w] = yes] /\ Goto(w, "reply")

(* What read returns to w, which has read up to off[w]. *)
ReadBy(w, file) == SubSeq(file, off[w] + 1, Min({off[w] + Piece, Len(file)}))

FirstStep(op) ==
    CASE op = "register" -> "check"
      [] op = "login" -> "login"
      [] op \in {"private", "group"} -> "file"
      [] op = "history" -> "history"
      [] op = "weather" -> "fork"

FileRead(j) == IF j.op = "history" THEN box[j.name] ELSE users

Begin(w) ==
    /\ At(w, "idle")
    /\ todo[w] # <<>>
    /\ Goto(w, FirstStep(job(w).op))
    /\ size' = [size EXCEPT ![w] = Len(FileRead(job(w)))]
    /\ UNCHANGED <<fileVars, todo, off, index, ok, at, shown, failed, crashes>>

(* The jobs of the workers W are over, and their locals are gone. *)
Drops(W) ==
    /\ off' = [v \in Worker |-> IF v \in W THEN 0 ELSE off[v]]
    /\ index' = [v \in Worker |-> IF v \in W THEN 0 ELSE index[v]]
    /\ ok' = [v \in Worker |-> IF v \in W THEN FALSE ELSE ok[v]]
    /\ size' = [v \in Worker |-> IF v \in W THEN 0 ELSE size[v]]
    /\ at' = [v \in Worker |-> IF v \in W THEN <<>> ELSE at[v]]
    /\ shown' = [v \in Worker |-> IF v \in W THEN <<>> ELSE shown[v]]
    /\ todo' = [v \in Worker |-> IF v \in W /\ pc[v] # "idle" THEN Tail(todo[v]) ELSE todo[v]]
    /\ pc' = [v \in Worker |-> IF v \in W THEN "idle" ELSE pc[v]]

(* The answer is written, or the messages are forwarded; the job is done. *)
End(w) ==
    /\ pc[w] \in {"reply", "deliver"}
    /\ Drops({w})
    /\ UNCHANGED <<fileVars, failed, crashes>>

-----------------------------------------------------------------------------
(* register_user                                                           *)

(* The names that strtok_r and strchr find in a piece of users.txt: what
   stands before the colon of each line that the piece shows. *)
NamesIn(piece) ==
    {n \in Name : \E i \in DOMAIN piece :
        /\ piece[i] = n
        /\ i = 1 \/ piece[i - 1] = Eol
        /\ i < Len(piece) /\ piece[i + 1] = Colon}

(* Mutant: one read instead of the loop. *)
Check_FirstPiece(w) ==
    /\ At(w, "check")
    /\ LET piece == ReadBy(w, users) IN
         IF job(w).name \in NamesIn(piece)
         THEN Replies(w, FALSE)
         ELSE Goto(w, "append") /\ UNCHANGED ok
    /\ UNCHANGED <<fileVars, todo, off, index, size, at, shown, failed, crashes>>

Check(w) ==
    /\ At(w, "check")
    /\ LET piece == ReadBy(w, users) IN
         /\ IF piece = <<>> THEN Goto(w, "append") /\ UNCHANGED ok
            ELSE IF job(w).name \in NamesIn(piece) THEN Replies(w, FALSE)
            ELSE UNCHANGED <<pc, ok>>
         /\ off' = [off EXCEPT ![w] = @ + Len(piece)]
    /\ UNCHANGED <<fileVars, todo, index, size, at, shown, failed, crashes>>

(* Mutant: the line is written in two parts. *)
AppendAccount_InParts(w) ==
    /\ At(w, "append")
    /\ IF index[w] = 0
       THEN /\ users' = users \o <<job(w).name, Colon>>
            /\ index' = [index EXCEPT ![w] = 1]
            /\ UNCHANGED <<pc, ok>>
       ELSE /\ users' = users \o <<job(w).password, Eol>>
            /\ Replies(w, TRUE)
            /\ UNCHANGED index
    /\ UNCHANGED <<box, todo, off, size, at, shown, failed, crashes>>

(* The line goes to the end of the file in one write (O_APPEND), which may
   fail, as the open before it may. *)
AppendAccount(w) ==
    /\ At(w, "append")
    /\ \/ /\ users' = users \o <<job(w).name, Colon, job(w).password, Eol>>
          /\ Replies(w, TRUE)
       \/ Replies(w, FALSE) /\ UNCHANGED users
    /\ UNCHANGED <<box, todo, off, index, size, at, shown, failed, crashes>>

-----------------------------------------------------------------------------
(* login_user: read_line returns the characters up to the end of the line. *)

LineEnd(w) == Min({i \in off[w] + 1 .. Len(users) : users[i] = Eol} \cup {Len(users) + 1})

(* Mutant: the search ends at the first line that is another account's. *)
Login_FirstLine(w) ==
    /\ At(w, "login")
    /\ Replies(w, SubSeq(users, off[w] + 1, LineEnd(w) - 1)
                     = <<job(w).name, Colon, job(w).password>>)
    /\ UNCHANGED <<fileVars, todo, off, index, size, at, shown, failed, crashes>>

(* An empty line ends the loop as the end of the file does. *)
Login(w) ==
    /\ At(w, "login")
    /\ LET line == SubSeq(users, off[w] + 1, LineEnd(w) - 1)
           same == line = <<job(w).name, Colon, job(w).password>>
       IN IF line = <<>> \/ same
          THEN Replies(w, same) /\ UNCHANGED off
          ELSE off' = [off EXCEPT ![w] = LineEnd(w)] /\ UNCHANGED <<pc, ok>>
    /\ UNCHANGED <<fileVars, todo, index, size, at, shown, failed, crashes>>

-----------------------------------------------------------------------------
(* store_message: a write for each character.  A private message is filed  *)
(* for the receiver and then for the sender, a group message for ALL; what *)
(* the function returns is not looked at.                                  *)

Filing == {"file", "fileOwn"}
IdOf(w) == <<w, Len(todo[w]), pc[w]>>

(* Mutant: the sender's copy goes to the receiver too. *)
FiledFor_Receiver(w) ==
    IF job(w).op = "group" THEN All ELSE job(w).to

FiledFor(w) ==
    IF job(w).op = "group" THEN All
    ELSE IF At(w, "file") THEN job(w).to ELSE job(w).name

NextCopy(w) == IF At(w, "file") /\ job(w).op = "private" THEN "fileOwn" ELSE "deliver"

(* Mutants: the loop also writes the character that ends the string; the
   file is not opened with O_APPEND, so each call writes from its start. *)
StoreChar_AndNul(w) ==
    /\ pc[w] \in Filing
    /\ box' = [box EXCEPT ![FiledFor(w)] =
                 Append(@, [id |-> IdOf(w), part |-> index[w] + 1])]
    /\ IF index[w] = Width
       THEN Goto(w, NextCopy(w)) /\ index' = [index EXCEPT ![w] = 0]
       ELSE index' = [index EXCEPT ![w] = @ + 1] /\ UNCHANGED pc
    /\ UNCHANGED <<users, todo, off, ok, size, at, shown, failed, crashes>>

StoreChar_NoAppend(w) ==
    /\ pc[w] \in Filing
    /\ LET cell == [id |-> IdOf(w), part |-> index[w] + 1] IN
         box' = [box EXCEPT ![FiledFor(w)] =
                   IF index[w] < Len(@) THEN [@ EXCEPT ![index[w] + 1] = cell]
                   ELSE Append(@, cell)]
    /\ IF index[w] + 1 = Width
       THEN Goto(w, NextCopy(w)) /\ index' = [index EXCEPT ![w] = 0]
       ELSE index' = [index EXCEPT ![w] = @ + 1] /\ UNCHANGED pc
    /\ UNCHANGED <<users, todo, off, ok, size, at, shown, failed, crashes>>

StoreChar(w) ==
    /\ pc[w] \in Filing
    /\ box' = [box EXCEPT ![FiledFor(w)] =
                 Append(@, [id |-> IdOf(w), part |-> index[w] + 1])]
    /\ IF index[w] + 1 = Width
       THEN Goto(w, NextCopy(w)) /\ index' = [index EXCEPT ![w] = 0]
       ELSE index' = [index EXCEPT ![w] = @ + 1] /\ UNCHANGED pc
    /\ UNCHANGED <<users, todo, off, ok, size, at, shown, failed, crashes>>

StoreFails(w) ==
    /\ pc[w] \in Filing
    /\ failed' = failed \cup {IdOf(w)}
    /\ Goto(w, NextCopy(w))
    /\ index' = [index EXCEPT ![w] = 0]
    /\ UNCHANGED <<fileVars, todo, off, ok, size, at, shown, crashes>>

-----------------------------------------------------------------------------
(* read_history_messages                                                   *)

(* Mutant: the prefix is taken off every piece. *)
Fitting_Less(piece) == SubSeq(piece, 1, Len(piece) - Prefix)

(* strncat copies of each piece what fits behind the prefix: the end of a
   full piece is lost. *)
Fitting(piece) == SubSeq(piece, 1, Min({Len(piece), Piece - Prefix}))

SendPiece(w) ==
    /\ At(w, "history")
    /\ LET piece == ReadBy(w, box[job(w).name]) IN
         /\ piece # <<>>
         /\ shown' = [shown EXCEPT ![w] = @ \o Fitting(piece)]
         /\ at' = [at EXCEPT ![w] = @ \o [i \in DOMAIN Fitting(piece) |-> off[w] + i]]
         /\ off' = [off EXCEPT ![w] = @ + Len(piece)]
    /\ UNCHANGED <<fileVars, todo, pc, index, ok, size, failed, crashes>>

(* The end of the file, or no file, or a read that fails: the mark of the end
   of the history, or the notice that there is none. *)
SendEnd(w) ==
    /\ At(w, "history")
    /\ \/ ReadBy(w, box[job(w).name]) = <<>> /\ Replies(w, TRUE)
       \/ Replies(w, FALSE)
    /\ UNCHANGED <<fileVars, todo, off, index, size, at, shown, failed, crashes>>

-----------------------------------------------------------------------------
(* The server is killed, by SIGPIPE for one, and started again: the files   *)
(* are what is left, and the requests in hand are lost.                     *)

Crash ==
    /\ crashes < MaxCrashes
    /\ crashes' = crashes + 1
    /\ Drops(Worker)
    /\ UNCHANGED <<fileVars, failed>>

StoreStep(w) ==
    \/ Begin(w) \/ End(w) \/ Check(w) \/ AppendAccount(w) \/ Login(w)
    \/ StoreChar(w) \/ StoreFails(w) \/ SendPiece(w) \/ SendEnd(w)

-----------------------------------------------------------------------------
(* Properties.                                                             *)

(* users.txt is at every moment a sequence of whole lines, whatever workers
   register at once and wherever the server is killed: readers find no half
   of an account (register_user writes its line in one write). *)
AccountLinesWhole ==
    /\ Len(users) % 4 = 0
    /\ \A i \in DOMAIN users :
         users[i] \in CASE i % 4 = 1 -> Name [] i % 4 = 2 -> {Colon}
                        [] i % 4 = 3 -> Password [] i % 4 = 0 -> {Eol}

(* A registration goes on to write only if no account of the name was there
   when it began, but for one whose name ends a piece: the name is then cut
   off from its colon (register_user). *)
LaterRegistrationSeesEarlier ==
    \A w \in Worker : At(w, "append") =>
        \A i \in 1..size[w] : users[i] = job(w).name => i % Piece = 0

(* The account of j is among the first n cells of users.txt. *)
Has(n, j) ==
    \E i \in 1..n : i + 3 <= n /\ SubSeq(users, i, i + 3) = <<j.name, Colon, j.password, Eol>>

(* Who is told that the login, or the registration, succeeded has an account,
   and who is told that the login failed had none when the login began: an
   account that was there is found behind others, and while lines are added
   to the file that is read (login_user, register_user). *)
AnswersMatchAccounts ==
    \A w \in Worker : At(w, "reply") =>
        /\ job(w).op \in {"login", "register"} /\ ok[w] => Has(Len(users), job(w))
        /\ job(w).op = "login" /\ ~ok[w] => ~Has(size[w], job(w))

(* The parts of the message id that stand in a file. *)
PartsOf(file, id) == {file[i].part : i \in {j \in DOMAIN file : file[j].id = id}}

(* Of a message there is at every moment a beginning in the file, in order and
   once, and no message takes from another, although they are written a
   character at a time by several workers (store_message). *)
NothingOverwritten ==
    \A n \in Box : \A i \in DOMAIN box[n] :
        LET cell == box[n][i] IN
        /\ 1..cell.part \subseteq PartsOf(box[n], cell.id)
        /\ \A j \in DOMAIN box[n] :
             i < j /\ box[n][j].id = cell.id => cell.part < box[n][j].part

(* When a private message is forwarded it is whole in the file of the receiver
   and in that of the sender, unless a write failed
   (process_private_message). *)
FiledForBoth ==
    \A w \in Worker : At(w, "deliver") /\ job(w).op = "private" =>
        \A copy \in Filing :
            LET id == <<w, Len(todo[w]), copy>> IN
            id \in failed \/
              PartsOf(box[IF copy = "file" THEN job(w).to ELSE job(w).name], id) = 1..Width

(* What is sent as history stands in the file, in this order and once each, and
   still does when others have written to it meanwhile
   (read_history_messages). *)
HistoryFaithful ==
    \A w \in Worker : pc[w] # "idle" /\ job(w).op = "history" =>
        /\ \A i \in DOMAIN at[w] : at[w][i] \in DOMAIN box[job(w).name]
                                   /\ box[job(w).name][at[w][i]] = shown[w][i]
        /\ \A i, j \in DOMAIN at[w] : i < j => at[w][i] < at[w][j]

(* A history that fits one answer is sent whole, although the file may grow
   past that while it is read (read_history_messages). *)
ShortHistoryWhole ==
    \A w \in Worker :
        At(w, "reply") /\ job(w).op = "history" /\ ok[w] /\ size[w] <= Piece - Prefix =>
            1..size[w] \subseteq ToSet(at[w])

(* No two accounts have one name. *)
NamesUnique ==
    \A i, j \in DOMAIN users : users[i] \in Name /\ users[i] = users[j] => i = j
=============================================================================
