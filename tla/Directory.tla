----------------------------- MODULE Directory -----------------------------
(***************************************************************************)
(* What the functions of client_list.c promise to the threads that call    *)
(* them: a directory of clients, the newest first, on which every call     *)
(* takes effect at one moment between its start and its return.  Only the  *)
(* clean-up is not one moment: it takes the idle clients out one by one.   *)
(***************************************************************************)
EXTENDS ClientCalls

CONSTANTS Thread, Null,
          Id,       \* what tells clients apart that have the same fields
          Calls     \* the calls that are made

VARIABLES dir,    \* the clients, each with an id of its own
          call,   \* call[t]: the call under way, or Null
          done,   \* done[t]: it has taken effect
          ret,    \* ret[t]: the id it returns, or Null
          count   \* count[t]: the number it returns

vars == <<dir, call, done, ret, count>>

Ids == {dir[i].id : i \in DOMAIN dir}
Found(c) == {i \in DOMAIN dir : Meets(c, dir[i])}
IsFirst(i, c) == i \in Found(c) /\ \A j \in Found(c) : i <= j

Init ==
    /\ dir = <<>>
    /\ call = [t \in Thread |-> Null]
    /\ done = [t \in Thread |-> FALSE]
    /\ ret = [t \in Thread |-> Null]
    /\ count = [t \in Thread |-> 0]

Invoke(t) ==
    /\ call[t] = Null
    /\ \E c \in Calls : call' = [call EXCEPT ![t] = c]
    /\ UNCHANGED <<dir, done, ret, count>>

Pending(t, ops) == call[t] # Null /\ ~done[t] /\ call[t].op \in ops

TakesEffect(t, r, n) ==
    /\ done' = [done EXCEPT ![t] = TRUE]
    /\ ret' = [ret EXCEPT ![t] = r]
    /\ count' = [count EXCEPT ![t] = n]
    /\ UNCHANGED call

(* Nobody meets the call: there is nothing to change and nothing to return.
   A client may also fail to be added when memory is short. *)
Miss(t) ==
    /\ Pending(t, Finders \cup Setters \cup {"add", "remove", "removeName", "cleanup"})
    /\ Found(call[t]) = {}
    /\ TakesEffect(t, Null, 0)
    /\ UNCHANGED dir

(* The first client that meets the call is returned; one with the descriptor
   of a client to be added is returned too. *)
Hit(t) ==
    /\ Pending(t, Finders \cup {"add"})
    /\ \E i \in DOMAIN dir : IsFirst(i, call[t]) /\ TakesEffect(t, dir[i].id, 0)
    /\ UNCHANGED dir

Add(t) ==
    /\ Pending(t, {"add"})
    /\ Found(call[t]) = {}
    /\ \E id \in Id \ Ids :
         /\ dir' = <<[id |-> id, fd |-> call[t].fd, ip |-> call[t].ip, name |-> NoName,
                      state |-> "connected", old |-> FALSE]>> \o dir
         /\ TakesEffect(t, id, 0)

Change(t) ==
    /\ Pending(t, Setters)
    /\ \E i \in DOMAIN dir :
         /\ IsFirst(i, call[t])
         /\ dir' = [dir EXCEPT ![i] = Changed(call[t], dir[i])]
         /\ TakesEffect(t, dir[i].id, 0)

TakeOut(t) ==
    /\ Pending(t, {"remove", "removeName"})
    /\ \E i \in DOMAIN dir :
         /\ IsFirst(i, call[t])
         /\ dir' = RemoveAt(dir, i)
         /\ TakesEffect(t, dir[i].id, 0)

(* One idle client goes; the call is over when there is none. *)
Expire(t) ==
    /\ Pending(t, {"cleanup"})
    /\ \E i \in DOMAIN dir : IsFirst(i, call[t]) /\ dir' = RemoveAt(dir, i)
    /\ UNCHANGED <<call, done, ret, count>>

Count(t) ==
    /\ Pending(t, Counters)
    /\ TakesEffect(t, Null, Cardinality({i \in DOMAIN dir : Counted(call[t], dir[i])}))
    /\ UNCHANGED dir

(* Clearing goes from the newest client to the oldest. *)
Clear(t) ==
    /\ Pending(t, {"clear"})
    /\ IF dir = <<>> THEN TakesEffect(t, Null, 0) /\ UNCHANGED dir
       ELSE dir' = Tail(dir) /\ UNCHANGED <<call, done, ret, count>>

Return(t) ==
    /\ done[t]
    /\ call' = [call EXCEPT ![t] = Null]
    /\ done' = [done EXCEPT ![t] = FALSE]
    /\ ret' = [ret EXCEPT ![t] = Null]
    /\ count' = [count EXCEPT ![t] = 0]
    /\ UNCHANGED dir

(* Time passes: a client becomes idle. *)
Age ==
    /\ \E i \in DOMAIN dir : dir' = [dir EXCEPT ![i].old = TRUE]
    /\ UNCHANGED <<call, done, ret, count>>

Next ==
    \/ Age
    \/ \E t \in Thread : \/ Invoke(t) \/ Miss(t) \/ Hit(t) \/ Add(t) \/ Change(t)
                         \/ TakeOut(t) \/ Expire(t) \/ Count(t) \/ Clear(t) \/ Return(t)

Spec == Init /\ [][Next]_vars
=============================================================================
