----------------------------- MODULE MCRequests -----------------------------
(***************************************************************************)
(* A small instance of Requests for TLC: two workers play one of a few     *)
(* scripts.                                                                *)
(***************************************************************************)
EXTENDS Requests, TLC

CONSTANTS w1, w2, alice, bob, p1, p2

TwoWorkers == {w1, w2}
TwoNames == {alice, bob}
TwoPasswords == {p1, p2}

Do(op, name, password, to) == [op |-> op, name |-> name, password |-> password, to |-> to]
Register(n, p) == Do("register", n, p, n)
LogIn(n, p) == Do("login", n, p, n)
Private(n, to) == Do("private", n, p1, to)
Group(n) == Do("group", n, p1, n)
History(n) == Do("history", n, p1, alice)
AskWeather(n) == Do("weather", n, p1, n)

Both(a, b) == (w1 :> a) @@ (w2 :> b)

(* Two registrations of one name at once. *)
OneName == {Both(<<Register(alice, p1)>>, <<Register(alice, p2)>>)}

Mixed ==
    { Both(<<Register(alice, p1), Register(bob, p1), LogIn(bob, p1)>>,
           <<Register(alice, p2), Register(bob, p2), LogIn(alice, p1)>>),
      Both(<<Private(alice, bob), History(alice)>>, <<Private(bob, alice), History(bob)>>),
      Both(<<Group(alice), History(All)>>, <<Group(bob), Group(bob)>>),
      Both(<<AskWeather(alice)>>, <<Private(bob, bob)>>) }
=============================================================================
