---------------------------- MODULE MCChatServer ----------------------------
(***************************************************************************)
(* Small instances of ChatServer for TLC: two workers, two or three        *)
(* connections, two descriptors so that numbers are used again, two memory *)
(* slots so that nodes are allocated again.                                *)
(***************************************************************************)
EXTENDS ChatServer, TLC

CONSTANTS w1, w2, c1, c2, c3, f1, f2, s1, s2, alice, bob, carol

TwoWorkers == {w1, w2}
TwoConns == {c1, c2}
ThreeConns == {c1, c2, c3}
TwoFds == {f1, f2}
TwoSlots == {s1, s2}

(* Workers, descriptors and slots are told apart by nothing; connections are,
   by their account and their requests. *)
Interchangeable ==
    Permutations({w1, w2}) \cup Permutations({f1, f2}) \cup Permutations({s1, s2})

OwnAccounts == (c1 :> alice) @@ (c2 :> bob) @@ (c3 :> carol)

(* The requests of c1; c2 logs in, c3 only connects and so may get a
   descriptor and a node that have been used before. *)
Script(kinds) == (c1 :> kinds) @@ (c2 :> {"login"}) @@ (c3 :> {})
HandlerKinds ==
    Script({"login", "register", "private", "group", "list", "history", "weather", "other"})
PrivateKinds == Script({"login", "private"})
GroupKinds == Script({"login", "group"})
ExitKinds == Script({"login", "exit"})
ThreeSends == (c1 :> 2) @@ (c2 :> 1) @@ (c3 :> 0)

(* Two connections, the second only connects. *)
TwoAccounts == (c1 :> alice) @@ (c2 :> bob)
TwoLoopKinds == (c1 :> {"login", "group", "history", "exit"}) @@ (c2 :> {})
TwoSends == (c1 :> 2) @@ (c2 :> 0)
=============================================================================
