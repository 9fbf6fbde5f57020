------------------------------- MODULE MCReload -------------------------------
(* An instance of Reload for TLC: two paths; the cores a and b differ in    *)
(* their arguments and share a port, c has a port of its own, u is remote. *)
EXTENDS Reload, TLC

CONSTANTS a, b, c, u

MCPort == a :> 1 @@ b :> 1 @@ c :> 2

File(first, second, inPlace) == [endpoints |-> <<first, second>>, inPlace |-> inPlace]

Base == File(a, c, 1)

(* Path 1 takes the port of path 2, which is removed; then it is kept, and *)
(* changed in place, while path 2 returns as a remote endpoint; a file     *)
(* that gives one port to both.                                            *)
MCContents == {Base, File(c, None, 2), File(c, u, 1), File(a, b, 2)}

MCInitial == {Base, File(a, b, 2), Missing}
=============================================================================
