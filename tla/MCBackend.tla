------------------------------ MODULE MCBackend ------------------------------
(* A small instance of Backend for TLC: one project and its owner, who is    *)
(* admin and reviewer too, and one thing to buy.                             *)
EXTENDS Backend, TLC

CONSTANTS u1, p1

OneOwner == p1 :> u1
OneMinute == [i \in Items |-> 1]
=============================================================================
