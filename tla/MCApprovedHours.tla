--------------------------- MODULE MCApprovedHours ---------------------------
(* Small instances of ApprovedHours for TLC: one project and its owner. *)
EXTENDS ApprovedHours, TLC

CONSTANTS u1, u2, p1

OneOwner == p1 :> u1
=============================================================================
