------------------------------- MODULE MCBanners -------------------------------
(* A small instance of Banners and RowLocks for TLC. *)
EXTENDS Banners, TLC

CONSTANT o     \* owns, reviews and buys: the code lets one person do all three

MCOwner == [x \in Projects |-> o]
MCReviewerOf == [x \in Projects |-> o]
Alike ==
    Permutations(Tasks) \union Permutations(Uploads) \union Permutations(Names) \union Permutations(Unique)
=============================================================================
