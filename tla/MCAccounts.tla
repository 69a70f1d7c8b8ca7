------------------------------ MODULE MCAccounts ------------------------------
(* A small instance of Accounts for TLC; the members of a set are alike. *)
EXTENDS Accounts, TLC

Alike == Permutations(Attempts) \union Permutations(Callbacks) \union Permutations(Rows)
           \union Permutations(People) \union Permutations(Emails)
=============================================================================
