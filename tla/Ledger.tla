------------------------------- MODULE Ledger -------------------------------
(***************************************************************************)
(* What the backend promises about approved time, with no handler, queue   *)
(* or lock in sight: a project is credited to its owner at most once, an   *)
(* item is claimed by a person at most once, and a balance is moved only   *)
(* by a credit or by a claim that it covers.  The detailed modules are     *)
(* shown to implement this one, and so inherit that its books balance.     *)
(***************************************************************************)
EXTENDS FiniteSetsExt

CONSTANTS Users, Projects, Items,
          Owner,        \* Owner[p]: the person a project's credit goes to
          Price,        \* Price[i]: minutes an item costs
          Amounts       \* what a credit may be worth

VARIABLES credited,     \* projects credited so far
          amount,       \* what each of them was credited with
          claimed,      \* <<person, item>> pairs claimed so far
          balance       \* minutes each person can spend

ledgerVars == <<credited, amount, claimed, balance>>

LedgerInit ==
    /\ credited = {}
    /\ amount = [p \in Projects |-> 0]
    /\ claimed = {}
    /\ balance = [u \in Users |-> 0]

\* The project's owner earns m minutes, now and never again for this project.
Credit(p, m) ==
    /\ p \notin credited
    /\ credited' = credited \union {p}
    /\ amount' = [amount EXCEPT ![p] = m]
    /\ balance' = [balance EXCEPT ![Owner[p]] = @ + m]
    /\ UNCHANGED claimed

\* A person pays for an item, which the balance must cover.
Claim(u, i) ==
    /\ <<u, i>> \notin claimed
    /\ balance[u] >= Price[i]
    /\ claimed' = claimed \union {<<u, i>>}
    /\ balance' = [balance EXCEPT ![u] = @ - Price[i]]
    /\ UNCHANGED <<credited, amount>>

LedgerNext ==
    \/ \E p \in Projects, m \in Amounts : Credit(p, m)
    \/ \E u \in Users, i \in Items : Claim(u, i)

LedgerSpec == LedgerInit /\ [][LedgerNext]_ledgerVars

-----------------------------------------------------------------------------
\* What somebody can spend and has spent is what that person's projects were
\* credited with.  Every minute in a wallet has a project behind it, and every
\* minute that left one has a claim to show for it.
CreditedTo(u) == {p \in credited : Owner[p] = u}
ClaimedBy(u) == {i \in Items : <<u, i>> \in claimed}
Earned(u) == MapThenSumSet(LAMBDA p : amount[p], CreditedTo(u))
Spent(u) == MapThenSumSet(LAMBDA i : Price[i], ClaimedBy(u))

Balanced == \A u \in Users : balance[u] + Spent(u) = Earned(u)
=============================================================================
