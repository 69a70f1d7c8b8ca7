------------------------------- MODULE Backend -------------------------------
(***************************************************************************)
(* Approved hours and the shop on the tables they share.  Awards fill the  *)
(* wallets that orders empty; an admin may delete the user who is ordering *)
(* or the project whose credit is being spent.  What keeps them apart are  *)
(* row locks, which make the one wait for the other's COMMIT, and foreign  *)
(* keys.  Shop stands in for the awards with a credit that comes out of    *)
(* nothing: here it is shown that the awards are no more than that.        *)
(***************************************************************************)
EXTENDS ApprovedHours

CONSTANTS Orders,         \* purchase requests
          Items, Ticket, Price, Keys,
          Sweepers, SweepLimit, Undeliverable, Silent, MaxMails

ASSUME ShopPrices == Price \in [Items -> Nat \ {0}]
ASSUME OrdersAreNoSweeps == Orders \intersect Sweepers = {}
ASSUME SilentReplicas == Silent \subseteq Orders \union Sweepers
ASSUME ShopBounds == SweepLimit \in Nat \ {0} /\ MaxMails \in Nat \ {0}

VARIABLES outbox, sent, claim, wpc, job, batch, mails, unconfirmed, waived,
          purchases, buyer, item, key, reply

Shopping == INSTANCE Shop WITH Requests <- Orders, credited <- awarded

\* What only the awards write, and what only the orders write.  Both write the
\* wallets, and an outage is one of both.
ownVars == <<peopleVars, reviewVars, fraud, recordId, awarded, minutes,
             pc, awardVars, requestVars, record, syncVars>>
buyingVars == <<purchases, buyer, item, key, reply>>
orderVars == <<outbox, sent, claim, wpc, job, batch, mails, unconfirmed, waived,
               buyingVars>>
backendVars == <<vars, orderVars>>

BackendInit == Init /\ Shopping!Init

\* No transaction that is open has debited the wallet of u.
WalletFree(u) == \A o \in Orders : ~Shopping!HoldsWallet(o, u)

\* The award's upsert of the wallet waits for an order's debit, and so does a
\* deletion, which cascades to it.  shop_purchases.user_id is ON DELETE RESTRICT.
\* Where order and deletion wait for each other, one of them fails (RowLocks).
AwardsNext ==
    /\ Next
    /\ UNCHANGED orderVars
    /\ \A p \in awarded' \ awarded : WalletFree(Owner[p])
    /\ \A u \in users \ users' : WalletFree(u) /\ \A row \in purchases : row[1] # u

\* The session of an order goes with its user; an order under way then fails
\* when it needs a wallet row.
OrderNext(o) ==
    /\ Shopping!RequestNext(o)
    /\ wpc'[o] = "lock" => buyer'[o] \in users
    /\ wpc[o] = "debit" => /\ reply'[o] = "not_enough_hours" => buyer[o] \in users
                           /\ reply'[o] = "internal_error" => buyer[o] \notin users

OrdersNext ==
    /\ UNCHANGED ownVars
    /\ \/ \E o \in Orders : OrderNext(o)
       \/ \E s \in Sweepers : Shopping!SweeperNext(s) /\ UNCHANGED <<wallet, buyingVars>>
       \/ \E u \in Users : Shopping!ClaimLapses(u) /\ UNCHANGED <<wallet, buyingVars>>

BackendNext == AwardsNext \/ OrdersNext

BackendSpec == BackendInit /\ [][BackendNext]_backendVars

-----------------------------------------------------------------------------
\* Reviews, synchronisations, awards and deletions are to the shop no more than
\* credits that arrive, each once: what holds of Shop holds of the backend.
ImplementsShop == Shopping!Spec

\* What a person has and has spent is what the person's projects earned, with
\* real awards, real orders and deletions racing on one wallet.
BooksBalanced == Shopping!WalletBalanced

\* Whoever bought something still has an account, and so do those whose order
\* is about to commit, although neither the order nor the deletion looks for
\* the other.
BuyersHaveAccounts ==
    /\ \A row \in purchases : row[1] \in users
    /\ \A o \in Orders, u \in Users : Shopping!HoldsWallet(o, u) => u \in users
=============================================================================
