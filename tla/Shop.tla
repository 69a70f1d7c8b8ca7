--------------------------------- MODULE Shop ---------------------------------
(***************************************************************************)
(* purchase_item: one transaction that locks the item row, looks for an    *)
(* earlier purchase with the same Idempotency-Key, debits the wallet,      *)
(* records the claim and, for the event ticket, the confirmation e-mail;   *)
(* then the same request delivers that e-mail.  Statements of concurrent   *)
(* transactions interleave; the row locks they hold until their end are    *)
(* read off the statement each one has reached:                            *)
(*                                                                         *)
(*   lock     SELECT ... FROM shop_items ... FOR UPDATE                    *)
(*   lookup   the purchase with this user and key                          *)
(*   debit    UPDATE user_wallets ... RETURNING                            *)
(*   insert   INSERT INTO shop_purchases ... ON CONFLICT DO NOTHING        *)
(*   commit   INSERT INTO notification_outbox, COMMIT                      *)
(*                                                                         *)
(* The approved hours that fill the wallets come from another module; here *)
(* they arrive as one credit per project.                                  *)
(***************************************************************************)
EXTENDS Outbox

CONSTANTS Items, Ticket,  \* Ticket: the item whose slug is event-ticket
          Price,
          Keys,           \* values of the Idempotency-Key header
          Projects, Owner, Minutes

ASSUME PricesPositive == Price \in [Items -> Nat \ {0}]
ASSUME OwnersAreUsers == Owner \in [Projects -> Users]
ASSUME CreditsAreNat == Minutes \subseteq Nat

VARIABLES
  credited,    \* projects with a row in project_credit_awards
  minutes,     \* project_credit_awards.credited_minutes
  wallet,      \* user_wallets.available_minutes, as committed
  purchases,   \* rows <<user, item, key>> of shop_purchases
  buyer, item, key,   \* the session user, path and header of a request
  reply        \* what a request was answered last

walletVars == <<credited, minutes, wallet>>
requestVars == <<buyer, item, key>>
shopVars == <<walletVars, purchases, requestVars, reply>>
vars == <<deliveryVars, shopVars>>

PurchasePcs == {"lock", "lookup", "debit", "insert", "commit"}

Init ==
    /\ OutboxInit
    /\ credited = {}
    /\ minutes = [p \in Projects |-> 0]
    /\ wallet = [u \in Users |-> 0]
    /\ purchases = {}
    /\ buyer = [r \in Requests |-> None]
    /\ item = [r \in Requests |-> None]
    /\ key = [r \in Requests |-> None]
    /\ reply = [r \in Requests |-> None]

\* The award's transaction adds to the wallet row once no debit holds it.
HoldsWallet(r, u) == wpc[r] \in {"insert", "commit"} /\ buyer[r] = u
HoldsItem(r, i) == wpc[r] \in PurchasePcs \ {"lock"} /\ item[r] = i

CreditProject(p, m) ==
    /\ p \notin credited
    /\ \A r \in Requests : ~HoldsWallet(r, Owner[p])
    /\ credited' = credited \union {p}
    /\ minutes' = [minutes EXCEPT ![p] = m]
    /\ wallet' = [wallet EXCEPT ![Owner[p]] = @ + m]
    /\ UNCHANGED <<deliveryVars, purchases, requestVars, reply>>

-----------------------------------------------------------------------------
\* The handler returns, or its future is dropped.
Forget(r) ==
    /\ buyer' = [buyer EXCEPT ![r] = None]
    /\ item' = [item EXCEPT ![r] = None]
    /\ key' = [key EXCEPT ![r] = None]

\* A transaction that ends without a commit leaves nothing behind.
Answer(r, text) ==
    /\ Step(r, "idle")
    /\ Forget(r)
    /\ reply' = [reply EXCEPT ![r] = text]

GoOn(r, label) == Step(r, label) /\ UNCHANGED <<requestVars, reply>>

PurchaseStart(r, u, i, k) ==
    /\ wpc[r] = "idle"
    /\ Step(r, "lock")
    /\ buyer' = [buyer EXCEPT ![r] = u]
    /\ item' = [item EXCEPT ![r] = i]
    /\ key' = [key EXCEPT ![r] = k]
    /\ reply' = [reply EXCEPT ![r] = None]
    /\ UNCHANGED <<walletVars, purchases>>

\* FOR UPDATE: purchases of one item, whoever makes them, go one by one.
ItemNotLocked(i) == TRUE
ItemLockFree(i) == \A q \in Requests : ~HoldsItem(q, i)

LockItem(r) ==
    /\ wpc[r] = "lock"
    /\ ItemLockFree(item[r])
    /\ Step(r, "lookup")
    /\ UNCHANGED shopVars

\* Repeating a completed request is answered with that purchase.
LookUpKey(r) ==
    /\ wpc[r] = "lookup"
    /\ LET earlier == {row \in purchases : row[1] = buyer[r] /\ row[3] = key[r]} IN
         CASE earlier = {} -> GoOn(r, "debit")
           [] \E row \in earlier : row[2] # item[r] -> Answer(r, "key_used_for_another_item")
           [] OTHER -> Answer(r, "replayed")
    /\ UNCHANGED <<walletVars, purchases>>

CoversAlmost(u, i) == wallet[u] + 1 >= Price[i]
Covers(u, i) == wallet[u] >= Price[i]

\* The UPDATE waits for the wallet row and then sees its committed balance.  A
\* user who was deleted after the session was read can have no wallet row: the
\* statement then fails on its foreign key.
Debit(r) ==
    /\ wpc[r] = "debit"
    /\ \A q \in Requests : ~HoldsWallet(q, buyer[r])
    /\ IF Covers(buyer[r], item[r])
         THEN GoOn(r, "insert")
         ELSE \E text \in {"not_enough_hours", "internal_error"} : Answer(r, text)
    /\ UNCHANGED <<walletVars, purchases>>

\* UNIQUE (user_id, item_id), the conflict the statement names.
NeverClaimed(u, i) == FALSE
Claimed(u, i) == \E row \in purchases : row[1] = u /\ row[2] = i

\* UNIQUE (user_id, idempotency_key), a conflict that fails the statement.
KeyNotUnique(u, k) == FALSE
KeyTaken(u, k) == \E row \in purchases : row[1] = u /\ row[3] = k

\* The refusal of an item claimed before commits instead of rolling back.
ConflictKeepsDebit(r) ==
    /\ wpc[r] = "insert"
    /\ CASE Claimed(buyer[r], item[r]) ->
              /\ Answer(r, "already_claimed")
              /\ wallet' = [wallet EXCEPT ![buyer[r]] = @ - Price[item[r]]]
         [] ~Claimed(buyer[r], item[r]) /\ KeyTaken(buyer[r], key[r]) ->
              Answer(r, "internal_error") /\ UNCHANGED wallet
         [] OTHER -> GoOn(r, "commit") /\ UNCHANGED wallet
    /\ UNCHANGED <<credited, minutes, purchases>>

InsertPurchase(r) ==
    /\ wpc[r] = "insert"
    /\ CASE Claimed(buyer[r], item[r]) -> Answer(r, "already_claimed")
         [] ~Claimed(buyer[r], item[r]) /\ KeyTaken(buyer[r], key[r]) ->
              Answer(r, "internal_error")
         [] OTHER -> GoOn(r, "commit")
    /\ UNCHANGED <<walletVars, purchases>>

CommitPurchase(r) ==
    /\ wpc[r] = "commit"
    /\ purchases' = purchases \union {<<buyer[r], item[r], key[r]>>}
    /\ wallet' = [wallet EXCEPT ![buyer[r]] = @ - Price[item[r]]]
    /\ IF item[r] = Ticket
         THEN outbox' = Append(outbox, buyer[r]) /\ Deliver(r, buyer[r])
         ELSE Step(r, "idle") /\ UNCHANGED <<outbox, job>>
    /\ Forget(r)
    /\ reply' = [reply EXCEPT ![r] = "claimed"]
    /\ UNCHANGED <<credited, minutes>>

\* The client goes away, the timeout fires or the process dies.  A COMMIT
\* that was under way may still have happened: that is CommitPurchase first.
DropPurchase(r) ==
    /\ trouble
    /\ wpc[r] \in PurchasePcs
    /\ Step(r, "idle")
    /\ Forget(r)
    /\ UNCHANGED <<walletVars, purchases, reply>>

PurchaseNext(r) ==
    \/ /\ \/ \E u \in Users, i \in Items, k \in Keys : PurchaseStart(r, u, i, k)
          \/ LockItem(r) \/ LookUpKey(r) \/ Debit(r) \/ InsertPurchase(r)
          \/ DropPurchase(r)
       /\ UNCHANGED <<rowVars, job, batch, mailVars, trouble>>
    \/ CommitPurchase(r) /\ UNCHANGED <<sent, claim, batch, mailVars, trouble>>

\* The response is written once the delivery is over, so a request that is
\* dropped in it has bought the ticket all the same.
RequestNext(r) ==
    \/ PurchaseNext(r)
    \/ (DeliveryStep(r) \/ SendUnanswered(r) \/ DeliveryError(r)) /\ UNCHANGED shopVars
    \/ DropDelivery(r) /\ UNCHANGED <<batch, shopVars>>

SweeperNext(s) ==
    \/ SweepStep(s) \/ SendUnanswered(s) \/ DeliveryError(s)
    \/ DropDelivery(s) /\ batch' = [batch EXCEPT ![s] = {}]

Next ==
    \/ \E p \in Projects, m \in Minutes : CreditProject(p, m)
    \/ \E r \in Requests : RequestNext(r)
    \/ \E s \in Sweepers : SweeperNext(s) /\ UNCHANGED shopVars
    \/ \E u \in Users : ClaimLapses(u) /\ UNCHANGED shopVars
    \/ Recover /\ UNCHANGED shopVars

Spec == Init /\ [][Next]_vars

\* The sweep's ticker never stops, time passes, and trouble does not last.  A
\* request that delivers is carried on by the runtime, or was dropped by the
\* timeout before; that a request is made or repeated is not assumed.
Fairness ==
    /\ WF_vars(Recover /\ UNCHANGED shopVars)
    /\ WF_vars((\E u \in Users : ClaimLapses(u)) /\ UNCHANGED shopVars)
    /\ \A r \in Requests : WF_vars(DeliveryStep(r) /\ UNCHANGED shopVars)
    /\ \A s \in Sweepers : WF_vars(SweepStep(s) /\ UNCHANGED shopVars)

LiveSpec == Spec /\ Fairness

-----------------------------------------------------------------------------
\* Every variable holds what its column, or its local variable, can hold; in
\* particular no balance goes below zero.
TypeOK ==
    /\ OutboxTypeOK
    /\ \A r \in Requests : wpc[r] \in {"idle"} \union PurchasePcs \union DeliveryPcs
    /\ credited \subseteq Projects
    /\ minutes \in [Projects -> Nat]
    /\ wallet \in [Users -> Nat]
    /\ purchases \subseteq Users \X Items \X Keys
    /\ buyer \in [Requests -> Users \union {None}]
    /\ item \in [Requests -> Items \union {None}]
    /\ key \in [Requests -> Keys \union {None}]
    /\ reply \in [Requests -> {None, "claimed", "replayed", "already_claimed",
                    "key_used_for_another_item", "not_enough_hours", "internal_error"}]

\* Repeating a completed purchase with its key, at any moment and however
\* many repetitions run at once, is answered with the purchase: never that
\* the hours are short or the item is claimed, which are its own doing.
ReplayNeverRefused ==
    [][\A r \in Requests :
          reply'[r] # reply[r] /\ <<buyer[r], item[r], key[r]>> \in purchases
             => reply'[r] \in {"replayed", None}]_vars

\* A person's key names one purchase, also when it is sent for two items at
\* once and neither transaction sees the other's row when it looks.
KeyNamesOnePurchase ==
    \A x, y \in purchases : x[1] = y[1] /\ x[3] = y[3] => x = y

\* One worker at a time sends a row's e-mail.
SoleSender ==
    \A u \in Users, v, w \in Workers : Sending(v, u) /\ Sending(w, u) => v = w

\* A confirmation is sent again only if an earlier one was accepted by the
\* provider without the outbox learning of it.
NoNeedlessResend == \A u \in Users : mails[u] > 1 => u \in unconfirmed

\* Every buyer of a ticket whose address works is sent the confirmation, even
\* if the request that bought it never got round to sending it and more rows
\* are due than a sweep takes, unless a replica without mail settings took
\* the row, and then it is at least recorded.
HasTicket(u) == \E row \in purchases : row[1] = u /\ row[2] = Ticket
ConfirmedEventually ==
    \A u \in Users \ Undeliverable : HasTicket(u) ~> u \in sent /\ (mails[u] > 0 \/ u \in waived)

-----------------------------------------------------------------------------
LedgerOfShop == INSTANCE Ledger WITH
    Amounts <- Minutes, amount <- minutes, balance <- wallet,
    claimed <- {<<row[1], row[2]>> : row \in purchases}

\* Purchases implement the ledger: an item is paid for once per person, from
\* a balance that covers it, whatever the clients repeat or race.
ImplementsLedger == LedgerOfShop!LedgerSpec

\* What a person has and has spent is what the person's projects earned: no
\* credit is lost under a purchase, no debit is kept by a request that was
\* refused, dropped or answered with an earlier purchase, and nothing is
\* bought without being paid for, once.
WalletBalanced == LedgerOfShop!Balanced

\* Every ticket bought has its row in the outbox, and only one; a row without
\* a ticket behind it would confirm a purchase that never was.
TicketsQueued ==
    /\ \A u \in Users : HasTicket(u) <=> \E n \in DOMAIN outbox : outbox[n] = u
    /\ \A m, n \in DOMAIN outbox : outbox[m] = outbox[n] => m = n

ConfirmationsOfShop == INSTANCE Confirmations WITH
    MayWaive <- Silent # {},
    owed <- {u \in Users : HasTicket(u)}, doubtful <- unconfirmed, recorded <- sent

\* Outbox, request and sweeps implement the confirmations, under any failures:
\* nobody but a buyer is written to, what is recorded as sent was accepted or
\* passed through a replica that sends nothing, and a buyer is written to again
\* only if an acceptance was missed.
ImplementsConfirmations == ConfirmationsOfShop!ConfirmationsSpec
=============================================================================
