------------------------------ MODULE Shop_proofs ------------------------------
(***************************************************************************)
(* Theorems about purchases and the outbox, for any users, items, keys,    *)
(* requests and sweeps.                                                    *)
(*                                                                         *)
(* Purchases: from its lookup on, a transaction is alone with its item, so *)
(* that what it did not find then is still not there; from its debit on,   *)
(* it is alone with its buyer's wallet, so that what the INSERT found free *)
(* is still free at the COMMIT, and the balance still covers the price.    *)
(*                                                                         *)
(* Confirmations: a worker that sends has the row's claim, which nobody    *)
(* else can take; an e-mail that was accepted and will be recorded is one  *)
(* that its sender is about to record.                                     *)
(***************************************************************************)
EXTENDS Shop, TLAPS

\* A request in a transaction knows its user, item and key.
Locals ==
    /\ DOMAIN wpc = Workers
    /\ \A r \in Requests : wpc[r] \in PurchasePcs =>
         buyer[r] \in Users /\ item[r] \in Items /\ key[r] \in Keys

\* The row locks keep transactions of one item, and of one wallet, apart.
Apart ==
    /\ \A q, r \in Requests, i \in Items : HoldsItem(q, i) /\ HoldsItem(r, i) => q = r
    /\ \A q, r \in Requests, u \in Users : HoldsWallet(q, u) /\ HoldsWallet(r, u) => q = r

\* What a transaction has read is still so.
StillSo ==
    \A r \in Requests :
        /\ wpc[r] \in {"debit", "insert", "commit"} => <<buyer[r], item[r], key[r]>> \notin purchases
        /\ wpc[r] \in {"insert", "commit"} => Covers(buyer[r], item[r])
        /\ wpc[r] = "commit" => ~Claimed(buyer[r], item[r]) /\ ~KeyTaken(buyer[r], key[r])

\* A sender holds the claim of a row that is not sent.
SenderHoldsClaim ==
    \A w \in Workers, u \in Users : Sending(w, u) => claim[u] = "held" /\ u \notin sent

\* Unless an accepted e-mail went unrecorded, there is at most one, and it is
\* recorded or about to be.
MailsAccounted ==
    \A u \in Users : u \notin unconfirmed /\ mails[u] > 0 =>
        mails[u] = 1 /\ (u \in sent \/ \E w \in Workers \ Silent : wpc[w] = "mark_sent" /\ job[w] = u)

\* What is delivered is the row of a ticket, and what is about to be recorded
\* as sent was accepted, unless the replica sends nothing.
DeliversTickets ==
    \A w \in Workers :
        /\ wpc[w] \in DeliveryPcs => HasTicket(job[w])
        /\ wpc[w] = "mark_sent" /\ w \notin Silent => mails[job[w]] > 0

Typed == TypeOK /\ Locals
Locking == Apart /\ StillSo /\ KeyNamesOnePurchase
Mailing == SenderHoldsClaim /\ SoleSender /\ MailsAccounted
Queueing == TicketsQueued /\ DeliversTickets
ShopInv == Typed /\ Locking /\ Mailing /\ Queueing

-----------------------------------------------------------------------------
\* The first state satisfies the invariant.
LEMMA ShopInit == Init => ShopInv
<1> SUFFICES ASSUME Init PROVE ShopInv
  OBVIOUS
<1>1. /\ \A w \in Workers : wpc[w] = "idle"
      /\ DOMAIN wpc = Workers
      /\ purchases = {}
      /\ mails = [u \in Users |-> 0]
  BY DEF Init, OutboxInit
<1>2. TypeOK
  <2>1. OutboxTypeOK
    BY MailBoundPositive DEF Init, OutboxInit, OutboxTypeOK, DeliveryPcs, Workers
  <2>2. QED BY <1>1, <2>1 DEF Init, TypeOK, Workers
<1>3. Locals
  BY <1>1 DEF Locals, PurchasePcs, Workers
<1>4. Locking
  BY <1>1 DEF Locking, Apart, StillSo, KeyNamesOnePurchase, HoldsItem, HoldsWallet, PurchasePcs, Workers
<1>5. Mailing
  BY <1>1 DEF Mailing, SenderHoldsClaim, SoleSender, MailsAccounted, Sending, DeliveryPcs
<1>6. Queueing
  BY <1>1 DEF Queueing, TicketsQueued, DeliversTickets, HasTicket, DeliveryPcs, Init, OutboxInit
<1>7. QED
  BY <1>2, <1>3, <1>4, <1>5, <1>6 DEF ShopInv, Typed

-----------------------------------------------------------------------------
\* The steps of a transaction before its COMMIT.
TransactionMove(r) ==
    /\ UNCHANGED <<rowVars, job, batch, mailVars, trouble>>
    /\ \/ \E u \in Users, i \in Items, k \in Keys : PurchaseStart(r, u, i, k)
       \/ LockItem(r) \/ LookUpKey(r) \/ Debit(r) \/ InsertPurchase(r) \/ DropPurchase(r)

\* Its COMMIT.
CommitMove(r) == CommitPurchase(r) /\ UNCHANGED <<sent, claim, batch, mailVars, trouble>>

\* A step of a worker that delivers or sweeps.
DeliveryMove(w) ==
    /\ UNCHANGED shopVars
    /\ \/ DeliveryStep(w) \/ SendUnanswered(w) \/ DeliveryError(w)
       \/ w \in Sweepers /\ (SweepStart(w) \/ SweepRow(w))
       \/ DropDelivery(w) /\ (UNCHANGED batch \/ (w \in Sweepers /\ batch' = [batch EXCEPT ![w] = {}]))

\* There are no other steps than these.
LEMMA StepKinds ==
  ASSUME [Next]_vars
  PROVE  \/ \E p \in Projects, m \in Minutes : CreditProject(p, m)
         \/ \E r \in Requests : TransactionMove(r)
         \/ \E r \in Requests : CommitMove(r)
         \/ \E w \in Workers : DeliveryMove(w)
         \/ (\E u \in Users : ClaimLapses(u)) /\ UNCHANGED shopVars
         \/ Recover /\ UNCHANGED shopVars
         \/ UNCHANGED vars
<1>1. ASSUME NEW r \in Requests, RequestNext(r)
      PROVE  TransactionMove(r) \/ CommitMove(r) \/ DeliveryMove(r)
  <2>1. CASE PurchaseNext(r)
    BY <2>1 DEF PurchaseNext, TransactionMove, CommitMove
  <2>2. CASE (DeliveryStep(r) \/ SendUnanswered(r) \/ DeliveryError(r)) /\ UNCHANGED shopVars
    BY <2>2 DEF DeliveryMove
  <2>3. CASE DropDelivery(r) /\ UNCHANGED <<batch, shopVars>>
    <3>1. DropDelivery(r) /\ UNCHANGED batch /\ UNCHANGED shopVars
      BY <2>3
    <3>2. DeliveryMove(r)
      BY <3>1 DEF DeliveryMove
    <3>3. QED BY <3>2
  <2>4. QED BY <1>1, <2>1, <2>2, <2>3 DEF RequestNext
<1>2. ASSUME NEW s \in Sweepers, SweeperNext(s), UNCHANGED shopVars PROVE DeliveryMove(s)
  BY <1>2 DEF SweeperNext, SweepStep, DeliveryMove
<1>3. QED
  BY <1>1, <1>2 DEF Next, Workers

\* What a step of a worker that delivers leaves alone.
LEMMA DeliveryFrame ==
  ASSUME Typed, NEW w \in Workers, DeliveryMove(w)
  PROVE  /\ wpc[w] \in {"idle", "sweep"} \union DeliveryPcs
         /\ wpc'[w] \in {"idle", "sweep"} \union DeliveryPcs
         /\ wpc'[w] = "sweep" => w \in Sweepers
         /\ wpc[w] \in DeliveryPcs => job[w] \in Users
         /\ DOMAIN wpc' = Workers
         /\ \A v \in Workers : v # w => wpc'[v] = wpc[v] /\ job'[v] = job[v]
         /\ UNCHANGED outbox
<1>1. /\ DOMAIN wpc = Workers /\ job \in [Workers -> Users \union {None}]
      /\ wpc[w] \in DeliveryPcs => job[w] \in Users
  BY DEF Typed, TypeOK, OutboxTypeOK, Locals
<1> USE DEF DeliveryPcs
<1>2. CASE DeliveryStep(w)
  <2>1. CASE Claim(w)
    BY <1>1, <2>1 DEF Claim, Delivered, Step
  <2>2. CASE SendSkipped(w) \/ SendAccepted(w) \/ SendRefused(w)
    BY <1>1, <2>2 DEF SendSkipped, SendAccepted, SendRefused, AsksProvider, Step, rowVars
  <2>3. CASE MarkSent(w) \/ MarkFailed(w)
    BY <1>1, <2>3 DEF MarkSent, MarkFailed, Delivered, Step
  <2>4. QED BY <1>2, <2>1, <2>2, <2>3 DEF DeliveryStep
<1>3. CASE SendUnanswered(w) \/ DeliveryError(w)
  BY <1>1, <1>3 DEF SendUnanswered, AsksProvider, DeliveryError, Delivered, Step, rowVars
<1>4. CASE w \in Sweepers /\ (SweepStart(w) \/ SweepRow(w))
  BY <1>1, <1>4 DEF SweepStart, SweepRow, Deliver, Step, rowVars
<1>5. CASE DropDelivery(w)
  BY <1>1, <1>5 DEF DropDelivery, Step, rowVars
<1>6. QED
  BY <1>2, <1>3, <1>4, <1>5 DEF DeliveryMove

\* A transaction goes on to its next statement, or ends and forgets its locals.
LEMMA TransactionKinds ==
  ASSUME NEW r, TransactionMove(r)
  PROVE  \/ \E u \in Users, i \in Items, k \in Keys : PurchaseStart(r, u, i, k)
         \/ LockItem(r)
         \/ /\ wpc[r] \in PurchasePcs /\ UNCHANGED <<walletVars, purchases>>
            /\ \/ Step(r, "idle") /\ Forget(r)
               \/ \E label \in {"debit", "insert", "commit"} : GoOn(r, label)
<1> USE DEF PurchasePcs
<1>1. CASE LookUpKey(r)
  BY <1>1 DEF LookUpKey, Answer
<1>2. CASE Debit(r)
  BY <1>2 DEF Debit, Answer
<1>3. CASE InsertPurchase(r)
  BY <1>3 DEF InsertPurchase, Answer
<1>4. CASE DropPurchase(r)
  BY <1>4 DEF DropPurchase
<1>5. QED
  BY <1>1, <1>2, <1>3, <1>4 DEF TransactionMove

\* What a transaction leaves alone before its COMMIT, and where it stands.
LEMMA TransactionFrame ==
  ASSUME Typed, NEW r \in Requests, TransactionMove(r)
  PROVE  /\ wpc[r] \in {"idle"} \union PurchasePcs
         /\ wpc'[r] \in {"idle"} \union PurchasePcs
         /\ DOMAIN wpc' = Workers
         /\ \A v \in Workers : v # r => wpc'[v] = wpc[v]
         /\ \A q \in Requests : q # r => buyer'[q] = buyer[q] /\ item'[q] = item[q] /\ key'[q] = key[q]
         /\ wpc'[r] \notin {"lock", "idle"} => UNCHANGED requestVars
         /\ wpc'[r] = "lock" => buyer'[r] \in Users /\ item'[r] \in Items /\ key'[r] \in Keys
         /\ wpc'[r] \in PurchasePcs \ {"lock"} => wpc[r] \in PurchasePcs
         /\ buyer' \in [Requests -> Users \union {None}]
         /\ item' \in [Requests -> Items \union {None}]
         /\ key' \in [Requests -> Keys \union {None}]
         /\ UNCHANGED <<walletVars, purchases>>
<1>1. /\ DOMAIN wpc = Workers /\ r \in Workers
      /\ buyer \in [Requests -> Users \union {None}]
      /\ item \in [Requests -> Items \union {None}]
      /\ key \in [Requests -> Keys \union {None}]
  BY DEF Typed, TypeOK, OutboxTypeOK, Locals, Workers
<1> USE DEF PurchasePcs
<1>2. CASE \E u \in Users, i \in Items, k \in Keys : PurchaseStart(r, u, i, k)
  BY <1>1, <1>2 DEF PurchaseStart, Step
<1>3. CASE LockItem(r)
  BY <1>1, <1>3 DEF LockItem, Step, shopVars, requestVars
<1>4. CASE wpc[r] \in PurchasePcs /\ UNCHANGED <<walletVars, purchases>> /\ Step(r, "idle") /\ Forget(r)
  BY <1>1, <1>4, NoneIsNoUser DEF Step, Forget
<1>5. CASE /\ wpc[r] \in PurchasePcs /\ UNCHANGED <<walletVars, purchases>>
           /\ \E label \in {"debit", "insert", "commit"} : GoOn(r, label)
  BY <1>1, <1>5 DEF GoOn, Step, requestVars
<1>6. QED
  BY <1>2, <1>3, <1>4, <1>5, TransactionKinds

-----------------------------------------------------------------------------
\* A worker that delivers keeps the types.
LEMMA DeliveryTyped ==
  ASSUME Typed, NEW w \in Workers, DeliveryMove(w)
  PROVE  Typed'
<1> USE NoneIsNoUser, MailBoundPositive
<1>1. /\ outbox \in Seq(Users) /\ sent \subseteq Users
      /\ claim \in [Users -> {"free", "held", "lapsed"}]
      /\ job \in [Workers -> Users \union {None}]
      /\ batch \in [Sweepers -> SUBSET DOMAIN outbox]
      /\ mails \in [Users -> 0..MaxMails]
      /\ unconfirmed \subseteq Users /\ waived \subseteq Users
      /\ trouble \in BOOLEAN
      /\ \A v \in Workers : wpc[v] \in DeliveryPcs => job[v] \in Users
      /\ \A v \in Sweepers : wpc[v] \in {"idle", "sweep"} \union DeliveryPcs
      /\ \A v \in Requests : wpc[v] \in {"idle"} \union PurchasePcs \union DeliveryPcs
  BY DEF Typed, TypeOK, OutboxTypeOK
<1>2. /\ wpc[w] \in {"idle", "sweep"} \union DeliveryPcs
      /\ wpc'[w] \in {"idle", "sweep"} \union DeliveryPcs
      /\ wpc'[w] = "sweep" => w \in Sweepers
      /\ wpc[w] \in DeliveryPcs => job[w] \in Users
      /\ DOMAIN wpc' = Workers
      /\ \A v \in Workers : v # w => wpc'[v] = wpc[v] /\ job'[v] = job[v]
      /\ UNCHANGED outbox
      /\ UNCHANGED shopVars
  BY DeliveryFrame DEF DeliveryMove
<1>3. UNCHANGED <<credited, minutes, wallet, purchases, buyer, item, key, reply>>
  BY <1>2 DEF shopVars, walletVars, requestVars
<1>4. Locals'
  BY <1>2, <1>3 DEF Typed, Locals, PurchasePcs, DeliveryPcs, Workers
<1> DEFINE Kept == /\ sent' \subseteq Users
                   /\ claim' \in [Users -> {"free", "held", "lapsed"}]
                   /\ job' \in [Workers -> Users \union {None}]
                   /\ wpc'[w] \in DeliveryPcs => job'[w] \in Users
                   /\ batch' \in [Sweepers -> SUBSET DOMAIN outbox]
                   /\ mails' \in [Users -> 0..MaxMails]
                   /\ unconfirmed' \subseteq Users /\ waived' \subseteq Users
                   /\ trouble' \in BOOLEAN
<1>5. ASSUME Kept PROVE Typed'
  <2>1. \A v \in Workers : wpc'[v] \in DeliveryPcs => job'[v] \in Users
    BY <1>1, <1>2, <1>5
  <2>2. \A v \in Sweepers : wpc'[v] \in {"idle", "sweep"} \union DeliveryPcs
    BY <1>1, <1>2 DEF Workers
  <2>3. \A v \in Requests : wpc'[v] \in {"idle"} \union PurchasePcs \union DeliveryPcs
    <3>1. \A v \in Requests : v \in Workers /\ v \notin Sweepers
      BY WorkersAreDistinct DEF Workers
    <3>2. ASSUME NEW v \in Requests, v = w PROVE wpc'[v] \in {"idle"} \union DeliveryPcs
      BY <1>2, <3>1, <3>2
    <3>3. ASSUME NEW v \in Requests, v # w PROVE wpc'[v] = wpc[v]
      BY <1>2, <3>1, <3>3
    <3>4. QED BY <1>1, <3>2, <3>3
  <2>4. OutboxTypeOK'
    BY <1>1, <1>2, <1>5, <2>1, <2>2 DEF OutboxTypeOK
  <2>5. TypeOK'
    BY <1>3, <2>3, <2>4 DEF Typed, TypeOK
  <2>6. QED BY <1>4, <2>5 DEF Typed
<1>6. SUFFICES Kept
  BY <1>5
<1> USE DEF DeliveryPcs
<1>7. CASE DeliveryStep(w)
  <2>1. CASE Claim(w)
    BY <1>1, <1>2, <2>1, ZenonT(60) DEF Claim, Delivered, Step, mailVars
  <2>2. CASE SendAccepted(w)
    <3>1. mails' = [mails EXCEPT ![job[w]] = @ + 1] /\ mails[job[w]] < MaxMails /\ job[w] \in Users
      BY <1>2, <2>2 DEF SendAccepted, AsksProvider
    <3>2. mails' \in [Users -> 0..MaxMails]
      BY <1>1, <3>1
    <3>3. QED BY <1>1, <1>2, <2>2, <3>2 DEF SendAccepted, AsksProvider, Step, rowVars
  <2>3. CASE SendSkipped(w) \/ SendRefused(w)
    BY <1>1, <1>2, <2>3 DEF SendSkipped, SendRefused, AsksProvider, Step, rowVars, mailVars
  <2>4. CASE MarkSent(w)
    <3>1. sent' \subseteq Users /\ waived' \subseteq Users
      BY <1>1, <1>2, <2>4 DEF MarkSent
    <3>2. claim' \in [Users -> {"free", "held", "lapsed"}]
      BY <1>1, <2>4 DEF MarkSent
    <3>3. job' \in [Workers -> Users \union {None}] /\ wpc'[w] \notin DeliveryPcs
      BY <1>1, <1>2, <2>4, ZenonT(60) DEF MarkSent, Delivered, Step, Typed, Locals
    <3>4. QED BY <1>1, <2>4, <3>1, <3>2, <3>3 DEF MarkSent
  <2>5. CASE MarkFailed(w)
    BY <1>1, <1>2, <2>5, ZenonT(60) DEF MarkFailed, Delivered, Step, mailVars
  <2>6. QED BY <1>7, <2>1, <2>2, <2>3, <2>4, <2>5 DEF DeliveryStep
<1>8. CASE SendUnanswered(w)
  <2>1. mails' = [mails EXCEPT ![job[w]] = @ + 1] /\ mails[job[w]] < MaxMails - 1 /\ job[w] \in Users
    BY <1>2, <1>8 DEF SendUnanswered, AsksProvider
  <2>2. mails' \in [Users -> 0..MaxMails]
    BY <1>1, <2>1
  <2>3. QED BY <1>1, <1>2, <1>8, <2>2 DEF SendUnanswered, AsksProvider, Step, rowVars
<1>9. CASE DeliveryError(w)
  BY <1>1, <1>2, <1>9 DEF DeliveryError, Unrecorded, Delivered, Step, rowVars
<1>10. CASE w \in Sweepers /\ SweepStart(w)
  <2>1. batch' = [batch EXCEPT ![w] = Due]
    BY <1>10 DEF SweepStart
  <2>2. batch' \in [Sweepers -> SUBSET DOMAIN outbox]
    BY <1>1, <2>1 DEF Due, Unsent
  <2>3. wpc'[w] = "sweep"
    BY <1>10 DEF SweepStart, Step, Typed, Locals
  <2>4. QED BY <1>1, <1>10, <2>2, <2>3 DEF SweepStart, rowVars, mailVars
<1>11. CASE w \in Sweepers /\ SweepRow(w)
  <2>1. CASE batch[w] = {}
    BY <1>1, <1>11, <2>1 DEF SweepRow, Step, rowVars, mailVars, Typed, Locals
  <2>2. CASE batch[w] # {}
    <3>1. PICK n \in batch[w] : Deliver(w, outbox[n]) /\ batch' = [batch EXCEPT ![w] = @ \ {n}]
      BY <1>11, <2>2 DEF SweepRow
    <3>2. outbox[n] \in Users
      BY <1>1, <1>11
    <3>3. batch' \in [Sweepers -> SUBSET DOMAIN outbox]
      BY <1>1, <1>11, <3>1
    <3>4. job' \in [Workers -> Users \union {None}] /\ job'[w] \in Users
      BY <1>1, <3>1, <3>2 DEF Deliver
    <3>5. QED BY <1>1, <1>11, <3>3, <3>4 DEF SweepRow, rowVars, mailVars
  <2>3. QED BY <2>1, <2>2
<1>12. CASE DropDelivery(w) /\ (UNCHANGED batch \/ (w \in Sweepers /\ batch' = [batch EXCEPT ![w] = {}]))
  <2>1. wpc'[w] = "idle"
    BY <1>12 DEF DropDelivery, Step, Typed, Locals
  <2>2. QED BY <1>1, <1>2, <1>12, <2>1 DEF DropDelivery, Unrecorded, rowVars
<1>13. QED
  BY <1>7, <1>8, <1>9, <1>10, <1>11, <1>12 DEF DeliveryMove

\* What requests are answered.
Replies == {None, "claimed", "replayed", "already_claimed", "key_used_for_another_item",
            "not_enough_hours", "internal_error"}

\* So does a transaction before its COMMIT.
LEMMA TransactionTyped ==
  ASSUME Typed, NEW r \in Requests, TransactionMove(r)
  PROVE  Typed'
<1> USE NoneIsNoUser
<1>1. /\ wpc'[r] \in {"idle"} \union PurchasePcs
      /\ DOMAIN wpc' = Workers
      /\ \A v \in Workers : v # r => wpc'[v] = wpc[v]
      /\ \A q \in Requests : q # r => buyer'[q] = buyer[q] /\ item'[q] = item[q] /\ key'[q] = key[q]
      /\ wpc'[r] \notin {"lock", "idle"} => UNCHANGED requestVars
      /\ wpc'[r] = "lock" => buyer'[r] \in Users /\ item'[r] \in Items /\ key'[r] \in Keys
      /\ wpc'[r] \in PurchasePcs \ {"lock"} => wpc[r] \in PurchasePcs
      /\ buyer' \in [Requests -> Users \union {None}]
      /\ item' \in [Requests -> Items \union {None}]
      /\ key' \in [Requests -> Keys \union {None}]
      /\ UNCHANGED <<walletVars, purchases>>
  BY TransactionFrame
<1>2. UNCHANGED <<outbox, sent, claim, job, batch, mails, unconfirmed, waived, trouble>>
  BY DEF TransactionMove, rowVars, mailVars
<1>3. UNCHANGED <<credited, minutes, wallet, purchases>>
  BY <1>1 DEF walletVars
<1>4. TypeOK /\ Locals
  BY DEF Typed
<1>5. r \notin Sweepers /\ r \in Workers /\ \A v \in Requests \union Sweepers : v \in Workers
  BY WorkersAreDistinct DEF Workers
<1>6. Locals'
  <2>1. \A q \in Requests : wpc'[q] \in PurchasePcs =>
          buyer'[q] \in Users /\ item'[q] \in Items /\ key'[q] \in Keys
    BY <1>1, <1>4, <1>5 DEF Locals, requestVars, PurchasePcs
  <2>2. QED BY <1>1, <2>1 DEF Locals
<1>7. reply' \in [Requests -> Replies]
  <2>1. reply \in [Requests -> Replies]
    BY <1>4 DEF TypeOK, Replies
  <2>2. reply' = reply \/ \E t \in Replies : reply' = [reply EXCEPT ![r] = t]
    BY DEF TransactionMove, PurchaseStart, LockItem, LookUpKey, Debit, InsertPurchase, DropPurchase,
           Answer, GoOn, shopVars, Replies
  <2>3. QED BY <2>1, <2>2
<1>8. OutboxTypeOK'
  <2>1. \A w \in Workers : wpc'[w] \in DeliveryPcs => job'[w] \in Users
    BY <1>1, <1>2, <1>4 DEF TypeOK, OutboxTypeOK, PurchasePcs, DeliveryPcs
  <2>2. \A s \in Sweepers : wpc'[s] \in {"idle", "sweep"} \union DeliveryPcs
    BY <1>1, <1>4, <1>5 DEF TypeOK, OutboxTypeOK
  <2>3. QED BY <1>2, <1>4, <2>1, <2>2 DEF TypeOK, OutboxTypeOK
<1>9. \A q \in Requests : wpc'[q] \in {"idle"} \union PurchasePcs \union DeliveryPcs
  BY <1>1, <1>4, <1>5 DEF TypeOK
<1>10. QED
  BY <1>1, <1>3, <1>4, <1>6, <1>7, <1>8, <1>9 DEF Typed, TypeOK, Replies

\* And its COMMIT, since the balance it debited covers the price.
LEMMA CommitTyped ==
  ASSUME Typed, StillSo, NEW r \in Requests, CommitMove(r)
  PROVE  Typed'
<1> USE NoneIsNoUser
<1>1. TypeOK /\ Locals
  BY DEF Typed
<1>2. /\ wpc[r] = "commit" /\ r \in Workers /\ r \notin Sweepers
      /\ \A v \in Requests \union Sweepers : v \in Workers
  BY WorkersAreDistinct DEF CommitMove, CommitPurchase, Workers
<1>3. buyer[r] \in Users /\ item[r] \in Items /\ key[r] \in Keys
  BY <1>1, <1>2 DEF Locals, PurchasePcs
<1>4. /\ UNCHANGED <<sent, claim, batch, mails, unconfirmed, waived, trouble, credited, minutes>>
      /\ Forget(r)
      /\ purchases' = purchases \union {<<buyer[r], item[r], key[r]>>}
      /\ wallet' = [wallet EXCEPT ![buyer[r]] = @ - Price[item[r]]]
      /\ reply' = [reply EXCEPT ![r] = "claimed"]
  BY DEF CommitMove, CommitPurchase, mailVars
<1>5. wallet' \in [Users -> Nat]
  <2>1. wallet \in [Users -> Nat] /\ wallet[buyer[r]] >= Price[item[r]] /\ Price[item[r]] \in Nat
    BY <1>1, <1>2, <1>3, PricesPositive DEF TypeOK, StillSo, Covers
  <2>2. wallet[buyer[r]] - Price[item[r]] \in Nat
    BY <1>3, <2>1
  <2>3. QED BY <1>4, <2>1, <2>2
<1>6. \/ /\ outbox' = Append(outbox, buyer[r])
         /\ wpc' = [wpc EXCEPT ![r] = "claim"] /\ job' = [job EXCEPT ![r] = buyer[r]]
      \/ UNCHANGED <<outbox, job>> /\ wpc' = [wpc EXCEPT ![r] = "idle"]
  BY DEF CommitMove, CommitPurchase, Deliver, Step
<1>7. /\ DOMAIN wpc' = Workers /\ wpc'[r] \in {"idle", "claim"}
      /\ \A v \in Workers : v # r => wpc'[v] = wpc[v] /\ job'[v] = job[v]
      /\ wpc'[r] = "claim" => job'[r] \in Users
      /\ job' \in [Workers -> Users \union {None}]
  BY <1>1, <1>2, <1>3, <1>6 DEF Locals, TypeOK, OutboxTypeOK
<1>8. outbox' \in Seq(Users) /\ DOMAIN outbox \subseteq DOMAIN outbox'
  <2>1. outbox \in Seq(Users)
    BY <1>1 DEF TypeOK, OutboxTypeOK
  <2>2. QED BY <1>3, <1>6, <2>1, SMTT(30)
<1>9. batch' \in [Sweepers -> SUBSET DOMAIN outbox']
  <2>1. batch \in [Sweepers -> SUBSET DOMAIN outbox]
    BY <1>1 DEF TypeOK, OutboxTypeOK
  <2>2. QED BY <1>4, <1>8, <2>1
<1>10. OutboxTypeOK'
  <2>1. \A w \in Workers : wpc'[w] \in DeliveryPcs => job'[w] \in Users
    BY <1>1, <1>7 DEF TypeOK, OutboxTypeOK, DeliveryPcs
  <2>2. \A s \in Sweepers : wpc'[s] \in {"idle", "sweep"} \union DeliveryPcs
    BY <1>1, <1>2, <1>7 DEF TypeOK, OutboxTypeOK
  <2>3. QED BY <1>1, <1>4, <1>7, <1>8, <1>9, <2>1, <2>2 DEF TypeOK, OutboxTypeOK
<1>11. \A q \in Requests : wpc'[q] \in {"idle"} \union PurchasePcs \union DeliveryPcs
  BY <1>1, <1>2, <1>7 DEF TypeOK, DeliveryPcs
<1>12. Locals'
  BY <1>1, <1>2, <1>4, <1>7 DEF Locals, PurchasePcs, TypeOK, Forget
<1>13. purchases' \subseteq Users \X Items \X Keys
  BY <1>1, <1>3, <1>4 DEF TypeOK
<1>14. reply' \in [Requests -> Replies]
  BY <1>1, <1>4 DEF TypeOK, Replies
<1>15. /\ buyer' \in [Requests -> Users \union {None}]
       /\ item' \in [Requests -> Items \union {None}]
       /\ key' \in [Requests -> Keys \union {None}]
  BY <1>1, <1>4 DEF TypeOK, Forget
<1>16. QED
  BY <1>1, <1>4, <1>5, <1>10, <1>11, <1>12, <1>13, <1>14, <1>15 DEF Typed, TypeOK, Replies

\* Every step keeps the types.
LEMMA TypedStep == ASSUME Typed, StillSo, [Next]_vars PROVE Typed'
<1>1. ASSUME NEW p \in Projects, NEW m \in Minutes, CreditProject(p, m) PROVE Typed'
  <2>1. /\ UNCHANGED <<outbox, sent, claim, wpc, job, batch, mails, unconfirmed, waived, trouble>>
        /\ UNCHANGED <<purchases, buyer, item, key, reply>>
        /\ credited' = credited \union {p} /\ minutes' = [minutes EXCEPT ![p] = m]
        /\ wallet' = [wallet EXCEPT ![Owner[p]] = @ + m]
    BY <1>1 DEF CreditProject, deliveryVars, rowVars, mailVars, requestVars
  <2>2. wallet' \in [Users -> Nat]
    <3>1. wallet \in [Users -> Nat] /\ m \in Nat /\ Owner[p] \in Users
      BY CreditsAreNat, OwnersAreUsers DEF Typed, TypeOK
    <3>2. QED BY <2>1, <3>1
  <2>3. minutes' \in [Projects -> Nat]
    BY <2>1, CreditsAreNat DEF Typed, TypeOK
  <2>4. QED BY <2>1, <2>2, <2>3 DEF Typed, TypeOK, OutboxTypeOK, Locals
<1>2. ASSUME NEW u \in Users, ClaimLapses(u), UNCHANGED shopVars PROVE Typed'
  BY <1>2 DEF ClaimLapses, shopVars, walletVars, requestVars, mailVars, Typed, TypeOK, OutboxTypeOK, Locals
<1>3. CASE Recover /\ UNCHANGED shopVars
  BY <1>3 DEF Recover, shopVars, walletVars, requestVars, rowVars, mailVars, Typed, TypeOK, OutboxTypeOK, Locals
<1>4. CASE UNCHANGED vars
  BY <1>4 DEF vars, deliveryVars, shopVars, walletVars, requestVars, rowVars, mailVars,
              Typed, TypeOK, OutboxTypeOK, Locals
<1>5. QED
  BY StepKinds, DeliveryTyped, TransactionTyped, CommitTyped, <1>1, <1>2, <1>3, <1>4

-----------------------------------------------------------------------------
\* Steps that leave transactions where they are keep what these rely on.
LEMMA LockingFrame ==
  ASSUME Locking, UNCHANGED <<purchases, buyer, item, key>>,
         \A r \in Requests : wpc'[r] = wpc[r] \/ (wpc[r] \notin PurchasePcs /\ wpc'[r] \notin PurchasePcs),
         \A r \in Requests : wpc[r] \in {"insert", "commit"} /\ Covers(buyer[r], item[r])
                               => Covers(buyer[r], item[r])'
  PROVE  Locking'
<1>1. \A r \in Requests : wpc'[r] \in PurchasePcs => wpc'[r] = wpc[r]
  OBVIOUS
<1>2. Apart'
  BY <1>1 DEF Locking, Apart, HoldsItem, HoldsWallet, PurchasePcs
<1>3. StillSo'
  BY <1>1 DEF Locking, StillSo, Claimed, KeyTaken, PurchasePcs
<1>4. KeyNamesOnePurchase'
  BY DEF Locking, KeyNamesOnePurchase
<1>5. QED
  BY <1>2, <1>3, <1>4 DEF Locking

\* A transaction before its COMMIT keeps apart from the others.
LEMMA LockingTransaction ==
  ASSUME Typed, Locking, NEW r \in Requests, TransactionMove(r)
  PROVE  Locking'
<1>1. /\ wpc[r] \in {"idle"} \union PurchasePcs
      /\ wpc'[r] \in {"idle"} \union PurchasePcs
      /\ \A q \in Requests : q # r => /\ wpc'[q] = wpc[q] /\ buyer'[q] = buyer[q]
                                      /\ item'[q] = item[q] /\ key'[q] = key[q]
      /\ wpc'[r] \notin {"lock", "idle"} => UNCHANGED requestVars
      /\ wpc'[r] \in PurchasePcs \ {"lock"} => wpc[r] \in PurchasePcs
      /\ UNCHANGED <<wallet, purchases>>
  BY TransactionFrame DEF Workers, walletVars
<1>2. /\ \A q \in Requests, i \in Items : HoldsItem(q, i) /\ HoldsItem(r, i) => q = r
      /\ \A q \in Requests, u \in Users : HoldsWallet(q, u) /\ HoldsWallet(r, u) => q = r
  BY DEF Locking, Apart
<1>3. DOMAIN wpc = Workers /\ r \in Workers
  BY DEF Typed, Locals, Workers
<1>4. \A q \in Requests : wpc[q] \in PurchasePcs => buyer[q] \in Users /\ item[q] \in Items /\ key[q] \in Keys
  BY DEF Typed, Locals
<1>5. ASSUME /\ wpc'[r] \in {"lookup", "debit", "insert", "commit"} =>
                  wpc[r] \in {"lookup", "debit", "insert", "commit"} \/ ItemLockFree(item[r])
             /\ wpc'[r] \in {"insert", "commit"} =>
                  wpc[r] \in {"insert", "commit"} \/ \A q \in Requests : ~HoldsWallet(q, buyer[r])
             /\ wpc'[r] \in {"debit", "insert", "commit"} => <<buyer[r], item[r], key[r]>> \notin purchases
             /\ wpc'[r] \in {"insert", "commit"} => Covers(buyer[r], item[r])
             /\ wpc'[r] = "commit" => ~Claimed(buyer[r], item[r]) /\ ~KeyTaken(buyer[r], key[r])
      PROVE  Locking'
  <2>1. wpc'[r] \in PurchasePcs \ {"lock"} => buyer'[r] = buyer[r] /\ item'[r] = item[r] /\ key'[r] = key[r]
    BY <1>1 DEF requestVars, PurchasePcs
  <2>2. \A q \in Requests, i \in Items : q # r => ~(HoldsItem(q, i) /\ HoldsItem(r, i))'
    BY <1>1, <1>2, <1>5, <2>1 DEF HoldsItem, ItemLockFree, PurchasePcs
  <2>3. \A q \in Requests, u \in Users : q # r => ~(HoldsWallet(q, u) /\ HoldsWallet(r, u))'
    BY <1>1, <1>2, <1>5, <2>1 DEF HoldsWallet, PurchasePcs
  <2>4. Apart'
    BY <1>1, <2>2, <2>3 DEF Locking, Apart, HoldsItem, HoldsWallet
  <2>5. StillSo'
    <3>1. ASSUME NEW q \in Requests, q # r
          PROVE  /\ wpc'[q] \in {"debit", "insert", "commit"} => <<buyer'[q], item'[q], key'[q]>> \notin purchases'
                 /\ wpc'[q] \in {"insert", "commit"} => Covers(buyer[q], item[q])'
                 /\ wpc'[q] = "commit" => ~Claimed(buyer[q], item[q])' /\ ~KeyTaken(buyer[q], key[q])'
      BY <1>1, <3>1 DEF Locking, StillSo, Covers, Claimed, KeyTaken
    <3>2. /\ wpc'[r] \in {"debit", "insert", "commit"} => <<buyer'[r], item'[r], key'[r]>> \notin purchases'
          /\ wpc'[r] \in {"insert", "commit"} => Covers(buyer[r], item[r])'
          /\ wpc'[r] = "commit" => ~Claimed(buyer[r], item[r])' /\ ~KeyTaken(buyer[r], key[r])'
      BY <1>1, <1>5, <2>1 DEF Covers, Claimed, KeyTaken, PurchasePcs
    <3>3. QED BY <3>1, <3>2 DEF StillSo
  <2>6. KeyNamesOnePurchase'
    BY <1>1 DEF Locking, KeyNamesOnePurchase
  <2>7. QED BY <2>4, <2>5, <2>6 DEF Locking
<1>6. StillSo
  BY DEF Locking
<1>7. CASE \E u \in Users, i \in Items, k \in Keys : PurchaseStart(r, u, i, k)
  BY <1>3, <1>5, <1>7 DEF PurchaseStart, Step
<1>8. CASE LockItem(r)
  BY <1>3, <1>5, <1>8 DEF LockItem, Step
<1>9. CASE LookUpKey(r)
  <2>1. wpc[r] = "lookup"
    BY <1>9 DEF LookUpKey
  <2>2. wpc'[r] = "debit" => {row \in purchases : row[1] = buyer[r] /\ row[3] = key[r]} = {}
    <3>1. Answer(r, "key_used_for_another_item") \/ Answer(r, "replayed") => wpc'[r] = "idle"
      BY <1>3 DEF Answer, Step
    <3>2. QED BY <1>9, <3>1 DEF LookUpKey
  <2>3. wpc'[r] = "debit" => <<buyer[r], item[r], key[r]>> \notin purchases
    BY <2>2
  <2>4. wpc'[r] \in {"debit", "idle"}
    <3>1. \E label \in {"debit", "idle"} : Step(r, label)
      BY <1>9 DEF LookUpKey, Answer, GoOn
    <3>2. QED BY <1>3, <3>1 DEF Step
  <2>5. QED BY <1>5, <2>1, <2>3, <2>4
<1>10. CASE Debit(r)
  <2>1. wpc[r] = "debit" /\ <<buyer[r], item[r], key[r]>> \notin purchases
    BY <1>6, <1>10 DEF Debit, StillSo
  <2>2. wpc'[r] = "insert" => Covers(buyer[r], item[r])
    BY <1>3, <1>10 DEF Debit, Answer, GoOn, Step
  <2>3. wpc'[r] \in {"insert", "idle"}
    BY <1>3, <1>10 DEF Debit, Answer, GoOn, Step
  <2>4. \A q \in Requests : ~HoldsWallet(q, buyer[r])
    BY <1>10 DEF Debit
  <2>5. QED BY <1>5, <2>1, <2>2, <2>3, <2>4
<1>11. CASE InsertPurchase(r)
  <2>1. wpc[r] = "insert" /\ <<buyer[r], item[r], key[r]>> \notin purchases /\ Covers(buyer[r], item[r])
    BY <1>6, <1>11 DEF InsertPurchase, StillSo
  <2>2. CASE Claimed(buyer[r], item[r])
    <3>1. wpc'[r] = "idle"
      BY <1>3, <1>11, <2>2 DEF InsertPurchase, Answer, Step
    <3>2. QED BY <1>5, <3>1
  <2>3. CASE ~Claimed(buyer[r], item[r]) /\ KeyTaken(buyer[r], key[r])
    <3>1. wpc'[r] = "idle"
      BY <1>3, <1>11, <2>3 DEF InsertPurchase, Answer, Step
    <3>2. QED BY <1>5, <3>1
  <2>4. CASE ~Claimed(buyer[r], item[r]) /\ ~KeyTaken(buyer[r], key[r])
    <3>1. wpc'[r] = "commit"
      BY <1>3, <1>11, <2>4 DEF InsertPurchase, GoOn, Step
    <3>2. QED BY <1>5, <2>1, <2>4, <3>1
  <2>5. QED BY <2>2, <2>3, <2>4
<1>12. CASE DropPurchase(r)
  BY <1>3, <1>5, <1>12 DEF DropPurchase, Step
<1>13. QED
  BY <1>7, <1>8, <1>9, <1>10, <1>11, <1>12 DEF TransactionMove

\* A COMMIT disturbs no other transaction: those of the same wallet, or of the
\* same item, have not got far enough to rely on anything.
LEMMA LockingCommit ==
  ASSUME Typed, Locking, NEW r \in Requests, CommitMove(r)
  PROVE  Locking'
<1>1. /\ wpc[r] = "commit" /\ buyer[r] \in Users /\ item[r] \in Items /\ key[r] \in Keys
      /\ DOMAIN wpc = Workers /\ \A q \in Requests : q \in Workers
      /\ wallet \in [Users -> Nat] /\ purchases \subseteq Users \X Items \X Keys
  BY DEF CommitMove, CommitPurchase, Typed, TypeOK, Locals, PurchasePcs, Workers
<1>2. /\ \A q \in Requests : q # r => buyer'[q] = buyer[q] /\ item'[q] = item[q] /\ key'[q] = key[q]
      /\ purchases' = purchases \union {<<buyer[r], item[r], key[r]>>}
      /\ wallet' = [wallet EXCEPT ![buyer[r]] = @ - Price[item[r]]]
  BY DEF CommitMove, CommitPurchase, Forget, Typed, TypeOK
<1>3. wpc'[r] \notin PurchasePcs /\ \A q \in Requests : q # r => wpc'[q] = wpc[q]
  BY <1>1 DEF CommitMove, CommitPurchase, Deliver, Step, PurchasePcs
<1>4. \A q \in Requests : wpc[q] \in PurchasePcs => buyer[q] \in Users /\ item[q] \in Items /\ key[q] \in Keys
  BY DEF Typed, Locals
<1>5. Apart'
  BY <1>2, <1>3 DEF Locking, Apart, HoldsItem, HoldsWallet, PurchasePcs
<1>6. ASSUME NEW q \in Requests, q # r
      PROVE  /\ wpc[q] \in {"debit", "insert", "commit"} => item[q] # item[r]
             /\ wpc[q] \in {"insert", "commit"} => buyer[q] # buyer[r]
  BY <1>1, <1>6 DEF Locking, Apart, HoldsItem, HoldsWallet, PurchasePcs
<1>7. StillSo'
  <2> SUFFICES ASSUME NEW q \in Requests
               PROVE  /\ wpc'[q] \in {"debit", "insert", "commit"} =>
                           <<buyer[q], item[q], key[q]>> \notin purchases'
                      /\ wpc'[q] \in {"insert", "commit"} => Covers(buyer[q], item[q])'
                      /\ wpc'[q] = "commit" => ~Claimed(buyer[q], item[q])' /\ ~KeyTaken(buyer[q], key[q])'
    BY <1>2 DEF StillSo
  <2>1. CASE q = r
    BY <1>3, <2>1 DEF PurchasePcs
  <2>2. CASE q # r
    <3>1. wpc[q] \in {"debit", "insert", "commit"} => <<buyer[q], item[q], key[q]>> \notin purchases'
      BY <1>2, <1>6, <2>2 DEF Locking, StillSo
    <3>2. wpc[q] \in {"insert", "commit"} => Covers(buyer[q], item[q])'
      <4>1. wpc[q] \in {"insert", "commit"} => wallet'[buyer[q]] = wallet[buyer[q]]
        BY <1>1, <1>2, <1>4, <1>6, <2>2 DEF PurchasePcs
      <4>2. QED BY <1>2, <2>2, <4>1 DEF Locking, StillSo, Covers
    <3>3. wpc[q] = "commit" => ~Claimed(buyer[q], item[q])' /\ ~KeyTaken(buyer[q], key[q])'
      <4>1. SUFFICES ASSUME wpc[q] = "commit", NEW row \in purchases', row[1] = buyer[q],
                            row[2] = item[q] \/ row[3] = key[q]
                     PROVE  FALSE
        BY <1>2 DEF Claimed, KeyTaken
      <4>2. buyer[q] # buyer[r]
        BY <1>6, <2>2, <4>1
      <4>3. row \in purchases
        BY <1>2, <4>1, <4>2
      <4>4. ~Claimed(buyer[q], item[q]) /\ ~KeyTaken(buyer[q], key[q])
        BY <4>1 DEF Locking, StillSo
      <4>5. QED BY <4>1, <4>3, <4>4 DEF Claimed, KeyTaken
    <3>4. QED BY <1>3, <2>2, <3>1, <3>2, <3>3
  <2>3. QED BY <2>1, <2>2
<1>8. KeyNamesOnePurchase'
  <2>1. \A x \in purchases : ~(x[1] = buyer[r] /\ x[3] = key[r])
    BY <1>1 DEF Locking, StillSo, KeyTaken
  <2>2. QED BY <1>2, <2>1 DEF Locking, KeyNamesOnePurchase
<1>9. QED
  BY <1>5, <1>7, <1>8 DEF Locking

\* Every step keeps what transactions rely on.
LEMMA LockingStep == ASSUME Typed, Locking, [Next]_vars PROVE Locking'
<1>1. ASSUME NEW p \in Projects, NEW m \in Minutes, CreditProject(p, m) PROVE Locking'
  <2>1. /\ UNCHANGED <<wpc, purchases, buyer, item, key>>
        /\ \A q \in Requests : ~HoldsWallet(q, Owner[p])
        /\ wallet' = [wallet EXCEPT ![Owner[p]] = @ + m]
    BY <1>1 DEF CreditProject, deliveryVars, requestVars
  <2>2. \A q \in Requests : wpc[q] \in {"insert", "commit"} => buyer[q] \in Users /\ buyer[q] # Owner[p]
    BY <2>1 DEF HoldsWallet, Typed, Locals, PurchasePcs
  <2>3. \A q \in Requests : wpc[q] \in {"insert", "commit"} => wallet'[buyer[q]] = wallet[buyer[q]]
    BY <2>1, <2>2 DEF Typed, TypeOK
  <2>4. \A q \in Requests : wpc[q] \in {"insert", "commit"} /\ Covers(buyer[q], item[q]) => Covers(buyer[q], item[q])'
    BY <2>1, <2>3 DEF Covers
  <2>5. QED BY <2>1, <2>4, LockingFrame
<1>2. ASSUME NEW w \in Workers, DeliveryMove(w) PROVE Locking'
  <2>1. UNCHANGED <<purchases, buyer, item, key, wallet>>
    BY <1>2 DEF DeliveryMove, shopVars, requestVars, walletVars
  <2>2. \A q \in Requests : wpc'[q] = wpc[q] \/ (wpc[q] \notin PurchasePcs /\ wpc'[q] \notin PurchasePcs)
    BY <1>2, DeliveryFrame DEF Workers, PurchasePcs, DeliveryPcs
  <2>3. \A q \in Requests : wpc[q] \in {"insert", "commit"} /\ Covers(buyer[q], item[q]) => Covers(buyer[q], item[q])'
    BY <2>1 DEF Covers
  <2>4. QED BY <2>1, <2>2, <2>3, LockingFrame
<1>3. ASSUME UNCHANGED <<wpc, shopVars>> PROVE Locking'
  <2>1. UNCHANGED <<wpc, purchases, buyer, item, key, wallet>>
    BY <1>3 DEF shopVars, requestVars, walletVars
  <2>2. \A q \in Requests : wpc[q] \in {"insert", "commit"} /\ Covers(buyer[q], item[q]) => Covers(buyer[q], item[q])'
    BY <2>1 DEF Covers
  <2>3. QED BY <2>1, <2>2, LockingFrame
<1>4. CASE (\E u \in Users : ClaimLapses(u)) /\ UNCHANGED shopVars
  BY <1>3, <1>4 DEF ClaimLapses
<1>5. CASE Recover /\ UNCHANGED shopVars
  BY <1>3, <1>5 DEF Recover
<1>6. CASE UNCHANGED vars
  BY <1>3, <1>6 DEF vars, deliveryVars
<1>7. QED
  BY StepKinds, LockingTransaction, LockingCommit, <1>1, <1>2, <1>4, <1>5, <1>6

-----------------------------------------------------------------------------
\* Steps that start no sending keep what senders rely on.
LEMMA MailingFrame ==
  ASSUME Mailing, UNCHANGED <<sent, claim, mails, unconfirmed>>,
         \A w \in Workers, u \in Users : Sending(w, u)' => Sending(w, u),
         \A w \in Workers \ Silent : wpc[w] = "mark_sent" => wpc'[w] = "mark_sent" /\ job'[w] = job[w]
  PROVE  Mailing'
<1>1. SenderHoldsClaim'
  BY DEF Mailing, SenderHoldsClaim
<1>2. SoleSender'
  BY DEF Mailing, SoleSender
<1>3. MailsAccounted'
  BY DEF Mailing, MailsAccounted
<1>4. QED
  BY <1>1, <1>2, <1>3 DEF Mailing

\* Who is about to ask the provider does so for a row that is not sent and,
\* unless an acceptance was missed, for which nothing was accepted yet.
LEMMA SentOnlyOnce ==
  ASSUME Typed, Mailing, NEW w \in Workers, wpc[w] = "send"
  PROVE  /\ job[w] \in Users /\ job[w] \notin sent
         /\ job[w] \notin unconfirmed => mails[job[w]] = 0
<1> DEFINE u == job[w]
<1>1. u \in Users /\ mails[u] \in Nat
  BY DEF Typed, TypeOK, OutboxTypeOK, DeliveryPcs
<1>2. Sending(w, u)
  BY DEF Sending, DeliveryPcs
<1>3. ASSUME NEW v \in Workers, wpc[v] = "mark_sent", job[v] = u PROVE FALSE
  <2>1. Sending(v, u)
    BY <1>3 DEF Sending, DeliveryPcs
  <2>2. v = w
    BY <1>1, <1>2, <2>1 DEF Mailing, SoleSender
  <2>3. QED BY <1>3, <2>2
<1>4. u \notin sent
  BY <1>1, <1>2 DEF Mailing, SenderHoldsClaim
<1>5. QED
  BY <1>1, <1>3, <1>4 DEF Mailing, MailsAccounted

\* A worker that delivers keeps it.
LEMMA MailingDelivery ==
  ASSUME Typed, Mailing, NEW w \in Workers, DeliveryMove(w)
  PROVE  Mailing'
<1>1. /\ wpc[w] \in DeliveryPcs => job[w] \in Users
      /\ DOMAIN wpc = Workers
      /\ \A v \in Workers : v # w => wpc'[v] = wpc[v] /\ job'[v] = job[v]
      /\ mails \in [Users -> 0..MaxMails] /\ claim \in [Users -> {"free", "held", "lapsed"}]
      /\ job \in [Workers -> Users \union {None}]
  BY DeliveryFrame DEF Typed, TypeOK, OutboxTypeOK, Locals
<1> DEFINE u == job[w]
<1>2. /\ \A v \in Workers, x \in Users : Sending(v, x) => claim[x] = "held" /\ x \notin sent
      /\ \A x \in Users, v, y \in Workers : Sending(v, x) /\ Sending(y, x) => v = y
      /\ \A x \in Users : x \notin unconfirmed /\ mails[x] > 0 =>
           mails[x] = 1 /\ (x \in sent \/ \E v \in Workers \ Silent : wpc[v] = "mark_sent" /\ job[v] = x)
  BY DEF Mailing, SenderHoldsClaim, SoleSender, MailsAccounted
<1>3. \A v \in Workers, x \in Users : v # w => (Sending(v, x)' <=> Sending(v, x))
  BY <1>1 DEF Sending
<1>4. \A v \in Workers : wpc[v] = "mark_sent" /\ job[v] \in Users => Sending(v, job[v])
  BY DEF Sending, DeliveryPcs
\* leaving, or standing where nothing was claimed
<1>5. ASSUME UNCHANGED <<sent, claim, mails, unconfirmed>>, wpc[w] # "mark_sent" \/ w \in Silent,
             \A x \in Users : Sending(w, x)' => Sending(w, x)
      PROVE  Mailing'
  BY <1>1, <1>3, <1>5, MailingFrame
<1>6. ASSUME wpc'[w] \in {"idle", "sweep", "claim"} PROVE \A x \in Users : ~Sending(w, x)'
  BY <1>6 DEF Sending, DeliveryPcs
<1>7. CASE Claim(w)
  <2>1. wpc[w] = "claim" /\ u \in Users /\ UNCHANGED <<sent, mails, unconfirmed>>
    BY <1>1, <1>7 DEF Claim, mailVars, DeliveryPcs
  <2>2. CASE Claimable(u)
    <3>1. /\ claim' = [claim EXCEPT ![u] = "held"] /\ wpc'[w] = "send" /\ job' = job
          /\ u \notin sent /\ claim[u] # "held"
      BY <1>1, <1>7, <2>2 DEF Claim, Claimable, Step
    <3>2. \A v \in Workers : ~Sending(v, u)
      BY <1>2, <2>1, <3>1
    <3>3. \A x \in Users : Sending(w, x)' => x = u
      BY <3>1 DEF Sending
    <3>4. SenderHoldsClaim'
      BY <1>1, <1>2, <1>3, <2>1, <3>1, <3>3 DEF SenderHoldsClaim
    <3>5. SoleSender'
      BY <1>2, <1>3, <3>2, <3>3 DEF SoleSender
    <3>6. MailsAccounted'
      BY <1>1, <1>2, <2>1, <3>1 DEF MailsAccounted
    <3>7. QED BY <3>4, <3>5, <3>6 DEF Mailing
  <2>3. CASE ~Claimable(u)
    <3>1. wpc'[w] \in {"idle", "sweep"} /\ UNCHANGED claim
      BY <1>1, <1>7, <2>3 DEF Claim, Delivered, Step
    <3>2. QED BY <1>5, <1>6, <2>1, <3>1
  <2>4. QED BY <2>2, <2>3
<1>8. CASE SendAccepted(w)
  <2>1. /\ wpc[w] = "send" /\ u \in Users /\ UNCHANGED <<sent, claim, unconfirmed, job>>
        /\ mails' = [mails EXCEPT ![u] = @ + 1] /\ wpc'[w] = "mark_sent" /\ w \notin Silent
    BY <1>1, <1>8 DEF SendAccepted, AsksProvider, rowVars, Step, DeliveryPcs
  <2>2. \A x \in Users : Sending(w, x)' <=> Sending(w, x)
    BY <2>1 DEF Sending, DeliveryPcs
  <2>4. SenderHoldsClaim' /\ SoleSender'
    BY <1>2, <1>3, <2>1, <2>2 DEF SenderHoldsClaim, SoleSender
  <2>5. u \notin unconfirmed => mails[u] = 0
    BY <2>1, SentOnlyOnce
  <2>6. MailsAccounted'
    <3>1. SUFFICES ASSUME NEW x \in Users, x \notin unconfirmed, mails'[x] > 0
                   PROVE  mails'[x] = 1 /\ (x \in sent \/ \E v \in Workers \ Silent :
                                                          wpc'[v] = "mark_sent" /\ job'[v] = x)
      BY <2>1 DEF MailsAccounted
    <3>2. CASE x = u
      BY <1>1, <2>1, <2>5, <3>1, <3>2
    <3>3. CASE x # u
      <4>1. mails'[x] = mails[x]
        BY <1>1, <2>1, <3>3
      <4>2. mails[x] = 1 /\ (x \in sent \/ \E v \in Workers \ Silent : wpc[v] = "mark_sent" /\ job[v] = x)
        BY <1>2, <3>1, <4>1
      <4>3. QED BY <1>1, <2>1, <4>1, <4>2
    <3>4. QED BY <3>2, <3>3
  <2>7. QED BY <2>4, <2>6 DEF Mailing
<1>9. CASE SendSkipped(w) \/ SendRefused(w)
  <2>1. /\ UNCHANGED <<sent, claim, mails, unconfirmed, job>>
        /\ wpc[w] = "send" /\ wpc'[w] \in {"mark_sent", "mark_failed"}
    BY <1>1, <1>9 DEF SendSkipped, SendRefused, AsksProvider, rowVars, mailVars, Step
  <2>2. QED BY <1>5, <2>1 DEF Sending, DeliveryPcs
<1>10. CASE SendUnanswered(w)
  <2>1. /\ wpc[w] = "send" /\ u \in Users /\ UNCHANGED <<sent, claim, job>>
        /\ unconfirmed' = unconfirmed \union {u}
        /\ mails' = [mails EXCEPT ![u] = @ + 1] /\ wpc'[w] = "mark_failed"
    BY <1>1, <1>10 DEF SendUnanswered, AsksProvider, rowVars, Step, DeliveryPcs
  <2>2. \A x \in Users : Sending(w, x)' <=> Sending(w, x)
    BY <2>1 DEF Sending, DeliveryPcs
  <2>3. SenderHoldsClaim' /\ SoleSender'
    BY <1>2, <1>3, <2>1, <2>2 DEF SenderHoldsClaim, SoleSender
  <2>4. MailsAccounted'
    BY <1>1, <1>2, <2>1 DEF MailsAccounted
  <2>5. QED BY <2>3, <2>4 DEF Mailing
<1>11. CASE MarkSent(w) \/ MarkFailed(w)
  <2>1. /\ wpc[w] \in {"mark_sent", "mark_failed"} /\ u \in Users /\ wpc'[w] \in {"idle", "sweep"}
        /\ claim' = [claim EXCEPT ![u] = "free"] /\ UNCHANGED <<mails, unconfirmed>>
        /\ sent' = sent \/ sent' = sent \union {u}
        /\ wpc[w] = "mark_sent" => u \in sent'
    BY <1>1, <1>11 DEF MarkSent, MarkFailed, Delivered, Step, mailVars, DeliveryPcs
  <2>2. Sending(w, u)
    BY <2>1 DEF Sending, DeliveryPcs
  <2>3. \A v \in Workers, x \in Users : Sending(v, x)' => Sending(v, x) /\ x # u
    BY <1>2, <1>3, <1>6, <2>1, <2>2
  <2>4. SenderHoldsClaim' /\ SoleSender'
    BY <1>1, <1>2, <2>1, <2>3 DEF SenderHoldsClaim, SoleSender
  <2>5. MailsAccounted'
    BY <1>1, <1>2, <2>1 DEF MailsAccounted
  <2>6. QED BY <2>4, <2>5 DEF Mailing
<1>12. CASE DeliveryError(w) \/ DropDelivery(w)
  <2>1. /\ wpc'[w] \in {"idle", "sweep"} /\ UNCHANGED <<sent, claim, mails>>
        /\ wpc[w] \in {"sweep"} \union DeliveryPcs /\ (wpc[w] \in DeliveryPcs => u \in Users)
        /\ unconfirmed' = IF wpc[w] = "mark_sent" /\ w \notin Silent
                            THEN unconfirmed \union {u} ELSE unconfirmed
    BY <1>1, <1>12 DEF DeliveryError, DropDelivery, Unrecorded, Delivered, Step, rowVars
  <2>2. \A v \in Workers, x \in Users : Sending(v, x)' => Sending(v, x)
    BY <1>3, <1>6, <2>1
  <2>3. SenderHoldsClaim' /\ SoleSender'
    BY <1>2, <2>1, <2>2 DEF SenderHoldsClaim, SoleSender
  <2>4. MailsAccounted'
    BY <1>1, <1>2, <2>1 DEF MailsAccounted
  <2>5. QED BY <2>3, <2>4 DEF Mailing
<1>13. CASE SweepStart(w) \/ SweepRow(w)
  <2>1. /\ UNCHANGED <<sent, claim, mails, unconfirmed>> /\ wpc[w] \in {"idle", "sweep"}
        /\ wpc'[w] \in {"idle", "sweep", "claim"}
    BY <1>1, <1>13 DEF SweepStart, SweepRow, Deliver, Step, rowVars, mailVars
  <2>2. QED BY <1>5, <1>6, <2>1
<1>14. QED
  BY <1>7, <1>8, <1>9, <1>10, <1>11, <1>12, <1>13 DEF DeliveryMove, DeliveryStep

\* Every step keeps it.
LEMMA MailingStep == ASSUME Typed, Mailing, [Next]_vars PROVE Mailing'
<1>1. ASSUME UNCHANGED <<sent, claim, wpc, job, mails, unconfirmed>> PROVE Mailing'
  <2>1. \A w \in Workers, u \in Users : Sending(w, u)' => Sending(w, u)
    BY <1>1 DEF Sending
  <2>2. QED BY <1>1, <2>1, MailingFrame
<1>2. ASSUME NEW r \in Requests, TransactionMove(r) \/ CommitMove(r) PROVE Mailing'
  <2>1. /\ r \in Workers /\ DOMAIN wpc = Workers /\ UNCHANGED <<sent, claim, mails, unconfirmed>>
        /\ job \in [Workers -> Users \union {None}]
    BY <1>2 DEF TransactionMove, CommitMove, rowVars, mailVars, Workers, Typed, TypeOK, OutboxTypeOK, Locals
  <2>2. /\ wpc[r] \notin DeliveryPcs /\ wpc'[r] \notin DeliveryPcs \ {"claim"}
        /\ \A v \in Workers : v # r => wpc'[v] = wpc[v] /\ job'[v] = job[v]
    <3>1. CASE TransactionMove(r)
      BY <3>1, TransactionFrame DEF TransactionMove, PurchasePcs, DeliveryPcs
    <3>2. CASE CommitMove(r)
      BY <2>1, <3>2 DEF CommitMove, CommitPurchase, Deliver, Step, DeliveryPcs
    <3>3. QED BY <1>2, <3>1, <3>2
  <2>3. \A w \in Workers, u \in Users : Sending(w, u)' => Sending(w, u)
    BY <2>2 DEF Sending
  <2>4. \A w \in Workers : wpc[w] = "mark_sent" => wpc'[w] = "mark_sent" /\ job'[w] = job[w]
    BY <2>2 DEF DeliveryPcs
  <2>5. QED BY <2>1, <2>3, <2>4, MailingFrame
<1>3. ASSUME NEW u \in Users, ClaimLapses(u) PROVE Mailing'
  <2>1. /\ UNCHANGED <<sent, wpc, job, mails, unconfirmed>> /\ \A w \in Workers : ~Sending(w, u)
        /\ claim' = [claim EXCEPT ![u] = "lapsed"] /\ claim \in [Users -> {"free", "held", "lapsed"}]
    BY <1>3 DEF ClaimLapses, mailVars, Typed, TypeOK, OutboxTypeOK
  <2>2. \A w \in Workers, x \in Users : Sending(w, x)' <=> Sending(w, x)
    BY <2>1 DEF Sending
  <2>3. SenderHoldsClaim' /\ SoleSender'
    BY <2>1, <2>2 DEF Mailing, SenderHoldsClaim, SoleSender
  <2>4. MailsAccounted'
    BY <2>1 DEF Mailing, MailsAccounted
  <2>5. QED BY <2>3, <2>4 DEF Mailing
<1>4. ASSUME NEW p \in Projects, NEW m \in Minutes, CreditProject(p, m) PROVE Mailing'
  BY <1>1, <1>4 DEF CreditProject, deliveryVars, rowVars, mailVars
<1>5. CASE Recover
  BY <1>1, <1>5 DEF Recover, rowVars, mailVars
<1>6. CASE UNCHANGED vars
  BY <1>1, <1>6 DEF vars, deliveryVars, rowVars, mailVars
<1>7. QED
  BY StepKinds, MailingDelivery, <1>2, <1>3, <1>4, <1>5, <1>6

-----------------------------------------------------------------------------
\* Steps that buy nothing keep the rows and those who deliver them.
LEMMA QueueingFrame ==
  ASSUME Queueing, UNCHANGED <<outbox, purchases>>,
         \A w \in Workers : wpc'[w] \in DeliveryPcs => HasTicket(job'[w]),
         \A w \in Workers \ Silent : wpc'[w] = "mark_sent" => mails'[job'[w]] > 0
  PROVE  Queueing'
<1>1. TicketsQueued'
  BY DEF Queueing, TicketsQueued, HasTicket
<1>2. DeliversTickets'
  BY DEF DeliversTickets, HasTicket
<1>3. QED BY <1>1, <1>2 DEF Queueing

\* A worker delivers the row it had, or one that a sweep found.
LEMMA QueueingDelivery ==
  ASSUME Typed, Queueing, NEW w \in Workers, DeliveryMove(w)
  PROVE  Queueing'
<1>1. /\ wpc[w] \in {"idle", "sweep"} \union DeliveryPcs
      /\ wpc[w] \in DeliveryPcs => job[w] \in Users
      /\ \A v \in Workers : v # w => wpc'[v] = wpc[v] /\ job'[v] = job[v]
      /\ UNCHANGED outbox
      /\ DOMAIN wpc = Workers
      /\ job \in [Workers -> Users \union {None}] /\ mails \in [Users -> 0..MaxMails]
      /\ \A v \in Workers : wpc[v] \in DeliveryPcs => job[v] \in Users
      /\ batch \in [Sweepers -> SUBSET DOMAIN outbox] /\ outbox \in Seq(Users)
  BY DeliveryFrame DEF Typed, TypeOK, OutboxTypeOK, Locals
<1>2. UNCHANGED purchases
  BY DEF DeliveryMove, shopVars
<1>3. \A v \in Workers : /\ wpc[v] \in DeliveryPcs => HasTicket(job[v])
                         /\ wpc[v] = "mark_sent" /\ v \notin Silent => mails[job[v]] > 0
  BY DEF Queueing, DeliversTickets
\* an acceptance is not taken back
<1>4. \A u \in Users : mails[u] > 0 => mails'[u] > 0
  <2>1. mails' = mails \/ \E x \in Users : mails' = [mails EXCEPT ![x] = @ + 1]
    BY <1>1 DEF DeliveryMove, DeliveryStep, Claim, SendSkipped, AsksProvider, SendAccepted, SendRefused,
          SendUnanswered, MarkSent, MarkFailed, DeliveryError, DropDelivery, SweepStart, SweepRow, mailVars, DeliveryPcs
  <2>2. QED BY <1>1, <2>1
<1>5. ASSUME wpc'[w] \in DeliveryPcs => HasTicket(job'[w]),
             wpc'[w] = "mark_sent" /\ w \notin Silent => mails'[job'[w]] > 0
      PROVE  Queueing'
  <2>1. \A v \in Workers \ Silent : wpc'[v] = "mark_sent" => mails'[job'[v]] > 0
    <3> SUFFICES ASSUME NEW v \in Workers \ Silent, v # w, wpc'[v] = "mark_sent" PROVE mails'[job'[v]] > 0
      BY <1>5
    <3>1. job'[v] = job[v] /\ wpc[v] = "mark_sent" /\ job[v] \in Users
      BY <1>1 DEF DeliveryPcs
    <3>2. QED BY <1>3, <1>4, <3>1
  <2>2. \A v \in Workers : wpc'[v] \in DeliveryPcs => HasTicket(job'[v])
    BY <1>1, <1>3, <1>5
  <2>3. QED BY <1>1, <1>2, <2>1, <2>2, QueueingFrame
\* the worker keeps its row or has none
<1>6. ASSUME wpc'[w] \in DeliveryPcs => wpc[w] \in DeliveryPcs /\ job'[w] = job[w],
             wpc'[w] # "mark_sent" \/ w \in Silent
      PROVE  Queueing'
  BY <1>3, <1>5, <1>6
<1>7. CASE Claim(w)
  <2>1. wpc[w] \in DeliveryPcs
    BY <1>7 DEF Claim, DeliveryPcs
  <2>2. (wpc'[w] = "send" /\ job' = job) \/ wpc'[w] \in {"idle", "sweep"}
    BY <1>1, <1>7 DEF Claim, Delivered, Step
  <2>3. QED BY <1>6, <2>1, <2>2 DEF DeliveryPcs
<1>8. CASE SendAccepted(w)
  <2>1. /\ wpc[w] \in DeliveryPcs /\ job' = job /\ mails' = [mails EXCEPT ![job[w]] = @ + 1]
    BY <1>8 DEF SendAccepted, AsksProvider, DeliveryPcs
  <2>2. mails'[job[w]] > 0
    BY <1>1, <2>1
  <2>3. QED BY <1>3, <1>5, <2>1, <2>2
<1>9. CASE SendUnanswered(w)
  <2>1. wpc[w] \in DeliveryPcs /\ job' = job /\ wpc'[w] = "mark_failed"
    BY <1>1, <1>9 DEF SendUnanswered, AsksProvider, Step, DeliveryPcs
  <2>2. QED BY <1>3, <1>5, <2>1
<1>10. CASE SendSkipped(w) \/ SendRefused(w)
  <2>1. wpc[w] \in DeliveryPcs /\ job' = job /\ (wpc'[w] = "mark_failed" \/ w \in Silent)
    BY <1>1, <1>10 DEF SendSkipped, SendRefused, AsksProvider, Step, DeliveryPcs
  <2>2. QED BY <1>6, <2>1
<1>11. CASE MarkSent(w) \/ MarkFailed(w) \/ DeliveryError(w) \/ DropDelivery(w)
  <2>1. wpc'[w] \in {"idle", "sweep"}
    BY <1>1, <1>11 DEF MarkSent, MarkFailed, DeliveryError, DropDelivery, Delivered, Step
  <2>2. QED BY <1>6, <2>1 DEF DeliveryPcs
<1>12. CASE SweepStart(w)
  <2>1. wpc'[w] = "sweep"
    BY <1>1, <1>12 DEF SweepStart, Step
  <2>2. QED BY <1>6, <2>1 DEF DeliveryPcs
<1>13. CASE w \in Sweepers /\ SweepRow(w)
  <2>1. CASE batch[w] = {}
    <3>1. wpc'[w] = "idle"
      BY <1>1, <1>13, <2>1 DEF SweepRow, Step
    <3>2. QED BY <1>6, <3>1 DEF DeliveryPcs
  <2>2. CASE batch[w] # {}
    <3>1. PICK n \in batch[w] : Deliver(w, outbox[n])
      BY <1>13, <2>2 DEF SweepRow
    <3>2. n \in DOMAIN outbox /\ outbox[n] \in Users
      BY <1>1, <1>13
    <3>3. HasTicket(outbox[n])
      BY <3>2 DEF Queueing, TicketsQueued
    <3>4. wpc'[w] = "claim" /\ job'[w] = outbox[n]
      BY <1>1, <1>13, <3>1 DEF SweepRow, Deliver, Step
    <3>5. QED BY <1>5, <3>3, <3>4
  <2>3. QED BY <2>1, <2>2
<1>14. QED
  BY <1>7, <1>8, <1>9, <1>10, <1>11, <1>12, <1>13 DEF DeliveryMove, DeliveryStep

\* A COMMIT writes the one row of the ticket it buys, and none for other items.
LEMMA QueueingCommit ==
  ASSUME Typed, Locking, Queueing, NEW r \in Requests, CommitMove(r)
  PROVE  Queueing'
<1> DEFINE u == buyer[r]  row0 == <<buyer[r], item[r], key[r]>>
<1>1. /\ wpc[r] = "commit" /\ u \in Users /\ r \in Workers /\ DOMAIN wpc = Workers
      /\ outbox \in Seq(Users) /\ job \in [Workers -> Users \union {None}]
      /\ \A w \in Workers : wpc[w] \in DeliveryPcs => job[w] \in Users
  BY DEF CommitMove, CommitPurchase, Typed, TypeOK, OutboxTypeOK, Locals, PurchasePcs, Workers
<1>2. purchases' = purchases \union {row0} /\ row0[1] = u /\ row0[2] = item[r] /\ UNCHANGED mails
  BY DEF CommitMove, CommitPurchase, mailVars
<1>3. ~Claimed(u, item[r])
  BY <1>1 DEF Locking, StillSo
<1>4. TicketsQueued /\ DeliversTickets
  BY DEF Queueing
<1> HIDE DEF u, row0
<1>5. \A x \in Users : HasTicket(x)' <=> HasTicket(x) \/ (x = u /\ item[r] = Ticket)
  BY <1>2 DEF HasTicket
<1>6. CASE item[r] = Ticket
  <2>1. /\ outbox' = Append(outbox, u) /\ wpc' = [wpc EXCEPT ![r] = "claim"]
        /\ job' = [job EXCEPT ![r] = u]
    BY <1>6 DEF CommitMove, CommitPurchase, Deliver, Step, u
  <2>2. /\ DOMAIN outbox' = DOMAIN outbox \union {Len(outbox) + 1} /\ outbox'[Len(outbox) + 1] = u
        /\ \A n \in DOMAIN outbox : outbox'[n] = outbox[n] /\ outbox[n] \in Users
        /\ Len(outbox) + 1 \notin DOMAIN outbox
    BY <1>1, <2>1
  <2>3. ~HasTicket(u)
    BY <1>3, <1>6 DEF HasTicket, Claimed
  <2>4. \A n \in DOMAIN outbox : outbox[n] # u
    BY <1>1, <1>4, <2>2, <2>3 DEF TicketsQueued
  <2>5. TicketsQueued'
    <3>1. \A x \in Users : HasTicket(x)' <=> \E n \in DOMAIN outbox' : outbox'[n] = x
      BY <1>4, <1>5, <1>6, <2>2 DEF TicketsQueued
    <3>2. \A m, n \in DOMAIN outbox' : outbox'[m] = outbox'[n] => m = n
      BY <1>4, <2>2, <2>4 DEF TicketsQueued
    <3>3. QED BY <3>1, <3>2 DEF TicketsQueued
  <2>6. DeliversTickets'
    <3>1. \A w \in Workers : w # r => wpc'[w] = wpc[w] /\ job'[w] = job[w]
      BY <1>1, <2>1
    <3>2. wpc'[r] = "claim" /\ job'[r] = u
      BY <1>1, <2>1
    <3>3. \A w \in Workers : wpc'[w] \in DeliveryPcs => HasTicket(job[w])' \/ w = r
      BY <1>1, <1>4, <1>5, <3>1 DEF DeliversTickets
    <3>4. ASSUME NEW w \in Workers, wpc'[w] \in DeliveryPcs PROVE HasTicket(job[w])'
      <4>1. CASE w = r
        BY <1>1, <1>5, <1>6, <3>2, <4>1 DEF HasTicket
      <4>2. CASE w # r
        <5>1. job'[w] = job[w] /\ job[w] \in Users /\ HasTicket(job[w])
          BY <1>1, <1>4, <3>1, <3>4, <4>2 DEF DeliversTickets
        <5>2. QED BY <1>5, <5>1 DEF HasTicket
      <4>3. QED BY <4>1, <4>2
    <3>5. ASSUME NEW w \in Workers \ Silent, wpc'[w] = "mark_sent" PROVE mails'[job'[w]] > 0
      BY <1>1, <1>2, <1>4, <3>1, <3>2, <3>5 DEF DeliversTickets
    <3>6. QED BY <3>4, <3>5 DEF DeliversTickets
  <2>7. QED BY <2>5, <2>6 DEF Queueing
<1>7. CASE item[r] # Ticket
  <2>1. UNCHANGED <<outbox, job>> /\ wpc' = [wpc EXCEPT ![r] = "idle"]
    BY <1>7 DEF CommitMove, CommitPurchase, Step
  <2>2. TicketsQueued'
    BY <1>4, <1>5, <1>7, <2>1 DEF TicketsQueued
  <2>3. \A w \in Workers : wpc'[w] \in DeliveryPcs => wpc'[w] = wpc[w]
    BY <1>1, <2>1 DEF DeliveryPcs
  <2>4. ASSUME NEW w \in Workers, wpc'[w] \in DeliveryPcs PROVE HasTicket(job[w])'
    <3>1. job'[w] = job[w] /\ job[w] \in Users /\ HasTicket(job[w])
      BY <1>1, <1>4, <2>1, <2>3, <2>4 DEF DeliversTickets
    <3>2. QED BY <1>5, <3>1 DEF HasTicket
  <2>5. ASSUME NEW w \in Workers \ Silent, wpc'[w] = "mark_sent" PROVE mails'[job'[w]] > 0
    BY <1>2, <1>4, <2>1, <2>3, <2>5 DEF DeliversTickets, DeliveryPcs
  <2>6. DeliversTickets'
    BY <2>4, <2>5 DEF DeliversTickets
  <2>7. QED BY <2>2, <2>6 DEF Queueing
<1>8. QED BY <1>6, <1>7

\* Every step keeps it.
LEMMA QueueingStep == ASSUME Typed, Locking, Queueing, [Next]_vars PROVE Queueing'
<1>1. ASSUME UNCHANGED <<outbox, purchases, wpc, job, mails>> PROVE Queueing'
  <2>1. \A w \in Workers : /\ wpc[w] \in DeliveryPcs => HasTicket(job[w])
                           /\ wpc[w] = "mark_sent" /\ w \notin Silent => mails[job[w]] > 0
    BY DEF Queueing, DeliversTickets
  <2>2. QED BY <1>1, <2>1, QueueingFrame
<1>2. ASSUME NEW r \in Requests, TransactionMove(r) PROVE Queueing'
  <2>1. /\ UNCHANGED <<outbox, job, mails, purchases>>
        /\ wpc'[r] \notin DeliveryPcs /\ \A v \in Workers : v # r => wpc'[v] = wpc[v]
    BY <1>2, TransactionFrame DEF TransactionMove, rowVars, mailVars, PurchasePcs, DeliveryPcs
  <2>2. \A w \in Workers : /\ wpc[w] \in DeliveryPcs => HasTicket(job[w])
                           /\ wpc[w] = "mark_sent" /\ w \notin Silent => mails[job[w]] > 0
    BY DEF Queueing, DeliversTickets
  <2>3. \A w \in Workers : wpc'[w] \in DeliveryPcs => wpc'[w] = wpc[w]
    BY <2>1
  <2>4. QED BY <2>1, <2>2, <2>3, QueueingFrame DEF DeliveryPcs
<1>3. ASSUME NEW u \in Users, ClaimLapses(u), UNCHANGED shopVars PROVE Queueing'
  BY <1>1, <1>3 DEF ClaimLapses, mailVars, shopVars
<1>4. ASSUME NEW p \in Projects, NEW m \in Minutes, CreditProject(p, m) PROVE Queueing'
  BY <1>1, <1>4 DEF CreditProject, deliveryVars, rowVars, mailVars
<1>5. CASE Recover /\ UNCHANGED shopVars
  BY <1>1, <1>5 DEF Recover, rowVars, mailVars, shopVars
<1>6. CASE UNCHANGED vars
  BY <1>1, <1>6 DEF vars, deliveryVars, rowVars, mailVars, shopVars
<1>7. QED
  BY StepKinds, QueueingDelivery, QueueingCommit, <1>2, <1>3, <1>4, <1>5, <1>6

-----------------------------------------------------------------------------
\* Every step keeps the invariant.
LEMMA ShopStep == ASSUME ShopInv, [Next]_vars PROVE ShopInv'
  BY TypedStep, LockingStep, MailingStep, QueueingStep DEF ShopInv, Locking

\* The invariant holds in every reachable state.
THEOREM ShopInvariant == Spec => []ShopInv
<1>1. ShopInv /\ [Next]_vars => ShopInv'
  BY ShopStep
<1>2. QED
  BY ShopInit, <1>1, PTL DEF Spec

\* A debit finds a balance, a purchase is made under a debit, and without a
\* credit a balance moves only where there was one.
LEMMA SpendsWhatIsThere ==
  ASSUME ShopInv, [Next]_vars
  PROVE  /\ \A r \in Requests, u \in Users : HoldsWallet(r, u)' => HoldsWallet(r, u) \/ wallet[u] # 0
         /\ \A row \in purchases' : row \in purchases \/ \E r \in Requests : HoldsWallet(r, row[1])
         /\ UNCHANGED credited => \A u \in Users : wallet'[u] = wallet[u] \/ wallet[u] # 0
<1> DEFINE Held == \A r \in Requests, u \in Users : HoldsWallet(r, u)' => HoldsWallet(r, u) \/ wallet[u] # 0
           Bought == \A row \in purchases' : row \in purchases \/ \E r \in Requests : HoldsWallet(r, row[1])
           Spent == \A u \in Users : wallet'[u] = wallet[u] \/ wallet[u] # 0
<1>1. /\ Typed /\ TypeOK /\ Locals /\ DOMAIN wpc = Workers
      /\ wallet \in [Users -> Nat]
      /\ \A r \in Requests : r \in Workers
  BY DEF ShopInv, Typed, TypeOK, Locals, Workers
<1>2. ASSUME NEW r \in Requests, wpc[r] \in {"debit", "insert", "commit"}, Covers(buyer[r], item[r])
      PROVE  wallet[buyer[r]] # 0
  <2>1. buyer[r] \in Users /\ item[r] \in Items
    BY <1>1, <1>2 DEF Locals, PurchasePcs
  <2>2. Price[item[r]] \in Nat \ {0} /\ wallet[buyer[r]] \in Nat
    BY <1>1, <2>1, PricesPositive
  <2>3. QED BY <1>2, <2>2 DEF Covers
<1>3. ASSUME NEW r \in Requests, TransactionMove(r) PROVE Held /\ Bought /\ Spent
  <2>1. UNCHANGED <<walletVars, purchases>> /\ \A v \in Workers : v # r => wpc'[v] = wpc[v]
    BY <1>1, <1>3, TransactionFrame
  <2>2. ASSUME wpc'[r] \in {"insert", "commit"} PROVE buyer' = buyer
    BY <1>1, <1>3, <2>2, TransactionFrame DEF requestVars
  <2>3. ASSUME wpc'[r] \in {"insert", "commit"}
        PROVE  wpc[r] \in {"insert", "commit"} \/ (wpc[r] = "debit" /\ Covers(buyer[r], item[r]))
    <3>1. CASE \E u \in Users, i \in Items, k \in Keys : PurchaseStart(r, u, i, k)
      BY <1>1, <2>3, <3>1 DEF PurchaseStart, Step
    <3>2. CASE LockItem(r) \/ DropPurchase(r)
      BY <1>1, <2>3, <3>2 DEF LockItem, DropPurchase, Step
    <3>3. CASE LookUpKey(r)
      BY <1>1, <2>3, <3>3 DEF LookUpKey, Answer, GoOn, Step
    <3>4. CASE Debit(r)
      BY <1>1, <2>3, <3>4 DEF Debit, Answer, GoOn, Step
    <3>5. CASE InsertPurchase(r)
      BY <3>5 DEF InsertPurchase
    <3>6. QED BY <1>3, <3>1, <3>2, <3>3, <3>4, <3>5 DEF TransactionMove
  <2>4. \A q \in Requests : q # r => wpc'[q] = wpc[q] /\ buyer'[q] = buyer[q]
    BY <1>1, <1>3, TransactionFrame
  <2>5. Held
    BY <1>2, <2>2, <2>3, <2>4 DEF HoldsWallet
  <2>6. QED BY <2>1, <2>5 DEF walletVars
<1>4. ASSUME NEW r \in Requests, CommitMove(r) PROVE Held /\ Bought /\ Spent
  <2>1. /\ wpc[r] = "commit" /\ buyer[r] \in Users
        /\ purchases' = purchases \union {<<buyer[r], item[r], key[r]>>}
        /\ wallet' = [wallet EXCEPT ![buyer[r]] = @ - Price[item[r]]]
        /\ \A q \in Requests : q # r => buyer'[q] = buyer[q]
        /\ \E label \in {"claim", "idle"} : wpc' = [wpc EXCEPT ![r] = label]
    BY <1>1, <1>4 DEF CommitMove, CommitPurchase, Deliver, Step, Forget, Locals, PurchasePcs, TypeOK
  <2>2. Held
    BY <1>1, <2>1 DEF HoldsWallet
  <2>3. Bought
    BY <2>1 DEF HoldsWallet
  <2>4. wallet[buyer[r]] # 0
    BY <1>2, <2>1 DEF ShopInv, Locking, StillSo
  <2>5. Spent
    BY <1>1, <2>1, <2>4
  <2>6. QED BY <2>2, <2>3, <2>5
<1>5. ASSUME NEW w \in Workers, DeliveryMove(w) PROVE Held /\ Bought /\ Spent
  <2>1. UNCHANGED shopVars
    BY <1>5 DEF DeliveryMove
  <2>2. \A r \in Requests : wpc'[r] = wpc[r] \/ wpc'[r] \in {"idle", "sweep"} \union DeliveryPcs
    BY <1>1, <1>5, DeliveryFrame
  <2>3. QED BY <2>1, <2>2 DEF HoldsWallet, DeliveryPcs, shopVars, walletVars, requestVars
<1>6. ASSUME UNCHANGED <<wpc, shopVars>> PROVE Held /\ Bought /\ Spent
  BY <1>6 DEF HoldsWallet, shopVars, walletVars, requestVars
<1>7. ASSUME NEW p \in Projects, NEW m \in Minutes, CreditProject(p, m)
      PROVE  Held /\ Bought /\ ~UNCHANGED credited
  BY <1>7 DEF CreditProject, HoldsWallet, deliveryVars, requestVars
<1>8. QED
  BY <1>3, <1>4, <1>5, <1>6, <1>7, StepKinds DEF ClaimLapses, Recover, vars, deliveryVars

\* Types are correct, and no balance goes below zero, for any prices, keys and
\* numbers of requests and sweeps.
THEOREM TypeCorrect == Spec => []TypeOK
<1>1. ShopInv => TypeOK
  BY DEF ShopInv, Typed
<1>2. QED
  BY <1>1, ShopInvariant, PTL

\* A key names one purchase, also when it is sent for two items at once.
THEOREM KeyNamesOne == Spec => []KeyNamesOnePurchase
<1>1. ShopInv => KeyNamesOnePurchase
  BY DEF ShopInv, Locking
<1>2. QED
  BY <1>1, ShopInvariant, PTL

\* One worker at a time sends a row's e-mail.
THEOREM OneSender == Spec => []SoleSender
<1>1. ShopInv => SoleSender
  BY DEF ShopInv, Mailing
<1>2. QED
  BY <1>1, ShopInvariant, PTL

\* A second e-mail follows only an accepted one that was not recorded.
THEOREM ResentOnlyUnrecorded == Spec => []NoNeedlessResend
<1>1. ShopInv => NoNeedlessResend
  <2> SUFFICES ASSUME ShopInv, NEW u \in Users, mails[u] > 1, u \notin unconfirmed PROVE FALSE
    BY DEF NoNeedlessResend
  <2>1. mails[u] \in Nat
    BY MailBoundPositive DEF ShopInv, Typed, TypeOK, OutboxTypeOK
  <2>2. mails[u] = 1
    BY <2>1 DEF ShopInv, Mailing, MailsAccounted
  <2>3. QED BY <2>1, <2>2
<1>2. QED
  BY <1>1, ShopInvariant, PTL

\* A repetition of a completed purchase is answered with that purchase.
THEOREM ReplaysAnswered == Spec => ReplayNeverRefused
<1> DEFINE Answered ==
      \A r \in Requests :
          reply'[r] # reply[r] /\ <<buyer[r], item[r], key[r]>> \in purchases
             => reply'[r] \in {"replayed", None}
<1>1. ASSUME ShopInv, [Next]_vars PROVE Answered \/ UNCHANGED vars
  <2>1. UNCHANGED reply => Answered
    OBVIOUS
  <2>2. /\ StillSo /\ KeyNamesOnePurchase /\ reply \in [Requests -> Replies]
    BY <1>1 DEF ShopInv, Locking, Typed, TypeOK, Replies
  <2>3. ASSUME NEW r \in Requests, NEW t, reply' = [reply EXCEPT ![r] = t],
               \/ t \in {"replayed", None}
               \/ <<buyer[r], item[r], key[r]>> \notin purchases
        PROVE  Answered
    BY <2>2, <2>3
  <2> HIDE DEF Answered
  <2>4. ASSUME NEW r \in Requests, TransactionMove(r) PROVE Answered
    <3>1. CASE \E u \in Users, i \in Items, k \in Keys : PurchaseStart(r, u, i, k)
      BY <2>3, <3>1 DEF PurchaseStart
    <3>2. CASE LockItem(r) \/ DropPurchase(r)
      BY <2>1, <3>2 DEF LockItem, DropPurchase, shopVars
    <3>3. CASE LookUpKey(r)
      <4> DEFINE earlier == {row \in purchases : row[1] = buyer[r] /\ row[3] = key[r]}
      <4>1. CASE <<buyer[r], item[r], key[r]>> \in purchases
        <5>1. <<buyer[r], item[r], key[r]>> \in earlier
          BY <4>1
        <5>2. \A row \in earlier : row = <<buyer[r], item[r], key[r]>>
          BY <2>2, <4>1 DEF KeyNamesOnePurchase
        <5>3. earlier # {} /\ \A row \in earlier : row[2] = item[r]
          BY <5>1, <5>2
        <5>4. Answer(r, "replayed")
          BY <3>3, <5>3 DEF LookUpKey
        <5>5. QED BY <2>3, <5>4 DEF Answer
      <4>2. CASE <<buyer[r], item[r], key[r]>> \notin purchases
        <5>1. UNCHANGED reply \/ \E t : reply' = [reply EXCEPT ![r] = t]
          BY <3>3 DEF LookUpKey, Answer, GoOn
        <5>2. QED BY <2>1, <2>3, <4>2, <5>1
      <4>3. QED BY <4>1, <4>2
    <3>4. CASE Debit(r) \/ InsertPurchase(r)
      <4>1. <<buyer[r], item[r], key[r]>> \notin purchases
        BY <2>2, <3>4 DEF Debit, InsertPurchase, StillSo
      <4>2. UNCHANGED reply \/ \E t : reply' = [reply EXCEPT ![r] = t]
        BY <3>4 DEF Debit, InsertPurchase, Answer, GoOn
      <4>3. QED BY <2>1, <2>3, <4>1, <4>2
    <3>5. QED BY <2>4, <3>1, <3>2, <3>3, <3>4 DEF TransactionMove
  <2>5. ASSUME NEW r \in Requests, CommitMove(r) PROVE Answered
    BY <2>2, <2>3, <2>5 DEF CommitMove, CommitPurchase, StillSo
  <2>6. UNCHANGED shopVars => Answered
    BY <2>1 DEF shopVars
  <2>7. ASSUME NEW p \in Projects, NEW m \in Minutes, CreditProject(p, m) PROVE Answered
    BY <2>1, <2>7 DEF CreditProject
  <2>8. QED
    BY <1>1, StepKinds, <2>4, <2>5, <2>6, <2>7 DEF DeliveryMove
<1>2. ShopInv /\ [Next]_vars => [Answered]_vars
  BY <1>1
<1>3. QED
  BY ShopInvariant, <1>2, PTL DEF Spec, ReplayNeverRefused

-----------------------------------------------------------------------------
\* Each step is a credit, a claim that the balance covers, or none for the
\* ledger.
LEMMA LedgerStep ==
  ASSUME ShopInv, [Next]_vars
  PROVE  [LedgerOfShop!LedgerNext]_(LedgerOfShop!ledgerVars)
<1> DEFINE pairs == {<<row[1], row[2]>> : row \in purchases}
<1>1. UNCHANGED walletVars /\ UNCHANGED purchases => UNCHANGED LedgerOfShop!ledgerVars
  BY DEF walletVars, LedgerOfShop!ledgerVars
<1>2. ASSUME NEW p \in Projects, NEW m \in Minutes, CreditProject(p, m) PROVE LedgerOfShop!LedgerNext
  BY <1>2 DEF CreditProject, LedgerOfShop!LedgerNext, LedgerOfShop!Credit
<1>3. ASSUME NEW r \in Requests, CommitMove(r) PROVE LedgerOfShop!LedgerNext
  <2>1. /\ wpc[r] = "commit" /\ buyer[r] \in Users /\ item[r] \in Items
        /\ purchases' = purchases \union {<<buyer[r], item[r], key[r]>>}
        /\ wallet' = [wallet EXCEPT ![buyer[r]] = @ - Price[item[r]]]
        /\ UNCHANGED <<credited, minutes>>
    BY <1>3 DEF CommitMove, CommitPurchase, ShopInv, Typed, Locals, PurchasePcs
  <2>2. Covers(buyer[r], item[r]) /\ ~Claimed(buyer[r], item[r])
    BY <2>1 DEF ShopInv, Locking, StillSo
  <2>3. <<buyer[r], item[r]>> \notin pairs
    BY <2>2 DEF Claimed
  <2>4. {<<row[1], row[2]>> : row \in purchases'} = pairs \union {<<buyer[r], item[r]>>}
    <3> DEFINE row0 == <<buyer[r], item[r], key[r]>>
    <3>1. <<row0[1], row0[2]>> = <<buyer[r], item[r]>>
      OBVIOUS
    <3>2. purchases' = purchases \union {row0}
      BY <2>1
    <3> HIDE DEF row0
    <3>3. QED BY <3>1, <3>2
  <2>5. PICK u \in Users, i \in Items : u = buyer[r] /\ i = item[r]
    BY <2>1
  <2>6. LedgerOfShop!Claim(u, i)
    BY <2>1, <2>2, <2>3, <2>4, <2>5 DEF LedgerOfShop!Claim, Covers
  <2>7. QED BY <2>6 DEF LedgerOfShop!LedgerNext
<1>4. ASSUME NEW r \in Requests, TransactionMove(r) PROVE UNCHANGED walletVars /\ UNCHANGED purchases
  BY <1>4, TransactionFrame DEF ShopInv
<1>5. UNCHANGED shopVars \/ UNCHANGED vars => UNCHANGED walletVars /\ UNCHANGED purchases
  BY DEF shopVars, vars
<1>6. QED
  BY StepKinds, <1>1, <1>2, <1>3, <1>4, <1>5 DEF DeliveryMove

\* Purchases and credits implement the ledger.
THEOREM PurchasesImplementLedger == Spec => ImplementsLedger
<1>1. Init => LedgerOfShop!LedgerInit
  BY DEF Init, LedgerOfShop!LedgerInit
<1>2. QED
  BY <1>1, ShopInvariant, LedgerStep, PTL DEF Spec, ImplementsLedger, LedgerOfShop!LedgerSpec

\* The ledger with what is proved about it.
Books == INSTANCE Ledger_proofs WITH
    Amounts <- Minutes, amount <- minutes, balance <- wallet,
    claimed <- {<<row[1], row[2]>> : row \in purchases}

\* What a person has and has spent is what the person's projects earned, with
\* any number of purchases, repetitions and credits under way.  Purchases
\* inherit this from the ledger.
THEOREM WalletsBalance == Spec => []WalletBalanced
<1>1. Books!LedgerConstants
  BY PricesPositive, OwnersAreUsers, CreditsAreNat DEF Books!LedgerConstants
<1>2. Spec => Books!LedgerSpec
  BY PurchasesImplementLedger, PTL DEF ImplementsLedger,
     LedgerOfShop!LedgerSpec, LedgerOfShop!LedgerInit, LedgerOfShop!LedgerNext,
     LedgerOfShop!Credit, LedgerOfShop!Claim, LedgerOfShop!ledgerVars,
     Books!LedgerSpec, Books!LedgerInit, Books!LedgerNext,
     Books!Credit, Books!Claim, Books!ledgerVars
<1>3. Books!Balanced => WalletBalanced
  BY DEF WalletBalanced, LedgerOfShop!Balanced, LedgerOfShop!Earned, LedgerOfShop!Spent,
     LedgerOfShop!CreditedTo, LedgerOfShop!ClaimedBy, LedgerOfShop!MapThenSumSet,
     LedgerOfShop!MapThenFoldSet, Books!Balanced, Books!Earned, Books!Spent,
     Books!CreditedTo, Books!ClaimedBy, Books!MapThenSumSet, Books!MapThenFoldSet
<1>4. QED
  BY <1>1, <1>2, <1>3, Books!BooksBalance, PTL

-----------------------------------------------------------------------------
\* A ticket has one row in the outbox, whatever races and fails.
THEOREM TicketsAreQueued == Spec => []TicketsQueued
<1>1. ShopInv => TicketsQueued
  BY DEF ShopInv, Queueing
<1>2. QED
  BY <1>1, ShopInvariant, PTL

\* A step of a worker accepts, forgets or records, or is none for the
\* confirmations.
LEMMA ConfirmationDelivery ==
  ASSUME ShopInv, NEW w \in Workers, DeliveryMove(w)
  PROVE  [ConfirmationsOfShop!ConfirmationsNext]_(ConfirmationsOfShop!confirmationVars)
<1> DEFINE u == job[w]  owed == {x \in Users : HasTicket(x)}
<1>1. Typed /\ Mailing /\ SenderHoldsClaim /\ DeliversTickets
  BY DEF ShopInv, Mailing, Queueing
<1>2. wpc[w] \in DeliveryPcs => u \in Users /\ u \in owed
  BY <1>1 DEF Typed, TypeOK, OutboxTypeOK, DeliversTickets
<1>3. wpc[w] \in DeliveryPcs \ {"claim"} => u \notin sent
  BY <1>1, <1>2 DEF SenderHoldsClaim, Sending
<1>4. wpc[w] = "mark_sent" /\ w \notin Silent => mails[u] > 0
  BY <1>1 DEF DeliversTickets
<1>5. owed' = owed
  BY DEF DeliveryMove, shopVars, HasTicket
<1> HIDE DEF u, owed
<1>6. ASSUME UNCHANGED <<mails, unconfirmed, waived, sent>>
      PROVE  UNCHANGED ConfirmationsOfShop!confirmationVars
  BY <1>5, <1>6 DEF ConfirmationsOfShop!confirmationVars, owed
<1>7. CASE SendAccepted(w) \/ SendUnanswered(w)
  <2>1. /\ wpc[w] = "send" /\ mails' = [mails EXCEPT ![u] = @ + 1] /\ UNCHANGED <<sent, waived>>
        /\ unconfirmed' = unconfirmed \/ unconfirmed' = unconfirmed \union {u}
    BY <1>7 DEF SendAccepted, SendUnanswered, AsksProvider, rowVars, u
  <2>2. u \notin unconfirmed => mails[u] = 0
    BY <1>1, <2>1, SentOnlyOnce DEF u
  <2>3. u \in Users /\ u \in owed \ sent
    BY <1>2, <1>3, <2>1 DEF DeliveryPcs
  <2>4. ConfirmationsOfShop!Accept(u)
    BY <1>5, <2>1, <2>2, <2>3 DEF ConfirmationsOfShop!Accept, owed
  <2>5. QED BY <2>3, <2>4 DEF ConfirmationsOfShop!ConfirmationsNext
<1>8. CASE MarkSent(w)
  <2>1. /\ wpc[w] = "mark_sent" /\ sent' = sent \union {u} /\ UNCHANGED <<mails, unconfirmed>>
        /\ waived' = IF w \in Silent THEN waived \union {u} ELSE waived
    BY <1>8 DEF MarkSent, u
  <2>2. u \in Users /\ u \in owed \ sent
    BY <1>2, <1>3, <2>1 DEF DeliveryPcs
  <2>3. CASE w \notin Silent
    <3>1. ConfirmationsOfShop!Record(u)
      BY <1>4, <1>5, <2>1, <2>2, <2>3 DEF ConfirmationsOfShop!Record, owed
    <3>2. QED BY <2>2, <3>1 DEF ConfirmationsOfShop!ConfirmationsNext
  <2>4. CASE w \in Silent
    <3>1. ConfirmationsOfShop!Waive(u)
      BY <1>5, <2>1, <2>2, <2>4 DEF ConfirmationsOfShop!Waive, owed
    <3>2. QED BY <2>2, <3>1 DEF ConfirmationsOfShop!ConfirmationsNext
  <2>5. QED BY <2>3, <2>4
<1>9. CASE DeliveryError(w) \/ DropDelivery(w)
  <2>1. /\ UNCHANGED <<mails, waived, sent>>
        /\ unconfirmed' = IF wpc[w] = "mark_sent" /\ w \notin Silent
                            THEN unconfirmed \union {u} ELSE unconfirmed
    BY <1>9 DEF DeliveryError, DropDelivery, Unrecorded, rowVars, u
  <2>2. CASE wpc[w] = "mark_sent" /\ w \notin Silent
    <3>1. u \in Users /\ u \in owed \ sent /\ mails[u] > 0
      BY <1>2, <1>3, <1>4, <2>2 DEF DeliveryPcs
    <3>2. ConfirmationsOfShop!Forget(u)
      BY <1>5, <2>1, <2>2, <3>1 DEF ConfirmationsOfShop!Forget, owed
    <3>3. QED BY <3>1, <3>2 DEF ConfirmationsOfShop!ConfirmationsNext
  <2>3. CASE wpc[w] # "mark_sent" \/ w \in Silent
    BY <1>6, <2>1, <2>3
  <2>4. QED BY <2>2, <2>3
<1>10. CASE Claim(w) \/ SendSkipped(w) \/ SendRefused(w) \/ MarkFailed(w) \/ SweepStart(w) \/ SweepRow(w)
  BY <1>6, <1>10 DEF Claim, SendSkipped, SendRefused, MarkFailed, SweepStart, SweepRow, rowVars, mailVars
<1>11. QED
  BY <1>7, <1>8, <1>9, <1>10 DEF DeliveryMove, DeliveryStep

\* A COMMIT owes a confirmation to who bought the ticket; no other step of the
\* shop is one of the confirmations.
LEMMA ConfirmationStep ==
  ASSUME ShopInv, [Next]_vars
  PROVE  [ConfirmationsOfShop!ConfirmationsNext]_(ConfirmationsOfShop!confirmationVars)
<1>1. ASSUME UNCHANGED <<purchases, mails, unconfirmed, waived, sent>>
      PROVE  UNCHANGED ConfirmationsOfShop!confirmationVars
  BY <1>1 DEF ConfirmationsOfShop!confirmationVars, HasTicket
<1>2. ASSUME NEW r \in Requests, CommitMove(r)
      PROVE  [ConfirmationsOfShop!ConfirmationsNext]_(ConfirmationsOfShop!confirmationVars)
  <2> DEFINE u == buyer[r]  row0 == <<buyer[r], item[r], key[r]>>  owed == {x \in Users : HasTicket(x)}
  <2>1. u \in Users /\ wpc[r] = "commit"
    BY <1>2 DEF CommitMove, CommitPurchase, ShopInv, Typed, Locals, PurchasePcs
  <2>2. /\ purchases' = purchases \union {row0} /\ row0[1] = u /\ row0[2] = item[r]
        /\ UNCHANGED <<mails, unconfirmed, waived, sent>>
    BY <1>2 DEF CommitMove, CommitPurchase, mailVars
  <2>3. ~Claimed(u, item[r])
    BY <2>1 DEF ShopInv, Locking, StillSo
  <2> HIDE DEF u, row0
  <2>4. CASE item[r] = Ticket
    <3>1. u \notin owed
      BY <2>3, <2>4 DEF HasTicket, Claimed
    <3>2. owed' = owed \union {u}
      BY <2>1, <2>2, <2>4 DEF HasTicket
    <3>3. ConfirmationsOfShop!Owe(u)
      BY <2>2, <3>1, <3>2 DEF ConfirmationsOfShop!Owe
    <3>4. QED BY <2>1, <3>3 DEF ConfirmationsOfShop!ConfirmationsNext
  <2>5. CASE item[r] # Ticket
    <3>1. owed' = owed
      BY <2>2, <2>5 DEF HasTicket
    <3>2. QED BY <2>2, <3>1 DEF ConfirmationsOfShop!confirmationVars
  <2>6. QED BY <2>4, <2>5
<1>3. ASSUME NEW r \in Requests, TransactionMove(r)
      PROVE  UNCHANGED ConfirmationsOfShop!confirmationVars
  BY <1>1, <1>3, TransactionFrame DEF ShopInv, TransactionMove, rowVars, mailVars
<1>4. ASSUME NEW p \in Projects, NEW m \in Minutes, CreditProject(p, m)
      PROVE  UNCHANGED ConfirmationsOfShop!confirmationVars
  BY <1>1, <1>4 DEF CreditProject, deliveryVars, rowVars, mailVars
<1>5. ASSUME (\E u \in Users : ClaimLapses(u)) \/ Recover, UNCHANGED shopVars
      PROVE  UNCHANGED ConfirmationsOfShop!confirmationVars
  BY <1>1, <1>5 DEF ClaimLapses, Recover, rowVars, mailVars, shopVars
<1>6. ASSUME UNCHANGED vars PROVE UNCHANGED ConfirmationsOfShop!confirmationVars
  BY <1>1, <1>6 DEF vars, deliveryVars, rowVars, mailVars, shopVars
<1>7. QED
  BY StepKinds, ConfirmationDelivery, <1>2, <1>3, <1>4, <1>5, <1>6

\* Outbox, requests and sweeps implement the confirmations.
THEOREM OutboxImplementsConfirmations == Spec => ImplementsConfirmations
<1>1. Init => ConfirmationsOfShop!ConfirmationsInit
  BY DEF Init, OutboxInit, HasTicket, ConfirmationsOfShop!ConfirmationsInit
<1>2. QED
  BY <1>1, ShopInvariant, ConfirmationStep, PTL
     DEF Spec, ImplementsConfirmations, ConfirmationsOfShop!ConfirmationsSpec
=============================================================================
