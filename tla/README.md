# A formal model of the ysws backend

TLA+ modules, TLC configurations and TLAPS proofs kept beside the Rust backend
of a "you ship, we ship" programme: people sign in, create and ship projects,
reviewers and fraud staff approve them, approved hours become a balance, and
the balance buys items such as an event ticket.

Paths below are relative to the repository. `src/` is the crate's source
directory, so `src/approved_hours.rs` is the file of that name.

## 1. The system

Several replicas of one binary run behind nginx. They share PostgreSQL and
Redis and nothing else; each replica also runs two background loops (the
Airtable scheduler and the e-mail sweep). A request is a chain of awaits: SQL
statements, Redis calls and calls of providers. It is dropped when its client
goes away or after 30 seconds (`TimeoutLayer` in `src/main.rs`), and a process
may die at any await.

| component | state | operations | talks to |
|---|---|---|---|
| projects and lifecycle (`project_handler`, `admin_handler`) | `projects`, `project_shipments.shipped_at` | create, ship, delete a project, delete a user | cascades into everything below |
| reviews (`review_handler`) | `project_reviews`, approval status and reviewer of the shipment | create a review | calls the award |
| Airtable sync (`airtable_sync`, `providers`) | Airtable record ids, fraud status | push participants, push shipped projects, import decisions | Airtable; calls the award |
| award (`approved_hours`) | `project_credit_awards`, `user_wallets` | credit a project once | Hackatime |
| shop (`shop_handler`) | `shop_purchases`, `user_wallets` | purchase with an Idempotency-Key | writes the outbox |
| outbox (`shop_handler`, `notifications`, `main`) | `notification_outbox` | deliver, sweep | e-mail provider |
| attendance (`attendance_handler`) | `attendance_registrations`; counter, lock, remembered responses in Redis | register for an event | Attend (a stub at this commit) |
| links and views (`project_handler`, `helpers`) | `project_hackatime_projects`; lock and two cached views in Redis | replace the links, read a view | Hackatime, Lapse |
| cache (`cache`) | Redis keys | get, set, delete, lock, unlock, count | used by the two above and by sign-in |
| sign-in and accounts (`auth_handler`, `helpers`, `user_handler`) | `users`, `sessions`, `hackatime_connections`, OAuth states in Redis | sign in, connect, log out, change role | identity provider, Hackatime |
| banners (`project_handler`) | files below `uploads/`, `projects.banner_url` | upload | file system |
| frontend, nginx | none | pages and pass-through routes | |

What makes it hard: almost every operation is several awaits long with no
transaction around them; replicas race on the same rows; upstream answers get
lost; Redis calls fail silently by design; locks and claims expire by time;
and what one phase of a job read may be old when the next uses it.

What makes the components correct:

- *award*: one credit per project, only while both approvals stand, backed by
  the wallet, final, and never lost between the two writers that complete the
  pair of approvals;
- *reviews*: the reviewer on record has reviewed;
- *sync*: the latest decision wins, awards are retried;
- *shop*: one claim per item and person, one purchase per key, repetition is
  safe, a balance that covers what it buys;
- *outbox*: every buyer is confirmed, one sender at a time, no needless repeat,
  and what is recorded as sent was sent, except by a replica that cannot send;
- *attendance*: one request at a time per event, a success stays and is
  replayed truthfully, and nothing a failure leaves behind lasts for ever;
- *links*: the names of one request, each once; views that catch up;
- *accounts*: one row per person and per address, a session that opens the
  account of who signed in, refusals that the next attempt overcomes, and
  admins made by admins only;
- *deletions*: nothing that a credit or a purchase refers to goes away, and
  everyday operations deadlock among themselves only
  where two rewrite the same links or the same unique value;
- *banners*: what a project shows is an image that is there, and a refused
  upload leaves nothing behind.

## 2. The modules

| module | models | lines to read it with |
|---|---|---|
| `Tables` | the rows of the schema approved time depends on; create, ship, and the two deletions with CASCADE, SET NULL and RESTRICT | `database/migrations/0001`, `0003`, `0006`, `0007`, `admin_handler` |
| `Award` (extends `Tables`) | `award_if_fully_approved` as steps of a calling task | `approved_hours.rs` |
| `Review` (extends `Award`) | `create_project_review` | `review_handler.rs` |
| `AirtableSync` (extends `Award`) | `sync()` and the Airtable base | `airtable_sync.rs`, `providers.rs` |
| `ApprovedHours` (extends both) | the composition, its properties, its fairness | |
| `Ledger` | the abstract promise of awards and shop: credits once, claims once, balances covered, books that balance | |
| `Confirmations` | the abstract promise of the outbox: who may be written to, what counts as sent, who may be waived, when a repetition is due | |
| `Outbox` | `deliver_purchase_email`, `ticket_purchase_confirmation` and the sweep | `shop_handler.rs`, `notifications.rs`, `main.rs` |
| `Shop` (extends `Outbox`) | `purchase_item` and the composition with the outbox | `shop_handler.rs` |
| `Backend` (extends `ApprovedHours`, instantiates `Shop`) | awards, orders and deletions on the same users and wallets | `approved_hours.rs`, `shop_handler.rs`, `migrations/0007` |
| `Attendance` | `register_attendance` | `attendance_handler.rs`, `cache.rs` |
| `ProjectLinks` | the lock and the transaction of `set_hackatime_projects` | `project_handler.rs`, `cache.rs` |
| `HackatimeViews` | the two cached views of a project and a user's cached list: readers, evictions, `hackatime_callback` | `project_handler.rs`, `helpers.rs`, `auth_handler.rs` |
| `Accounts` | `hackclub_login`, `hackclub_callback`, `upsert_hackclub_user`, sessions, the admin's edits of users | `auth_handler.rs`, `helpers.rs`, `admin_handler.rs`, `migrations/0001` to `0003` |
| `RowLocks` | which row locks every statement takes and in which order, deletions with their cascades included | the SQL of all handlers, the foreign keys of `migrations` |
| `Banners` (extends `RowLocks`) | `upload_project_banner`: files, and the UPDATE among the transactions | `project_handler.rs` |
| `MCApprovedHours`, `MCShop`, `MCBackend`, `MCAccounts`, `MCBanners` | owners, prices and symmetry of the small instances | |
| `ApprovedHours_proofs` (with `Backend`), `Shop_proofs`, `Ledger_proofs`, `Attendance_proofs`, `ProjectLinks_proofs`, `HackatimeViews_proofs`, `Accounts_proofs`, `Banners_proofs` | theorems | |

**Conventions.** A task (request, synchronisation, worker) has a program
counter whose values are its awaits; one action is one await with everything
the code does up to the next. A single SQL statement is one action; a
transaction is one action where a row lock it takes first keeps every
competitor out (`AwardCommit`), and is split into statements where competitors
interleave (`Shop`, `ProjectLinks`), with the locks read off the program
counters. `trouble` says that upstreams may fail and tasks may be dropped;
`Recover` turns it off once, which is how liveness properties say "after the
outage". A provider is external: its answer is a choice. Variables marked
*history* in their declaration (`missed`, `mails`, `unconfirmed`, `waived`,
`lapsed`, `raced`, `steady`, `excused`) record what happened for a property and are read
by no guard of the code's behaviour; the counters among them are capped by a
named bound.

**How state corresponds.** `approval`, `fraud`, `reviewer`, `shipped` are the
columns of `project_shipments`; `awarded`/`minutes` the rows of
`project_credit_awards`; `wallet` `user_wallets.available_minutes` (a missing
wallet row counts as 0, as both writers upsert it); `recordId` the two Airtable
id columns, which live in one function because users and projects are
different rows; `target`, `hours`, `author`, `subject`, `decision`, `work`,
`saving`, `buyer`, `item`, `key`, `job`, `batch` are local variables of
tasks. `claim` is `processing_at`: held, or lapsed once five minutes old.
A UUID is never reused, so a deleted project stays "deleted". A transaction
that rolls back left nothing behind, so its intermediate writes are not state:
`Shop` writes wallet, purchase and outbox row in `CommitPurchase`, and what
others can notice before that, the row locks, is `HoldsItem` and
`HoldsWallet`.

**Abstractions that are worth knowing.**

- Hackatime durations are any element of `Minutes`, 0 included.
- Airtable's reading of at most one page of 100 records is one step.
- `Attendance` follows one person: all it touches is keyed by person.
- `ProjectLinks` follows one project, and a row carries the number of the
  write it came from, so that a mixture can be told from a coincidence.
  Numbers are reused once nobody can see them (`MaxNumbers` caps them).
- `HackatimeViews` takes the replacement of the links as one step, the COMMIT
  of `ProjectLinks`, and the links as any of a few values; a view is what it
  was made from: the names, and the user and account that asked.
- `Shop` by itself knows no awards and no deletions: a credit per project
  arrives from nowhere (`CreditProject`). `Backend` puts the real ones in its
  place and is shown to implement `Shop` all the same. There a deletion and an
  award wait for the wallet that an order has debited; that a deletion and an
  order can wait for each other, and one of them is then ended by PostgreSQL,
  is `RowLocks`'. In `Shop` a debit that finds no balance may also fail on the
  foreign key of the wallet row, if the user is gone; `Backend` says when it
  does. Items stay active. The sweep's `batch` is a set of
  positions in the outbox, whose order is `created_at`; the row with the
  smallest position is next.
- In `Tables` and the modules above it roles are fixed, and the session of a
  request is valid while its user exists. In `Accounts` roles change, and an
  admin's request goes on with what it read when it began; a reviewer is a
  user there, since no operation on accounts tells them apart.
- `Accounts` starts with rows from before migration `0002`, which have an
  address and no `hca_id`, one of them possibly the first admin. An OAuth
  state and the code that comes back with it are one attempt. Persons may move
  addresses between them at Hack Club (`MoveAddress`), and an admin may type
  one into any row; `steady` says that neither happened.
- Mail settings are optional and read at start-up (`config.rs`). A replica
  without them answers `Ok` for an e-mail that it does not send
  (`notifications.rs:53`), and its caller records the row as sent. `Silent`
  are the workers of such replicas, and `waived` the rows they recorded; with
  `Silent` empty `Confirmations` may waive nobody (`MayWaive`).
- In `RowLocks` a link is a row of its own, named by project and Hackatime
  name: the DELETE locks the links it finds, none if there are none, and an
  INSERT the name it makes. What a DELETE finds is any set of names, because
  what it sees was committed by others. A value of a unique column (an
  address, an `hca_id`, an Airtable record id) is locked by the statement that
  takes it or gives it up, after its row; sign-up has no row yet that others
  know. The values of a row that is deleted are left out: only a deletion is
  waited for there.
- `RowLocks` leaves out statements that commit by themselves and hold nothing
  anybody waits for while they wait: those that lock one row and leave its
  unique columns alone, and INSERTs whose unique values are awaited only by
  the same INSERT, which then holds nothing either. They can end no circle.
  A cascade goes through a user's projects in any order. `GiveUp` is every way to roll back, among them the end
  PostgreSQL makes of a deadlock. What an award, a purchase or a review reads
  is in their own modules; here only their locks and rows matter.
- A `Banners` upload is made once and names its files; a body is an image or
  something else, by its first twelve bytes.
- `MayBeLost` in `AirtableSync` bounds how often a new record's id gets lost,
  so that a finite set of record ids suffices.

## 3. The runs

All runs are exhaustive. Those that pass:

| run | shows | instance |
|---|---|---|
| `Awards` | types; an award is never lost unseen, given once, under both approvals, to a shipped project, backed by the wallet, and final; the reviewer on record reviewed; refinement of `Ledger` | 1 project, 2 users (owner and reviewer, admin), 1 request, 1 sync, deletions of users, projects and records |
| `SyncRetries` | awards are retried; decisions arrive and stay (liveness) | 1 project, 1 sync, 2 record ids |
| `Purchases` | types; a key names one purchase; a ticket has its one row in the outbox; repetition is safe; refinement of `Ledger` | 1 buyer, 2 items, 2 keys, 2 requests, 2 credits |
| `Delivery` | sole sender; refinement of `Confirmations`; every working address is mailed to or waived in the end (liveness) | 3 buyers, one of them undeliverable, 1 request on a replica without mail settings, 1 sweeper with them, `SweepLimit` 2 |
| `Backend` | the books balance; buyers keep their accounts; refinement of `Shop` | 1 person who is owner, buyer and admin, 1 project, 1 review request, 1 sync, 1 order, 1 sweeper without mail settings |
| `Attendance` | types; one at a time; success stays; replays are true; a lock goes away (liveness) | 1 event, 2 requests, 1 key or none, limit 3, a provider that may fail |
| `Links` | the names are those of one request unless a lock lapsed under its holder | 2 names, 2 writers |
| `Views` | staleness comes from a race only and ends (liveness); the owner's view returns after an admin's (liveness) | 1 view, 2 sets of links, 2 accounts, owner and admin, 1 reader, 1 writer, 1 connector |
| `Accounts` | types; one account each; a session opens its person's account; only one's own account refuses; admins come from admins | 2 people, 2 addresses, 2 rows, 1 attempt, 2 callbacks, 1 admin request |
| `Deletions` | types; a deadlock needs a deletion or two rivals; references hold; the banner is served; no leftovers | 1 person who is owner, reviewer and buyer, 1 project, 1 item, 2 names, 2 unique values, 2 transactions of any kind, 1 upload |

The runs that find a violation refute something a comment, a document or an
error message of the repository says; `PROJECT.json` quotes the line.

| run | refutes |
|---|---|
| `StaleDecision` | "Airtable is authoritative": of two overlapping syncs the older fetch may be written last |
| `StuckPending` | "already in progress": said of a pending row that nobody works on, for ever |

Some passing properties are as strong as the code allows and no stronger.
`Confirmations` lets a second e-mail follow when the provider accepted the first
and its answer was lost: the claim is given back and the sweep sends again. It
lets a row be recorded without an e-mail where a silent replica claimed it,
and since the sweep of every replica takes every row, one replica started
without mail settings waives rows whose purchase another replica served.
`ConfirmedEventually` needs `SweepLimit` above the number of addresses that
never work: the sweep takes the oldest unsent rows, and rows that always fail
stay the oldest. In `Delivery` one of three rows is such a row and a sweep
takes two, so that the limit leaves a due row waiting; with a hundred such
rows and `LIMIT 100` every younger row would wait for ever.
`DeadlocksAreKnown` names two pairs of rivals beside deletions. Two
replacements of one project's links are kept apart by the lock in Redis, but
that expires after 10 seconds; then each may have deleted or inserted a name
that the other inserts next. Two statements that write unique values, two
sign-ins that swap addresses for example, may each hold what the other wants.
The model reaches both circles; PostgreSQL ends one of the two.
`FraudConverges` speaks of all records of a project because there may be two: a record whose id was not saved is created again.
`SyncRetries` assumes that staff delete no record in Airtable
(`AllowRecordDeletion` FALSE): the PATCH of a deleted one fails, and ends every
later sync before its third phase. No property says so; the hazard is listed
with this as its note. `OneBody` excuses a lock that expired under
its holder, after 10 seconds of a request that may take 30: two transactions
then overlap, and the project can end with the names of both.
`OwnAccount` and `OnlyOwnAccountRefuses` excuse addresses that change hands: a
sign-in goes by the address where the identity is unknown, so whoever bears an
address that an old row bears takes that row, and a person who moves to an
address that another row bears is refused until the row gives it up. A banner
that is replaced keeps its file; no code removes one, and no property says so.

**Why the bounds are enough.** Each hazard needs two competitors and the row
they compete for; a third can only stand where one of the two stands. The
instances have two competitors of each kind that share a row (request and
sync, two requests of a shop or of a person, request and sweeper, two
writers, two callbacks, two transactions). In `Delivery` the request and the
sweeper are on replicas of either kind; the sweeper serves the rows that the
request left. `Views` has one view
because the two share nothing but the links, and one reader because a second
could only store what the first could; `Accounts` has one attempt, which
repeated callbacks and new logins reuse; a circle of waiting transactions in
`Deletions` needs two when each holds what the other wants, two names for
links and two unique values; the proof excludes other circles of any length.
One person is owner, reviewer and buyer there, which the code allows and which
lets every operation meet every other; different people are covered by the
proofs. One upload is enough there, whose UPDATE is a third transaction:
uploads share no file, and of two that set one banner the later
stands. `Accounts` and `Deletions` use symmetry, which
is sound as they check no liveness. Two review requests or two syncs on one project differ
from a request and a sync only in who calls the same award; `StaleDecision`
has two syncs, and the proofs have any number of both. Two record ids are what
a lost id needs. With `Limit` 3 and two requests that repeat, the counter goes
through, reaches and passes the limit. `MaxMails` 2 is one more than a
confirmation needs. `Backend` has one person and one credit,
since wallets of different people share nothing, and what competes for a wallet
there is an order, an award and a deletion, one of each. For the properties
that are proved (section 5) no bound matters.

**Deadlock** is checked in every run: the background loops never stop, and a
request can always be made.

## 4. Fairness

Only what the runtime does by itself is fair, weakly: a synchronisation goes
on and its ticker starts the next (`run_scheduler` loops for ever), likewise
the sweep; Redis expires keys; time passes; a request that has been accepted
is carried on by the executor unless it is dropped; the outage ends
(`Recover`). Nothing is assumed of people, of staff, or of clients repeating a
request, and nothing of writers in `HackatimeViews`: `ViewsConverge` asks for
what follows once they are quiet, from the expiry of keys after five minutes
and from readers being carried on. Weak fairness is enough since none of these steps is disabled by
another task for good. A synchronisation's steps are one fair action, because
one task has one next await; where it has a choice (which record is next) any
order is allowed although the code's is fixed.

## 5. The proofs

`tlapm` checks every theorem to the last leaf for all values of the constants
that satisfy the named assumptions of the modules (roles are users, rows are
distinct, `None` is no row, requests are no synchronisations, minutes are
natural numbers).

**`ApprovedHours_proofs`.** `TypeCorrect` goes action by action. The safety
properties rest on an invariant `Provenance`, proved inductive:
`ShippedBeforeCredited` alone is not, because what carries "shipped" from the
shipment to the credit is the record in Airtable, the batch in a sync's hands,
the id it is about to save and the fraud status. Each of these is tied to a
project that was shipped; a deleted project may linger in the first three but
its fraud status is back to pending and a deleted project never returns.
From it follow `ShippedFirst` and, with `CreditSteps` (a step changes the
award tables by one credit or not at all), `AwardsImplementLedger`, whose one
subtle case is the deletion of a user: it drops a wallet, and the foreign keys
of the awards ensure that this wallet is empty, so the abstract balance does
not move. `AwardedOnDoubleApproval` is the re-check under the row lock.
`AwardsAreFinal` uses that credited projects are live and their owners exist.
`NoAwardLost` proves `AwardOwed`: the writer that completes the pair of
approvals stands at `award_read` right after its write, and an attempt that
ends without credit found the pair broken, found an award, or marked the
project as missed. `ReviewersOnRecord` adds to its property what a request
at `apply` knows: its review row exists for as long as author and project do.

`WalletsBacked` is not proved on the detailed system, where it would have to be
carried through every step, but inherited: `Ledger_proofs` proves of the ledger
that its books balance, and the awards implement the ledger.

**`Ledger_proofs`.** `BooksBalance`: in every behaviour of the ledger a balance
and what was spent make up what was earned. This needs to know how a sum over a
finite set changes by one element, which is an induction over data; it is had
from the library's theorem that strict inclusion of finite sets is well
founded, applied to the set of counterexamples (`Descent`), so that no
induction theorem with an operator parameter is used.

**`Attendance_proofs`.** The inductive invariant `LockInv` says that a request in
the locked part holds the lock of its event (an expiry never takes it from a
live one, because the request timeout equals the lock's TTL and starts
earlier), that what such a request knows of the row is still so, that a
request on its way out with a success has left a registered row, and that
remembered responses are true. `AloneWithTheEvent`, `RegistrationsStay` and
`ReplaysTrue` follow. `LimitStaysStuck` is about a flaw: the attempt counter gets
its TTL in a second call, made by the request that counted 1 alone and with its
result ignored (`cache.rs:73`). When that call is lost, the answer "retry in a
minute" of a counter over the limit is repeated for ever, since nothing that any
request or Redis does changes the counter again.

**`Shop_proofs`.** The invariant has four parts besides the types. *Locking*: the row lock on
the item keeps two transactions of one item apart from `LockItem` on, the lock
on the wallet two of one buyer from `Debit` on; so what the lookup did not
find is still not there, and what the INSERT found free is free at the COMMIT.
*Mailing*: a worker that sends holds the claim of an unsent row, and an
accepted e-mail is recorded, about to be, or noted as unconfirmed. *Queueing*:
the tickets and the rows of the outbox are one to one, and whatever a worker
delivers is the row of a ticket; what makes the COMMIT keep this is that its
buyer has not claimed the item, which *Locking* knows. Refinement of `Ledger`
then has one step that is not a stutter besides the credit, the COMMIT, where
the locks give the ledger's guard, and `WalletsBalance` is inherited from the
ledger. Refinement of `Confirmations` maps the COMMIT to a new debt, the
provider's acceptance to an e-mail, its loss to a doubt and `MarkSent` to the
record, or to a waiver if the worker is silent; what any other worker is about
to record was accepted.

**`Backend`** (in `ApprovedHours_proofs`). The invariant joins `Provenance`,
`BuyersHaveAccounts` and the invariant of `Shop`; each side's own steps are
taken from the lemmas about that side. What is left is what one does to the
other. An award is one of the shop's credits (`CreditSteps`, with the wallet
free), and all other steps of reviews, synchronisations and deletions leave the
shop alone: a deletion drops an empty wallet only. An order moves a wallet only
where there was a balance (`SpendsWhatIsThere`), so where there was a credit,
and so `Provenance` survives; it also follows that whoever is debited owns a
credited project, hence has an account, and a deletion waits for the debit and
finds the purchase. From the refinement of `Shop` (`BackendImplementsShop`)
`BackendBalances` is inherited, and all that `Shop_proofs` proves with it;
`NoAwardLostToOrders` carries `AwardOwed` over to the composition. Since the
provers take two instances of `Shop` for different operators, the lemmas
`SameInit` to `SameNext` identify them action by action.

**`Accounts_proofs`.** Uniqueness is proved without assuming anything of
addresses: the unique columns refuse what would break it, and a row that is
gone bears no identity. The other properties need `Faithful`: while addresses
stay with their persons, a linked row and a callback bear their person's
address, so a row found by an address is unlinked or its person's own, and
between the SELECT, the UPDATE and the session it can only vanish.

**`HackatimeViews_proofs`.** Without a race, what a reader holds is still what
is linked or connected, and what is cached is that or about to be evicted.

**`ProjectLinks_proofs`.** While no lock lapsed, a writer in the locked part
holds the lock; it is alone there, and what it deletes is all there is.

**`Banners_proofs`.** The locks of each operation are described once, kind by
kind. The invariant says that a transaction takes them in that order, that no
two hold locks in conflict on a row that exists, that a row outlives the locks
held on it, and that what a deletion has checked for references stays
unreferenced until it ends. `ReferencesStay` follows from a deletion having
locked, at its COMMIT, every row it removes against all others, while a credit
or a purchase shares the key of every row it will refer to. For
`DeadlocksExplained` take transactions that delete nothing, no two of them
rivals, that all wait for each other. Nobody among them waits for a link or a
unique value, since only rivals want the same one (`OnlyRivalsMeet`). So a
statement that writes unique columns waits for its row, has locked nothing yet
(`UniqueWaitsFirst`), and nobody waits for it. The others climb the ranks of
the tables, shared keys apart, which only deletions and such statements can
block; somebody would have to wait above the highest rank.

Some theorems state properties that no run repeats, since a run of the same
instance already checks what implies them or more: `ResentOnlyUnrecorded`
(implied by `Confirmations`), `WalletsBalance` (by `BooksBalanced`), and the
types of `HackatimeViews` and `ProjectLinks`.

Only model-checked: the liveness properties (`AwardEventually`,
`FraudConverges`, `ConfirmedEventually`, `LockFreed`, `ViewsConverge`,
`OwnersViewReturns`), which are out of the prover's reach, as is `ENABLED`.

## 6. What is not modelled

The pure helpers (`validate_email`, `normalized_names`, `minutes_from_seconds`,
`minutes_as_hours`): character classes, lengths and floating point, without
state. The OAuth state of `hackatime_callback`, which is handled as that of
`hackclub_callback`. HTTP clients as such; encryption; Slack and welcome
messages, whose loss the code accepts; cookies and the check of an origin;
configuration; the frontend and nginx, which keep no state. Titles,
descriptions and names of persons, and handlers that only read. `PROJECT.json`
lists each with its reason, and the hazards without a property with theirs.

The Attend client is a stub that always succeeds at this commit. `Attendance`
takes it as it is in `StuckPending` (`ProviderMayFail` FALSE) and lets it fail
in the passing run, since the handler has the error path.

## 7. Plan

Done: the award with its two callers, the shop and its outbox, their
composition on one wallet, what hangs on Redis, accounts, row locks and
banners, and the safety properties of all of them proved.

Left, in this order:

1. The lock's expiry in `ProjectLinks` against the statement times, to say how
   a mixture of names can be repaired, and that each name is linked once
   whatever happens.
2. A theorem that ties `RowLocks` to the modules whose transactions it
   abstracts: the wallet lock that `Backend` reads off an order's program
   counter is the one `RowLocks` takes.
3. The pure helpers against reference definitions over bounded inputs.
