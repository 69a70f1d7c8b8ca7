-------------------------------- MODULE Outbox --------------------------------
(***************************************************************************)
(* notification_outbox: the confirmation e-mail of a ticket purchase.  The *)
(* row is written in the purchase's transaction; deliver_purchase_email    *)
(* claims it for five minutes, asks the provider to send, and records the  *)
(* outcome.  It is called by the request that made the purchase and by the *)
(* sweep that every replica runs each five minutes, so it is modelled as   *)
(* the steps of a calling worker, one per await:                           *)
(*                                                                         *)
(*   claim         the conditional UPDATE that takes the row               *)
(*   send          the call of the e-mail provider, which a replica that   *)
(*                 was started without its settings only pretends to make  *)
(*   mark_sent     the UPDATE that records success                         *)
(*   mark_failed   the UPDATE that gives the row back                      *)
(*                                                                         *)
(* A person buys the ticket at most once, so a row is named by its buyer.  *)
(***************************************************************************)
EXTENDS Naturals, FiniteSets, Sequences

CONSTANTS Users,
          Requests,       \* purchase requests
          Sweepers,       \* retry_pending_ticket_emails, one per replica
          SweepLimit,     \* LIMIT 100
          Undeliverable,  \* buyers whose address the provider never accepts
          Silent,         \* workers of replicas started without mail settings
          MaxMails,       \* bound: e-mails counted per row
          None

Workers == Requests \union Sweepers

ASSUME WorkersAreDistinct == Requests \intersect Sweepers = {}
ASSUME SweepLimitPositive == SweepLimit \in Nat \ {0}
ASSUME SilentAreWorkers == Silent \subseteq Workers
ASSUME NoneIsNoUser == None \notin Users
ASSUME MailBoundPositive == MaxMails \in Nat \ {0}

VARIABLES
  outbox,       \* rows of notification_outbox, oldest first
  sent,         \* rows with sent_at set
  claim,        \* processing_at: "free", "held", or "lapsed" after 5 minutes
  wpc,          \* where each worker stands
  job,          \* the row a worker delivers
  batch,        \* places in outbox of the rows a sweep has yet to try
  mails,        \* history: e-mails the provider accepted for each row
  unconfirmed,  \* history: rows with an accepted e-mail nobody recorded
  waived,       \* history: rows that a silent replica recorded as sent
  trouble       \* the provider may fail and workers may be dropped or crash

rowVars == <<outbox, sent, claim>>
mailVars == <<mails, unconfirmed, waived>>
deliveryVars == <<rowVars, wpc, job, batch, mailVars, trouble>>

DeliveryPcs == {"claim", "send", "mark_sent", "mark_failed"}
Sending(w, u) == wpc[w] \in DeliveryPcs \ {"claim"} /\ job[w] = u

OutboxTypeOK ==
    /\ outbox \in Seq(Users)
    /\ sent \subseteq Users
    /\ claim \in [Users -> {"free", "held", "lapsed"}]
    /\ job \in [Workers -> Users \union {None}]
    /\ \A w \in Workers : wpc[w] \in DeliveryPcs => job[w] \in Users
    /\ \A s \in Sweepers : wpc[s] \in {"idle", "sweep"} \union DeliveryPcs
    /\ batch \in [Sweepers -> SUBSET DOMAIN outbox]
    /\ mails \in [Users -> 0..MaxMails]
    /\ unconfirmed \subseteq Users
    /\ waived \subseteq Users
    /\ trouble \in BOOLEAN

OutboxInit ==
    /\ outbox = <<>>
    /\ sent = {}
    /\ claim = [u \in Users |-> "free"]
    /\ wpc = [w \in Workers |-> "idle"]
    /\ job = [w \in Workers |-> None]
    /\ batch = [s \in Sweepers |-> {}]
    /\ mails = [u \in Users |-> 0]
    /\ unconfirmed = {}
    /\ waived = {}
    /\ trouble = TRUE

Step(w, label) == wpc' = [wpc EXCEPT ![w] = label]

\* The request answers 201 whatever happened; the sweep takes its next row.
Delivered(w) ==
    /\ Step(w, IF w \in Sweepers THEN "sweep" ELSE "idle")
    /\ job' = [job EXCEPT ![w] = None]

\* deliver_purchase_email is the worker's next await.
Deliver(w, u) ==
    /\ Step(w, "claim")
    /\ job' = [job EXCEPT ![w] = u]

-----------------------------------------------------------------------------
\* sent_at IS NULL AND (processing_at IS NULL OR older than 5 minutes)
AnyUnsent(u) == u \notin sent
Claimable(u) == u \notin sent /\ claim[u] # "held"

Claim(w) ==
    /\ wpc[w] = "claim"
    /\ IF Claimable(job[w])
         THEN claim' = [claim EXCEPT ![job[w]] = "held"] /\ Step(w, "send") /\ UNCHANGED job
         ELSE Delivered(w) /\ UNCHANGED claim
    /\ UNCHANGED <<outbox, sent, batch, mailVars, trouble>>

\* Without RESEND_API_TOKEN or RESEND_FROM_EMAIL nothing is sent, and the
\* caller is told that all is well.
SendSkipped(w) ==
    /\ w \in Silent
    /\ wpc[w] = "send"
    /\ Step(w, "mark_sent")
    /\ UNCHANGED <<rowVars, job, batch, mailVars, trouble>>

AsksProvider(w) == w \notin Silent /\ wpc[w] = "send"

\* The provider accepts the e-mail, and the worker learns of it.
SendAccepted(w) ==
    /\ AsksProvider(w)
    /\ job[w] \notin Undeliverable
    /\ mails[job[w]] < MaxMails
    /\ mails' = [mails EXCEPT ![job[w]] = @ + 1]
    /\ Step(w, "mark_sent")
    /\ UNCHANGED <<rowVars, job, batch, unconfirmed, waived, trouble>>

\* The outcome of the call is not looked at.
RefusalIgnored(w) ==
    /\ AsksProvider(w)
    /\ trouble \/ job[w] \in Undeliverable
    /\ Step(w, "mark_sent")
    /\ UNCHANGED <<rowVars, job, batch, mailVars, trouble>>

\* The provider refuses, or cannot be reached.
SendRefused(w) ==
    /\ AsksProvider(w)
    /\ trouble \/ job[w] \in Undeliverable
    /\ Step(w, "mark_failed")
    /\ UNCHANGED <<rowVars, job, batch, mailVars, trouble>>

\* The provider accepts, but its answer does not arrive in time.
SendUnanswered(w) ==
    /\ trouble
    /\ AsksProvider(w)
    /\ job[w] \notin Undeliverable
    /\ mails[job[w]] < MaxMails - 1
    /\ mails' = [mails EXCEPT ![job[w]] = @ + 1]
    /\ unconfirmed' = unconfirmed \union {job[w]}
    /\ Step(w, "mark_failed")
    /\ UNCHANGED <<rowVars, job, batch, waived, trouble>>

MarkSent(w) ==
    /\ wpc[w] = "mark_sent"
    /\ sent' = sent \union {job[w]}
    /\ claim' = [claim EXCEPT ![job[w]] = "free"]
    /\ waived' = IF w \in Silent THEN waived \union {job[w]} ELSE waived
    /\ Delivered(w)
    /\ UNCHANGED <<outbox, batch, mails, unconfirmed, trouble>>

MarkFailed(w) ==
    /\ wpc[w] = "mark_failed"
    /\ claim' = [claim EXCEPT ![job[w]] = "free"]
    /\ Delivered(w)
    /\ UNCHANGED <<outbox, sent, batch, mailVars, trouble>>

\* What is accepted but not recorded will be sent again.
Unrecorded(w) ==
    /\ unconfirmed' = IF wpc[w] = "mark_sent" /\ w \notin Silent
                        THEN unconfirmed \union {job[w]} ELSE unconfirmed
    /\ UNCHANGED waived

\* One of the three UPDATEs fails: the caller logs the error and goes on.
DeliveryError(w) ==
    /\ trouble
    /\ wpc[w] \in DeliveryPcs \ {"send"}
    /\ wpc[w] = "mark_sent" => mails[job[w]] < MaxMails
    /\ Unrecorded(w)
    /\ Delivered(w)
    /\ UNCHANGED <<rowVars, batch, mails, trouble>>

\* The worker is dropped at an await, with its claim left behind.
DropDelivery(w) ==
    /\ trouble
    /\ wpc[w] \in {"sweep"} \union DeliveryPcs
    /\ wpc[w] = "mark_sent" => mails[job[w]] < MaxMails
    /\ Unrecorded(w)
    /\ Step(w, "idle")
    /\ job' = [job EXCEPT ![w] = None]
    /\ UNCHANGED <<rowVars, mails, trouble>>

DeliveryStep(w) ==
    \/ Claim(w) \/ SendSkipped(w) \/ SendAccepted(w) \/ SendRefused(w)
    \/ MarkSent(w) \/ MarkFailed(w)

-----------------------------------------------------------------------------
Unsent == {n \in DOMAIN outbox : outbox[n] \notin sent}

\* Due rows are picked by age; a row that is claimed or failing is not skipped.
DueButNewest == {n \in Unsent : Cardinality({m \in Unsent : m <= n}) < SweepLimit}
Due == {n \in Unsent : Cardinality({m \in Unsent : m < n}) < SweepLimit}

SweepStart(s) ==
    /\ wpc[s] = "idle"
    /\ batch' = [batch EXCEPT ![s] = Due]
    /\ Step(s, "sweep")
    /\ UNCHANGED <<rowVars, job, mailVars, trouble>>

SweepRow(s) ==
    /\ wpc[s] = "sweep"
    /\ IF batch[s] = {}
         THEN Step(s, "idle") /\ UNCHANGED <<job, batch>>
         ELSE \E n \in batch[s] :
                /\ \A m \in batch[s] : n <= m
                /\ Deliver(s, outbox[n])
                /\ batch' = [batch EXCEPT ![s] = @ \ {n}]
    /\ UNCHANGED <<rowVars, mailVars, trouble>>

SweepStep(s) == SweepStart(s) \/ SweepRow(s) \/ DeliveryStep(s)

\* Five minutes pass.  A live worker is done with a row well before, since the
\* provider is given 10 seconds; only a claim left behind grows that old.
ClaimLapses(u) ==
    /\ claim[u] = "held"
    /\ \A w \in Workers : ~Sending(w, u)
    /\ claim' = [claim EXCEPT ![u] = "lapsed"]
    /\ UNCHANGED <<outbox, sent, wpc, job, batch, mailVars, trouble>>

\* Providers answer and no worker is dropped from here on.
Recover ==
    /\ trouble
    /\ trouble' = FALSE
    /\ UNCHANGED <<rowVars, wpc, job, batch, mailVars>>
=============================================================================
