--------------------------- MODULE Confirmations ---------------------------
(***************************************************************************)
(* What the backend promises about the e-mail that confirms a ticket, with *)
(* no worker, claim or retry in sight: only a buyer is sent one, what is   *)
(* recorded as sent was accepted by the provider, or waived by a replica   *)
(* that was started without mail settings, nothing is sent after that, and *)
(* a second e-mail goes out only while nobody knows for certain that the   *)
(* first one was accepted.                                                 *)
(***************************************************************************)
EXTENDS Naturals

CONSTANTS Users,
          MayWaive      \* some replica has no mail settings

VARIABLES owed,         \* people who bought the ticket
          mails,        \* e-mails the provider accepted for each of them
          doubtful,     \* people for whom the backend missed an acceptance
          recorded,     \* people whose confirmation is recorded as sent
          waived        \* those of them for whom a replica did so unsent

confirmationVars == <<owed, mails, doubtful, recorded, waived>>

ConfirmationsInit ==
    /\ owed = {}
    /\ mails = [u \in Users |-> 0]
    /\ doubtful = {}
    /\ recorded = {}
    /\ waived = {}

\* A person buys the ticket, once.
Owe(u) ==
    /\ u \notin owed
    /\ owed' = owed \union {u}
    /\ UNCHANGED <<mails, doubtful, recorded, waived>>

\* The provider accepts an e-mail; the backend may or may not learn of it.
Accept(u) ==
    /\ u \in owed \ recorded
    /\ mails[u] > 0 => u \in doubtful
    /\ mails' = [mails EXCEPT ![u] = @ + 1]
    /\ doubtful' \in {doubtful, doubtful \union {u}}
    /\ UNCHANGED <<owed, recorded, waived>>

\* The backend learned of it and forgets before it is recorded.
Forget(u) ==
    /\ u \in owed \ recorded
    /\ mails[u] > 0
    /\ doubtful' = doubtful \union {u}
    /\ UNCHANGED <<owed, mails, recorded, waived>>

Record(u) ==
    /\ u \in owed \ recorded
    /\ mails[u] > 0
    /\ recorded' = recorded \union {u}
    /\ UNCHANGED <<owed, mails, doubtful, waived>>

\* A replica without mail settings takes the e-mail for sent.
Waive(u) ==
    /\ MayWaive
    /\ u \in owed \ recorded
    /\ recorded' = recorded \union {u}
    /\ waived' = waived \union {u}
    /\ UNCHANGED <<owed, mails, doubtful>>

ConfirmationsNext ==
    \E u \in Users : Owe(u) \/ Accept(u) \/ Forget(u) \/ Record(u) \/ Waive(u)

ConfirmationsSpec == ConfirmationsInit /\ [][ConfirmationsNext]_confirmationVars
=============================================================================
