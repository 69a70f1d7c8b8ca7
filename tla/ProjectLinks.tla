----------------------------- MODULE ProjectLinks -----------------------------
(***************************************************************************)
(* The Hackatime names linked to a project.  set_hackatime_projects        *)
(* replaces them in a transaction, under a lock in Redis that expires      *)
(* after 10 seconds although a request may run for 30.  What it evicts     *)
(* afterwards is in HackatimeViews.                                        *)
(*                                                                         *)
(* One project, since nothing here is shared by two.  The transaction's    *)
(* statements interleave under READ COMMITTED: a DELETE works on the rows  *)
(* committed when it began, less those that a transaction it waited for    *)
(* has deleted, and an INSERT waits for a transaction that has inserted or *)
(* deleted the same name and then meets the primary key.                   *)
(***************************************************************************)
EXTENDS Naturals

CONSTANTS Names,
          Writers,        \* set_hackatime_projects requests
          MaxNumbers,     \* bound: row versions that can be told apart at once
          None

ASSUME NoneIsNoWriter == None \notin Writers
ASSUME NumbersPositive == MaxNumbers \in Nat \ {0}

VARIABLES
  links,    \* rows of project_hackatime_projects: <<name, number of the write>>
  lock,     \* lock:project:{id}:hackatime-projects
  wpc, number, names,   \* a writer's step, its number and its body
  seen,     \* rows a writer's DELETE began with
  gone,     \* rows a writer's transaction has deleted
  lapsed    \* history: the lock has expired under a request that held it

vars == <<links, lock, wpc, number, names, seen, gone, lapsed>>

WriterPcs == {"idle", "lock", "delete", "deleting", "insert", "commit", "release"}
LockedPcs == {"delete", "deleting", "insert", "commit", "release"}

NamesOf(rows) == {row[1] : row \in rows}

Init ==
    /\ links = {}
    /\ lock = None
    /\ wpc = [w \in Writers |-> "idle"]
    /\ number = [w \in Writers |-> 1]
    /\ names = [w \in Writers |-> {}]
    /\ seen = [w \in Writers |-> {}]
    /\ gone = [w \in Writers |-> {}]
    /\ lapsed = FALSE

Goto(w, label) == wpc' = [wpc EXCEPT ![w] = label]

\* The transaction is over, and its row locks with it.
EndTransaction(w) ==
    /\ seen' = [seen EXCEPT ![w] = {}]
    /\ gone' = [gone EXCEPT ![w] = {}]

-----------------------------------------------------------------------------
\* A number is free again once its rows are gone and no statement saw them.
UnusedNumbers ==
    (1..MaxNumbers) \ ({row[2] : row \in links \union UNION {seen[w] : w \in Writers}}
                         \union {number[w] : w \in {v \in Writers : wpc[v] # "idle"}})

\* The body is a set: normalized_names sorts it and removes duplicates.
SetNames(w, body) ==
    /\ wpc[w] = "idle"
    /\ Goto(w, "lock")
    /\ UnusedNumbers # {}
    /\ number' = [number EXCEPT ![w] = CHOOSE n \in UnusedNumbers : TRUE]
    /\ names' = [names EXCEPT ![w] = body]
    /\ UNCHANGED <<links, lock, seen, gone>>

\* SET key token NX EX 10
LockIgnored == TRUE
LockFree == lock = None

TakeLock(w) ==
    /\ wpc[w] = "lock"
    /\ IF LockFree THEN lock' = w /\ Goto(w, "delete")
                   ELSE UNCHANGED lock /\ Goto(w, "idle")
    /\ UNCHANGED <<links, number, names, seen, gone>>

\* The SET was applied or not, and counts as refused.
LockUnanswered(w) ==
    /\ wpc[w] = "lock"
    /\ UNCHANGED lock \/ (LockFree /\ lock' = w)
    /\ Goto(w, "idle")
    /\ UNCHANGED <<links, number, names, seen, gone>>

BeginDelete(w) ==
    /\ wpc[w] = "delete"
    /\ seen' = [seen EXCEPT ![w] = links]
    /\ Goto(w, "deleting")
    /\ UNCHANGED <<links, lock, number, names, gone>>

DeleteRows(w) ==
    /\ wpc[w] = "deleting"
    /\ \A v \in Writers \ {w} : gone[v] \intersect seen[w] = {}
    /\ gone' = [gone EXCEPT ![w] = seen[w] \intersect links]
    /\ Goto(w, "insert")
    /\ UNCHANGED <<links, lock, number, names, seen>>

\* Another open transaction has inserted, or has deleted, one of these names.
MustWait(w) ==
    \E v \in Writers \ {w} :
        \/ wpc[v] = "commit" /\ names[v] \intersect names[w] # {}
        \/ NamesOf(gone[v]) \intersect names[w] # {}

\* One step for the INSERTs of all names.  They are sorted, so INSERTs alone
\* never wait in a circle; where each of two transactions has deleted or
\* inserted a name the other inserts next, PostgreSQL ends one: Abort.
InsertRows(w) ==
    /\ wpc[w] = "insert"
    /\ ~MustWait(w)
    /\ IF names[w] \intersect NamesOf(links \ gone[w]) = {}
         THEN Goto(w, "commit") /\ UNCHANGED <<seen, gone>>
         ELSE Goto(w, "release") /\ EndTransaction(w)
    /\ UNCHANGED <<links, lock, number, names>>

Commit(w) ==
    /\ wpc[w] = "commit"
    /\ links' = (links \ gone[w]) \union {<<n, number[w]>> : n \in names[w]}
    /\ EndTransaction(w)
    /\ Goto(w, "release")
    /\ UNCHANGED <<lock, number, names>>

\* A statement fails: the transaction is rolled back, the lock still released.
Abort(w) ==
    /\ wpc[w] \in LockedPcs \ {"release"}
    /\ EndTransaction(w)
    /\ Goto(w, "release")
    /\ UNCHANGED <<links, lock, number, names>>

\* The lock is deleted if it is still this request's own; a failure of Redis
\* is not noticed.
ReleaseLock(w) ==
    /\ wpc[w] = "release"
    /\ lock' = (IF lock = w THEN None ELSE lock) \/ UNCHANGED lock
    /\ Goto(w, "idle")
    /\ UNCHANGED <<links, number, names, seen, gone>>

\* The request is dropped and its lock stays.
DropWriter(w) ==
    /\ wpc[w] # "idle"
    /\ EndTransaction(w)
    /\ Goto(w, "idle")
    /\ UNCHANGED <<links, lock, number, names>>

LockExpires ==
    /\ lock # None
    /\ lock' = None
    /\ lapsed' = (lapsed \/ wpc[lock] \in LockedPcs)
    /\ UNCHANGED <<links, wpc, number, names, seen, gone>>

WriterStep(w) ==
    \/ \E body \in SUBSET Names : SetNames(w, body)
    \/ TakeLock(w) \/ LockUnanswered(w) \/ BeginDelete(w) \/ DeleteRows(w) \/ InsertRows(w)
    \/ Commit(w) \/ Abort(w) \/ ReleaseLock(w) \/ DropWriter(w)

Next ==
    \/ \E w \in Writers : WriterStep(w) /\ UNCHANGED lapsed
    \/ LockExpires

Spec == Init /\ [][Next]_vars

-----------------------------------------------------------------------------
\* Every variable holds what its key, column or local variable can hold, and a
\* row lock only a transaction that is open.
TypeOK ==
    /\ links \subseteq Names \X (1..MaxNumbers)
    /\ lock \in Writers \union {None}
    /\ wpc \in [Writers -> WriterPcs]
    /\ number \in [Writers -> 1..MaxNumbers]
    /\ names \in [Writers -> SUBSET Names]
    /\ seen \in [Writers -> SUBSET (Names \X (1..MaxNumbers))]
    /\ gone \in [Writers -> SUBSET (Names \X (1..MaxNumbers))]
    /\ lapsed \in BOOLEAN
    /\ \A w \in Writers : seen[w] # {} => wpc[w] \in {"deleting", "insert", "commit"}
    /\ \A w \in Writers : gone[w] # {} => wpc[w] \in {"insert", "commit"}

\* The names that are linked are those of one request, unless the lock has
\* expired under a request: two requests never leave a mixture otherwise.
OneBody == ~lapsed => \A x, y \in links : x[2] = y[2]
=============================================================================
