-------------------------- MODULE ProjectLinks_proofs --------------------------
(***************************************************************************)
(* Theorems about ProjectLinks, for any names and any number of writers.   *)
(* While no lock has expired under its request, a request in the locked    *)
(* part holds the lock; so it is alone there, and the rows it has seen and *)
(* deleted are all the rows there are.                                     *)
(***************************************************************************)
EXTENDS ProjectLinks, TLAPS

\* The rows that a writer's numbers and names may make.
Rows == Names \X (1..MaxNumbers)

\* What the locked part knows while the lock is respected.
Alone ==
    ~lapsed => \A w \in Writers :
        /\ wpc[w] \in LockedPcs => lock = w
        /\ wpc[w] = "deleting" => seen[w] = links
        /\ wpc[w] \in {"insert", "commit"} => gone[w] = links

LinksInv == TypeOK /\ Alone /\ OneBody

\* The first state satisfies the invariant; there is a number to begin with.
LEMMA LinksInvInit == Init => LinksInv
<1> SUFFICES ASSUME Init PROVE LinksInv
  OBVIOUS
<1>1. 1 \in 1..MaxNumbers
  BY NumbersPositive
<1>2. TypeOK
  BY <1>1 DEF Init, TypeOK, WriterPcs
<1>3. Alone /\ OneBody
  BY DEF Init, Alone, OneBody, LockedPcs
<1>4. QED
  BY <1>2, <1>3 DEF LinksInv

\* Every step keeps the types.
LEMMA TypeStep == ASSUME TypeOK, [Next]_vars PROVE TypeOK'
<1> USE NoneIsNoWriter DEF TypeOK, WriterPcs, LockedPcs, Goto, EndTransaction
<1>1. ASSUME NEW w \in Writers, WriterStep(w), UNCHANGED lapsed PROVE TypeOK'
  <2>1. ASSUME NEW b \in SUBSET Names, SetNames(w, b) PROVE TypeOK'
    <3>1. (CHOOSE n \in UnusedNumbers : TRUE) \in 1..MaxNumbers
      BY <2>1 DEF SetNames, UnusedNumbers
    <3>2. QED BY <1>1, <2>1, <3>1 DEF SetNames
  <2>2. CASE TakeLock(w)
    BY <1>1, <2>2 DEF TakeLock
  <2>3. CASE LockUnanswered(w)
    BY <1>1, <2>3 DEF LockUnanswered
  <2>4. CASE BeginDelete(w)
    BY <1>1, <2>4 DEF BeginDelete
  <2>5. CASE DeleteRows(w)
    BY <1>1, <2>5 DEF DeleteRows
  <2>6. CASE InsertRows(w)
    BY <1>1, <2>6 DEF InsertRows
  <2>7. CASE Commit(w)
    BY <1>1, <2>7 DEF Commit
  <2>8. CASE Abort(w) \/ DropWriter(w)
    BY <1>1, <2>8 DEF Abort, DropWriter
  <2>9. CASE ReleaseLock(w)
    BY <1>1, <2>9 DEF ReleaseLock
  <2>10. QED
    BY <1>1, <2>1, <2>2, <2>3, <2>4, <2>5, <2>6, <2>7, <2>8, <2>9 DEF WriterStep
<1>2. CASE LockExpires
  BY <1>2 DEF LockExpires
<1>3. CASE UNCHANGED vars
  BY <1>3 DEF vars
<1>4. QED
  BY <1>1, <1>2, <1>3 DEF Next

\* Every step keeps the rest of the invariant.
LEMMA AloneStep == ASSUME LinksInv, [Next]_vars PROVE Alone' /\ OneBody'
<1> SUFFICES ASSUME ~lapsed' PROVE Alone' /\ OneBody'
  BY DEF Alone, OneBody
<1> USE NoneIsNoWriter DEF LinksInv, Goto, EndTransaction
<1>0. ~lapsed
  BY DEF Next, LockExpires, vars
<1>1. /\ OneBody /\ \A x, y \in links : x[2] = y[2]
      /\ \A w \in Writers : wpc[w] \in LockedPcs => lock = w
      /\ \A w \in Writers : wpc[w] = "deleting" => seen[w] = links
      /\ \A w \in Writers : wpc[w] \in {"insert", "commit"} => gone[w] = links
  BY <1>0 DEF Alone, OneBody
<1>2. ASSUME NEW w \in Writers, WriterStep(w), UNCHANGED lapsed PROVE Alone' /\ OneBody'
  <2> USE DEF TypeOK, LockedPcs, Alone, OneBody
  <2>1. ASSUME NEW b \in SUBSET Names, SetNames(w, b) PROVE Alone' /\ OneBody'
    BY <1>1, <2>1 DEF SetNames
  <2>2. CASE TakeLock(w)
    BY <1>1, <2>2 DEF TakeLock, LockFree
  <2>3. CASE LockUnanswered(w)
    BY <1>1, <2>3 DEF LockUnanswered, LockFree
  <2>4. CASE BeginDelete(w)
    BY <1>1, <2>4 DEF BeginDelete
  <2>5. CASE DeleteRows(w)
    BY <1>1, <2>5 DEF DeleteRows
  <2>6. CASE InsertRows(w)
    BY <1>1, <2>6 DEF InsertRows
  <2>7. CASE Commit(w)
    <3>1. \A v \in Writers : wpc[v] \in LockedPcs => v = w
      BY <1>1, <2>7 DEF Commit
    <3>2. links' = {<<n, number[w]>> : n \in names[w]}
      BY <1>1, <2>7 DEF Commit
    <3>3. \A x, y \in links' : x[2] = y[2]
      BY <3>2
    <3>4. QED BY <1>1, <2>7, <3>1, <3>3 DEF Commit
  <2>8. CASE Abort(w) \/ DropWriter(w)
    BY <1>1, <2>8 DEF Abort, DropWriter
  <2>9. CASE ReleaseLock(w)
    BY <1>1, <2>9 DEF ReleaseLock
  <2>10. QED
    BY <1>2, <2>1, <2>2, <2>3, <2>4, <2>5, <2>6, <2>7, <2>8, <2>9 DEF WriterStep
<1>3. CASE LockExpires
  BY <1>1, <1>3 DEF LockExpires, TypeOK, Alone, OneBody, LockedPcs
<1>4. CASE UNCHANGED vars
  BY <1>1, <1>4 DEF vars, Alone, OneBody
<1>5. QED
  BY <1>2, <1>3, <1>4 DEF Next

\* The invariant holds in every reachable state.
THEOREM LinksInvariant == Spec => []LinksInv
<1>1. LinksInv /\ [Next]_vars => LinksInv'
  BY TypeStep, AloneStep DEF LinksInv
<1>2. QED
  BY LinksInvInit, <1>1, PTL DEF Spec

\* Types are correct for any names and writers.
THEOREM TypeCorrect == Spec => []TypeOK
<1>1. LinksInv => TypeOK
  BY DEF LinksInv
<1>2. QED
  BY <1>1, LinksInvariant, PTL

\* The linked names are those of one request while no lock has lapsed.
THEOREM OneBodyStays == Spec => []OneBody
<1>1. LinksInv => OneBody
  BY DEF LinksInv
<1>2. QED
  BY <1>1, LinksInvariant, PTL
=============================================================================
