----------------------------- MODULE Ledger_proofs -----------------------------
(***************************************************************************)
(* The books of the ledger balance, for any users, projects, items, prices *)
(* and amounts.  Whatever implements the ledger inherits this.             *)
(*                                                                         *)
(* It rests on lemmas about sums over finite sets: what MapThenSumSet of   *)
(* the community modules yields for the empty set, for one element more,   *)
(* and for functions that agree on the set.  They need an induction over   *)
(* finite sets, which is had without induction over a formula: strict      *)
(* inclusion of finite sets is well founded, so a set of counterexamples   *)
(* that has with every member a smaller one is empty (Descent).            *)
(***************************************************************************)
EXTENDS Ledger, FiniteSetTheorems, TLAPS

\* The sum of f over S.
SumOver(f, S) == MapThenSumSet(LAMBDA x : f[x], S)

\* The element that MapThenSumSet takes out of a set next.
Taken(S) == CHOOSE x \in S : TRUE

\* g is the table of partial sums that MapThenSumSet looks S up in.
IsTable(g, f, S) ==
    g = [T \in SUBSET S |->
           IF T = {} THEN 0 ELSE f[Taken(T)] + g[T \ {Taken(T)}]]

\* A sum is looked up in such a table.
LEMMA SumIsLookup ==
  ASSUME NEW f, NEW S
  PROVE  SumOver(f, S) = (CHOOSE g : IsTable(g, f, S))[S]
BY DEF SumOver, MapThenSumSet, MapThenFoldSet, IsTable, Taken

\* Counterexamples among the subsets of a finite set, if there are any, have
\* a smallest one.
LEMMA Descent ==
  ASSUME NEW S, IsFiniteSet(S), NEW Bad \in SUBSET (SUBSET S),
         \A T \in Bad : \E U \in Bad : U \subseteq T /\ U # T
  PROVE  Bad = {}
<1>1. IsWellFoundedOn(StrictSubsetOrdering(S), SUBSET S)
  <2>1. IsWellFoundedOn(StrictSubsetOrdering(S), FiniteSubsetsOf(S))
    BY FS_StrictSubsetOrderingWellFounded
  <2>2. FiniteSubsetsOf(S) = SUBSET S
    BY FS_FiniteSubsetsOfFinite
  <2>3. QED
    BY <2>1, <2>2
<1>2. ASSUME Bad # {} PROVE FALSE
  <2>1. PICK T \in Bad : \A U \in Bad : <<U, T>> \notin StrictSubsetOrdering(S)
    BY <1>1, <1>2, WFMin
  <2>2. PICK U \in Bad : U \subseteq T /\ U # T
    OBVIOUS
  <2>3. QED
    BY <2>1, <2>2 DEF StrictSubsetOrdering
<1>3. QED
  BY <1>2

-----------------------------------------------------------------------------
\* Taking an element out leaves a smaller set.
LEMMA TakenOut ==
  ASSUME NEW S, S # {}
  PROVE  /\ Taken(S) \in S
         /\ S \ {Taken(S)} \in SUBSET S
         /\ S \ {Taken(S)} # S
BY DEF Taken

\* Two tables agree on a set on which their functions agree.
LEMMA TablesAgree ==
  ASSUME NEW f, NEW S, NEW g, IsTable(g, f, S),
         NEW e, NEW R, NEW h, IsTable(h, e, R),
         NEW T, IsFiniteSet(T), T \subseteq S, T \subseteq R,
         \A x \in T : f[x] = e[x]
  PROVE  g[T] = h[T]
<1> DEFINE Bad == {U \in SUBSET T : g[U] # h[U]}
<1>1. ASSUME NEW U \in Bad PROVE \E V \in Bad : V \subseteq U /\ V # U
  <2>1. U \in SUBSET S /\ U \in SUBSET R /\ g[U] # h[U]
    OBVIOUS
  <2>2. g[U] = IF U = {} THEN 0 ELSE f[Taken(U)] + g[U \ {Taken(U)}]
    BY <2>1 DEF IsTable
  <2>3. h[U] = IF U = {} THEN 0 ELSE e[Taken(U)] + h[U \ {Taken(U)}]
    BY <2>1 DEF IsTable
  <2>4. U # {}
    BY <2>1, <2>2, <2>3
  <2>5. f[Taken(U)] = e[Taken(U)]
    BY <2>4, TakenOut
  <2>6. g[U \ {Taken(U)}] # h[U \ {Taken(U)}]
    BY <2>1, <2>2, <2>3, <2>4, <2>5
  <2>7. QED
    BY <2>4, <2>6, TakenOut
<1>2. Bad = {}
  <2>1. Bad \in SUBSET (SUBSET T)
    OBVIOUS
  <2> HIDE DEF Bad
  <2>2. QED BY <1>1, <2>1, Descent
<1>3. QED
  BY <1>2

\* Every finite set has a table: what is chosen for the smaller sets agrees.
LEMMA TableExists ==
  ASSUME NEW f, NEW S, IsFiniteSet(S)
  PROVE  \E g : IsTable(g, f, S)
<1> DEFINE Bad == {T \in SUBSET S : ~\E g : IsTable(g, f, T)}
           Table(T) == CHOOSE g : IsTable(g, f, T)
<1>1. ASSUME NEW T \in SUBSET S, \A U \in SUBSET T : U # T => IsTable(Table(U), f, U)
      PROVE  \E g : IsTable(g, f, T)
  <2> DEFINE Rest(U) == U \ {Taken(U)}
             g == [U \in SUBSET T |->
                     IF U = {} THEN 0 ELSE f[Taken(U)] + Table(Rest(U))[Rest(U)]]
  <2>1. ASSUME NEW U \in SUBSET T, U # {} PROVE Table(Rest(U))[Rest(U)] = g[Rest(U)]
    <3> DEFINE V == Rest(U)
    <3>1. V \in SUBSET T /\ V # T
      BY <2>1, TakenOut
    <3>2. IsTable(Table(V), f, V)
      BY <1>1, <3>1
    <3>3. Table(V)[V] = IF V = {} THEN 0 ELSE f[Taken(V)] + Table(V)[Rest(V)]
      <4>1. V \in SUBSET V
        OBVIOUS
      <4> HIDE DEF V, Table
      <4>2. QED BY <3>2, <4>1 DEF IsTable
    <3>4. g[V] = IF V = {} THEN 0 ELSE f[Taken(V)] + Table(Rest(V))[Rest(V)]
      <4> HIDE DEF V, Table, Rest
      <4>1. QED BY <3>1
    <3>5. ASSUME V # {} PROVE Table(V)[Rest(V)] = Table(Rest(V))[Rest(V)]
      <4>1. Rest(V) \in SUBSET V /\ Rest(V) \in SUBSET T /\ Rest(V) # T
        BY <3>1, <3>5, TakenOut
      <4>2. IsTable(Table(Rest(V)), f, Rest(V))
        BY <1>1, <4>1
      <4>3. IsFiniteSet(Rest(V))
        BY <4>1, FS_Subset
      <4> HIDE DEF V, Table, Rest
      <4>4. QED BY <3>2, <4>1, <4>2, <4>3, TablesAgree
    <3>6. Table(V)[V] = g[V]
      <4> HIDE DEF V, Table, g
      <4>1. QED BY <3>3, <3>4, <3>5
    <3>7. QED
      BY <3>6
  <2>2. IsTable(g, f, T)
    <3> HIDE DEF Table
    <3>1. \A U \in SUBSET T : U # {} => Table(Rest(U))[Rest(U)] = g[Rest(U)]
      BY <2>1
    <3>2. QED BY <3>1, Zenon DEF IsTable
  <2>3. QED
    BY <2>2
<1>2. ASSUME NEW T \in Bad PROVE \E U \in Bad : U \subseteq T /\ U # T
  <2>1. CASE \A U \in SUBSET T : U # T => IsTable(Table(U), f, U)
    BY <1>1, <2>1
  <2>2. CASE \E U \in SUBSET T : U # T /\ ~IsTable(Table(U), f, U)
    <3>1. PICK U \in SUBSET T : U # T /\ ~IsTable(Table(U), f, U)
      BY <2>2
    <3>2. ~\E g : IsTable(g, f, U)
      BY <3>1
    <3>3. QED BY <3>1, <3>2
  <2>3. QED BY <2>1, <2>2
<1>3. Bad = {}
  <2>1. Bad \in SUBSET (SUBSET S)
    OBVIOUS
  <2> HIDE DEF Bad
  <2>2. QED BY <1>2, <2>1, Descent
<1>4. QED
  BY <1>3

\* So a sum is what one step of MapThenSumSet says it is.
LEMMA SumUnfolds ==
  ASSUME NEW f, NEW S, IsFiniteSet(S)
  PROVE  SumOver(f, S) =
           IF S = {} THEN 0 ELSE f[Taken(S)] + SumOver(f, S \ {Taken(S)})
<1> DEFINE Table(T) == CHOOSE g : IsTable(g, f, T)
           Rest == S \ {Taken(S)}
<1>1. IsFiniteSet(Rest)
  BY FS_RemoveElement
<1>2. IsTable(Table(S), f, S) /\ IsTable(Table(Rest), f, Rest)
  BY <1>1, TableExists
<1>3. SumOver(f, S) = Table(S)[S] /\ SumOver(f, Rest) = Table(Rest)[Rest]
  BY SumIsLookup
<1>4. Table(S)[S] = IF S = {} THEN 0 ELSE f[Taken(S)] + Table(S)[Rest]
  <2>1. S \in SUBSET S
    OBVIOUS
  <2> HIDE DEF Table
  <2>2. QED BY <1>2, <2>1 DEF IsTable
<1>5. Table(S)[Rest] = Table(Rest)[Rest]
  <2>1. Rest \subseteq S
    OBVIOUS
  <2> HIDE DEF Table, Rest
  <2>2. QED BY <1>1, <1>2, <2>1, TablesAgree
<1>6. QED
  BY <1>3, <1>4, <1>5
-----------------------------------------------------------------------------
\* The sum over nothing.
LEMMA SumOfNone == ASSUME NEW f PROVE SumOver(f, {}) = 0
BY SumUnfolds, FS_EmptySet

\* A sum depends on the function's values on the set only.
LEMMA SumSame ==
  ASSUME NEW S, IsFiniteSet(S), NEW f, NEW e, \A x \in S : f[x] = e[x]
  PROVE  SumOver(f, S) = SumOver(e, S)
<1> DEFINE Bad == {T \in SUBSET S : SumOver(f, T) # SumOver(e, T)}
<1>1. ASSUME NEW T \in Bad PROVE \E U \in Bad : U \subseteq T /\ U # T
  <2> DEFINE U == T \ {Taken(T)}
  <2>1. T \in SUBSET S /\ IsFiniteSet(T) /\ SumOver(f, T) # SumOver(e, T)
    BY FS_Subset
  <2>2. /\ SumOver(f, T) = IF T = {} THEN 0 ELSE f[Taken(T)] + SumOver(f, U)
        /\ SumOver(e, T) = IF T = {} THEN 0 ELSE e[Taken(T)] + SumOver(e, U)
    BY <2>1, SumUnfolds
  <2>3. T # {}
    BY <2>1, <2>2
  <2>4. f[Taken(T)] = e[Taken(T)] /\ U \subseteq T /\ U # T
    BY <2>1, <2>3, TakenOut
  <2>5. SumOver(f, U) # SumOver(e, U)
    <3> HIDE DEF U
    <3>1. QED BY <2>1, <2>2, <2>3, <2>4
  <2>6. QED
    BY <2>1, <2>4, <2>5
<1>2. Bad = {}
  <2>1. Bad \in SUBSET (SUBSET S)
    OBVIOUS
  <2> HIDE DEF Bad
  <2>2. QED BY <1>1, <2>1, Descent
<1>3. QED
  BY <1>2

\* Natural numbers add up to a natural number.
LEMMA SumIsNat ==
  ASSUME NEW S, IsFiniteSet(S), NEW f, \A x \in S : f[x] \in Nat
  PROVE  SumOver(f, S) \in Nat
<1> DEFINE Bad == {T \in SUBSET S : SumOver(f, T) \notin Nat}
<1>1. ASSUME NEW T \in Bad PROVE \E U \in Bad : U \subseteq T /\ U # T
  <2> DEFINE U == T \ {Taken(T)}
  <2>1. T \in SUBSET S /\ IsFiniteSet(T) /\ SumOver(f, T) \notin Nat
    BY FS_Subset
  <2>2. SumOver(f, T) = IF T = {} THEN 0 ELSE f[Taken(T)] + SumOver(f, U)
    BY <2>1, SumUnfolds
  <2>3. T # {}
    BY <2>1, <2>2
  <2>4. f[Taken(T)] \in Nat /\ U \subseteq T /\ U # T
    BY <2>1, <2>3, TakenOut
  <2>5. SumOver(f, U) \notin Nat
    <3> HIDE DEF U
    <3>1. QED BY <2>1, <2>2, <2>3, <2>4
  <2>6. QED
    BY <2>1, <2>4, <2>5
<1>2. Bad = {}
  <2>1. Bad \in SUBSET (SUBSET S)
    OBVIOUS
  <2> HIDE DEF Bad
  <2>2. QED BY <1>1, <2>1, Descent
<1>3. QED
  BY <1>2

\* Any element may be the one that is taken out: whichever Taken picks, it can
\* be exchanged with x in a smaller set.
LEMMA SumWithout ==
  ASSUME NEW S, IsFiniteSet(S), NEW f, \A y \in S : f[y] \in Nat, NEW x \in S
  PROVE  SumOver(f, S) = f[x] + SumOver(f, S \ {x})
<1> DEFINE Bad == {T \in SUBSET S : \E y \in T : SumOver(f, T) # f[y] + SumOver(f, T \ {y})}
<1>1. ASSUME NEW T \in Bad PROVE \E U \in Bad : U \subseteq T /\ U # T
  <2>1. PICK y \in T : SumOver(f, T) # f[y] + SumOver(f, T \ {y})
    OBVIOUS
  <2> DEFINE t == Taken(T)
             U == T \ {t}
             V == T \ {y}
             W == U \ {y}
  <2>2. T \in SUBSET S /\ IsFiniteSet(T) /\ T # {} /\ t \in T /\ U \subseteq T /\ U # T
    BY <2>1, FS_Subset, TakenOut
  <2>3. IsFiniteSet(U) /\ IsFiniteSet(V) /\ IsFiniteSet(W) /\ W = V \ {t}
    BY <2>2, FS_RemoveElement
  <2>4. SumOver(f, T) = f[t] + SumOver(f, U)
    BY <2>2, SumUnfolds
  <2>5. y # t /\ y \in U /\ t \in V /\ V \subseteq T /\ V # T
    BY <2>1, <2>2, <2>4
  <2>6. f[t] \in Nat /\ f[y] \in Nat /\ SumOver(f, U) \in Nat /\ SumOver(f, V) \in Nat /\ SumOver(f, W) \in Nat
    <3>1. \A R \in SUBSET T : IsFiniteSet(R) => SumOver(f, R) \in Nat
      BY <2>2, SumIsNat
    <3>2. QED BY <2>2, <2>3, <3>1
  <2>7. SumOver(f, U) # f[y] + SumOver(f, W) \/ SumOver(f, V) # f[t] + SumOver(f, W)
    <3> HIDE DEF U, V, W, t
    <3>1. SumOver(f, T) # f[y] + SumOver(f, V)
      BY <2>1 DEF V
    <3>2. QED BY <2>4, <2>6, <3>1
  <2>8. CASE SumOver(f, U) # f[y] + SumOver(f, W)
    BY <2>2, <2>5, <2>8
  <2>9. CASE SumOver(f, V) # f[t] + SumOver(f, W)
    BY <2>2, <2>3, <2>5, <2>9
  <2>10. QED
    BY <2>7, <2>8, <2>9
<1>2. Bad = {}
  <2>1. Bad \in SUBSET (SUBSET S)
    OBVIOUS
  <2> HIDE DEF Bad
  <2>2. QED BY <1>1, <2>1, Descent
<1>3. QED
  BY <1>2

\* One element more adds its value.
LEMMA SumWithOneMore ==
  ASSUME NEW S, IsFiniteSet(S), NEW x, x \notin S,
         NEW f, \A y \in S \union {x} : f[y] \in Nat
  PROVE  SumOver(f, S \union {x}) = f[x] + SumOver(f, S)
<1>1. IsFiniteSet(S \union {x}) /\ (S \union {x}) \ {x} = S
  BY FS_AddElement
<1>2. QED
  BY <1>1, SumWithout
-----------------------------------------------------------------------------
\* What the constants of a ledger have to be.
LedgerConstants ==
    /\ Owner \in [Projects -> Users]
    /\ Price \in [Items -> Nat]
    /\ Amounts \subseteq Nat

LedgerTypes ==
    /\ credited \subseteq Projects
    /\ amount \in [Projects -> Nat]
    /\ claimed \subseteq Users \X Items
    /\ balance \in [Users -> Nat]

\* No step adds more than one project or one item.
LedgerFinite ==
    \A u \in Users : IsFiniteSet(CreditedTo(u)) /\ IsFiniteSet(ClaimedBy(u))

LedgerInv == LedgerTypes /\ LedgerFinite /\ Balanced

\* What somebody earned and spent, as sums of a function.
LEMMA AccountSums ==
  ASSUME NEW u
  PROVE  /\ Earned(u) = SumOver(amount, CreditedTo(u))
         /\ Spent(u) = SumOver(Price, ClaimedBy(u))
BY DEF Earned, Spent, SumOver

\* They are amounts of minutes.
LEMMA AccountTypes ==
  ASSUME LedgerConstants, LedgerInv, NEW u \in Users
  PROVE  Earned(u) \in Nat /\ Spent(u) \in Nat
<1>1. IsFiniteSet(CreditedTo(u)) /\ \A p \in CreditedTo(u) : amount[p] \in Nat
  BY DEF LedgerInv, LedgerTypes, LedgerFinite, CreditedTo
<1>2. IsFiniteSet(ClaimedBy(u)) /\ \A i \in ClaimedBy(u) : Price[i] \in Nat
  BY DEF LedgerInv, LedgerFinite, LedgerConstants, ClaimedBy
<1>3. QED
  BY <1>1, <1>2, AccountSums, SumIsNat

\* Empty books balance.
LEMMA BooksOpen == LedgerConstants /\ LedgerInit => LedgerInv
<1> SUFFICES ASSUME LedgerConstants, LedgerInit PROVE LedgerInv
  OBVIOUS
<1>1. LedgerTypes
  BY DEF LedgerInit, LedgerTypes
<1>2. \A u \in Users : CreditedTo(u) = {} /\ ClaimedBy(u) = {}
  BY DEF LedgerInit, CreditedTo, ClaimedBy
<1>3. LedgerFinite
  BY <1>2, FS_EmptySet DEF LedgerFinite
<1>4. Balanced
  <2>1. \A u \in Users : Earned(u) = 0 /\ Spent(u) = 0
    BY <1>2, AccountSums, SumOfNone
  <2>2. QED
    BY <2>1 DEF Balanced, LedgerInit
<1>5. QED
  BY <1>1, <1>3, <1>4 DEF LedgerInv

\* What a primed sum is.
LEMMA AccountSumsNext ==
  (\A u \in Users : Earned(u) = SumOver(amount, CreditedTo(u)) /\ Spent(u) = SumOver(Price, ClaimedBy(u)))'
<1>1. \A u \in Users : Earned(u) = SumOver(amount, CreditedTo(u)) /\ Spent(u) = SumOver(Price, ClaimedBy(u))
  BY AccountSums
<1>2. QED
  BY <1>1, PTL

\* A credit adds what it is worth to the balance and to the earnings of one
\* person.
LEMMA CreditBalances ==
  ASSUME LedgerConstants, LedgerInv, NEW p \in Projects, NEW m \in Amounts, Credit(p, m)
  PROVE  LedgerInv'
<1>1. /\ p \notin credited /\ m \in Nat /\ Owner[p] \in Users
      /\ credited' = credited \union {p} /\ amount' = [amount EXCEPT ![p] = m]
      /\ balance' = [balance EXCEPT ![Owner[p]] = @ + m]
      /\ claimed' = claimed
  BY DEF Credit, LedgerConstants
<1>2. LedgerTypes /\ LedgerFinite /\ Balanced
  BY DEF LedgerInv
<1>3. LedgerTypes'
  BY <1>1, <1>2 DEF LedgerTypes
<1>4. ASSUME NEW u \in Users
      PROVE  /\ IsFiniteSet(CreditedTo(u)') /\ IsFiniteSet(ClaimedBy(u)')
             /\ balance'[u] + Spent(u)' = Earned(u)'
  <2>1. /\ ClaimedBy(u)' = ClaimedBy(u)
        /\ Spent(u)' = Spent(u)
    BY <1>1, AccountSums, AccountSumsNext DEF ClaimedBy
  <2>2. /\ IsFiniteSet(CreditedTo(u)) /\ IsFiniteSet(ClaimedBy(u))
        /\ balance[u] + Spent(u) = Earned(u)
        /\ p \notin CreditedTo(u)
        /\ Earned(u) \in Nat /\ Spent(u) \in Nat /\ balance[u] \in Nat
    BY <1>1, <1>2, AccountTypes DEF LedgerTypes, LedgerFinite, Balanced, CreditedTo
  <2>3. /\ \A q \in CreditedTo(u) : amount'[q] = amount[q] /\ amount'[q] \in Nat
        /\ amount'[p] = m
    BY <1>1, <1>2 DEF LedgerTypes, CreditedTo
  <2>4. SumOver(amount', CreditedTo(u)) = Earned(u)
    <3>1. SumOver(amount', CreditedTo(u)) = SumOver(amount, CreditedTo(u))
      BY <2>2, <2>3, SumSame
    <3>2. QED
      BY <3>1, AccountSums
  <2>5. CASE Owner[p] = u
    <3>1. CreditedTo(u)' = CreditedTo(u) \union {p}
      BY <1>1, <2>5 DEF CreditedTo
    <3>2. SumOver(amount', CreditedTo(u) \union {p}) = m + Earned(u)
      <4>1. \A q \in CreditedTo(u) \union {p} : amount'[q] \in Nat
        BY <1>1, <2>3
      <4>2. SumOver(amount', CreditedTo(u) \union {p}) = amount'[p] + SumOver(amount', CreditedTo(u))
        BY <2>2, <4>1, SumWithOneMore
      <4>3. QED
        BY <2>3, <2>4, <4>2
    <3>3. Earned(u)' = m + Earned(u)
      BY <3>1, <3>2, AccountSumsNext
    <3>4. balance'[u] = balance[u] + m
      BY <1>1, <1>2, <2>5 DEF LedgerTypes
    <3>5. IsFiniteSet(CreditedTo(u)')
      BY <2>2, <3>1, FS_AddElement
    <3>6. QED
      BY <1>1, <2>1, <2>2, <3>3, <3>4, <3>5
  <2>6. CASE Owner[p] # u
    <3>1. CreditedTo(u)' = CreditedTo(u)
      BY <1>1, <2>6 DEF CreditedTo
    <3>2. Earned(u)' = Earned(u)
      BY <2>4, <3>1, AccountSumsNext
    <3>3. balance'[u] = balance[u]
      BY <1>1, <1>2, <2>6 DEF LedgerTypes
    <3>4. QED
      BY <2>1, <2>2, <3>1, <3>2, <3>3
  <2>7. QED
    BY <2>5, <2>6
<1>5. QED
  BY <1>3, <1>4 DEF LedgerInv, LedgerFinite, Balanced

\* A claim takes its price off the balance and adds it to what is spent.
LEMMA ClaimBalances ==
  ASSUME LedgerConstants, LedgerInv, NEW v \in Users, NEW i \in Items, Claim(v, i)
  PROVE  LedgerInv'
<1>1. /\ <<v, i>> \notin claimed /\ Price[i] \in Nat /\ balance[v] >= Price[i]
      /\ claimed' = claimed \union {<<v, i>>}
      /\ balance' = [balance EXCEPT ![v] = @ - Price[i]]
      /\ credited' = credited /\ amount' = amount
  BY DEF Claim, LedgerConstants
<1>2. LedgerTypes /\ LedgerFinite /\ Balanced
  BY DEF LedgerInv
<1>3. LedgerTypes'
  BY <1>1, <1>2 DEF LedgerTypes
<1>4. ASSUME NEW u \in Users
      PROVE  /\ IsFiniteSet(CreditedTo(u)') /\ IsFiniteSet(ClaimedBy(u)')
             /\ balance'[u] + Spent(u)' = Earned(u)'
  <2>1. /\ CreditedTo(u)' = CreditedTo(u)
        /\ Earned(u)' = Earned(u)
    BY <1>1, AccountSums, AccountSumsNext DEF CreditedTo
  <2>2. /\ IsFiniteSet(CreditedTo(u)) /\ IsFiniteSet(ClaimedBy(u))
        /\ balance[u] + Spent(u) = Earned(u)
        /\ Earned(u) \in Nat /\ Spent(u) \in Nat /\ balance[u] \in Nat
    BY <1>2, AccountTypes DEF LedgerTypes, LedgerFinite, Balanced
  <2>3. CASE u = v
    <3>1. ClaimedBy(u)' = ClaimedBy(u) \union {i} /\ i \notin ClaimedBy(u)
      BY <1>1, <2>3 DEF ClaimedBy
    <3>2. \A j \in ClaimedBy(u) \union {i} : Price[j] \in Nat
      BY DEF LedgerConstants, ClaimedBy
    <3>3. SumOver(Price, ClaimedBy(u) \union {i}) = Price[i] + Spent(u)
      <4>1. SumOver(Price, ClaimedBy(u) \union {i}) = Price[i] + SumOver(Price, ClaimedBy(u))
        BY <2>2, <3>1, <3>2, SumWithOneMore
      <4>2. QED
        BY <4>1, AccountSums
    <3>4. Spent(u)' = Price[i] + Spent(u)
      BY <3>1, <3>3, AccountSumsNext
    <3>5. balance'[u] = balance[u] - Price[i]
      BY <1>1, <1>2, <2>3 DEF LedgerTypes
    <3>6. IsFiniteSet(ClaimedBy(u)')
      BY <2>2, <3>1, FS_AddElement
    <3>7. QED
      BY <1>1, <2>1, <2>2, <3>4, <3>5, <3>6
  <2>4. CASE u # v
    <3>1. ClaimedBy(u)' = ClaimedBy(u)
      BY <1>1, <2>4 DEF ClaimedBy
    <3>2. Spent(u)' = Spent(u)
      BY <3>1, AccountSums, AccountSumsNext
    <3>3. balance'[u] = balance[u]
      BY <1>1, <1>2, <2>4 DEF LedgerTypes
    <3>4. QED
      BY <2>1, <2>2, <3>1, <3>2, <3>3
  <2>5. QED
    BY <2>3, <2>4
<1>5. QED
  BY <1>3, <1>4 DEF LedgerInv, LedgerFinite, Balanced

\* A step that leaves the books alone leaves the accounts alone.
LEMMA BooksStutter ==
  ASSUME LedgerInv, UNCHANGED ledgerVars
  PROVE  LedgerInv'
<1>1. \A u \in Users : CreditedTo(u)' = CreditedTo(u) /\ ClaimedBy(u)' = ClaimedBy(u)
  BY DEF ledgerVars, CreditedTo, ClaimedBy
<1>2. \A u \in Users : Earned(u)' = Earned(u) /\ Spent(u)' = Spent(u)
  BY <1>1, AccountSums, AccountSumsNext DEF ledgerVars
<1>3. QED
  BY <1>1, <1>2 DEF LedgerInv, LedgerTypes, LedgerFinite, Balanced, ledgerVars

\* The books balance in every state of the ledger: what a person has and has
\* spent is what the person's projects were credited with.
THEOREM BooksBalance == LedgerConstants /\ LedgerSpec => []Balanced
<1>1. LedgerConstants /\ LedgerInv /\ [LedgerNext]_ledgerVars => LedgerInv'
  BY CreditBalances, ClaimBalances, BooksStutter DEF LedgerNext
<1>2. LedgerInv => Balanced
  BY DEF LedgerInv
<1>3. SUFFICES ASSUME LedgerConstants PROVE LedgerSpec => []Balanced
  OBVIOUS
<1>4. QED
  BY BooksOpen, <1>1, <1>2, <1>3, PTL DEF LedgerSpec
=============================================================================
