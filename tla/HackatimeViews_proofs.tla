------------------------- MODULE HackatimeViews_proofs -------------------------
(***************************************************************************)
(* Theorems about HackatimeViews, for any views, links, accounts, users    *)
(* and requests.  As long as nothing raced, whatever a reader holds is     *)
(* still what is linked or connected, so that what it stores is fresh; and *)
(* what a write has made stale is on the list of what it has yet to evict. *)
(***************************************************************************)
EXTENDS HackatimeViews, TLAPS

ReaderRecords ==
    [pc : {"idle", "names", "connection", "store"}, key : Views \union {"list", None},
     user : Users \union {None}, names : Links \union {None}, account : Accounts \union {None}]

ConnectorRecords ==
    [pc : {"idle", "upsert", "evict"}, user : Users \union {None}, account : Accounts \union {None}]

\* What the local variables hold at each step.
Locals ==
    /\ \A r \in Readers :
         /\ reader[r].pc = "idle" => reader[r].key = None
         /\ reader[r].pc # "idle" => reader[r].key # None /\ reader[r].user \in Users
         /\ reader[r].pc = "names" => reader[r].key \in Views
         /\ reader[r].pc \in {"connection", "store"} /\ reader[r].key \in Views
              => reader[r].names \in Links
         /\ reader[r].pc = "store" => reader[r].account \in Accounts
    /\ \A c \in Connectors : connector[c].pc # "idle" =>
         connector[c].user \in Users /\ connector[c].account \in Accounts

\* What readers are about to store is fresh, and so is what nobody is about to
\* evict.
Fresh ==
    /\ \A r \in Readers :
         /\ reader[r].key \in Views /\ reader[r].names # None => reader[r].names = links
         /\ reader[r].key = "list" /\ reader[r].account # None
              => reader[r].account = connection[reader[r].user]
    /\ \A v \in Views : (\A w \in Writers : v \notin writer[w])
                         => view[v] = None \/ view[v].names = links
    /\ \A u \in Users : ~ListPending(u) => list[u] \in {None, connection[u]}

Typed == TypeOK /\ Locals
FreshUnlessRaced == ~raced => Fresh
ViewsInv == Typed /\ FreshUnlessRaced

-----------------------------------------------------------------------------
\* The first state satisfies the invariant.
LEMMA ViewsInit == Init => ViewsInv
<1> SUFFICES ASSUME Init PROVE ViewsInv
  OBVIOUS
<1>1. TypeOK
  BY DEF Init, TypeOK, NoReader, NoConnector
<1>2. Locals
  BY NoneIsNothing DEF Init, Locals, NoReader, NoConnector
<1>3. Fresh
  BY DEF Init, Fresh, NoReader
<1>4. QED
  BY <1>1, <1>2, <1>3 DEF ViewsInv, Typed, FreshUnlessRaced

\* Readers keep the types and the invariant.
LEMMA ReaderKeeps == ASSUME ViewsInv, ReaderNext PROVE ViewsInv'
<1> USE NoneIsNothing, ListIsNoView
<1>1. UNCHANGED <<links, connection, writer, connector, raced>>
  BY DEF ReaderNext
<1>2. /\ reader \in [Readers -> ReaderRecords]
      /\ view \in [Views -> [names : Links, user : Users, account : Accounts] \union {None}]
      /\ list \in [Users -> Accounts \union {None}]
      /\ links \in Links
      /\ connection \in [Users -> Accounts \union {None}]
  BY DEF ViewsInv, Typed, TypeOK, ReaderRecords
<1>3. Locals
  BY DEF ViewsInv, Typed
<1>4. PICK r \in Readers :
        ReaderStep(r) \/ GiveUp(r) \/ \E u \in Users : AskList(r, u) \/ \E v \in Views : AskView(r, u, v)
  BY DEF ReaderNext
<1> DEFINE Kept ==
      /\ reader' \in [Readers -> ReaderRecords]
      /\ view' \in [Views -> [names : Links, user : Users, account : Accounts] \union {None}]
      /\ list' \in [Users -> Accounts \union {None}]
      /\ Locals'
      /\ ~raced => Fresh'
<1>5. SUFFICES Kept
  BY <1>1 DEF ViewsInv, Typed, TypeOK, ReaderRecords, FreshUnlessRaced
<1>6. ~raced => Fresh
  BY DEF ViewsInv, FreshUnlessRaced
<1>7. ASSUME NEW l \in ReaderRecords, reader' = [reader EXCEPT ![r] = l],
             /\ l.pc = "idle" => l.key = None
             /\ l.pc # "idle" => l.key # None /\ l.user \in Users
             /\ l.pc = "names" => l.key \in Views
             /\ l.pc \in {"connection", "store"} /\ l.key \in Views => l.names \in Links
             /\ l.pc = "store" => l.account \in Accounts,
             ~raced => /\ l.key \in Views /\ l.names # None => l.names = links
                       /\ l.key = "list" /\ l.account # None => l.account = connection[l.user],
             UNCHANGED <<view, list>>
      PROVE  Kept
  <2>1. reader' \in [Readers -> ReaderRecords]
    BY <1>2, <1>7
  <2>2. Locals'
    BY <1>1, <1>2, <1>3, <1>7 DEF Locals
  <2>3. ~raced => Fresh'
    BY <1>1, <1>2, <1>6, <1>7 DEF Fresh, ListPending
  <2>4. QED BY <1>2, <1>7, <2>1, <2>2, <2>3
<1>8. /\ NoReader \in ReaderRecords /\ NoReader.pc = "idle" /\ NoReader.key = None
  BY DEF NoReader, ReaderRecords
<1>9. ASSUME NEW u \in Users, NEW v \in Views, AskView(r, u, v) PROVE Kept
  <2> DEFINE l == [NoReader EXCEPT !.pc = "names", !.key = v, !.user = u]
  <2>1. l \in ReaderRecords /\ l.pc = "names" /\ l.key = v /\ l.user = u /\ l.names = None
    BY DEF NoReader, ReaderRecords
  <2>2. reader' = [reader EXCEPT ![r] = l] /\ UNCHANGED <<view, list>>
    BY <1>9 DEF AskView
  <2> HIDE DEF l, Kept
  <2>3. QED BY <1>7, <2>1, <2>2
<1>10. ASSUME NEW u \in Users, AskList(r, u) PROVE Kept
  <2> DEFINE l == [NoReader EXCEPT !.pc = "connection", !.key = "list", !.user = u]
  <2>1. l \in ReaderRecords /\ l.pc = "connection" /\ l.key = "list" /\ l.user = u /\ l.account = None
    BY DEF NoReader, ReaderRecords
  <2>2. reader' = [reader EXCEPT ![r] = l] /\ UNCHANGED <<view, list>>
    BY <1>10 DEF AskList
  <2> HIDE DEF l, Kept
  <2>3. QED BY <1>7, <2>1, <2>2
<1>11. CASE ReadNames(r)
  <2> DEFINE l == [reader[r] EXCEPT !.names = links, !.pc = "connection"]
  <2>1. reader[r] \in ReaderRecords /\ reader[r].pc = "names"
    BY <1>2, <1>11 DEF ReadNames
  <2>2. /\ l \in ReaderRecords /\ l.pc = "connection" /\ l.key = reader[r].key
        /\ l.user = reader[r].user /\ l.names = links
    BY <1>2, <2>1 DEF ReaderRecords
  <2>3. reader' = [reader EXCEPT ![r] = l] /\ UNCHANGED <<view, list>>
    BY <1>2, <1>11 DEF ReadNames
  <2>4. l.key \in Views /\ l.user \in Users
    BY <1>3, <2>1, <2>2 DEF Locals
  <2> HIDE DEF l, Kept
  <2>5. QED BY <1>2, <1>7, <2>2, <2>3, <2>4
<1>12. CASE ReadConnection(r)
  <2> DEFINE a == connection[reader[r].user]
             l == [reader[r] EXCEPT !.account = a, !.pc = "store"]
  <2>1. reader[r] \in ReaderRecords /\ reader[r].pc = "connection" /\ reader[r].user \in Users
    BY <1>2, <1>3, <1>12 DEF ReadConnection, Locals
  <2>2. UNCHANGED <<view, list>>
    BY <1>12 DEF ReadConnection
  <2>3. CASE Connected(a)
    <3>1. a \in Accounts
      BY <1>2, <2>1, <2>3 DEF Connected
    <3>2. /\ l \in ReaderRecords /\ l.pc = "store" /\ l.key = reader[r].key
          /\ l.user = reader[r].user /\ l.names = reader[r].names /\ l.account = a
      BY <2>1, <3>1 DEF ReaderRecords
    <3>3. reader' = [reader EXCEPT ![r] = l]
      BY <1>2, <1>12, <2>3 DEF ReadConnection
    <3>4. /\ l.key # None /\ (l.key \in Views => l.names \in Links)
          /\ ~raced /\ l.key \in Views /\ l.names # None => l.names = links
      BY <1>3, <1>6, <2>1, <3>2 DEF Locals, Fresh
    <3> HIDE DEF l, Kept
    <3>5. QED BY <1>7, <2>1, <2>2, <3>1, <3>2, <3>3, <3>4
  <2>4. CASE ~Connected(a)
    <3>1. reader' = [reader EXCEPT ![r] = NoReader]
      BY <1>12, <2>4 DEF ReadConnection
    <3> HIDE DEF Kept
    <3>2. QED BY <1>7, <1>8, <2>2, <3>1
  <2>5. QED BY <2>3, <2>4
<1>13. CASE GiveUp(r)
  <2> HIDE DEF Kept
  <2>1. QED BY <1>7, <1>8, <1>13 DEF GiveUp
<1>14. CASE Store(r)
  <2>1. /\ reader[r] \in ReaderRecords /\ reader[r].pc = "store"
        /\ reader[r].key # None /\ reader[r].user \in Users /\ reader[r].account \in Accounts
        /\ reader[r].key \in Views => reader[r].names \in Links
        /\ reader[r].key \in Views \union {"list"}
    BY <1>2, <1>3, <1>14 DEF Store, Locals, ReaderRecords
  <2>2. reader' = [reader EXCEPT ![r] = NoReader]
    BY <1>14 DEF Store
  <2>3. reader' \in [Readers -> ReaderRecords]
    BY <1>2, <1>8, <2>2
  <2>4. Locals'
    BY <1>1, <1>2, <1>3, <1>8, <2>2 DEF Locals
  <2>5. \A x \in Readers : x # r => reader'[x] = reader[x]
    BY <1>2, <2>2
  <2>6. reader'[r].key = None
    BY <1>2, <1>8, <2>2
  <2>7. CASE reader[r].key \in Views
    <3> DEFINE new == [names |-> reader[r].names, user |-> reader[r].user, account |-> reader[r].account]
    <3>1. view' = [view EXCEPT ![reader[r].key] = new] /\ list' = list
      BY <1>14, <2>7 DEF Store
    <3>2. new \in [names : Links, user : Users, account : Accounts] /\ new.names = reader[r].names
      BY <2>1, <2>7
    <3> HIDE DEF new
    <3>3. view' \in [Views -> [names : Links, user : Users, account : Accounts] \union {None}]
      BY <1>2, <3>1, <3>2
    <3>4. ASSUME ~raced PROVE Fresh'
      <4>1. new.names = links
        BY <1>6, <2>1, <2>7, <3>2, <3>4 DEF Fresh
      <4>2. \A v \in Views : view'[v] = IF v = reader[r].key THEN new ELSE view[v]
        BY <1>2, <3>1
      <4>3. QED BY <1>1, <1>6, <2>5, <2>6, <3>1, <3>4, <4>1, <4>2 DEF Fresh, ListPending
    <3>5. QED BY <1>2, <2>3, <2>4, <3>1, <3>3, <3>4
  <2>8. CASE reader[r].key = "list"
    <3>1. list' = [list EXCEPT ![reader[r].user] = reader[r].account] /\ view' = view
      BY <1>14, <2>8 DEF Store
    <3>2. list' \in [Users -> Accounts \union {None}]
      BY <1>2, <2>1, <3>1
    <3>3. ASSUME ~raced PROVE Fresh'
      <4>1. reader[r].account = connection[reader[r].user]
        BY <1>6, <2>1, <2>8, <3>3 DEF Fresh
      <4>2. \A u \in Users : list'[u] = IF u = reader[r].user THEN connection[u] ELSE list[u]
        BY <1>2, <3>1, <4>1
      <4>3. QED BY <1>1, <1>6, <2>5, <2>6, <3>1, <3>3, <4>2 DEF Fresh, ListPending
    <3>4. QED BY <1>2, <2>3, <2>4, <3>1, <3>2, <3>3
  <2>9. QED BY <2>1, <2>7, <2>8
<1> HIDE DEF Kept
<1>15. QED
  BY <1>4, <1>9, <1>10, <1>11, <1>12, <1>13, <1>14 DEF ReaderStep

\* A write makes stale only what it is about to evict.
LEMMA WriterKeeps == ASSUME ViewsInv, WriterNext PROVE ViewsInv'
<1> USE NoneIsNothing
<1>1. UNCHANGED <<connection, list, reader, connector>>
  BY DEF WriterNext
<1>2. TypeOK /\ Locals /\ (~raced => Fresh)
  BY DEF ViewsInv, Typed, FreshUnlessRaced
<1>3. Locals'
  BY <1>1, <1>2 DEF Locals
<1>4. PICK w \in Writers :
        (\E l \in Links : SetNames(w, l)) \/ \E v \in Views : EvictView(w, v) \/ EvictionLost(w, v)
  BY DEF WriterNext
<1>5. ASSUME NEW l \in Links, SetNames(w, l) PROVE TypeOK' /\ (~raced' => Fresh')
  <2>1. TypeOK'
    BY <1>1, <1>2, <1>5 DEF TypeOK, SetNames, ViewInFlight
  <2>2. ASSUME ~raced' PROVE Fresh'
    <3>1. ~raced /\ \A r \in Readers : ~(reader[r].key \in Views /\ reader[r].names # None)
      BY <1>5, <2>2 DEF SetNames, ViewInFlight
    <3>2. writer'[w] = Views
      BY <1>2, <1>5 DEF SetNames, TypeOK
    <3>3. QED BY <1>1, <1>2, <3>1, <3>2 DEF Fresh, ListPending
  <2>3. QED BY <2>1, <2>2
<1>6. ASSUME NEW v \in Views, EvictView(w, v) PROVE TypeOK' /\ (~raced' => Fresh')
  <2>1. TypeOK'
    BY <1>1, <1>2, <1>6 DEF TypeOK, EvictView, WithoutView
  <2>2. /\ view'[v] = None /\ \A z \in Views : z # v => view'[z] = view[z]
        /\ \A x \in Writers, z \in Views : z # v => (z \in writer'[x] <=> z \in writer[x])
    BY <1>2, <1>6 DEF TypeOK, EvictView, WithoutView
  <2>3. UNCHANGED <<links, raced>>
    BY <1>6 DEF EvictView
  <2>4. QED BY <1>1, <1>2, <2>1, <2>2, <2>3 DEF Fresh, ListPending
<1>7. ASSUME NEW v \in Views, EvictionLost(w, v) PROVE TypeOK' /\ (~raced' => Fresh')
  BY <1>1, <1>2, <1>7 DEF TypeOK, EvictionLost
<1>8. QED
  BY <1>3, <1>4, <1>5, <1>6, <1>7 DEF ViewsInv, Typed, FreshUnlessRaced

\* A new connection makes stale only the list that is about to be evicted.
LEMMA ConnectorKeeps == ASSUME ViewsInv, ConnectorNext PROVE ViewsInv'
<1> USE NoneIsNothing
<1>1. UNCHANGED <<links, view, reader, writer>>
  BY DEF ConnectorNext
<1>2. TypeOK /\ Locals /\ (~raced => Fresh)
  BY DEF ViewsInv, Typed, FreshUnlessRaced
<1>3. /\ connector \in [Connectors -> ConnectorRecords]
      /\ connection \in [Users -> Accounts \union {None}]
      /\ list \in [Users -> Accounts \union {None}]
      /\ raced \in BOOLEAN
  BY <1>2 DEF TypeOK, ConnectorRecords
<1>4. ASSUME /\ connector' \in [Connectors -> ConnectorRecords]
             /\ connection' \in [Users -> Accounts \union {None}]
             /\ list' \in [Users -> Accounts \union {None}]
             /\ raced' \in BOOLEAN,
             \A c \in Connectors : connector'[c].pc # "idle" =>
               connector'[c].user \in Users /\ connector'[c].account \in Accounts,
             ~raced' => Fresh'
      PROVE  ViewsInv'
  <2>1. TypeOK'
    BY <1>1, <1>2, <1>4 DEF TypeOK, ConnectorRecords
  <2>2. Locals'
    BY <1>1, <1>2, <1>4 DEF Locals
  <2>3. QED BY <1>4, <2>1, <2>2 DEF ViewsInv, Typed, FreshUnlessRaced
<1>5. PICK c \in Connectors :
        Upsert(c) \/ EvictList(c) \/ ConnectorFails(c) \/ \E u \in Users, a \in Accounts : Connect(c, u, a)
  BY DEF ConnectorNext
<1>6. \A d \in Connectors : connector[d].pc # "idle" =>
        connector[d].user \in Users /\ connector[d].account \in Accounts
  BY <1>2 DEF Locals
<1>7. /\ NoConnector \in ConnectorRecords /\ NoConnector.pc = "idle"
  BY DEF NoConnector, ConnectorRecords
<1>8. ASSUME NEW u \in Users, NEW a \in Accounts, Connect(c, u, a) PROVE ViewsInv'
  <2> DEFINE l == [pc |-> "upsert", user |-> u, account |-> a]
  <2>1. l \in ConnectorRecords /\ l.pc = "upsert" /\ l.user = u /\ l.account = a
    BY DEF ConnectorRecords
  <2>2. connector' = [connector EXCEPT ![c] = l] /\ UNCHANGED <<connection, list, raced>>
          /\ connector[c].pc = "idle"
    BY <1>8 DEF Connect
  <2> HIDE DEF l
  <2>3. \A z \in Users : ListPending(z)' <=> ListPending(z)
    BY <1>3, <2>1, <2>2 DEF ListPending
  <2>4. ~raced' => Fresh'
    BY <1>1, <1>2, <2>2, <2>3 DEF Fresh
  <2>5. QED BY <1>3, <1>4, <1>6, <2>1, <2>2, <2>4
<1>9. CASE Upsert(c)
  <2> DEFINE u == connector[c].user
             l == [connector[c] EXCEPT !.pc = "evict"]
  <2>1. connector[c] \in ConnectorRecords /\ u \in Users /\ connector[c].account \in Accounts
    BY <1>3, <1>6, <1>9 DEF Upsert
  <2>2. l \in ConnectorRecords /\ l.pc = "evict" /\ l.user = u /\ l.account = connector[c].account
    BY <2>1 DEF ConnectorRecords
  <2>3. /\ connector' = [connector EXCEPT ![c] = l] /\ list' = list
        /\ connection' = [connection EXCEPT ![u] = connector[c].account]
        /\ raced' = (raced \/ ListInFlight(u)) /\ connector[c].pc = "upsert"
    BY <1>3, <1>9 DEF Upsert
  <2> HIDE DEF l
  <2>4. ASSUME ~raced' PROVE Fresh'
    <3>1. ~raced /\ \A r \in Readers : ~(reader[r].key = "list" /\ reader[r].user = u /\ reader[r].account # None)
      BY <2>3, <2>4 DEF ListInFlight
    <3>2. \A z \in Users : z = u \/ ListPending(z) => ListPending(z)'
      BY <1>3, <2>2, <2>3 DEF ListPending
    <3>3. \A z \in Users : z # u => connection'[z] = connection[z]
      BY <1>3, <2>3
    <3>4. \A r \in Readers : reader[r].key = "list" /\ reader[r].account # None => reader[r].user \in Users
      BY <1>2, ListIsNoView DEF Locals
    <3>5. QED BY <1>1, <1>2, <2>3, <3>1, <3>2, <3>3, <3>4 DEF Fresh
  <2>5. QED BY <1>3, <1>4, <1>6, <2>1, <2>2, <2>3, <2>4
<1>10. CASE EvictList(c)
  <2> DEFINE u == connector[c].user
  <2>1. u \in Users
    BY <1>6, <1>10 DEF EvictList
  <2>2. /\ connector' = [connector EXCEPT ![c] = NoConnector] /\ list' = [list EXCEPT ![u] = None]
        /\ UNCHANGED <<connection, raced>>
    BY <1>10 DEF EvictList, WithoutList
  <2>3. \A z \in Users : z # u => (ListPending(z)' <=> ListPending(z)) /\ list'[z] = list[z]
    BY <1>3, <1>7, <2>1, <2>2 DEF ListPending
  <2>4. list'[u] = None
    BY <1>3, <2>1, <2>2
  <2>5. ~raced' => Fresh'
    BY <1>1, <1>2, <2>2, <2>3, <2>4 DEF Fresh
  <2>6. QED BY <1>3, <1>4, <1>6, <1>7, <2>2, <2>5
<1>11. CASE ConnectorFails(c)
  <2>1. /\ connector' = [connector EXCEPT ![c] = NoConnector]
        /\ UNCHANGED <<connection, list>> /\ raced' = (raced \/ connector[c].pc = "evict")
    BY <1>11 DEF ConnectorFails
  <2>2. ASSUME ~raced' PROVE Fresh'
    <3>1. ~raced /\ connector[c].pc # "evict"
      BY <2>1, <2>2
    <3>2. \A z \in Users : ListPending(z)' <=> ListPending(z)
      BY <1>3, <1>7, <2>1, <3>1 DEF ListPending
    <3>3. QED BY <1>1, <1>2, <2>1, <3>1, <3>2 DEF Fresh
  <2>3. QED BY <1>3, <1>4, <1>6, <1>7, <2>1, <2>2
<1>12. QED
  BY <1>5, <1>8, <1>9, <1>10, <1>11

-----------------------------------------------------------------------------
\* The invariant holds in every reachable state.
THEOREM ViewsInvariant == Spec => []ViewsInv
<1>1. ViewsInv /\ [Next]_vars => ViewsInv'
  <2> SUFFICES ASSUME ViewsInv, [Next]_vars PROVE ViewsInv'
    OBVIOUS
  <2>1. ASSUME NEW v \in Views, ViewExpires(v) PROVE ViewsInv'
    BY <2>1 DEF ViewsInv, Typed, TypeOK, Locals, FreshUnlessRaced, Fresh, ListPending, ViewExpires
  <2>2. ASSUME NEW u \in Users, ListExpires(u) PROVE ViewsInv'
    BY <2>2 DEF ViewsInv, Typed, TypeOK, Locals, FreshUnlessRaced, Fresh, ListPending, ListExpires
  <2>3. CASE UNCHANGED vars
    BY <2>3 DEF ViewsInv, Typed, TypeOK, Locals, FreshUnlessRaced, Fresh, ListPending, vars
  <2>4. QED
    BY <2>1, <2>2, <2>3, ReaderKeeps, WriterKeeps, ConnectorKeeps DEF Next
<1>2. QED
  BY ViewsInit, <1>1, PTL DEF Spec

\* Types are correct for any numbers of users and requests.
THEOREM TypeCorrect == Spec => []TypeOK
<1>1. ViewsInv => TypeOK
  BY DEF ViewsInv, Typed
<1>2. QED
  BY <1>1, ViewsInvariant, PTL

\* Stale views and lists outlive their write only by a race.
THEOREM StaleByRace == Spec => []StaleOnlyByRace
<1>1. ViewsInv => StaleOnlyByRace
  BY DEF ViewsInv, FreshUnlessRaced, Fresh, StaleOnlyByRace, ViewsPending
<1>2. QED
  BY <1>1, ViewsInvariant, PTL
=============================================================================
