---------------------------- MODULE HackatimeViews ----------------------------
(***************************************************************************)
(* What is cached of Hackatime and Lapse: two views of a project, made     *)
(* from its linked names and a connection, and a user's list of Hackatime  *)
(* projects, made from the user's connection.  Reading fills them, with a  *)
(* database read, a provider call and a SET one after the other; replacing *)
(* the links evicts the views, connecting anew evicts the list.            *)
(*                                                                         *)
(* One project.  ProjectLinks has the transaction that replaces its links; *)
(* here it is one step, and the links are any of a few values.             *)
(***************************************************************************)
CONSTANTS Views,       \* the cached views of the project: hackatime, lapses
          Links,       \* what set_hackatime_projects may store
          Accounts,    \* Hackatime accounts that may be connected
          Users, Owner,
          Readers, Writers, Connectors,
          None

ASSUME OwnerIsUser == Owner \in Users
ASSUME ListIsNoView == "list" \notin Views \union {None}
ASSUME NoneIsNothing == None \notin Links \union Accounts \union Users \union Views

VARIABLES
  links,       \* the project's rows of project_hackatime_projects
  connection,  \* a user's row of hackatime_connections, or None
  view,        \* project:{id}:{view} in Redis: what it was made from, or None
  list,        \* user:{id}:hackatime-projects:v2: the account it shows, or None
  reader,      \* a reader's step, its key, its user and what it has read
  writer,      \* the views a set_hackatime_projects has yet to evict
  connector,   \* a hackatime_callback's step, user and account
  raced        \* history: an eviction failed or came before an older answer

vars == <<links, connection, view, list, reader, writer, connector, raced>>

NoReader == [pc |-> "idle", key |-> None, user |-> None, names |-> None, account |-> None]
NoConnector == [pc |-> "idle", user |-> None, account |-> None]

Init ==
    /\ links \in Links
    /\ connection = [u \in Users |-> None]
    /\ view = [v \in Views |-> None]
    /\ list = [u \in Users |-> None]
    /\ reader = [r \in Readers |-> NoReader]
    /\ writer = [w \in Writers |-> {}]
    /\ connector = [c \in Connectors |-> NoConnector]
    /\ raced = FALSE

-----------------------------------------------------------------------------
\* A reader that finds the key in Redis answers at once; GET may fail.
AskView(r, u, v) ==
    /\ reader[r].pc = "idle"
    /\ reader' = [reader EXCEPT ![r] = [NoReader EXCEPT !.pc = "names", !.key = v, !.user = u]]
    /\ UNCHANGED <<view, list>>

AskList(r, u) ==
    /\ reader[r].pc = "idle"
    /\ reader' = [reader EXCEPT ![r] = [NoReader EXCEPT !.pc = "connection", !.key = "list", !.user = u]]
    /\ UNCHANGED <<view, list>>

\* linked_connection, first SELECT
ReadNames(r) ==
    /\ reader[r].pc = "names"
    /\ reader' = [reader EXCEPT ![r].names = links, ![r].pc = "connection"]
    /\ UNCHANGED <<view, list>>

\* Its second, or the SELECT of user_hackatime_projects: the connection of the
\* user who asks, who for a project's view may be an admin.
Connected(account) == account # None

ReadConnection(r) ==
    /\ reader[r].pc = "connection"
    /\ LET account == connection[reader[r].user] IN
         reader' = IF Connected(account)
                     THEN [reader EXCEPT ![r].account = account, ![r].pc = "store"]
                     ELSE [reader EXCEPT ![r] = NoReader]
    /\ UNCHANGED <<view, list>>

\* The provider has answered; SETEX.
Store(r) ==
    /\ reader[r].pc = "store"
    /\ IF reader[r].key \in Views
         THEN /\ view' = [view EXCEPT ![reader[r].key] = [names |-> reader[r].names,
                            user |-> reader[r].user, account |-> reader[r].account]]
              /\ UNCHANGED list
         ELSE /\ list' = [list EXCEPT ![reader[r].user] = reader[r].account]
              /\ UNCHANGED view
    /\ reader' = [reader EXCEPT ![r] = NoReader]

\* A provider, a statement or the SET fails, Lapse knows no such account, or
\* the reader is dropped: nothing is stored.
GiveUp(r) ==
    /\ reader[r].pc # "idle"
    /\ reader' = [reader EXCEPT ![r] = NoReader]
    /\ UNCHANGED <<view, list>>

ReaderStep(r) == ReadNames(r) \/ ReadConnection(r) \/ Store(r)

ReaderNext ==
    /\ \E r \in Readers :
         \/ ReaderStep(r) \/ GiveUp(r)
         \/ \E u \in Users : AskList(r, u) \/ \E v \in Views : AskView(r, u, v)
    /\ UNCHANGED <<links, connection, writer, connector, raced>>

\* Somebody is about to store what was read before now.
ViewInFlight == \E r \in Readers : reader[r].key \in Views /\ reader[r].names # None
ListInFlight(u) ==
    \E r \in Readers : reader[r].key = "list" /\ reader[r].user = u /\ reader[r].account # None

-----------------------------------------------------------------------------
SetNames(w, l) ==
    /\ writer[w] = {}
    /\ links' = l
    /\ writer' = [writer EXCEPT ![w] = Views]
    /\ raced' = (raced \/ ViewInFlight)
    /\ UNCHANGED view

OtherKey(v) == view
WithoutView(v) == [view EXCEPT ![v] = None]

EvictView(w, v) ==
    /\ v \in writer[w]
    /\ view' = WithoutView(v)
    /\ writer' = [writer EXCEPT ![w] = @ \ {v}]
    /\ UNCHANGED <<links, raced>>

\* A DEL fails, which nobody notices, or the request is dropped before it.
EvictionLost(w, v) ==
    /\ v \in writer[w]
    /\ writer' = [writer EXCEPT ![w] = @ \ {v}]
    /\ raced' = TRUE
    /\ UNCHANGED <<links, view>>

WriterNext ==
    /\ \E w \in Writers :
         \/ \E l \in Links : SetNames(w, l)
         \/ \E v \in Views : EvictView(w, v) \/ EvictionLost(w, v)
    /\ UNCHANGED <<connection, list, reader, connector>>

-----------------------------------------------------------------------------
\* hackatime_callback has found its state and got an account for its code.
Connect(c, u, a) ==
    /\ connector[c].pc = "idle"
    /\ connector' = [connector EXCEPT ![c] = [pc |-> "upsert", user |-> u, account |-> a]]
    /\ UNCHANGED <<connection, list, raced>>

Upsert(c) ==
    /\ connector[c].pc = "upsert"
    /\ connection' = [connection EXCEPT ![connector[c].user] = connector[c].account]
    /\ connector' = [connector EXCEPT ![c].pc = "evict"]
    /\ raced' = (raced \/ ListInFlight(connector[c].user))
    /\ UNCHANGED list

\* DEL user:{id}:hackatime-projects:v2
WithoutList(u) == [list EXCEPT ![u] = None]

EvictList(c) ==
    /\ connector[c].pc = "evict"
    /\ list' = WithoutList(connector[c].user)
    /\ connector' = [connector EXCEPT ![c] = NoConnector]
    /\ UNCHANGED <<connection, raced>>

ConnectorFails(c) ==
    /\ connector[c].pc # "idle"
    /\ connector' = [connector EXCEPT ![c] = NoConnector]
    /\ raced' = (raced \/ connector[c].pc = "evict")
    /\ UNCHANGED <<connection, list>>

ConnectorNext ==
    /\ \E c \in Connectors :
         \/ Upsert(c) \/ EvictList(c) \/ ConnectorFails(c)
         \/ \E u \in Users, a \in Accounts : Connect(c, u, a)
    /\ UNCHANGED <<links, view, reader, writer>>

-----------------------------------------------------------------------------
\* SETEX for five minutes
NoExpiry(key) == FALSE
Cached(key) == key # None

ViewExpires(v) ==
    /\ Cached(view[v])
    /\ view' = [view EXCEPT ![v] = None]
    /\ UNCHANGED <<links, connection, list, reader, writer, connector, raced>>

ListExpires(u) ==
    /\ Cached(list[u])
    /\ list' = [list EXCEPT ![u] = None]
    /\ UNCHANGED <<links, connection, view, reader, writer, connector, raced>>

Next ==
    \/ ReaderNext \/ WriterNext \/ ConnectorNext
    \/ \E v \in Views : ViewExpires(v)
    \/ \E u \in Users : ListExpires(u)

Spec == Init /\ [][Next]_vars

\* Redis expires its keys and the runtime carries readers on.
Fairness ==
    /\ \A v \in Views : WF_vars(ViewExpires(v))
    /\ \A u \in Users : WF_vars(ListExpires(u))
    /\ \A r \in Readers :
         WF_vars(ReaderStep(r) /\ UNCHANGED <<links, connection, writer, connector, raced>>)

LiveSpec == Spec /\ Fairness

-----------------------------------------------------------------------------
\* Every variable holds what its column, key or local variable can hold.
TypeOK ==
    /\ links \in Links
    /\ connection \in [Users -> Accounts \union {None}]
    /\ view \in [Views -> [names : Links, user : Users, account : Accounts] \union {None}]
    /\ list \in [Users -> Accounts \union {None}]
    /\ reader \in [Readers ->
         [pc : {"idle", "names", "connection", "store"}, key : Views \union {"list", None},
          user : Users \union {None}, names : Links \union {None},
          account : Accounts \union {None}]]
    /\ writer \in [Writers -> SUBSET Views]
    /\ connector \in [Connectors ->
         [pc : {"idle", "upsert", "evict"}, user : Users \union {None},
          account : Accounts \union {None}]]
    /\ raced \in BOOLEAN

ViewsPending == \E w \in Writers : writer[w] # {}
ListPending(u) == \E c \in Connectors : connector[c].pc = "evict" /\ connector[c].user = u

\* A view of names that are no longer linked, or a list of an account that is
\* no longer connected, is served only between a write and its eviction, or
\* because the eviction failed or a reader was under way: never otherwise.
StaleOnlyByRace ==
    ~raced =>
      /\ ~ViewsPending => \A v \in Views : view[v] = None \/ view[v].names = links
      /\ \A u \in Users : ~ListPending(u) => list[u] \in {None, connection[u]}

Quiet == ~ViewsPending /\ \A c \in Connectors : connector[c].pc = "idle"

\* What a race left behind is not served for ever: once nobody writes, views
\* and lists are of what is linked and of what is connected.
ViewsConverge ==
    <>[]Quiet =>
      <>[](/\ \A v \in Views : view[v] # None =>
                view[v].names = links /\ view[v].account = connection[view[v].user]
           /\ \A u \in Users : list[u] \in {None, connection[u]})

\* The view an admin's request made with the admin's connection is not served
\* to the owner for ever: it goes once admins ask no more.
OwnersViewReturns ==
    <>[](\A r \in Readers : reader[r].user \in {None, Owner}) =>
      <>[](\A v \in Views : view[v] = None \/ view[v].user = Owner)
=============================================================================
