--------------------- MODULE ConfigurationService_proofs ---------------------
(* What holds of the configuration service and its clients for any number  *)
(* of servers, clients and membership changes.                             *)
EXTENDS ConfigurationService, SequenceTheorems, TLAPS

\* Every list in the service, on its way and at the client is a table that the
\* service had.  ListsAreReal alone is not inductive: what is in the client's
\* map comes from refill, that from the stream, and that from the stack and
\* from the snapshots of the servers() calls.
StoredLists ==
    /\ spreadServers \in tables
    /\ updates \in Seq(tables)
    /\ snapshot \in [Clients -> tables]
SentLists ==
    /\ stream \in [Clients -> Seq(tables)]
    /\ refill \in [Clients -> SUBSET tables]
    /\ availableServers \in [Clients -> tables]
ListsInv == {} \in tables /\ StoredLists /\ SentLists

\* At the start the only table and the only list is the empty one.
LEMMA ListsInit == Init => ListsInv
  BY DEF Init, ListsInv, StoredLists, SentLists

\* Taking the first element off a sequence, or adding one at either end.
LEMMA SeqOf ==
    ASSUME NEW S, NEW q \in Seq(S)
    PROVE  /\ q # <<>> => Head(q) \in S /\ Tail(q) \in Seq(S)
           /\ \A x \in S : Append(q, x) \in Seq(S) /\ <<x>> \o q \in Seq(S)
  OBVIOUS

\* A sequence over a set is a sequence over a larger one.
LEMMA SeqOfMore ==
    ASSUME NEW S, NEW T, S \subseteq T, NEW q \in Seq(S)
    PROVE  q \in Seq(T)
  OBVIOUS

\* The table changes: the new one joins the history, and may be pushed.
LEMMA ListsUpdateClients ==
    ASSUME ListsInv, NEW t, UpdateClients(t),
           UNCHANGED <<snapshot, stream, refill, availableServers>>
    PROVE  ListsInv'
  <1> USE DEF ListsInv, StoredLists, SentLists
  <1>1. spreadServers' = t /\ tables' = tables \cup {t}
        /\ (updates' = <<t>> \o updates \/ updates' = updates)
    BY DEF UpdateClients
  <1>2. tables \subseteq tables' /\ t \in tables'
    BY <1>1
  <1>3. updates \in Seq(tables') /\ \A c \in Clients : stream[c] \in Seq(tables')
    <2>1. updates \in Seq(tables')
      BY <1>2, SeqOfMore
    <2>2. ASSUME NEW c \in Clients PROVE stream[c] \in Seq(tables')
      <3>1. stream[c] \in Seq(tables)
        OBVIOUS
      <3> QED
        BY <1>2, <3>1, SeqOfMore
    <2> QED
      BY <2>1, <2>2
  <1>4. updates' \in Seq(tables')
    <2>1. <<t>> \o updates \in Seq(tables')
      BY <1>2, <1>3, SeqOf
    <2> QED
      BY <1>1, <1>3, <2>1
  <1>5. stream' \in [Clients -> Seq(tables')]
    BY <1>3
  <1>6. snapshot' \in [Clients -> tables'] /\ refill' \in [Clients -> SUBSET tables']
        /\ availableServers' \in [Clients -> tables']
    BY <1>2
  <1> QED
    BY <1>1, <1>2, <1>4, <1>5, <1>6

\* The service sends a list it has, and so does the updater.
LEMMA ListsServe ==
    ASSUME ListsInv,
           \/ Update
           \/ \E c \in Clients : Serve(c)
    PROVE  ListsInv'
  <1> USE DEF ListsInv, StoredLists, SentLists
  <1>1. CASE Update
    <2>1. Head(updates) \in tables /\ Tail(updates) \in Seq(tables)
      BY <1>1, SeqOf DEF Update
    <2>2. \A c \in Clients : Append(stream[c], Head(updates)) \in Seq(tables)
      BY <2>1, SeqOf
    <2> QED
      BY <1>1, <2>1, <2>2 DEF Update, calls, client
  <1>2. ASSUME NEW c \in Clients, RegisterClient(c) PROVE ListsInv'
    BY <1>2 DEF RegisterClient, table, client
  <1>3. ASSUME NEW c \in Clients, GetAvailableServers(c) PROVE ListsInv'
    BY <1>3 DEF GetAvailableServers, table, client
  <1>4. ASSUME NEW c \in Clients, AnswerClient(c) PROVE ListsInv'
    <2>1. Append(stream[c], snapshot[c]) \in Seq(tables)
      BY SeqOf
    <2> QED
      BY <1>4, <2>1 DEF AnswerClient, table, client
  <1>5. ASSUME NEW c \in Clients, RemoveClient(c) PROVE ListsInv'
    <2>1. <<>> \in Seq(tables)
      OBVIOUS
    <2> QED
      BY <1>5, <2>1 DEF RemoveClient, table, client
  <1> QED
    BY <1>1, <1>2, <1>3, <1>4, <1>5 DEF Serve

\* The client takes a list off the stream, and makes it its own.
LEMMA ListsObserve ==
    ASSUME ListsInv, NEW c \in Clients, Observe(c)
    PROVE  ListsInv'
  <1> USE DEF ListsInv, StoredLists, SentLists
  <1>1. CASE ClearServers(c)
    <2>1. Head(stream[c]) \in tables /\ Tail(stream[c]) \in Seq(tables)
      BY <1>1, SeqOf DEF ClearServers
    <2> QED
      BY <1>1, <2>1 DEF ClearServers, table, calls
  <1>2. CASE FillServers(c)
    BY <1>2 DEF FillServers, table, calls
  <1> QED
    BY <1>1, <1>2 DEF Observe

\* No step lets a list into the service, the streams or a client that the
\* service's table was not.
LEMMA ListsStep == ListsInv /\ [Next]_vars => ListsInv'
  <1> SUFFICES ASSUME ListsInv, [Next]_vars PROVE ListsInv'
    OBVIOUS
  <1>1. ASSUME UNCHANGED <<spreadServers, updates, tables, snapshot, stream, refill,
                           availableServers>>
        PROVE  ListsInv'
    BY <1>1 DEF ListsInv, StoredLists, SentLists
  <1>2. CASE Group
    BY <1>1, <1>2 DEF Group, Join, Leave, Split, Merge, Change, table, calls, client
  <1>3. CASE Hear
    <2>1. CASE AddSpreadServer
      BY <2>1, ListsUpdateClients DEF AddSpreadServer, calls, client
    <2>2. CASE RemoveSpreadServer
      BY <2>2, ListsUpdateClients DEF RemoveSpreadServer, calls, client
    <2>3. CASE AddUnknownServer \/ IgnoreNetworkChange
      BY <1>1, <2>3 DEF AddUnknownServer, IgnoreNetworkChange, table, calls, client
    <2> QED
      BY <1>3, <2>1, <2>2, <2>3 DEF Hear
  <1>4. CASE StopService \/ UpdaterDies
    BY <1>1, <1>4 DEF StopService, UpdaterDies, calls, client
  <1>5. CASE Update \/ \E c \in Clients : Serve(c)
    BY <1>5, ListsServe
  <1>6. CASE \E c \in Clients : Observe(c)
    BY <1>6, ListsObserve
  <1>7. CASE \E c \in Clients : Start(c)
    BY <1>1, <1>7 DEF Start, table
  <1>8. CASE \E c \in Clients : Connect(c) \/ Calls(c) \/ Type(c)
    <2>1. PICK c \in Clients : Main(c)
      BY <1>8 DEF Connect, Calls, Type, ReadFails, WriteFails, SelectServer, SelectFromList,
                  CreateServerChannel, Extreme, ExtremeEnds, Mistype, Exit, NoChannel
    <2> QED
      BY <1>1, <2>1 DEF Main, table, calls
  <1>9. CASE UNCHANGED vars
    BY <1>1, <1>9 DEF vars, table, calls, client
  <1> QED
    BY <1>2, <1>3, <1>4, <1>5, <1>6, <1>7, <1>8, <1>9 DEF Next

\* Whatever lists the service loses, sends late or sends from two threads, the
\* map of a client is always a table that the service had, never a mixture.
THEOREM ListsCorrect == Spec => []ListsAreReal
  <1>1. ListsInv => ListsAreReal
    BY DEF ListsInv, SentLists, ListsAreReal
  <1> QED
    BY <1>1, ListsInit, ListsStep, PTL DEF Spec

----------------------------------------------------------------------------
(* Types.                                                                  *)

\* What a client's main thread may do leaves its phase and channel in their
\* types.
LEMMA TypeMain ==
    ASSUME TypeOK, NEW c \in Clients, Connect(c) \/ Calls(c) \/ Type(c)
    PROVE  TypeOK'
  <1>1. channel \in [Clients -> Servers \cup {None}]
        /\ phase \in [Clients -> {"off", "waiting", "ready", "extreme", "dead", "left"}]
        /\ availableServers[c] \in SUBSET Servers /\ refill[c] \in SUBSET Lists
    BY DEF TypeOK, Lists
  <1>2. availableServers[c] \cup UNION refill[c] \subseteq Servers
    BY <1>1 DEF Lists
  <1>3. Main(c)
    BY DEF Connect, Calls, Type, ReadFails, WriteFails, SelectServer, SelectFromList,
           CreateServerChannel, Extreme, ExtremeEnds, Mistype, Exit, NoChannel
  <1>4. /\ channel' \in [Clients -> Servers \cup {None}]
        /\ phase' \in [Clients -> {"off", "waiting", "ready", "extreme", "dead", "left"}]
    <2>1. CASE CreateRandomServerChannel(c)
      <3>1. CASE \E r \in availableServers[c] \cup UNION refill[c] :
                    channel' = [channel EXCEPT ![c] = r]
        <4>1. PICK r \in Servers : channel' = [channel EXCEPT ![c] = r]
          BY <3>1, <1>2
        <4>2. phase' = [phase EXCEPT ![c] = "ready"] \/ phase' = [phase EXCEPT ![c] = "dead"]
          BY <2>1 DEF CreateRandomServerChannel
        <4> QED
          BY <4>1, <4>2, <1>1
      <3> QED
        BY <2>1, <3>1, <1>1 DEF CreateRandomServerChannel
    <2>2. CASE CreateServerChannel(c)
      BY <2>2, <1>1 DEF CreateServerChannel
    <2>3. CASE Extreme(c) \/ ExtremeEnds(c) \/ Exit(c) \/ NoChannel(c)
      BY <2>3, <1>1 DEF Extreme, ExtremeEnds, Exit, NoChannel
    <2> QED
      BY <2>1, <2>2, <2>3
      DEF Connect, Calls, Type, ReadFails, WriteFails, SelectServer, SelectFromList, Mistype
  <1> QED
    BY <1>3, <1>4 DEF TypeOK, Main, group, table, calls

\* What the group, the service and the handlers of its calls may do.
LEMMA TypeService ==
    ASSUME TypeOK, Group \/ Hear \/ StopService \/ Update \/ UpdaterDies
    PROVE  TypeOK'
  <1>1. CASE Group
    <2>1. PICK r \in Servers : Join(r) \/ Leave(r) \/ Split(r) \/ Merge(r)
      BY <1>1 DEF Group
    <2>2. PICK kind \in {"join", "leave", "network"}, m \in Lists : Change(kind, r, m)
      BY <2>1 DEF Join, Leave, Split, Merge, TypeOK, Lists
    <2>3. [kind |-> kind, server |-> r] \in Events
      BY DEF Events
    <2>4. events' \in Seq(Events)
      BY <2>2, <2>3, SeqOf DEF Change, TypeOK
    <2>5. changes' \in 0..MaxChanges
      BY <2>2, ConstantAssumption DEF Change, TypeOK
    <2> QED
      BY <2>2, <2>4, <2>5 DEF Change, TypeOK, table, calls, client
  <1>2. CASE Hear
    <2>1. Head(events) \in Events /\ Tail(events) \in Seq(Events)
      BY <1>2, SeqOf DEF Hear, AddSpreadServer, AddUnknownServer, RemoveSpreadServer,
                         IgnoreNetworkChange, Hears, TypeOK
    <2>2. Head(events).server \in Servers
      BY <2>1 DEF Events
    <2>3. ASSUME NEW t \in Lists, UpdateClients(t)
          PROVE  spreadServers' \in Lists /\ tables' \subseteq Lists /\ updates' \in Seq(Lists)
      <3>1. updates \in Seq(Lists) /\ <<t>> \o updates \in Seq(Lists)
        BY SeqOf DEF TypeOK
      <3> QED
        BY <2>3, <3>1 DEF UpdateClients, TypeOK
    <2>4. CASE AddSpreadServer
      <3>1. spreadServers \cup {Head(events).server} \in Lists
        BY <2>2 DEF TypeOK, Lists
      <3>2. spreadServers' \in Lists /\ tables' \subseteq Lists /\ updates' \in Seq(Lists)
        BY <3>1, <2>3, <2>4 DEF AddSpreadServer
      <3> QED
        BY <2>1, <2>4, <3>2 DEF AddSpreadServer, Hears, TypeOK, calls, client
    <2>5. CASE RemoveSpreadServer
      <3>1. spreadServers \ {Head(events).server} \in Lists
        BY DEF TypeOK, Lists
      <3>2. spreadServers' \in Lists /\ tables' \subseteq Lists /\ updates' \in Seq(Lists)
        BY <3>1, <2>3, <2>5 DEF RemoveSpreadServer
      <3> QED
        BY <2>1, <2>5, <3>2 DEF RemoveSpreadServer, Hears, TypeOK, calls, client
    <2>6. CASE AddUnknownServer
      BY <2>1, <2>6 DEF AddUnknownServer, Hears, TypeOK, client
    <2>7. CASE IgnoreNetworkChange
      BY <2>1, <2>7 DEF IgnoreNetworkChange, Hears, TypeOK, table, calls, client
    <2> QED
      BY <1>2, <2>4, <2>5, <2>6, <2>7 DEF Hear
  <1>3. CASE StopService
    BY <1>3 DEF StopService, TypeOK, calls, client
  <1>4. CASE Update
    <2>1. Head(updates) \in Lists /\ Tail(updates) \in Seq(Lists)
      BY <1>4, SeqOf DEF Update, TypeOK
    <2>2. \A c \in Clients : Append(stream[c], Head(updates)) \in Seq(Lists)
      BY <2>1, SeqOf DEF TypeOK
    <2>3. stream' \in [Clients -> Seq(Lists)]
      BY <1>4, <2>2 DEF Update, TypeOK
    <2> QED
      BY <1>4, <2>1, <2>3 DEF Update, TypeOK, group, calls, client
  <1>5. CASE UpdaterDies
    BY <1>5 DEF UpdaterDies, TypeOK, group, calls, client
  <1> QED
    BY <1>1, <1>2, <1>3, <1>4, <1>5

\* What the handlers of the servers() calls and the client's other threads may
\* do.
LEMMA TypeCalls ==
    ASSUME TypeOK, NEW c \in Clients, Serve(c) \/ Observe(c) \/ Start(c)
    PROVE  TypeOK'
  <1>1. CASE RegisterClient(c)
    BY <1>1 DEF RegisterClient, TypeOK, group, table, client
  <1>2. CASE GetAvailableServers(c)
    BY <1>2 DEF GetAvailableServers, TypeOK, group, table, client
  <1>3. CASE AnswerClient(c)
    <2>1. Append(stream[c], snapshot[c]) \in Seq(Lists)
      BY SeqOf DEF TypeOK
    <2> QED
      BY <1>3, <2>1 DEF AnswerClient, TypeOK, group, table, client
  <1>4. CASE RemoveClient(c)
    <2>1. stream' \in [Clients -> Seq(Lists)]
      BY <1>4 DEF RemoveClient, TypeOK
    <2> QED
      BY <1>4, <2>1 DEF RemoveClient, TypeOK, group, table, client
  <1>5. CASE ClearServers(c)
    <2>1. Head(stream[c]) \in Lists /\ Tail(stream[c]) \in Seq(Lists)
      BY <1>5, SeqOf DEF ClearServers, TypeOK
    <2>2. {} \in Lists
      BY DEF Lists
    <2>3. /\ stream' \in [Clients -> Seq(Lists)]
          /\ refill' \in [Clients -> SUBSET Lists]
          /\ availableServers' \in [Clients -> Lists]
      BY <1>5, <2>1, <2>2 DEF ClearServers, TypeOK
    <2> QED
      BY <1>5, <2>3 DEF ClearServers, TypeOK, group, table, calls
  <1>6. CASE FillServers(c)
    <2>1. PICK list \in refill[c] : availableServers' = [availableServers EXCEPT ![c] = list]
      BY <1>6 DEF FillServers
    <2>2. list \in Lists
      BY <2>1 DEF TypeOK
    <2>3. availableServers' \in [Clients -> Lists] /\ refill' \in [Clients -> SUBSET Lists]
      BY <1>6, <2>1, <2>2 DEF FillServers, TypeOK
    <2> QED
      BY <1>6, <2>3 DEF FillServers, TypeOK, group, table, calls
  <1>7. CASE Start(c)
    BY <1>7 DEF Start, TypeOK, group, table
  <1> QED
    BY <1>1, <1>2, <1>3, <1>4, <1>5, <1>6, <1>7 DEF Serve, Observe

\* Every variable of the service, of the streams and of the clients keeps its
\* type, whatever the group, the network, the operator and the users do.
THEOREM TypeCorrect == Spec => []TypeOK
  <1>1. Init => TypeOK
    <2> SUFFICES ASSUME Init PROVE TypeOK
      OBVIOUS
    <2>1. env \in AllEnvironments /\ env.early \in Lists
      BY ConstantAssumption DEF Init, AllEnvironments, Lists
    <2>2. <<>> \in Seq(Events) /\ <<>> \in Seq(Lists) /\ {} \in Lists /\ 0 \in 0..MaxChanges
      BY ConstantAssumption DEF Lists
    <2> QED
      BY <2>1, <2>2 DEF Init, TypeOK
  <1>2. TypeOK /\ [Next]_vars => TypeOK'
    <2> SUFFICES ASSUME TypeOK, [Next]_vars PROVE TypeOK'
      OBVIOUS
    <2>1. CASE UNCHANGED vars
      BY <2>1 DEF TypeOK, vars, group, table, calls, client
    <2> QED
      BY <2>1, TypeService, TypeCalls, TypeMain DEF Next
  <1> QED
    BY <1>1, <1>2, PTL DEF Spec

----------------------------------------------------------------------------
(* Clients are informed.                                                   *)

\* A servers() call is under way in the service.
Underway(c) == handler[c] \in {"registered", "answering"}

\* At most one change is between the group and the clients.  It is first in
\* events, where the service's table is the group without it, and then in
\* updates, where the table is the group again; a servers() call meets neither.
OneAtATime ==
    /\ \/ events = <<>> /\ spreadServers = members
       \/ \E r \in Servers :
             /\ events = <<[kind |-> "join", server |-> r]>>
             /\ members = spreadServers \cup {r}
       \/ \E r \in Servers :
             /\ events = <<[kind |-> "leave", server |-> r]>>
             /\ members = spreadServers \ {r}
    /\ updates = <<>> \/ (events = <<>> /\ updates = <<spreadServers>>)
    /\ ~Dispatched => \A c \in Clients : ~Underway(c)
    /\ \A c \in Clients : handler[c] = "answering" => snapshot[c] = spreadServers

\* The newest of the lists at client c or on their way to it is the table.
UpToDate(c) ==
    /\ stream[c] # <<>> => stream[c][Len(stream[c])] = spreadServers
    /\ stream[c] = <<>> /\ refill[c] # {} => refill[c] = {spreadServers}
    /\ stream[c] = <<>> /\ refill[c] = {} => availableServers[c] = spreadServers

\* While the service runs, every client that was answered is up to date or
\* will be by the list in updates.  A service that met an unknown server has
\* ended, and its streams with it.
CalmInv ==
    \/ service = "exited" /\ observers = {}
    \/ /\ service = "running"
       /\ OneAtATime
       /\ \A c \in observers :
             Running(c) /\ handler[c] = "open" /\ updates = <<>> => UpToDate(c)

\* Once nothing is on its way, the newest list is in the client's map.
LEMMA CalmInforms == CalmInv => Informed
  BY DEF CalmInv, OneAtATime, UpToDate, Informed, Settled, Dispatched

\* A service that has heard of no server, and no clients.
LEMMA CalmInit == Init /\ Calm => CalmInv
  BY DEF Init, Calm, CalmInv, OneAtATime, Dispatched, Underway

\* The environment stays as it is.
LEMMA CalmStays == [Next]_vars => env' = env /\ (Calm' <=> Calm)
  <1> SUFFICES ASSUME [Next]_vars PROVE env' = env
    BY DEF Calm
  <1>1. CASE UNCHANGED vars \/ Group \/ Hear \/ StopService \/ Update \/ UpdaterDies
    BY <1>1 DEF vars, Group, Join, Leave, Split, Merge, Change, Hear, AddSpreadServer,
                AddUnknownServer, RemoveSpreadServer, IgnoreNetworkChange, StopService,
                Update, UpdaterDies, group
  <1>2. CASE \E c \in Clients : Serve(c) \/ Observe(c) \/ Start(c)
    BY <1>2 DEF Serve, RegisterClient, GetAvailableServers, AnswerClient, RemoveClient,
                Observe, ClearServers, FillServers, Start, group
  <1>3. CASE \E c \in Clients : Connect(c) \/ Calls(c) \/ Type(c)
    BY <1>3 DEF Connect, Calls, Type, ReadFails, WriteFails, SelectServer, SelectFromList,
                CreateServerChannel, Extreme, ExtremeEnds, Mistype, Exit, NoChannel, Main,
                group
  <1> QED
    BY <1>1, <1>2, <1>3 DEF Next

\* A sequence with one element.
LEMMA OneElement ==
    ASSUME NEW x
    PROVE  /\ <<x>> # <<>> /\ Head(<<x>>) = x /\ Tail(<<x>>) = <<>>
           /\ Append(<<>>, x) = <<x>> /\ <<x>> \o <<>> = <<x>>
  OBVIOUS

\* The last element of a sequence that was added to.
LEMMA LastOf ==
    ASSUME NEW S, NEW q \in Seq(S), NEW x \in S
    PROVE  Append(q, x) # <<>> /\ Append(q, x)[Len(Append(q, x))] = x
  OBVIOUS

\* Taking the first element off a sequence leaves its last, if any is left.
LEMMA LastOfTail ==
    ASSUME NEW S, NEW q \in Seq(S), q # <<>>
    PROVE  /\ Tail(q) # <<>> => Tail(q)[Len(Tail(q))] = q[Len(q)]
           /\ Tail(q) = <<>> => Head(q) = q[Len(q)]
  <1>1. Len(q) \in Nat \ {0} /\ Head(q) = q[1] /\ Tail(q) \in Seq(S)
    OBVIOUS
  <1>2. Len(Tail(q)) = Len(q) - 1 /\ \A i \in 1..(Len(q) - 1) : Tail(q)[i] = q[i + 1]
    OBVIOUS
  <1>3. CASE Tail(q) = <<>>
    BY <1>1, <1>2, <1>3, EmptySeq
  <1>4. CASE Tail(q) # <<>>
    <2>1. Len(Tail(q)) # 0
      BY <1>1, <1>4, EmptySeq
    <2> QED
      BY <1>1, <1>2, <1>4, <2>1
  <1> QED
    BY <1>3, <1>4

\* A change comes when nothing is on its way and no call is under way.
LEMMA CalmGroup ==
    ASSUME TypeOK, Calm, CalmInv, Group
    PROVE  CalmInv'
  <1>1. PICK r \in Servers : Join(r) \/ Leave(r)
    BY DEF Group, Split, Merge, Calm
  <1>2. Paced /\ UNCHANGED <<table, calls, stream, client>>
    BY <1>1 DEF Join, Leave, Change
  <1>3. CASE service = "exited"
    BY <1>2, <1>3 DEF CalmInv, table, calls
  <1>4. CASE service = "running"
    <2>1. events = <<>> /\ updates = <<>> /\ spreadServers = members
          /\ \A c \in Clients : ~Underway(c)
      BY <1>2, <1>4 DEF CalmInv, Paced, Calm, Dispatched, OneAtATime, Underway
    <2>2. CASE Join(r)
      <3>1. members' = members \cup {r} /\ events' = <<[kind |-> "join", server |-> r]>>
        BY <1>4, <2>1, <2>2, OneElement DEF Join, Change
      <3>2. OneAtATime'
        BY <1>2, <2>1, <3>1 DEF OneAtATime, Underway, table, calls
      <3> QED
        BY <1>2, <1>4, <3>2 DEF CalmInv, UpToDate, Running, table, calls, client
    <2>3. CASE Leave(r)
      <3>1. members' = members \ {r} /\ events' = <<[kind |-> "leave", server |-> r]>>
        BY <1>4, <2>1, <2>3, OneElement DEF Leave, Change
      <3>2. OneAtATime'
        BY <1>2, <2>1, <3>1 DEF OneAtATime, Underway, table, calls
      <3> QED
        BY <1>2, <1>4, <3>2 DEF CalmInv, UpToDate, Running, table, calls, client
    <2> QED
      BY <1>1, <2>2, <2>3
  <1> QED
    BY <1>3, <1>4 DEF CalmInv

\* The service hears of a change: its table is the group again, and the list is
\* on the stack; or it has met a server it does not know.
LEMMA CalmHear ==
    ASSUME TypeOK, Calm, CalmInv, Hear
    PROVE  CalmInv'
  <1>1. service = "running" /\ events # <<>> /\ events' = Tail(events) /\ OneAtATime
    BY DEF Hear, AddSpreadServer, AddUnknownServer, RemoveSpreadServer, IgnoreNetworkChange,
           Hears, CalmInv
  <1>2. updates = <<>> /\ ~Dispatched /\ \A c \in Clients : ~Underway(c)
    BY <1>1 DEF OneAtATime, Dispatched
  <1>3. ASSUME UpdateClients(members), members' = members, events' = <<>>,
               UNCHANGED <<service, calls, stream, client>>
        PROVE  CalmInv'
    <2>1. spreadServers' = members' /\ updates' = <<members>> /\ updates' # <<>>
      BY <1>2, <1>3, OneElement DEF UpdateClients, Calm
    <2>2. OneAtATime'
      BY <1>2, <1>3, <2>1 DEF OneAtATime, Underway, calls
    <2> QED
      BY <1>1, <1>3, <2>1, <2>2 DEF CalmInv
  <1>4. PICK r \in Servers :
          \/ /\ events = <<[kind |-> "join", server |-> r]>>
             /\ members = spreadServers \cup {r}
          \/ /\ events = <<[kind |-> "leave", server |-> r]>>
             /\ members = spreadServers \ {r}
    BY <1>1 DEF OneAtATime
  <1>5. /\ Tail(events) = <<>> /\ Head(events).server = r
        /\ \/ Head(events).kind = "join" /\ members = spreadServers \cup {r}
           \/ Head(events).kind = "leave" /\ members = spreadServers \ {r}
    <2>1. CASE events = <<[kind |-> "join", server |-> r]>>
      BY <1>4, <2>1, OneElement
    <2>2. CASE events = <<[kind |-> "leave", server |-> r]>>
      BY <1>4, <2>2, OneElement
    <2> QED
      BY <1>4, <2>1, <2>2
  <1>6. CASE AddSpreadServer
    BY <1>1, <1>3, <1>5, <1>6 DEF AddSpreadServer, Hears
  <1>7. CASE RemoveSpreadServer
    BY <1>1, <1>3, <1>5, <1>7 DEF RemoveSpreadServer, Hears
  <1>8. CASE AddUnknownServer
    BY <1>8 DEF AddUnknownServer, CalmInv
  <1>9. CASE IgnoreNetworkChange
    BY <1>5, <1>9 DEF IgnoreNetworkChange, Hears
  <1> QED
    BY <1>6, <1>7, <1>8, <1>9 DEF Hear

\* The updater sends the table to every client that has registered.
LEMMA CalmUpdate ==
    ASSUME TypeOK, Calm, CalmInv, Update
    PROVE  CalmInv'
  <1>1. CASE service = "exited"
    BY <1>1 DEF CalmInv, Update, calls
  <1>2. CASE service = "running"
    <2>1. events = <<>> /\ updates = <<spreadServers>> /\ updates' = <<>>
          /\ Head(updates) = spreadServers /\ OneAtATime
      BY <1>2, OneElement DEF CalmInv, OneAtATime, Update
    <2>2. OneAtATime'
      BY <2>1 DEF OneAtATime, Update, group, calls, Dispatched
    <2>3. ASSUME NEW c \in observers PROVE UpToDate(c)'
      <3>1. c \in Clients /\ stream[c] \in Seq(Lists) /\ spreadServers \in Lists
        BY DEF TypeOK
      <3>2. stream'[c] = Append(stream[c], spreadServers) /\ spreadServers' = spreadServers
        BY <2>1, <3>1 DEF Update
      <3> QED
        BY <3>1, <3>2, LastOf DEF UpToDate
    <2> QED
      BY <1>2, <2>2, <2>3 DEF CalmInv, Update, calls
  <1> QED
    BY <1>1, <1>2 DEF CalmInv

\* A servers() call registers the client when nothing is on its way, so that
\* the list it answers with is the table.
LEMMA CalmServe ==
    ASSUME TypeOK, Calm, CalmInv, NEW c \in Clients, Serve(c)
    PROVE  CalmInv'
  <1> USE DEF group, table, client
  <1>1. CASE RegisterClient(c)
    <2>1. service = "running" /\ events = <<>> /\ updates = <<>> /\ OneAtATime
      BY <1>1 DEF RegisterClient, CalmInv, Calm, Dispatched
    <2>2. handler'[c] = "registered" /\ \A d \in Clients \ {c} : handler'[d] = handler[d]
      BY <1>1 DEF RegisterClient, TypeOK
    <2>3. OneAtATime'
      BY <1>1, <2>1, <2>2 DEF RegisterClient, OneAtATime, Dispatched
    <2>4. ASSUME NEW d \in observers', Running(d)', handler'[d] = "open" PROVE UpToDate(d)'
      BY <1>1, <2>1, <2>2, <2>4 DEF RegisterClient, CalmInv, UpToDate, Running, TypeOK
    <2> QED
      BY <1>1, <2>1, <2>3, <2>4 DEF RegisterClient, CalmInv
  <1>2. CASE GetAvailableServers(c)
    <2>1. handler'[c] = "answering" /\ snapshot'[c] = spreadServers
          /\ \A d \in Clients \ {c} : handler'[d] = handler[d] /\ snapshot'[d] = snapshot[d]
      BY <1>2 DEF GetAvailableServers, TypeOK
    <2>2. OneAtATime => OneAtATime'
      BY <1>2, <2>1 DEF GetAvailableServers, OneAtATime, Underway, Dispatched
    <2>3. ASSUME service = "running", NEW d \in observers', Running(d)',
                 handler'[d] = "open", updates' = <<>>
          PROVE  UpToDate(d)'
      BY <1>2, <2>1, <2>3 DEF GetAvailableServers, CalmInv, UpToDate, Running, TypeOK
    <2> QED
      BY <1>2, <2>2, <2>3 DEF GetAvailableServers, CalmInv
  <1>3. CASE AnswerClient(c)
    <2>1. handler'[c] = "open" /\ \A d \in Clients \ {c} :
             handler'[d] = handler[d] /\ stream'[d] = stream[d]
      BY <1>3 DEF AnswerClient, TypeOK
    <2>2. OneAtATime => OneAtATime'
      BY <1>3, <2>1 DEF AnswerClient, OneAtATime, Underway, Dispatched
    <2>3. ASSUME service = "running", NEW d \in observers', Running(d)',
                 handler'[d] = "open", updates' = <<>>
          PROVE  UpToDate(d)'
      <3>1. CASE d = c
        <4>1. snapshot[c] = spreadServers /\ spreadServers' = spreadServers
          BY <1>3, <2>3 DEF AnswerClient, CalmInv, OneAtATime
        <4>2. stream[c] \in Seq(Lists) /\ snapshot[c] \in Lists
          BY DEF TypeOK
        <4>3. stream'[c] = Append(stream[c], snapshot[c])
          BY <1>3 DEF AnswerClient, TypeOK
        <4> QED
          BY <3>1, <4>1, <4>2, <4>3, LastOf DEF UpToDate
      <3>2. CASE d # c
        BY <1>3, <2>1, <2>3, <3>2 DEF AnswerClient, CalmInv, UpToDate, Running, TypeOK
      <3> QED
        BY <3>1, <3>2
    <2> QED
      BY <1>3, <2>2, <2>3 DEF AnswerClient, CalmInv
  <1>4. CASE RemoveClient(c)
    <2>1. observers' = observers \ {c} /\ \A d \in Clients \ {c} : stream'[d] = stream[d]
      BY <1>4 DEF RemoveClient, TypeOK
    <2>2. OneAtATime => OneAtATime'
      BY <1>4 DEF RemoveClient, OneAtATime, Underway, Dispatched
    <2>3. ASSUME service = "running", NEW d \in observers', Running(d)',
                 handler'[d] = "open", updates' = <<>>
          PROVE  UpToDate(d)'
      BY <1>4, <2>1, <2>3 DEF RemoveClient, CalmInv, UpToDate, Running, TypeOK
    <2> QED
      BY <1>4, <2>1, <2>2, <2>3 DEF RemoveClient, CalmInv
  <1> QED
    BY <1>1, <1>2, <1>3, <1>4 DEF Serve

\* onNext moves a list from the stream to refill and on to the client's map: the
\* newest list stays the newest.
LEMMA CalmObserve ==
    ASSUME TypeOK, Calm, CalmInv, NEW c \in Clients, Observe(c)
    PROVE  CalmInv'
  <1> USE DEF group, table, calls
  <1>1. UNCHANGED <<service, spreadServers, updates, members, events, observers, handler,
                    snapshot, phase>>
    BY DEF Observe, ClearServers, FillServers
  <1>2. OneAtATime => OneAtATime'
    BY <1>1 DEF OneAtATime, Underway, Dispatched
  <1>3. \A d \in Clients \ {c} : UpToDate(d) => UpToDate(d)'
    BY <1>1 DEF Observe, ClearServers, FillServers, UpToDate, TypeOK
  <1>4. UpToDate(c) => UpToDate(c)'
    <2>1. CASE ClearServers(c)
      <3>1. stream[c] \in Seq(Lists) /\ stream[c] # <<>>
        BY <2>1 DEF ClearServers, TypeOK
      <3>2. stream'[c] = Tail(stream[c]) /\ refill'[c] = {Head(stream[c])}
        BY <2>1 DEF ClearServers, TypeOK
      <3> QED
        BY <1>1, <3>1, <3>2, LastOfTail DEF UpToDate
    <2>2. CASE FillServers(c)
      <3>1. PICK list \in refill[c] : availableServers' = [availableServers EXCEPT ![c] = list]
        BY <2>2 DEF FillServers
      <3>2. availableServers'[c] = list /\ refill'[c] = {} /\ stream' = stream
        BY <2>2, <3>1 DEF FillServers, TypeOK
      <3> QED
        BY <1>1, <3>1, <3>2 DEF UpToDate
    <2> QED
      BY <2>1, <2>2 DEF Observe
  <1>5. \A d \in observers : Running(d)' => Running(d) /\ d \in Clients
    BY <1>1 DEF Running, TypeOK
  <1> QED
    BY <1>1, <1>2, <1>3, <1>4, <1>5 DEF CalmInv

\* The main thread of a client reads its map and leaves it, and a client that
\* has ended does not start again; a client that starts has not been answered.
LEMMA CalmMain ==
    ASSUME TypeOK, Calm, CalmInv, NEW c \in Clients,
           Start(c) \/ Connect(c) \/ Calls(c) \/ Type(c)
    PROVE  CalmInv'
  <1> USE DEF group, table, calls
  <1>1. CASE Start(c)
    <2>1. handler'[c] = "called" /\ \A d \in Clients \ {c} :
             handler'[d] = handler[d] /\ phase'[d] = phase[d]
      BY <1>1 DEF Start, TypeOK
    <2>2. OneAtATime => OneAtATime'
      BY <1>1, <2>1 DEF Start, OneAtATime, Underway, Dispatched
    <2>3. ASSUME service = "running", NEW d \in observers', Running(d)',
                 handler'[d] = "open", updates' = <<>>
          PROVE  UpToDate(d)'
      BY <1>1, <2>1, <2>3 DEF Start, CalmInv, UpToDate, Running, TypeOK
    <2> QED
      BY <1>1, <2>2, <2>3 DEF Start, CalmInv
  <1>2. CASE Connect(c) \/ Calls(c) \/ Type(c)
    <2>1. Main(c) /\ Running(c)
      BY <1>2 DEF Connect, Calls, Type, ReadFails, WriteFails, SelectServer, SelectFromList,
                  CreateServerChannel, Extreme, ExtremeEnds, Mistype, Exit, NoChannel, Typed,
                  Running
    <2>2. \A d \in Clients \ {c} : phase'[d] = phase[d]
      BY <1>2 DEF Connect, Calls, Type, ReadFails, WriteFails, SelectServer, SelectFromList,
                  CreateServerChannel, Extreme, ExtremeEnds, Mistype, Exit, NoChannel,
                  CreateRandomServerChannel, TypeOK
    <2>3. \A d \in observers : Running(d)' => Running(d)
      BY <2>1, <2>2 DEF Running, TypeOK
    <2>4. OneAtATime => OneAtATime'
      BY <2>1 DEF Main, OneAtATime, Underway, Dispatched
    <2>5. \A d \in observers : UpToDate(d) => UpToDate(d)'
      BY <2>1 DEF Main, UpToDate
    <2> QED
      BY <2>1, <2>3, <2>4, <2>5 DEF CalmInv, Main
  <1> QED
    BY <1>1, <1>2

\* Where joins and leaves come one at a time, every registered client that runs
\* has the servers of the group in its list, no more and no fewer, once nothing
\* is on its way: for any number of clients, servers and changes, whenever the
\* clients registered.
THEOREM ClientsInformedCorrect == Spec => []ClientsInformed
  <1> DEFINE I == TypeOK /\ (Calm => CalmInv)
  <1>1. Init /\ TypeOK => I
    BY CalmInit
  <1>2. I /\ TypeOK' /\ [Next]_vars => I'
    <2> SUFFICES ASSUME TypeOK, Calm, CalmInv, TypeOK', [Next]_vars PROVE CalmInv'
      BY CalmStays
    <2>1. CASE UNCHANGED vars
      BY <2>1 DEF CalmInv, OneAtATime, UpToDate, Underway, Dispatched, Running, vars, group,
                  table, calls, client
    <2>2. CASE StopService \/ UpdaterDies
      BY <2>2 DEF StopService, UpdaterDies, Calm
    <2> QED
      BY <2>1, <2>2, CalmGroup, CalmHear, CalmUpdate, CalmServe, CalmObserve, CalmMain DEF Next
  <1>3. I => ClientsInformed
    BY CalmInforms DEF ClientsInformed
  <1> HIDE DEF I
  <1> QED
    BY <1>1, <1>2, <1>3, TypeCorrect, PTL DEF Spec

=============================================================================
