------------------------ MODULE ConfigurationService ------------------------
(***************************************************************************)
(* The configuration service of ProjetoFinal/spring and the clients that   *)
(* follow it.                                                              *)
(*                                                                         *)
(* The service hears of the servers of the Spread group (MessageListener), *)
(* keeps a table of them (ClientManager) and pushes a list of servers on a *)
(* stack at every change.  An updater thread polls the stack every two     *)
(* seconds and sends the list it pops to every registered client.  A       *)
(* client that calls servers() is registered and sent the current list.    *)
(* The client (ClientApplication) picks a server of its list at random and *)
(* picks again when a call fails.                                          *)
(*                                                                         *)
(* A list of servers is a set; names, addresses and ports are one value.   *)
(***************************************************************************)
EXTENDS Naturals, Sequences

CONSTANTS
    Servers,        \* the servers that may join the group
    Known,          \* the servers named in the service's configuration
    Clients,
    None,           \* the null channel
    Environments,   \* what servers, users and the network may do, see env
    MaxChanges      \* bound on membership changes

AllCommands == {"r", "w", "s", "sl", "c", "extreme", "exit"}

\* An environment: the servers that may come and go, those that were in the
\* group before the service, the clients, what their users type, how close
\* membership changes may come (see Paced), and whether the unsynchronised
\* stack may lose or spoil a push (racy), the network may split and merge the
\* group (partitions) and the operator may stop the service (stops).
AllEnvironments ==
    [servers : SUBSET Servers, early : SUBSET Servers, clients : SUBSET Clients,
     commands : SUBSET AllCommands, pace : {"any", "spaced", "calm"},
     racy : BOOLEAN, partitions : BOOLEAN, stops : BOOLEAN]

ASSUME ConstantAssumption ==
    /\ Known \subseteq Servers
    /\ None \notin Servers
    /\ Environments \subseteq AllEnvironments
    /\ MaxChanges \in Nat

VARIABLES
    members,        \* the servers in the Spread group, which answer calls
    events,         \* membership messages on their way to the service
    changes,        \* number of membership changes so far
    env,            \* the environment, one of Environments
    service,        \* the service's process
    spreadServers,  \* ClientManager.spreadServers
    updates,        \* ClientManager.updateClientsMessages, top of the stack first
    updater,        \* whether the thread of ClientManager.run is alive
    observers,      \* ClientManager.clientsObservers
    handler,        \* handler[c]: progress of the servers() call of client c
    snapshot,       \* snapshot[c]: the list that call is about to send
    stream,         \* stream[c]: lists on their way to client c, in order
    availableServers, \* availableServers[c]
    refill,         \* refill[c]: the list onNext is writing, between clear and puts
    phase,          \* phase[c]: where the client's main thread is
    channel,        \* channel[c]: the server that serverChannel leads to
    tables          \* history: the values spreadServers has had

group   == <<members, events, changes, env>>
table   == <<service, spreadServers, updates, updater, tables>>
calls   == <<observers, handler, snapshot>>
client  == <<availableServers, refill, phase, channel>>
vars    == <<group, table, calls, stream, client>>

Lists   == SUBSET Servers
Events  == [kind : {"join", "leave", "network"}, server : Servers]

Init ==
    /\ env \in Environments
    /\ members = env.early
    /\ events = <<>> /\ changes = 0
    /\ service = "running"
    /\ spreadServers = {} /\ tables = {{}}
    /\ updates = <<>> /\ updater = TRUE
    /\ observers = {}
    /\ handler = [c \in Clients |-> "none"]
    /\ snapshot = [c \in Clients |-> {}]
    /\ stream = [c \in Clients |-> <<>>]
    /\ availableServers = [c \in Clients |-> {}]
    /\ refill = [c \in Clients |-> {}]
    /\ phase = [c \in Clients |-> "off"]
    /\ channel = [c \in Clients |-> None]

----------------------------------------------------------------------------
(* The Spread group.                                                       *)

\* No change is still to be told to the registered clients.
Dispatched == events = <<>> /\ updates = <<>>

\* Environment: how close two changes may come.  "spaced": more than a turn of
\* the updater apart; "calm": also no servers() call overlaps a change.
Paced ==
    /\ env.pace \in {"spaced", "calm"} => Dispatched
    /\ env.pace = "calm" => \A c \in Clients : handler[c] \notin {"registered", "answering"}

Change(kind, r, m) ==
    /\ Paced
    /\ changes < MaxChanges
    /\ r \in env.servers
    /\ changes' = changes + 1 /\ env' = env
    /\ members' = m
    /\ events' = IF service = "running"
                 THEN Append(events, [kind |-> kind, server |-> r]) ELSE events
    /\ UNCHANGED <<table, calls, stream, client>>

Join(r)  == r \notin members /\ Change("join", r, members \cup {r})
\* left or disconnected: the service treats both the same
Leave(r) == r \in members /\ Change("leave", r, members \ {r})

\* A network split takes a server out of the service's component, or a merge
\* brings it back.
Split(r) == env.partitions /\ r \in members /\ Change("network", r, members \ {r})
Merge(r) == env.partitions /\ r \notin members /\ Change("network", r, members \cup {r})

----------------------------------------------------------------------------
(* The service.                                                            *)

\* updateClients, after the table became t.  A push that overlaps a pop may be
\* lost.
UpdateClients(t) ==
    /\ spreadServers' = t
    /\ tables' = tables \cup {t}
    /\ \/ updates' = <<t>> \o updates
       \/ env.racy /\ updates' = updates

\* MessageListener.messageReceived takes the next membership message.
Hears(kind) ==
    /\ service = "running"
    /\ events # <<>>
    /\ Head(events).kind = kind
    /\ events' = Tail(events)

AddSpreadServer ==
    /\ Hears("join")
    /\ Head(events).server \in Known
    /\ UpdateClients(spreadServers \cup {Head(events).server})
    /\ UNCHANGED <<members, changes, env, service, updater, calls, stream, client>>

\* serverPorts.get returns null, and the catch block calls System.exit.
AddUnknownServer ==
    /\ Hears("join")
    /\ Head(events).server \notin Known
    /\ service' = "exited"
    /\ updater' = FALSE
    /\ observers' = {}
    /\ handler' = [c \in Clients |-> IF handler[c] \in {"registered", "answering"}
                                     THEN "open" ELSE handler[c]]
    /\ UNCHANGED <<members, changes, env, spreadServers, updates, tables, snapshot, stream,
                   client>>

\* mutant: clients are not told of servers that leave
RemoveSilently ==
    /\ Hears("leave")
    /\ spreadServers' = spreadServers \ {Head(events).server}
    /\ tables' = tables \cup {spreadServers'}
    /\ UNCHANGED <<members, changes, env, service, updates, updater, calls, stream, client>>

RemoveSpreadServer ==
    /\ Hears("leave")
    /\ UpdateClients(spreadServers \ {Head(events).server})
    /\ UNCHANGED <<members, changes, env, service, updater, calls, stream, client>>

\* Neither join, leave nor disconnect: no branch handles it.
IgnoreNetworkChange ==
    /\ Hears("network")
    /\ UNCHANGED <<members, changes, env, table, calls, stream, client>>

\* The operator presses enter: no more membership messages and no new calls,
\* but the updater and the open streams go on.
StopService ==
    /\ env.stops
    /\ service = "running"
    /\ service' = "stopped"
    /\ events' = <<>>
    /\ UNCHANGED <<members, changes, env, spreadServers, updates, updater, tables, calls,
                   stream, client>>

\* ClientManager.run: one turn of the loop with a list to send
Update ==
    /\ updater
    /\ updates # <<>>
    /\ updates' = Tail(updates)
    /\ stream' = [c \in Clients |-> IF c \in observers
                                    THEN Append(stream[c], Head(updates)) ELSE stream[c]]
    /\ UNCHANGED <<group, service, spreadServers, updater, tables, calls, client>>

\* ClientManager.run: pop meets a slot that push has not filled yet, and the
\* exception ends the thread.
UpdaterDies ==
    /\ env.racy
    /\ updater
    /\ events # <<>> /\ Head(events).kind # "network"
    /\ updater' = FALSE
    /\ UNCHANGED <<group, service, spreadServers, updates, tables, calls, stream, client>>

\* ConfigurationService.servers, in three steps
RegisterClient(c) ==
    /\ service = "running"
    /\ handler[c] = "called"
    /\ env.pace = "calm" => Dispatched
    /\ handler' = [handler EXCEPT ![c] = "registered"]
    /\ observers' = observers \cup {c}
    /\ UNCHANGED <<group, table, snapshot, stream, client>>

GetAvailableServers(c) ==
    /\ handler[c] = "registered"
    /\ handler' = [handler EXCEPT ![c] = "answering"]
    /\ snapshot' = [snapshot EXCEPT ![c] = spreadServers]
    /\ UNCHANGED <<group, table, observers, stream, client>>

AnswerClient(c) ==
    /\ handler[c] = "answering"
    /\ handler' = [handler EXCEPT ![c] = "open"]
    /\ stream' = [stream EXCEPT ![c] = Append(@, snapshot[c])]
    /\ UNCHANGED <<group, table, observers, snapshot, client>>

\* ClientObserver.onCancel: the client's process is gone (gRPC runs the handler
\* after the call's own code).
RemoveClient(c) ==
    /\ c \in observers
    /\ handler[c] = "open"
    /\ phase[c] \in {"dead", "left"}
    /\ observers' = observers \ {c}
    /\ stream' = [stream EXCEPT ![c] = <<>>]
    /\ UNCHANGED <<group, table, handler, snapshot, client>>

----------------------------------------------------------------------------
(* The client.                                                             *)

Running(c) == phase[c] \in {"waiting", "ready", "extreme"}

\* ClientApplication.run up to the wait for servers
Start(c) ==
    /\ phase[c] = "off"
    /\ c \in env.clients
    /\ phase' = [phase EXCEPT ![c] = "waiting"]
    /\ handler' = [handler EXCEPT ![c] = "called"]
    /\ UNCHANGED <<group, table, observers, snapshot, stream, availableServers, refill,
                   channel>>

\* mutant: the map is not cleared
ForgetClear(c) ==
    /\ Running(c)
    /\ stream[c] # <<>> /\ refill[c] = {}
    /\ refill' = [refill EXCEPT ![c] = {Head(stream[c]) \cup availableServers[c]}]
    /\ stream' = [stream EXCEPT ![c] = Tail(@)]
    /\ UNCHANGED <<group, table, calls, availableServers, phase, channel>>

\* ConfigurationServiceObserver.onNext on a thread of its own: the map is
\* cleared, then filled, while the main thread may look at it.
ClearServers(c) ==
    /\ Running(c)
    /\ stream[c] # <<>> /\ refill[c] = {}
    /\ refill' = [refill EXCEPT ![c] = {Head(stream[c])}]
    /\ stream' = [stream EXCEPT ![c] = Tail(@)]
    /\ availableServers' = [availableServers EXCEPT ![c] = {}]
    /\ UNCHANGED <<group, table, calls, phase, channel>>

FillServers(c) ==
    /\ Running(c)
    /\ \E list \in refill[c] :
         availableServers' = [availableServers EXCEPT ![c] = list]
    /\ refill' = [refill EXCEPT ![c] = {}]
    /\ UNCHANGED <<group, table, calls, stream, phase, channel>>

\* createRandomServerChannel: null if the map is empty; while the map is being
\* rewritten, any of its states, or an exception nobody catches.
CreateRandomServerChannel(c) ==
    \/ /\ availableServers[c] = {}
       /\ channel' = [channel EXCEPT ![c] = None]
       /\ phase' = [phase EXCEPT ![c] = "ready"]
    \/ /\ \E r \in availableServers[c] \cup UNION refill[c] :
             channel' = [channel EXCEPT ![c] = r]
       /\ phase' = [phase EXCEPT ![c] = "ready"]
    \/ /\ refill[c] # {}
       /\ phase' = [phase EXCEPT ![c] = "dead"]
       /\ UNCHANGED channel

\* The main thread alone moves.
Main(c) == UNCHANGED <<group, table, calls, stream, availableServers, refill>>

Connect(c) ==
    /\ phase[c] = "waiting"
    /\ availableServers[c] # {}
    /\ CreateRandomServerChannel(c)
    /\ Main(c)

\* The user types a command and there is a channel.
Typed(c, command) ==
    /\ command \in env.commands
    /\ phase[c] = "ready"
    /\ channel[c] # None

\* A call on a channel whose server is gone fails; any other call leaves the
\* client as it is.
CallFails(c) == channel[c] \notin members

\* mutant: a failed read is treated like a failed write
ReadKeepsChannel(c) ==
    /\ Typed(c, "r")
    /\ CallFails(c)
    /\ availableServers[c] = {}
    /\ CreateRandomServerChannel(c)
    /\ Main(c)

\* read returns null or throws, and either way run catches an exception.
ReadFails(c) ==
    /\ Typed(c, "r")
    /\ CallFails(c)
    /\ CreateRandomServerChannel(c)
    /\ Main(c)

\* write replaces its own parameter; only "No servers available." gets out.
WriteFails(c) ==
    /\ Typed(c, "w")
    /\ CallFails(c)
    /\ availableServers[c] = {}
    /\ CreateRandomServerChannel(c)
    /\ Main(c)

\* selectServerChannel: the named server, null if the map is empty, or an
\* exception, caught, if the map has no such name.
SelectServer(c) ==
    /\ Typed(c, "s")
    /\ CreateRandomServerChannel(c)
    /\ Main(c)

\* selectServerChannelFromList looks an Integer up in a map with String keys,
\* finds nothing, and the exception is caught.
SelectFromList(c) ==
    /\ Typed(c, "sl")
    /\ CreateRandomServerChannel(c)
    /\ Main(c)

\* createServerChannel: any address
CreateServerChannel(c) ==
    /\ Typed(c, "c")
    /\ \/ availableServers[c] = {} /\ channel' = [channel EXCEPT ![c] = None]
       \/ /\ availableServers[c] \cup UNION refill[c] # {}
          /\ \E r \in Servers : channel' = [channel EXCEPT ![c] = r]
    /\ UNCHANGED phase
    /\ Main(c)

\* extreme loops on one channel ...
Extreme(c) ==
    /\ Typed(c, "extreme")
    /\ phase' = [phase EXCEPT ![c] = "extreme"]
    /\ UNCHANGED channel
    /\ Main(c)

\* ... until the value is no number or no server is available.
ExtremeEnds(c) ==
    /\ phase[c] = "extreme"
    /\ CallFails(c) => availableServers[c] = {}
    /\ phase' = [phase EXCEPT ![c] = "ready"]
    /\ UNCHANGED channel
    /\ Main(c)

\* An argument is missing or is no number: run catches the exception.
Mistype(c) ==
    /\ \E command \in {"r", "w", "s", "sl", "c"} : Typed(c, command)
    /\ CreateRandomServerChannel(c)
    /\ Main(c)

Exit(c) ==
    /\ Typed(c, "exit")
    /\ phase' = [phase EXCEPT ![c] = "left"]
    /\ UNCHANGED channel
    /\ Main(c)

\* Whatever the user types, serverChannel.shutdownNow() on null ends the client.
NoChannel(c) ==
    /\ phase[c] = "ready"
    /\ channel[c] = None
    /\ phase' = [phase EXCEPT ![c] = "dead"]
    /\ UNCHANGED channel
    /\ Main(c)

----------------------------------------------------------------------------
Group   == \E r \in Servers : Join(r) \/ Leave(r) \/ Split(r) \/ Merge(r)
Hear    == AddSpreadServer \/ AddUnknownServer \/ RemoveSpreadServer \/ IgnoreNetworkChange
Serve(c)   == RegisterClient(c) \/ GetAvailableServers(c) \/ AnswerClient(c) \/ RemoveClient(c)
Observe(c) == ClearServers(c) \/ FillServers(c)
Calls(c)   == ReadFails(c) \/ WriteFails(c)
Type(c) ==
    \/ SelectServer(c) \/ SelectFromList(c) \/ CreateServerChannel(c)
    \/ Extreme(c) \/ ExtremeEnds(c) \/ Mistype(c) \/ Exit(c) \/ NoChannel(c)

Next ==
    \/ Group \/ Hear \/ StopService \/ Update \/ UpdaterDies
    \/ \E c \in Clients :
         Serve(c) \/ Observe(c) \/ Start(c) \/ Connect(c) \/ Calls(c) \/ Type(c)

Spec == Init /\ [][Next]_vars

\* The threads of the service and of the client are scheduled, lists arrive,
\* and users who have a channel keep calling.
FairSpec ==
    /\ Spec
    /\ WF_vars(Hear) /\ WF_vars(Update)
    /\ \A c \in Clients : WF_vars(Serve(c)) /\ WF_vars(Observe(c)) /\ WF_vars(Calls(c))

----------------------------------------------------------------------------
(* Properties.                                                             *)

\* Every variable has its type.
TypeOK ==
    /\ members \in Lists /\ spreadServers \in Lists
    /\ events \in Seq(Events) /\ changes \in 0..MaxChanges
    /\ service \in {"running", "stopped", "exited"}
    /\ updates \in Seq(Lists) /\ updater \in BOOLEAN
    /\ observers \subseteq Clients
    /\ handler \in [Clients -> {"none", "called", "registered", "answering", "open"}]
    /\ snapshot \in [Clients -> Lists]
    /\ stream \in [Clients -> Seq(Lists)]
    /\ availableServers \in [Clients -> Lists]
    /\ refill \in [Clients -> SUBSET Lists]
    /\ phase \in [Clients -> {"off", "waiting", "ready", "extreme", "dead", "left"}]
    /\ channel \in [Clients -> Servers \cup {None}]
    /\ tables \subseteq Lists
    /\ env \in Environments

\* A client never works with a mixture of lists: once onNext is through, its
\* map is, server for server, what the service's table was at some moment,
\* whatever was lost, overtaken or sent by two threads.
ListsAreReal ==
    \A c \in Clients : refill[c] = {} => availableServers[c] \in tables

\* Nothing is on its way to a registered client.
Settled ==
    /\ Dispatched
    /\ \A c \in observers : handler[c] = "open" /\ stream[c] = <<>> /\ refill[c] = {}

\* Every registered client that is still running has the servers of the group
\* in its list, no more and no fewer, once nothing is on its way.
Informed == Settled => \A c \in observers : Running(c) => availableServers[c] = members

\* Joins and leaves come one at a time, to a service that was there first, goes
\* on and loses no push.
Calm ==
    /\ env.pace = "calm" /\ env.early = {}
    /\ ~env.racy /\ ~env.partitions /\ ~env.stops

\* Joins and leaves that come one at a time reach addSpreadServer or
\* removeSpreadServer, the stack, the stream and the client's map, whenever the
\* client registered.
ClientsInformed == Calm => Informed

\* A client whose server is gone does not stay with it: it moves to a running
\* server, or finds that there is none, and ends with an exception or is ended
\* by its user at the latest (where its list is kept up to date).
ClientRecovers ==
    \A c \in Clients :
        (Calm /\ phase[c] = "ready" /\ channel[c] \in Servers \ members)
            ~> (channel[c] \in members \cup {None} \/ phase[c] # "ready")

=============================================================================
