# A verification project for CD_Praticas

This project specifies the replicated key/value system of
`src/ProjetoFinal/spring` and the group communication toolkit it runs on,
`src/ProjetoFinal/spread`, in TLA+. TLC model-checks the specifications on small
instances, and TLAPS proves for every instance what matters most of the servers, the
configuration service, the connections and sessions of the client libraries, and the arrays.

Short names used below: **LM** is `server/.../LeaderManager.java`, **CS** is
`server/.../ClientService.java`, **CM** is `configurationservice/.../ClientManager.java`
and **KA** is `client/.../ClientApplication.java`, all under
`src/ProjetoFinal/spring/`. C files are named from
`src/ProjetoFinal/spread/spread-src-5.0.1/`.

## 1. The system and its parts

| Part | State | Operations | Talks to |
|---|---|---|---|
| Server: `LeaderManager`, `SpreadMessageListener` | tables `waitingData` and `wantToWriteData` of callbacks, `numberOfParticipants`, `waitStartupDataUpdate` | a handler per message type, one for views (`updateNumberOfParticipants`, `checkStartup`), and `requestData`, `writeData` for handler threads | the other servers, by Spread messages |
| Server: `ClientService` | none | `read`, `write` (gRPC, one thread per call) | `LeaderManager`, the database |
| Database: `DataEntity` | a row per key: value and `invalidate` flag; survives a crash | find, save, delete | |
| Configuration service: `MessageListener`, `ClientManager`, `ConfigurationService`, `ClientObserver` | `spreadServers`, the deque `updateClientsMessages`, `clientsObservers` | add and remove a server, register and remove a client, the updater thread | hears Spread views, streams lists to clients |
| Client: `ClientApplication`, `ConfigurationServiceObserver` | `availableServers`, `serverChannel` | the commands `r w s sl c extreme exit` | the configuration service, one server at a time |
| Spread client library: `libspread/sp.c` | the table `Sessions` of mailboxes, headers of messages that did not fit | connect, join, leave, multicast, receive, disconnect | the daemon, by a stream |
| Flush library: `libspread/fl.c` | per connection and group: view, pending membership changes, messages put off | join, leave, flush, multicast, receive, disconnect | `sp.c` |
| Daemon, sessions: `daemon/session.c`, `acm.c`, `auth-ip.c` | `Sessions`, their write queues | accept, authenticate, read, write, badger, kill | client streams, groups, the down queue |
| Daemon, groups: `daemon/groups.c` | `GroupsList`, `MySyncedSet`, `Groups_bufs`, `Gathered`, `Gstate` | join, leave, kill, transitional and regular membership, groups messages | sessions above, the protocol below |
| Daemon, ring: `daemon/protocol.c`, `flow_control.c` | `Packets`, `Up_queue`, `Last_token`, `Aru`, `My_aru`, `Highest_seq`, ... | packet, token, hurry, delivery, discarding, recovery | the other daemons |
| Daemon, membership: `daemon/membership.c` | `State`, `Membership`, representatives, commit sets, identifiers | alive, join, refer, foreign messages, form tokens, timers | the other daemons, the ring |
| Libraries: `stdutil`, `libspread/scatp.c`, `libspread-util` | containers, scattered messages, object pools, the event loop | | all C parts |

Not part of that system: `src/Projecto` (a first version with an elected leader
and a vote per write), `Aula_Pratica_1` and `Aula_Pratica_2` (class exercises),
`consensus_test` (an empty skeleton) and `spread-Exemplo` (a course demonstration).

**Writes, reads and startup of the servers.** A writer registers a callback for the
key in `wantToWriteData` (its lock), invalidates its own row and multicasts
`WantToWrite`. A server without a lock on the key invalidates its row and
answers `WantToWriteResponse`; a server with one multicasts `WriteConflict` and
tells its own writer. A writer with all responses saves and multicasts
`DataWritten`, on which the others delete what they invalidated. On a timeout it
multicasts `RevalidateData`; in a conflict the server with the larger
cardinality writes and the other deletes its row. A server that believes it is
alone just saves. A read returns a valid row, answers an invalid one with nothing,
and for a missing one multicasts `AskData` and keeps a copy of the first answer. On
the first view with a join and more than two members a server invalidates all its
rows and asks the member with the largest cardinality for their current values.

**The toolkit.** The daemons of a membership pass a token round. Its holder
answers requests for retransmission, sends what its window allows, asks for what
it lacks and raises `Aru`, the number up to which everybody has everything, when
nobody lowered it for a round. Reliable messages are delivered on receipt,
agreed ones in order, safe ones below `Aru`. When the token is lost or strangers
are heard, daemons gather representatives, pass a form token twice round the
candidates, recover the messages of the old rings, deliver them with a
transitional membership in between, and install the new one. The group layer then
exchanges its groups and tells the clients. The flush library on top holds
membership changes back until all members agree, so that a message is delivered
in the view it was sent in.

**What is hard.** In the servers: threads that share tables without
synchronisation, unordered messages, timeouts that race with answers, views that
change how many responses a write waits for, crashes that leave rows behind. In the
daemons: lost, repeated and late packets and tokens, several attempts to form a
ring at once, recovery with holes, a membership change that cuts the exchange of
groups short, names and descriptors used again. In the libraries: threads that wait
for a mutex while their session is disconnected, messages that come before the
view they belong to, containers that move under an iterator. `PROJECT.json`
lists each hazard at its line with the properties aimed at it.

**What makes each part correct.** Servers: reads are fresh, replicas agree, a granted
writer is alone, an acknowledged value stays readable, one of several writers
wins, every wait ends. Configuration service and client: clients end up with the servers
of the group and leave a dead one. Ring: one total order, safe means stable,
everything arrives. Membership: agreement, virtual synchrony, self-delivery, and
stability in the end. Groups: the same groups everywhere, and truthful notifications.
Sessions and client library: whole messages, calls that end. Flush: sending
views. Containers, pools and events: what the callers expect, in every order of
calls.

## 2. The modules

| Module | Models | Composed by |
|---|---|---|
| `LeaderManager` | servers, databases, handler threads, Spread as they use it | |
| `Register` | abstract: one copy of every key, replaced by writes and returned by reads | implemented by `LeaderManager` |
| `ConfigurationService` | the configuration service and its clients | |
| `Protocol` | `protocol.c`, `flow_control.c`: a handler is an operator from the daemon's record to the record it leaves | `RingProtocol`, `Membership` |
| `OrderedDelivery` | abstract: one order, daemons deliver prefixes of it | implemented by `RingProtocol` |
| `RingProtocol` | the daemons of one membership and a network that loses, repeats, delays, reorders | |
| `Membership` | `membership.c`, in the style of `Protocol` | `Daemons` |
| `Daemons` | daemons with both protocols, timers, crashes, splits and merges | |
| `Groups` | `groups.c` and the parts of `session.c` it calls | `GroupService` |
| `GroupService` | the groups of several daemons, on what `Daemons` checks of the protocol | |
| `Streams` | stream sockets as `sp.c` and `session.c` use them (external) | `SpLibrary`, `Sessions` |
| `SpLibrary` | `sp.c`: threads and their calls | `ClientSession` |
| `Sessions` | `session.c`, access control | `ClientSession` |
| `ClientSession` | a client process with its daemon | |
| `Flush`, `FlushLocks` | `fl.c`: the group algorithm; the sharing of connections between threads | `FlushService` |
| `FlushService` | clients of one group on a totally ordering Spread | |
| `Arrays`, `LinkedLists`, `HashTable` | `stdarr.c`, `stdcarr.c`; `stddll.c`, `stdskl.c`; `stdhash.c`; iterators | `Library` |
| `Scatter`, `Memory`, `Events` | `scatp.c`; `memory.c`; `events.c` | `Library` |
| `Library` | callers that do anything the libraries allow | |
| `MC*` | the instances for TLC | |
| `LeaderManager_proofs` | proofs: types, callbacks, provenance of values | `LeaderManager_client_proofs` |
| `LeaderManager_client_proofs` | proofs: one client in a group that changes between calls, or not at all | the next two |
| `LeaderManager_group_proofs` | proofs: one client, while one server comes and goes between calls, or comes or goes once in the middle of one; the refinement of `Register` | |
| `LeaderManager_writers_proofs` | proofs: any number of writers at once | |
| `ConfigurationService_proofs`, `FlushService_proofs`, `ClientSession_proofs`, `Library_proofs` | proofs: lists of servers; `fl.c`'s connections; `sp.c`'s table of sessions; arrays and object pools | |

A module without variables is the code of one process; the module that composes it
adds the other processes and what lies between them. Each layer assumes of the
one below what the run of that layer checks: `GroupService` takes from `Daemons` one
order per membership, virtual synchrony and early delivery of reliable messages only;
`FlushService` takes one order of changes and messages from `GroupService`;
`Sessions` takes its own messages back in the order it sent them.

A definition marked `mutant` is a wrong version of the definition that follows it.
Nothing uses it; putting it in place of the right one makes a property fail, which
shows that the property depends on that piece of code.

### LeaderManager and ConfigurationService

`db`, `waitingData`, `wantToWrite`, `waitStartup`, `participants` are the fields of the
code; `members`, `views`, `net` are Spread; `th` are the gRPC handler threads; `submitted`
and `current` are history. A read is `ReadLocal`, `ReadInvalid` or `AskGroup` –
`RegisterCallback` – (`SaveCopy` or `RequestTimeout`). A write is `WriteAlone`, or
`SendWantToWrite` – (`AllGranted` – `SaveGranted`, `WriteTimeout`, `WinConflict` or
`LoseConflict`) – `ReleaseLock`, the `finally` block and the reply. `Reply` models that an
answer after the first one throws an exception that `ClientService` swallows.
A message names the call it is about (`op`), so that the same message of two
calls is two elements of `net`; no handler looks at it.

The properties of the servers name the environments they are about. `OneClient`: one handler thread and
`quiet`. `Stable`: nobody comes or goes. `OneGuest`: one server comes and goes between calls, timeouts are patient,
everybody answers, cardinalities differ. `OneChange`: one server comes or goes once, at any moment, with patient
timeouts and everybody answering. `Sequential`: `OneClient`, and one of these three. `AllAnswer`: patient timeouts, and no member
has `testConflict`. `NoTies`: no two servers of a set have the same cardinality. `Settled`: nothing is under way.

| Property | Holds where |
|---|---|
| `ReadsAreFresh`, `ImplementsRegister` | `Sequential` |
| `ReplicasAgree` | `OneClient`, and `Stable` or `OneGuest` |
| `WriterIsAlone` | `OneClient`, and `Stable`, or `orderly` with a service that stays |
| `ReplicasRecover` | `OneClient`, `Stable` and `AllAnswer`, once settled |
| `SomeoneWins` | `Stable`, `AllAnswer` and no ties among the members, any number of threads, once settled |
| `ClientsInformed` (configuration service) | `pace = "calm"`, once settled |

In the configuration service `updates` is the deque with its top first. `servers()` is three
steps, because the updater can send in between, and `onNext` of the client two
(`ClearServers`, `FillServers`), because the main thread can look at the map in
between. `tables` is history.

What the environment does is the variable `env`, one record of the constant
`Environments`, so that one run covers several environments. For the servers:
`unstable` (who comes and goes), `threads`, `patient` (a timeout fires only when nothing
about the key is under way), `quiet` (a client calls only when the messages of earlier
calls have arrived), `orderly` (members come and go only between calls), `maxOps`,
`maxChanges`. For the configuration service: `servers`, `early`, `clients`, `commands`,
`pace` (how close changes come: `any`, `spaced` more than a turn of the updater apart,
`calm` also not while a client registers), `racy` (an unsynchronised push may be lost or
spoiled), `partitions`, `stops`.

### Ring and membership

The record of a daemon has the static variables of the C files as fields, listed at the
head of `Protocol` and `Membership`. Sequence numbers are natural numbers, packets sit in `Slots`
positions addressed modulo `Slots`; a message is a sequence of fragment lengths and the
packing of fragments into packets is that of the code. The ARQ field of the token counts
modulo `ArqMod` (16 in the code, 3 in the runs, so that it wraps). `RingProtocol` starts where a
membership has just been installed and its token is on the way, for every daemon that may
have been the first to install it; `Recv_token` takes a new token, answers an old copy or
swallows it. In `Daemons` an action is one event of one event loop up to its end.
Timeouts are those of `Memb_init` in quarters of a second; time passes when nothing is due
or under way, and a bounded number of times (`slow`) a timer fires too soon or a token
overtakes what was sent before it, and (`lost`) a message is lost or received twice. What is due at one
instant happens in a fixed order of kinds (`Rank`): with timers that coincide for
ever, in the worst order, daemons could miss each other for ever, which real clocks
exclude. Scenarios start before `Memb_init`, or in a ring in which given visits of the
token have happened, some packets were missed, and the token was then lost. A segment leader forwards to its segment in
the code; here packets go to each daemon directly.

### Groups, sessions, client library

`Groups` has one operator per function of `groups.c`; group, session and daemon names are numbers
in the order of the names. `GroupService!Change` chooses, for each old membership, where the
transitional membership comes and where the first hole is; `Install` delivers all that in one
handler, as the code does. `Streams` carries a message as units (header, old type, one per
group, one per block of data) that know where they come from, while the code that reads takes what
comes next for what it expects: a framing error shows as a message made of other
messages' units. A step of `SpLibrary` ends where a thread may wait.

### Flush and the libraries

In `Flush` a handler maps a connection to a connection; asserts, which the build compiles out
(`-DNDEBUG`), are recorded in `bad`, by the place they stand at. `FlushLocks` has one step per mutex taken. A
connection of `fl.c` and a session of `sp.c` are two things there that share a number, the mailbox: `glob_conns` is the connection it
stands for in `fl.c`, `sess` the one whose session has it in `sp.c`. The calls of `sp.c` are steps of their own (`Sp_call`,
`Sp_lookup`, `Sp_receive`), because `fl.c` hands over the number and `sp.c` looks it up again, when it may be the next connection's. In `Library`, `box` is the
concrete state of one library, `model` what its callers believe they have (a sequence, a
bag of pairs, a flat message, owners of objects, a list of timers) and `good` whether every call returned what
that belief lets them expect; an allocation may fail in any call.

## 3. The runs

| Run | Instance | Shows |
|---|---|---|
| `any_order` | two servers, two threads, two calls, two changes, no assumption | `CallbacksLive`, `Provenance` |
| `replication` | three servers, five environments: a quiet client with early and with late timeouts (5 calls); a crash at any moment (4 calls); a server that leaves and returns twice between calls; two writers at once | `ReadsAreFresh`, `ReplicasAgree`, `WriterIsAlone`, `ReplicasRecover`, `SomeoneWins`, `ImplementsRegister`, each in the environments it names |
| `liveness` | two servers that both crash and return, one with `testConflict` that never answers a `WantToWrite`; no call and six changes, one call and four, two threads with a call each on one key and one change | `WaitsEnd`: calls return, startups end |
| `config` | one client with every command, races, partitions, an unknown server, a stopped service; two clients that read, with changes one at a time | `ListsAreReal`; `ClientsInformed`, `ClientRecovers` |
| `ring` | two daemons with one packet or token lost or repeated, with a late group layer, with a hurry timeout too early; three on an accelerated ring | `NeverFatal`, `DeliveriesSound` (packets in their slots too), `ImplementsOrderedDelivery`, `EverythingArrives` |
| `daemons` | three daemons on two segments: start-ups with a crash, a lost or late message; rings broken by a crash or a split after messages that not everyone got; a split and a merge | `NeverFatal`, `ViewsAgree`, `VirtualSynchrony`, `TotalOrder`, `OwnMessagesKept`, `Stabilises` |
| `groups` | three daemons: cascading joins, a partition under load, join and leave around a merge, a name used again, crash and restart, a client that does not read, a join beyond the limit | `NeverFatal`, `GroupsAgree`, `NetworkIdsAreUnique`, `ClientsSynchronous`, `EverythingSettles` |
| `client` | eleven programs of two threads: two senders, short buffers, dropping, same names, quotas, two disconnects, groups, slow clients, refused messages, authentication | `NeverFatal`, `SessionsAreFound`, `MessagesWhole`, `EverythingEnds` |
| `flush` | eight scenarios of up to three clients: joins, leaves, crashes, changes that are collapsed, early messages, daemons that part; and three programs of three threads on a mailbox that stands for two connections, one after the other | `AssertsHold`, `SendingView`, `VirtualSynchrony`, `ViewsExplained`, `NoUseAfterFree`, `EverythingInstalled` |
| `library` | all sequences of calls up to size 5 (pairs: 3), three values or keys, capacities 0, 2, 5, allocations that fail | `ContentsExact`, `LookupsExact`, `EventsExact` |

Two runs end in a counterexample: the property is what the repository says, and the code
does otherwise. `PROJECT.json` quotes the lines.

| Run | Property violated | What happens |
|---|---|---|
| `two_winners` | `ConflictLeavesOneValue` | the last response and the conflict both reach a writer, which is granted; its rival wins the conflict and writes too (LM:481) |
| `leaver_reads` | `OnlyTheViewReceives` | a client that called `FL_leave` reads a message sent in the next view, of which it is no member (fl.c:1700) |

**The refinements.** `ImplementsRegister` says that the servers implement `Register`, one copy of every
key: `value` is `current`, and the call of a client is what it sees of its handler thread (`CallsSeen`), a request until the first
answer and that answer from then on, whatever the thread does after an early one. A step of `Register` begins a call or ends it; a
write replaces the value when it is acknowledged and at no other moment, a write that fails changes nothing or is lost
with its server, and a read returns a value of the register or nothing. Nothing is a possible answer even where every server
answers: `requestData` registers its callback after it has asked, and an answer that is faster is lost (LM:316).
`ImplementsOrderedDelivery` is `OrderedDelivery!Spec` under the mapping:
`order` is the ordered messages in the order in which their packets were created, `got` the
ordered messages each daemon has delivered. It says more than that logs agree:
the order is only extended, by one daemon at a time, with that daemon's messages in the order in which its sessions submitted them.

**Bounds.** Two servers suffice for a conflict, three for a bystander with a replica. Five calls are write, two reads
that spread copies, a second write, and a read of the result. In the ring two or four `Slots` and a
window of two make numbers wrap round `Packets`; a load of four packets has a message of two fragments,
a small message packed behind the last, an agreed, a safe and a reliable one. Three daemons on two segments give
a segment representative, a ring representative and a bystander. `MaxMembers`, the code's `MAX_PROCS_RING` of 128, is 4 in
`daemons`, one more than a ring has (section 3, `membership.c:2079`). `MaxSessMess` 2, `MaxLib` 2, `MaxSessions` 2 and
`MaxLocal` put queues and tables at their limits. The containers' smallest allocation is
3 (16 in the code) and the skip list's heights 1 and 2 (4 and 31), so that growing, shrinking,
wrapping and a higher end node happen within five elements; `SizeBits` 8 and `CodeBits` 4 stand for the
widths of `stdsize` and hash codes. `FLOK_AGE_LIMIT` is 0 (200 in `fl_p.h`), the value that discards most.

**Fairness.** `LeaderManager!FairSpec` has weak fairness of each handler thread (the JVM
schedules it; the wait loops end at the timeout at the latest, LM:466-492), of the listener (the
reliable service delivers) and of the handling of views. Nobody has to call, join or crash.
`ConfigurationService!FairSpec` has weak fairness of the listener, the updater, the gRPC threads, the client's
observer, and of `Calls`: a user who has a dead channel tries again. The Spread modules ask only that the
system as a whole goes on while it can: event loops and threads run and sockets carry what was
written. That the daemon closes a connection (`Daemon_closes`) is not asked for. This is weak fairness of `Next`; it is written out as "infinitely often nothing can happen, or
infinitely often `Next` happens", with the first part defined by hand, because TLC takes very long to
evaluate `ENABLED` of deeply nested operators. It is enough because losses, delays and crashes are bounded:
what a step may do instead of the wanted one is used up.

**Deadlock** is checked in `daemons`, where timers always run. Elsewhere behaviours end when
calls, messages and faults are used up; that nobody is stuck before that is what the
liveness properties say.

**Why the assumptions on the servers are needed.** Each line can be reproduced by changing
the environment named.

- `ReadsAreFresh` without `quiet`: a second answer to an old question completes a later
  read with a value replaced meanwhile (LM:73).
- `WriterIsAlone` with a crash in the middle of a call: the crash lowers the threshold while the response of
  the crashed server counts, so a writer is granted beside a valid replica (LM:167).
- `ReadsAreFresh` with a crash during a call and `TestConflict = {s2}`: the same early grant lets `DataWritten`
  overtake a `WantToWrite`, whose receiver keeps an old row, invalidated; a later write that `s2` does not answer
  aborts, and its `RevalidateData` makes the old row valid (LM:257).
- `ReplicasRecover` with `TestConflict = {s2}`: a writer that aborts
  revalidates every row but its own (LM:248). With two threads and without `quiet`: the loser's late request
  invalidates the winner's only copy (LM:185).
- `ReadsAreFresh` without `orderly`: a coordinator passes on a row
  that a write under way has invalidated, and the newcomer marks it valid (LM:126).
- `ReadsAreFresh` with two servers that both come and go: the first server
  still takes itself to be starting up, starts up from the second and loses an
  acknowledged value (LM:84).
- `ReplicasAgree` with one guest and equal cardinalities: the newcomer may ask itself for current values, and its
  own old rows make its invalidated ones valid (LM:90).
- `ReadsAreFresh` when a server was away during a write and timeouts are early: its startup leaves its old row
  invalidated, and the `RevalidateData` of a later write that aborts makes it valid (LM:257).
- `ReplicasAgree` with `unstable = {Service}` and two servers: without the service each
  of them sees two members and believes that it is alone (LM:341).
- `SomeoneWins` without `NoTies`: of two writers with equal cardinalities both lose (LM:457).
- `ClientsInformed` with `pace = "spaced"`: a client that registers during a change is
  sent the new list by the updater and then the older snapshot by its own call. With
  `pace = "any"`: the stack sends the older of two lists last (CM:91).
- `ClientRecovers` with `commands = {"w"}`: a failed write replaces only its own
  parameter, and the client keeps the dead channel (KA:209).
- `SameValue` with two threads: a reader has taken the answer to its `AskData`; before it saves its copy another client's
  write invalidates and replaces the value; the reader saves the old one as valid (LM:321).
- `ReplicasRecover` with early timeouts and without `quiet`, two servers: the `RevalidateData` of an aborted write overtakes its
  `WantToWrite`, which arrives after the next write has succeeded and invalidates its only copy. With a third write
  `SameValue` is violated as well (LM:283).
- `StartupEnds` excepts a server whose coordinator leaves before it has answered: `checkStartup` asks once, with the view of the
  join, and the server stays in startup until somebody else joins (LM:84). The same is true of a server that finds no other
  server with a cardinality above 0 and different from its own: it asks the first member of the list (LM:90), which may be the
  configuration service, which answers nothing, or itself. `Elects` names the views in which another server must be elected. Two servers that start each other up both answer, and both end.
- With no server left, the client's channel becomes null and the next command ends
  it with a `NullPointerException` (KA:124, action `NoChannel`).

**What the runs of Spread leave aside.** Met while modelling; the runs avoid these orders or
except them.

- `groups.c:2193` puts the identifier of the group into the groups message where the comment at
  2113 asks for the "memb id at daemon". After a cascade members that came along may be
  missing from the set a client is told; the sets told are never too large (`ClientsSynchronous`).
- Group identifiers that are told with a join or leave can be equal in two partitions. Those told
  with network changes are unique (`NetworkIdsAreUnique`).
- `sp.c:2044`: a receive with `DROP_RECV` that follows one that failed for want of room truncates the message and keeps the
  saved header, so that the next receive takes the old header for the next message's. The programs of `client`
  drop at once or with enough room.
- `fl.c:776`: a reservation on a connection that is disconnecting is not given back, and `FL_disconnect`,
  which waits for it (`fl.c:181`), never returns. `EverythingInstalled` excepts that call.
- `fl.c:1265`: `FL_int_receive` hands the number of the mailbox to `sp.c`, which looks it up again. Meanwhile another thread may have
  disconnected it and a third one connected under the same number. The receive then waits on the next connection's stream, which
  `FL_disconnect`, called "to unblock any blocked receivers" of the old one (`fl.c:179`), has not closed, and keeps its reservation, for which
  `FL_disconnect` waits; or it takes a message of the next connection, and drops it. `EverythingInstalled` excepts an `FL_disconnect` that waits
  for such a receive (`Strayed`), and TLC refutes it without that exception; every other call returns, also when
  the session is in error or lost to another thread.
- `fl.c:1442`: "assert(err == sizeof(group_id))" follows a call of `SP_scat_get_memb_info`, which returns 1 (`sp.c:2303`): it is false on
  every regular membership message, and ends the process where assertions are compiled in. The model records it in
  `bad` as "memb_info"; `AssertsHold` is about all other assertions of `fl.c` that `Flush` models.
- `membership.c:2079`: `Read_form2` drops the token if `num_members + num_pending >= MAX_PROCS_RING`, so that a ring of exactly so many daemons
  never forms, though the configuration (`config_parse.y:745`) and `Insert_member` (`membership.c:1132`) allow it. With `MaxMembers`
  3 the first of three daemons drops the token of all three, and they try again for ever, with a new time at each attempt, so that
  the run has no end; `daemons` has room for a fourth.
- `fl.c:2029`: `determine_leavers` passes the bytes of a name where the hash keeps pointers, and a network
  change that takes members away ends the process; `flush` has network changes that take nobody away.
- `stdcarr.c:1357`: the difference of two iterators is wrong if it is negative and values are larger than a byte;
  `stdit_distance` only uses the other direction, and `LookupsExact` is about that.
- `stddll.c:504`: growing a list with `stddll_resize` dereferences a null iterator; `Library` only truncates.

## 4. The proofs

The theorems hold for any number of servers, threads, keys, values, calls and membership changes, of
clients and lists, of connections, sessions and slots of their table, for arrays of any size and content, and for any types of objects and thresholds of their pools. They assume of the
constants what the modules name, which TLC evaluates on every run: `ConstantAssumption` (a finite set of servers, the service
none of them, `Empty` no value that is written, digits between 0 and 9, environments of the right shape),
`ThreadsAssumption` (finitely many handler threads), `LocksAssumption` and `ProgramsAssumption` (finitely many threads, which make the calls of `fl.c`),
`LibraryAssumption` (a table with room for a session, descriptors that are no negative numbers), `AllocAssumption` and `CallersAssumption` (sizes that are not 0,
callers that insert sequences of values), `MemoryAssumption` (a threshold for every type, none for plain blocks), `PowersAssumption` (that 2^SizeBits is twice a natural number, which the provers do not know of powers).

### The servers

- `TypeCorrect`: `Spec => []TypeOK`. `TypeOK` is inductive; `TypeStep` has one step per action.
- `CallbacksCorrect`: `Spec => []CallbacksLive`. Inductive together with
  `TypeOK`. A thread is registered only under the server and
  key of its own call (`WhereRegistered`), so the `finally` block of a
  call, which empties the entry of that key, takes out its own callback whether or not another
  thread's has replaced it, and a thread that is idle is in no table.
- `ProvenanceCorrect`: `Spec => []Provenance`. The inductive invariant is
  `ProvenanceInv`: `TypeOK`, `CallbacksLive`, `ValueEndsCall` and `Provenance`.
  `CallbacksLive` is needed because an answer is handed to the thread registered
  for the key, which must be a read of that key; `ValueEndsCall` (nobody is told a value while the
  call is under way) because a call that is over keeps what it told its client.
  Databases, messages and calls have to be taken together, since values go round all three.
- `WriterIsAloneCorrect`: `Spec => []WriterIsAlone`. `LoneInv` says what a call of a single client meets (`ClientInv`): a
  group that every server knows or is about to be told of (`GroupKnown`), nothing left of earlier calls (`Busy`), and on
  its way only messages of this call between its server and the others (`Traffic`). `Counting` is the heart: the others fall into
  those not asked yet, those whose answer is on its way and those that have answered; only the first may have a
  valid row, and the counter of responses, which names nobody, is at most the number of the last. A count that reaches the number of the others
  therefore leaves nobody in the first two. This takes cardinalities of sets, hence `FiniteSetTheorems`.
- `ReplicasRecoverCorrect`: `Spec => []ReplicasRecover`. `LastingInv` adds to `StableInv` (below) that where timeouts are patient and
  everybody answers the counter is exact (`Exact`), so that no write ends with a timeout; that a row is invalid only
  while its key is written or until it hears of the end (`Repaired`); and that an acknowledged value is somewhere (`Found`).
- `ReadsAreFreshCorrect`: `Spec => []ReadsAreFresh`, and `ReplicasAgreeCorrect`: `Spec => []ReplicasAgree`.
  In a stable group the invariant is `StableInv`, which is `LoneInv` and `ValueInv(t, {})`: one value per key is current; a valid row has it, and so has an
  invalid row unless a `DataWritten` that deletes it is on its way (`Replicas`); a row that has it may be made valid again, which is why
  early timeouts and `RevalidateData` do no harm. With a guest it is `VisitedInv`, which has two parts.
  `Between` the calls, startup messages carry current rows only, and while a host still waits for its own startup the guest has no
  rows that it could give it. `During` a call `ValueInv(t, {g})` holds: the invalid rows of guest `g` may be old, which does no harm because
  `Exact` excludes every `RevalidateData`. The two meet because the group changes only when nothing is under way.
  With one change at any moment it is `ChangeInv`, which has three parts. `Before` the change the group is stable. `Meanwhile`, until its views and messages
  have been handled, the count of a write may be wrong and a write be granted too early. `FreshInv` holds all the same: an old row that is still valid
  is about to be invalidated by a `WantToWrite` (`Latest`, `Asked`), so that a client that is quiet until it arrives never reads it; a server that
  joins starts with no rows, or with current ones from its coordinator (`Newcomers`); and rows that a `RevalidateData` can
  find are current, or nothing has been written since (`Revivable`). `After` it the
  group is stable again. Invalid rows may then be old, which does no harm because `Exact` holds from then on.
- `RegisterImplemented`: `Spec => ImplementsRegister`. A call begins or ends at `Register` with the step in which
  it does so at the servers (`RegisterCall`, `RegisterWork`), a crash ends the only call that can be under way (`RegisterCrash`), and no message changes what a client
  sees, since callbacks belong to calls without an answer (`RegisterDeliver`, from `CallbacksLive` and `ValueEndsCall`). That the value of a
  read is one of the register is `ReadsAreFresh`, in the state after the step.
- `SomeoneWinsCorrect`: `Spec => []SomeoneWins`. `CompetitionInv` has three parts: everybody knows the size of the group (`Steady`); rivals
  and claims come from other members, and who has been answered early counts as acknowledged (`Rightful`); and for each key there
  is `Hope`: it has been acknowledged, nobody has written it yet, or somebody `Leads`. A thread leads whose server is
  outranked by nobody that writes the key, claims it or is known as a rival (`Foremost`), and that is decided in its
  favour or holds its lock, which has counted everybody it has heard (`Waits`): those it has not heard still have the question,
  or their answer or conflict is on its way to it, so that it does not wait for ever and, with a patient timeout, is not
  timed out. `NoTies` makes it win every conflict it hears of.

### The configuration service

- `ListsCorrect`: `Spec => []ListsAreReal`. `ListsInv` adds that the
  service's table, the stack, the snapshots, the streams and a half-written map hold only
  tables that the service had.
- `TypeCorrect`: `Spec => []TypeOK`.
- `ClientsInformedCorrect`: `Spec => []ClientsInformed`. Under `Calm`, `OneAtATime` says that there is at most one change between
  the group and the clients, first in `events` and then in `updates`, with the table in step, and that it meets no registration; `UpToDate` that the newest of the lists at a client or on their way to it is
  the table, once the updater has nothing left. `CalmInv` is both, or a service that has ended and its streams with it.

### The C libraries

- `NoUseAfterFreeCorrect` (`fl.c`): `Spec => []NoUseAfterFree`. `LocksInv`: who is about to reserve holds the lock of the
  table, and the table has its connection (`TableLocked`); a connection in the table is there and nobody closes it
  (`TableLive`) – whatever session the mailbox has in `sp.c`, about which the invariant says nothing; the counter is never below the number of threads with a reservation (`Counted` – it may be above, by the leak at
  `fl.c:776`); who wakes the closing thread was the last (`WokenLast`); one thread destroys, when nobody holds (`OneCloser`).
- `SessionsAreFoundCorrect` (`sp.c`): `Spec => []SessionsAreFound`. `SP_get_session` probes from `mbox % MaxLib` on; the lemmas show
  that every slot is probed and that the answer is the nearest one with the mailbox. `LibInv`: slots in use have open and different descriptors, slots not in use have mailbox -1 (`TableInv`), and
  threads that connect have open descriptors that no slot and no other such thread has (`ConnectInv`), because
  a kernel reuses a number only when it was closed.
- `ContentsCorrect` (`stdarr.c`, `stdcarr.c`): `Spec => [](kind \in {"arr", "carr"} => ContentsExact)`. `ArraysInv`: every call
  returned what its caller could expect, no `memcpy` overlapped and no move left the block (`good`); the block of a growing array begins with the sequence its callers
  believe in (`Bears`); a circular array that is legal (a free position, `end` as many positions after `begin` as it has elements) has
  that sequence from `begin` on, round the end of the block (`Keeps`). The proof goes bottom up: one move of memory (`MoveMoves`, `CopyMoves`) or
  two that follow each other (`MoveNext`, `CopyNext`); each of the
  ways of `stdcarr.c` to open or close a gap, by the side that is shorter and where the block wraps
  (`RightOpens`, `LeftOpens`, `LeftCloses`, `RightCloses`); what that means for positions counted from `begin`
  (`Spread`, `Drawn`, `Opened`, `Closed`); and what it means for the sequence (`InsertedIs`, `ErasedIs`). Growing, shrinking and
  failing allocations leave the sequence as it is (`NewCapacity`, `BufferLists`, `ReallocatedLegal`).
- `LookupsCorrect`: `LookupsExact` for the same arrays, from the same invariant. For the circular one the block is smaller
  than half of what `stdsize` can count (`Addressable`), as every object in memory is: `stdcarr_it_cmp` takes a difference in bytes for a signed number.
- `PoolsCorrect` (`memory.c`): `Spec => [](kind = "mem" => ContentsExact)`. `PoolsInv`: the objects somebody has are as their callers
  believe them to be (`Bodily`), and the others of each type lie in its pool, whose links lead through each of them once and end
  (`Pools`, `Linked`). The links lie in the bodies of the objects, which their owners write to; so the lemmas say of each call what it leaves
  alone (`Untouched`): taking an object (`NewIsOwned`) and giving one back (`DisposedIsSpare`) move it between the owned and the pooled, and
  an owner's writes and counts touch no pool (`OwnerWrites`, `OwnerCounts`). `PoolIs` says that walking down from the
  top meets exactly these objects.

### Only model-checked

- Liveness under fairness and the refinement of behaviours with fairness (`WaitsEnd`, `ClientRecovers`, `Everything...`, `Stabilises`,
  `ImplementsOrderedDelivery`), which are out of the proof system's reach here.
- The safety properties of `RingProtocol`, `Daemons`, `GroupService` and of the algorithm in `Flush`, and `MessagesWhole` and
  `NeverFatal` of `ClientSession`: their handlers are folds over packets, tokens, commit sets, groups or units, and what a fold computes for
  every input takes induction over data.
- The other containers, scattered messages and events of `Library`: `EventsExact`, `ContentsExact` of the kinds that are neither arrays nor objects, and `LookupsExact` of those that are no arrays.

## 5. What is not modelled

Servers, service, client:

- Exceptions of the Spread library on sending (LM:376: the lock of the key then stays for ever), work on a database row that
  another thread interrupts (LM:207), a `servers()` call that fails because the table changes while it is read (CM:83).
- Unsynchronised `HashMap`s, the plain `int numberOfParticipants` and the map the client spins on (KA:54) are taken to be
  linearisable and visible, except the deque of the configuration service (`racy`) and the client's map.
- Clients write no empty strings: an empty value and no value are the same answer. Partitions of the server group.

Spread:

- Byte order, wire formats, and everything that only formats, prints or measures. Segment leaders, network partitions
  by order of the monitor, reload of the configuration, the slow path of Windows.
- `protocol.c`: rollover of sequence numbers (583-589), the workaround for too many rounds of recovery (860-883), the
  read priorities of the accelerated ring.
- `membership.c`: a daemon that restarts in `Daemons` (in `GroupService` it does): after a restart only the clock keeps
  identifiers apart.
- `session.c`, `acm.c`: policies other than the default one that permits everything, messages of the authentication that come in pieces.
- `sp.c`: the branch of a receive that finds a saved header inconsistent, which only the order named in section 3 reaches;
  `SP_disconnect(-1)`; a connect timeout inside `connect` itself.
- `fl.c`: several groups on one connection, the buffers of a receive with `DROP_RECV` (1290-1336, 1447-1487), spurious wake-ups, a session
  that changes between two parts of a message: in `FlushLocks` a message is read, or sent, in one step.
- Containers: copying and comparing whole containers. What unused positions and inactive nodes hold is forgotten. Event loop: the
  table of slow events, a descriptor that is attached again while inactive, which no caller does, and the descriptor
  numbered `FD_SETSIZE`, which events.c:604 lets pass.
- Generated code (`lex.yy.c`, `y.tab.c`), the monitor, password authentication, the Java and Perl bindings, the examples.

And the parts listed in section 1 as outside the system.

## 6. What is done and what is left

1. Modelled and checked: the servers, configuration service and client; ring, membership, groups, sessions, client library, flush library and the
   libraries below them; the refinements of the ring and of the servers.
2. Proved: every safety property of the servers and the refinement of `Register`, every safety property of the configuration
   service, the locking of `fl.c`, the sessions of `sp.c`, the arrays and the object pools.
3. Left to prove: the algorithms of Spread (section 4 says why), lists, tables and events of the libraries.
4. Left to model: failing sends and split database access in `LeaderManager`; restart in `Daemons`; the first version in `src/Projecto`.
