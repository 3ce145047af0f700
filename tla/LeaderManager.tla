--------------------------- MODULE LeaderManager ---------------------------
(***************************************************************************)
(* The replicated key/value servers of ProjetoFinal/spring/server.         *)
(*                                                                         *)
(* Every server keeps rows in its own database.  A write is an             *)
(* invalidation protocol over a Spread group: the writer takes a local     *)
(* lock on the key, asks the group (WantToWrite), every other server       *)
(* invalidates its row and answers (WantToWriteResponse), the writer saves *)
(* and announces it (DataWritten), and the others then delete the rows     *)
(* they invalidated.  A read of a missing row asks the group (AskData) and *)
(* keeps a copy of the first answer.                                       *)
(*                                                                         *)
(* Concurrency: a server has one Spread listener thread, whose handlers    *)
(* run one at a time (each is one action here), and many gRPC handler      *)
(* threads, whose steps interleave with the listener wherever the thread   *)
(* waits, publishes or removes a callback.                                 *)
(***************************************************************************)
EXTENDS Integers, FiniteSets, Sequences

CONSTANTS
    Servers,          \* the servers, by private group name
    Service,          \* the configuration service, the other kind of member
    Threads,          \* gRPC handler threads: how many calls may overlap
    Keys,
    Values,           \* non-empty strings that clients write
    Empty,            \* the empty string
    NameDigit,        \* last digit of a server's name
    NodeDigit,        \* last digit of the Spread node it is connected to
    Local,            \* property "local"
    TestConflict,     \* servers started with property "testConflict"
    InitialServers,   \* servers that are in the group, started up, at the outset
    Environments      \* what the clients and the network may do, see env

\* An environment: the members that come and go, the threads that calls use,
\* whether the timeout is longer than any message delay (patient), a client
\* calls only once earlier messages arrived (quiet), members come and go only
\* while nothing else happens (orderly), and the bounds on client calls and on
\* membership changes.
AllEnvironments ==
    [unstable : SUBSET (Servers \cup {Service}), threads : SUBSET Threads,
     patient : BOOLEAN, quiet : BOOLEAN, orderly : BOOLEAN,
     maxOps : Nat, maxChanges : Nat]

ASSUME ConstantAssumption ==
    /\ IsFiniteSet(Servers)
    /\ Servers # {} /\ Keys # {}
    /\ Service \notin Servers
    /\ Empty \notin Values
    /\ NameDigit \in [Servers -> 0..9] /\ NodeDigit \in [Servers -> 0..9]
    /\ Local \in BOOLEAN
    /\ TestConflict \subseteq Servers /\ InitialServers \subseteq Servers
    /\ Environments \subseteq AllEnvironments

\* The executor of the gRPC server has finitely many threads at any time.
ASSUME ThreadsAssumption == IsFiniteSet(Threads)

VARIABLES
    db,           \* db[s][k]: the row of key k in the database of server s
    waitingData,  \* waitingData[s][k]: the thread whose read callback is registered
    wantToWrite,  \* wantToWrite[s][k]: the registered write callback and its count
    waitStartup,  \* waitStartup[s]: field waitStartupDataUpdate
    participants, \* participants[s]: field numberOfParticipants
    members,      \* the Spread group
    views,        \* views[s]: membership messages on their way to s, in order
    net,          \* regular messages on their way, reliable and unordered
    th,           \* th[t]: the call that thread t serves
    ops,          \* number of client calls so far (numbers the calls)
    changes,      \* number of membership changes so far (numbers the views)
    env,          \* the environment the servers run in, one of Environments
    submitted,    \* history: submitted[k], the values clients asked to write
    current       \* history: current[k], the values a read may return: the one
                  \* acknowledged last, and those of writes cut short by a crash

server == <<db, waitingData, wantToWrite, waitStartup, participants>>
group  == <<members, views, changes, env>>
vars   == <<server, group, net, th, ops, submitted, current>>

----------------------------------------------------------------------------
(* Rows, callbacks, messages and threads.                                  *)

\* invalidate = null and invalidate = false are the same to every reader of
\* the column, so a row is absent, valid or invalid.
Row(status, data) == [status |-> status, data |-> data]
NoRow     == Row("absent", Empty)
Rows      == [status : {"absent", "valid", "invalid"}, data : Values \cup {Empty}]

Present(s, k) == db[s][k].status # "absent"
Valid(s, k)   == db[s][k].status = "valid"

\* new DataEntity(dto)
SavedInvalid(v) == Row("invalid", v)   \* mutant: the flag is not reset
Saved(v) == Row("valid", v)

\* executeInvalidateData
NotSaved(row) == row                   \* mutant: the flag is set, the row not saved
Invalidated(row) == IF row.status = "absent" THEN row ELSE Row("invalid", row.data)
\* deleteIfExistsAndIsInvalidated
MadeValid(row) == Row(IF row.status = "invalid" THEN "valid" ELSE row.status, row.data)
                                       \* mutant: revalidated instead of deleted
Purged(row) == IF row.status = "invalid" THEN NoRow ELSE row
\* the body of revalidateData
Revalidated(row) == IF row.status = "absent" THEN row ELSE Row("valid", row.data)

\* WantToWriteData: at most one callback per key, with its receivedResponses
NoLock    == [holder |-> {}, received |-> 0]
Locks     == [holder : SUBSET Threads, received : Nat]

KeyTypes  == {"AskData", "AskDataResponse", "WantToWrite", "WantToWriteResponse",
              "WriteConflict", "DataWritten", "RevalidateData"}
KeyMessages == [type : KeyTypes, from : Servers, to : Servers, key : Keys,
                data : Values \cup {Empty}, op : Nat]
\* rows[k] = Empty: the list in the message has no entry for k
StartupMessages == [type : {"StartupRequestUpdate", "StartupResponseUpdate"},
                    from : Servers, to : Servers,
                    rows : [Keys -> Values \cup {Empty}], op : Nat]
Messages  == KeyMessages \cup StartupMessages
Views     == [members : SUBSET (Servers \cup {Service}),
              cause : {"join", "leave"}, id : Nat]

WritePCs == {"writing", "granted", "written", "aborted"}

\* reply is what the client of the call has been told so far.
Calls == [pc : {"idle", "asked", "reading"} \cup WritePCs,
          op : Nat, srv : Servers, key : Keys, val : Values \cup {Empty},
          got : BOOLEAN, conflict : SUBSET Servers,
          reply : {"none", "empty", "value", "ok", "error"}]

\* getServerNameCardinality
Cardinal(s) == IF Local THEN NameDigit[s] ELSE NameDigit[s] + NodeDigit[s]

\* A group message reaches the members other than the sender: isSelfMessage
\* drops the sender's copy, and the configuration service ignores them all.
\* op names the call the message is about; no handler looks at it.
Multicast(s, type, k, op) ==
    {[type |-> type, from |-> s, to |-> r, key |-> k, data |-> Empty, op |-> op] :
        r \in (members \cap Servers) \ {s}}

Unicast(s, type, r, k, data, op) ==
    {[type |-> type, from |-> s, to |-> q, key |-> k, data |-> data, op |-> op] :
        q \in {r} \cap members}

StartupUnicast(s, type, r, rows, op) ==
    {[type |-> type, from |-> s, to |-> q, rows |-> rows, op |-> op] :
        q \in {r} \cap members \cap Servers}

----------------------------------------------------------------------------
Init ==
    /\ db = [s \in Servers |-> [k \in Keys |-> NoRow]]
    /\ waitingData = [s \in Servers |-> [k \in Keys |-> {}]]
    /\ wantToWrite = [s \in Servers |-> [k \in Keys |-> NoLock]]
    \* The second server to join and the first one start each other up.
    /\ waitStartup = [s \in Servers |-> s \notin InitialServers
                                        \/ Cardinality(InitialServers) = 1]
    /\ members = InitialServers \cup {Service}
    /\ participants = [s \in Servers |-> IF s \in InitialServers
                                         THEN Cardinality(members) ELSE -1]
    /\ views = [s \in Servers |-> <<>>]
    /\ net = {}
    /\ th = [t \in Threads |->
               [pc |-> "idle", op |-> 0, srv |-> CHOOSE s \in Servers : TRUE,
                key |-> CHOOSE k \in Keys : TRUE, val |-> Empty,
                got |-> FALSE, conflict |-> {}, reply |-> "none"]]
    /\ ops = 0 /\ changes = 0
    /\ env \in Environments
    /\ submitted = [k \in Keys |-> {}]
    /\ current = [k \in Keys |-> {}]

\* Everything sent has arrived and no call is under way.
Settled == /\ net = {}
           /\ \A s \in Servers : views[s] = <<>>
           /\ \A t \in Threads : th[t].pc = "idle"

----------------------------------------------------------------------------
(* Calls of the clients: ClientService.read and ClientService.write.       *)

\* Environment: nothing is on its way when a client calls, if clients are quiet.
Calm == env.quiet => net = {} /\ \A s \in Servers : views[s] = <<>>

\* Environment: nothing about key k is on its way when a wait of timeoutInSec
\* expires, if the timeout is patient.
Expired(k) == env.patient => \A m \in net : m.type \in KeyTypes => m.key # k

Arrives(t, s) ==
    /\ th[t].pc = "idle"
    /\ s \in members
    /\ t \in env.threads
    /\ ops < env.maxOps
    /\ Calm
    /\ ops' = ops + 1

NewCall(pc, s, k, v, reply) ==
    [pc |-> pc, op |-> ops + 1, srv |-> s, key |-> k, val |-> v,
     got |-> FALSE, conflict |-> {}, reply |-> reply]

\* A server that is starting up completes the call at once, and carries on.
Early(s, reply) == IF waitStartup[s] THEN reply ELSE "none"
\* The second onNext throws IllegalStateException, which is swallowed.
Reply(first, reply) == IF first = "none" THEN reply ELSE first

ReadLocal(t, s, k) ==
    /\ Arrives(t, s)
    /\ Valid(s, k)
    /\ th' = [th EXCEPT ![t] = NewCall("idle", s, k, db[s][k].data,
                                       Reply(Early(s, "empty"), "value"))]
    /\ UNCHANGED <<server, group, net, submitted, current>>

ReadInvalid(t, s, k) ==
    /\ Arrives(t, s)
    /\ db[s][k].status = "invalid"
    /\ th' = [th EXCEPT ![t] = NewCall("idle", s, k, Empty, "empty")]
    /\ UNCHANGED <<server, group, net, submitted, current>>

\* requestData up to the multicast: the callback is registered only after it.
AskGroup(t, s, k) ==
    /\ Arrives(t, s)
    /\ ~Present(s, k)
    /\ th' = [th EXCEPT ![t] = NewCall("asked", s, k, Empty, Early(s, "empty"))]
    /\ net' = net \cup Multicast(s, "AskData", k, ops + 1)
    /\ UNCHANGED <<server, group, submitted, current>>

RegisterCallback(t) ==
    /\ th[t].pc = "asked"
    /\ th' = [th EXCEPT ![t].pc = "reading"]
    /\ waitingData' = [waitingData EXCEPT ![th[t].srv][th[t].key] = {t}]
    /\ UNCHANGED <<db, wantToWrite, waitStartup, participants, group, net, ops,
                   submitted, current>>

\* requestData, response received: keep a copy, then remove whatever callback
\* the key has.
SaveCopy(t) ==
    LET s == th[t].srv  k == th[t].key IN
    /\ th[t].pc = "reading"
    /\ th[t].got
    /\ db' = [db EXCEPT ![s][k] = Saved(th[t].val)]
    /\ waitingData' = [waitingData EXCEPT ![s][k] = {}]
    /\ th' = [th EXCEPT ![t].pc = "idle", ![t].reply = Reply(th[t].reply, "value")]
    /\ UNCHANGED <<wantToWrite, waitStartup, participants, group, net, ops,
                   submitted, current>>

\* mutant: no finally block
KeepCallback(t) ==
    /\ th[t].pc = "reading"
    /\ Expired(th[t].key) /\ (env.patient => ~th[t].got)
    /\ th' = [th EXCEPT ![t].pc = "idle", ![t].val = Empty,
                        ![t].reply = Reply(th[t].reply, "empty")]
    /\ UNCHANGED <<server, group, net, ops, submitted, current>>

\* requestData, TimeoutException: the last sleep may have outlasted the answer.
RequestTimeout(t) ==
    LET s == th[t].srv  k == th[t].key IN
    /\ th[t].pc = "reading"
    /\ Expired(k) /\ (env.patient => ~th[t].got)
    /\ waitingData' = [waitingData EXCEPT ![s][k] = {}]
    /\ th' = [th EXCEPT ![t].pc = "idle", ![t].val = Empty,
                        ![t].reply = Reply(th[t].reply, "empty")]
    /\ UNCHANGED <<db, wantToWrite, waitStartup, participants, group, net, ops,
                   submitted, current>>

\* writeData with numberOfParticipants = 2: no message at all.
WriteAlone(t, s, k, v) ==
    /\ Arrives(t, s)
    /\ participants[s] = 2
    /\ db' = [db EXCEPT ![s][k] = Saved(v)]
    /\ th' = [th EXCEPT ![t] = NewCall("idle", s, k, v, "ok")]
    /\ submitted' = [submitted EXCEPT ![k] = @ \cup {v}]
    /\ current' = [current EXCEPT ![k] = {v}]
    /\ UNCHANGED <<waitingData, wantToWrite, waitStartup, participants, group, net>>

\* sendWantToWriteMessage up to the wait: a callback already registered for
\* the key is replaced.
SendWantToWrite(t, s, k, v) ==
    /\ Arrives(t, s)
    /\ participants[s] # 2
    /\ wantToWrite' = [wantToWrite EXCEPT ![s][k] = [holder |-> {t}, received |-> 0]]
    /\ db' = [db EXCEPT ![s][k] = Invalidated(@)]
    /\ net' = net \cup Multicast(s, "WantToWrite", k, ops + 1)
    /\ th' = [th EXCEPT ![t] = NewCall("writing", s, k, v, Early(s, "ok"))]
    /\ submitted' = [submitted EXCEPT ![k] = @ \cup {v}]
    /\ current' = IF waitStartup[s] THEN [current EXCEPT ![k] = {v}] ELSE current
    /\ UNCHANGED <<waitingData, waitStartup, participants, group>>

\* waitForResponse returns, even if a conflict came together with the last
\* response: the loop condition is tested before the conflict is looked at again.
AllGranted(t) ==
    /\ th[t].pc = "writing"
    /\ th[t].got
    /\ th' = [th EXCEPT ![t].pc = "granted"]
    /\ UNCHANGED <<server, group, net, ops, submitted, current>>

\* mutant: nobody is told, and the rows of the others stay as they are, invalidated
SaveSilently(t) ==
    /\ db' = [db EXCEPT ![th[t].srv][th[t].key] = Saved(th[t].val)]
    /\ th' = [th EXCEPT ![t].pc = "written"]
    /\ net' = net

\* saveDataLocally
SaveDataLocally(t) ==
    LET s == th[t].srv  k == th[t].key IN
    /\ db' = [db EXCEPT ![s][k] = Saved(th[t].val)]
    /\ net' = net \cup Multicast(s, "DataWritten", k, th[t].op)
    /\ th' = [th EXCEPT ![t].pc = "written"]

SaveGranted(t) ==
    /\ th[t].pc = "granted"
    /\ SaveDataLocally(t)
    /\ UNCHANGED <<waitingData, wantToWrite, waitStartup, participants, group, ops,
                   submitted, current>>

\* waitForResponse throws TimeoutException, checked before the conflict.
WriteTimeout(t) ==
    LET s == th[t].srv  k == th[t].key IN
    /\ th[t].pc = "writing"
    /\ Expired(k) /\ (env.patient => ~th[t].got /\ th[t].conflict = {})
    /\ net' = net \cup Multicast(s, "RevalidateData", k, th[t].op)
    /\ th' = [th EXCEPT ![t].pc = "aborted"]
    /\ UNCHANGED <<server, group, ops, submitted, current>>

\* mutant: the server compares itself with itself
WinsOverSelf(s, rival) == Cardinal(s) > Cardinal(s)
\* electLeader: a tie is lost by both.
Wins(s, rival) == Cardinal(s) > Cardinal(rival)

\* waitForResponse throws ConflictException: handleConflict
WinConflict(t) ==
    /\ th[t].pc = "writing"
    /\ \E rival \in th[t].conflict : Wins(th[t].srv, rival)
    /\ SaveDataLocally(t)
    /\ UNCHANGED <<waitingData, wantToWrite, waitStartup, participants, group, ops,
                   submitted, current>>

LoseConflict(t) ==
    /\ th[t].pc = "writing"
    /\ \E rival \in th[t].conflict : ~Wins(th[t].srv, rival)
    /\ db' = [db EXCEPT ![th[t].srv][th[t].key] = NoRow]
    /\ th' = [th EXCEPT ![t].pc = "aborted"]
    /\ UNCHANGED <<waitingData, wantToWrite, waitStartup, participants, group, net,
                   ops, submitted, current>>

\* The finally block removes whatever callback the key has; then the reply.
ReleaseLock(t) ==
    LET s == th[t].srv  k == th[t].key  ok == th[t].pc = "written" IN
    /\ th[t].pc \in {"written", "aborted"}
    /\ wantToWrite' = [wantToWrite EXCEPT ![s][k] = NoLock]
    /\ th' = [th EXCEPT ![t].pc = "idle",
                        ![t].reply = Reply(th[t].reply, IF ok THEN "ok" ELSE "error")]
    /\ current' = IF ok /\ th[t].reply = "none"
                  THEN [current EXCEPT ![k] = {th[t].val}] ELSE current
    /\ UNCHANGED <<db, waitingData, waitStartup, participants, group, net, ops, submitted>>

----------------------------------------------------------------------------
(* The Spread listener of a server: one regular message per action.        *)

Receive(m, type) == m \in net /\ m.type = type

AskData(m) ==
    /\ Receive(m, "AskData")
    /\ net' = (net \ {m}) \cup
              IF Valid(m.to, m.key)
              THEN Unicast(m.to, "AskDataResponse", m.from, m.key,
                           db[m.to][m.key].data, m.op)
              ELSE {}
    /\ UNCHANGED <<server, group, th, ops, submitted, current>>

AskDataResponse(m) ==
    /\ Receive(m, "AskDataResponse")
    /\ net' = net \ {m}
    /\ th' = [t \in Threads |-> IF t \in waitingData[m.to][m.key]
                                THEN [th[t] EXCEPT !.got = TRUE, !.val = m.data]
                                ELSE th[t]]
    /\ waitingData' = [waitingData EXCEPT ![m.to][m.key] = {}]
    /\ UNCHANGED <<db, wantToWrite, waitStartup, participants, group, ops,
                   submitted, current>>

\* wantToWriteReceived, no write of the key under way here
GrantWrite(m) ==
    /\ Receive(m, "WantToWrite")
    /\ wantToWrite[m.to][m.key].holder = {}
    /\ db' = [db EXCEPT ![m.to][m.key] = Invalidated(@)]
    /\ net' = (net \ {m}) \cup
              IF m.to \in TestConflict THEN {}
              ELSE Unicast(m.to, "WantToWriteResponse", m.from, m.key, Empty, m.op)
    /\ UNCHANGED <<waitingData, wantToWrite, waitStartup, participants, group, th,
                   ops, submitted, current>>

\* callback.conflict(rival) of whoever holds the lock on k at server s
SetConflict(s, k, rival) ==
    [t \in Threads |-> IF t \in wantToWrite[s][k].holder
                       THEN [th[t] EXCEPT !.conflict = {rival}] ELSE th[t]]

\* wantToWriteReceived, a write of the key under way here
DetectConflict(m) ==
    /\ Receive(m, "WantToWrite")
    /\ wantToWrite[m.to][m.key].holder # {}
    /\ net' = (net \ {m}) \cup Multicast(m.to, "WriteConflict", m.key, m.op)
    /\ th' = SetConflict(m.to, m.key, m.from)
    /\ UNCHANGED <<server, group, ops, submitted, current>>

\* mutant: counts one response too few
EnoughButOne(received, n) == received >= n - 3
\* the writer and the configuration service do not answer
Enough(received, n) == received >= n - 2

WantToWriteResponse(m) ==
    LET lock == wantToWrite[m.to][m.key]
        enough == Enough(lock.received + 1, participants[m.to]) IN
    /\ Receive(m, "WantToWriteResponse")
    /\ net' = net \ {m}
    /\ wantToWrite' = IF lock.holder = {} THEN wantToWrite
                      ELSE [wantToWrite EXCEPT ![m.to][m.key].received = @ + 1]
    /\ th' = [t \in Threads |-> IF t \in lock.holder /\ enough
                                THEN [th[t] EXCEPT !.got = TRUE] ELSE th[t]]
    /\ UNCHANGED <<db, waitingData, waitStartup, participants, group, ops,
                   submitted, current>>

ConflictReceived(m) ==
    /\ Receive(m, "WriteConflict")
    /\ net' = net \ {m}
    /\ th' = SetConflict(m.to, m.key, m.from)
    /\ UNCHANGED <<server, group, ops, submitted, current>>

DataWritten(m) ==
    /\ Receive(m, "DataWritten")
    /\ net' = net \ {m}
    /\ db' = [db EXCEPT ![m.to][m.key] = Purged(@)]
    /\ UNCHANGED <<waitingData, wantToWrite, waitStartup, participants, group, th,
                   ops, submitted, current>>

RevalidateData(m) ==
    /\ Receive(m, "RevalidateData")
    /\ net' = net \ {m}
    /\ db' = [db EXCEPT ![m.to][m.key] = Revalidated(@)]
    /\ UNCHANGED <<waitingData, wantToWrite, waitStartup, participants, group, th,
                   ops, submitted, current>>

\* mutant: a coordinator that is starting up itself does not answer
StartupDataOnceStarted(m) ==
    /\ Receive(m, "StartupRequestUpdate") /\ waitStartup[m.to]
    /\ net' = net \ {m}
    /\ UNCHANGED <<server, group, th, ops, submitted, current>>

\* The coordinator answers with the rows it has of those asked for, valid or not.
StartupData(m) ==
    /\ Receive(m, "StartupRequestUpdate")
    /\ net' = (net \ {m}) \cup
              StartupUnicast(m.to, "StartupResponseUpdate", m.from,
                  [k \in Keys |-> IF m.rows[k] # Empty /\ Present(m.to, k)
                                  THEN db[m.to][k].data ELSE Empty], m.op)
    /\ UNCHANGED <<server, group, th, ops, submitted, current>>

\* mutant: rows the coordinator does not have are overwritten too
OverwriteAll(m) ==
    /\ Receive(m, "StartupResponseUpdate")
    /\ net' = net \ {m}
    /\ db' = [db EXCEPT ![m.to] =
                [k \in Keys |-> IF Present(m.to, k) THEN Saved(m.rows[k]) ELSE db[m.to][k]]]
    /\ waitStartup' = [waitStartup EXCEPT ![m.to] = FALSE]
    /\ UNCHANGED <<waitingData, wantToWrite, participants, group, th, ops,
                   submitted, current>>

StartupDataResponse(m) ==
    /\ Receive(m, "StartupResponseUpdate")
    /\ net' = net \ {m}
    /\ db' = [db EXCEPT ![m.to] =
                [k \in Keys |-> IF m.rows[k] # Empty /\ Present(m.to, k)
                                THEN Saved(m.rows[k]) ELSE db[m.to][k]]]
    /\ waitStartup' = [waitStartup EXCEPT ![m.to] = FALSE]
    /\ UNCHANGED <<waitingData, wantToWrite, participants, group, th, ops,
                   submitted, current>>

----------------------------------------------------------------------------
(* Membership: the listener's handling of a view, and what causes views.   *)

\* checkStartup: the member with the largest cardinality above 0 other than
\* one's own, or the first of the list, in whatever order, if there is none.
Coordinators(s, view) ==
    LET others == {r \in view \cap Servers : Cardinal(r) > 0 /\ Cardinal(r) # Cardinal(s)}
    IN  IF others = {} THEN view
        ELSE {r \in others : \A q \in others : Cardinal(q) <= Cardinal(r)}

\* messageReceived calls checkStartup, which does not return early
StartsUp(s, view) ==
    /\ view.cause = "join"
    /\ Cardinality(view.members) > 2
    /\ waitStartup[s]

NextView(s) ==
    /\ views[s] # <<>>
    /\ views' = [views EXCEPT ![s] = Tail(@)]
    /\ participants' = [participants EXCEPT ![s] = Cardinality(Head(views[s]).members)]

UpdateNumberOfParticipants(s) ==
    /\ NextView(s)
    /\ ~StartsUp(s, Head(views[s]))
    /\ UNCHANGED <<db, waitingData, wantToWrite, waitStartup, members, changes, env, net,
                   th, ops, submitted, current>>

CheckStartup(s) ==
    /\ NextView(s)
    /\ StartsUp(s, Head(views[s]))
    /\ db' = [db EXCEPT ![s] = [k \in Keys |-> Invalidated(db[s][k])]]
    /\ \E leader \in Coordinators(s, Head(views[s]).members) :
         net' = net \cup StartupUnicast(s, "StartupRequestUpdate", leader,
                             [k \in Keys |-> db[s][k].data], Head(views[s]).id)
    /\ UNCHANGED <<waitingData, wantToWrite, waitStartup, members, changes, env,
                   th, ops, submitted, current>>

\* Spread: x makes the group m, and its members are told in the same order.
Regroup(x, m, cause) ==
    /\ x \in env.unstable
    /\ env.orderly => Settled
    /\ changes < env.maxChanges
    /\ changes' = changes + 1 /\ env' = env
    /\ members' = m
    /\ views' = [s \in Servers |->
                   IF s \in m THEN Append(views[s], [members |-> m, cause |-> cause,
                                                     id |-> changes + 1])
                   ELSE <<>>]

\* SpreadServer.run: connect, join the group, serve calls
Join(s) ==
    /\ s \notin members
    /\ Regroup(s, members \cup {s}, "join")
    /\ UNCHANGED <<server, net, th, ops, submitted, current>>

\* The process stops: its database stays, the calls it served fail.
Crash(s) ==
    /\ s \in members
    /\ Regroup(s, members \ {s}, "leave")
    /\ waitingData' = [waitingData EXCEPT ![s] = [k \in Keys |-> {}]]
    /\ wantToWrite' = [wantToWrite EXCEPT ![s] = [k \in Keys |-> NoLock]]
    /\ waitStartup' = [waitStartup EXCEPT ![s] = TRUE]
    /\ participants' = [participants EXCEPT ![s] = -1]
    /\ net' = {m \in net : m.to # s}
    /\ th' = [t \in Threads |->
                IF th[t].srv = s /\ th[t].pc # "idle"
                THEN [th[t] EXCEPT !.pc = "idle", !.reply = Reply(th[t].reply, "error")]
                ELSE th[t]]
    /\ current' = [k \in Keys |-> current[k] \cup
                     {th[t].val : t \in {u \in Threads : /\ th[u].srv = s /\ th[u].key = k
                                                         /\ th[u].pc \in WritePCs
                                                         /\ th[u].reply = "none"}}]
    /\ UNCHANGED <<db, ops, submitted>>

ServiceJoins ==
    /\ Service \notin members
    /\ Regroup(Service, members \cup {Service}, "join")
    /\ UNCHANGED <<server, net, th, ops, submitted, current>>

ServiceLeaves ==
    /\ Service \in members
    /\ Regroup(Service, members \ {Service}, "leave")
    /\ UNCHANGED <<server, net, th, ops, submitted, current>>

----------------------------------------------------------------------------
Call(t) ==
    \E s \in Servers, k \in Keys :
        \/ ReadLocal(t, s, k)
        \/ ReadInvalid(t, s, k)
        \/ AskGroup(t, s, k)
        \/ \E v \in Values : WriteAlone(t, s, k, v) \/ SendWantToWrite(t, s, k, v)

Work(t) ==
    \/ RegisterCallback(t) \/ SaveCopy(t) \/ RequestTimeout(t)
    \/ AllGranted(t) \/ SaveGranted(t) \/ WriteTimeout(t)
    \/ WinConflict(t) \/ LoseConflict(t) \/ ReleaseLock(t)

\* SpreadMessageListener.messageReceived
Deliver(m) ==
    \/ AskData(m) \/ AskDataResponse(m)
    \/ GrantWrite(m) \/ DetectConflict(m) \/ WantToWriteResponse(m)
    \/ ConflictReceived(m) \/ DataWritten(m) \/ RevalidateData(m)
    \/ StartupData(m) \/ StartupDataResponse(m)

Listen == \E m \in net : Deliver(m)

Notice(s) == UpdateNumberOfParticipants(s) \/ CheckStartup(s)

Next ==
    \/ \E t \in Threads : Call(t) \/ Work(t)
    \/ Listen
    \/ \E s \in Servers : Notice(s) \/ Join(s) \/ Crash(s)
    \/ ServiceJoins
    \/ ServiceLeaves

Spec == Init /\ [][Next]_vars

\* Handler threads are scheduled, the reliable service delivers every message,
\* and the listener handles what was delivered.  Nobody has to call or crash.
FairSpec == Spec /\ (\A t \in Threads : WF_vars(Work(t)))
                 /\ WF_vars(Listen)
                 /\ (\A s \in Servers : WF_vars(Notice(s)))

----------------------------------------------------------------------------
(* Properties.                                                             *)

\* Every variable has its type.
TypeOK ==
    /\ db \in [Servers -> [Keys -> Rows]]
    /\ waitingData \in [Servers -> [Keys -> SUBSET Threads]]
    /\ wantToWrite \in [Servers -> [Keys -> Locks]]
    /\ waitStartup \in [Servers -> BOOLEAN]
    /\ participants \in [Servers -> Int]
    /\ members \in SUBSET (Servers \cup {Service})
    /\ views \in [Servers -> Seq(Views)]
    /\ net \in SUBSET Messages
    /\ th \in [Threads -> Calls]
    /\ ops \in Nat /\ changes \in Nat
    /\ submitted \in [Keys -> SUBSET Values]
    /\ current \in [Keys -> SUBSET (Values \cup {Empty})]
    /\ env \in Environments

\* A callback in a server's tables belongs to a call of that server on that
\* key that is still under way: waitingData and wantToWriteData never keep the
\* callback of a finished call, although a put may replace another thread's
\* entry and a finally block may remove it.
Serves(t, s, k) == th[t].srv = s /\ th[t].key = k
CallbacksLive ==
    \A s \in Servers, k \in Keys :
        /\ \A t \in waitingData[s][k] : Serves(t, s, k) /\ th[t].pc = "reading"
        /\ \A t \in wantToWrite[s][k].holder : Serves(t, s, k) /\ th[t].pc \in WritePCs

\* No value is invented or moves to another key: whatever a database, a
\* message, a running call or a reply holds for a key was written to that key by
\* some client, however rows were copied, invalidated, revalidated or
\* exchanged at startup.
RowsSubmitted ==
    \A s \in Servers, k \in Keys : Present(s, k) => db[s][k].data \in submitted[k]
MessagesSubmitted ==
    \A m \in net :
        /\ m.type = "AskDataResponse" => m.data \in submitted[m.key]
        /\ m.type = "StartupResponseUpdate" =>
              \A k \in Keys : m.rows[k] \in submitted[k] \cup {Empty}
CallsSubmitted ==
    \A t \in Threads :
        \/ th[t].pc \in WritePCs
        \/ th[t].pc \in {"asked", "reading"} /\ th[t].got
        \/ th[t].reply = "value"
        => th[t].val \in submitted[th[t].key]
Provenance == RowsSubmitted /\ MessagesSubmitted /\ CallsSubmitted

\* What the properties below need of the environment: one client at a time; and a
\* group that does not change, or timeouts that outlast every message delay and
\* servers that all answer (no testConflict), where
\* - one server comes and goes between calls, and checkStartup can tell the
\*   servers apart, or
\* - one server comes or goes at any moment.
OneClient == env.quiet /\ Cardinality(env.threads) = 1
Stable    == env.maxChanges = 0
AllAnswer == env.patient /\ TestConflict \cap members = {}
NoTies(S) == \A s, r \in S : Cardinal(s) = Cardinal(r) => s = r
Distinct  == NoTies(Servers) /\ \A s \in Servers : Cardinal(s) > 0
OneGuest  == /\ env.patient /\ TestConflict = {} /\ Distinct
             /\ env.orderly /\ \E g \in Servers : env.unstable \subseteq {g}
OneChange == /\ env.patient /\ TestConflict = {}
             /\ env.maxChanges <= 1 /\ Service \notin env.unstable

\* Calls come one after the other, in one of these groups.
Sequential == OneClient /\ (Stable \/ OneGuest \/ OneChange)

\* ClientService.read answers with the value whose write was acknowledged last
\* (or one of a write cut short by a crash), or with nothing: never with a
\* value that a later acknowledged write replaced.
ReadsAreFresh ==
    Sequential =>
        \A t \in Threads : th[t].pc = "idle" /\ th[t].reply = "value" =>
                              th[t].val \in current[th[t].key]

\* The latest call of a handler thread, as its client sees it.
Seen(t) ==
    [state |-> IF th[t].reply # "none" THEN th[t].reply
               ELSE IF th[t].pc = "idle" THEN "idle" ELSE "busy",
     key   |-> th[t].key,
     val   |-> IF \/ th[t].reply = "value"
                  \/ th[t].reply = "none" /\ th[t].pc \in WritePCs
               THEN th[t].val ELSE Empty]
CallsSeen == [t \in Threads |-> Seen(t)]

\* The servers together are one register to a client that makes one call at a time
\* (ClientService.read and write): a write takes effect once, with its answer, a write
\* that is answered with an error has no effect or, after a crash, one that later
\* reads may see, and a read returns what was written, whatever rows, messages and
\* callbacks the servers go through meanwhile.
OneCopy == INSTANCE Register WITH
    Clients <- Threads,
    value   <- current,
    calls   <- CallsSeen
ImplementsRegister ==
    OneCopy!Init /\ [][Sequential => OneCopy!Next]_<<current, CallsSeen>>

\* The servers of the group that have started up never hold two different
\* valid values of a key: wantToWriteReceived, dataWritten, revalidateData, the
\* copies kept by requestData and the exchange of checkStartup leave no old
\* replica valid beside a new one.
SameValue ==
    \A k \in Keys : \A s, r \in {q \in members \cap Servers : ~waitStartup[q]} :
        Valid(s, k) /\ Valid(r, k) => db[s][k].data = db[r][k].data

\* SameValue while one client calls, and one server may come and go between its calls.
ReplicasAgree == OneClient /\ (Stable \/ OneGuest) => SameValue

\* When waitForResponse returns because all responses came, no other server of
\* the group has a valid replica of the key: the count of wantToWriteResponse
\* stood for an invalidation by every participant.  The configuration service
\* has to stay: Enough counts it among the participants, there or not.
WriterIsAlone ==
    OneClient /\ (Stable \/ (env.orderly /\ Service \notin env.unstable)) =>
        \A t \in Threads : th[t].pc = "granted" =>
            \A r \in (members \cap Servers) \ {th[t].srv} : ~Valid(r, th[t].key)

\* An acknowledged value can still be read from some server.
LatestAvailable ==
    \A k \in Keys : current[k] # {} =>
        \E s \in Servers : Valid(s, k) /\ db[s][k].data \in current[k]

\* No server keeps an invalidated replica.
NothingLeftInvalid == \A s \in Servers, k \in Keys : db[s][k].status # "invalid"

\* Once the calls and messages of one client are done, whatever was granted or
\* aborted, invalidation and deletion have not left an acknowledged value
\* without a valid replica, and dataWritten or revalidateData has dealt with
\* every replica that was invalidated.
ReplicasRecover ==
    OneClient /\ Stable /\ AllAnswer /\ Settled =>
        LatestAvailable /\ NothingLeftInvalid

\* A conflict is resolved in favour of somebody: once the calls that wrote a
\* key are done, one of them has been acknowledged, so electLeader never turns
\* every writer away, unless two servers tie (both lose) or one does not answer.
SomeoneWins ==
    Stable /\ AllAnswer /\ NoTies(members \cap Servers) /\ Settled =>
        \A k \in Keys : submitted[k] # {} => current[k] # {}

\* Once calls and messages are done, the replicas that conflicting writes
\* left valid agree: only one of the writers wrote.
ConflictLeavesOneValue == Settled => SameValue

\* Every read and write returns to its caller: the wait loops end with an
\* answer, a conflict or the timeout, whatever is lost or delayed.
CallsReturn == \A t \in Threads : th[t].pc # "idle" ~> th[t].pc = "idle"

\* Server s has a view on its way for which checkStartup can only elect r, and r is up.
Elects(s, r) ==
    /\ {s, r} \subseteq members
    /\ \E i \in DOMAIN views[s] : /\ StartsUp(s, views[s][i])
                                 /\ Coordinators(s, views[s][i].members) = {r}

\* A server that finds another server in the group completes its startup, though the
\* other may be starting up itself and ask it in turn - unless one of the two leaves
\* before the answer is there: checkStartup asks once, and nobody asks again before
\* the next join.
StartupEnds ==
    \A s \in Servers : \A r \in Servers \ {s} :
        Elects(s, r) ~> (~waitStartup[s] \/ ~({s, r} \subseteq members))

\* Nothing waits for ever: neither a caller nor a server that starts up.
WaitsEnd == CallsReturn /\ StartupEnds

=============================================================================
