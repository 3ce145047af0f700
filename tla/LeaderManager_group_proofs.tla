--------------------- MODULE LeaderManager_group_proofs ----------------------
(***************************************************************************)
(* Proofs about LeaderManager where one client calls and the group changes *)
(* around it, for every set of servers, keys and values and any number of  *)
(* calls: one server, the guest, comes and goes between the calls, with    *)
(* rows of its earlier visits in its database, and checkStartup replaces   *)
(* them; or one server comes or goes once, at any moment of a call.        *)
(***************************************************************************)
EXTENDS LeaderManager_client_proofs

----------------------------------------------------------------------------
(* The visits of server g around the calls of thread t.                    *)

Visits(t, g) ==
    /\ Lone(t) /\ env.patient /\ TestConflict = {} /\ Distinct
    /\ env.orderly /\ env.unstable \subseteq {g}

\* the servers that stay
Hosts(g) == (members \cap Servers) \ {g}

\* A server that waits for its startup is about to be told that it is not alone, or
\* has asked for its rows, or is alone.
Request(s, m)  == m.type = "StartupRequestUpdate" /\ m.from = s
Response(s, m) == m.type = "StartupResponseUpdate" /\ m.to = s
StartsOrAlone(s) ==
    waitStartup[s] =>
        IF views[s] # <<>> THEN Head(views[s]).cause = "join"
        ELSE participants[s] = 2 \/ \E m \in net : Request(s, m) \/ Response(s, m)

\* What is on its way about the startup of a server that has been told of the group: a
\* question for its rows, which the guest is asked only if it has none, or rows that
\* have the current values.
Startup(m, g) ==
    /\ m.type \in {"StartupRequestUpdate", "StartupResponseUpdate"}
    /\ m.from \in members /\ m.to \in members /\ m.from # m.to
    /\ m.type = "StartupRequestUpdate" => /\ views[m.from] = <<>>
                                          /\ m.to = g => \A k \in Keys : ~Present(g, k)
    /\ m.type = "StartupResponseUpdate" => /\ views[m.to] = <<>>
                                           /\ \A k \in Keys : m.rows[k] \in current[k] \cup {Empty}

\* The guest has not been told of the group yet, or is not in it.  While a host waits
\* for its own startup the guest has never been there.
Out(g)    == g \notin members \/ views[g] # <<>>
Away(g)   == /\ waitStartup[g]
             /\ Hosts(g) = {} => \A k \in Keys : Valid(g, k) => db[g][k].data \in current[k]
Unknown(g) == (\E s \in Hosts(g) : waitStartup[s]) => \A k \in Keys : ~Present(g, k)

\* Between the calls: only startups are under way, of the guest and perhaps of the
\* first server.
Between(t, g) ==
    /\ th[t].pc = "idle"
    /\ th[t].reply = "value" => th[t].val \in current[th[t].key]
    /\ \A m \in net : Startup(m, g)
    /\ \A s \in members \cap Servers : StartsOrAlone(s)
    /\ \A k \in Keys : OneValue(k)
    /\ \A s \in Hosts(g), k \in Keys : Present(s, k) => db[s][k].data \in current[k]
    /\ ~Out(g) => \A k \in Keys : Valid(g, k) => db[g][k].data \in current[k]
    /\ Out(g) => Away(g)
    /\ Unknown(g)

\* During a call the guest is in or out; its invalid rows may be old.
During(t, g) ==
    /\ ValueInv(t, {g})
    /\ g \notin members => Away(g) /\ Unknown(g)

GuestInv(t, g) == Exact(t) /\ (Between(t, g) \/ During(t, g))

----------------------------------------------------------------------------
(* Facts about the guest.                                                  *)

\* What a visit needs of the environment does not change.
LEMMA VisitsStay ==
    ASSUME [Next]_vars, NEW t, NEW g
    PROVE  Visits(t, g)' <=> Visits(t, g)
  BY EnvStays DEF Visits, Lone, Caller, Stable, Distinct, NoTies

\* The rows and the messages of a guest that is not in the group matter to nobody.
LEMMA GuestStays ==
    ASSUME NEW g \in Servers, Away(g), Unknown(g), g \notin members, members' = members,
           Hosts(g) # {}, db'[g] = db[g], waitStartup' = waitStartup
    PROVE  Away(g)' /\ Unknown(g)'
  <1>1. Hosts(g)' = Hosts(g)
    BY DEF Hosts
  <1>2. Away(g)'
    BY <1>1 DEF Away
  <1>3. Unknown(g)'
    BY <1>1 DEF Unknown, Present
  <1> QED
    BY <1>2, <1>3

\* A server that is not alone in the group knows it, once everything has arrived.
LEMMA Company ==
    ASSUME TypeOK, GroupKnown, NEW g \in members \cap Servers, NEW s \in Hosts(g), views[s] = <<>>
    PROVE  participants[s] # 2
  <1>1. s \in members \cap Servers /\ s # g /\ Service \in members
    BY DEF Hosts, GroupKnown
  <1>2. participants[s] = Cardinality(members)
    BY <1>1 DEF GroupKnown
  <1>3. Cardinality(members) = 2 => members \cap Servers = {s}
    BY <1>1, GroupOfOne
  <1> QED
    BY <1>1, <1>2, <1>3

\* Where nothing is on its way and no call is served, the guest is between two calls.
LEMMA GuestSettled ==
    ASSUME TypeOK, NEW t \in Threads, NEW g \in Servers, ClientInv(t), During(t, g),
           th[t].pc = "idle", net = {}, \A s \in Servers : views[s] = <<>>
    PROVE  Between(t, g)
  <1>1. Kinds(t) /\ (\A k \in Keys : OneValue(k)) /\ Replicas(t, {g}) /\ Answers(t)
    BY DEF During, ValueInv
  <1>2. \A s \in members \cap Servers : StartsOrAlone(s)
    BY <1>1 DEF Kinds, StartsOrAlone
  <1>3. \A r, k : ~Dirty(r, k)
    BY DEF Dirty
  <1>4. \A k \in Keys : Current(t, k) = current[k]
    BY DEF Current
  <1>5. \A s \in Hosts(g), k \in Keys : Present(s, k) => db[s][k].data \in current[k]
    BY <1>1, <1>3, <1>4 DEF Hosts, Replicas
  <1>6. ~Out(g) => \A k \in Keys : Valid(g, k) => db[g][k].data \in current[k]
    BY <1>1, <1>3, <1>4 DEF Out, Replicas
  <1>7. Out(g) => Away(g)
    BY DEF Out, During
  <1>8. Unknown(g)
    <2>1. CASE g \notin members
      BY <2>1 DEF During
    <2>2. CASE g \in members
      <3>1. ASSUME NEW s \in Hosts(g) PROVE ~waitStartup[s]
        BY <1>1, <2>2, Company DEF ClientInv, Kinds, Hosts
      <3> QED
        BY <3>1 DEF Unknown
    <2> QED
      BY <2>1, <2>2
  <1> QED
    BY <1>1, <1>2, <1>5, <1>6, <1>7, <1>8 DEF Between, Answers

\* A call finds the guest in the group and up to date, or out of it.
LEMMA GuestIsReady ==
    ASSUME TypeOK, NEW t \in Threads, NEW g \in Servers, Between(t, g),
           net = {}, \A s \in Servers : views[s] = <<>>
    PROVE  During(t, g)
  <1>1. th[t].pc = "idle"
    BY DEF Between
  <1>2. Kinds(t)
    BY <1>1 DEF Between, Kinds, StartsOrAlone, WritePCs
  <1>3. \A r, k : ~Dirty(r, k)
    BY DEF Dirty
  <1>4. \A k \in Keys : Current(t, k) = current[k]
    BY <1>1 DEF Current
  <1>5. Replicas(t, {g})
    <2> SUFFICES ASSUME NEW r \in members \cap Servers, NEW k \in Keys
                 PROVE  /\ Valid(r, k) => db[r][k].data \in current[k]
                        /\ Present(r, k) /\ r # g => db[r][k].data \in current[k]
      BY <1>3, <1>4 DEF Replicas
    <2>1. CASE r = g
      BY <2>1 DEF Between, Out
    <2>2. CASE r # g
      BY <2>2 DEF Between, Hosts, Valid, Present
    <2> QED
      BY <2>1, <2>2
  <1>6. Answers(t) /\ \A k \in Keys : OneValue(k)
    BY <1>1 DEF Between, Answers
  <1>7. g \notin members => Away(g) /\ Unknown(g)
    BY DEF Between, Out
  <1> QED
    BY <1>2, <1>5, <1>6, <1>7 DEF During, ValueInv

\* Where no call is served the count is of nothing.
LEMMA ExactIdle ==
    ASSUME NEW t \in Threads, th[t].pc = "idle",
           \A m \in net : m.type \in {"StartupRequestUpdate", "StartupResponseUpdate"}
    PROVE  Exact(t)
  BY DEF Exact

----------------------------------------------------------------------------
(* The steps.                                                              *)

\* A call arrives.
LEMMA GuestCall ==
    ASSUME TypeOK, CallbacksLive, NEW t \in Threads, NEW g \in Servers, Visits(t, g),
           ClientInv(t), GuestInv(t, g), NEW u \in Threads, Call(u)
    PROVE  GuestInv(t, g)'
  <1>1. PICK s \in Servers, k \in Keys :
          \/ ReadLocal(u, s, k)
          \/ ReadInvalid(u, s, k)
          \/ AskGroup(u, s, k)
          \/ \E v \in Values : WriteAlone(u, s, k, v) \/ SendWantToWrite(u, s, k, v)
    BY DEF Call
  <1>2. Arrives(u, s)
    BY <1>1 DEF ReadLocal, ReadInvalid, AskGroup, WriteAlone, SendWantToWrite
  <1>3. Caller(t)
    BY DEF Visits, Lone
  <1>4. s \in members /\ net = {} /\ \A r \in Servers : views[r] = <<>>
    BY <1>2, <1>3, Arrival
  <1>5. Exact(t) /\ During(t, g)
    BY <1>4, GuestIsReady DEF GuestInv
  <1>6. ValueInv(t, {g})'
    BY <1>3, <1>5, ValueCall DEF During
  <1>7. members' = members /\ waitStartup' = waitStartup /\ \A r \in Servers \ {s} : db'[r] = db[r]
    BY <1>1 DEF ReadLocal, ReadInvalid, AskGroup, WriteAlone, SendWantToWrite, group, server, TypeOK
  <1>8. g \notin members => Away(g)' /\ Unknown(g)'
    <2> SUFFICES ASSUME g \notin members PROVE Away(g)' /\ Unknown(g)'
      OBVIOUS
    <2>1. s \in Hosts(g) /\ db'[g] = db[g]
      BY <1>4, <1>7 DEF Hosts
    <2> QED
      BY <1>5, <1>7, <2>1, GuestStays DEF During
  <1>9. Exact(t)'
    BY <1>3, <1>5, ExactCall
  <1> QED
    BY <1>6, <1>7, <1>8, <1>9 DEF GuestInv, During

\* A thread does a step on its own.
LEMMA GuestWork ==
    ASSUME TypeOK, CallbacksLive, NEW t \in Threads, NEW g \in Servers, Visits(t, g),
           ClientInv(t), GuestInv(t, g), NEW u \in Threads, Work(u)
    PROVE  GuestInv(t, g)'
  <1>1. Caller(t) /\ AllAnswer
    BY DEF Visits, Lone, AllAnswer
  <1>2. /\ th[t].pc # "idle" /\ UNCHANGED members
        /\ \/ RegisterCallback(t) \/ SaveCopy(t) \/ RequestTimeout(t)
           \/ AllGranted(t) \/ SaveGranted(t) \/ WriteTimeout(t) \/ ReleaseLock(t)
    BY <1>1, WorkFacts
  <1>3. During(t, g) /\ Exact(t)
    BY <1>2 DEF GuestInv, Between
  <1>4. ValueInv(t, {g})' /\ Exact(t)'
    BY <1>1, <1>3, ValueWork, ExactWork DEF During
  <1>5. th[t].srv \in members /\ th[t].srv \in Servers
    BY <1>2 DEF ClientInv, Busy, TypeOK, Calls
  <1>6. waitStartup' = waitStartup /\ \A r \in Servers \ {th[t].srv} : db'[r] = db[r]
    BY <1>2 DEF RegisterCallback, SaveCopy, RequestTimeout, AllGranted, SaveGranted, SaveDataLocally,
                WriteTimeout, ReleaseLock, server, TypeOK
  <1>7. g \notin members => Away(g)' /\ Unknown(g)'
    <2> SUFFICES ASSUME g \notin members PROVE Away(g)' /\ Unknown(g)'
      OBVIOUS
    <2>1. th[t].srv \in Hosts(g) /\ db'[g] = db[g]
      BY <1>5, <1>6 DEF Hosts
    <2> QED
      BY <1>2, <1>3, <1>6, <2>1, GuestStays DEF During
  <1> QED
    BY <1>2, <1>4, <1>7 DEF GuestInv, During

\* A message about a key is delivered, during a call or after it.
LEMMA GuestDeliver ==
    ASSUME TypeOK, CallbacksLive, NEW t \in Threads, NEW g \in Servers, Visits(t, g),
           ClientInv(t), Exact(t), During(t, g), NEW m \in net, Deliver(m)
    PROVE  During(t, g)'
  <1>1. Caller(t)
    BY DEF Visits, Lone
  <1>2. Spared({g})
    BY DEF Exact, Spared
  <1>3. ValueInv(t, {g})'
    BY <1>1, <1>2, ValueDeliver DEF During
  <1>4. /\ m.type \in KeyTypes /\ m \in KeyMessages
        /\ Sent(t, m) \/ Answer(t, m)
        /\ ~DetectConflict(m) /\ ~ConflictReceived(m) /\ UNCHANGED members
    BY <1>1, DeliverFacts DEF During, ValueInv, Kinds
  <1>5. m.type \notin {"StartupRequestUpdate", "StartupResponseUpdate"}
    BY <1>4 DEF KeyTypes
  <1>6. \/ AskData(m) \/ AskDataResponse(m) \/ GrantWrite(m) \/ DetectConflict(m)
        \/ WantToWriteResponse(m) \/ ConflictReceived(m) \/ DataWritten(m) \/ RevalidateData(m)
    BY <1>5 DEF Deliver, StartupData, StartupDataResponse, Receive
  <1>7. waitStartup' = waitStartup
    BY <1>6 DEF AskData, AskDataResponse, GrantWrite, DetectConflict, WantToWriteResponse,
                ConflictReceived, DataWritten, RevalidateData, server
  <1>8. \A r \in Servers : db'[r] = db[r] \/ (r = m.to /\ Sent(t, m))
    <2>1. CASE AskData(m) \/ AskDataResponse(m) \/ DetectConflict(m) \/ WantToWriteResponse(m)
               \/ ConflictReceived(m)
      BY <2>1 DEF AskData, AskDataResponse, DetectConflict, WantToWriteResponse, ConflictReceived, server
    <2>2. CASE GrantWrite(m) \/ DataWritten(m) \/ RevalidateData(m)
      <3>1. Sent(t, m)
        BY <1>4, <2>2 DEF GrantWrite, DataWritten, RevalidateData, Receive, Answer
      <3>2. \A r \in Servers \ {m.to} : db'[r] = db[r]
        BY <2>2 DEF GrantWrite, DataWritten, RevalidateData, TypeOK
      <3> QED
        BY <3>1, <3>2
    <2> QED
      BY <1>6, <2>1, <2>2
  <1>9. g \notin members => Away(g)' /\ Unknown(g)'
    <2> SUFFICES ASSUME g \notin members PROVE Away(g)' /\ Unknown(g)'
      OBVIOUS
    <2>1. Hosts(g) # {}
      BY <1>4 DEF Sent, Answer, Rest, Hosts
    <2>2. db'[g] = db[g]
      BY <1>8 DEF Sent, Rest
    <2> QED
      BY <1>4, <1>7, <2>1, <2>2, GuestStays DEF During
  <1> QED
    BY <1>3, <1>4, <1>9 DEF During

\* A coordinator answers a server that starts up with current rows, since a guest
\* that is asked has none.
LEMMA GuestCoordinates ==
    ASSUME TypeOK, NEW t \in Threads, NEW g \in Servers, Between(t, g),
           NEW m \in net, StartupData(m)
    PROVE  Between(t, g)'
  <1> DEFINE rows == [k \in Keys |-> IF m.rows[k] # Empty /\ Present(m.to, k)
                                     THEN db[m.to][k].data ELSE Empty]
             answer == StartupUnicast(m.to, "StartupResponseUpdate", m.from, rows, m.op)
  <1>1. /\ m.type = "StartupRequestUpdate" /\ net' = (net \ {m}) \cup answer
        /\ UNCHANGED <<db, waitStartup, participants, members, views, th, current>>
    BY DEF StartupData, Receive, server, group
  <1>2. /\ m.from \in members \cap Servers /\ m.to \in members \cap Servers /\ m.from # m.to
        /\ views[m.from] = <<>>
        /\ m.to = g => \A k \in Keys : ~Present(g, k)
    BY <1>1, MessageKind DEF Between, Startup, TypeOK, StartupMessages
  <1>3. \A n \in answer : /\ n.type = "StartupResponseUpdate" /\ n.from = m.to /\ n.to = m.from
                          /\ n.rows = rows
    BY DEF StartupUnicast
  <1>4. \A k \in Keys : rows[k] \in current[k] \cup {Empty}
    <2> SUFFICES ASSUME NEW k \in Keys, Present(m.to, k)
                 PROVE  db[m.to][k].data \in current[k]
      OBVIOUS
    <2>1. m.to \in Hosts(g)
      BY <1>2 DEF Hosts
    <2> QED
      BY <2>1 DEF Between
  <1> HIDE DEF rows
  <1>5. ASSUME NEW n \in net' PROVE Startup(n, g)'
    <2>1. CASE n \in net
      BY <1>1, <2>1 DEF Between, Startup, Present
    <2>2. CASE n \in answer
      BY <1>1, <1>2, <1>3, <1>4, <2>2 DEF Startup
    <2> QED
      BY <1>1, <2>1, <2>2
  <1>6. ASSUME NEW s \in members \cap Servers PROVE StartsOrAlone(s)'
    <2>1. StartsOrAlone(s)
      BY DEF Between
    <2>2. CASE s = m.from
      <3>1. \E n \in answer : TRUE
        BY <1>2 DEF StartupUnicast
      <3>2. \E n \in net' : Response(s, n)
        BY <1>1, <1>3, <2>2, <3>1 DEF Response
      <3> QED
        BY <1>1, <1>2, <2>2, <3>2 DEF StartsOrAlone
    <2>3. CASE s # m.from
      <3>1. \A n \in net : Request(s, n) \/ Response(s, n) => n \in net'
        BY <1>1, <2>3 DEF Request, Response
      <3> QED
        BY <1>1, <2>1, <3>1 DEF StartsOrAlone
    <2> QED
      BY <2>2, <2>3
  <1>7. /\ Hosts(g)' = Hosts(g) /\ Out(g)' = Out(g) /\ Away(g)' = Away(g)
        /\ Unknown(g)' = Unknown(g)
    BY <1>1 DEF Hosts, Out, Away, Unknown, Present, Valid
  <1> QED
    BY <1>1, <1>5, <1>6, <1>7 DEF Between, OneValue, Present, Valid

\* A server that starts up gets current rows in the place of its own.
LEMMA GuestUpdated ==
    ASSUME TypeOK, NEW t \in Threads, NEW g \in Servers, Between(t, g),
           NEW m \in net, StartupDataResponse(m)
    PROVE  Between(t, g)'
  <1>1. /\ m.type = "StartupResponseUpdate" /\ net' = net \ {m}
        /\ db' = [db EXCEPT ![m.to] =
                    [k \in Keys |-> IF m.rows[k] # Empty /\ Present(m.to, k)
                                    THEN Saved(m.rows[k]) ELSE db[m.to][k]]]
        /\ waitStartup' = [waitStartup EXCEPT ![m.to] = FALSE]
        /\ UNCHANGED <<participants, members, views, th, current>>
    BY DEF StartupDataResponse, Receive, group
  <1>2. /\ m.to \in members \cap Servers /\ views[m.to] = <<>>
        /\ \A k \in Keys : m.rows[k] \in current[k] \cup {Empty}
    BY <1>1, MessageKind DEF Between, Startup, TypeOK, StartupMessages
  <1>3. ASSUME NEW s \in Servers
        PROVE  /\ waitStartup'[s] => waitStartup[s] /\ s # m.to
               /\ s # m.to => db'[s] = db[s] /\ waitStartup'[s] = waitStartup[s]
               /\ \A k \in Keys : /\ Present(s, k)' <=> Present(s, k)
                                  /\ \/ db'[s][k] = db[s][k]
                                     \/ db'[s][k].data \in current[k]
    BY <1>1, <1>2 DEF TypeOK, Present, Saved, Row
  <1>4. ASSUME NEW n \in net' PROVE Startup(n, g)'
    BY <1>1, <1>3 DEF Between, Startup
  <1>5. ASSUME NEW s \in members \cap Servers PROVE StartsOrAlone(s)'
    <2> SUFFICES ASSUME waitStartup'[s]
                 PROVE  IF views'[s] # <<>> THEN Head(views'[s]).cause = "join"
                        ELSE participants'[s] = 2 \/ \E n \in net' : Request(s, n) \/ Response(s, n)
      BY DEF StartsOrAlone, Request, Response
    <2>1. waitStartup[s] /\ s # m.to /\ StartsOrAlone(s)
      BY <1>3 DEF Between
    <2>2. \A n \in net : Request(s, n) \/ Response(s, n) => n \in net'
      BY <1>1, <2>1 DEF Request, Response
    <2> QED
      BY <1>1, <2>1, <2>2 DEF StartsOrAlone
  <1>6. Hosts(g)' = Hosts(g) /\ Out(g)' = Out(g)
    BY <1>1 DEF Hosts, Out
  <1>7. \A s \in Hosts(g), k \in Keys : Present(s, k)' => db'[s][k].data \in current[k]
    BY <1>3 DEF Between, Hosts
  <1>8. ~Out(g) => \A k \in Keys : Valid(g, k)' => db'[g][k].data \in current[k]
    BY <1>3 DEF Between, Valid
  <1>9. Out(g) => Away(g)'
    <2> SUFFICES ASSUME Out(g) PROVE Away(g)'
      OBVIOUS
    <2>1. g # m.to
      BY <1>2 DEF Out
    <2>2. db'[g] = db[g] /\ waitStartup'[g] = waitStartup[g] /\ Away(g)
      BY <1>3, <2>1 DEF Between
    <2> QED
      BY <1>1, <1>6, <2>2 DEF Away, Valid
  <1>10. Unknown(g)'
    BY <1>3, <1>6 DEF Between, Unknown, Hosts
  <1> QED
    BY <1>1, <1>4, <1>5, <1>6, <1>7, <1>8, <1>9, <1>10 DEF Between, OneValue

\* A server counts the group, and does not start up: it has done so, or it is alone.
LEMMA GuestCounts ==
    ASSUME TypeOK, NEW t \in Threads, NEW g \in Servers, ClientInv(t), Between(t, g),
           NEW s \in Servers, UpdateNumberOfParticipants(s)
    PROVE  Between(t, g)'
  <1>1. /\ views[s] # <<>> /\ ~StartsUp(s, Head(views[s]))
        /\ views' = [views EXCEPT ![s] = Tail(@)]
        /\ participants' = [participants EXCEPT ![s] = Cardinality(Head(views[s]).members)]
        /\ UNCHANGED <<db, waitStartup, members, net, th, current>>
    BY DEF UpdateNumberOfParticipants, NextView
  <1>2. /\ s \in members /\ Service \in members /\ Head(views[s]).members = members
        /\ views'[s] = <<>> /\ participants'[s] = Cardinality(members)
        /\ \A r \in Servers \ {s} : views'[r] = views[r] /\ participants'[r] = participants[r]
    BY <1>1 DEF ClientInv, GroupKnown, TypeOK
  <1>3. waitStartup[s] => Cardinality(members) = 2 /\ members \cap Servers = {s}
    <2> SUFFICES ASSUME waitStartup[s] PROVE Cardinality(members) = 2
      BY <1>2, GroupOfOne
    <2>1. Head(views[s]).cause = "join"
      BY <1>1, <1>2 DEF Between, StartsOrAlone
    <2>2. ~(Cardinality(members) > 2)
      BY <1>1, <1>2, <2>1 DEF StartsUp
    <2>3. Cardinality(members) \in Nat /\ Cardinality(members) - 2 \in Nat
      <3>1. Cardinality((members \cap Servers) \ {s}) = Cardinality(members) - 2
            /\ Cardinality(members) \in Nat
        BY <1>2, GroupSize
      <3>2. Cardinality((members \cap Servers) \ {s}) \in Nat
        BY ServerSets
      <3> QED
        BY <3>1, <3>2
    <2> QED
      BY <2>2, <2>3
  <1>4. ASSUME NEW n \in net' PROVE Startup(n, g)'
    <2>1. Startup(n, g) /\ n.from \in Servers /\ n.to \in Servers
      BY <1>1, MessageKind DEF Between, TypeOK
    <2> QED
      BY <1>1, <1>2, <2>1 DEF Startup, Present
  <1>5. ASSUME NEW r \in members \cap Servers PROVE StartsOrAlone(r)'
    <2>1. CASE r = s
      BY <1>1, <1>2, <1>3, <2>1 DEF StartsOrAlone
    <2>2. CASE r # s
      BY <1>1, <1>2, <2>2 DEF Between, StartsOrAlone, Request, Response
    <2> QED
      BY <2>1, <2>2
  <1>6. Hosts(g)' = Hosts(g) /\ Away(g)' = Away(g) /\ Unknown(g)' = Unknown(g)
    BY <1>1 DEF Hosts, Away, Unknown, Present, Valid
  <1>7. Out(g)' => Out(g)
    BY <1>1, <1>2 DEF Out
  <1>8. ~Out(g)' => \A k \in Keys : Valid(g, k)' => db'[g][k].data \in current'[k]
    <2>1. CASE ~Out(g)
      BY <1>1, <2>1 DEF Between, Valid
    <2>2. CASE Out(g) /\ ~Out(g)'
      <3>1. g = s /\ Away(g)
        BY <1>1, <1>2, <2>2 DEF Out, Between
      <3>2. Hosts(g) = {}
        BY <1>3, <3>1 DEF Away, Hosts
      <3> QED
        BY <1>1, <3>1, <3>2 DEF Away, Valid
    <2> QED
      BY <2>1, <2>2
  <1> QED
    BY <1>1, <1>4, <1>5, <1>6, <1>7, <1>8 DEF Between, OneValue, Present

\* A server starts up: it asks another server of the group, and only a guest without
\* rows is asked.
LEMMA GuestStartsUp ==
    ASSUME TypeOK, NEW t \in Threads, NEW g \in Servers, Distinct, ClientInv(t), Between(t, g),
           NEW s \in Servers, CheckStartup(s)
    PROVE  Between(t, g)'
  <1>1. /\ views[s] # <<>> /\ StartsUp(s, Head(views[s]))
        /\ views' = [views EXCEPT ![s] = Tail(@)]
        /\ participants' = [participants EXCEPT ![s] = Cardinality(Head(views[s]).members)]
        /\ db' = [db EXCEPT ![s] = [k \in Keys |-> Invalidated(db[s][k])]]
        /\ UNCHANGED <<waitStartup, members, th, current>>
    BY DEF CheckStartup, NextView
  <1>2. /\ s \in members /\ Service \in members /\ Head(views[s]).members = members
        /\ views'[s] = <<>>
        /\ \A r \in Servers \ {s} : views'[r] = views[r] /\ participants'[r] = participants[r]
    BY <1>1 DEF ClientInv, GroupKnown, TypeOK
  <1>3. waitStartup[s] /\ Cardinality(members) > 2
    BY <1>1, <1>2 DEF StartsUp
  <1>4. PICK leader \in Coordinators(s, members) :
            net' = net \cup StartupUnicast(s, "StartupRequestUpdate", leader,
                                [k \in Keys |-> db[s][k].data], Head(views[s]).id)
    BY <1>2 DEF CheckStartup
  <1> DEFINE rows == [k \in Keys |-> db[s][k].data]
             id == Head(views[s]).id
             request == StartupUnicast(s, "StartupRequestUpdate", leader, rows, id)
  <1>5. leader \in members \cap Servers /\ leader # s
    <2> DEFINE others == {r \in members \cap Servers : Cardinal(r) > 0 /\ Cardinal(r) # Cardinal(s)}
    <2>1. others = (members \cap Servers) \ {s}
      BY DEF Distinct, NoTies
    <2>2. others # {}
      <3>1. Cardinality((members \cap Servers) \ {s}) = Cardinality(members) - 2
            /\ Cardinality(members) \in Nat
        BY <1>2, GroupSize
      <3>2. Cardinality({}) = 0
        BY FS_EmptySet
      <3> QED
        BY <1>3, <2>1, <3>1, <3>2
    <2>3. leader \in others
      BY <2>2 DEF Coordinators
    <2> QED
      BY <2>1, <2>3
  <1>6. net' = net \cup request
    BY <1>4
  <1> HIDE DEF rows, id
  <1>7. /\ \A n \in request : n.type = "StartupRequestUpdate" /\ n.from = s /\ n.to = leader
        /\ \E n \in request : TRUE
    <2>1. \A n \in request : n.type = "StartupRequestUpdate" /\ n.from = s /\ n.to = leader
      BY DEF StartupUnicast
    <2>2. \E n \in request : TRUE
      BY <1>5 DEF StartupUnicast
    <2> QED
      BY <2>1, <2>2
  <1> HIDE DEF request
  <1>8. ASSUME NEW r \in Servers, NEW k \in Keys
        PROVE  /\ Present(r, k)' <=> Present(r, k)
               /\ db'[r][k].data = db[r][k].data
               /\ r # s => db'[r][k] = db[r][k]
               /\ r = s => ~Valid(r, k)'
    BY <1>1 DEF TypeOK, Rows, Present, Valid, Invalidated, Row
  <1>9. s # g => \A k \in Keys : ~Present(g, k)
    BY <1>2, <1>3 DEF Between, Unknown, Hosts
  <1>10. ASSUME NEW n \in net' PROVE Startup(n, g)'
    <2>1. CASE n \in net
      <3>1. Startup(n, g) /\ n.from \in Servers /\ n.to \in Servers
        BY <2>1, MessageKind DEF Between, TypeOK
      <3> QED
        BY <1>1, <1>2, <1>8, <3>1 DEF Startup
    <2>2. CASE n \in request
      BY <1>1, <1>2, <1>5, <1>7, <1>8, <1>9, <2>2 DEF Startup
    <2> QED
      BY <1>6, <2>1, <2>2
  <1>11. ASSUME NEW r \in members \cap Servers PROVE StartsOrAlone(r)'
    <2>1. net \subseteq net' /\ request \subseteq net'
      BY <1>6
    <2>2. CASE r = s
      <3>1. \E n \in net' : Request(r, n)
        BY <1>7, <2>1, <2>2 DEF Request
      <3> QED
        BY <1>2, <2>2, <3>1 DEF StartsOrAlone
    <2>3. CASE r # s
      BY <1>1, <1>2, <2>1, <2>3 DEF Between, StartsOrAlone, Request, Response
    <2> QED
      BY <2>2, <2>3
  <1>12. Hosts(g)' = Hosts(g) /\ (Unknown(g)' <=> Unknown(g))
    BY <1>1, <1>8 DEF Hosts, Unknown
  <1>13. \A r \in Hosts(g), k \in Keys : Present(r, k)' => db'[r][k].data \in current[k]
    BY <1>8 DEF Between, Hosts
  <1>14. CASE s = g
    <2>1. ~Out(g)' /\ \A k \in Keys : ~Valid(g, k)'
      BY <1>1, <1>2, <1>8, <1>14 DEF Out
    <2> QED
      BY <1>1, <1>10, <1>11, <1>12, <1>13, <2>1 DEF Between, OneValue
  <1>15. CASE s # g
    <2>1. Out(g)' = Out(g) /\ \A k \in Keys : db'[g][k] = db[g][k]
      BY <1>1, <1>2, <1>8, <1>15 DEF Out
    <2>2. Away(g)' <=> Away(g)
      BY <1>1, <1>12, <2>1 DEF Away, Valid
    <2> QED
      BY <1>1, <1>10, <1>11, <1>12, <1>13, <2>1, <2>2 DEF Between, OneValue, Valid
  <1> QED
    BY <1>14, <1>15

\* The group changes while nothing else happens, and only by the guest.
LEMMA GuestMoves ==
    ASSUME TypeOK, NEW t \in Threads, NEW g \in Servers, Visits(t, g), ClientInv(t), GuestInv(t, g),
           NEW x, NEW m, NEW cause, Regroup(x, m, cause)
    PROVE  /\ x = g /\ Between(t, g)
           /\ net = {} /\ (\A s \in Servers : views[s] = <<>>) /\ \A u \in Threads : th[u].pc = "idle"
  <1>1. Settled /\ x # Service
    BY ChangeIsSettled DEF Visits
  <1>2. x = g
    BY DEF Regroup, Visits
  <1>3. Between(t, g)
    BY <1>1, GuestSettled DEF GuestInv, Settled
  <1> QED
    BY <1>1, <1>2, <1>3 DEF Settled

\* The guest joins: nobody has told it yet.
LEMMA GuestJoins ==
    ASSUME TypeOK, NEW t \in Threads, NEW g \in Servers, Visits(t, g), ClientInv(t), GuestInv(t, g),
           NEW s \in Servers, Join(s)
    PROVE  GuestInv(t, g)'
  <1>1. /\ s \notin members /\ Regroup(s, members \cup {s}, "join")
        /\ UNCHANGED <<db, waitStartup, participants, net, th, current>>
    BY DEF Join, server
  <1>2. /\ s = g /\ Between(t, g) /\ net = {}
        /\ \A r \in Servers : views[r] = <<>>
    BY <1>1, GuestMoves
  <1>3. /\ members' = members \cup {g}
        /\ \A r \in Servers : r \in members' => /\ views'[r] # <<>>
                                                /\ Head(views'[r]).cause = "join"
    BY <1>1, <1>2 DEF Regroup
  <1>4. \A r \in members' \cap Servers : StartsOrAlone(r)'
    BY <1>3 DEF StartsOrAlone
  <1>5. Hosts(g)' = Hosts(g) /\ g \notin members
    BY <1>1, <1>2, <1>3 DEF Hosts
  <1>6. Out(g) /\ Out(g)'
    BY <1>3, <1>5 DEF Out
  <1>7. Away(g)' /\ Unknown(g)'
    BY <1>1, <1>2, <1>5, <1>6 DEF Between, Away, Unknown, Present, Valid
  <1>8. th[t].pc = "idle" /\ th'[t] = th[t] /\ net' = {}
    BY <1>1, <1>2 DEF Between
  <1>9. Exact(t)'
    BY <1>8 DEF Exact
  <1> QED
    BY <1>1, <1>2, <1>4, <1>5, <1>6, <1>7, <1>8, <1>9 DEF GuestInv, Between, OneValue, Present

\* The guest stops: its rows stay, as current as they were.
LEMMA GuestLeaves ==
    ASSUME TypeOK, NEW t \in Threads, NEW g \in Servers, Visits(t, g), ClientInv(t), GuestInv(t, g),
           NEW s \in Servers, Crash(s)
    PROVE  GuestInv(t, g)'
  <1>1. /\ s \in members /\ Regroup(s, members \ {s}, "leave")
        /\ waitStartup' = [waitStartup EXCEPT ![s] = TRUE] /\ db' = db
        /\ net' \subseteq net
    BY DEF Crash
  <1>2. /\ s = g /\ Between(t, g) /\ net = {}
        /\ (\A r \in Servers : views[r] = <<>>) /\ \A u \in Threads : th[u].pc = "idle"
    BY <1>1, GuestMoves
  <1>3. members' = members \ {g} /\ g \notin members'
    BY <1>1, <1>2 DEF Regroup
  <1>4. th'[t] = th[t]
    BY <1>2 DEF Crash
  <1>5. \A k \in Keys : current'[k] = current[k]
    BY <1>2 DEF Crash, WritePCs
  <1>6. Hosts(g)' = Hosts(g) /\ Out(g)' /\ ~Out(g)
    BY <1>1, <1>2, <1>3 DEF Hosts, Out
  <1>7. \A r \in Hosts(g) : ~waitStartup[r] /\ ~waitStartup'[r]
    <2> SUFFICES ASSUME NEW r \in Hosts(g) PROVE ~waitStartup[r] /\ waitStartup'[r] = waitStartup[r]
      OBVIOUS
    <2>1. r \in members \cap Servers /\ r # g /\ g \in members \cap Servers
      BY <1>1, <1>2 DEF Hosts
    <2>2. participants[r] # 2
      BY <1>2, <2>1, Company DEF ClientInv
    <2>3. ~waitStartup[r]
      BY <1>2, <2>1, <2>2 DEF Between, StartsOrAlone
    <2> QED
      BY <1>1, <1>2, <2>1, <2>3 DEF TypeOK
  <1>8. \A r \in members' \cap Servers : StartsOrAlone(r)'
    BY <1>3, <1>6, <1>7 DEF StartsOrAlone, Hosts
  <1>9. Away(g)' /\ Unknown(g)'
    <2>1. waitStartup'[g]
      BY <1>1, <1>2 DEF TypeOK
    <2>2. \A k \in Keys : Valid(g, k) => db[g][k].data \in current[k]
      BY <1>2, <1>6 DEF Between
    <2>3. Unknown(g)'
      BY <1>6, <1>7 DEF Unknown
    <2> QED
      BY <1>1, <1>5, <2>1, <2>2, <2>3 DEF Away, Valid
  <1>10. th[t].pc = "idle" /\ net' = {}
    BY <1>1, <1>2
  <1>11. Exact(t)'
    BY <1>4, <1>10 DEF Exact
  <1>12. th'[t].reply = "value" => th'[t].val \in current'[th'[t].key]
    <2>1. th[t].key \in Keys
      BY DEF TypeOK, Calls
    <2> QED
      BY <1>2, <1>4, <1>5, <2>1 DEF Between
  <1>13. \A k \in Keys : OneValue(k)'
    BY <1>2, <1>5 DEF Between, OneValue
  <1>14. \A r \in Hosts(g), k \in Keys : Present(r, k)' => db'[r][k].data \in current'[k]
    BY <1>1, <1>2, <1>5 DEF Between, Present
  <1> QED
    BY <1>4, <1>6, <1>8, <1>9, <1>10, <1>11, <1>12, <1>13, <1>14 DEF GuestInv, Between

\* Every step.
LEMMA GuestStep ==
    ASSUME TypeOK, CallbacksLive, NEW t \in Threads, NEW g \in Servers, Visits(t, g),
           ClientInv(t), GuestInv(t, g), [Next]_vars
    PROVE  GuestInv(t, g)'
  <1>1. ~ServiceJoins /\ ~ServiceLeaves
    BY ChangeIsSettled DEF ServiceJoins, ServiceLeaves, Visits
  <1>2. ASSUME NEW m \in net, Deliver(m) PROVE GuestInv(t, g)'
    <2>1. Exact(t) /\ Caller(t) /\ AllAnswer
      BY DEF GuestInv, Visits, Lone, AllAnswer
    <2>2. Exact(t)'
      BY <1>2, <2>1, ExactDeliver
    <2>3. CASE During(t, g)
      BY <1>2, <2>1, <2>2, <2>3, GuestDeliver DEF GuestInv
    <2>4. CASE Between(t, g)
      <3>1. m.type \in {"StartupRequestUpdate", "StartupResponseUpdate"}
        BY <2>4 DEF Between, Startup
      <3>2. StartupData(m) \/ StartupDataResponse(m)
        BY <1>2, <3>1 DEF Deliver, AskData, AskDataResponse, GrantWrite, DetectConflict,
                 WantToWriteResponse, ConflictReceived, DataWritten, RevalidateData, Receive
      <3> QED
        BY <2>2, <2>4, <3>2, GuestCoordinates, GuestUpdated DEF GuestInv
    <2> QED
      BY <2>3, <2>4 DEF GuestInv
  <1>3. ASSUME NEW s \in Servers, Notice(s) PROVE GuestInv(t, g)'
    <2>1. NextView(s)
      BY <1>3 DEF Notice, UpdateNumberOfParticipants, CheckStartup
    <2>2. Between(t, g)
      BY <2>1 DEF NextView, GuestInv, During, ValueInv, Kinds
    <2>3. Between(t, g)'
      BY <1>3, <2>2, GuestCounts, GuestStartsUp DEF Notice, Visits
    <2>4. Exact(t)'
      BY <2>3 DEF Between, Startup, Exact
    <2> QED
      BY <2>3, <2>4 DEF GuestInv
  <1>4. CASE UNCHANGED vars
    <2>1. UNCHANGED <<db, wantToWrite, members, views, participants, waitStartup, th, net, current>>
      BY <1>4 DEF vars, server, group
    <2>2. Exact(t)' = Exact(t)
      BY <2>1 DEF Exact, Rest, Answered, Answering, Unasked
    <2>3. Hosts(g)' = Hosts(g) /\ Away(g)' = Away(g) /\ Unknown(g)' = Unknown(g) /\ Out(g)' = Out(g)
      BY <2>1 DEF Hosts, Away, Unknown, Out, Present, Valid
    <2>4. Between(t, g)' = Between(t, g)
      BY <2>1, <2>3 DEF Between, Startup, StartsOrAlone, Request, Response, OneValue, Present, Valid
    <2>5. ValueInv(t, {g})' = ValueInv(t, {g})
      BY <2>1 DEF ValueInv, Kinds, OneValue, Replicas, Current, Dirty, Answers, Present, Valid
    <2> QED
      BY <2>1, <2>2, <2>3, <2>4, <2>5 DEF GuestInv, During
  <1> QED
    BY <1>1, <1>2, <1>3, <1>4, GuestCall, GuestWork, GuestJoins, GuestLeaves DEF Next, Listen

\* The start.
LEMMA GuestInit ==
    ASSUME Init, TypeOK, NEW t \in Threads, NEW g \in Servers
    PROVE  GuestInv(t, g)
  <1>1. ValueInv(t, {g})
    BY ValueInit
  <1>2. \A k \in Keys : ~Present(g, k) /\ ~Valid(g, k)
    BY DEF Init, Present, Valid, NoRow, Row
  <1>3. g \notin members => waitStartup[g]
    BY ConstantAssumption DEF Init
  <1>4. Exact(t)
    BY ExactIdle DEF Init
  <1> QED
    BY <1>1, <1>2, <1>3, <1>4 DEF GuestInv, During, Away, Unknown

----------------------------------------------------------------------------
(* One server comes or goes once, at any moment, around the calls of t.    *)

Disturbed(t) ==
    /\ Caller(t) /\ env.patient /\ TestConflict = {}
    /\ env.maxChanges <= 1 /\ Service \notin env.unstable

\* A server that has not heard yet that key k is being written.
Asked(r, k) == \E m \in net : m.type = "WantToWrite" /\ m.to = r /\ m.key = k

\* The replicas of the group, valid or not, all have current values.
AllCurrent ==
    \A r \in members \cap Servers, k \in Keys : Present(r, k) => db[r][k].data \in current[k]

NoRows(s) == \A k \in Keys : ~Present(s, k)

\* What is on its way about a key is about the key of the last call, and of the kind
\* that the call sends or waits for.
FitsCall(t, m) ==
    /\ m.key = th[t].key
    /\ m.type # "WriteConflict"
    /\ m.type = "WantToWrite" => m.to # th[t].srv
    /\ th[t].pc \in {"asked", "reading"} => m.type \in {"AskData", "AskDataResponse"}
    /\ th[t].pc \in {"writing", "granted"} => m.type \in {"WantToWrite", "WantToWriteResponse"}
    /\ th[t].pc \in WritePCs => m.type \notin {"AskData", "AskDataResponse"}
Fits(t) ==
    /\ \A m \in net : m.to \in members /\ (m.type \in KeyTypes => FitsCall(t, m))
    /\ \A m, n \in net : ~(m.type = "AskData" /\ n.type = "WantToWrite")

\* What the client of a call under way has been told: a server that is starting up
\* may have told a writer that it succeeded, and then the value is current.
Told(t) ==
    /\ th[t].pc # "idle" => th[t].reply # "value"
    /\ th[t].pc \in WritePCs =>
          th[t].reply = "none" \/ current[th[t].key] = {th[t].val}

\* A valid replica that is not current is about to be invalidated; and so is every
\* valid replica of the others while a writer waits.
Latest(t) ==
    /\ \A r \in members \cap Servers, k \in Keys :
          Valid(r, k) => (db[r][k].data \in Current(t, k) \/ Asked(r, k))
    /\ th[t].pc \in {"writing", "granted"} =>
          \A r \in Rest(t) : Valid(r, th[t].key) => Asked(r, th[t].key)

FreshInv(t) == Alone(t) /\ Fits(t) /\ Told(t) /\ Latest(t) /\ Answers(t)

\* Messages about a write, and servers that start up.
WriteTypes == {"WantToWrite", "WantToWriteResponse", "DataWritten", "RevalidateData"}
Writing(t) == th[t].pc \in WritePCs \/ \E m \in net : m.type \in WriteTypes
Starting(s) == waitStartup[s] \/ \E m \in net : Request(s, m) \/ Response(s, m)
CurrentRows(m) == \A k \in Keys : m.rows[k] \in current[k] \cup {Empty}

\* A server that starts up has no rows, or nothing is being written and the rows that
\* it is given are current.
Newcomers(t) ==
    /\ \A s \in members \cap Servers : Starting(s) =>
          \/ NoRows(s)
          \/ /\ ~Writing(t) /\ AllCurrent
             /\ \A m \in net : m.type = "StartupResponseUpdate" => CurrentRows(m)
    /\ th[t].pc \in WritePCs => ~Starting(th[t].srv)
    /\ th[t].pc \in {"asked", "reading"} =>
          \A m \in net : m.type = "StartupResponseUpdate" => CurrentRows(m)

\* A row that is made valid again is current.
Revivable(t) ==
    \/ th[t].pc # "written" /\ AllCurrent
    \/ th[t].pc \in {"written", "idle"} /\ \A m \in net : m.type # "RevalidateData"

\* Before the change, from then on until everything has arrived, and after that.
Before(t) ==
    /\ changes = 0
    /\ ClientInv(t) /\ ValueInv(t, {}) /\ Exact(t)
    /\ \A r \in Servers \ members : NoRows(r)
    /\ th[t].pc # "idle" \/ net # {} => th[t].srv \in members
    /\ th[t].pc \in WritePCs => ~waitStartup[th[t].srv]
Meanwhile(t) ==
    /\ changes > 0
    /\ GroupKnown /\ FreshInv(t) /\ Newcomers(t) /\ Revivable(t)
After(t) ==
    /\ changes > 0
    /\ ClientInv(t) /\ FreshInv(t) /\ Exact(t)
    /\ \A s \in Servers : views[s] = <<>>
    /\ \A m \in net : m.type \in KeyTypes

----------------------------------------------------------------------------
(* What keeps the parts of FreshInv.                                       *)

\* Replicas that stay or are invalidated, and questions that stay or were answered.
LEMMA LatestKept ==
    ASSUME NEW t, Latest(t), members' = members,
           th'[t].srv = th[t].srv, th'[t].key = th[t].key,
           th'[t].pc \in {"writing", "granted"} => th[t].pc \in {"writing", "granted"},
           \A k \in Keys : Current(t, k) \subseteq Current(t, k)',
           \A r \in members \cap Servers, k \in Keys :
              Valid(r, k)' => /\ Valid(r, k) /\ db'[r][k].data = db[r][k].data
                              /\ Asked(r, k) => Asked(r, k)',
           th[t].key \in Keys
    PROVE  Latest(t)'
  <1>1. ASSUME NEW r \in members \cap Servers, NEW k \in Keys, Valid(r, k)'
        PROVE  db'[r][k].data \in Current(t, k)' \/ Asked(r, k)'
    BY <1>1 DEF Latest
  <1>2. ASSUME th'[t].pc \in {"writing", "granted"}, NEW r \in Rest(t)', Valid(r, th[t].key)'
        PROVE  Asked(r, th[t].key)'
    <2>1. r \in Rest(t) /\ r \in members \cap Servers
      BY <1>2 DEF Rest
    <2>2. Valid(r, th[t].key) /\ (Asked(r, th[t].key) => Asked(r, th[t].key)')
      BY <1>2, <2>1
    <2> QED
      BY <1>2, <2>1, <2>2 DEF Latest
  <1> QED
    BY <1>1, <1>2 DEF Latest

\* Messages that fit the call as it goes on.
LEMMA FitsKept ==
    ASSUME NEW t, Fits(t), members' = members,
           th'[t].srv = th[t].srv, th'[t].key = th[t].key,
           th'[t].pc \in {"asked", "reading"} => th[t].pc \in {"asked", "reading"},
           th'[t].pc \in {"writing", "granted"} => th[t].pc \in {"writing", "granted"},
           th'[t].pc \in WritePCs => th[t].pc \in WritePCs,
           \A m \in net' \ net :
              /\ m.to \in members
              /\ m.type \in KeyTypes =>
                    /\ m.key = th[t].key
                    /\ m.type \in {"AskDataResponse", "WantToWriteResponse", "DataWritten", "RevalidateData"}
                    /\ th'[t].pc \in {"asked", "reading"} => m.type = "AskDataResponse"
                    /\ th'[t].pc \in {"writing", "granted"} => m.type = "WantToWriteResponse"
                    /\ th'[t].pc \in WritePCs => m.type # "AskDataResponse"
    PROVE  Fits(t)'
  <1>1. ASSUME NEW m \in net', m.type \in KeyTypes PROVE FitsCall(t, m)'
    BY <1>1 DEF Fits, FitsCall
  <1>2. ASSUME NEW m \in net' PROVE m.to \in members'
    BY <1>2 DEF Fits
  <1>3. ASSUME NEW m \in net', NEW n \in net', m.type = "AskData", n.type = "WantToWrite" PROVE FALSE
    BY <1>3 DEF Fits, KeyTypes
  <1> QED
    BY <1>1, <1>2, <1>3 DEF Fits

\* A thread does a step on its own.
LEMMA FreshWork ==
    ASSUME TypeOK, CallbacksLive, NEW t \in Threads, Caller(t), FreshInv(t),
           NEW u \in Threads, Work(u)
    PROVE  FreshInv(t)'
  <1>0. Alone(t) /\ Fits(t) /\ Told(t) /\ Latest(t) /\ Answers(t)
    BY DEF FreshInv
  <1>1. /\ th[t].pc # "idle"
        /\ \/ RegisterCallback(t) \/ SaveCopy(t) \/ RequestTimeout(t)
           \/ AllGranted(t) \/ SaveGranted(t) \/ WriteTimeout(t) \/ ReleaseLock(t)
        /\ members' = members
        /\ \A x \in Threads \ {t} : th'[x] = th[x]
        /\ th'[t].srv = th[t].srv /\ th'[t].key = th[t].key
        /\ th'[t].conflict = th[t].conflict /\ th'[t].got = th[t].got
        /\ \A m \in net' \ net :
              /\ m.type \in {"DataWritten", "RevalidateData"}
              /\ m.key = th[t].key /\ Sent(t, m)
    BY <1>0, AloneWorks
  <1>2. Alone(t)'
    BY <1>0, <1>1 DEF Alone
  <1>3. th \in [Threads -> Calls] /\ th[t].srv \in Servers /\ th[t].key \in Keys
    BY DEF TypeOK, Calls
  <1>4. \A m \in net' \ net : m.to \in members
    BY <1>1 DEF Sent, Rest
  <1>5. CASE RegisterCallback(t) \/ RequestTimeout(t) \/ AllGranted(t) \/ WriteTimeout(t)
    <2>1. UNCHANGED <<db, current>> /\ net \subseteq net'
      BY <1>5 DEF RegisterCallback, RequestTimeout, AllGranted, WriteTimeout, server
    <2>2. \/ /\ th[t].pc \in {"asked", "reading"} /\ th'[t].pc \in {"reading", "idle"}
             /\ th'[t].pc = "reading" => th'[t].val = th[t].val
             /\ th'[t].reply # "value" /\ net' = net
          \/ /\ th[t].pc = "writing" /\ th'[t].pc \in {"granted", "aborted"}
             /\ th'[t].val = th[t].val /\ th'[t].reply = th[t].reply
             /\ th'[t].pc = "granted" => net' = net
      BY <1>0, <1>3, <1>5 DEF RegisterCallback, RequestTimeout, AllGranted, WriteTimeout, Told,
         Calls, Reply
    <2>3. \A k \in Keys : Current(t, k) \subseteq Current(t, k)'
      BY <2>1, <2>2 DEF Current
    <2>4. \A r, k : Asked(r, k) => Asked(r, k)'
      BY <2>1 DEF Asked
    <2>5. Latest(t)'
      BY <1>0, <1>1, <1>3, <2>1, <2>2, <2>3, <2>4, LatestKept DEF Valid
    <2>6. Fits(t)'
      BY <1>0, <1>1, <1>4, <2>2, FitsKept DEF WritePCs
    <2>7. Told(t)'
      BY <1>0, <1>1, <2>1, <2>2 DEF Told, WritePCs
    <2>8. Answers(t)'
      BY <1>0, <1>1, <2>1, <2>2 DEF Answers
    <2> QED
      BY <1>2, <2>5, <2>6, <2>7, <2>8 DEF FreshInv
  <1>6. CASE SaveCopy(t)
    <2>1. /\ db' = [db EXCEPT ![th[t].srv][th[t].key] = Saved(th[t].val)]
          /\ UNCHANGED <<net, current>> /\ th[t].pc = "reading" /\ th[t].got
          /\ th'[t].pc = "idle" /\ th'[t].val = th[t].val
      BY <1>3, <1>6 DEF SaveCopy, Calls
    <2>2. th[t].val \in current[th[t].key]
      BY <1>0, <2>1 DEF Answers
    <2>3. \A r, k : Asked(r, k)' <=> Asked(r, k)
      BY <2>1 DEF Asked
    <2>4. \A k \in Keys : Current(t, k)' = current[k] /\ Current(t, k) = current[k]
      BY <2>1 DEF Current
    <2>5. ASSUME NEW r \in members \cap Servers, NEW k \in Keys, Valid(r, k)'
          PROVE  db'[r][k].data \in current[k] \/ Asked(r, k)
      <3>1. CASE r = th[t].srv /\ k = th[t].key
        BY <2>1, <2>2, <3>1 DEF TypeOK, Saved, Row
      <3>2. CASE ~(r = th[t].srv /\ k = th[t].key)
        <4>1. db'[r][k] = db[r][k]
          BY <1>3, <2>1, <3>2 DEF TypeOK
        <4> QED
          BY <1>0, <2>4, <2>5, <4>1 DEF Latest, Valid
      <3> QED
        BY <3>1, <3>2
    <2>6. Latest(t)'
      BY <1>1, <2>1, <2>3, <2>4, <2>5 DEF Latest
    <2>7. Fits(t)'
      BY <1>0, <1>1, <2>1, FitsKept DEF WritePCs
    <2>8. Told(t)' /\ Answers(t)'
      BY <1>0, <1>1, <2>1, <2>2 DEF Told, Answers, WritePCs
    <2> QED
      BY <1>2, <2>6, <2>7, <2>8 DEF FreshInv
  <1>7. CASE SaveGranted(t)
    <2>1. /\ db' = [db EXCEPT ![th[t].srv][th[t].key] = Saved(th[t].val)]
          /\ net \subseteq net' /\ current' = current /\ th[t].pc = "granted"
          /\ net' = net \cup Multicast(th[t].srv, "DataWritten", th[t].key, th[t].op)
          /\ th'[t].pc = "written" /\ th'[t].val = th[t].val /\ th'[t].reply = th[t].reply
      BY <1>3, <1>7 DEF SaveGranted, SaveDataLocally, Calls
    <2>2. \A r, k : Asked(r, k) => Asked(r, k)'
      BY <2>1 DEF Asked
    <2>3. /\ \A k \in Keys : Current(t, k) = current[k]
          /\ \A k \in Keys : k # th[t].key => Current(t, k)' = current[k]
      BY <1>1, <2>1 DEF Current
    <2>4. ASSUME NEW r \in members \cap Servers, NEW k \in Keys, Valid(r, k)'
          PROVE  db'[r][k].data \in Current(t, k)' \/ Asked(r, k)'
      <3>1. CASE r = th[t].srv /\ k = th[t].key
        <4>1. db'[r][k].data = th[t].val
          BY <1>3, <2>1, <3>1 DEF TypeOK, Saved, Row
        <4> QED
          BY <1>1, <2>1, <3>1, <4>1 DEF Current
      <3>2. CASE ~(r = th[t].srv /\ k = th[t].key)
        <4>1. db'[r][k] = db[r][k] /\ Valid(r, k)
          BY <1>3, <2>1, <2>4, <3>2 DEF TypeOK, Valid
        <4>2. CASE k = th[t].key
          <5>1. r \in Rest(t)
            BY <3>2, <4>2 DEF Rest
          <5> QED
            BY <1>0, <2>1, <2>2, <4>1, <4>2, <5>1 DEF Latest
        <4>3. CASE k # th[t].key
          BY <1>0, <2>2, <2>3, <4>1, <4>3 DEF Latest
        <4> QED
          BY <4>2, <4>3
      <3> QED
        BY <3>1, <3>2
    <2>5. Latest(t)'
      BY <1>1, <2>1, <2>4 DEF Latest
    <2>6. \A m \in net' \ net : m.type = "DataWritten"
      BY <2>1, InMulticast
    <2>7. Fits(t)'
      BY <1>0, <1>1, <1>4, <2>1, <2>6, FitsKept DEF WritePCs
    <2>8. Told(t)'
      BY <1>0, <1>1, <2>1 DEF Told, WritePCs
    <2>9. Answers(t)'
      BY <1>0, <1>1, <2>1, <2>6 DEF Answers
    <2> QED
      BY <1>2, <2>5, <2>7, <2>8, <2>9 DEF FreshInv
  <1>8. CASE ReleaseLock(t)
    <2>1. /\ UNCHANGED <<db, net>> /\ th[t].pc \in {"written", "aborted"}
          /\ th'[t].pc = "idle" /\ th'[t].val = th[t].val /\ th'[t].reply # "value"
          /\ current' = IF th[t].pc = "written" /\ th[t].reply = "none"
                        THEN [current EXCEPT ![th[t].key] = {th[t].val}] ELSE current
      BY <1>0, <1>3, <1>8 DEF ReleaseLock, Calls, Told, Reply
    <2>2. \A k \in Keys : k # th[t].key => current'[k] = current[k]
      BY <1>3, <2>1 DEF TypeOK
    <2>3. th[t].pc = "written" => current'[th[t].key] = {th[t].val}
      BY <1>0, <1>3, <2>1 DEF Told, WritePCs, TypeOK
    <2>4. \A k \in Keys : Current(t, k) \subseteq Current(t, k)'
      BY <2>1, <2>2, <2>3 DEF Current
    <2>5. \A r, k : Asked(r, k)' <=> Asked(r, k)
      BY <2>1 DEF Asked
    <2>6. Latest(t)'
      BY <1>0, <1>1, <1>3, <2>1, <2>4, <2>5, LatestKept DEF Valid
    <2>7. Fits(t)'
      BY <1>0, <1>1, <2>1, FitsKept DEF WritePCs
    <2>8. Told(t)'
      BY <2>1 DEF Told, WritePCs
    <2>9. \A m \in net : m.type # "AskDataResponse"
      BY <1>0, <2>1 DEF Fits, FitsCall, KeyTypes, WritePCs
    <2>10. Answers(t)'
      BY <2>1, <2>9 DEF Answers
    <2> QED
      BY <1>2, <2>6, <2>7, <2>8, <2>10 DEF FreshInv
  <1> QED
    BY <1>1, <1>5, <1>6, <1>7, <1>8

\* What the listener of a server does with a message about a key.
LEMMA FreshFacts ==
    ASSUME TypeOK, CallbacksLive, NEW t \in Threads, Caller(t), Alone(t), Fits(t),
           NEW m \in net, m.type \in KeyTypes, Deliver(m)
    PROVE  /\ m \in KeyMessages /\ m.to \in members \cap Servers /\ m.key \in Keys /\ FitsCall(t, m)
           /\ \/ AskData(m) \/ AskDataResponse(m) \/ GrantWrite(m)
              \/ WantToWriteResponse(m) \/ DataWritten(m) \/ RevalidateData(m)
           /\ UNCHANGED <<members, views, participants, waitStartup, changes, current>>
           /\ \A u \in Threads \ {t} : th'[u] = th[u]
           /\ th'[t].srv = th[t].srv /\ th'[t].key = th[t].key /\ th'[t].pc = th[t].pc
           /\ th'[t].reply = th[t].reply /\ th'[t].conflict = th[t].conflict
           /\ th'[t] # th[t] => \/ WantToWriteResponse(m) /\ th'[t].val = th[t].val
                                \/ /\ AskDataResponse(m) /\ th'[t].val = m.data
                                   /\ th[t].pc = "reading" /\ m.key = th[t].key
           /\ \A n \in net' \ net :
                 /\ \/ AskData(m) /\ n.type = "AskDataResponse"
                    \/ GrantWrite(m) /\ n.type = "WantToWriteResponse"
                 /\ n.key = m.key /\ n.to \in members
           /\ \A n \in net \ net' : n = m
  <1>1. /\ m \in KeyMessages /\ m.to \in Servers /\ m.key \in Keys
        /\ m.to \in members /\ FitsCall(t, m)
    <2>1. m \in KeyMessages
      BY MessageKind DEF TypeOK
    <2> QED
      BY <2>1 DEF KeyMessages, Fits
  <1>2. ~DetectConflict(m)
    <2> SUFFICES ASSUME DetectConflict(m) PROVE FALSE
      OBVIOUS
    <2>1. m.type = "WantToWrite" /\ wantToWrite[m.to][m.key].holder # {}
      BY DEF DetectConflict, Receive
    <2>2. m.to # th[t].srv
      BY <1>1, <2>1 DEF FitsCall
    <2> QED
      BY <1>1, <2>1, <2>2, OnlyThread
  <1>3. /\ ~ConflictReceived(m) /\ ~StartupData(m) /\ ~StartupDataResponse(m)
    BY <1>1 DEF ConflictReceived, StartupData, StartupDataResponse, Receive, FitsCall, KeyTypes
  <1>4. \/ AskData(m) \/ AskDataResponse(m) \/ GrantWrite(m)
        \/ WantToWriteResponse(m) \/ DataWritten(m) \/ RevalidateData(m)
    BY <1>2, <1>3 DEF Deliver
  <1>5. UNCHANGED <<members, views, participants, waitStartup, changes, current>>
    BY <1>4 DEF AskData, AskDataResponse, GrantWrite, WantToWriteResponse, DataWritten,
                RevalidateData, group, server
  <1>6. th \in [Threads -> Calls]
    BY DEF TypeOK
  <1>7. /\ \A u \in Threads \ {t} : th'[u] = th[u]
        /\ th'[t].srv = th[t].srv /\ th'[t].key = th[t].key /\ th'[t].pc = th[t].pc
        /\ th'[t].reply = th[t].reply /\ th'[t].conflict = th[t].conflict
        /\ th'[t] # th[t] => \/ WantToWriteResponse(m) /\ th'[t].val = th[t].val
                             \/ /\ AskDataResponse(m) /\ th'[t].val = m.data
                                /\ th[t].pc = "reading" /\ m.key = th[t].key
    <2>1. CASE AskDataResponse(m)
      <3>1. waitingData[m.to][m.key] \subseteq {t}
        BY <1>1, OnlyThread
      <3>2. waitingData[m.to][m.key] # {} => m.key = th[t].key /\ th[t].pc = "reading"
        BY <1>1, OnlyThread
      <3>3. th' = [x \in Threads |-> IF x \in waitingData[m.to][m.key]
                                     THEN [th[x] EXCEPT !.got = TRUE, !.val = m.data] ELSE th[x]]
        BY <2>1 DEF AskDataResponse
      <3> QED
        BY <1>6, <2>1, <3>1, <3>2, <3>3 DEF Calls
    <2>2. CASE WantToWriteResponse(m)
      <3>1. wantToWrite[m.to][m.key].holder \subseteq {t}
        BY <1>1, OnlyThread
      <3> QED
        BY <1>6, <2>2, <3>1 DEF WantToWriteResponse, Calls
    <2>3. CASE th' = th
      BY <2>3
    <2> QED
      BY <1>4, <2>1, <2>2, <2>3 DEF AskData, GrantWrite, DataWritten, RevalidateData
  <1>8. ASSUME NEW n \in net' \ net
        PROVE  /\ \/ AskData(m) /\ n.type = "AskDataResponse"
                  \/ GrantWrite(m) /\ n.type = "WantToWriteResponse"
               /\ n.key = m.key /\ n.to \in members
    <2>1. CASE AskData(m)
      <3>1. n \in Unicast(m.to, "AskDataResponse", m.from, m.key, db[m.to][m.key].data, m.op)
        BY <1>8, <2>1 DEF AskData
      <3> QED
        BY <2>1, <3>1 DEF Unicast
    <2>2. CASE GrantWrite(m)
      <3>1. n \in Unicast(m.to, "WantToWriteResponse", m.from, m.key, Empty, m.op)
        BY <1>8, <2>2 DEF GrantWrite
      <3> QED
        BY <2>2, <3>1 DEF Unicast
    <2> QED
      BY <1>4, <1>8, <2>1, <2>2 DEF AskDataResponse, WantToWriteResponse, DataWritten, RevalidateData
  <1>9. \A n \in net \ net' : n = m
    BY <1>4 DEF AskData, AskDataResponse, GrantWrite, WantToWriteResponse, DataWritten, RevalidateData
  <1> QED
    BY <1>1, <1>4, <1>5, <1>7, <1>8, <1>9

\* The listener of a server handles a message about a key; a row that it makes valid
\* again is current.
LEMMA FreshDeliver ==
    ASSUME TypeOK, CallbacksLive, NEW t \in Threads, Caller(t), FreshInv(t),
           NEW m \in net, m.type \in KeyTypes, Deliver(m),
           m.type = "RevalidateData" => th[t].pc # "written" /\ AllCurrent
    PROVE  FreshInv(t)'
  <1>0. Alone(t) /\ Fits(t) /\ Told(t) /\ Latest(t) /\ Answers(t)
    BY DEF FreshInv
  <1>1. /\ m \in KeyMessages /\ m.to \in members \cap Servers /\ m.key \in Keys /\ FitsCall(t, m)
        /\ \/ AskData(m) \/ AskDataResponse(m) \/ GrantWrite(m)
           \/ WantToWriteResponse(m) \/ DataWritten(m) \/ RevalidateData(m)
        /\ members' = members /\ current' = current
        /\ \A u \in Threads \ {t} : th'[u] = th[u]
        /\ th'[t].srv = th[t].srv /\ th'[t].key = th[t].key /\ th'[t].pc = th[t].pc
        /\ th'[t].reply = th[t].reply /\ th'[t].conflict = th[t].conflict
        /\ th'[t] # th[t] => \/ WantToWriteResponse(m) /\ th'[t].val = th[t].val
                             \/ /\ AskDataResponse(m) /\ th'[t].val = m.data
                                /\ th[t].pc = "reading" /\ m.key = th[t].key
        /\ \A n \in net' \ net :
              /\ \/ AskData(m) /\ n.type = "AskDataResponse"
                 \/ GrantWrite(m) /\ n.type = "WantToWriteResponse"
              /\ n.key = m.key /\ n.to \in members
        /\ \A n \in net \ net' : n = m
    BY <1>0, FreshFacts
  <1>2. th[t].key \in Keys /\ m.key = th[t].key
    BY <1>1 DEF TypeOK, Calls, FitsCall
  <1>3. Alone(t)'
    BY <1>0, <1>1 DEF Alone
  <1>4. Fits(t)'
    <2>1. AskData(m) => m.type = "AskData"
      BY DEF AskData, Receive
    <2>2. GrantWrite(m) => m.type = "WantToWrite"
      BY DEF GrantWrite, Receive
    <2>3. \A n \in net' \ net :
             /\ n.to \in members /\ n.key = th[t].key
             /\ n.type \in {"AskDataResponse", "WantToWriteResponse"}
             /\ th'[t].pc \in {"asked", "reading"} => n.type = "AskDataResponse"
             /\ th'[t].pc \in {"writing", "granted"} => n.type = "WantToWriteResponse"
             /\ th'[t].pc \in WritePCs => n.type # "AskDataResponse"
      BY <1>1, <1>2, <2>1, <2>2 DEF FitsCall
    <2> QED
      BY <1>0, <1>1, <2>3, FitsKept
  <1>5. Told(t)'
    <2>1. th[t].pc \in WritePCs => th'[t].val = th[t].val
      BY <1>1 DEF WritePCs
    <2> QED
      BY <1>0, <1>1, <2>1 DEF Told
  <1>6. \A k \in Keys : Current(t, k)' = Current(t, k)
    <2>1. th[t].pc = "written" => th'[t].val = th[t].val
      BY <1>1
    <2> QED
      BY <1>1, <2>1 DEF Current
  <1>7. Latest(t)'
    <2>1. CASE ~RevalidateData(m)
      <3>1. ASSUME NEW r \in members \cap Servers, NEW k \in Keys, Valid(r, k)'
            PROVE  /\ Valid(r, k) /\ db'[r][k].data = db[r][k].data
                   /\ Asked(r, k) => Asked(r, k)'
        <4>1. CASE GrantWrite(m) /\ r = m.to /\ k = m.key
          <5>1. db'[r][k] = Invalidated(db[r][k])
            BY <1>1, <4>1 DEF GrantWrite, TypeOK
          <5> QED
            BY <3>1, <5>1 DEF Invalidated, Row, Valid
        <4>2. CASE ~(GrantWrite(m) /\ r = m.to /\ k = m.key)
          <5>1. db'[r][k] = db[r][k] \/ db'[r][k] = Purged(db[r][k])
            <6>1. CASE db' = db
              BY <6>1
            <6>2. CASE GrantWrite(m)
              BY <1>1, <4>2, <6>2 DEF GrantWrite, TypeOK
            <6>3. CASE DataWritten(m)
              BY <1>1, <6>3 DEF DataWritten, TypeOK
            <6> QED
              BY <1>1, <2>1, <6>1, <6>2, <6>3 DEF AskData, AskDataResponse, WantToWriteResponse, server
          <5>2. Valid(r, k) /\ db'[r][k].data = db[r][k].data
            BY <3>1, <5>1 DEF Purged, NoRow, Row, Valid
          <5>3. Asked(r, k) => Asked(r, k)'
            <6> SUFFICES ASSUME NEW n \in net, n.type = "WantToWrite", n.to = r, n.key = k
                         PROVE  n \in net'
              BY DEF Asked
            <6>1. m.type = "WantToWrite" => GrantWrite(m)
              BY <1>1 DEF AskData, AskDataResponse, WantToWriteResponse, DataWritten, RevalidateData,
                          Receive
            <6>2. n # m
              BY <4>2, <6>1
            <6> QED
              BY <1>1, <6>2
          <5> QED
            BY <5>2, <5>3
        <4> QED
          BY <4>1, <4>2
      <3> QED
        BY <1>0, <1>1, <1>2, <1>6, <3>1, LatestKept
    <2>2. CASE RevalidateData(m)
      <3>1. /\ m.type = "RevalidateData" /\ db' = [db EXCEPT ![m.to][m.key] = Revalidated(@)]
            /\ net' = net \ {m}
        BY <2>2 DEF RevalidateData, Receive
      <3>2. th[t].pc \notin {"writing", "granted", "written"} /\ AllCurrent
        BY <1>1, <3>1 DEF FitsCall
      <3>3. ASSUME NEW r \in members \cap Servers, NEW k \in Keys, Valid(r, k)'
            PROVE  db'[r][k].data \in Current(t, k)'
        <4>1. db'[r][k] = db[r][k] \/ db'[r][k] = Revalidated(db[r][k])
          BY <3>1 DEF TypeOK
        <4>2. Present(r, k) /\ db'[r][k].data = db[r][k].data
          BY <3>3, <4>1 DEF Revalidated, Row, Valid, Present
        <4>3. Current(t, k)' = current[k]
          BY <1>1, <3>2 DEF Current
        <4> QED
          BY <3>2, <4>2, <4>3 DEF AllCurrent
      <3> QED
        BY <1>1, <3>2, <3>3 DEF Latest
    <2> QED
      BY <2>1, <2>2
  <1>8. Answers(t)'
    <2>1. ASSUME NEW n \in net' \ net, n.type = "AskDataResponse"
          PROVE  n.data \in current[n.key]
      <3>1. AskData(m) /\ n.key = m.key
        BY <1>1, <2>1
      <3>2. /\ m.type = "AskData" /\ Valid(m.to, m.key)
            /\ n \in Unicast(m.to, "AskDataResponse", m.from, m.key, db[m.to][m.key].data, m.op)
        BY <2>1, <3>1 DEF AskData, Receive
      <3>3. n.data = db[m.to][m.key].data
        BY <3>2, InUnicast
      <3>4. ~Asked(m.to, m.key)
        BY <1>0, <3>2 DEF Fits, Asked
      <3>5. Current(t, m.key) = current[m.key]
        BY <1>1, <3>2 DEF FitsCall, Current, WritePCs
      <3> QED
        BY <1>0, <1>1, <3>1, <3>2, <3>3, <3>4, <3>5 DEF Latest
    <2>2. AskDataResponse(m) => m.data \in current[m.key]
      BY <1>0 DEF Answers, AskDataResponse, Receive
    <2>3. /\ \A n \in net' : n.type = "AskDataResponse" => n.data \in current'[n.key]
      BY <1>0, <1>1, <2>1 DEF Answers
    <2>4. th'[t].pc \in {"asked", "reading"} /\ th'[t].got => th'[t].val \in current'[th'[t].key]
      <3>1. CASE th'[t] = th[t]
        BY <1>0, <1>1, <3>1 DEF Answers
      <3>2. CASE WantToWriteResponse(m)
        <4>1. m.type = "WantToWriteResponse"
          BY <3>2 DEF WantToWriteResponse, Receive
        <4> QED
          BY <1>1, <4>1 DEF FitsCall
      <3>3. CASE AskDataResponse(m) /\ th'[t].val = m.data
        BY <1>1, <1>2, <2>2, <3>3
      <3> QED
        BY <1>1, <3>1, <3>2, <3>3
    <2>5. th'[t].pc = "idle" /\ th'[t].reply = "value" => th'[t].val \in current'[th'[t].key]
      BY <1>0, <1>1 DEF Answers
    <2> QED
      BY <2>3, <2>4, <2>5 DEF Answers
  <1> QED
    BY <1>3, <1>4, <1>5, <1>7, <1>8 DEF FreshInv

\* Messages of the call do not start up servers.
LEMMA SameStarting ==
    ASSUME NEW t, waitStartup' = waitStartup,
           \A m \in net \ net' : m.type \in KeyTypes, \A m \in net' \ net : m.type \in KeyTypes
    PROVE  /\ \A s : Starting(s)' <=> Starting(s)
           /\ \A m : m.type = "StartupResponseUpdate" => (m \in net' <=> m \in net)
  BY DEF Starting, Request, Response, KeyTypes

\* A thread does a step on its own.
LEMMA MeanwhileWork ==
    ASSUME TypeOK, CallbacksLive, NEW t \in Threads, Disturbed(t), Meanwhile(t),
           NEW u \in Threads, Work(u)
    PROVE  Meanwhile(t)'
  <1>0. /\ Caller(t) /\ changes > 0 /\ GroupKnown /\ FreshInv(t) /\ Newcomers(t) /\ Revivable(t)
        /\ Alone(t) /\ Fits(t) /\ Answers(t)
    BY DEF Disturbed, Meanwhile, FreshInv
  <1>1. /\ th[t].pc # "idle"
        /\ \/ RegisterCallback(t) \/ SaveCopy(t) \/ RequestTimeout(t)
           \/ AllGranted(t) \/ SaveGranted(t) \/ WriteTimeout(t) \/ ReleaseLock(t)
        /\ UNCHANGED <<members, views, participants>>
        /\ th'[t].srv = th[t].srv /\ th'[t].key = th[t].key
        /\ \A m \in net' \ net : m.type \in {"DataWritten", "RevalidateData"}
    BY <1>0, AloneWorks
  <1>2. FreshInv(t)'
    BY <1>0, FreshWork
  <1>3. GroupKnown'
    BY <1>0, <1>1 DEF GroupKnown
  <1>4. /\ UNCHANGED <<waitStartup, changes>> /\ net \subseteq net'
        /\ \A r \in Servers : r # th[t].srv => db'[r] = db[r]
    BY <1>1 DEF RegisterCallback, SaveCopy, RequestTimeout, AllGranted, SaveGranted, SaveDataLocally,
                WriteTimeout, ReleaseLock, server, group, TypeOK
  <1>5. /\ \A s : Starting(s)' <=> Starting(s)
        /\ \A m : m.type = "StartupResponseUpdate" => (m \in net' <=> m \in net)
    BY <1>1, <1>4, SameStarting DEF KeyTypes
  <1>6. th \in [Threads -> Calls] /\ th[t].srv \in Servers /\ th[t].key \in Keys
    BY DEF TypeOK, Calls
  <1>7. CASE th[t].pc \in {"asked", "reading"}
    <2>1. RegisterCallback(t) \/ SaveCopy(t) \/ RequestTimeout(t)
      BY <1>1, <1>7 DEF AllGranted, SaveGranted, WriteTimeout, ReleaseLock
    <2>2. th'[t].pc \in {"reading", "idle"} /\ net' = net /\ current' = current
      BY <1>6, <2>1 DEF RegisterCallback, SaveCopy, RequestTimeout, Calls
    <2>3. AllCurrent
      BY <1>0, <1>7 DEF Revivable
    <2>4. ASSUME NEW r \in members \cap Servers, NEW k \in Keys, Present(r, k)'
          PROVE  db'[r][k].data \in current[k]
      <3>1. CASE db' = db
        BY <2>3, <2>4, <3>1 DEF AllCurrent, Present
      <3>2. CASE SaveCopy(t)
        <4>1. /\ db' = [db EXCEPT ![th[t].srv][th[t].key] = Saved(th[t].val)]
              /\ th[t].val \in current[th[t].key]
          BY <1>0, <3>2 DEF SaveCopy, Answers
        <4>2. CASE r = th[t].srv /\ k = th[t].key
          BY <4>1, <4>2 DEF TypeOK, Saved, Row
        <4>3. CASE ~(r = th[t].srv /\ k = th[t].key)
          <5>1. db'[r][k] = db[r][k]
            BY <1>6, <4>1, <4>3 DEF TypeOK
          <5> QED
            BY <2>3, <2>4, <5>1 DEF AllCurrent, Present
        <4> QED
          BY <4>2, <4>3
      <3> QED
        BY <2>1, <3>1, <3>2 DEF RegisterCallback, RequestTimeout
    <2>5. AllCurrent'
      BY <1>1, <2>2, <2>4 DEF AllCurrent
    <2>6. ~Writing(t)'
      <3>1. \A m \in net : m.type \notin WriteTypes
        BY <1>0, <1>7 DEF Fits, FitsCall, WriteTypes, KeyTypes
      <3> QED
        BY <2>2, <3>1 DEF Writing, WritePCs
    <2>7. \A m \in net' : m.type = "StartupResponseUpdate" => CurrentRows(m)'
      BY <1>0, <1>7, <2>2 DEF Newcomers, CurrentRows
    <2>8. Newcomers(t)'
      BY <2>2, <2>5, <2>6, <2>7 DEF Newcomers, WritePCs
    <2>9. Revivable(t)'
      BY <2>2, <2>5 DEF Revivable
    <2> QED
      BY <1>0, <1>2, <1>3, <1>4, <2>8, <2>9 DEF Meanwhile
  <1>8. CASE th[t].pc \in WritePCs
    <2>1. AllGranted(t) \/ SaveGranted(t) \/ WriteTimeout(t) \/ ReleaseLock(t)
      BY <1>1, <1>8 DEF RegisterCallback, SaveCopy, RequestTimeout, WritePCs
    <2>2. ASSUME NEW s \in members \cap Servers, Starting(s)
          PROVE  NoRows(s)'
      <3>1. s # th[t].srv /\ NoRows(s)
        BY <1>0, <1>8, <2>2 DEF Newcomers, Writing
      <3> QED
        BY <1>4, <3>1 DEF NoRows, Present
    <2>3. ~Starting(th[t].srv)
      BY <1>0, <1>8 DEF Newcomers
    <2>4. th'[t].pc \notin {"asked", "reading"}
      BY <1>6, <2>1 DEF AllGranted, SaveGranted, SaveDataLocally, WriteTimeout, ReleaseLock, Calls
    <2>5. Newcomers(t)'
      BY <1>1, <1>5, <2>2, <2>3, <2>4 DEF Newcomers
    <2>6. Revivable(t)'
      <3>1. CASE AllGranted(t) \/ WriteTimeout(t) \/ (ReleaseLock(t) /\ th[t].pc = "aborted")
        <4>1. UNCHANGED <<db, current>> /\ th'[t].pc # "written"
          BY <1>6, <3>1 DEF AllGranted, WriteTimeout, ReleaseLock, server, Calls
        <4>2. AllCurrent
          BY <1>0, <3>1 DEF Revivable, AllGranted, WriteTimeout
        <4> QED
          BY <1>1, <4>1, <4>2 DEF Revivable, AllCurrent, Present
      <3>2. CASE SaveGranted(t)
        <4>1. /\ th[t].pc = "granted" /\ th'[t].pc = "written"
              /\ net' = net \cup Multicast(th[t].srv, "DataWritten", th[t].key, th[t].op)
          BY <1>6, <3>2 DEF SaveGranted, SaveDataLocally, Calls
        <4>2. \A m \in net' : m.type # "RevalidateData"
          BY <1>0, <4>1, InMulticast DEF Fits, FitsCall, KeyTypes
        <4> QED
          BY <4>1, <4>2 DEF Revivable
      <3>3. CASE ReleaseLock(t) /\ th[t].pc = "written"
        <4>1. th'[t].pc = "idle" /\ net' = net
          BY <1>6, <3>3 DEF ReleaseLock, Calls
        <4> QED
          BY <1>0, <3>3, <4>1 DEF Revivable
      <3> QED
        BY <2>1, <3>1, <3>2, <3>3 DEF ReleaseLock
    <2> QED
      BY <1>0, <1>2, <1>3, <1>4, <2>5, <2>6 DEF Meanwhile
  <1> QED
    BY <1>1, <1>6, <1>7, <1>8 DEF WritePCs, Calls

\* No row comes of a message about a key.
LEMMA DeliveredRows ==
    ASSUME TypeOK, NEW m \in net, m.to \in Servers, m.key \in Keys,
           \/ AskData(m) \/ AskDataResponse(m) \/ GrantWrite(m)
           \/ WantToWriteResponse(m) \/ DataWritten(m) \/ RevalidateData(m)
    PROVE  \A r \in Servers, k \in Keys :
              Present(r, k)' => Present(r, k) /\ db'[r][k].data = db[r][k].data
  <1> SUFFICES ASSUME NEW r \in Servers, NEW k \in Keys, Present(r, k)'
               PROVE  Present(r, k) /\ db'[r][k].data = db[r][k].data
    OBVIOUS
  <1>1. CASE db' = db
    BY <1>1 DEF Present
  <1>2. CASE GrantWrite(m)
    BY <1>2 DEF GrantWrite, TypeOK, Present, Invalidated, Row
  <1>3. CASE DataWritten(m)
    BY <1>3 DEF DataWritten, TypeOK, Present, Purged, NoRow, Row
  <1>4. CASE RevalidateData(m)
    BY <1>4 DEF RevalidateData, TypeOK, Present, Revalidated, Row
  <1> QED
    BY <1>1, <1>2, <1>3, <1>4 DEF AskData, AskDataResponse, WantToWriteResponse, server

\* The listener of a server handles a message about a key.
LEMMA MeanwhileDeliver ==
    ASSUME TypeOK, CallbacksLive, NEW t \in Threads, Disturbed(t), Meanwhile(t),
           NEW m \in net, m.type \in KeyTypes, Deliver(m)
    PROVE  Meanwhile(t)'
  <1>0. /\ Caller(t) /\ changes > 0 /\ GroupKnown /\ FreshInv(t) /\ Newcomers(t) /\ Revivable(t)
        /\ Alone(t) /\ Fits(t)
    BY DEF Disturbed, Meanwhile, FreshInv
  <1>1. /\ m.to \in members \cap Servers /\ m.key \in Keys
        /\ \/ AskData(m) \/ AskDataResponse(m) \/ GrantWrite(m)
           \/ WantToWriteResponse(m) \/ DataWritten(m) \/ RevalidateData(m)
        /\ UNCHANGED <<members, views, participants, waitStartup, changes, current>>
        /\ th'[t].srv = th[t].srv /\ th'[t].pc = th[t].pc
        /\ \A n \in net' \ net :
              \/ AskData(m) /\ n.type = "AskDataResponse"
              \/ GrantWrite(m) /\ n.type = "WantToWriteResponse"
        /\ \A n \in net \ net' : n = m
    BY <1>0, FreshFacts
  <1>2. FreshInv(t)'
    BY <1>0, FreshDeliver DEF Revivable
  <1>3. GroupKnown'
    BY <1>0, <1>1 DEF GroupKnown
  <1>4. /\ \A s : Starting(s)' <=> Starting(s)
        /\ \A n : n.type = "StartupResponseUpdate" => (n \in net' <=> n \in net)
    BY <1>1, SameStarting DEF KeyTypes
  <1>5. \A r \in Servers, k \in Keys :
           Present(r, k)' => Present(r, k) /\ db'[r][k].data = db[r][k].data
    BY <1>1, DeliveredRows
  <1>6. AllCurrent => AllCurrent'
    BY <1>1, <1>5 DEF AllCurrent
  <1>7. ~Writing(t) => ~Writing(t)'
    <2>1. GrantWrite(m) => m.type = "WantToWrite"
      BY DEF GrantWrite, Receive
    <2> QED
      BY <1>1, <2>1 DEF Writing, WriteTypes
  <1>8. \A n : CurrentRows(n)' <=> CurrentRows(n)
    BY <1>1 DEF CurrentRows
  <1>9. \A s \in Servers : NoRows(s) => NoRows(s)'
    BY <1>5 DEF NoRows
  <1>10. Newcomers(t)'
    BY <1>0, <1>1, <1>4, <1>6, <1>7, <1>8, <1>9 DEF Newcomers
  <1>11. Revivable(t)'
    BY <1>0, <1>1, <1>6 DEF Revivable
  <1> QED
    BY <1>0, <1>1, <1>2, <1>3, <1>10, <1>11 DEF Meanwhile

\* A coordinator gives the rows that it has of those asked for: it is asked for none,
\* or what it has is current.
LEMMA MeanwhileCoordinates ==
    ASSUME TypeOK, CallbacksLive, NEW t \in Threads, Disturbed(t), Meanwhile(t),
           NEW m \in net, StartupData(m)
    PROVE  Meanwhile(t)'
  <1>0. /\ Caller(t) /\ changes > 0 /\ GroupKnown /\ FreshInv(t) /\ Newcomers(t) /\ Revivable(t)
        /\ Alone(t) /\ Fits(t) /\ Told(t) /\ Latest(t) /\ Answers(t)
    BY DEF Disturbed, Meanwhile, FreshInv
  <1> DEFINE rows == [k \in Keys |-> IF m.rows[k] # Empty /\ Present(m.to, k)
                                     THEN db[m.to][k].data ELSE Empty]
             answer == StartupUnicast(m.to, "StartupResponseUpdate", m.from, rows, m.op)
  <1>1. /\ m.type = "StartupRequestUpdate" /\ net' = (net \ {m}) \cup answer
        /\ UNCHANGED <<db, waitStartup, participants, members, views, changes, th, current>>
    BY DEF StartupData, Receive, server, group
  <1>2. m \in StartupMessages /\ m.to \in members \cap Servers /\ m.from \in Servers
    <2>1. m \in StartupMessages
      BY <1>1, MessageKind DEF TypeOK
    <2> QED
      BY <1>0, <2>1 DEF Fits, StartupMessages
  <1>3. \A n \in answer : /\ n.type = "StartupResponseUpdate" /\ n.from = m.to /\ n.to = m.from
                          /\ n.rows = rows /\ n.to \in members
    BY DEF StartupUnicast
  <1>4. \A k \in Keys : rows[k] = Empty \/ (Present(m.to, k) /\ rows[k] = db[m.to][k].data)
    OBVIOUS
  <1> HIDE DEF rows
  <1>5. AllCurrent => \A n \in answer : CurrentRows(n)
    BY <1>2, <1>3, <1>4 DEF AllCurrent, CurrentRows
  <1> HIDE DEF answer
  <1>6. /\ \A n : n.type \in KeyTypes => (n \in net' <=> n \in net)
        /\ \A n \in net' : n \in net \/ n \in answer
    BY <1>1, <1>3 DEF KeyTypes
  <1>7. \A s : Starting(s)' => Starting(s)
    BY <1>1, <1>3, <1>6 DEF Starting, Request, Response
  <1>8. FreshInv(t)'
    <2>1. \A r, k : Asked(r, k)' <=> Asked(r, k)
      BY <1>6 DEF Asked, KeyTypes
    <2>2. Latest(t)'
      BY <1>0, <1>1, <2>1 DEF Latest, Current, Valid, Rest
    <2>3. Fits(t)'
      <3>1. \A n \in net' : n.to \in members
        BY <1>0, <1>3, <1>6 DEF Fits
      <3>2. \A n \in net' : n.type \in KeyTypes => FitsCall(t, n)'
        BY <1>0, <1>1, <1>6 DEF Fits, FitsCall
      <3>3. \A n, o \in net' : ~(n.type = "AskData" /\ o.type = "WantToWrite")
        BY <1>0, <1>6 DEF Fits, KeyTypes
      <3> QED
        BY <1>1, <3>1, <3>2, <3>3 DEF Fits
    <2>4. Answers(t)'
      BY <1>0, <1>1, <1>6 DEF Answers, KeyTypes
    <2>5. Alone(t)' /\ Told(t)'
      BY <1>0, <1>1 DEF Alone, Told
    <2> QED
      BY <2>2, <2>3, <2>4, <2>5 DEF FreshInv
  <1>9. GroupKnown'
    BY <1>0, <1>1 DEF GroupKnown
  <1>10. /\ AllCurrent' <=> AllCurrent
         /\ \A s : NoRows(s)' <=> NoRows(s)
         /\ \A n : CurrentRows(n)' <=> CurrentRows(n)
         /\ Writing(t)' <=> Writing(t)
    BY <1>1, <1>6 DEF AllCurrent, NoRows, Present, CurrentRows, Writing, WriteTypes, KeyTypes
  <1>11. Newcomers(t)'
    <2>1. ASSUME NEW s \in members \cap Servers, Starting(s)'
          PROVE  \/ NoRows(s)'
                 \/ /\ ~Writing(t)' /\ AllCurrent'
                    /\ \A n \in net' : n.type = "StartupResponseUpdate" => CurrentRows(n)'
      BY <1>0, <1>5, <1>6, <1>7, <1>10, <2>1 DEF Newcomers
    <2>2. th'[t].pc \in WritePCs => ~Starting(th[t].srv)'
      BY <1>0, <1>1, <1>7 DEF Newcomers
    <2>3. ASSUME th'[t].pc \in {"asked", "reading"}, NEW n \in net', n.type = "StartupResponseUpdate"
          PROVE  CurrentRows(n)'
      <3>1. AllCurrent
        BY <1>0, <1>1, <2>3 DEF Revivable
      <3> QED
        BY <1>0, <1>1, <1>5, <1>6, <1>10, <2>3, <3>1 DEF Newcomers
    <2> QED
      BY <1>1, <2>1, <2>2, <2>3 DEF Newcomers
  <1>12. Revivable(t)'
    BY <1>0, <1>1, <1>6, <1>10 DEF Revivable, KeyTypes
  <1> QED
    BY <1>0, <1>1, <1>8, <1>9, <1>11, <1>12 DEF Meanwhile

\* Steps of a startup that touch neither a call nor what is on its way about a key: the
\* rows stay, or are invalidated; or nothing is being written and they are current.
LEMMA MeanwhileStarts ==
    ASSUME TypeOK, NEW t \in Threads, Meanwhile(t), UNCHANGED <<members, changes, th, current>>,
           GroupKnown',
           \A n : n.type \in KeyTypes => (n \in net' <=> n \in net),
           \A n \in net' \ net : n.to \in members /\ n.type # "StartupResponseUpdate",
           \A s \in Servers : Starting(s)' => Starting(s),
           \A r \in members \cap Servers, k \in Keys : Present(r, k)' => Present(r, k),
           \/ \A r \in members \cap Servers, k \in Keys :
                 Present(r, k)' => /\ db'[r][k].data = db[r][k].data
                                   /\ Valid(r, k)' => Valid(r, k)
           \/ /\ ~Writing(t) /\ AllCurrent
              /\ \A r \in members \cap Servers, k \in Keys :
                    Present(r, k)' => db'[r][k].data \in current[k]
    PROVE  Meanwhile(t)'
  <1>0. /\ changes > 0 /\ FreshInv(t) /\ Newcomers(t) /\ Revivable(t)
        /\ Alone(t) /\ Fits(t) /\ Told(t) /\ Latest(t) /\ Answers(t)
    BY DEF Meanwhile, FreshInv
  <1>1. \A r, k : Valid(r, k) => Present(r, k)
    BY DEF Valid, Present
  <1>2. \A r, k : Valid(r, k)' => Present(r, k)'
    BY DEF Valid, Present
  <1>3. th[t].srv \in Servers /\ th[t].key \in Keys
    BY DEF TypeOK, Calls
  <1>4. \A r, k : Asked(r, k)' <=> Asked(r, k)
    BY DEF Asked, KeyTypes
  <1>5. Latest(t)'
    <2>1. CASE \A r \in members \cap Servers, k \in Keys :
                  Present(r, k)' => /\ db'[r][k].data = db[r][k].data
                                    /\ Valid(r, k)' => Valid(r, k)
      <3>1. \A k \in Keys : Current(t, k) \subseteq Current(t, k)'
        BY DEF Current
      <3> QED
        BY <1>0, <1>2, <1>3, <1>4, <2>1, <3>1, LatestKept
    <2>2. CASE /\ ~Writing(t)
               /\ \A r \in members \cap Servers, k \in Keys :
                     Present(r, k)' => db'[r][k].data \in current[k]
      <3>1. th'[t].pc \notin WritePCs
        BY <2>2 DEF Writing
      <3>2. \A k \in Keys : Current(t, k)' = current[k]
        BY <3>1 DEF Current, WritePCs
      <3> QED
        BY <1>2, <2>2, <3>1, <3>2 DEF Latest, WritePCs
    <2> QED
      BY <2>1, <2>2
  <1>6. Fits(t)'
    <2>1. \A n \in net' : n.to \in members
      BY <1>0 DEF Fits
    <2>2. \A n \in net' : n.type \in KeyTypes => FitsCall(t, n)'
      BY <1>0 DEF Fits, FitsCall
    <2>3. \A n, o \in net' : ~(n.type = "AskData" /\ o.type = "WantToWrite")
      BY <1>0 DEF Fits, KeyTypes
    <2> QED
      BY <2>1, <2>2, <2>3 DEF Fits
  <1>7. Alone(t)' /\ Told(t)' /\ Answers(t)'
    BY <1>0 DEF Alone, Told, Answers, KeyTypes
  <1>8. /\ AllCurrent => AllCurrent'
        /\ \A s \in members \cap Servers : NoRows(s) => NoRows(s)'
        /\ \A n : CurrentRows(n)' <=> CurrentRows(n)
        /\ Writing(t)' <=> Writing(t)
        /\ \A n \in net' : n.type = "StartupResponseUpdate" => n \in net
    BY DEF AllCurrent, NoRows, CurrentRows, Writing, WriteTypes, KeyTypes
  <1>9. Newcomers(t)'
    <2>1. th'[t].pc \in WritePCs => ~Starting(th[t].srv)'
      BY <1>0, <1>3 DEF Newcomers
    <2> QED
      BY <1>0, <1>8, <2>1 DEF Newcomers
  <1>10. Revivable(t)'
    BY <1>0, <1>8 DEF Revivable, KeyTypes
  <1> QED
    BY <1>0, <1>5, <1>6, <1>7, <1>9, <1>10 DEF Meanwhile, FreshInv

\* A server that starts up is given rows: it has none to replace, or what it is given is
\* current and nothing is being written.
LEMMA MeanwhileUpdated ==
    ASSUME TypeOK, CallbacksLive, NEW t \in Threads, Disturbed(t), Meanwhile(t),
           NEW m \in net, StartupDataResponse(m)
    PROVE  Meanwhile(t)'
  <1>0. GroupKnown /\ Newcomers(t) /\ Fits(t)
    BY DEF Meanwhile, FreshInv
  <1>1. /\ m.type = "StartupResponseUpdate" /\ net' = net \ {m}
        /\ db' = [db EXCEPT ![m.to] =
                    [k \in Keys |-> IF m.rows[k] # Empty /\ Present(m.to, k)
                                    THEN Saved(m.rows[k]) ELSE db[m.to][k]]]
        /\ waitStartup' = [waitStartup EXCEPT ![m.to] = FALSE]
        /\ UNCHANGED <<participants, members, views, changes, th, current>>
    BY DEF StartupDataResponse, Receive, group
  <1>2. m \in StartupMessages /\ m.to \in members \cap Servers
    <2>1. m \in StartupMessages
      BY <1>1, MessageKind DEF TypeOK
    <2> QED
      BY <1>0, <2>1 DEF Fits, StartupMessages
  <1>3. ASSUME NEW r \in Servers, NEW k \in Keys, Present(r, k)'
        PROVE  /\ Present(r, k)
               /\ db'[r][k] = db[r][k]
                  \/ (r = m.to /\ db'[r][k].data = m.rows[k] /\ m.rows[k] # Empty)
    <2>1. CASE r = m.to
      BY <1>1, <1>2, <1>3, <2>1 DEF TypeOK, Present, Saved, Row
    <2>2. CASE r # m.to
      BY <1>1, <1>3, <2>2 DEF TypeOK, Present
    <2> QED
      BY <2>1, <2>2
  <1>4. \A n : n.type \in KeyTypes => (n \in net' <=> n \in net)
    BY <1>1 DEF KeyTypes
  <1>5. \A s \in Servers : Starting(s)' => Starting(s)
    BY <1>1 DEF TypeOK, Starting
  <1>6. GroupKnown'
    BY <1>0, <1>1 DEF GroupKnown
  <1>7. Starting(m.to)
    BY <1>1 DEF Starting, Response
  <1>8. CASE NoRows(m.to)
    <2>1. \A r \in members \cap Servers, k \in Keys :
             Present(r, k)' => /\ db'[r][k].data = db[r][k].data
                               /\ Valid(r, k)' => Valid(r, k)
      BY <1>3, <1>8 DEF NoRows, Valid
    <2> QED
      BY <1>1, <1>3, <1>4, <1>5, <1>6, <2>1, MeanwhileStarts
  <1>9. CASE ~Writing(t) /\ AllCurrent /\ CurrentRows(m)
    <2>1. \A r \in members \cap Servers, k \in Keys : Present(r, k)' => db'[r][k].data \in current[k]
      BY <1>3, <1>9 DEF AllCurrent, CurrentRows
    <2> QED
      BY <1>1, <1>3, <1>4, <1>5, <1>6, <1>9, <2>1, MeanwhileStarts
  <1> QED
    BY <1>0, <1>1, <1>2, <1>7, <1>8, <1>9 DEF Newcomers

\* A server is told of the group, and starts up if it still has to.
LEMMA MeanwhileNotice ==
    ASSUME TypeOK, CallbacksLive, NEW t \in Threads, Disturbed(t), Meanwhile(t),
           NEW s \in Servers, Notice(s)
    PROVE  Meanwhile(t)'
  <1>0. GroupKnown
    BY DEF Meanwhile
  <1>1. /\ UNCHANGED <<members, th>> /\ GroupKnown'
        /\ net \subseteq net' /\ \A m \in net' \ net : m.type \notin KeyTypes
    BY <1>0, GroupNoticed
  <1>2. UNCHANGED <<changes, current, waitStartup>>
    BY DEF Notice, UpdateNumberOfParticipants, CheckStartup
  <1>3. \A n : n.type \in KeyTypes => (n \in net' <=> n \in net)
    BY <1>1
  <1>4. CASE UpdateNumberOfParticipants(s)
    <2>1. UNCHANGED <<db, net>>
      BY <1>4 DEF UpdateNumberOfParticipants
    <2> QED
      BY <1>1, <1>2, <1>3, <2>1, MeanwhileStarts DEF Starting, Request, Response, Present, Valid
  <1>5. CASE CheckStartup(s)
    <2>1. /\ waitStartup[s]
          /\ db' = [db EXCEPT ![s] = [k \in Keys |-> Invalidated(db[s][k])]]
      BY <1>5 DEF CheckStartup, StartsUp
    <2>2. \A m \in net' \ net : m.type = "StartupRequestUpdate" /\ m.from = s /\ m.to \in members
      BY <1>5 DEF CheckStartup, StartupUnicast
    <2>3. \A r \in Servers : Starting(r)' => Starting(r)
      BY <1>2, <2>1, <2>2 DEF Starting, Request, Response
    <2>4. \A r \in Servers, k \in Keys :
             Present(r, k)' => /\ Present(r, k) /\ db'[r][k].data = db[r][k].data
                               /\ Valid(r, k)' => Valid(r, k)
      BY <2>1 DEF TypeOK, Present, Valid, Invalidated, Row
    <2> QED
      BY <1>1, <1>2, <1>3, <2>2, <2>3, <2>4, MeanwhileStarts
  <1> QED
    BY <1>4, <1>5 DEF Notice

----------------------------------------------------------------------------
(* Calls after the change.                                                 *)

\* Everything of the change has arrived, and the call that it met is over.
LEMMA ChangeSettles ==
    ASSUME NEW t \in Threads, Meanwhile(t), th[t].pc = "idle", net = {},
           \A s \in Servers : views[s] = <<>>
    PROVE  After(t)
  <1>1. /\ changes > 0 /\ GroupKnown /\ FreshInv(t) /\ Alone(t)
    BY DEF Meanwhile, FreshInv
  <1>2. Exact(t)
    BY ExactIdle
  <1>3. ClientInv(t)
    BY <1>1 DEF ClientInv, Busy, Traffic, Counting
  <1> QED
    BY <1>1, <1>2, <1>3 DEF After

\* A call arrives: nothing is on its way, so valid replicas are current.
LEMMA FreshCall ==
    ASSUME TypeOK, CallbacksLive, NEW t \in Threads, Caller(t), ClientInv(t), FreshInv(t),
           NEW u \in Threads, Call(u)
    PROVE  FreshInv(t)'
  <1>0. Alone(t) /\ Told(t) /\ Latest(t) /\ Answers(t) /\ GroupKnown
    BY DEF FreshInv, ClientInv
  <1>1. PICK s \in Servers, k \in Keys :
          \/ ReadLocal(u, s, k)
          \/ ReadInvalid(u, s, k)
          \/ AskGroup(u, s, k)
          \/ \E v \in Values : WriteAlone(u, s, k, v) \/ SendWantToWrite(u, s, k, v)
    BY DEF Call
  <1>2. Arrives(u, s)
    BY <1>1 DEF ReadLocal, ReadInvalid, AskGroup, WriteAlone, SendWantToWrite
  <1>3. /\ u = t /\ net = {} /\ s \in members /\ th[t].pc = "idle"
        /\ participants[s] = Cardinality(members)
    BY <1>2, Arrival
  <1>4. th \in [Threads -> Calls] /\ db \in [Servers -> [Keys -> Rows]]
        /\ current \in [Keys -> SUBSET (Values \cup {Empty})]
    BY DEF TypeOK
  <1>5. members' = members
    BY <1>1 DEF ReadLocal, ReadInvalid, AskGroup, WriteAlone, SendWantToWrite, group
  <1>6. \A r \in members \cap Servers, l \in Keys : Valid(r, l) => db[r][l].data \in current[l]
    BY <1>0, <1>3 DEF Latest, Asked, Current
  <1>7. CASE ReadLocal(t, s, k) \/ ReadInvalid(t, s, k)
    <2>1. UNCHANGED <<db, net, current>>
      BY <1>7 DEF ReadLocal, ReadInvalid, server
    <2>2. /\ \A x \in Threads \ {t} : th'[x] = th[x]
          /\ th'[t].pc = "idle" /\ th'[t].conflict = {}
          /\ th'[t].reply = "value" => th'[t].val \in current[th'[t].key]
      <3>1. CASE ReadLocal(t, s, k)
        BY <1>3, <1>4, <1>6, <3>1 DEF ReadLocal, NewCall, Reply, Early
      <3>2. CASE ReadInvalid(t, s, k)
        BY <1>4, <3>2 DEF ReadInvalid, NewCall
      <3> QED
        BY <1>7, <3>1, <3>2
    <2>3. Latest(t)'
      BY <1>5, <1>6, <2>1, <2>2 DEF Latest, Current, Valid
    <2> QED
      BY <1>0, <1>3, <1>5, <2>1, <2>2, <2>3 DEF FreshInv, Alone, Fits, Told, Answers, WritePCs
  <1>8. CASE AskGroup(t, s, k)
    <2>1. UNCHANGED <<db, current>> /\ net' = Multicast(s, "AskData", k, ops + 1)
      BY <1>3, <1>8 DEF AskGroup, server
    <2>2. /\ \A x \in Threads \ {t} : th'[x] = th[x]
          /\ th'[t].pc = "asked" /\ th'[t].conflict = {} /\ th'[t].reply # "value"
          /\ ~th'[t].got /\ th'[t].key = k
      BY <1>4, <1>8 DEF AskGroup, NewCall, Early
    <2>3. Latest(t)'
      BY <1>5, <1>6, <2>1, <2>2 DEF Latest, Current, Valid
    <2>4. \A m \in net' : m.type = "AskData" /\ m.key = k /\ m.to \in members
      BY <2>1, InMulticast
    <2>5. Fits(t)'
      BY <1>5, <2>2, <2>4 DEF Fits, FitsCall, WritePCs
    <2> QED
      BY <1>0, <1>5, <2>1, <2>2, <2>3, <2>4, <2>5 DEF FreshInv, Alone, Told, Answers, WritePCs
  <1>9. ASSUME NEW v \in Values, WriteAlone(t, s, k, v)
        PROVE  FreshInv(t)'
    <2>1. /\ db' = [db EXCEPT ![s][k] = Saved(v)] /\ net' = {} /\ participants[s] = 2
          /\ current' = [current EXCEPT ![k] = {v}]
      BY <1>3, <1>9 DEF WriteAlone
    <2>2. /\ \A x \in Threads \ {t} : th'[x] = th[x]
          /\ th'[t].pc = "idle" /\ th'[t].conflict = {} /\ th'[t].reply = "ok"
      BY <1>4, <1>9 DEF WriteAlone, NewCall
    <2>3. members \cap Servers = {s}
      BY <1>0, <1>3, <2>1, GroupOfOne DEF GroupKnown
    <2>4. ASSUME NEW r \in members \cap Servers, NEW l \in Keys, Valid(r, l)'
          PROVE  db'[r][l].data \in current'[l]
      <3>1. CASE l = k
        BY <1>4, <2>1, <2>3, <3>1 DEF Saved, Row
      <3>2. CASE l # k
        <4>1. db'[r][l] = db[r][l] /\ current'[l] = current[l]
          BY <1>4, <2>1, <3>2
        <4> QED
          BY <1>6, <2>4, <4>1 DEF Valid
      <3> QED
        BY <3>1, <3>2
    <2>5. Latest(t)'
      BY <1>5, <2>2, <2>4 DEF Latest, Current
    <2> QED
      BY <1>0, <1>5, <2>1, <2>2, <2>5 DEF FreshInv, Alone, Fits, Told, Answers, WritePCs
  <1>10. ASSUME NEW v \in Values, SendWantToWrite(t, s, k, v)
         PROVE  FreshInv(t)'
    <2>1. /\ db' = [db EXCEPT ![s][k] = Invalidated(@)]
          /\ net' = Multicast(s, "WantToWrite", k, ops + 1)
          /\ current' = IF waitStartup[s] THEN [current EXCEPT ![k] = {v}] ELSE current
      BY <1>3, <1>10 DEF SendWantToWrite
    <2>2. /\ \A x \in Threads \ {t} : th'[x] = th[x]
          /\ th'[t].pc = "writing" /\ th'[t].conflict = {} /\ th'[t].key = k /\ th'[t].srv = s
          /\ th'[t].val = v
          /\ th'[t].reply = IF waitStartup[s] THEN "ok" ELSE "none"
      BY <1>4, <1>10 DEF SendWantToWrite, NewCall, Early
    <2>3. \A m \in net' : m.type = "WantToWrite" /\ m.key = k /\ m.to \in members /\ m.to # s
      BY <2>1, InMulticast
    <2>4. \A r \in (members \cap Servers) \ {s} : Asked(r, k)'
      <3> SUFFICES ASSUME NEW r \in (members \cap Servers) \ {s} PROVE Asked(r, k)'
        OBVIOUS
      <3> DEFINE n == [type |-> "WantToWrite", from |-> s, to |-> r, key |-> k, data |-> Empty,
                       op |-> ops + 1]
      <3>1. n \in net'
        BY <2>1 DEF Multicast
      <3>2. n.type = "WantToWrite" /\ n.to = r /\ n.key = k
        OBVIOUS
      <3> QED
        BY <3>1, <3>2 DEF Asked
    <2>5. ASSUME NEW r \in members \cap Servers, NEW l \in Keys, Valid(r, l)'
          PROVE  db'[r][l].data \in current'[l] \/ Asked(r, l)'
      <3>1. CASE l = k
        <4>1. r # s
          BY <1>4, <2>1, <2>5, <3>1 DEF Valid, Invalidated, Row
        <4> QED
          BY <2>4, <3>1, <4>1
      <3>2. CASE l # k
        <4>1. db'[r][l] = db[r][l] /\ current'[l] = current[l]
          BY <1>4, <2>1, <3>2
        <4> QED
          BY <1>6, <2>5, <4>1 DEF Valid
      <3> QED
        BY <3>1, <3>2
    <2>6. Latest(t)'
      BY <1>5, <2>2, <2>4, <2>5 DEF Latest, Current, Rest
    <2>7. Fits(t)'
      BY <1>5, <2>2, <2>3 DEF Fits, FitsCall, WritePCs
    <2>8. Told(t)'
      BY <1>4, <2>1, <2>2 DEF Told
    <2>9. Answers(t)'
      BY <2>2, <2>3 DEF Answers
    <2> QED
      BY <1>0, <2>2, <2>6, <2>7, <2>8, <2>9 DEF FreshInv, Alone
  <1> QED
    BY <1>1, <1>3, <1>7, <1>8, <1>9, <1>10

\* After the change: a call arrives, goes on, or a message of it.
LEMMA AfterCall ==
    ASSUME TypeOK, CallbacksLive, NEW t \in Threads, Disturbed(t), After(t),
           NEW u \in Threads, Call(u)
    PROVE  After(t)'
  <1>0. Caller(t) /\ changes > 0 /\ ClientInv(t) /\ FreshInv(t) /\ Exact(t)
    BY DEF Disturbed, After
  <1>1. ClientInv(t)' /\ FreshInv(t)' /\ Exact(t)'
    BY <1>0, ClientCall, FreshCall, ExactCall
  <1>2. UNCHANGED <<changes, views>>
    BY DEF Call, ReadLocal, ReadInvalid, AskGroup, WriteAlone, SendWantToWrite, group
  <1>3. \A m \in net' : m \in net \/ m.type \in KeyTypes
    BY InMulticast DEF Call, ReadLocal, ReadInvalid, AskGroup, WriteAlone, SendWantToWrite, KeyTypes
  <1> QED
    BY <1>0, <1>1, <1>2, <1>3 DEF After

LEMMA AfterWork ==
    ASSUME TypeOK, CallbacksLive, NEW t \in Threads, Disturbed(t), After(t),
           NEW u \in Threads, Work(u)
    PROVE  After(t)'
  <1>0. /\ Caller(t) /\ AllAnswer /\ changes > 0 /\ ClientInv(t) /\ FreshInv(t) /\ Exact(t)
    BY DEF Disturbed, After, AllAnswer
  <1>1. ClientInv(t)' /\ FreshInv(t)' /\ Exact(t)'
    BY <1>0, ClientWork, FreshWork, ExactWork
  <1>2. /\ UNCHANGED views
        /\ \A m \in net' \ net : m.type \in {"DataWritten", "RevalidateData"}
    BY <1>0, WorkFacts
  <1>3. changes' = changes
    BY DEF Work, RegisterCallback, SaveCopy, RequestTimeout, AllGranted, SaveGranted, WriteTimeout,
           WinConflict, LoseConflict, ReleaseLock, group
  <1> QED
    BY <1>0, <1>1, <1>2, <1>3 DEF After, KeyTypes

LEMMA AfterDeliver ==
    ASSUME TypeOK, CallbacksLive, NEW t \in Threads, Disturbed(t), After(t),
           NEW m \in net, Deliver(m)
    PROVE  After(t)'
  <1>0. /\ Caller(t) /\ AllAnswer /\ changes > 0 /\ ClientInv(t) /\ FreshInv(t) /\ Exact(t)
        /\ Alone(t) /\ Fits(t) /\ m.type \in KeyTypes
    BY DEF Disturbed, After, AllAnswer, FreshInv
  <1>1. m.type # "RevalidateData"
    BY <1>0 DEF Exact
  <1>2. ClientInv(t)' /\ FreshInv(t)' /\ Exact(t)'
    BY <1>0, <1>1, ClientDeliver, FreshDeliver, ExactDeliver
  <1>3. /\ UNCHANGED <<views, changes>>
        /\ \A n \in net' \ net : n.type \in {"AskDataResponse", "WantToWriteResponse"}
    BY <1>0, FreshFacts
  <1> QED
    BY <1>0, <1>2, <1>3 DEF After, KeyTypes

----------------------------------------------------------------------------
(* Calls before the change.                                                *)

\* A call arrives, goes on, or a message of it.
LEMMA BeforeCall ==
    ASSUME TypeOK, CallbacksLive, NEW t \in Threads, Disturbed(t), Before(t),
           NEW u \in Threads, Call(u)
    PROVE  Before(t)'
  <1>0. Caller(t) /\ changes = 0 /\ ClientInv(t) /\ ValueInv(t, {}) /\ Exact(t) /\ Kinds(t)
    BY DEF Disturbed, Before, ValueInv
  <1>1. ClientInv(t)' /\ ValueInv(t, {})' /\ Exact(t)'
    BY <1>0, ClientCall, ValueCall, ExactCall
  <1>2. PICK s \in Servers, k \in Keys :
          \/ ReadLocal(u, s, k)
          \/ ReadInvalid(u, s, k)
          \/ AskGroup(u, s, k)
          \/ \E v \in Values : WriteAlone(u, s, k, v) \/ SendWantToWrite(u, s, k, v)
    BY DEF Call
  <1>3. Arrives(u, s)
    BY <1>2 DEF ReadLocal, ReadInvalid, AskGroup, WriteAlone, SendWantToWrite
  <1>4. u = t /\ s \in members
    BY <1>0, <1>3, Arrival
  <1>5. UNCHANGED <<changes, members, waitStartup>> /\ \A r \in Servers \ {s} : db'[r] = db[r]
    BY <1>2 DEF ReadLocal, ReadInvalid, AskGroup, WriteAlone, SendWantToWrite, group, server, TypeOK
  <1>6. th'[t].srv = s /\ (th'[t].pc \in WritePCs => participants[s] # 2)
    BY <1>2, <1>4 DEF ReadLocal, ReadInvalid, AskGroup, WriteAlone, SendWantToWrite, NewCall,
                      WritePCs, TypeOK
  <1>7. \A r \in Servers \ members : NoRows(r)'
    BY <1>4, <1>5 DEF Before, NoRows, Present
  <1>8. th'[t].pc \in WritePCs => ~waitStartup[s]
    BY <1>0, <1>4, <1>6 DEF Kinds
  <1> QED
    BY <1>0, <1>1, <1>4, <1>5, <1>6, <1>7, <1>8 DEF Before

LEMMA BeforeWork ==
    ASSUME TypeOK, CallbacksLive, NEW t \in Threads, Disturbed(t), Before(t),
           NEW u \in Threads, Work(u)
    PROVE  Before(t)'
  <1>0. Caller(t) /\ AllAnswer /\ changes = 0 /\ ClientInv(t) /\ ValueInv(t, {}) /\ Exact(t)
    BY DEF Disturbed, Before, AllAnswer
  <1>1. ClientInv(t)' /\ ValueInv(t, {})' /\ Exact(t)'
    BY <1>0, ClientWork, ValueWork, ExactWork
  <1>2. /\ th[t].pc # "idle" /\ members' = members /\ th'[t].srv = th[t].srv
        /\ \/ RegisterCallback(t) \/ SaveCopy(t) \/ RequestTimeout(t)
           \/ AllGranted(t) \/ SaveGranted(t) \/ WriteTimeout(t) \/ ReleaseLock(t)
    BY <1>0, WorkFacts
  <1>3. th[t].srv \in members
    BY <1>2 DEF Before
  <1>4. UNCHANGED <<changes, waitStartup>> /\ \A r \in Servers \ {th[t].srv} : db'[r] = db[r]
    BY <1>2 DEF RegisterCallback, SaveCopy, RequestTimeout, AllGranted, SaveGranted, SaveDataLocally,
                WriteTimeout, ReleaseLock, group, server, TypeOK
  <1>5. th'[t].pc \in WritePCs => th[t].pc \in WritePCs
    BY <1>2 DEF RegisterCallback, SaveCopy, RequestTimeout, AllGranted, SaveGranted, SaveDataLocally,
                WriteTimeout, ReleaseLock, WritePCs, TypeOK, Calls
  <1>6. \A r \in Servers \ members : NoRows(r)'
    BY <1>3, <1>4 DEF Before, NoRows, Present
  <1> QED
    BY <1>0, <1>1, <1>2, <1>3, <1>4, <1>5, <1>6 DEF Before

LEMMA BeforeDeliver ==
    ASSUME TypeOK, CallbacksLive, NEW t \in Threads, Disturbed(t), Before(t),
           NEW m \in net, Deliver(m)
    PROVE  Before(t)'
  <1>0. /\ Caller(t) /\ AllAnswer /\ changes = 0 /\ ClientInv(t) /\ ValueInv(t, {}) /\ Exact(t)
        /\ Kinds(t) /\ Spared({})
    BY DEF Disturbed, Before, AllAnswer, ValueInv, Spared
  <1>1. ClientInv(t)' /\ ValueInv(t, {})' /\ Exact(t)'
    BY <1>0, ClientDeliver, ValueDeliver, ExactDeliver
  <1>2. m.type \in KeyTypes
    BY <1>0 DEF Kinds
  <1>3. /\ ~DetectConflict(m) /\ ~ConflictReceived(m)
        /\ members' = members /\ th'[t].srv = th[t].srv /\ th'[t].pc = th[t].pc
        /\ m \in KeyMessages
    BY <1>0, <1>2, DeliverFacts
  <1>4. \/ AskData(m) \/ AskDataResponse(m) \/ GrantWrite(m)
        \/ WantToWriteResponse(m) \/ DataWritten(m) \/ RevalidateData(m)
    BY <1>2, <1>3 DEF Deliver, StartupData, StartupDataResponse, Receive, KeyTypes
  <1>5. UNCHANGED <<changes, waitStartup>>
    BY <1>4 DEF AskData, AskDataResponse, GrantWrite, WantToWriteResponse, DataWritten,
                RevalidateData, group, server
  <1>6. \A r \in Servers \ members : NoRows(r)'
    BY <1>3, <1>4, DeliveredRows DEF Before, NoRows, KeyMessages
  <1>7. th[t].srv \in members
    BY DEF Before
  <1> QED
    BY <1>0, <1>1, <1>3, <1>5, <1>6, <1>7 DEF Before

----------------------------------------------------------------------------
(* The change.                                                             *)

\* What the change finds: only messages of the call, and a server that has not started
\* up is alone in the group.
LEMMA ChangeFinds ==
    ASSUME TypeOK, NEW t \in Threads, Before(t)
    PROVE  /\ FreshInv(t) /\ Revivable(t)
           /\ \A r \in members \cap Servers, k \in Keys : Valid(r, k) => db[r][k].data \in Current(t, k)
           /\ \A m \in net : m.type \in KeyTypes
           /\ \A s \in Servers : views[s] = <<>>
           /\ \A s \in members \cap Servers : waitStartup[s] =>
                 members \cap Servers = {s} /\ ~Writing(t) /\ AllCurrent
  <1>1. /\ Alone(t) /\ GroupKnown /\ Traffic(t) /\ Counting(t) /\ Kinds(t) /\ Replicas(t, {})
        /\ Answers(t) /\ Exact(t)
    BY DEF Before, ClientInv, ValueInv
  <1>2. th[t].srv \in Servers /\ th[t].key \in Keys /\ th[t].pc \in {"idle", "asked", "reading"} \cup WritePCs
    BY DEF TypeOK, Calls
  <1>3. ASSUME NEW m \in net
        PROVE  /\ m.type \in KeyTypes /\ m.key = th[t].key /\ (Sent(t, m) \/ Answer(t, m))
               /\ m.to \in members
    <2>1. m.type \in KeyTypes /\ m.key = th[t].key /\ (Sent(t, m) \/ Answer(t, m))
      BY <1>1 DEF Kinds, Traffic
    <2>2. th[t].srv \in members
      BY DEF Before
    <2> QED
      BY <2>1, <2>2 DEF Sent, Answer, Rest
  <1>4. Fits(t)
    <2>1. ASSUME NEW m \in net PROVE FitsCall(t, m)
      <3>1. m.type # "WriteConflict" /\ (m.type = "WantToWrite" => m.to # th[t].srv)
        BY <1>3 DEF Sent, Answer, Rest
      <3>2. th[t].pc \in {"writing", "granted"} => m.type \in {"WantToWrite", "WantToWriteResponse"}
        BY <1>1 DEF Counting
      <3> QED
        BY <1>1, <1>3, <3>1, <3>2 DEF FitsCall, Kinds
    <2>2. ASSUME NEW m \in net, NEW n \in net, m.type = "AskData", n.type = "WantToWrite"
          PROVE  FALSE
      BY <1>1, <2>2 DEF Exact, Counting
    <2> QED
      BY <1>3, <2>1, <2>2 DEF Fits
  <1>5. Told(t)
    BY <1>1 DEF Kinds, Told
  <1>6. \A r \in members \cap Servers, k \in Keys : Valid(r, k) => db[r][k].data \in Current(t, k)
    BY <1>1 DEF Replicas
  <1>7. Latest(t)
    <2>1. ASSUME th[t].pc \in {"writing", "granted"}, NEW r \in Rest(t), Valid(r, th[t].key)
          PROVE  Asked(r, th[t].key)
      <3>1. r \in Unasked(t)
        BY <1>1, <2>1 DEF Counting
      <3> QED
        BY <1>3, <3>1 DEF Unasked, Asked
    <2> QED
      BY <1>6, <2>1 DEF Latest
  <1>8. ASSUME th[t].pc # "written", \A r, k : ~Dirty(r, k)
        PROVE  AllCurrent
    <2>1. \A k \in Keys : Current(t, k) = current[k]
      BY <1>8 DEF Current
    <2> QED
      BY <1>1, <1>8, <2>1 DEF Replicas, AllCurrent
  <1>9. Revivable(t)
    <2>1. CASE th[t].pc \in {"written", "idle"}
      BY <1>1, <2>1 DEF Revivable, Exact
    <2>2. CASE th[t].pc \notin {"written", "idle"}
      <3>1. th[t].pc \in {"asked", "reading", "writing", "granted"}
        BY <1>1, <1>2, <2>2 DEF Exact, WritePCs
      <3>2. \A m \in net : m.type # "DataWritten"
        BY <1>3, <1>4, <3>1 DEF Fits, FitsCall
      <3> QED
        BY <1>8, <2>2, <3>2 DEF Revivable, Dirty
    <2> QED
      BY <2>1, <2>2
  <1>10. ASSUME NEW s \in members \cap Servers, waitStartup[s]
         PROVE  members \cap Servers = {s} /\ ~Writing(t) /\ AllCurrent
    <2>1. participants[s] = 2 /\ views[s] = <<>>
      BY <1>1, <1>10 DEF Kinds
    <2>2. members \cap Servers = {s}
      BY <1>1, <1>10, <2>1, GroupOfOne DEF GroupKnown
    <2>3. net = {}
      <3> SUFFICES ASSUME NEW m \in net PROVE FALSE
        OBVIOUS
      <3>1. th[t].srv \in members
        BY DEF Before
      <3>2. Rest(t) = {}
        BY <1>2, <2>2, <3>1 DEF Rest
      <3> QED
        BY <1>3, <3>2 DEF Sent, Answer
    <2>4. th[t].pc \notin WritePCs
      <3> SUFFICES ASSUME th[t].pc \in WritePCs PROVE FALSE
        OBVIOUS
      <3>1. th[t].srv \in members /\ ~waitStartup[th[t].srv]
        BY DEF Before, WritePCs
      <3> QED
        BY <1>2, <1>10, <2>2, <3>1
    <2>5. AllCurrent
      BY <1>8, <2>3, <2>4 DEF Dirty, WritePCs
    <2> QED
      BY <2>2, <2>3, <2>4, <2>5 DEF Writing
  <1>11. \A s \in Servers : views[s] = <<>>
    BY <1>1 DEF Kinds
  <1> QED
    BY <1>1, <1>3, <1>4, <1>5, <1>6, <1>7, <1>9, <1>10, <1>11 DEF FreshInv

\* A server joins, at any moment of a call: it has no rows.
LEMMA ChangeJoins ==
    ASSUME TypeOK, CallbacksLive, NEW t \in Threads, Disturbed(t), Before(t),
           NEW s \in Servers, Join(s)
    PROVE  Meanwhile(t)'
  <1>1. /\ s \notin members /\ Regroup(s, members \cup {s}, "join")
        /\ UNCHANGED <<db, waitStartup, net, th, current>>
    BY DEF Join, server
  <1>2. members' = members \cup {s} /\ changes' > 0
    BY <1>1 DEF Regroup, Before, TypeOK
  <1>3. /\ FreshInv(t) /\ Revivable(t)
        /\ \A m \in net : m.type \in KeyTypes
        /\ \A r \in Servers : views[r] = <<>>
        /\ \A r \in members \cap Servers : waitStartup[r] =>
              members \cap Servers = {r} /\ ~Writing(t) /\ AllCurrent
    BY ChangeFinds
  <1>4. Alone(t) /\ Fits(t) /\ Told(t) /\ Latest(t) /\ Answers(t)
    BY <1>3 DEF FreshInv
  <1>5. GroupKnown'
    <2>1. Service \in members
      BY DEF Before, ClientInv, GroupKnown
    <2> QED
      BY <1>1, <1>3, <2>1, GroupTold
  <1>6. NoRows(s) /\ \A k \in Keys : ~Valid(s, k) /\ ~Present(s, k)
    BY <1>1 DEF Before, NoRows, Present, Valid
  <1>7. \A r, k : Asked(r, k)' <=> Asked(r, k)
    BY <1>1 DEF Asked
  <1>8. Latest(t)'
    <2>1. ASSUME NEW r \in members' \cap Servers, NEW k \in Keys, Valid(r, k)'
          PROVE  db'[r][k].data \in Current(t, k)' \/ Asked(r, k)'
      BY <1>1, <1>2, <1>4, <1>6, <1>7, <2>1 DEF Latest, Valid, Current
    <2>2. ASSUME th'[t].pc \in {"writing", "granted"}, NEW r \in Rest(t)', Valid(r, th[t].key)'
          PROVE  Asked(r, th[t].key)'
      <3>1. th[t].key \in Keys
        BY DEF TypeOK, Calls
      <3>2. r # s /\ r \in Rest(t)
        BY <1>1, <1>2, <1>6, <2>2, <3>1 DEF Rest, Valid
      <3> QED
        BY <1>1, <1>4, <1>7, <2>2, <3>2 DEF Latest, Valid
    <2> QED
      BY <1>1, <2>1, <2>2 DEF Latest
  <1>9. Fits(t)'
    BY <1>1, <1>2, <1>4 DEF Fits, FitsCall
  <1>10. FreshInv(t)'
    BY <1>1, <1>4, <1>8, <1>9 DEF FreshInv, Alone, Told, Answers
  <1>11. AllCurrent => AllCurrent'
    BY <1>1, <1>2, <1>6 DEF AllCurrent, Present
  <1>12. Revivable(t)'
    BY <1>1, <1>3, <1>11 DEF Revivable
  <1>13. Newcomers(t)'
    <2>1. \A m \in net : m.type \notin {"StartupRequestUpdate", "StartupResponseUpdate"}
      BY <1>3 DEF KeyTypes
    <2>2. \A r : Starting(r)' => waitStartup[r]
      BY <1>1, <2>1 DEF Starting, Request, Response
    <2>3. ASSUME NEW r \in members' \cap Servers, Starting(r)'
          PROVE  NoRows(r)' \/ (~Writing(t)' /\ AllCurrent')
      <3>1. CASE r = s
        BY <1>1, <1>6, <3>1 DEF NoRows, Present
      <3>2. CASE r # s
        BY <1>1, <1>2, <1>3, <1>11, <2>2, <2>3, <3>2 DEF Writing
      <3> QED
        BY <3>1, <3>2
    <2>4. th'[t].pc \in WritePCs => ~Starting(th[t].srv)'
      BY <1>1, <2>2 DEF Before
    <2> QED
      BY <1>1, <2>1, <2>3, <2>4 DEF Newcomers
  <1> QED
    BY <1>2, <1>5, <1>10, <1>12, <1>13 DEF Meanwhile

\* What a server that stops does to the call of t.
LEMMA ChangeCuts ==
    ASSUME TypeOK, NEW t \in Threads, Alone(t), NEW s \in Servers, Crash(s)
    PROVE  /\ \A u \in Threads \ {t} : th'[u] = th[u]
           /\ th'[t].srv = th[t].srv /\ th'[t].key = th[t].key /\ th'[t].val = th[t].val
           /\ th'[t].got = th[t].got /\ th'[t].conflict = th[t].conflict
           /\ \/ th'[t].pc = th[t].pc /\ th'[t].reply = th[t].reply
                 /\ (th[t].pc = "idle" \/ th[t].srv # s)
              \/ th[t].pc # "idle" /\ th'[t].pc = "idle" /\ th[t].srv = s
                 /\ (th'[t].reply = th[t].reply \/ th'[t].reply = "error")
           /\ \A k \in Keys : current[k] \subseteq current'[k]
           /\ th[t].srv = s /\ th[t].pc \in WritePCs /\ th[t].reply = "none" =>
                 th[t].val \in current'[th[t].key]
  <1>1. th \in [Threads -> Calls] /\ th[t].key \in Keys
    BY DEF TypeOK, Calls
  <1>2. th' = [u \in Threads |->
                IF th[u].srv = s /\ th[u].pc # "idle"
                THEN [th[u] EXCEPT !.pc = "idle", !.reply = Reply(th[u].reply, "error")]
                ELSE th[u]]
    BY DEF Crash
  <1>3. current' = [k \in Keys |-> current[k] \cup
                     {th[x].val : x \in {u \in Threads : /\ th[u].srv = s /\ th[u].key = k
                                                         /\ th[u].pc \in WritePCs
                                                         /\ th[u].reply = "none"}}]
    BY DEF Crash
  <1>4. \A u \in Threads \ {t} : th'[u] = th[u]
    BY <1>2 DEF Alone
  <1>5. /\ th'[t].srv = th[t].srv /\ th'[t].key = th[t].key /\ th'[t].val = th[t].val
        /\ th'[t].got = th[t].got /\ th'[t].conflict = th[t].conflict
        /\ \/ th'[t].pc = th[t].pc /\ th'[t].reply = th[t].reply
              /\ (th[t].pc = "idle" \/ th[t].srv # s)
           \/ th[t].pc # "idle" /\ th'[t].pc = "idle" /\ th[t].srv = s
              /\ (th'[t].reply = th[t].reply \/ th'[t].reply = "error")
    BY <1>1, <1>2 DEF Calls, Reply
  <1>6. \A k \in Keys : current[k] \subseteq current'[k]
    BY <1>3
  <1>7. th[t].srv = s /\ th[t].pc \in WritePCs /\ th[t].reply = "none" =>
           th[t].val \in current'[th[t].key]
    BY <1>1, <1>3
  <1> QED
    BY <1>4, <1>5, <1>6, <1>7

\* A server stops, at any moment of a call.
LEMMA ChangeLeaves ==
    ASSUME TypeOK, CallbacksLive, NEW t \in Threads, Disturbed(t), Before(t),
           NEW s \in Servers, Crash(s)
    PROVE  Meanwhile(t)'
  <1>1. /\ s \in members /\ Regroup(s, members \ {s}, "leave")
        /\ waitStartup' = [waitStartup EXCEPT ![s] = TRUE]
        /\ db' = db /\ net' = {m \in net : m.to # s}
    BY DEF Crash
  <1>2. members' = members \ {s} /\ changes' > 0
    BY <1>1 DEF Regroup, Before, TypeOK
  <1>3. /\ FreshInv(t) /\ Revivable(t)
        /\ \A r \in members \cap Servers, k \in Keys : Valid(r, k) => db[r][k].data \in Current(t, k)
        /\ \A m \in net : m.type \in KeyTypes
        /\ \A r \in Servers : views[r] = <<>>
        /\ \A r \in members \cap Servers : waitStartup[r] => members \cap Servers = {r}
    BY ChangeFinds
  <1>4. Alone(t) /\ Fits(t) /\ Told(t) /\ Latest(t) /\ Answers(t)
    BY <1>3 DEF FreshInv
  <1>5. /\ \A u \in Threads \ {t} : th'[u] = th[u]
        /\ th'[t].srv = th[t].srv /\ th'[t].key = th[t].key /\ th'[t].val = th[t].val
        /\ th'[t].got = th[t].got /\ th'[t].conflict = th[t].conflict
        /\ \/ th'[t].pc = th[t].pc /\ th'[t].reply = th[t].reply
              /\ (th[t].pc = "idle" \/ th[t].srv # s)
           \/ th[t].pc # "idle" /\ th'[t].pc = "idle" /\ th[t].srv = s
              /\ (th'[t].reply = th[t].reply \/ th'[t].reply = "error")
        /\ \A k \in Keys : current[k] \subseteq current'[k]
        /\ th[t].srv = s /\ th[t].pc \in WritePCs /\ th[t].reply = "none" =>
              th[t].val \in current'[th[t].key]
    BY <1>4, ChangeCuts
  <1>6. th[t].pc \in WritePCs => th[t].reply = "none" /\ ~waitStartup[th[t].srv]
    BY DEF Before, ValueInv, Kinds
  <1>7. GroupKnown'
    <2>1. Service \in members \ {s}
      BY ConstantAssumption DEF Before, ClientInv, GroupKnown
    <2> QED
      BY <1>1, <1>3, <2>1, GroupTold
  <1>8. th[t].srv \in Servers /\ th[t].key \in Keys
    BY DEF TypeOK, Calls
  <1>9. \A k \in Keys : Current(t, k) \subseteq Current(t, k)'
    <2>1. CASE th'[t].pc = th[t].pc
      BY <1>5, <2>1 DEF Current
    <2>2. CASE th'[t].pc # th[t].pc
      BY <1>5, <1>6, <2>2 DEF Current, WritePCs
    <2> QED
      BY <2>1, <2>2
  <1>10. Latest(t)'
    <2>1. \A r \in members' \cap Servers, k \in Keys :
             Valid(r, k)' => db'[r][k].data \in Current(t, k)'
      BY <1>1, <1>2, <1>3, <1>9 DEF Valid
    <2>2. ASSUME th'[t].pc \in {"writing", "granted"}, NEW r \in Rest(t)', Valid(r, th[t].key)'
          PROVE  Asked(r, th[t].key)'
      <3>1. r \in Rest(t) /\ r # s /\ Valid(r, th[t].key) /\ th[t].pc \in {"writing", "granted"}
        BY <1>1, <1>2, <1>5, <2>2 DEF Rest, Valid
      <3>2. Asked(r, th[t].key)
        BY <1>4, <3>1 DEF Latest
      <3> QED
        BY <1>1, <1>5, <3>1, <3>2 DEF Asked
    <2> QED
      BY <1>5, <2>1, <2>2 DEF Latest
  <1>11. Fits(t)'
    <2>1. ASSUME NEW m \in net' PROVE m.to \in members' /\ (m.type \in KeyTypes => FitsCall(t, m)')
      <3>1. m \in net /\ m.to # s /\ m.to \in members /\ (m.type \in KeyTypes => FitsCall(t, m))
        BY <1>1, <1>4, <2>1 DEF Fits
      <3> QED
        BY <1>2, <1>5, <3>1 DEF FitsCall, WritePCs
    <2>2. \A m, n \in net' : ~(m.type = "AskData" /\ n.type = "WantToWrite")
      BY <1>1, <1>4 DEF Fits
    <2> QED
      BY <2>1, <2>2 DEF Fits
  <1>12. Told(t)'
    BY <1>4, <1>5, <1>6 DEF Told, WritePCs
  <1>13. Answers(t)'
    <2>1. \A m \in net : m.type = "AskDataResponse" => m.key \in Keys
      BY <1>4, <1>8 DEF Fits, FitsCall, KeyTypes
    <2>2. \A m \in net' : m.type = "AskDataResponse" => m.data \in current'[m.key]
      BY <1>1, <1>4, <1>5, <2>1 DEF Answers
    <2>3. th'[t].pc \in {"asked", "reading"} /\ th'[t].got => th'[t].val \in current'[th'[t].key]
      BY <1>4, <1>5, <1>8 DEF Answers
    <2>4. th'[t].pc = "idle" /\ th'[t].reply = "value" => th'[t].val \in current'[th'[t].key]
      BY <1>4, <1>5, <1>8 DEF Answers, Told
    <2> QED
      BY <2>2, <2>3, <2>4 DEF Answers
  <1>14. FreshInv(t)'
    BY <1>4, <1>5, <1>10, <1>11, <1>12, <1>13 DEF FreshInv, Alone
  <1>15. AllCurrent => AllCurrent'
    BY <1>1, <1>2, <1>5 DEF AllCurrent, Present
  <1>16. Revivable(t)'
    BY <1>1, <1>3, <1>5, <1>15 DEF Revivable
  <1>17. Newcomers(t)'
    <2>1. \A m \in net' : m.type \notin {"StartupRequestUpdate", "StartupResponseUpdate"}
      BY <1>1, <1>3 DEF KeyTypes
    <2>2. \A r \in Servers : r # s /\ Starting(r)' => waitStartup[r]
      BY <1>1, <2>1 DEF Starting, Request, Response, TypeOK
    <2>3. \A r \in members' \cap Servers : ~Starting(r)'
      BY <1>1, <1>2, <1>3, <2>2
    <2>4. th'[t].pc \in WritePCs => ~Starting(th[t].srv)'
      BY <1>5, <1>6, <1>8, <2>2 DEF WritePCs
    <2> QED
      BY <1>5, <2>1, <2>3, <2>4 DEF Newcomers
  <1> QED
    BY <1>2, <1>7, <1>14, <1>16, <1>17 DEF Meanwhile

----------------------------------------------------------------------------
(* Every step.                                                             *)

ChangeInv(t) == Before(t) \/ Meanwhile(t) \/ After(t)

\* What the change needs of the environment does not change.
LEMMA DisturbedStays ==
    ASSUME [Next]_vars, NEW t
    PROVE  Disturbed(t)' <=> Disturbed(t)
  BY EnvStays DEF Disturbed, Caller

\* The members of the group change once, and the configuration service stays.
LEMMA OnceOnly ==
    ASSUME TypeOK, NEW t \in Threads, Disturbed(t), NEW x, NEW m, NEW cause, Regroup(x, m, cause)
    PROVE  changes = 0 /\ x # Service
  <1>1. changes \in Nat /\ env.maxChanges \in Nat
    BY ConstantAssumption DEF TypeOK, AllEnvironments
  <1> QED
    BY <1>1 DEF Disturbed, Regroup

\* A step of the program and its environment.
LEMMA ChangeStep ==
    ASSUME TypeOK, CallbacksLive, NEW t \in Threads, Disturbed(t), ChangeInv(t), [Next]_vars
    PROVE  ChangeInv(t)'
  <1>0. Caller(t)
    BY DEF Disturbed
  <1>1. ASSUME NEW u \in Threads, Call(u) PROVE ChangeInv(t)'
    <2>1. CASE Meanwhile(t)
      <3>1. PICK s \in Servers : Arrives(u, s)
        BY <1>1 DEF Call, ReadLocal, ReadInvalid, AskGroup, WriteAlone, SendWantToWrite
      <3>2. u = t
        BY <1>0, <3>1 DEF Caller, Arrives
      <3>3. th[t].pc = "idle" /\ net = {} /\ \A r \in Servers : views[r] = <<>>
        BY <1>0, <3>1, <3>2 DEF Caller, Arrives, Calm
      <3>4. After(t)
        BY <2>1, <3>3, ChangeSettles
      <3> QED
        BY <1>1, <3>4, AfterCall DEF ChangeInv
    <2> QED
      BY <1>1, <2>1, BeforeCall, AfterCall DEF ChangeInv
  <1>2. ASSUME NEW u \in Threads, Work(u) PROVE ChangeInv(t)'
    BY <1>2, BeforeWork, MeanwhileWork, AfterWork DEF ChangeInv
  <1>3. ASSUME NEW m \in net, Deliver(m) PROVE ChangeInv(t)'
    <2>1. CASE Meanwhile(t)
      <3>1. CASE m.type \in KeyTypes
        BY <1>3, <2>1, <3>1, MeanwhileDeliver DEF ChangeInv
      <3>2. CASE m.type \notin KeyTypes
        <4>1. StartupData(m) \/ StartupDataResponse(m)
          BY <1>3, <3>2 DEF Deliver, AskData, AskDataResponse, GrantWrite, DetectConflict,
             WantToWriteResponse, ConflictReceived, DataWritten, RevalidateData, Receive, KeyTypes
        <4> QED
          BY <2>1, <4>1, MeanwhileCoordinates, MeanwhileUpdated DEF ChangeInv
      <3> QED
        BY <3>1, <3>2
    <2> QED
      BY <1>3, <2>1, BeforeDeliver, AfterDeliver DEF ChangeInv
  <1>4. ASSUME NEW s \in Servers, Notice(s) PROVE ChangeInv(t)'
    <2>1. views[s] # <<>>
      BY <1>4 DEF Notice, UpdateNumberOfParticipants, CheckStartup, NextView
    <2>2. Meanwhile(t)
      BY <2>1 DEF ChangeInv, Before, ValueInv, Kinds, After
    <2> QED
      BY <1>4, <2>2, MeanwhileNotice DEF ChangeInv
  <1>5. ASSUME NEW s \in Servers, Join(s) \/ Crash(s) PROVE ChangeInv(t)'
    <2>1. changes = 0
      BY <1>5, OnceOnly DEF Join, Crash
    <2>2. Before(t)
      BY <2>1 DEF ChangeInv, Meanwhile, After
    <2> QED
      BY <1>5, <2>2, ChangeJoins, ChangeLeaves DEF ChangeInv
  <1>6. ~ServiceJoins /\ ~ServiceLeaves
    BY OnceOnly DEF ServiceJoins, ServiceLeaves
  <1>7. CASE UNCHANGED vars
    <2>1. UNCHANGED <<db, waitingData, wantToWrite, members, views, participants, waitStartup, th,
                      net, current, changes>>
      BY <1>7 DEF vars, server, group
    <2>2. /\ Exact(t)' = Exact(t) /\ GroupKnown' = GroupKnown /\ Alone(t)' = Alone(t)
          /\ Answers(t)' = Answers(t)
      BY <2>1 DEF Exact, Rest, Answered, Answering, Unasked, GroupKnown, Alone, Answers
    <2>3. ClientInv(t)' = ClientInv(t)
      BY <2>1, <2>2 DEF ClientInv, Busy, Traffic, Sent, Answer, Counting, Rest, Unasked, Answering,
                   Answered, Valid
    <2>4. ValueInv(t, {})' = ValueInv(t, {})
      BY <2>1, <2>2 DEF ValueInv, Kinds, OneValue, Replicas, Current, Dirty, Present, Valid
    <2>5. FreshInv(t)' = FreshInv(t)
      BY <2>1, <2>2 DEF FreshInv, Fits, FitsCall, Told, Latest, Current, Asked, Rest, Valid
    <2>6. Newcomers(t)' = Newcomers(t) /\ Revivable(t)' = Revivable(t)
      BY <2>1 DEF Newcomers, Revivable, Starting, Request, Response, NoRows, Writing, AllCurrent,
                  CurrentRows, Present
    <2>7. Before(t)' = Before(t)
      BY <2>1, <2>2, <2>3, <2>4 DEF Before, NoRows, Present
    <2>8. Meanwhile(t)' = Meanwhile(t) /\ After(t)' = After(t)
      BY <2>1, <2>2, <2>3, <2>5, <2>6 DEF Meanwhile, After
    <2> QED
      BY <2>7, <2>8 DEF ChangeInv
  <1> QED
    BY <1>1, <1>2, <1>3, <1>4, <1>5, <1>6, <1>7 DEF Next, Listen

\* The start.
LEMMA ChangeInit ==
    ASSUME Init, TypeOK, NEW t \in Threads
    PROVE  Before(t)
  <1>1. ClientInv(t) /\ ValueInv(t, {})
    BY ClientInit, ValueInit
  <1>2. th[t].pc = "idle" /\ net = {} /\ changes = 0
    BY DEF Init
  <1>3. Exact(t)
    BY <1>2, ExactIdle
  <1>4. \A r \in Servers : NoRows(r)
    BY DEF Init, NoRows, Present, NoRow, Row
  <1> QED
    BY <1>1, <1>2, <1>3, <1>4 DEF Before, WritePCs

----------------------------------------------------------------------------
(* The theorems.                                                           *)

\* The invariant, whoever the client's thread and the guest are.
VisitedInv ==
    StableInv /\ \A t \in Threads, g \in Servers : Visits(t, g) => GuestInv(t, g)

\* It holds at the start, and every step keeps it.
LEMMA VisitedInvCorrect == Spec => []VisitedInv
  <1>1. Init => \A t \in Threads, g \in Servers : Visits(t, g) => GuestInv(t, g)
    BY TypeInit, GuestInit
  <1>2. /\ StableInv /\ (\A t \in Threads, g \in Servers : Visits(t, g) => GuestInv(t, g)) /\ [Next]_vars
        => (\A t \in Threads, g \in Servers : Visits(t, g) => GuestInv(t, g))'
    <2> SUFFICES ASSUME StableInv, \A t \in Threads, g \in Servers : Visits(t, g) => GuestInv(t, g),
                        [Next]_vars, NEW t \in Threads, NEW g \in Servers, Visits(t, g)'
                 PROVE  GuestInv(t, g)'
      OBVIOUS
    <2>1. Visits(t, g)
      BY VisitsStay
    <2> QED
      BY <2>1, GuestStep DEF StableInv, LoneInv, Visits
  <1> QED
    BY <1>1, <1>2, StableInvCorrect, PTL DEF Spec, VisitedInv

\* One client and one guest, in the words of the properties.
LEMMA OneVisitor ==
    ASSUME TypeOK, OneClient, OneGuest
    PROVE  \E t \in Threads, g \in Servers : env.threads = {t} /\ Visits(t, g)
  <1>1. PICK t \in Threads : env.threads = {t}
    BY ClientThread
  <1>2. PICK g \in Servers : env.unstable \subseteq {g}
    BY DEF OneGuest
  <1>3. Visits(t, g)
    BY <1>1, <1>2, ConstantAssumption DEF OneClient, OneGuest, Visits, Lone, Caller
  <1> QED
    BY <1>1, <1>3

\* The invariant, whoever the client's thread is.
ChangedInv == VisitedInv /\ \A t \in Threads : Disturbed(t) => ChangeInv(t)

\* It holds at the start, and every step keeps it.
LEMMA ChangedInvCorrect == Spec => []ChangedInv
  <1>1. Init => \A t \in Threads : Disturbed(t) => ChangeInv(t)
    BY TypeInit, ChangeInit DEF ChangeInv
  <1>2. /\ VisitedInv /\ (\A t \in Threads : Disturbed(t) => ChangeInv(t)) /\ [Next]_vars
        => (\A t \in Threads : Disturbed(t) => ChangeInv(t))'
    <2> SUFFICES ASSUME VisitedInv, \A t \in Threads : Disturbed(t) => ChangeInv(t),
                        [Next]_vars, NEW t \in Threads, Disturbed(t)'
                 PROVE  ChangeInv(t)'
      OBVIOUS
    <2>1. Disturbed(t)
      BY DisturbedStays
    <2> QED
      BY <2>1, ChangeStep DEF VisitedInv, StableInv, LoneInv
  <1> QED
    BY <1>1, <1>2, VisitedInvCorrect, PTL DEF Spec, ChangedInv

\* A read answers with the value whose write was acknowledged last, or with nothing
\* (ClientService.read, requestData), for any number of servers and calls: whichever
\* replica answers, and whenever timeouts cut a call short and its messages are late,
\* in a group that does not change; while one server comes and goes between the calls
\* with the rows of its earlier visits, which checkStartup replaces; or when one server
\* comes or goes once, at any moment of a call, be it the one that serves it.
THEOREM ReadsAreFreshCorrect == Spec => []ReadsAreFresh
  <1>1. ChangedInv => ReadsAreFresh
    <2> SUFFICES ASSUME ChangedInv, OneClient, Stable \/ OneGuest \/ OneChange,
                        NEW u \in Threads, th[u].pc = "idle", th[u].reply = "value"
                 PROVE  th[u].val \in current[th[u].key]
      BY DEF ReadsAreFresh, Sequential
    <2>1. VisitedInv /\ StableInv /\ TypeOK
      BY DEF ChangedInv, VisitedInv, StableInv, LoneInv
    <2>2. CASE Stable
      BY <2>1, <2>2, StableReads DEF ReadsAreFresh, Sequential
    <2>3. CASE OneGuest
      <3>1. PICK t \in Threads, g \in Servers : env.threads = {t} /\ Visits(t, g)
        BY <2>1, <2>3, OneVisitor
      <3>2. ClientInv(t) /\ GuestInv(t, g)
        BY <2>1, <3>1 DEF VisitedInv, StableInv, LoneInv, Visits
      <3>3. u = t
        BY <3>2 DEF ClientInv, Alone
      <3> QED
        BY <3>2, <3>3 DEF GuestInv, Between, During, ValueInv, Answers
    <2>4. CASE OneChange
      <3>1. PICK t \in Threads : env.threads = {t}
        BY <2>1, ClientThread
      <3>2. Disturbed(t)
        BY <2>4, <3>1 DEF OneClient, OneChange, Disturbed, Caller
      <3>3. ChangeInv(t)
        BY <3>2 DEF ChangedInv
      <3>4. Alone(t) /\ Answers(t)
        BY <3>3 DEF ChangeInv, Before, Meanwhile, After, ClientInv, ValueInv, FreshInv
      <3> QED
        BY <3>4 DEF Alone, Answers
    <2> QED
      BY <2>2, <2>3, <2>4
  <1> QED
    BY <1>1, ChangedInvCorrect, PTL

\* No two servers of the group that have started up hold different valid values of a
\* key: the rows that wantToWriteReceived invalidated, dataWritten deletes,
\* revalidateData makes valid again, requestData copies and checkStartup exchanges
\* agree at every moment.
THEOREM ReplicasAgreeCorrect == Spec => []ReplicasAgree
  <1>1. VisitedInv => ReplicasAgree
    <2>1. ASSUME VisitedInv, Stable PROVE ReplicasAgree
      BY <2>1, StableReplicas DEF VisitedInv
    <2>2. ASSUME VisitedInv, OneGuest PROVE ReplicasAgree
      <3> SUFFICES ASSUME OneClient, NEW k \in Keys,
                          NEW s \in members \cap Servers, NEW r \in members \cap Servers,
                          ~waitStartup[s], ~waitStartup[r], Valid(s, k), Valid(r, k)
                   PROVE  db[s][k].data = db[r][k].data
        BY DEF ReplicasAgree, SameValue
      <3>1. TypeOK
        BY <2>2 DEF VisitedInv, StableInv, LoneInv
      <3>2. PICK t \in Threads, g \in Servers : env.threads = {t} /\ Visits(t, g)
        BY <2>2, <3>1, OneVisitor
      <3>3. GuestInv(t, g)
        BY <2>2, <3>2 DEF VisitedInv
      <3>4. CASE During(t, g)
        <4>1. db[s][k].data \in Current(t, k) /\ db[r][k].data \in Current(t, k) /\ OneValue(k)
          BY <3>4 DEF During, ValueInv, Replicas
        <4> QED
          BY <4>1 DEF Current, OneValue
      <3>5. CASE Between(t, g)
        <4>1. ASSUME NEW q \in members \cap Servers, ~waitStartup[q], Valid(q, k)
              PROVE  db[q][k].data \in current[k]
          <5>1. CASE q = g
            BY <3>5, <4>1, <5>1 DEF Between, Away
          <5>2. CASE q # g
            BY <3>5, <4>1, <5>2 DEF Between, Hosts, Valid, Present
          <5> QED
            BY <5>1, <5>2
        <4> QED
          BY <3>5, <4>1 DEF Between, OneValue
      <3> QED
        BY <3>3, <3>4, <3>5 DEF GuestInv
    <2> QED
      BY <2>1, <2>2 DEF ReplicasAgree
  <1> QED
    BY <1>1, VisitedInvCorrect, PTL

----------------------------------------------------------------------------
(* The servers implement a register.                                       *)

\* A step that concerns one thread changes one call of the register.
LEMMA OneCallSeen ==
    ASSUME NEW t \in Threads, \A u \in Threads \ {t} : th'[u] = th[u]
    PROVE  CallsSeen' = [CallsSeen EXCEPT ![t] = Seen(t)']
  <1>1. \A u \in Threads \ {t} : Seen(u)' = Seen(u)
    BY DEF Seen
  <1> QED
    BY <1>1 DEF CallsSeen

\* What the client of an idle thread and of a call under way sees.
LEMMA SeenIs ==
    ASSUME TypeOK, ValueEndsCall, NEW t \in Threads
    PROVE  /\ Seen(t).state = "busy" <=> th[t].pc # "idle" /\ th[t].reply = "none"
           /\ th[t].pc \in WritePCs /\ th[t].reply = "none" =>
                 Seen(t) = OneCopy!Request(th[t].key, th[t].val)
           /\ th[t].pc \in {"asked", "reading"} /\ th[t].reply = "none" =>
                 Seen(t) = OneCopy!Request(th[t].key, Empty)
           /\ th[t].reply \in {"empty", "ok", "error"} =>
                 Seen(t) = OneCopy!Answer(th[t].reply, th[t].key, Empty)
           /\ th[t].reply = "value" =>
                 Seen(t) = OneCopy!Answer("value", th[t].key, th[t].val)
  <1>1. th[t] \in Calls
    BY DEF TypeOK
  <1> QED
    BY <1>1 DEF Seen, Calls, WritePCs, OneCopy!Request, OneCopy!Answer, ValueEndsCall

\* A thread begins a call.
LEMMA CallBegins ==
    ASSUME NEW t \in Threads, \A u \in Threads \ {t} : th'[u] = th[u],
           Seen(t).state # "busy", current' = current,
           NEW k \in Keys, NEW v \in Values \cup {Empty},
           Seen(t)' = OneCopy!Request(k, v)
    PROVE  OneCopy!Next
  <1>1. CallsSeen' = [CallsSeen EXCEPT ![t] = OneCopy!Request(k, v)]
    BY OneCallSeen
  <1> QED
    BY <1>1 DEF OneCopy!Next, OneCopy!Begin, OneCopy!Busy, CallsSeen

\* A thread's read ends, whether or not it has begun before.
LEMMA ReadEnds ==
    ASSUME NEW t \in Threads, \A u \in Threads \ {t} : th'[u] = th[u], current' = current,
           NEW k \in Keys,
           Seen(t).state = "busy" => Seen(t) = OneCopy!Request(k, Empty),
           \/ Seen(t)' = OneCopy!Answer("empty", k, Empty)
           \/ Seen(t)' = OneCopy!Answer("error", k, Empty)
           \/ \E v \in current[k] : Seen(t)' = OneCopy!Answer("value", k, v)
    PROVE  OneCopy!Next
  <1>1. OneCopy!Read(t, k)
    BY OneCallSeen DEF OneCopy!Read
  <1>2. OneCopy!Busy(t) => CallsSeen[t] = OneCopy!Request(k, Empty)
    BY DEF OneCopy!Busy, CallsSeen
  <1> QED
    BY <1>1, <1>2 DEF OneCopy!Next, OneCopy!End

\* A thread's write ends.
LEMMA WriteEnds ==
    ASSUME NEW t \in Threads, \A u \in Threads \ {t} : th'[u] = th[u],
           NEW k \in Keys, NEW v \in Values,
           Seen(t).state = "busy" => Seen(t) = OneCopy!Request(k, v),
           \/ /\ Seen(t)' = OneCopy!Answer("ok", k, Empty)
              /\ current' = [current EXCEPT ![k] = {v}]
           \/ /\ Seen(t)' = OneCopy!Answer("error", k, Empty)
              /\ current' \in {current, [current EXCEPT ![k] = @ \cup {v}]}
    PROVE  OneCopy!Next
  <1>1. OneCopy!Write(t, k, v)
    BY OneCallSeen DEF OneCopy!Write
  <1>2. OneCopy!Busy(t) => CallsSeen[t] = OneCopy!Request(k, v)
    BY DEF OneCopy!Busy, CallsSeen
  <1>3. v # Empty
    BY ConstantAssumption
  <1> QED
    BY <1>1, <1>2, <1>3 DEF OneCopy!Next, OneCopy!End

\* A call that the client's server takes begins, or finds its answer at once.
LEMMA RegisterCall ==
    ASSUME TypeOK, NEW t \in Threads, Call(t),
           th'[t].reply = "value" => th'[t].val \in current'[th'[t].key]
    PROVE  OneCopy!Next
  <1>1. PICK s \in Servers, k \in Keys :
          \/ ReadLocal(t, s, k) \/ ReadInvalid(t, s, k) \/ AskGroup(t, s, k)
          \/ \E v \in Values : WriteAlone(t, s, k, v) \/ SendWantToWrite(t, s, k, v)
    BY DEF Call
  <1>2. th \in [Threads -> Calls] /\ th[t].pc = "idle" /\ \A u \in Threads \ {t} : th'[u] = th[u]
    BY <1>1 DEF TypeOK, ReadLocal, ReadInvalid, AskGroup, WriteAlone, SendWantToWrite, Arrives
  <1>3. Seen(t).state # "busy"
    BY <1>2 DEF Seen, Calls
  <1>4. CASE ReadLocal(t, s, k)
    <2>1. th'[t] = NewCall("idle", s, k, db[s][k].data, Reply(Early(s, "empty"), "value"))
      BY <1>2, <1>4 DEF ReadLocal
    <2>2. current' = current
      BY <1>4 DEF ReadLocal
    <2>3. CASE waitStartup[s]
      <3>1. Seen(t)' = OneCopy!Answer("empty", k, Empty)
        BY <2>1, <2>3 DEF NewCall, Early, Reply, Seen, OneCopy!Answer, WritePCs
      <3> QED
        BY <1>2, <1>3, <2>2, <3>1, ReadEnds
    <2>4. CASE ~waitStartup[s]
      <3>1. Seen(t)' = OneCopy!Answer("value", k, db[s][k].data)
        BY <2>1, <2>4 DEF NewCall, Early, Reply, Seen, OneCopy!Answer
      <3>2. db[s][k].data \in current[k]
        BY <2>1, <2>2, <2>4 DEF NewCall, Early, Reply
      <3> QED
        BY <1>2, <1>3, <2>2, <3>1, <3>2, ReadEnds
    <2> QED
      BY <2>3, <2>4
  <1>5. CASE ReadInvalid(t, s, k)
    <2>1. th'[t] = NewCall("idle", s, k, Empty, "empty") /\ current' = current
      BY <1>2, <1>5 DEF ReadInvalid
    <2>2. Seen(t)' = OneCopy!Answer("empty", k, Empty)
      BY <2>1 DEF NewCall, Seen, OneCopy!Answer, WritePCs
    <2> QED
      BY <1>2, <1>3, <2>1, <2>2, ReadEnds
  <1>6. CASE AskGroup(t, s, k)
    <2>1. th'[t] = NewCall("asked", s, k, Empty, Early(s, "empty")) /\ current' = current
      BY <1>2, <1>6 DEF AskGroup
    <2>2. CASE waitStartup[s]
      <3>1. Seen(t)' = OneCopy!Answer("empty", k, Empty)
        BY <2>1, <2>2 DEF NewCall, Early, Seen, OneCopy!Answer, WritePCs
      <3> QED
        BY <1>2, <1>3, <2>1, <3>1, ReadEnds
    <2>3. CASE ~waitStartup[s]
      <3>1. Seen(t)' = OneCopy!Request(k, Empty)
        BY <2>1, <2>3 DEF NewCall, Early, Seen, OneCopy!Request, WritePCs
      <3> QED
        BY <1>2, <1>3, <2>1, <3>1, CallBegins
    <2> QED
      BY <2>2, <2>3
  <1>7. ASSUME NEW v \in Values, WriteAlone(t, s, k, v) PROVE OneCopy!Next
    <2>1. th'[t] = NewCall("idle", s, k, v, "ok") /\ current' = [current EXCEPT ![k] = {v}]
      BY <1>2, <1>7 DEF WriteAlone
    <2>2. Seen(t)' = OneCopy!Answer("ok", k, Empty)
      BY <2>1 DEF NewCall, Seen, OneCopy!Answer, WritePCs
    <2> QED
      BY <1>2, <1>3, <2>1, <2>2, WriteEnds
  <1>8. ASSUME NEW v \in Values, SendWantToWrite(t, s, k, v) PROVE OneCopy!Next
    <2>1. th'[t] = NewCall("writing", s, k, v, Early(s, "ok"))
      BY <1>2, <1>8 DEF SendWantToWrite
    <2>2. CASE waitStartup[s]
      <3>1. Seen(t)' = OneCopy!Answer("ok", k, Empty)
        BY <2>1, <2>2 DEF NewCall, Early, Seen, OneCopy!Answer, WritePCs
      <3>2. current' = [current EXCEPT ![k] = {v}]
        BY <1>8, <2>2 DEF SendWantToWrite
      <3> QED
        BY <1>2, <1>3, <3>1, <3>2, WriteEnds
    <2>3. CASE ~waitStartup[s]
      <3>1. Seen(t)' = OneCopy!Request(k, v)
        BY <2>1, <2>3 DEF NewCall, Early, Seen, OneCopy!Request, WritePCs
      <3>2. current' = current
        BY <1>8, <2>3 DEF SendWantToWrite
      <3> QED
        BY <1>2, <1>3, <3>1, <3>2, CallBegins
    <2> QED
      BY <2>2, <2>3
  <1> QED
    BY <1>1, <1>4, <1>5, <1>6, <1>7, <1>8

\* A call that is under way ends, or goes on without the client's seeing it.
LEMMA RegisterWork ==
    ASSUME TypeOK, ValueEndsCall, Provenance, NEW t \in Threads,
           \/ RegisterCallback(t) \/ SaveCopy(t) \/ RequestTimeout(t)
           \/ AllGranted(t) \/ SaveGranted(t) \/ WriteTimeout(t) \/ ReleaseLock(t),
           th'[t].reply = "value" => th'[t].val \in current'[th'[t].key]
    PROVE  OneCopy!Next \/ UNCHANGED <<current, CallsSeen>>
  <1> DEFINE k == th[t].key
             v == th[t].val
  <1>1. th \in [Threads -> Calls] /\ th[t] \in Calls /\ k \in Keys
    BY DEF TypeOK, Calls
  <1>2. th[t].pc # "idle" => th[t].reply # "value"
    BY DEF ValueEndsCall
  <1>3. \A u \in Threads \ {t} : th'[u] = th[u]
    BY <1>1 DEF RegisterCallback, SaveCopy, RequestTimeout, AllGranted, SaveGranted,
                SaveDataLocally, WriteTimeout, ReleaseLock
  <1>4. Seen(t)' = Seen(t) => CallsSeen' = CallsSeen
    BY <1>3, OneCallSeen DEF CallsSeen
  <1>5. CASE RegisterCallback(t) \/ AllGranted(t) \/ SaveGranted(t) \/ WriteTimeout(t)
    <2>1. /\ th'[t].reply = th[t].reply /\ th'[t].key = th[t].key /\ th'[t].val = th[t].val
          /\ th[t].pc # "idle" /\ th'[t].pc # "idle"
          /\ th'[t].pc \in WritePCs <=> th[t].pc \in WritePCs
      BY <1>1, <1>5 DEF RegisterCallback, AllGranted, SaveGranted, SaveDataLocally, WriteTimeout,
                        Calls, WritePCs
    <2>2. Seen(t)' = Seen(t)
      BY <2>1 DEF Seen
    <2>3. current' = current
      BY <1>5 DEF RegisterCallback, AllGranted, SaveGranted, WriteTimeout
    <2> QED
      BY <1>4, <2>2, <2>3
  <1>6. CASE SaveCopy(t) \/ RequestTimeout(t)
    <2>1. th[t].pc = "reading" /\ th'[t].pc = "idle" /\ th'[t].key = k /\ current' = current
      BY <1>1, <1>6 DEF SaveCopy, RequestTimeout, Calls
    <2>2. CASE th[t].reply = "none"
      <3>1. Seen(t) = OneCopy!Request(k, Empty)
        BY <1>1, <2>1, <2>2 DEF Seen, OneCopy!Request, WritePCs
      <3>2. CASE SaveCopy(t)
        <4>1. th'[t].reply = "value" /\ th'[t].val = v
          BY <1>1, <2>2, <3>2 DEF SaveCopy, Reply, Calls
        <4>2. Seen(t)' = OneCopy!Answer("value", k, v)
          BY <2>1, <4>1 DEF Seen, OneCopy!Answer
        <4>3. v \in current[k]
          BY <2>1, <4>1
        <4> QED
          BY <1>1, <1>3, <2>1, <3>1, <4>2, <4>3, ReadEnds
      <3>3. CASE RequestTimeout(t)
        <4>1. th'[t].reply = "empty"
          BY <1>1, <2>2, <3>3 DEF RequestTimeout, Reply, Calls
        <4>2. Seen(t)' = OneCopy!Answer("empty", k, Empty)
          BY <2>1, <4>1 DEF Seen, OneCopy!Answer
        <4> QED
          BY <1>1, <1>3, <2>1, <3>1, <4>2, ReadEnds
      <3> QED
        BY <1>6, <3>2, <3>3
    <2>3. CASE th[t].reply # "none"
      <3>1. th'[t].reply = th[t].reply
        BY <1>1, <1>6, <2>3 DEF SaveCopy, RequestTimeout, Reply, Calls
      <3>2. Seen(t)' = Seen(t)
        BY <1>2, <2>1, <2>3, <3>1 DEF Seen
      <3> QED
        BY <1>4, <2>1, <3>2
    <2> QED
      BY <2>2, <2>3
  <1>7. CASE ReleaseLock(t)
    <2>1. th[t].pc \in {"written", "aborted"} /\ th'[t].pc = "idle" /\ th'[t].key = k
      BY <1>1, <1>7 DEF ReleaseLock, Calls
    <2>2. CASE th[t].reply = "none"
      <3>1. Seen(t) = OneCopy!Request(k, v)
        BY <1>1, <2>1, <2>2 DEF Seen, OneCopy!Request, WritePCs
      <3>2. v \in Values
        <4>1. v \in submitted[k]
          BY <2>1 DEF Provenance, CallsSubmitted, WritePCs
        <4> QED
          BY <1>1, <4>1 DEF TypeOK
      <3>3. CASE th[t].pc = "written"
        <4>1. th'[t].reply = "ok" /\ current' = [current EXCEPT ![k] = {v}]
          BY <1>1, <1>7, <2>2, <3>3 DEF ReleaseLock, Reply, Calls
        <4>2. Seen(t)' = OneCopy!Answer("ok", k, Empty)
          BY <2>1, <4>1 DEF Seen, OneCopy!Answer
        <4> QED
          BY <1>1, <1>3, <3>1, <3>2, <4>1, <4>2, WriteEnds
      <3>4. CASE th[t].pc = "aborted"
        <4>1. th'[t].reply = "error" /\ current' = current
          BY <1>1, <1>7, <2>2, <3>4 DEF ReleaseLock, Reply, Calls
        <4>2. Seen(t)' = OneCopy!Answer("error", k, Empty)
          BY <2>1, <4>1 DEF Seen, OneCopy!Answer
        <4> QED
          BY <1>1, <1>3, <3>1, <3>2, <4>1, <4>2, WriteEnds
      <3> QED
        BY <2>1, <3>3, <3>4
    <2>3. CASE th[t].reply # "none"
      <3>1. th'[t].reply = th[t].reply /\ current' = current
        BY <1>1, <1>7, <2>3 DEF ReleaseLock, Reply, Calls
      <3>2. Seen(t)' = Seen(t)
        BY <1>2, <2>1, <2>3, <3>1 DEF Seen
      <3> QED
        BY <1>4, <3>1, <3>2
    <2> QED
      BY <2>2, <2>3
  <1> QED
    BY <1>5, <1>6, <1>7

\* Messages change nothing that a client sees: callbacks belong to calls under way.
LEMMA RegisterDeliver ==
    ASSUME TypeOK, CallbacksLive, ValueEndsCall, NEW m \in net, Deliver(m)
    PROVE  UNCHANGED <<current, CallsSeen>>
  <1>1. current' = current
    BY DEF Deliver, AskData, AskDataResponse, GrantWrite, DetectConflict, WantToWriteResponse,
           ConflictReceived, DataWritten, RevalidateData, StartupData, StartupDataResponse
  <1>2. ASSUME NEW u \in Threads PROVE Seen(u)' = Seen(u)
    <2>1. th[u] \in Calls
      BY DEF TypeOK
    <2>2. CASE AskDataResponse(m)
      <3>1. CASE u \in waitingData[m.to][m.key]
        <4>1. m.to \in Servers /\ m.key \in Keys
          BY <2>2, MessageKind DEF AskDataResponse, Receive, KeyTypes, KeyMessages, TypeOK
        <4>2. th[u].pc = "reading" /\ th[u].reply # "value"
          BY <3>1, <4>1 DEF CallbacksLive, ValueEndsCall
        <4>3. th'[u] = [th[u] EXCEPT !.got = TRUE, !.val = m.data]
          BY <2>2, <3>1 DEF AskDataResponse
        <4>4. /\ th'[u].pc = th[u].pc /\ th'[u].reply = th[u].reply /\ th'[u].key = th[u].key
          BY <2>1, <4>3 DEF Calls
        <4> QED
          BY <4>2, <4>4 DEF Seen, WritePCs
      <3>2. CASE u \notin waitingData[m.to][m.key]
        BY <2>2, <3>2 DEF AskDataResponse, Seen
      <3> QED
        BY <3>1, <3>2
    <2>3. CASE DetectConflict(m) \/ ConflictReceived(m) \/ WantToWriteResponse(m)
      <3>1. \/ th'[u] = th[u]
            \/ th'[u] = [th[u] EXCEPT !.conflict = {m.from}]
            \/ th'[u] = [th[u] EXCEPT !.got = TRUE]
        BY <2>3 DEF DetectConflict, ConflictReceived, SetConflict, WantToWriteResponse
      <3>2. /\ th'[u].pc = th[u].pc /\ th'[u].reply = th[u].reply /\ th'[u].key = th[u].key
            /\ th'[u].val = th[u].val
        BY <2>1, <3>1 DEF Calls
      <3> QED
        BY <3>2 DEF Seen
    <2>4. CASE \/ AskData(m) \/ GrantWrite(m) \/ DataWritten(m) \/ RevalidateData(m)
               \/ StartupData(m) \/ StartupDataResponse(m)
      BY <2>4 DEF AskData, GrantWrite, DataWritten, RevalidateData, StartupData,
                  StartupDataResponse, Seen
    <2> QED
      BY <2>2, <2>3, <2>4 DEF Deliver
  <1> QED
    BY <1>1, <1>2 DEF CallsSeen

\* A crash ends the call that the server serves, if it serves one.
LEMMA RegisterCrash ==
    ASSUME TypeOK, ValueEndsCall, Provenance, NEW t \in Threads, Alone(t),
           NEW s \in Servers, Crash(s)
    PROVE  OneCopy!Next \/ UNCHANGED <<current, CallsSeen>>
  <1> DEFINE k == th[t].key
             v == th[t].val
             cut == th[t].srv = s /\ th[t].pc # "idle"
  <1>1. th[t] \in Calls /\ k \in Keys
    BY DEF TypeOK, Calls
  <1>2. \A u \in Threads \ {t} : th'[u] = th[u]
    BY DEF Crash, Alone
  <1>3. Seen(t)' = Seen(t) => CallsSeen' = CallsSeen
    BY <1>2, OneCallSeen DEF CallsSeen
  <1>4. \A u \in Threads : th[u].pc \in WritePCs /\ th[u].reply = "none" => u = t
    BY DEF Alone, WritePCs
  <1>5. ASSUME ~(cut /\ th[t].pc \in WritePCs /\ th[t].reply = "none")
        PROVE  current' = current
    <2>1. \A j \in Keys : current'[j] = current[j]
      BY <1>4, <1>5 DEF Crash, WritePCs
    <2>2. current \in [Keys -> SUBSET (Values \cup {Empty})] /\ current' = [j \in Keys |-> current'[j]]
      BY DEF TypeOK, Crash
    <2> QED
      BY <2>1, <2>2
  <1>6. CASE ~cut
    <2>1. th'[t] = th[t]
      BY <1>6 DEF Crash
    <2> QED
      BY <1>3, <1>5, <1>6, <2>1 DEF Seen
  <1>7. CASE cut
    <2>1. th'[t] = [th[t] EXCEPT !.pc = "idle", !.reply = Reply(th[t].reply, "error")]
      BY <1>7 DEF Crash
    <2>2. /\ th'[t].pc = "idle" /\ th'[t].reply = Reply(th[t].reply, "error")
          /\ th'[t].key = k /\ th'[t].val = v
      BY <1>1, <2>1 DEF Calls
    <2>3. CASE th[t].reply # "none"
      <3>1. Seen(t)' = Seen(t)
        BY <1>1, <2>2, <2>3 DEF Seen, Reply
      <3> QED
        BY <1>3, <1>5, <2>3, <3>1
    <2>4. CASE th[t].reply = "none"
      <3>1. Seen(t)' = OneCopy!Answer("error", k, Empty)
        BY <2>2, <2>4 DEF Seen, Reply, OneCopy!Answer
      <3>2. CASE th[t].pc \in WritePCs
        <4>1. Seen(t) = OneCopy!Request(k, v)
          BY <2>4, <3>2, <1>7 DEF Seen, OneCopy!Request
        <4>2. v \in Values
          <5>1. v \in submitted[k]
            BY <3>2 DEF Provenance, CallsSubmitted
          <5> QED
            BY <1>1, <5>1 DEF TypeOK
        <4>3. current' = [current EXCEPT ![k] = @ \cup {v}]
          <5>1. \A j \in Keys : current'[j] = IF j = k THEN current[k] \cup {v} ELSE current[j]
            <6>1. ASSUME NEW j \in Keys
                  PROVE  {u \in Threads : /\ th[u].srv = s /\ th[u].key = j
                                          /\ th[u].pc \in WritePCs /\ th[u].reply = "none"}
                         = IF j = k THEN {t} ELSE {}
              BY <1>4, <1>7, <2>4, <3>2
            <6>2. ASSUME NEW j \in Keys
                  PROVE  current'[j] = current[j] \cup
                     {th[u].val : u \in IF j = k THEN {t} ELSE {}}
              BY <6>1 DEF Crash
            <6> QED
              BY <6>2
          <5>2. current \in [Keys -> SUBSET (Values \cup {Empty})]
                /\ current' = [j \in Keys |-> current'[j]]
            BY DEF TypeOK, Crash
          <5> QED
            BY <5>1, <5>2
        <4> QED
          BY <1>1, <1>2, <3>1, <4>1, <4>2, <4>3, WriteEnds
      <3>3. CASE th[t].pc \notin WritePCs
        <4>1. Seen(t) = OneCopy!Request(k, Empty)
          BY <1>7, <2>4, <3>3 DEF Seen, OneCopy!Request
        <4>2. current' = current
          BY <1>5, <3>3
        <4> QED
          BY <1>1, <1>2, <3>1, <4>1, <4>2, ReadEnds
      <3> QED
        BY <3>2, <3>3
    <2> QED
      BY <2>3, <2>4
  <1> QED
    BY <1>6, <1>7

\* In the environments of Sequential the thread of the client is alone.
LEMMA SequentialAlone ==
    ASSUME ChangedInv, Sequential
    PROVE  \E t \in Threads : Caller(t) /\ Alone(t)
  <1>1. TypeOK /\ VisitedInv /\ StableInv /\ LoneInv /\ OneClient
    BY DEF ChangedInv, VisitedInv, StableInv, LoneInv, Sequential
  <1>2. PICK t \in Threads : env.threads = {t}
    BY <1>1, ClientThread
  <1>3. Caller(t)
    BY <1>1, <1>2 DEF OneClient, Caller
  <1>4. CASE Stable
    <2>1. Lone(t)
      BY <1>3, <1>4 DEF Lone
    <2> QED
      BY <1>1, <1>3, <2>1 DEF LoneInv, ClientInv
  <1>5. CASE OneGuest
    <2>1. PICK u \in Threads, g \in Servers : env.threads = {u} /\ Visits(u, g)
      BY <1>1, <1>5, OneVisitor
    <2>2. Alone(u) /\ u = t
      BY <1>1, <1>2, <2>1 DEF LoneInv, Visits, ClientInv
    <2> QED
      BY <1>3, <2>2
  <1>6. CASE OneChange
    <2>1. Disturbed(t)
      BY <1>3, <1>6 DEF OneChange, Disturbed
    <2>2. ChangeInv(t)
      BY <2>1 DEF ChangedInv
    <2> QED
      BY <1>3, <2>2 DEF ChangeInv, Before, Meanwhile, After, ClientInv, FreshInv
  <1> QED
    BY <1>4, <1>5, <1>6 DEF Sequential

\* Every step of the servers is a step of the register, or none.
LEMMA RegisterStep ==
    ASSUME ProvenanceInv, ChangedInv, ValueEndsCall', ReadsAreFresh', [Next]_vars
    PROVE  [Sequential => OneCopy!Next]_<<current, CallsSeen>>
  <1> SUFFICES ASSUME Sequential
               PROVE  OneCopy!Next \/ UNCHANGED <<current, CallsSeen>>
    OBVIOUS
  <1>1. TypeOK /\ CallbacksLive /\ ValueEndsCall /\ Provenance
    BY DEF ProvenanceInv
  <1>2. PICK t \in Threads : Caller(t) /\ Alone(t)
    BY SequentialAlone
  <1>3. ASSUME NEW u \in Threads, th'[u].reply = "value"
        PROVE  th'[u].val \in current'[th'[u].key]
    <2>1. Sequential'
      BY EnvStays DEF Sequential, OneClient, Stable, OneGuest, OneChange
    <2>2. th'[u].pc = "idle"
      BY <1>3 DEF ValueEndsCall
    <2> QED
      BY <1>3, <2>1, <2>2 DEF ReadsAreFresh
  <1>4. ASSUME NEW u \in Threads, Call(u) PROVE OneCopy!Next
    BY <1>1, <1>3, <1>4, RegisterCall
  <1>5. ASSUME NEW u \in Threads, Work(u)
        PROVE  OneCopy!Next \/ UNCHANGED <<current, CallsSeen>>
    <2>1. \/ RegisterCallback(t) \/ SaveCopy(t) \/ RequestTimeout(t)
          \/ AllGranted(t) \/ SaveGranted(t) \/ WriteTimeout(t) \/ ReleaseLock(t)
      BY <1>1, <1>2, <1>5, AloneWorks
    <2> QED
      BY <1>1, <1>3, <2>1, RegisterWork
  <1>6. ASSUME Listen PROVE UNCHANGED <<current, CallsSeen>>
    BY <1>1, <1>6, RegisterDeliver DEF Listen
  <1>7. ASSUME NEW s \in Servers, Crash(s)
        PROVE  OneCopy!Next \/ UNCHANGED <<current, CallsSeen>>
    BY <1>1, <1>2, <1>7, RegisterCrash
  <1>8. CASE (\E s \in Servers : Notice(s) \/ Join(s)) \/ ServiceJoins \/ ServiceLeaves
             \/ UNCHANGED vars
    <2>1. th' = th /\ current' = current
      BY <1>8 DEF Notice, UpdateNumberOfParticipants, CheckStartup, Join, ServiceJoins,
                  ServiceLeaves, vars
    <2> QED
      BY <2>1 DEF CallsSeen, Seen
  <1> QED
    BY <1>4, <1>5, <1>6, <1>7, <1>8 DEF Next

\* At the start no client has called and nothing has been written.
LEMMA RegisterInit ==
    ASSUME Init
    PROVE  OneCopy!Init
  <1>1. TypeOK
    BY TypeInit
  <1>2. \A t \in Threads : Seen(t) = OneCopy!Answer("idle", th[t].key, Empty) /\ th[t].key \in Keys
    BY <1>1 DEF Init, Seen, OneCopy!Answer, TypeOK, Calls, WritePCs
  <1>3. CallsSeen \in [Threads -> {OneCopy!Answer("idle", k, Empty) : k \in Keys}]
    BY <1>2 DEF CallsSeen
  <1>4. current = [k \in Keys |-> {}]
    BY DEF Init
  <1> QED
    BY <1>3, <1>4 DEF OneCopy!Init

\* The servers are one register to a client that makes one call at a time: every step
\* of handler threads, listeners, messages, timeouts, membership changes and crashes
\* is a step of Register or one that the client does not see, for any number of
\* servers, keys, values and calls (ClientService.read and write).
THEOREM RegisterImplemented == Spec => ImplementsRegister
  <1>1. Spec => []ProvenanceInv
    BY ProvenanceInit, ProvenanceStep, PTL DEF Spec
  <1>2. ProvenanceInv => ValueEndsCall
    BY DEF ProvenanceInv
  <1>3. Init => OneCopy!Init
    BY RegisterInit
  <1>4. ProvenanceInv /\ ChangedInv /\ ValueEndsCall' /\ ReadsAreFresh' /\ [Next]_vars
        => [Sequential => OneCopy!Next]_<<current, CallsSeen>>
    BY RegisterStep
  <1> QED
    BY <1>1, <1>2, <1>3, <1>4, ChangedInvCorrect, ReadsAreFreshCorrect, PTL
       DEF Spec, ImplementsRegister
=============================================================================
