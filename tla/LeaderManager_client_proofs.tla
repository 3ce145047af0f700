--------------------- MODULE LeaderManager_client_proofs ---------------------
(***************************************************************************)
(* Proofs about LeaderManager where one client calls, one call at a time,  *)
(* and the group changes only between its calls, or not at all: for every  *)
(* set of servers, keys and values, any number of calls, and timeouts that *)
(* come at any moment.                                                     *)
(***************************************************************************)
EXTENDS LeaderManager_proofs

----------------------------------------------------------------------------
(* The group and the messages around the call of thread t.                 *)

\* One client, whose calls thread t serves.
Caller(t) == env.quiet /\ env.threads = {t}

\* The group is left alone meanwhile.
Lone(t) ==
    /\ Caller(t)
    /\ Stable \/ (env.orderly /\ Service \notin env.unstable)

\* The others of the group.
Rest(t) == (members \cap Servers) \ {th[t].srv}

\* No other thread has ever had a call, and the call of t meets no other.
Alone(t) == /\ \A u \in Threads \ {t} : th[u].pc = "idle" /\ th[u].reply = "none"
            /\ th[t].conflict = {}

\* Every server of the group knows how many they are, or is about to be told.
GroupKnown ==
    /\ Service \in members
    /\ \A s \in Servers :
          /\ views[s] # <<>> => /\ s \in members /\ Tail(views[s]) = <<>>
                                /\ Head(views[s]).members = members
          /\ views[s] = <<>> /\ s \in members => participants[s] = Cardinality(members)

\* A call is served by a server of the group, and nothing of an earlier change of
\* the group is still on its way.
Busy(t) ==
    th[t].pc # "idle" => /\ th[t].srv \in members
                         /\ \A s \in Servers : views[s] = <<>>
                         /\ \A m \in net : m.type \in KeyTypes

\* What is on its way about a key is from the last call: a message of its server to
\* the others, or an answer.
Sent(t, m) ==
    /\ m.type \in {"AskData", "WantToWrite", "DataWritten", "RevalidateData"}
    /\ m.from = th[t].srv /\ m.to \in Rest(t) /\ m.data = Empty
Answer(t, m) ==
    /\ m.type \in {"AskDataResponse", "WantToWriteResponse"}
    /\ m.to = th[t].srv /\ m.from \in Rest(t)
    /\ m.type = "WantToWriteResponse" => m.data = Empty
Traffic(t) ==
    \A m \in net : m.type \in KeyTypes =>
        m.key = th[t].key /\ m.op = th[t].op /\ (Sent(t, m) \/ Answer(t, m))

\* the others that have not been asked yet, and those whose answer is on its way
Unasked(t)  == {r \in Rest(t) : \E m \in net : m.type = "WantToWrite" /\ m.to = r}
Answering(t) == {r \in Rest(t) : \E m \in net : m.type = "WantToWriteResponse" /\ m.from = r}
Answered(t) == Rest(t) \ (Unasked(t) \cup Answering(t))

\* While the writer waits, every response it has counted is of another server that
\* has invalidated its replica, and once it has enough all of them have.
Counting(t) ==
    th[t].pc \in {"writing", "granted"} =>
        /\ \A m \in net : m.type \in {"WantToWrite", "WantToWriteResponse"}
        /\ Unasked(t) \cap Answering(t) = {}
        /\ \A r \in Rest(t) \ Unasked(t) : ~Valid(r, th[t].key)
        /\ wantToWrite[th[t].srv][th[t].key].received <= Cardinality(Answered(t))
        /\ th[t].got \/ th[t].pc = "granted" => Unasked(t) = {}

ClientInv(t) == Alone(t) /\ GroupKnown /\ Busy(t) /\ Traffic(t) /\ Counting(t)

----------------------------------------------------------------------------
(* The values around the call of thread t, in a group that does not change. *)

\* The type of the messages fits the call, and nobody waits for its startup where
\* there are others to ask.
Kinds(t) ==
    /\ \A s \in Servers : views[s] = <<>>
    /\ \A m \in net :
          /\ m.type \in KeyTypes
          /\ th[t].pc \in {"asked", "reading"} => m.type \in {"AskData", "AskDataResponse"}
          /\ th[t].pc \in WritePCs => m.type \notin {"AskData", "AskDataResponse"}
    /\ \A m, n \in net : ~(m.type = "DataWritten" /\ n.type = "RevalidateData")
    /\ \A s \in members \cap Servers : participants[s] # 2 => ~waitStartup[s]
    /\ th[t].pc \in WritePCs => th[t].reply = "none"
    /\ th[t].pc # "idle" => th[t].reply # "value"

\* the value of key k that a replica may have: as soon as it is saved, the new one
Current(t, k) == IF th[t].pc = "written" /\ th[t].key = k THEN {th[t].val} ELSE current[k]
\* a server that has not heard yet that the key was written
Dirty(r, k) == \E m \in net : m.type = "DataWritten" /\ m.to = r /\ m.key = k

\* A valid replica has the current value, and so has an invalid one unless it will be
\* deleted, except at the servers X; and so have the answers to a reader, and the reader.
OneValue(k) == \A v, w \in current[k] : v = w
Replicas(t, X) ==
    \A r \in members \cap Servers, k \in Keys :
        /\ Valid(r, k) => ~Dirty(r, k) /\ db[r][k].data \in Current(t, k)
        /\ Present(r, k) /\ ~Dirty(r, k) /\ r \notin X => db[r][k].data \in Current(t, k)
Answers(t) ==
    /\ \A m \in net : m.type = "AskDataResponse" => m.data \in current[m.key]
    /\ th[t].pc \in {"asked", "reading"} /\ th[t].got => th[t].val \in current[th[t].key]
    /\ th[t].pc = "idle" /\ th[t].reply = "value" => th[t].val \in current[th[t].key]

\* Nobody tells the servers X to make a row valid again.
Spared(X) == \A m \in net : m.type = "RevalidateData" => m.to \notin X

ValueInv(t, X) == Kinds(t) /\ (\A k \in Keys : OneValue(k)) /\ Replicas(t, X) /\ Answers(t)

----------------------------------------------------------------------------
(* Nothing is lost, where the timeout is patient and everybody answers.    *)

\* The count is exact, so that a write does not end with a timeout.
Exact(t) ==
    /\ \A m \in net : /\ m.type # "RevalidateData"
                      /\ m.type = "WantToWrite" => th[t].pc = "writing"
    /\ th[t].pc # "aborted"
    /\ th[t].pc = "writing" =>
          /\ wantToWrite[th[t].srv][th[t].key].holder = {t}
          /\ wantToWrite[th[t].srv][th[t].key].received = Cardinality(Answered(t))
          /\ Rest(t) # {}
          /\ Answered(t) = Rest(t) => th[t].got

\* A replica is invalid only while its key is written, or until it hears that it was.
Repaired(t) ==
    \A r \in Servers, k \in Keys :
        /\ Present(r, k) => r \in members
        /\ db[r][k].status = "invalid" =>
              Dirty(r, k) \/ (th[t].key = k /\ th[t].pc \in {"writing", "granted"})

\* A value that was acknowledged is somewhere, unless a new one is under way.
Found(t) ==
    /\ th[t].pc = "written" =>
          Valid(th[t].srv, th[t].key) /\ db[th[t].srv][th[t].key].data = th[t].val
    /\ \A k \in Keys : current[k] # {} =>
          \/ \E r \in Servers : Valid(r, k) /\ db[r][k].data \in current[k]
          \/ th[t].key = k /\ th[t].pc \in {"writing", "granted", "written"}

KeepInv(t) == Exact(t) /\ Repaired(t) /\ Found(t)

----------------------------------------------------------------------------
(* Facts about sets of servers and messages.                               *)

\* Servers can be counted.
LEMMA ServerSets ==
    ASSUME NEW S \in SUBSET Servers, NEW T \in SUBSET S
    PROVE  /\ IsFiniteSet(S) /\ Cardinality(S) \in Nat /\ Cardinality(T) \in Nat
           /\ Cardinality(T) <= Cardinality(S)
           /\ Cardinality(T) = Cardinality(S) => T = S
           /\ \A r \in S \ T : Cardinality(T \cup {r}) = Cardinality(T) + 1
  <1>1. IsFiniteSet(S)
    BY ConstantAssumption, FS_Subset
  <1>2. IsFiniteSet(T) /\ Cardinality(T) <= Cardinality(S)
        /\ (Cardinality(T) = Cardinality(S) => T = S)
    BY <1>1, FS_Subset
  <1>3. Cardinality(S) \in Nat /\ Cardinality(T) \in Nat
    BY <1>1, <1>2, FS_CardinalityType
  <1>4. \A r \in S \ T : Cardinality(T \cup {r}) = Cardinality(T) + 1
    BY <1>2, FS_AddElement
  <1> QED
    BY <1>1, <1>2, <1>3, <1>4

\* Of the group, the writer and the configuration service do not answer.
LEMMA GroupSize ==
    ASSUME TypeOK, NEW s \in members \cap Servers, Service \in members
    PROVE  /\ Cardinality((members \cap Servers) \ {s}) = Cardinality(members) - 2
           /\ Cardinality(members) \in Nat
  <1> DEFINE M == members \cap Servers
  <1>1. members \subseteq Servers \cup {Service} /\ Service \notin Servers
    BY ConstantAssumption DEF TypeOK
  <1>2. M \in SUBSET Servers
    OBVIOUS
  <1>3. IsFiniteSet(M) /\ Cardinality(M) \in Nat
    BY <1>2, ServerSets
  <1>4. Cardinality(M \ {s}) = Cardinality(M) - 1
    BY <1>3, FS_RemoveElement
  <1>5. members = M \cup {Service} /\ Service \notin M
    BY <1>1
  <1>6. Cardinality(members) = Cardinality(M) + 1
    BY <1>3, <1>5, FS_AddElement
  <1> QED
    BY <1>3, <1>4, <1>6

\* A message about a key is its fields.
LEMMA SameMessage ==
    ASSUME NEW m \in KeyMessages, NEW n \in KeyMessages,
           m.type = n.type, m.from = n.from, m.to = n.to, m.key = n.key, m.data = n.data,
           m.op = n.op
    PROVE  m = n
  BY DEF KeyMessages

\* What a group message is.
LEMMA InMulticast ==
    ASSUME NEW s, NEW type, NEW k, NEW op, NEW m \in Multicast(s, type, k, op)
    PROVE  /\ m.type = type /\ m.from = s /\ m.to \in (members \cap Servers) \ {s}
           /\ m.key = k /\ m.data = Empty /\ m.op = op
  BY DEF Multicast

\* What a private message is.
LEMMA InUnicast ==
    ASSUME NEW s, NEW type, NEW r, NEW k, NEW data, NEW op, NEW m \in Unicast(s, type, r, k, data, op)
    PROVE  m.type = type /\ m.from = s /\ m.to = r /\ m.key = k /\ m.data = data /\ m.op = op
  BY DEF Unicast

\* A startup message is about no key.
LEMMA InStartupUnicast ==
    ASSUME NEW s, NEW type \in {"StartupRequestUpdate", "StartupResponseUpdate"}, NEW r,
           NEW rows, NEW op, NEW m \in StartupUnicast(s, type, r, rows, op)
    PROVE  m.type \notin KeyTypes
  BY DEF StartupUnicast, KeyTypes

----------------------------------------------------------------------------
(* The group and the messages: how a step may change them.                 *)

\* The environment is for ever.
LEMMA EnvStays ==
    ASSUME [Next]_vars
    PROVE  env' = env
  <1>1. ASSUME NEW t \in Threads, Call(t) PROVE env' = env
    BY <1>1 DEF Call, ReadLocal, ReadInvalid, AskGroup, WriteAlone, SendWantToWrite, group
  <1>2. ASSUME NEW t \in Threads, Work(t) PROVE env' = env
    BY <1>2 DEF Work, RegisterCallback, SaveCopy, RequestTimeout, AllGranted, SaveGranted,
                WriteTimeout, WinConflict, LoseConflict, ReleaseLock, group
  <1>3. ASSUME NEW m \in net, Deliver(m) PROVE env' = env
    BY <1>3 DEF Deliver, AskData, AskDataResponse, GrantWrite, DetectConflict,
                WantToWriteResponse, ConflictReceived, DataWritten, RevalidateData,
                StartupData, StartupDataResponse, group
  <1>4. CASE (\E s \in Servers : Notice(s) \/ Join(s) \/ Crash(s))
             \/ ServiceJoins \/ ServiceLeaves \/ UNCHANGED vars
    BY <1>4 DEF Notice, UpdateNumberOfParticipants, CheckStartup, Join, Crash, ServiceJoins,
                ServiceLeaves, Regroup, vars, group
  <1> QED
    BY <1>1, <1>2, <1>3, <1>4 DEF Next, Listen

\* Only the thread of the client has calls, and it is alone in the tables.
LEMMA OnlyThread ==
    ASSUME TypeOK, CallbacksLive, NEW t \in Threads, Caller(t), Alone(t)
    PROVE  /\ \A u \in Threads : u \in env.threads \/ th[u].pc # "idle" => u = t
           /\ \A s \in Servers, k \in Keys :
                 /\ waitingData[s][k] \subseteq {t} /\ wantToWrite[s][k].holder \subseteq {t}
                 /\ waitingData[s][k] # {} => /\ s = th[t].srv /\ k = th[t].key
                                              /\ th[t].pc = "reading"
                 /\ wantToWrite[s][k].holder # {} => /\ s = th[t].srv /\ k = th[t].key
                                                     /\ th[t].pc \in WritePCs
  <1>1. \A u \in Threads : u \in env.threads \/ th[u].pc # "idle" => u = t
    BY DEF Caller, Alone
  <1>2. ASSUME NEW s \in Servers, NEW k \in Keys
        PROVE  /\ waitingData[s][k] \subseteq {t} /\ wantToWrite[s][k].holder \subseteq {t}
               /\ waitingData[s][k] # {} => /\ s = th[t].srv /\ k = th[t].key
                                            /\ th[t].pc = "reading"
               /\ wantToWrite[s][k].holder # {} => /\ s = th[t].srv /\ k = th[t].key
                                                   /\ th[t].pc \in WritePCs
    <2>1. waitingData[s][k] \subseteq Threads /\ wantToWrite[s][k].holder \subseteq Threads
      BY TablesHoldThreads
    <2>2. \A u \in waitingData[s][k] : u = t /\ Serves(u, s, k) /\ th[u].pc = "reading"
      BY <1>1, <2>1 DEF CallbacksLive
    <2>3. \A u \in wantToWrite[s][k].holder : u = t /\ Serves(u, s, k) /\ th[u].pc \in WritePCs
      BY <1>1, <2>1 DEF CallbacksLive, WritePCs
    <2> QED
      BY <2>2, <2>3 DEF Serves
  <1> QED
    BY <1>1, <1>2

\* The same of the invariant.
LEMMA OnlyCaller ==
    ASSUME TypeOK, CallbacksLive, NEW t \in Threads, Caller(t), ClientInv(t)
    PROVE  /\ \A u \in Threads : u \in env.threads \/ th[u].pc # "idle" => u = t
           /\ \A s \in Servers, k \in Keys :
                 /\ waitingData[s][k] \subseteq {t} /\ wantToWrite[s][k].holder \subseteq {t}
                 /\ waitingData[s][k] # {} => /\ s = th[t].srv /\ k = th[t].key
                                              /\ th[t].pc = "reading"
                 /\ wantToWrite[s][k].holder # {} => /\ s = th[t].srv /\ k = th[t].key
                                                     /\ th[t].pc \in WritePCs
  BY OnlyThread DEF ClientInv

\* Where the group stays and its servers have been told, the server of the call stays
\* and no message other than of the call comes up, only the count is left to prove.
LEMMA CallGoesOn ==
    ASSUME TypeOK, NEW t \in Threads, ClientInv(t), UNCHANGED <<members, views, participants>>,
           \A u \in Threads \ {t} : th'[u] = th[u],
           th'[t].conflict = {},
           th'[t].srv = th[t].srv, th'[t].key = th[t].key, th'[t].op = th[t].op,
           th'[t].pc # "idle" => th[t].pc # "idle",
           \A m \in net' \ net :
              m.type \in KeyTypes => /\ m.key = th[t].key /\ m.op = th[t].op
                                     /\ (Sent(t, m) \/ Answer(t, m)),
           th[t].pc # "idle" => \A m \in net' \ net : m.type \in KeyTypes,
           Counting(t)'
    PROVE  ClientInv(t)'
  <1>1. Alone(t)' /\ GroupKnown'
    BY DEF ClientInv, Alone, GroupKnown
  <1>2. Busy(t)'
    BY DEF ClientInv, Busy
  <1>3. Traffic(t)'
    BY DEF ClientInv, Traffic, Sent, Answer, Rest
  <1> QED
    BY <1>1, <1>2, <1>3 DEF ClientInv

\* The group changes between calls only.
LEMMA ChangeIsSettled ==
    ASSUME TypeOK, NEW t \in Threads, Lone(t), NEW x, NEW m, NEW cause, Regroup(x, m, cause)
    PROVE  Settled /\ x # Service
  <1>1. ~Stable
    BY DEF Regroup, Stable, TypeOK
  <1> QED
    BY <1>1 DEF Lone, Regroup

\* Members come and go: where nothing of an earlier change is on its way, each is told
\* of the new group.
LEMMA GroupTold ==
    ASSUME TypeOK, NEW x, NEW m, NEW cause, Regroup(x, m, cause), Service \in m,
           \A s \in Servers : views[s] = <<>>
    PROVE  GroupKnown'
  <1> DEFINE v == [members |-> m, cause |-> cause, id |-> changes + 1]
  <1>1. members' = m /\ views' = [s \in Servers |-> IF s \in m THEN Append(views[s], v) ELSE <<>>]
    BY DEF Regroup
  <1>2. v.members = m
    OBVIOUS
  <1> HIDE DEF v
  <1>3. ASSUME NEW s \in Servers
        PROVE  /\ views'[s] # <<>> => /\ s \in members' /\ Tail(views'[s]) = <<>>
                                      /\ Head(views'[s]).members = members'
               /\ s \in members' => views'[s] # <<>>
    <2>1. CASE s \in m
      <3>1. views'[s] = Append(<<>>, v)
        BY <1>1, <2>1
      <3>2. views'[s] = <<v>>
        BY <3>1
      <3> QED
        BY <1>1, <1>2, <2>1, <3>2
    <2>2. CASE s \notin m
      BY <1>1, <2>2
    <2> QED
      BY <2>1, <2>2
  <1> QED
    BY <1>1, <1>3 DEF GroupKnown

\* The call of the client is over by then.
LEMMA ClientGroup ==
    ASSUME TypeOK, NEW t \in Threads, Lone(t), ClientInv(t),
           NEW x, NEW m, NEW cause, Regroup(x, m, cause),
           Service \in m, net' \subseteq net, th' = th
    PROVE  ClientInv(t)'
  <1>1. Settled
    BY ChangeIsSettled
  <1>2. net' = {} /\ th[t].pc = "idle" /\ \A s \in Servers : views[s] = <<>>
    BY <1>1 DEF Settled
  <1>3. Alone(t)' /\ Busy(t)' /\ Traffic(t)' /\ Counting(t)'
    BY <1>2 DEF ClientInv, Alone, Busy, Traffic, Counting
  <1> QED
    BY <1>2, <1>3, GroupTold DEF ClientInv

\* A server is told of the group, and no message about a key comes of it.
LEMMA GroupNoticed ==
    ASSUME TypeOK, GroupKnown, NEW s \in Servers, Notice(s)
    PROVE  /\ NextView(s) /\ UNCHANGED <<members, th, wantToWrite>>
           /\ views[s] # <<>> /\ s \in members
           /\ net \subseteq net' /\ \A m \in net' \ net : m.type \notin KeyTypes
           /\ GroupKnown'
  <1>1. NextView(s) /\ UNCHANGED <<members, th, wantToWrite>>
    BY DEF Notice, UpdateNumberOfParticipants, CheckStartup
  <1>2. views[s] # <<>> /\ s \in members /\ Tail(views[s]) = <<>> /\ Head(views[s]).members = members
    BY <1>1 DEF NextView, GroupKnown
  <1>3. net \subseteq net' /\ \A m \in net' \ net : m.type \notin KeyTypes
    <2>1. CASE UpdateNumberOfParticipants(s)
      BY <2>1 DEF UpdateNumberOfParticipants
    <2>2. CASE CheckStartup(s)
      BY <2>2, InStartupUnicast DEF CheckStartup
    <2> QED
      BY <2>1, <2>2 DEF Notice
  <1>4. GroupKnown'
    <2>1. views' = [views EXCEPT ![s] = Tail(@)]
          /\ participants' = [participants EXCEPT ![s] = Cardinality(members)]
      BY <1>1, <1>2 DEF NextView
    <2>2. /\ views'[s] = <<>> /\ participants'[s] = Cardinality(members)
          /\ \A r \in Servers \ {s} : views'[r] = views[r] /\ participants'[r] = participants[r]
      BY <1>2, <2>1 DEF TypeOK
    <2> QED
      BY <1>1, <2>2 DEF GroupKnown
  <1> QED
    BY <1>1, <1>2, <1>3, <1>4

\* A server is told of the group.
LEMMA ClientNotice ==
    ASSUME TypeOK, NEW t \in Threads, Caller(t), ClientInv(t), NEW s \in Servers, Notice(s)
    PROVE  ClientInv(t)'
  <1>1. /\ UNCHANGED <<members, th, wantToWrite>> /\ views[s] # <<>> /\ GroupKnown'
        /\ \A m \in net' \ net : m.type \notin KeyTypes
    BY GroupNoticed DEF ClientInv
  <1>2. th[t].pc = "idle"
    BY <1>1 DEF ClientInv, Busy
  <1>3. Alone(t)' /\ Busy(t)' /\ Counting(t)'
    BY <1>1, <1>2 DEF ClientInv, Alone, Busy, Counting
  <1>4. Traffic(t)'
    BY <1>1 DEF ClientInv, Traffic, Sent, Answer, Rest
  <1> QED
    BY <1>1, <1>3, <1>4 DEF ClientInv

\* What holds when the client calls, and of the call.
LEMMA Arrival ==
    ASSUME TypeOK, CallbacksLive, NEW t \in Threads, Caller(t), ClientInv(t),
           NEW u \in Threads, NEW s \in Servers, Arrives(u, s)
    PROVE  /\ u = t /\ net = {} /\ s \in members /\ th[t].pc = "idle"
           /\ \A r \in Servers : views[r] = <<>>
           /\ participants[s] = Cardinality(members)
  <1>1. u = t
    BY OnlyCaller DEF Arrives
  <1>2. net = {} /\ s \in members /\ th[t].pc = "idle" /\ \A r \in Servers : views[r] = <<>>
    BY <1>1 DEF Arrives, Calm, Lone, Caller
  <1>3. participants[s] = Cardinality(members)
    BY <1>2 DEF ClientInv, GroupKnown
  <1> QED
    BY <1>1, <1>2, <1>3

\* When a writer has just asked, nobody has answered.
LEMMA AllUnasked ==
    ASSUME NEW t \in Threads, NEW k, NEW op, members' = members,
           net' = Multicast(th'[t].srv, "WantToWrite", k, op)
    PROVE  /\ Unasked(t)' = Rest(t)' /\ Answering(t)' = {}
           /\ Answered(t)' = {} /\ Cardinality(Answered(t)') = 0
  <1>1. \A m \in net' : m.type = "WantToWrite"
    BY InMulticast
  <1>2. ASSUME NEW r \in Rest(t)' PROVE \E m \in net' : m.type = "WantToWrite" /\ m.to = r
    <2> DEFINE m == [type |-> "WantToWrite", from |-> th'[t].srv, to |-> r, key |-> k,
                     data |-> Empty, op |-> op]
    <2>1. m \in net' /\ m.type = "WantToWrite" /\ m.to = r
      BY DEF Multicast, Rest
    <2> QED
      BY <2>1
  <1>3. Unasked(t)' = Rest(t)' /\ Answering(t)' = {}
    BY <1>1, <1>2 DEF Unasked, Answering
  <1>4. Answered(t)' = {}
    BY <1>3 DEF Answered
  <1> QED
    BY <1>3, <1>4, FS_EmptySet

\* A call arrives.
LEMMA ClientCall ==
    ASSUME TypeOK, CallbacksLive, NEW t \in Threads, Caller(t), ClientInv(t),
           NEW u \in Threads, Call(u)
    PROVE  ClientInv(t)'
  <1>1. PICK s \in Servers, k \in Keys :
          \/ ReadLocal(u, s, k)
          \/ ReadInvalid(u, s, k)
          \/ AskGroup(u, s, k)
          \/ \E v \in Values : WriteAlone(u, s, k, v) \/ SendWantToWrite(u, s, k, v)
    BY DEF Call
  <1>2. Arrives(u, s)
    BY <1>1 DEF ReadLocal, ReadInvalid, AskGroup, WriteAlone, SendWantToWrite
  <1>3. /\ u = t /\ net = {} /\ s \in members /\ th[t].pc = "idle"
        /\ \A r \in Servers : views[r] = <<>>
    BY <1>2, Arrival
  <1>4. UNCHANGED <<members, views, participants>>
    BY <1>1 DEF ReadLocal, ReadInvalid, AskGroup, WriteAlone, SendWantToWrite, group, server
  <1>5. PICK pc \in {"idle", "asked", "writing"}, v \in Values \cup {Empty} :
          /\ \E reply : th' = [th EXCEPT ![t] = NewCall(pc, s, k, v, reply)]
          /\ (pc = "writing" => SendWantToWrite(t, s, k, v))
    <2>1. CASE ReadLocal(u, s, k)
      <3>1. db[s][k].data \in Values \cup {Empty}
        BY DEF TypeOK, Rows
      <3> QED
        BY <1>3, <2>1, <3>1 DEF ReadLocal
    <2>2. CASE ReadInvalid(u, s, k) \/ AskGroup(u, s, k)
      BY <1>3, <2>2 DEF ReadInvalid, AskGroup
    <2>3. CASE \E v \in Values : WriteAlone(u, s, k, v)
      BY <1>3, <2>3 DEF WriteAlone
    <2>4. CASE \E v \in Values : SendWantToWrite(u, s, k, v)
      <3>1. PICK v \in Values : SendWantToWrite(t, s, k, v)
        BY <1>3, <2>4
      <3> QED
        BY <3>1 DEF SendWantToWrite
    <2> QED
      BY <1>1, <2>1, <2>2, <2>3, <2>4
  <1>6. /\ \A x \in Threads \ {t} : th'[x] = th[x]
        /\ th'[t].srv = s /\ th'[t].key = k /\ th'[t].op = ops + 1 /\ th'[t].conflict = {}
        /\ th'[t].pc = pc /\ ~th'[t].got
    BY <1>5 DEF TypeOK, NewCall
  <1>7. \E type \in {"AskData", "WantToWrite"} : net' \subseteq Multicast(s, type, k, ops + 1)
    BY <1>1, <1>3 DEF ReadLocal, ReadInvalid, AskGroup, WriteAlone, SendWantToWrite
  <1>8. \A m \in net' : m.type \in {"AskData", "WantToWrite"} /\ m.key = k /\ m.op = ops + 1
                         /\ m.data = Empty /\ m.from = s /\ m.to \in (members \cap Servers) \ {s}
    BY <1>7, InMulticast
  <1>9. Alone(t)' /\ GroupKnown' /\ Busy(t)'
    BY <1>3, <1>4, <1>6, <1>8 DEF ClientInv, Alone, GroupKnown, Busy, KeyTypes
  <1>10. Traffic(t)'
    BY <1>4, <1>6, <1>8 DEF Traffic, Sent, Answer, Rest
  <1>11. Counting(t)'
    <2> SUFFICES ASSUME th'[t].pc \in {"writing", "granted"} PROVE Counting(t)'
      BY DEF Counting
    <2>1. SendWantToWrite(t, s, k, v)
      BY <1>5, <1>6
    <2>2. net' = Multicast(s, "WantToWrite", k, ops + 1)
      BY <1>3, <2>1 DEF SendWantToWrite
    <2>3. \A m \in net' : m.type = "WantToWrite"
      BY <2>2, InMulticast
    <2>5. /\ Unasked(t)' = Rest(t)' /\ Answering(t)' = {}
          /\ Cardinality(Answered(t)') = 0
      BY <1>4, <1>6, <2>2, AllUnasked
    <2>6. wantToWrite'[s][k].received = 0
      BY <2>1 DEF SendWantToWrite, TypeOK
    <2>8. wantToWrite'[th'[t].srv][th'[t].key].received <= Cardinality(Answered(t)')
      BY <1>6, <2>5, <2>6
    <2> QED
      BY <1>5, <1>6, <2>3, <2>5, <2>8 DEF Counting
  <1> QED
    BY <1>9, <1>10, <1>11 DEF ClientInv

\* What a thread does on its own: the thread is the client's, it meets no conflict,
\* its call stays the same, and it tells the others at most that it has written or
\* that it gave up.
LEMMA AloneWorks ==
    ASSUME TypeOK, CallbacksLive, NEW t \in Threads, Caller(t), Alone(t),
           NEW u \in Threads, Work(u)
    PROVE  /\ u = t /\ th[t].pc # "idle"
           /\ \/ RegisterCallback(t) \/ SaveCopy(t) \/ RequestTimeout(t)
              \/ AllGranted(t) \/ SaveGranted(t) \/ WriteTimeout(t) \/ ReleaseLock(t)
           /\ UNCHANGED <<members, views, participants>>
           /\ \A x \in Threads \ {t} : th'[x] = th[x]
           /\ th'[t].srv = th[t].srv /\ th'[t].key = th[t].key /\ th'[t].op = th[t].op
           /\ th'[t].conflict = th[t].conflict /\ th'[t].got = th[t].got
           /\ \A m \in net' \ net :
                 /\ m.type \in {"DataWritten", "RevalidateData"}
                 /\ m.key = th[t].key /\ m.op = th[t].op /\ Sent(t, m)
  <1>1. th[u].pc # "idle"
    BY DEF Work, RegisterCallback, SaveCopy, RequestTimeout, AllGranted, SaveGranted,
           WriteTimeout, WinConflict, LoseConflict, ReleaseLock
  <1>2. u = t
    BY <1>1, OnlyThread
  <1>3. ~WinConflict(t) /\ ~LoseConflict(t)
    BY DEF Alone, WinConflict, LoseConflict
  <1>4. \/ RegisterCallback(t) \/ SaveCopy(t) \/ RequestTimeout(t)
        \/ AllGranted(t) \/ SaveGranted(t) \/ WriteTimeout(t) \/ ReleaseLock(t)
    BY <1>2, <1>3 DEF Work
  <1>5. UNCHANGED <<members, views, participants>>
    BY <1>4 DEF RegisterCallback, SaveCopy, RequestTimeout, AllGranted, SaveGranted,
                WriteTimeout, ReleaseLock, group, server
  <1>6. /\ \A x \in Threads \ {t} : th'[x] = th[x]
        /\ th'[t].srv = th[t].srv /\ th'[t].key = th[t].key /\ th'[t].op = th[t].op
        /\ th'[t].conflict = th[t].conflict /\ th'[t].got = th[t].got
    <2>1. th \in [Threads -> Calls]
      BY DEF TypeOK
    <2>2. CASE RegisterCallback(t) \/ AllGranted(t) \/ SaveGranted(t) \/ WriteTimeout(t)
      BY <2>1, <2>2 DEF RegisterCallback, AllGranted, SaveGranted, SaveDataLocally, WriteTimeout,
                        Calls
    <2>3. CASE SaveCopy(t) \/ RequestTimeout(t) \/ ReleaseLock(t)
      BY <2>1, <2>3 DEF SaveCopy, RequestTimeout, ReleaseLock, Calls
    <2> QED
      BY <1>4, <2>2, <2>3
  <1>7. ASSUME NEW m \in net' \ net
        PROVE  /\ m.type \in {"DataWritten", "RevalidateData"}
               /\ m.key = th[t].key /\ m.op = th[t].op /\ Sent(t, m)
    <2>1. \E type \in {"DataWritten", "RevalidateData"} :
             m \in Multicast(th[t].srv, type, th[t].key, th[t].op)
      BY <1>4, <1>7 DEF RegisterCallback, SaveCopy, RequestTimeout, AllGranted, SaveGranted,
                SaveDataLocally, WriteTimeout, ReleaseLock
    <2>2. PICK type \in {"DataWritten", "RevalidateData"} :
             m \in Multicast(th[t].srv, type, th[t].key, th[t].op)
      BY <2>1
    <2> QED
      BY <2>2, InMulticast DEF Sent, Rest
  <1> QED
    BY <1>1, <1>2, <1>4, <1>5, <1>6, <1>7

\* The same of the invariant.
LEMMA WorkFacts ==
    ASSUME TypeOK, CallbacksLive, NEW t \in Threads, Caller(t), ClientInv(t),
           NEW u \in Threads, Work(u)
    PROVE  /\ u = t /\ th[t].pc # "idle"
           /\ \/ RegisterCallback(t) \/ SaveCopy(t) \/ RequestTimeout(t)
              \/ AllGranted(t) \/ SaveGranted(t) \/ WriteTimeout(t) \/ ReleaseLock(t)
           /\ UNCHANGED <<members, views, participants>>
           /\ \A x \in Threads \ {t} : th'[x] = th[x]
           /\ th'[t].srv = th[t].srv /\ th'[t].key = th[t].key /\ th'[t].op = th[t].op
           /\ th'[t].conflict = th[t].conflict /\ th'[t].got = th[t].got
           /\ \A m \in net' \ net :
                 /\ m.type \in {"DataWritten", "RevalidateData"}
                 /\ m.key = th[t].key /\ m.op = th[t].op /\ Sent(t, m)
  BY AloneWorks DEF ClientInv

\* A thread does a step on its own.
LEMMA ClientWork ==
    ASSUME TypeOK, CallbacksLive, NEW t \in Threads, Caller(t), ClientInv(t),
           NEW u \in Threads, Work(u)
    PROVE  ClientInv(t)'
  <1>1. /\ th[t].pc # "idle"
        /\ \/ RegisterCallback(t) \/ SaveCopy(t) \/ RequestTimeout(t)
           \/ AllGranted(t) \/ SaveGranted(t) \/ WriteTimeout(t) \/ ReleaseLock(t)
        /\ UNCHANGED <<members, views, participants>>
        /\ \A x \in Threads \ {t} : th'[x] = th[x]
        /\ th'[t].srv = th[t].srv /\ th'[t].key = th[t].key /\ th'[t].op = th[t].op
        /\ th'[t].conflict = th[t].conflict
        /\ \A m \in net' \ net :
              /\ m.type \in {"DataWritten", "RevalidateData"}
              /\ m.key = th[t].key /\ m.op = th[t].op /\ Sent(t, m)
    BY WorkFacts
  <1>2. th'[t].conflict = {}
    BY <1>1 DEF ClientInv, Alone
  <1>3. Counting(t)'
    <2>1. CASE AllGranted(t)
      <3>1. UNCHANGED <<net, wantToWrite, members, db>> /\ th[t].pc = "writing" /\ th[t].got
        BY <2>1 DEF AllGranted, server, group
      <3>2. Rest(t)' = Rest(t)
        BY <1>1, <3>1 DEF Rest
      <3>3. Unasked(t)' = Unasked(t) /\ Answering(t)' = Answering(t)
        BY <3>1, <3>2 DEF Unasked, Answering
      <3>4. Answered(t)' = Answered(t)
        BY <3>2, <3>3 DEF Answered
      <3> QED
        BY <1>1, <3>1, <3>2, <3>3, <3>4 DEF ClientInv, Counting, Valid
    <2>2. CASE ~AllGranted(t)
      <3>1. th'[t].pc \in {"reading", "idle", "written", "aborted"}
        BY <1>1, <2>2 DEF RegisterCallback, SaveCopy, RequestTimeout, SaveGranted,
               SaveDataLocally, WriteTimeout, ReleaseLock, TypeOK, Calls
      <3> QED
        BY <3>1 DEF Counting
    <2> QED
      BY <2>1, <2>2
  <1> QED
    BY <1>1, <1>2, <1>3, CallGoesOn DEF KeyTypes

\* What the listener of a server does to the calls and messages of the client.
LEMMA DeliverFacts ==
    ASSUME TypeOK, CallbacksLive, NEW t \in Threads, Caller(t), ClientInv(t),
           NEW m \in net, Deliver(m)
    PROVE  /\ ~DetectConflict(m) /\ ~ConflictReceived(m)
           /\ UNCHANGED <<members, views, participants>>
           /\ \A x \in Threads \ {t} : th'[x] = th[x]
           /\ th'[t].srv = th[t].srv /\ th'[t].key = th[t].key /\ th'[t].op = th[t].op
           /\ th'[t].conflict = th[t].conflict /\ th'[t].pc = th[t].pc
           /\ m.type \in KeyTypes => /\ m \in KeyMessages
                                     /\ m.key = th[t].key /\ m.op = th[t].op
                                     /\ (Sent(t, m) \/ Answer(t, m))
           /\ \A n \in net' \ net : n.type \in KeyTypes =>
                 /\ m.type \in {"AskData", "WantToWrite"}
                 /\ n.type = IF m.type = "AskData" THEN "AskDataResponse" ELSE "WantToWriteResponse"
                 /\ n.from = m.to
                 /\ n.key = th[t].key /\ n.op = th[t].op /\ Answer(t, n)
           /\ \A n \in net' \ net : n.type \notin KeyTypes => m.type \notin KeyTypes
  <1>1. m.type \in KeyTypes => /\ m \in KeyMessages
                               /\ m.key = th[t].key /\ m.op = th[t].op
                               /\ (Sent(t, m) \/ Answer(t, m))
    <2>1. m \in Messages
      BY DEF TypeOK
    <2> QED
      BY <2>1, MessageKind DEF ClientInv, Traffic
  <1>2. ~DetectConflict(m)
    <2> SUFFICES ASSUME DetectConflict(m) PROVE FALSE
      OBVIOUS
    <2>1. m.type = "WantToWrite" /\ wantToWrite[m.to][m.key].holder # {}
      BY DEF DetectConflict, Receive
    <2>2. m.to \in Servers /\ m.key \in Keys /\ m.to # th[t].srv
      BY <1>1, <2>1 DEF KeyTypes, KeyMessages, Sent, Answer, Rest
    <2> QED
      BY <2>1, <2>2, OnlyCaller
  <1>3. ~ConflictReceived(m)
    BY <1>1 DEF ConflictReceived, Receive, KeyTypes, Sent, Answer
  <1>4. \/ AskData(m) \/ AskDataResponse(m) \/ GrantWrite(m) \/ WantToWriteResponse(m)
        \/ DataWritten(m) \/ RevalidateData(m) \/ StartupData(m) \/ StartupDataResponse(m)
    BY <1>2, <1>3 DEF Deliver
  <1>5. UNCHANGED <<members, views, participants>>
    BY <1>4 DEF AskData, AskDataResponse, GrantWrite, WantToWriteResponse, DataWritten,
                RevalidateData, StartupData, StartupDataResponse, group, server
  <1>6. /\ \A x \in Threads \ {t} : th'[x] = th[x]
        /\ th'[t].srv = th[t].srv /\ th'[t].key = th[t].key /\ th'[t].op = th[t].op
        /\ th'[t].conflict = th[t].conflict /\ th'[t].pc = th[t].pc
    <2>1. th \in [Threads -> Calls]
      BY DEF TypeOK
    <2>2. CASE AskDataResponse(m)
      <3>1. m.to \in Servers /\ m.key \in Keys
        BY <1>1, <2>2 DEF AskDataResponse, Receive, KeyTypes, KeyMessages
      <3>2. waitingData[m.to][m.key] \subseteq {t}
        BY <3>1, OnlyCaller
      <3> QED
        BY <2>1, <2>2, <3>2 DEF AskDataResponse, Calls
    <2>3. CASE WantToWriteResponse(m)
      <3>1. m.to \in Servers /\ m.key \in Keys
        BY <1>1, <2>3 DEF WantToWriteResponse, Receive, KeyTypes, KeyMessages
      <3>2. wantToWrite[m.to][m.key].holder \subseteq {t}
        BY <3>1, OnlyCaller
      <3> QED
        BY <2>1, <2>3, <3>2 DEF WantToWriteResponse, Calls
    <2>4. CASE th' = th
      BY <2>4
    <2> QED
      BY <1>4, <2>2, <2>3, <2>4 DEF AskData, GrantWrite, DataWritten, RevalidateData,
               StartupData, StartupDataResponse
  <1>7. ASSUME NEW n \in net' \ net
        PROVE  /\ n.type \in KeyTypes =>
                    /\ m.type \in {"AskData", "WantToWrite"}
                    /\ n.type = IF m.type = "AskData" THEN "AskDataResponse"
                                ELSE "WantToWriteResponse"
                    /\ n.from = m.to
                    /\ n.key = th[t].key /\ n.op = th[t].op /\ Answer(t, n)
               /\ n.type \notin KeyTypes => m.type \notin KeyTypes
    <2>1. CASE AskData(m)
      <3>1. m.type = "AskData" /\ n \in Unicast(m.to, "AskDataResponse", m.from, m.key,
                                                db[m.to][m.key].data, m.op)
        BY <1>7, <2>1 DEF AskData, Receive
      <3>2. n.type = "AskDataResponse" /\ n.from = m.to /\ n.to = m.from /\ n.key = m.key
            /\ n.op = m.op
        BY <3>1, InUnicast
      <3> QED
        BY <1>1, <3>1, <3>2 DEF KeyTypes, Sent, Answer
    <2>2. CASE GrantWrite(m)
      <3>1. m.type = "WantToWrite" /\ n \in Unicast(m.to, "WantToWriteResponse", m.from, m.key,
                                                    Empty, m.op)
        BY <1>7, <2>2 DEF GrantWrite, Receive
      <3>2. n.type = "WantToWriteResponse" /\ n.from = m.to /\ n.to = m.from /\ n.key = m.key
            /\ n.op = m.op /\ n.data = Empty
        BY <3>1, InUnicast
      <3> QED
        BY <1>1, <3>1, <3>2 DEF KeyTypes, Sent, Answer
    <2>3. CASE StartupData(m)
      <3>1. m.type = "StartupRequestUpdate"
        BY <2>3 DEF StartupData, Receive
      <3>2. n.type \notin KeyTypes
        BY <1>7, <2>3, InStartupUnicast DEF StartupData
      <3> QED
        BY <3>1, <3>2 DEF KeyTypes
    <2>4. CASE net' \subseteq net
      BY <1>7, <2>4
    <2> QED
      BY <1>4, <2>1, <2>2, <2>3, <2>4 DEF AskDataResponse, WantToWriteResponse, DataWritten,
                RevalidateData, StartupDataResponse
  <1> QED
    BY <1>1, <1>2, <1>3, <1>5, <1>6, <1>7

\* A server invalidates its replica and answers: it goes from those not asked to
\* those whose answer is on its way (or it keeps its answer to itself).
LEMMA GrantCounts ==
    ASSUME TypeOK, CallbacksLive, NEW t \in Threads, Caller(t), ClientInv(t),
           th[t].pc \in {"writing", "granted"}, NEW m \in net, GrantWrite(m)
    PROVE  /\ Counting(t)'
           /\ m.to \in Unasked(t) /\ Unasked(t)' = Unasked(t) \ {m.to}
           /\ Rest(t)' = Rest(t) /\ Answering(t) \subseteq Answering(t)'
           /\ Answering(t)' \subseteq Answering(t) \cup {m.to}
  <1>0. Deliver(m) /\ m.type = "WantToWrite"
    BY DEF Deliver, GrantWrite, Receive
  <1>1. /\ UNCHANGED <<members, views, participants>>
        /\ th'[t].srv = th[t].srv /\ th'[t].key = th[t].key /\ th'[t].op = th[t].op
        /\ th'[t].pc = th[t].pc
        /\ m \in KeyMessages /\ m.key = th[t].key /\ m.op = th[t].op /\ Sent(t, m)
        /\ \A n \in net' \ net : n.type \in KeyTypes => n.type = "WantToWriteResponse" /\ n.from = m.to
    BY <1>0, DeliverFacts DEF KeyTypes, Answer
  <1>2. /\ \A n \in net' \ net : n.type = "WantToWriteResponse" /\ n.from = m.to
        /\ net \ {m} \subseteq net' /\ m \notin net'
    BY <1>0, <1>1, InUnicast DEF GrantWrite
  <1>3. Counting(t) /\ Traffic(t)
    BY DEF ClientInv
  <1>4. /\ \A n \in net : n.type \in {"WantToWrite", "WantToWriteResponse"}
        /\ Unasked(t) \cap Answering(t) = {}
        /\ \A r \in Rest(t) \ Unasked(t) : ~Valid(r, th[t].key)
        /\ wantToWrite[th[t].srv][th[t].key].received <= Cardinality(Answered(t))
        /\ th[t].got \/ th[t].pc = "granted" => Unasked(t) = {}
    BY <1>3 DEF Counting
  <1>5. Rest(t)' = Rest(t) /\ Rest(t) \subseteq Servers
    BY <1>1 DEF Rest
  <1>6. m.to \in Rest(t) /\ m.to \in Unasked(t)
    BY <1>0, <1>1 DEF Sent, Unasked
  <1>7. \A n \in net : n.type = "WantToWrite" /\ n.to = m.to => n = m
    <2> SUFFICES ASSUME NEW n \in net, n.type = "WantToWrite", n.to = m.to PROVE n = m
      OBVIOUS
    <2>1. n \in KeyMessages
      BY MessageKind DEF TypeOK, KeyTypes
    <2>2. n.key = m.key /\ n.op = m.op /\ n.from = m.from /\ n.data = m.data
      BY <1>0, <1>1, <1>3 DEF Traffic, Sent, Answer, KeyTypes
    <2> QED
      BY <1>0, <1>1, <2>1, <2>2, SameMessage
  <1>8. Unasked(t)' = Unasked(t) \ {m.to}
    BY <1>2, <1>5, <1>7 DEF Unasked
  <1>9. Answering(t) \subseteq Answering(t)' /\ Answering(t)' \subseteq Answering(t) \cup {m.to}
    BY <1>0, <1>2, <1>5 DEF Answering
  <1>10. Answered(t) \subseteq Answered(t)' /\ Answered(t)' \subseteq Servers
    BY <1>5, <1>6, <1>8, <1>9 DEF Answered
  <1>11. Cardinality(Answered(t)) <= Cardinality(Answered(t)')
         /\ Cardinality(Answered(t)) \in Nat /\ Cardinality(Answered(t)') \in Nat
    BY <1>10, ServerSets
  <1>12. wantToWrite' = wantToWrite /\ th' = th
    BY DEF GrantWrite
  <1>13. ASSUME NEW r \in Rest(t) \ Unasked(t)' PROVE ~Valid(r, th[t].key)'
    <2>1. db' = [db EXCEPT ![m.to][m.key] = Invalidated(@)]
      BY DEF GrantWrite
    <2>2. CASE r = m.to
      BY <1>1, <1>5, <2>1, <2>2 DEF Valid, TypeOK, KeyMessages, Invalidated, Row
    <2>3. CASE r # m.to
      <3>1. ~Valid(r, th[t].key)
        BY <1>4, <1>8, <2>3
      <3> QED
        BY <1>1, <1>5, <2>1, <2>3, <3>1, <1>12 DEF Valid, TypeOK
    <2> QED
      BY <2>2, <2>3
  <1>14. wantToWrite[th[t].srv][th[t].key].received \in Nat
    BY DEF TypeOK, Locks, Calls
  <1>15. wantToWrite'[th'[t].srv][th'[t].key].received <= Cardinality(Answered(t)')
    BY <1>4, <1>11, <1>12, <1>14
  <1>16. Unasked(t)' \cap Answering(t)' = {}
    BY <1>4, <1>8, <1>9
  <1>17. \A n \in net' : n.type \in {"WantToWrite", "WantToWriteResponse"}
    BY <1>2, <1>4
  <1>18. Counting(t)'
    BY <1>1, <1>4, <1>5, <1>8, <1>12, <1>13, <1>15, <1>16, <1>17 DEF Counting
  <1> QED
    BY <1>5, <1>6, <1>8, <1>9, <1>18

\* The writer counts a response: it is the only one of that server, which has
\* answered now.  If that is enough, everybody has.
LEMMA ResponseCounts ==
    ASSUME TypeOK, CallbacksLive, NEW t \in Threads, Caller(t), ClientInv(t),
           th[t].pc \in {"writing", "granted"}, NEW m \in net, WantToWriteResponse(m)
    PROVE  /\ Counting(t)'
           /\ m.to = th[t].srv /\ m.key = th[t].key
           /\ Rest(t)' = Rest(t) /\ m.from \in Rest(t) \ Answered(t)
           /\ Answered(t)' = Answered(t) \cup {m.from}
           /\ Cardinality(Answered(t)') = Cardinality(Answered(t)) + 1
           /\ Cardinality(Answered(t)) \in Nat
           /\ participants[th[t].srv] - 2 = Cardinality(Rest(t))
  <1>0. Deliver(m) /\ m.type = "WantToWriteResponse" /\ net' = net \ {m}
    BY DEF Deliver, WantToWriteResponse, Receive
  <1>1. /\ UNCHANGED <<members, views, participants>>
        /\ th'[t].srv = th[t].srv /\ th'[t].key = th[t].key /\ th'[t].op = th[t].op
        /\ th'[t].pc = th[t].pc
        /\ m \in KeyMessages /\ m.key = th[t].key /\ m.op = th[t].op /\ Answer(t, m)
    <2>1. /\ UNCHANGED <<members, views, participants>>
          /\ th'[t].srv = th[t].srv /\ th'[t].key = th[t].key /\ th'[t].op = th[t].op
          /\ th'[t].pc = th[t].pc
      BY <1>0, DeliverFacts
    <2>2. m \in KeyMessages
      BY <1>0, MessageKind DEF TypeOK, KeyTypes
    <2> QED
      BY <1>0, <2>1, <2>2 DEF ClientInv, Traffic, KeyTypes, Sent
  <1>2. Counting(t) /\ Traffic(t) /\ Busy(t) /\ GroupKnown
    BY DEF ClientInv
  <1>3. /\ \A n \in net : n.type \in {"WantToWrite", "WantToWriteResponse"}
        /\ Unasked(t) \cap Answering(t) = {}
        /\ \A r \in Rest(t) \ Unasked(t) : ~Valid(r, th[t].key)
        /\ wantToWrite[th[t].srv][th[t].key].received <= Cardinality(Answered(t))
        /\ th[t].got \/ th[t].pc = "granted" => Unasked(t) = {}
    BY <1>2 DEF Counting
  <1>4. Rest(t)' = Rest(t) /\ Rest(t) \subseteq Servers
    BY <1>1 DEF Rest
  <1>5. m.to = th[t].srv /\ m.from \in Rest(t) /\ m.from \in Answering(t)
    BY <1>0, <1>1 DEF Answer, Answering
  <1>6. \A n \in net : n.type = "WantToWriteResponse" /\ n.from = m.from => n = m
    <2> SUFFICES ASSUME NEW n \in net, n.type = "WantToWriteResponse", n.from = m.from PROVE n = m
      OBVIOUS
    <2>1. n \in KeyMessages
      BY MessageKind DEF TypeOK, KeyTypes
    <2>2. n.key = m.key /\ n.op = m.op /\ n.to = m.to /\ n.data = m.data
      BY <1>0, <1>1, <1>2 DEF Traffic, Sent, Answer, KeyTypes
    <2> QED
      BY <1>0, <1>1, <2>1, <2>2, SameMessage
  <1>7. Unasked(t)' = Unasked(t)
    BY <1>0, <1>4 DEF Unasked
  <1>8. Answering(t)' = Answering(t) \ {m.from}
    BY <1>0, <1>4, <1>6 DEF Answering
  <1>9. Answered(t)' = Answered(t) \cup {m.from} /\ m.from \in Rest(t) \ Answered(t)
        /\ Answered(t) \subseteq Rest(t)
    BY <1>3, <1>4, <1>5, <1>7, <1>8 DEF Answered
  <1>10. Cardinality(Answered(t)') = Cardinality(Answered(t)) + 1
         /\ Cardinality(Answered(t)) \in Nat /\ Cardinality(Rest(t)) \in Nat
    <2>1. Answered(t) \in SUBSET Rest(t) /\ Rest(t) \in SUBSET Servers
      BY <1>4, <1>9
    <2> QED
      BY <1>9, <2>1, ServerSets
  <1>11. participants[th[t].srv] - 2 = Cardinality(Rest(t))
    <2>1. th[t].srv \in members \cap Servers /\ Service \in members
      BY <1>2 DEF Busy, GroupKnown, TypeOK, Calls
    <2>2. participants[th[t].srv] = Cardinality(members)
      BY <1>2, <2>1 DEF Busy, GroupKnown
    <2> QED
      BY <2>1, <2>2, GroupSize DEF Rest
  <1>12. wantToWrite[th[t].srv][th[t].key].received \in Nat
    BY DEF TypeOK, Locks, Calls
  <1>13. wantToWrite'[th'[t].srv][th'[t].key].received <= Cardinality(Answered(t)')
    <2>1. wantToWrite'[th[t].srv][th[t].key].received \in
             {wantToWrite[th[t].srv][th[t].key].received,
              wantToWrite[th[t].srv][th[t].key].received + 1}
      BY <1>1, <1>5 DEF WantToWriteResponse, TypeOK, Locks, Calls
    <2> QED
      BY <1>1, <1>3, <1>10, <1>12, <2>1
  <1>14. th'[t].got => Unasked(t)' = {}
    <2>1. CASE th[t].got
      BY <1>3, <1>7, <2>1
    <2>2. CASE ~th[t].got
      <3> SUFFICES ASSUME th'[t].got PROVE Unasked(t)' = {}
        OBVIOUS
      <3>1. Enough(wantToWrite[m.to][m.key].received + 1, participants[m.to])
        BY <2>2 DEF WantToWriteResponse
      <3>2. wantToWrite[th[t].srv][th[t].key].received + 1 >= participants[th[t].srv] - 2
        BY <1>1, <1>5, <3>1 DEF Enough
      <3>3. Cardinality(Answered(t)') >= Cardinality(Rest(t))
        BY <1>3, <1>10, <1>11, <1>12, <3>2
      <3>4. Answered(t)' \in SUBSET Rest(t) /\ Rest(t) \in SUBSET Servers
        BY <1>4, <1>9
      <3>5. Cardinality(Answered(t)') = Cardinality(Rest(t))
        <4>1. Cardinality(Answered(t)') <= Cardinality(Rest(t))
          BY <3>4, ServerSets
        <4> QED
          BY <1>10, <3>3, <4>1
      <3>6. Answered(t)' = Rest(t)
        BY <3>4, <3>5, ServerSets
      <3> QED
        BY <1>4, <3>6 DEF Answered, Unasked
    <2> QED
      BY <2>1, <2>2
  <1>15. db' = db
    BY DEF WantToWriteResponse
  <1>16. Counting(t)'
    BY <1>0, <1>1, <1>3, <1>4, <1>7, <1>8, <1>13, <1>14, <1>15 DEF Counting, Valid
  <1> QED
    BY <1>1, <1>4, <1>5, <1>9, <1>10, <1>11, <1>16

\* The listener of a server handles a message.
LEMMA ClientDeliver ==
    ASSUME TypeOK, CallbacksLive, NEW t \in Threads, Caller(t), ClientInv(t),
           NEW m \in net, Deliver(m)
    PROVE  ClientInv(t)'
  <1>1. /\ ~DetectConflict(m)
        /\ UNCHANGED <<members, views, participants>>
        /\ \A x \in Threads \ {t} : th'[x] = th[x]
        /\ th'[t].srv = th[t].srv /\ th'[t].key = th[t].key /\ th'[t].op = th[t].op
        /\ th'[t].conflict = th[t].conflict /\ th'[t].pc = th[t].pc
        /\ \A n \in net' \ net : n.type \in KeyTypes =>
              n.key = th[t].key /\ n.op = th[t].op /\ Answer(t, n)
        /\ \A n \in net' \ net : n.type \notin KeyTypes => m.type \notin KeyTypes
    BY DeliverFacts
  <1>2. th'[t].conflict = {}
    BY <1>1 DEF ClientInv, Alone
  <1>3. th[t].pc # "idle" => \A n \in net' \ net : n.type \in KeyTypes
    BY <1>1 DEF ClientInv, Busy
  <1>4. Counting(t)'
    <2>1. CASE th[t].pc \in {"writing", "granted"}
      <3>1. m.type \in {"WantToWrite", "WantToWriteResponse"}
        BY <2>1 DEF ClientInv, Counting
      <3>2. GrantWrite(m) \/ WantToWriteResponse(m)
        BY <1>1, <3>1 DEF Deliver, Receive, AskData, AskDataResponse, ConflictReceived,
                 DataWritten, RevalidateData, StartupData, StartupDataResponse
      <3> QED
        BY <2>1, <3>2, GrantCounts, ResponseCounts
    <2>2. CASE th[t].pc \notin {"writing", "granted"}
      BY <1>1, <2>2 DEF Counting
    <2> QED
      BY <2>1, <2>2
  <1> QED
    BY <1>1, <1>2, <1>3, <1>4, CallGoesOn

\* A server stops between calls.
LEMMA ClientCrash ==
    ASSUME TypeOK, NEW t \in Threads, Lone(t), ClientInv(t), NEW s \in Servers, Crash(s)
    PROVE  ClientInv(t)'
  <1>1. Regroup(s, members \ {s}, "leave")
    BY DEF Crash
  <1>2. Settled
    BY <1>1, ChangeIsSettled
  <1>3. th' = th
    BY <1>2 DEF Settled, Crash, TypeOK
  <1>4. Service \in members \ {s}
    BY ConstantAssumption DEF ClientInv, GroupKnown
  <1>5. net' \subseteq net
    BY DEF Crash
  <1> QED
    BY <1>1, <1>3, <1>4, <1>5, ClientGroup

\* Every step.
LEMMA ClientStep ==
    ASSUME TypeOK, CallbacksLive, NEW t \in Threads, Lone(t), ClientInv(t), [Next]_vars
    PROVE  ClientInv(t)'
  <1>0. Caller(t)
    BY DEF Lone
  <1>1. ASSUME NEW s \in Servers, Join(s) PROVE ClientInv(t)'
    <2>1. Regroup(s, members \cup {s}, "join") /\ net' \subseteq net /\ th' = th
      BY <1>1 DEF Join
    <2>2. Service \in members \cup {s}
      BY DEF ClientInv, GroupKnown
    <2> QED
      BY <2>1, <2>2, ClientGroup
  <1>2. CASE ServiceJoins
    BY <1>2 DEF ServiceJoins, ClientInv, GroupKnown
  <1>3. CASE ServiceLeaves
    BY <1>3, ChangeIsSettled DEF ServiceLeaves
  <1>4. CASE UNCHANGED vars
    <2>1. UNCHANGED <<members, views, participants, th, net, wantToWrite, db>>
      BY <1>4 DEF vars, server, group
    <2>2. Rest(t)' = Rest(t)
      BY <2>1 DEF Rest
    <2>3. Unasked(t)' = Unasked(t) /\ Answering(t)' = Answering(t)
      BY <2>1, <2>2 DEF Unasked, Answering
    <2>4. Answered(t)' = Answered(t)
      BY <2>2, <2>3 DEF Answered
    <2>5. Counting(t)'
      BY <2>1, <2>2, <2>3, <2>4 DEF ClientInv, Counting, Valid
    <2>6. th'[t].conflict = {}
      BY <2>1 DEF ClientInv, Alone
    <2> QED
      BY <2>1, <2>5, <2>6, CallGoesOn
  <1>5. ASSUME NEW u \in Threads, Call(u) \/ Work(u) PROVE ClientInv(t)'
    BY <1>0, <1>5, ClientCall, ClientWork
  <1>6. CASE Listen
    BY <1>0, <1>6, ClientDeliver DEF Listen
  <1>7. ASSUME NEW s \in Servers, Notice(s) \/ Crash(s) PROVE ClientInv(t)'
    BY <1>0, <1>7, ClientNotice, ClientCrash
  <1> QED
    BY <1>1, <1>2, <1>3, <1>4, <1>5, <1>6, <1>7 DEF Next

\* The start.
LEMMA ClientInit ==
    ASSUME Init, TypeOK, NEW t \in Threads
    PROVE  ClientInv(t)
  <1>1. th \in [Threads -> Calls] /\ \A u \in Threads : th[u].pc = "idle" /\ th[u].reply = "none"
                                                         /\ th[u].conflict = {}
    BY DEF Init, TypeOK
  <1>2. Alone(t) /\ Busy(t) /\ Counting(t)
    BY <1>1 DEF Alone, Busy, Counting
  <1>3. Traffic(t)
    BY DEF Init, Traffic
  <1>4. GroupKnown
    BY ConstantAssumption DEF Init, GroupKnown
  <1> QED
    BY <1>2, <1>3, <1>4 DEF ClientInv

\* The invariant, whoever the client's thread is.
LoneInv == TypeOK /\ CallbacksLive /\ \A t \in Threads : Lone(t) => ClientInv(t)

\* It holds at the start, and every step keeps it.
LEMMA LoneInvCorrect == Spec => []LoneInv
  <1>1. Init => LoneInv
    BY TypeInit, CallbacksInit, ClientInit DEF LoneInv
  <1>2. LoneInv /\ [Next]_vars => LoneInv'
    <2> SUFFICES ASSUME LoneInv, [Next]_vars PROVE LoneInv'
      OBVIOUS
    <2>1. TypeOK' /\ CallbacksLive'
      BY TypeStep, CallbacksStep DEF LoneInv
    <2>2. ASSUME NEW t \in Threads, Lone(t)' PROVE ClientInv(t)'
      <3>1. Lone(t)
        BY <2>2, EnvStays DEF Lone, Caller, Stable
      <3> QED
        BY <3>1, ClientStep DEF LoneInv
    <2> QED
      BY <2>1, <2>2 DEF LoneInv
  <1> QED
    BY <1>1, <1>2, PTL DEF Spec

\* One client has one thread.
LEMMA ClientThread ==
    ASSUME TypeOK, OneClient
    PROVE  \E t \in Threads : env.threads = {t}
  <1>1. env.threads \subseteq Threads
    BY ConstantAssumption DEF TypeOK, AllEnvironments
  <1>2. IsFiniteSet(env.threads)
    BY <1>1, ThreadsAssumption, FS_Subset
  <1>3. PICK t : env.threads = {t}
    BY <1>2, FS_Singleton DEF OneClient
  <1> QED
    BY <1>1, <1>3

\* When a writer has counted enough WantToWriteResponse messages, every other server
\* of the group has invalidated its replica of the key (LeaderManager.java,
\* wantToWriteReceived and wantToWriteResponse), in a group of any size and for any
\* number of calls and membership changes between them, even if timeouts cut writes
\* short and their messages arrive late.
THEOREM WriterIsAloneCorrect == Spec => []WriterIsAlone
  <1>1. LoneInv => WriterIsAlone
    <2> SUFFICES ASSUME LoneInv, OneClient, Stable \/ (env.orderly /\ Service \notin env.unstable),
                        NEW u \in Threads, th[u].pc = "granted",
                        NEW r \in (members \cap Servers) \ {th[u].srv}
                 PROVE  ~Valid(r, th[u].key)
      BY DEF WriterIsAlone
    <2>1. PICK t \in Threads : env.threads = {t}
      BY ClientThread DEF LoneInv
    <2>2. ClientInv(t)
      BY <2>1 DEF LoneInv, Lone, Caller, OneClient
    <2>3. u = t
      BY <2>2 DEF ClientInv, Alone
    <2> QED
      BY <2>2, <2>3 DEF ClientInv, Counting, Rest
  <1> QED
    BY <1>1, LoneInvCorrect, PTL

----------------------------------------------------------------------------
(* The values: how a step may change them.                                 *)

\* Replicas that stay, or are invalidated, in the face of the same messages.
LEMMA ReplicasKept ==
    ASSUME NEW t \in Threads, NEW X, Replicas(t, X), members' = members,
           \A k \in Keys : Current(t, k) \subseteq Current(t, k)',
           \A r \in members \cap Servers, k \in Keys :
              /\ Present(r, k)' => Present(r, k) /\ db'[r][k].data = db[r][k].data
              /\ Valid(r, k)' => Valid(r, k) \/ (~Dirty(r, k) /\ r \notin X)
              /\ Dirty(r, k)' <=> Dirty(r, k)
    PROVE  Replicas(t, X)'
  <1> SUFFICES ASSUME NEW r \in members \cap Servers, NEW k \in Keys
               PROVE  /\ Valid(r, k)' => ~Dirty(r, k)' /\ db'[r][k].data \in Current(t, k)'
                      /\ Present(r, k)' /\ ~Dirty(r, k)' /\ r \notin X
                            => db'[r][k].data \in Current(t, k)'
    BY DEF Replicas
  <1>1. Valid(r, k)' => Present(r, k)'
    BY DEF Valid, Present
  <1> QED
    BY <1>1 DEF Replicas

\* Where no call has just written, and messages of other types come and go.
LEMMA SameCurrent ==
    ASSUME NEW t \in Threads, th[t].pc # "written" /\ th'[t].pc # "written", current' = current
    PROVE  \A k \in Keys : Current(t, k)' = Current(t, k) /\ Current(t, k) = current[k]
  BY DEF Current

\* A key stays dirty while no such message comes or goes.
LEMMA SameDirty ==
    ASSUME \A m \in net' \ net : m.type # "DataWritten", \A m \in net \ net' : m.type # "DataWritten"
    PROVE  \A r, k : Dirty(r, k)' <=> Dirty(r, k)
  BY DEF Dirty

\* A server that is told it is alone with the configuration service is.
LEMMA GroupOfOne ==
    ASSUME TypeOK, NEW s \in members \cap Servers, Service \in members, Cardinality(members) = 2
    PROVE  members \cap Servers = {s}
  <1>1. Cardinality((members \cap Servers) \ {s}) = 0
    BY GroupSize
  <1>2. (members \cap Servers) \ {s} \in SUBSET Servers
    OBVIOUS
  <1>3. IsFiniteSet((members \cap Servers) \ {s})
    BY <1>2, ServerSets
  <1>4. (members \cap Servers) \ {s} = {}
    BY <1>1, <1>3, FS_EmptySet
  <1> QED
    BY <1>4

\* A call arrives: nothing is on its way.
LEMMA ValueCall ==
    ASSUME TypeOK, CallbacksLive, NEW t \in Threads, NEW X, Caller(t), ClientInv(t), ValueInv(t, X),
           NEW u \in Threads, Call(u)
    PROVE  ValueInv(t, X)'
  <1>1. PICK s \in Servers, k \in Keys :
          \/ ReadLocal(u, s, k)
          \/ ReadInvalid(u, s, k)
          \/ AskGroup(u, s, k)
          \/ \E v \in Values : WriteAlone(u, s, k, v) \/ SendWantToWrite(u, s, k, v)
    BY DEF Call
  <1>2. Arrives(u, s)
    BY <1>1 DEF ReadLocal, ReadInvalid, AskGroup, WriteAlone, SendWantToWrite
  <1>3. /\ u = t /\ net = {} /\ s \in members /\ th[t].pc = "idle"
        /\ participants[s] = Cardinality(members) /\ Service \in members
    BY <1>2, Arrival DEF ClientInv, GroupKnown
  <1>4. UNCHANGED <<members, views, participants, waitStartup>>
    BY <1>1 DEF ReadLocal, ReadInvalid, AskGroup, WriteAlone, SendWantToWrite, group, server
  <1>5. Kinds(t) /\ (\A q \in Keys : OneValue(q)) /\ Replicas(t, X) /\ Answers(t)
    BY DEF ValueInv
  <1>6. th \in [Threads -> Calls]
    BY DEF TypeOK
  <1>7. ~Dirty(s, k) /\ (\A r, q : ~Dirty(r, q))
    BY <1>3 DEF Dirty
  <1>8. CASE ReadLocal(u, s, k)
    <2>1. UNCHANGED <<db, net, current>> /\ Valid(s, k)
          /\ th' = [th EXCEPT ![t] = NewCall("idle", s, k, db[s][k].data,
                                             Reply(Early(s, "empty"), "value"))]
      BY <1>3, <1>8 DEF ReadLocal, server
    <2>2. th'[t].pc = "idle" /\ th'[t].val = db[s][k].data /\ th'[t].key = k
      BY <1>6, <2>1 DEF NewCall
    <2>3. Kinds(t)'
      BY <1>3, <1>4, <1>5, <2>1, <2>2 DEF Kinds, WritePCs
    <2>4. \A q \in Keys : Current(t, q)' = Current(t, q) /\ Current(t, q) = current[q]
      BY <1>3, <2>1, <2>2, SameCurrent
    <2>5. Replicas(t, X)'
      BY <1>4, <1>5, <1>3, <2>1, <2>4 DEF Replicas, Present, Valid, Dirty
    <2>6. db[s][k].data \in current[k]
      BY <1>3, <1>5, <1>7, <2>1, <2>4 DEF Replicas, Present, Valid
    <2>7. Answers(t)'
      BY <1>3, <2>1, <2>2, <2>6 DEF Answers
    <2> QED
      BY <1>5, <2>1, <2>3, <2>5, <2>7 DEF ValueInv, OneValue
  <1>9. CASE ReadInvalid(u, s, k) \/ AskGroup(u, s, k)
    <2>1. UNCHANGED <<db, current>> /\ (net' = net \/ net' = net \cup Multicast(s, "AskData", k, ops + 1))
      BY <1>9 DEF ReadInvalid, AskGroup, server
    <2>2. /\ th'[t].pc \in {"idle", "asked"} /\ ~th'[t].got /\ th'[t].reply # "value"
          /\ th'[t].pc = "idle" => net' = net
      <3>1. CASE ReadInvalid(u, s, k)
        BY <1>3, <1>6, <3>1 DEF ReadInvalid, NewCall
      <3>2. CASE AskGroup(u, s, k)
        BY <1>3, <1>6, <3>2 DEF AskGroup, NewCall, Early
      <3> QED
        BY <1>9, <3>1, <3>2
    <2>3. \A m \in net' : m.type = "AskData"
      BY <1>3, <2>1, InMulticast
    <2>4. Kinds(t)'
      BY <1>4, <1>5, <2>2, <2>3 DEF Kinds, WritePCs, KeyTypes
    <2>5. \A q \in Keys : Current(t, q)' = Current(t, q) /\ Current(t, q) = current[q]
      BY <1>3, <2>1, <2>2, SameCurrent
    <2>6. Replicas(t, X)'
      BY <1>4, <1>5, <1>7, <2>1, <2>3, <2>5 DEF Replicas, Present, Valid, Dirty
    <2>7. Answers(t)'
      BY <2>2, <2>3 DEF Answers
    <2> QED
      BY <1>5, <2>1, <2>4, <2>6, <2>7 DEF ValueInv, OneValue
  <1>10. ASSUME NEW v \in Values, WriteAlone(u, s, k, v) PROVE ValueInv(t, X)'
    <2>1. /\ net' = net /\ db' = [db EXCEPT ![s][k] = Saved(v)]
          /\ current' = [current EXCEPT ![k] = {v}]
          /\ th' = [th EXCEPT ![t] = NewCall("idle", s, k, v, "ok")] /\ participants[s] = 2
      BY <1>3, <1>10 DEF WriteAlone
    <2>2. th'[t].pc = "idle" /\ th'[t].reply = "ok"
      BY <1>6, <2>1 DEF NewCall
    <2>3. members \cap Servers = {s}
      BY <1>3, <2>1, GroupOfOne
    <2>4. Kinds(t)'
      BY <1>3, <1>4, <1>5, <2>1, <2>2 DEF Kinds, WritePCs
    <2>5. /\ current'[k] = {v} /\ \A q \in Keys \ {k} : current'[q] = current[q]
          /\ db'[s][k] = Saved(v) /\ \A q \in Keys \ {k} : db'[s][q] = db[s][q]
      BY <2>1 DEF TypeOK
    <2>6. \A q \in Keys : OneValue(q)'
      BY <1>5, <2>5 DEF OneValue
    <2>7. \A q \in Keys : Current(t, q)' = current'[q] /\ Current(t, q) = current[q]
      BY <1>3, <2>2 DEF Current
    <2>8. Replicas(t, X)'
      <3> SUFFICES ASSUME NEW r \in members' \cap Servers, NEW q \in Keys
                   PROVE  /\ Valid(r, q)' \/ (Present(r, q)' /\ r \notin X)
                                => db'[r][q].data \in Current(t, q)'
                          /\ ~Dirty(r, q)'
        BY DEF Replicas
      <3>1. r = s /\ ~Dirty(r, q)'
        BY <1>3, <1>4, <2>1, <2>3 DEF Dirty
      <3>2. CASE q = k
        BY <2>5, <2>7, <3>1, <3>2 DEF Saved, Row
      <3>3. CASE q # k
        BY <1>3, <1>5, <1>7, <2>5, <2>7, <3>1, <3>3 DEF Replicas, Present, Valid
      <3> QED
        BY <3>1, <3>2, <3>3
    <2>9. Answers(t)'
      BY <1>3, <2>1, <2>2 DEF Answers
    <2> QED
      BY <2>4, <2>6, <2>8, <2>9 DEF ValueInv
  <1>11. ASSUME NEW v \in Values, SendWantToWrite(u, s, k, v) PROVE ValueInv(t, X)'
    <2>1. participants[s] # 2 /\ ~waitStartup[s]
      BY <1>3, <1>5, <1>11 DEF SendWantToWrite, Kinds
    <2>2. /\ net' = net \cup Multicast(s, "WantToWrite", k, ops + 1)
          /\ db' = [db EXCEPT ![s][k] = Invalidated(@)] /\ current' = current
          /\ th' = [th EXCEPT ![t] = NewCall("writing", s, k, v, "none")]
      BY <1>3, <1>11, <2>1 DEF SendWantToWrite, Early
    <2>3. th'[t].pc = "writing" /\ th'[t].reply = "none"
      BY <1>6, <2>2 DEF NewCall
    <2>4. \A m \in net' : m.type = "WantToWrite"
      BY <1>3, <2>2, InMulticast
    <2>5. Kinds(t)'
      BY <1>4, <1>5, <2>3, <2>4 DEF Kinds, KeyTypes
    <2>6. \A q \in Keys : Current(t, q)' = Current(t, q)
      BY <1>3, <2>2, <2>3, SameCurrent
    <2>7. \A r, q : ~Dirty(r, q)'
      BY <2>4 DEF Dirty
    <2>8. ASSUME NEW r \in members \cap Servers, NEW q \in Keys
          PROVE  /\ Present(r, q)' => Present(r, q) /\ db'[r][q].data = db[r][q].data
                 /\ Valid(r, q)' => Valid(r, q)
      BY <2>2 DEF Present, Valid, Invalidated, Row, TypeOK
    <2>9. Replicas(t, X)'
      BY <1>4, <1>5, <1>7, <2>6, <2>7, <2>8, ReplicasKept
    <2>10. Answers(t)'
      BY <2>3, <2>4 DEF Answers
    <2> QED
      BY <1>5, <2>2, <2>5, <2>9, <2>10 DEF ValueInv, OneValue
  <1> QED
    BY <1>1, <1>8, <1>9, <1>10, <1>11

\* A thread does a step on its own.
LEMMA ValueWork ==
    ASSUME TypeOK, CallbacksLive, NEW t \in Threads, NEW X, Caller(t), ClientInv(t), ValueInv(t, X),
           NEW u \in Threads, Work(u)
    PROVE  ValueInv(t, X)'
  <1>1. /\ th[t].pc # "idle"
        /\ \/ RegisterCallback(t) \/ SaveCopy(t) \/ RequestTimeout(t)
           \/ AllGranted(t) \/ SaveGranted(t) \/ WriteTimeout(t) \/ ReleaseLock(t)
        /\ UNCHANGED <<members, views, participants>>
        /\ th'[t].srv = th[t].srv /\ th'[t].key = th[t].key /\ th'[t].got = th[t].got
        /\ \A m \in net' \ net :
              /\ m.type \in {"DataWritten", "RevalidateData"}
              /\ m.key = th[t].key /\ Sent(t, m)
    BY WorkFacts
  <1>2. waitStartup' = waitStartup
    BY <1>1 DEF RegisterCallback, SaveCopy, RequestTimeout, AllGranted, SaveGranted,
                WriteTimeout, ReleaseLock, server
  <1>3. Kinds(t) /\ (\A q \in Keys : OneValue(q)) /\ Replicas(t, X) /\ Answers(t)
    BY DEF ValueInv
  <1>4. th \in [Threads -> Calls] /\ th[t].srv \in Servers /\ th[t].key \in Keys
    BY DEF TypeOK, Calls
  <1>s. th[t].srv \in members \cap Servers
    BY <1>1, <1>4 DEF ClientInv, Busy
  <1>5. CASE RegisterCallback(t) \/ RequestTimeout(t)
    <2>1. UNCHANGED <<db, net, current>> /\ th[t].pc \in {"asked", "reading"}
      BY <1>5 DEF RegisterCallback, RequestTimeout
    <2>2. /\ th'[t].pc \in {"reading", "idle"} /\ th'[t].reply # "value"
          /\ th'[t].pc = "reading" => th'[t].val = th[t].val
      <3>1. th[t].reply # "value"
        BY <1>1, <1>3 DEF Kinds
      <3> QED
        BY <1>4, <1>5, <3>1 DEF RegisterCallback, RequestTimeout, Reply, Calls
    <2>3. Kinds(t)'
      BY <1>1, <1>2, <1>3, <2>1, <2>2 DEF Kinds, WritePCs
    <2>4. \A q \in Keys : Current(t, q)' = Current(t, q)
      BY <2>1, <2>2, SameCurrent
    <2>5. Replicas(t, X)'
      BY <1>1, <1>3, <2>1, <2>4 DEF Replicas, Present, Valid, Dirty
    <2>6. Answers(t)'
      BY <1>1, <1>3, <2>1, <2>2 DEF Answers
    <2> QED
      BY <1>3, <2>1, <2>3, <2>5, <2>6 DEF ValueInv, OneValue
  <1>6. CASE SaveCopy(t)
    <2>1. UNCHANGED <<net, current>> /\ th[t].pc = "reading" /\ th[t].got
          /\ db' = [db EXCEPT ![th[t].srv][th[t].key] = Saved(th[t].val)]
          /\ th' = [th EXCEPT ![t].pc = "idle", ![t].reply = Reply(th[t].reply, "value")]
      BY <1>6 DEF SaveCopy
    <2>2. th'[t].pc = "idle" /\ th'[t].val = th[t].val
      BY <1>4, <2>1 DEF Calls
    <2>3. Kinds(t)'
      BY <1>1, <1>2, <1>3, <2>1, <2>2 DEF Kinds, WritePCs
    <2>4. \A q \in Keys : Current(t, q)' = current[q] /\ Current(t, q) = current[q]
      BY <2>1, <2>2, SameCurrent
    <2>5. \A r, q : ~Dirty(r, q) /\ ~Dirty(r, q)'
      BY <1>3, <2>1 DEF Kinds, Dirty
    <2>6. th[t].val \in current[th[t].key]
      BY <1>3, <2>1 DEF Answers
    <2>7. Replicas(t, X)'
      <3> SUFFICES ASSUME NEW r \in members \cap Servers, NEW q \in Keys,
                          Valid(r, q)' \/ (Present(r, q)' /\ r \notin X)
                   PROVE  db'[r][q].data \in current[q]
        BY <1>1, <2>4, <2>5 DEF Replicas
      <3>1. CASE r = th[t].srv /\ q = th[t].key
        BY <2>1, <2>6, <3>1 DEF TypeOK, Saved, Row
      <3>2. CASE ~(r = th[t].srv /\ q = th[t].key)
        <4>1. db'[r][q] = db[r][q]
          BY <2>1, <3>2, <1>4 DEF TypeOK
        <4> QED
          BY <1>3, <2>4, <2>5, <4>1 DEF Replicas, Present, Valid
      <3> QED
        BY <3>1, <3>2
    <2>8. Answers(t)'
      BY <1>1, <1>3, <2>1, <2>2, <2>6 DEF Answers
    <2> QED
      BY <1>3, <2>1, <2>3, <2>7, <2>8 DEF ValueInv, OneValue
  <1>7. CASE AllGranted(t) \/ WriteTimeout(t)
    <2>1. UNCHANGED <<db, current>> /\ th[t].pc = "writing"
      BY <1>7 DEF AllGranted, WriteTimeout, server
    <2>2. th'[t].pc \in {"granted", "aborted"} /\ th'[t].reply = th[t].reply
          /\ (th'[t].pc = "granted" => net' = net)
      BY <1>4, <1>7 DEF AllGranted, WriteTimeout, Calls
    <2>3. /\ \A m \in net : m.type \in {"WantToWrite", "WantToWriteResponse"}
          /\ \A m \in net' \ net : m.type = "RevalidateData"
          /\ net \subseteq net'
      <3>1. \A m \in net : m.type \in {"WantToWrite", "WantToWriteResponse"}
        BY <2>1 DEF ClientInv, Counting
      <3>2. (\A m \in net' \ net : m.type = "RevalidateData") /\ net \subseteq net'
        BY <1>7, InMulticast DEF AllGranted, WriteTimeout
      <3> QED
        BY <3>1, <3>2
    <2>4. Kinds(t)'
      BY <1>1, <1>2, <1>3, <2>1, <2>2, <2>3 DEF Kinds, WritePCs, KeyTypes
    <2>5. \A q \in Keys : Current(t, q)' = Current(t, q)
      BY <2>1, <2>2, SameCurrent
    <2>6. \A r, q : ~Dirty(r, q) /\ ~Dirty(r, q)'
      BY <2>3 DEF Dirty
    <2>7. Replicas(t, X)'
      BY <1>1, <1>3, <2>1, <2>5, <2>6 DEF Replicas, Present, Valid
    <2>8. Answers(t)'
      BY <2>2, <2>3 DEF Answers
    <2> QED
      BY <1>3, <2>1, <2>4, <2>7, <2>8 DEF ValueInv, OneValue
  <1>8. CASE SaveGranted(t)
    <2>1. /\ th[t].pc = "granted" /\ current' = current
          /\ db' = [db EXCEPT ![th[t].srv][th[t].key] = Saved(th[t].val)]
          /\ net' = net \cup Multicast(th[t].srv, "DataWritten", th[t].key, th[t].op)
          /\ th' = [th EXCEPT ![t].pc = "written"]
      BY <1>8 DEF SaveGranted, SaveDataLocally
    <2>2. th'[t].pc = "written" /\ th'[t].val = th[t].val /\ th'[t].reply = th[t].reply
      BY <1>4, <2>1 DEF Calls
    <2>3. /\ \A m \in net : m.type \in {"WantToWrite", "WantToWriteResponse"}
          /\ \A r \in Rest(t) : ~Valid(r, th[t].key)
      BY <2>1 DEF ClientInv, Counting
  <2>4. \A m \in net' \ net : /\ m.type = "DataWritten" /\ m.key = th[t].key
                                  /\ m.to \in Rest(t)
      BY <2>1, InMulticast DEF Rest
    <2>5. Kinds(t)'
      BY <1>1, <1>2, <1>3, <2>1, <2>2, <2>3, <2>4 DEF Kinds, WritePCs, KeyTypes
    <2>6. \A r, q : ~Dirty(r, q) /\ (Dirty(r, q)' => q = th[t].key /\ r \in Rest(t))
      BY <2>3, <2>4 DEF Dirty
    <2>7. ASSUME NEW r \in Rest(t) PROVE Dirty(r, th[t].key)'
      <3> DEFINE m == [type |-> "DataWritten", from |-> th[t].srv, to |-> r, key |-> th[t].key,
                       data |-> Empty, op |-> th[t].op]
      <3>1. m \in net' /\ m.type = "DataWritten" /\ m.to = r /\ m.key = th[t].key
        BY <2>1 DEF Multicast, Rest
      <3> QED
        BY <1>1, <3>1 DEF Dirty
    <2>8. Replicas(t, X)'
      <3> SUFFICES ASSUME NEW r \in members \cap Servers, NEW q \in Keys
                   PROVE  /\ Valid(r, q)' => ~Dirty(r, q)' /\ db'[r][q].data \in Current(t, q)'
                          /\ Present(r, q)' /\ ~Dirty(r, q)' /\ r \notin X
                                => db'[r][q].data \in Current(t, q)'
        BY <1>1 DEF Replicas
      <3>1. CASE q # th[t].key
        <4>1. db'[r][q] = db[r][q]
          BY <1>4, <2>1, <3>1 DEF TypeOK
        <4>2. Current(t, q)' = current[q] /\ Current(t, q) = current[q]
          BY <1>1, <2>1, <2>2, <3>1 DEF Current
        <4> QED
          BY <1>3, <2>6, <3>1, <4>1, <4>2 DEF Replicas, Present, Valid
      <3>2. CASE q = th[t].key /\ r = th[t].srv
        <4>1. db'[r][q].data = th[t].val /\ Current(t, q)' = {th[t].val}
          BY <1>1, <1>4, <2>1, <2>2, <3>2 DEF TypeOK, Saved, Row, Current
        <4>2. ~Dirty(r, q)'
          BY <2>6, <3>2 DEF Rest
        <4> QED
          BY <4>1, <4>2
      <3>3. CASE q = th[t].key /\ r # th[t].srv
        <4>1. r \in Rest(t)
          BY <3>3 DEF Rest
        <4>2. db'[r][q] = db[r][q]
          BY <1>4, <2>1, <3>3 DEF TypeOK
        <4> QED
          BY <1>1, <2>3, <2>7, <3>3, <4>1, <4>2 DEF Valid
      <3> QED
        BY <3>1, <3>2, <3>3
    <2>9. Answers(t)'
      BY <2>2, <2>3, <2>4 DEF Answers
    <2> QED
      BY <1>3, <2>1, <2>5, <2>8, <2>9 DEF ValueInv, OneValue
  <1>9. CASE ReleaseLock(t)
    <2>1. /\ th[t].pc \in {"written", "aborted"} /\ UNCHANGED <<db, net>>
          /\ th' = [th EXCEPT ![t].pc = "idle",
                     ![t].reply = Reply(th[t].reply, IF th[t].pc = "written" THEN "ok" ELSE "error")]
          /\ current' = IF th[t].pc = "written" /\ th[t].reply = "none"
                        THEN [current EXCEPT ![th[t].key] = {th[t].val}] ELSE current
      BY <1>9 DEF ReleaseLock
    <2>2. th[t].reply = "none"
      BY <1>3, <2>1 DEF Kinds, WritePCs
    <2>3. th'[t].pc = "idle" /\ th'[t].reply # "value"
      BY <1>4, <2>1, <2>2 DEF Reply, Calls
    <2>4. Kinds(t)'
      BY <1>1, <1>2, <1>3, <2>1, <2>3 DEF Kinds, WritePCs
    <2>5. \A q \in Keys : Current(t, q)' = Current(t, q)
      BY <1>1, <2>1, <2>2, <2>3 DEF Current, TypeOK
    <2>6. Replicas(t, X)'
      BY <1>1, <1>3, <2>1, <2>5 DEF Replicas, Present, Valid, Dirty
    <2>7. \A m \in net' : m.type # "AskDataResponse"
      BY <1>3, <2>1 DEF Kinds, WritePCs
    <2>8. Answers(t)'
      BY <2>3, <2>7 DEF Answers
    <2>9. \A q \in Keys : OneValue(q)'
      BY <1>3, <2>1 DEF OneValue, TypeOK
    <2> QED
      BY <2>4, <2>6, <2>8, <2>9 DEF ValueInv
  <1> QED
    BY <1>1, <1>5, <1>6, <1>7, <1>8, <1>9

\* The listener of a server handles a message.
LEMMA ValueDeliver ==
    ASSUME TypeOK, CallbacksLive, NEW t \in Threads, NEW X, Caller(t), ClientInv(t), ValueInv(t, X),
           NEW m \in net, Deliver(m), Spared(X)
    PROVE  ValueInv(t, X)'
  <1>1. /\ ~DetectConflict(m) /\ ~ConflictReceived(m)
        /\ UNCHANGED <<members, views, participants>>
        /\ th'[t].srv = th[t].srv /\ th'[t].key = th[t].key /\ th'[t].pc = th[t].pc
        /\ \A n \in net' \ net : n.type \in KeyTypes =>
              /\ m.type \in {"AskData", "WantToWrite"}
              /\ n.type = IF m.type = "AskData" THEN "AskDataResponse" ELSE "WantToWriteResponse"
              /\ n.key = th[t].key
        /\ \A n \in net' \ net : n.type \notin KeyTypes => m.type \notin KeyTypes
    BY DeliverFacts
  <1>2. Kinds(t) /\ (\A q \in Keys : OneValue(q)) /\ Replicas(t, X) /\ Answers(t)
    BY DEF ValueInv
  <1>3. /\ m \in KeyMessages /\ m.to \in Servers /\ m.key \in Keys /\ m.type \in KeyTypes
        /\ m.key = th[t].key /\ (Sent(t, m) \/ Answer(t, m))
    <2>1. m \in Messages /\ m.type \in KeyTypes
      BY <1>2 DEF TypeOK, Kinds
    <2>2. m \in KeyMessages
      BY <2>1, MessageKind
    <2> QED
      BY <2>1, <2>2 DEF KeyMessages, ClientInv, Traffic
  <1>4. \/ AskData(m) \/ AskDataResponse(m) \/ GrantWrite(m) \/ WantToWriteResponse(m)
        \/ DataWritten(m) \/ RevalidateData(m)
    BY <1>1, <1>3 DEF Deliver, StartupData, StartupDataResponse, Receive, KeyTypes
  <1>5. UNCHANGED <<waitStartup, current>> /\ net \ {m} \subseteq net'
    BY <1>4 DEF AskData, AskDataResponse, GrantWrite, WantToWriteResponse, DataWritten,
                RevalidateData, server
  <1>6. th \in [Threads -> Calls]
    BY DEF TypeOK
  <1>7. /\ th'[t].reply = th[t].reply
        /\ th'[t].pc = "idle" => th'[t].val = th[t].val
        /\ \/ th'[t].got = th[t].got /\ th'[t].val = th[t].val
           \/ th'[t].val = th[t].val /\ th[t].pc \in WritePCs
           \/ m.type = "AskDataResponse" /\ th'[t].val = m.data
    <2>1. CASE AskDataResponse(m)
      <3>1. t \in waitingData[m.to][m.key] => th[t].pc = "reading"
        BY <1>3, WhereRegistered
      <3> QED
        BY <1>6, <2>1, <3>1 DEF AskDataResponse, Receive, Calls
    <2>2. CASE WantToWriteResponse(m)
      <3>1. t \in wantToWrite[m.to][m.key].holder => th[t].pc \in WritePCs
        BY <1>3 DEF CallbacksLive
      <3> QED
        BY <1>6, <2>2, <3>1 DEF WantToWriteResponse, Calls
    <2>3. CASE th' = th
      BY <2>3
    <2> QED
      BY <1>4, <2>1, <2>2, <2>3 DEF AskData, GrantWrite, DataWritten, RevalidateData
  <1>8. Kinds(t)'
    <2>1. \A n \in net' : \/ n \in net
                          \/ n.type = "AskDataResponse" /\ m.type = "AskData"
                          \/ n.type = "WantToWriteResponse" /\ m.type = "WantToWrite"
      BY <1>1, <1>3
    <2>2. \A n \in net' : /\ n.type \in KeyTypes
                          /\ th[t].pc \in {"asked", "reading"} => n.type \in {"AskData", "AskDataResponse"}
                          /\ th[t].pc \in WritePCs => n.type \notin {"AskData", "AskDataResponse"}
      BY <1>2, <2>1 DEF Kinds, KeyTypes
    <2>3. \A n, o \in net' : ~(n.type = "DataWritten" /\ o.type = "RevalidateData")
      BY <1>2, <2>1 DEF Kinds
    <2> QED
      BY <1>1, <1>2, <1>5, <1>7, <2>2, <2>3 DEF Kinds
  <1>9. Answers(t)'
    <2>1. ASSUME NEW n \in net', n.type = "AskDataResponse" PROVE n.data \in current[n.key]
      <3>1. CASE n \in net
        BY <1>2, <2>1, <3>1 DEF Answers
      <3>2. CASE n \notin net
        <4>1. m.type = "AskData"
          BY <1>1, <2>1, <3>2 DEF KeyTypes
        <4>2. AskData(m)
          BY <1>4, <4>1 DEF AskDataResponse, GrantWrite, WantToWriteResponse, DataWritten,
                   RevalidateData, Receive
        <4>3. Valid(m.to, m.key) /\ n \in Unicast(m.to, "AskDataResponse", m.from, m.key,
                                                db[m.to][m.key].data, m.op)
          BY <3>2, <4>2 DEF AskData
        <4>4. n.data = db[m.to][m.key].data /\ n.key = m.key
          BY <4>3, InUnicast
        <4>5. m.to \in members \cap Servers
          BY <1>3, <4>1 DEF Sent, Answer, Rest
        <4>6. db[m.to][m.key].data \in Current(t, m.key)
          BY <1>2, <1>3, <4>3, <4>5 DEF Replicas, Present, Valid
        <4>7. th[t].pc # "written"
          BY <1>2, <4>1 DEF Kinds, WritePCs
        <4> QED
          BY <4>4, <4>6, <4>7 DEF Current
      <3> QED
        BY <3>1, <3>2
    <2>2. th'[t].pc \in {"asked", "reading"} /\ th'[t].got => th'[t].val \in current[th[t].key]
      BY <1>1, <1>2, <1>3, <1>7 DEF Answers, WritePCs
    <2> QED
      BY <1>1, <1>2, <1>5, <1>7, <2>1, <2>2 DEF Answers
  <1>10. \A q \in Keys : Current(t, q)' = Current(t, q)
    <2>1. th[t].pc = "written" => th'[t].val = th[t].val
      BY <1>2, <1>7 DEF Kinds, WritePCs
    <2> QED
      BY <1>1, <1>5, <2>1 DEF Current
  <1>11. Replicas(t, X)'
    <2>1. CASE DataWritten(m)
      <3>1. /\ m.type = "DataWritten" /\ net' = net \ {m}
            /\ db' = [db EXCEPT ![m.to][m.key] = Purged(@)]
        BY <2>1 DEF DataWritten, Receive
      <3>2. Dirty(m.to, m.key) /\ m.to \in members \cap Servers
        BY <1>3, <3>1 DEF Dirty, Sent, Answer, Rest
      <3>3. ~Valid(m.to, m.key)
        BY <1>2, <1>3, <3>2 DEF Replicas
      <3>4. db'[m.to][m.key].status = "absent"
        BY <1>3, <3>1, <3>3 DEF TypeOK, Rows, Purged, NoRow, Row, Valid
      <3> SUFFICES ASSUME NEW r \in members \cap Servers, NEW q \in Keys
                   PROVE  /\ Valid(r, q)' => ~Dirty(r, q)' /\ db'[r][q].data \in Current(t, q)
                          /\ Present(r, q)' /\ ~Dirty(r, q)' /\ r \notin X
                                => db'[r][q].data \in Current(t, q)
        BY <1>1, <1>10 DEF Replicas
      <3>5. CASE r = m.to /\ q = m.key
        BY <3>4, <3>5 DEF Present, Valid
      <3>6. CASE ~(r = m.to /\ q = m.key)
        <4>1. db'[r][q] = db[r][q]
          BY <1>3, <3>1, <3>6 DEF TypeOK
        <4>2. Dirty(r, q)' <=> Dirty(r, q)
          BY <3>1, <3>6 DEF Dirty
        <4> QED
          BY <1>2, <4>1, <4>2 DEF Replicas, Present, Valid
      <3> QED
        BY <3>5, <3>6
    <2>2. CASE ~DataWritten(m)
      <3>1. m.type # "DataWritten"
        BY <1>4, <2>2 DEF AskData, AskDataResponse, GrantWrite, WantToWriteResponse,
                 RevalidateData, Receive
      <3>2. \A r, q : Dirty(r, q)' <=> Dirty(r, q)
        <4>1. \A n \in net' \ net : n.type # "DataWritten"
          BY <1>1, <1>3
        <4>2. \A n \in net \ net' : n.type # "DataWritten"
          BY <1>5, <3>1
        <4> QED
          BY <4>1, <4>2, SameDirty
      <3>3. ASSUME NEW r \in members \cap Servers, NEW q \in Keys
            PROVE  /\ Present(r, q)' => Present(r, q) /\ db'[r][q].data = db[r][q].data
                   /\ Valid(r, q)' => Valid(r, q) \/ (~Dirty(r, q) /\ r \notin X)
        <4>1. CASE GrantWrite(m)
          BY <1>3, <4>1 DEF GrantWrite, TypeOK, Rows, Invalidated, Row, Present, Valid
        <4>2. CASE RevalidateData(m)
          <5>1. m.type = "RevalidateData" /\ db' = [db EXCEPT ![m.to][m.key] = Revalidated(@)]
            BY <4>2 DEF RevalidateData, Receive
          <5>2. ~Dirty(r, q)
            BY <1>2, <5>1 DEF Kinds, Dirty
          <5>3. Present(r, q)' => Present(r, q) /\ db'[r][q].data = db[r][q].data
            BY <1>3, <5>1 DEF TypeOK, Rows, Revalidated, Row, Present
          <5>4. r \in X /\ Valid(r, q)' => Valid(r, q)
            <6>1. m.to \notin X
              BY <5>1 DEF Spared
            <6>2. r \in X => db'[r][q] = db[r][q]
              BY <1>3, <5>1, <6>1 DEF TypeOK
            <6> QED
              BY <6>2 DEF Valid
          <5> QED
            BY <5>2, <5>3, <5>4
        <4>3. CASE db' = db
          BY <4>3 DEF Present, Valid
        <4> QED
          BY <1>4, <2>2, <4>1, <4>2, <4>3 DEF AskData, AskDataResponse, WantToWriteResponse, server
      <3> QED
        BY <1>1, <1>2, <1>10, <3>2, <3>3, ReplicasKept
    <2> QED
      BY <2>1, <2>2
  <1> QED
    BY <1>2, <1>5, <1>8, <1>9, <1>11 DEF ValueInv, OneValue

\* Every step, in a group that does not change.
LEMMA ValueStep ==
    ASSUME TypeOK, CallbacksLive, NEW t \in Threads, NEW X, Caller(t), Stable, ClientInv(t), ValueInv(t, X),
           Spared(X), [Next]_vars
    PROVE  ValueInv(t, X)'
  <1>1. ASSUME NEW x, NEW m, NEW cause, Regroup(x, m, cause) PROVE FALSE
    BY <1>1 DEF Regroup, Stable, TypeOK
  <1>2. ~ServiceJoins /\ ~ServiceLeaves /\ \A s \in Servers : ~Join(s) /\ ~Crash(s)
    BY <1>1 DEF ServiceJoins, ServiceLeaves, Join, Crash
  <1>3. ASSUME NEW s \in Servers, Notice(s) PROVE FALSE
    BY <1>3 DEF Notice, UpdateNumberOfParticipants, CheckStartup, NextView, ValueInv, Kinds
  <1>4. CASE UNCHANGED vars
    <2>1. UNCHANGED <<db, members, views, participants, waitStartup, th, net, current>>
      BY <1>4 DEF vars, server, group
    <2>2. Kinds(t)'
      BY <2>1 DEF ValueInv, Kinds
    <2>3. Replicas(t, X)'
      BY <2>1 DEF ValueInv, Replicas, Current, Dirty, Present, Valid
    <2>4. Answers(t)'
      BY <2>1 DEF ValueInv, Answers
    <2> QED
      BY <2>1, <2>2, <2>3, <2>4 DEF ValueInv, OneValue
  <1> QED
    BY <1>2, <1>3, <1>4, ValueCall, ValueWork, ValueDeliver DEF Next, Listen

\* The start.
LEMMA ValueInit ==
    ASSUME Init, TypeOK, NEW t \in Threads, NEW X
    PROVE  ValueInv(t, X)
  <1>1. th[t].pc = "idle" /\ th[t].reply = "none"
    BY DEF Init
  <1>2. net = {} /\ \A s \in Servers : views[s] = <<>>
    BY DEF Init
  <1>3. \A s \in members \cap Servers : participants[s] # 2 => ~waitStartup[s]
    <2> SUFFICES ASSUME NEW s \in members \cap Servers, participants[s] # 2
                 PROVE  ~waitStartup[s]
      OBVIOUS
    <2>1. s \in InitialServers /\ participants[s] = Cardinality(InitialServers \cup {Service})
      BY ConstantAssumption DEF Init
    <2>2. IsFiniteSet(InitialServers) /\ Service \notin InitialServers
      BY ConstantAssumption, FS_Subset
    <2>3. Cardinality(InitialServers \cup {Service}) = Cardinality(InitialServers) + 1
      BY <2>2, FS_AddElement
    <2>4. Cardinality(InitialServers) # 1
      BY <2>1, <2>3
    <2> QED
      BY <2>1, <2>4 DEF Init
  <1>4. Kinds(t)
    BY <1>1, <1>2, <1>3 DEF Kinds, WritePCs
  <1>5. Replicas(t, X)
    BY <1>2 DEF Init, Replicas, Dirty, Present, Valid, NoRow, Row
  <1>6. Answers(t) /\ \A k \in Keys : OneValue(k)
    BY <1>1, <1>2 DEF Init, Answers, OneValue
  <1> QED
    BY <1>4, <1>5, <1>6 DEF ValueInv

\* The invariant, whoever the client's thread is.
StableInv == LoneInv /\ (Stable => \A t \in Threads : Lone(t) => ValueInv(t, {}))

\* It holds at the start, and every step keeps it.
LEMMA StableInvCorrect == Spec => []StableInv
  <1>1. Init => (Stable => \A t \in Threads : Lone(t) => ValueInv(t, {}))
    BY TypeInit, ValueInit
  <1>2. /\ LoneInv /\ (Stable => \A t \in Threads : Lone(t) => ValueInv(t, {})) /\ [Next]_vars
        => (Stable => \A t \in Threads : Lone(t) => ValueInv(t, {}))'
    <2> SUFFICES ASSUME LoneInv, Stable => \A t \in Threads : Lone(t) => ValueInv(t, {}), [Next]_vars,
                        Stable', NEW t \in Threads, Lone(t)'
                 PROVE  ValueInv(t, {})'
      OBVIOUS
    <2>1. Lone(t) /\ Caller(t) /\ Stable
      BY EnvStays DEF Lone, Caller, Stable
    <2> QED
      BY <2>1, ValueStep DEF LoneInv, Spared
  <1> QED
    BY <1>1, <1>2, LoneInvCorrect, PTL DEF Spec, StableInv

\* The reads of one client, in a group that does not change.
LEMMA StableReads ==
    ASSUME StableInv, Stable
    PROVE  ReadsAreFresh
  <1> SUFFICES ASSUME OneClient, NEW u \in Threads, th[u].pc = "idle", th[u].reply = "value"
               PROVE  th[u].val \in current[th[u].key]
    BY DEF ReadsAreFresh, Sequential
  <1>1. PICK t \in Threads : env.threads = {t}
    BY ClientThread DEF StableInv, LoneInv
  <1>2. ClientInv(t) /\ ValueInv(t, {})
    BY <1>1 DEF StableInv, LoneInv, Lone, Caller, OneClient
  <1>3. u = t
    BY <1>2 DEF ClientInv, Alone
  <1> QED
    BY <1>2, <1>3 DEF ValueInv, Answers

\* The replicas of one client's writes, in a group that does not change.
LEMMA StableReplicas ==
    ASSUME StableInv, Stable
    PROVE  ReplicasAgree
  <1> SUFFICES ASSUME OneClient, NEW k \in Keys,
                      NEW s \in members \cap Servers, NEW r \in members \cap Servers,
                      Valid(s, k), Valid(r, k)
               PROVE  db[s][k].data = db[r][k].data
    BY DEF ReplicasAgree, SameValue
  <1>1. PICK t \in Threads : env.threads = {t}
    BY ClientThread DEF StableInv, LoneInv
  <1>2. ValueInv(t, {})
    BY <1>1 DEF StableInv, LoneInv, Lone, Caller, OneClient
  <1>3. db[s][k].data \in Current(t, k) /\ db[r][k].data \in Current(t, k)
    BY <1>2 DEF ValueInv, Replicas, Present, Valid
  <1> QED
    BY <1>2, <1>3 DEF ValueInv, OneValue, Current

----------------------------------------------------------------------------
(* The count of the responses is exact, where everybody answers in time.   *)

\* A call arrives: nobody has been asked before.
LEMMA ExactCall ==
    ASSUME TypeOK, CallbacksLive, NEW t \in Threads, Caller(t), ClientInv(t), Exact(t),
           NEW u \in Threads, Call(u)
    PROVE  Exact(t)'
  <1>1. PICK s \in Servers, k \in Keys :
          \/ ReadLocal(u, s, k)
          \/ ReadInvalid(u, s, k)
          \/ AskGroup(u, s, k)
          \/ \E v \in Values : WriteAlone(u, s, k, v) \/ SendWantToWrite(u, s, k, v)
    BY DEF Call
  <1>2. Arrives(u, s)
    BY <1>1 DEF ReadLocal, ReadInvalid, AskGroup, WriteAlone, SendWantToWrite
  <1>3. /\ u = t /\ net = {} /\ s \in members /\ th[t].pc = "idle"
        /\ participants[s] = Cardinality(members) /\ Service \in members
    BY <1>2, Arrival DEF ClientInv, GroupKnown
  <1>4. members' = members
    BY <1>1 DEF ReadLocal, ReadInvalid, AskGroup, WriteAlone, SendWantToWrite, group
  <1>5. th \in [Threads -> Calls]
    BY DEF TypeOK
  <1>6. CASE ReadLocal(u, s, k) \/ ReadInvalid(u, s, k) \/ AskGroup(u, s, k)
             \/ \E v \in Values : WriteAlone(u, s, k, v)
    <2>1. net' = net \/ net' = net \cup Multicast(s, "AskData", k, ops + 1)
      BY <1>6 DEF ReadLocal, ReadInvalid, AskGroup, WriteAlone
    <2>2. th'[t].pc \in {"idle", "asked"}
      BY <1>3, <1>5, <1>6 DEF ReadLocal, ReadInvalid, AskGroup, WriteAlone, NewCall
    <2>3. \A m \in net' : m.type = "AskData"
      BY <1>3, <2>1, InMulticast
    <2> QED
      BY <2>2, <2>3 DEF Exact
  <1>7. ASSUME NEW v \in Values, SendWantToWrite(u, s, k, v) PROVE Exact(t)'
    <2>1. /\ net' = Multicast(s, "WantToWrite", k, ops + 1)
          /\ wantToWrite' = [wantToWrite EXCEPT ![s][k] = [holder |-> {t}, received |-> 0]]
          /\ participants[s] # 2
          /\ \E reply : th' = [th EXCEPT ![t] = NewCall("writing", s, k, v, reply)]
      BY <1>3, <1>7 DEF SendWantToWrite
    <2>2. th'[t].pc = "writing" /\ th'[t].srv = s /\ th'[t].key = k
      BY <1>5, <2>1 DEF NewCall
    <2>3. \A m \in net' : m.type = "WantToWrite"
      BY <2>1, InMulticast
    <2>4. Answered(t)' = {} /\ Cardinality(Answered(t)') = 0
      BY <1>4, <2>1, <2>2, AllUnasked
    <2>5. Rest(t)' # {}
      <3>1. Rest(t)' = (members \cap Servers) \ {s}
        BY <1>4, <2>2 DEF Rest
      <3>2. Cardinality(Rest(t)') = Cardinality(members) - 2 /\ Cardinality(members) \in Nat
        BY <1>3, <3>1, GroupSize
      <3>3. Cardinality(Rest(t)') # 0
        BY <1>3, <2>1, <3>2
      <3> QED
        BY <3>3, FS_EmptySet
    <2>6. wantToWrite'[s][k].holder = {t} /\ wantToWrite'[s][k].received = 0
      BY <2>1 DEF TypeOK
    <2> QED
      BY <2>2, <2>3, <2>4, <2>5, <2>6 DEF Exact
  <1> QED
    BY <1>1, <1>6, <1>7

\* A patient writer whose messages have all arrived has all the answers.
LEMMA NoWriteTimeout ==
    ASSUME TypeOK, CallbacksLive, NEW t \in Threads, ClientInv(t), AllAnswer, Exact(t)
    PROVE  ~WriteTimeout(t)
  <1> SUFFICES ASSUME WriteTimeout(t) PROVE FALSE
    OBVIOUS
  <1>1. th[t].pc = "writing" /\ Expired(th[t].key) /\ ~th[t].got
    BY DEF WriteTimeout, AllAnswer
  <1>2. \A m \in net : m.type \in {"WantToWrite", "WantToWriteResponse"} /\ m.key = th[t].key
    BY <1>1 DEF ClientInv, Counting, Traffic, KeyTypes
  <1>3. net = {}
    BY <1>1, <1>2 DEF Expired, AllAnswer, KeyTypes
  <1>4. Answered(t) = Rest(t)
    BY <1>3 DEF Answered, Unasked, Answering
  <1> QED
    BY <1>1, <1>4 DEF Exact

\* A thread does a step on its own: no write is given up.
LEMMA ExactWork ==
    ASSUME TypeOK, CallbacksLive, NEW t \in Threads, Caller(t), ClientInv(t), AllAnswer, Exact(t),
           NEW u \in Threads, Work(u)
    PROVE  Exact(t)'
  <1>1. \/ RegisterCallback(t) \/ SaveCopy(t) \/ RequestTimeout(t)
        \/ AllGranted(t) \/ SaveGranted(t) \/ ReleaseLock(t)
    BY WorkFacts, NoWriteTimeout
  <1>2. th \in [Threads -> Calls]
    BY DEF TypeOK
  <1>3. CASE RegisterCallback(t) \/ SaveCopy(t) \/ RequestTimeout(t) \/ ReleaseLock(t)
    <2>1. th'[t].pc \in {"reading", "idle"} /\ net' = net /\ th[t].pc # "writing"
      BY <1>2, <1>3 DEF RegisterCallback, SaveCopy, RequestTimeout, ReleaseLock, Calls
    <2> QED
      BY <2>1 DEF Exact
  <1>4. CASE AllGranted(t)
    <2>1. net' = net /\ th[t].pc = "writing" /\ th[t].got /\ th'[t].pc = "granted"
      BY <1>2, <1>4 DEF AllGranted, Calls
    <2>2. Unasked(t) = {} /\ Traffic(t)
      BY <2>1 DEF ClientInv, Counting
    <2>3. \A m \in net : m.type # "WantToWrite"
      BY <2>2 DEF Traffic, Sent, Answer, KeyTypes, Unasked
    <2> QED
      BY <2>1, <2>3 DEF Exact
  <1>5. CASE SaveGranted(t)
    <2>1. /\ th[t].pc = "granted" /\ th'[t].pc = "written"
          /\ net' = net \cup Multicast(th[t].srv, "DataWritten", th[t].key, th[t].op)
      BY <1>2, <1>5 DEF SaveGranted, SaveDataLocally, Calls
    <2>2. \A m \in net' \ net : m.type = "DataWritten"
      BY <2>1, InMulticast
    <2> QED
      BY <2>1, <2>2 DEF Exact
  <1> QED
    BY <1>1, <1>3, <1>4, <1>5

\* A server that answers goes from those not asked to those whose answer is on its way.
LEMMA ExactGrant ==
    ASSUME TypeOK, CallbacksLive, NEW t \in Threads, Caller(t), ClientInv(t), AllAnswer, Exact(t),
           NEW m \in net, GrantWrite(m)
    PROVE  Exact(t)'
  <1>1. m.type = "WantToWrite" /\ Deliver(m) /\ UNCHANGED <<members, wantToWrite, th>>
    BY DEF GrantWrite, Receive, Deliver, group
  <1>2. th[t].pc = "writing"
    BY <1>1 DEF Exact
  <1>3. /\ m.to \in Unasked(t) /\ Unasked(t)' = Unasked(t) \ {m.to}
        /\ Rest(t)' = Rest(t) /\ Answering(t) \subseteq Answering(t)'
        /\ Answering(t)' \subseteq Answering(t) \cup {m.to}
    BY <1>2, GrantCounts
  <1>4. m \in KeyMessages /\ Sent(t, m)
    BY <1>1, DeliverFacts DEF KeyTypes, Answer
  <1>5. m.to \in Rest(t) /\ m.from \in members /\ m.to \notin TestConflict
    <2>1. th[t].srv \in members
      BY <1>2 DEF ClientInv, Busy
    <2> QED
      BY <1>4, <2>1 DEF Sent, Rest, AllAnswer
  <1>6. m.to \in Answering(t)'
    <2> DEFINE n == [type |-> "WantToWriteResponse", from |-> m.to, to |-> m.from,
                     key |-> m.key, data |-> Empty, op |-> m.op]
    <2>1. n \in Unicast(m.to, "WantToWriteResponse", m.from, m.key, Empty, m.op)
      BY <1>5 DEF Unicast
    <2>2. n \in net' /\ n.type = "WantToWriteResponse" /\ n.from = m.to
      BY <1>5, <2>1 DEF GrantWrite
    <2> QED
      BY <1>3, <1>5, <2>2 DEF Answering
  <1>7. Answered(t)' = Answered(t)
    BY <1>3, <1>6 DEF Answered
  <1>8. \A n \in net' \ net : n.type = "WantToWriteResponse"
    BY InUnicast DEF GrantWrite
  <1>9. \A n \in net' : n.type # "RevalidateData"
    BY <1>8 DEF Exact
  <1> QED
    BY <1>1, <1>2, <1>3, <1>7, <1>9 DEF Exact

\* The writer counts every response, and the last one makes them enough.
LEMMA ExactResponse ==
    ASSUME TypeOK, CallbacksLive, NEW t \in Threads, Caller(t), ClientInv(t), Exact(t),
           th[t].pc = "writing", NEW m \in net, WantToWriteResponse(m)
    PROVE  Exact(t)'
  <1>1. m.type = "WantToWriteResponse" /\ Deliver(m) /\ net' = net \ {m}
    BY DEF WantToWriteResponse, Receive, Deliver
  <1>2. th'[t].srv = th[t].srv /\ th'[t].key = th[t].key /\ th'[t].pc = th[t].pc
    BY <1>1, DeliverFacts
  <1>3. th \in [Threads -> Calls] /\ th[t].srv \in Servers /\ th[t].key \in Keys
    BY DEF TypeOK, Calls
  <1>4. /\ m.to = th[t].srv /\ m.key = th[t].key
        /\ Rest(t)' = Rest(t) /\ m.from \in Rest(t) \ Answered(t)
        /\ Answered(t)' = Answered(t) \cup {m.from}
        /\ Cardinality(Answered(t)') = Cardinality(Answered(t)) + 1
        /\ Cardinality(Answered(t)) \in Nat
        /\ participants[th[t].srv] - 2 = Cardinality(Rest(t))
    BY ResponseCounts
  <1>5. /\ wantToWrite[th[t].srv][th[t].key].holder = {t}
        /\ wantToWrite[th[t].srv][th[t].key].received = Cardinality(Answered(t))
        /\ Rest(t) # {}
    BY DEF Exact
  <1>6. /\ wantToWrite'[th[t].srv][th[t].key].holder = {t}
        /\ wantToWrite'[th[t].srv][th[t].key].received = Cardinality(Answered(t)) + 1
    BY <1>3, <1>4, <1>5 DEF WantToWriteResponse, TypeOK, Locks
  <1>7. ASSUME Answered(t)' = Rest(t)' PROVE th'[t].got
    <2>1. Cardinality(Answered(t)) + 1 = participants[th[t].srv] - 2
      BY <1>4, <1>7
    <2>2. Enough(wantToWrite[m.to][m.key].received + 1, participants[m.to])
      BY <1>4, <1>5, <2>1 DEF Enough
    <2>3. t \in wantToWrite[m.to][m.key].holder
      BY <1>4, <1>5
    <2> QED
      BY <1>3, <2>2, <2>3 DEF WantToWriteResponse, Calls
  <1> QED
    BY <1>1, <1>2, <1>4, <1>5, <1>6, <1>7 DEF Exact

\* The listener of a server handles a message.
LEMMA ExactDeliver ==
    ASSUME TypeOK, CallbacksLive, NEW t \in Threads, Caller(t), ClientInv(t), AllAnswer, Exact(t),
           NEW m \in net, Deliver(m)
    PROVE  Exact(t)'
  <1>1. /\ ~DetectConflict(m) /\ th'[t].pc = th[t].pc
        /\ \A n \in net' \ net : n.type \in KeyTypes =>
              n.type \in {"AskDataResponse", "WantToWriteResponse"}
    BY DeliverFacts
  <1>2. CASE th[t].pc = "writing"
    <2>1. m.type \in {"WantToWrite", "WantToWriteResponse"}
      BY <1>2 DEF ClientInv, Counting
    <2>2. GrantWrite(m) \/ WantToWriteResponse(m)
      BY <1>1, <2>1 DEF Deliver, Receive, AskData, AskDataResponse, ConflictReceived,
               DataWritten, RevalidateData, StartupData, StartupDataResponse
    <2> QED
      BY <1>2, <2>2, ExactGrant, ExactResponse
  <1>3. CASE th[t].pc # "writing"
    BY <1>1, <1>3 DEF Exact, KeyTypes
  <1> QED
    BY <1>2, <1>3

----------------------------------------------------------------------------
(* Nothing is lost: how a step may change what there is.                   *)

\* Steps that leave the rows alone and have nothing to do with a write under way.
LEMMA KeepQuiet ==
    ASSUME NEW t \in Threads, KeepInv(t), UNCHANGED <<db, current, members>>,
           \/ {th[t].pc, th'[t].pc} \cap {"writing", "granted", "written", "aborted"} = {}
           \/ /\ th[t].pc # "writing" /\ th'[t].pc = th[t].pc /\ th'[t].srv = th[t].srv
              /\ th'[t].key = th[t].key /\ th'[t].val = th[t].val,
           \A m \in net' \ net : m.type \notin {"WantToWrite", "DataWritten", "RevalidateData"},
           \A m \in net \ net' : m.type # "DataWritten"
    PROVE  KeepInv(t)'
  <1>1. Exact(t) /\ Repaired(t) /\ Found(t)
    BY DEF KeepInv
  <1>2. Exact(t)'
    BY <1>1 DEF Exact
  <1>3. \A r, k : Dirty(r, k)' <=> Dirty(r, k)
    BY SameDirty
  <1>4. Repaired(t)'
    BY <1>1, <1>3 DEF Repaired, Present
  <1>5. Found(t)'
    BY <1>1 DEF Found, Valid
  <1> QED
    BY <1>2, <1>4, <1>5 DEF KeepInv

\* A call arrives: nothing is on its way, so nothing is invalid.
LEMMA KeepCall ==
    ASSUME TypeOK, CallbacksLive, NEW t \in Threads, Caller(t), ClientInv(t), KeepInv(t),
           NEW u \in Threads, Call(u)
    PROVE  KeepInv(t)'
  <1>1. PICK s \in Servers, k \in Keys :
          \/ ReadLocal(u, s, k)
          \/ ReadInvalid(u, s, k)
          \/ AskGroup(u, s, k)
          \/ \E v \in Values : WriteAlone(u, s, k, v) \/ SendWantToWrite(u, s, k, v)
    BY DEF Call
  <1>2. Arrives(u, s)
    BY <1>1 DEF ReadLocal, ReadInvalid, AskGroup, WriteAlone, SendWantToWrite
  <1>3. /\ u = t /\ net = {} /\ s \in members /\ th[t].pc = "idle"
        /\ participants[s] = Cardinality(members) /\ Service \in members
    BY <1>2, Arrival DEF ClientInv, GroupKnown
  <1>4. members' = members
    BY <1>1 DEF ReadLocal, ReadInvalid, AskGroup, WriteAlone, SendWantToWrite, group
  <1>5. Exact(t) /\ Repaired(t) /\ Found(t)
    BY DEF KeepInv
  <1>e. Exact(t)'
    BY <1>5, ExactCall
  <1>6. th \in [Threads -> Calls]
    BY DEF TypeOK
  <1>7. \A r \in Servers, q \in Keys : /\ Present(r, q) => r \in members
                                       /\ db[r][q].status # "invalid"
    BY <1>3, <1>5 DEF Repaired, Dirty
  <1>8. \A q \in Keys : current[q] # {} =>
           \E r \in Servers : Valid(r, q) /\ db[r][q].data \in current[q]
    BY <1>3, <1>5 DEF Found
  <1>9. CASE ReadLocal(u, s, k) \/ ReadInvalid(u, s, k) \/ AskGroup(u, s, k)
    <2>1. UNCHANGED <<db, current>> /\ (net' = net \/ net' = net \cup Multicast(s, "AskData", k, ops + 1))
      BY <1>9 DEF ReadLocal, ReadInvalid, AskGroup, server
    <2>2. th'[t].pc \in {"idle", "asked"}
      BY <1>3, <1>6, <1>9 DEF ReadLocal, ReadInvalid, AskGroup, NewCall
    <2>3. \A m \in net' \ net : m.type = "AskData"
      BY <2>1, InMulticast
    <2>4. net \ net' = {}
      BY <1>3
    <2> QED
      BY <1>3, <1>4, <2>1, <2>2, <2>3, <2>4, KeepQuiet
  <1>10. ASSUME NEW v \in Values, WriteAlone(u, s, k, v) PROVE KeepInv(t)'
    <2>1. /\ net' = net /\ db' = [db EXCEPT ![s][k] = Saved(v)]
          /\ current' = [current EXCEPT ![k] = {v}]
          /\ th' = [th EXCEPT ![t] = NewCall("idle", s, k, v, "ok")]
      BY <1>3, <1>10 DEF WriteAlone
    <2>2. th'[t].pc = "idle"
      BY <1>6, <2>1 DEF NewCall
    <2>4. /\ db'[s][k].status = "valid" /\ db'[s][k].data = v
          /\ \A r \in Servers, q \in Keys : ~(r = s /\ q = k) => db'[r][q] = db[r][q]
      BY <2>1 DEF TypeOK, Saved, Row
    <2>5. Repaired(t)'
      BY <1>3, <1>4, <1>7, <2>4 DEF Repaired, Present
    <2>6. ASSUME NEW q \in Keys, current'[q] # {}
          PROVE  \E r \in Servers : Valid(r, q)' /\ db'[r][q].data \in current'[q]
      <3>1. CASE q = k
        BY <2>1, <2>4, <3>1 DEF Valid, TypeOK
      <3>2. CASE q # k
        <4>1. current'[q] = current[q]
          BY <2>1, <3>2 DEF TypeOK
        <4>2. PICK r \in Servers : Valid(r, q) /\ db[r][q].data \in current[q]
          BY <1>8, <2>6, <4>1
        <4> QED
          BY <2>4, <3>2, <4>1, <4>2 DEF Valid
      <3> QED
        BY <3>1, <3>2
    <2>7. Found(t)'
      BY <2>2, <2>6 DEF Found
    <2> QED
      BY <1>e, <2>5, <2>7 DEF KeepInv
  <1>11. ASSUME NEW v \in Values, SendWantToWrite(u, s, k, v) PROVE KeepInv(t)'
    <2>1. /\ db' = [db EXCEPT ![s][k] = Invalidated(@)]
          /\ \E reply : th' = [th EXCEPT ![t] = NewCall("writing", s, k, v, reply)]
      BY <1>3, <1>11 DEF SendWantToWrite
    <2>2. th'[t].pc = "writing" /\ th'[t].srv = s /\ th'[t].key = k
      BY <1>6, <2>1 DEF NewCall
    <2>8. /\ \A r \in Servers, q \in Keys : ~(r = s /\ q = k) => db'[r][q] = db[r][q]
          /\ db'[s][k].status # "absent" => Present(s, k)
      BY <2>1 DEF TypeOK, Invalidated, Row, Present
    <2>9. Repaired(t)'
      BY <1>4, <1>7, <2>2, <2>8 DEF Repaired, Present
    <2>10. ASSUME NEW q \in Keys, q # k, current'[q] # {}
           PROVE  \E r \in Servers : Valid(r, q)' /\ db'[r][q].data \in current'[q]
      <3>1. current'[q] = current[q]
        BY <1>11, <2>10 DEF SendWantToWrite, TypeOK
      <3>2. PICK r \in Servers : Valid(r, q) /\ db[r][q].data \in current[q]
        BY <1>8, <2>10, <3>1
      <3> QED
        BY <2>8, <2>10, <3>1, <3>2 DEF Valid
    <2>11. Found(t)'
      BY <2>2, <2>10 DEF Found
    <2> QED
      BY <1>e, <2>9, <2>11 DEF KeepInv
  <1> QED
    BY <1>1, <1>9, <1>10, <1>11

\* A thread does a step on its own.
LEMMA KeepWork ==
    ASSUME TypeOK, CallbacksLive, NEW t \in Threads, Caller(t), ClientInv(t), ValueInv(t, {}),
           AllAnswer, KeepInv(t), NEW u \in Threads, Work(u)
    PROVE  KeepInv(t)'
  <1>1. /\ th[t].pc # "idle"
        /\ \/ RegisterCallback(t) \/ SaveCopy(t) \/ RequestTimeout(t)
           \/ AllGranted(t) \/ SaveGranted(t) \/ WriteTimeout(t) \/ ReleaseLock(t)
        /\ UNCHANGED <<members, views, participants>>
        /\ th'[t].srv = th[t].srv /\ th'[t].key = th[t].key /\ th'[t].got = th[t].got
    BY WorkFacts
  <1>2. Exact(t) /\ Repaired(t) /\ Found(t)
    BY DEF KeepInv
  <1>e. Exact(t)'
    BY <1>2, ExactWork
  <1>3. th \in [Threads -> Calls] /\ th[t].srv \in Servers /\ th[t].key \in Keys
    BY DEF TypeOK, Calls
  <1>4. th[t].srv \in members
    BY <1>1 DEF ClientInv, Busy
  <1>5. CASE RegisterCallback(t) \/ RequestTimeout(t)
    <2>1. UNCHANGED <<db, net, current>> /\ th[t].pc \in {"asked", "reading"}
      BY <1>5 DEF RegisterCallback, RequestTimeout
    <2>2. th'[t].pc \in {"reading", "idle"}
      BY <1>3, <1>5 DEF RegisterCallback, RequestTimeout, Calls
    <2> QED
      BY <1>1, <2>1, <2>2, KeepQuiet
  <1>6. CASE SaveCopy(t)
    <2>1. UNCHANGED <<net, current>> /\ th[t].pc = "reading" /\ th[t].got
          /\ db' = [db EXCEPT ![th[t].srv][th[t].key] = Saved(th[t].val)]
          /\ th' = [th EXCEPT ![t].pc = "idle", ![t].reply = Reply(th[t].reply, "value")]
      BY <1>6 DEF SaveCopy
    <2>2. th'[t].pc = "idle"
      BY <1>3, <2>1 DEF Calls
    <2>4. /\ db'[th[t].srv][th[t].key].status = "valid" /\ db'[th[t].srv][th[t].key].data = th[t].val
          /\ \A r \in Servers, q \in Keys :
                ~(r = th[t].srv /\ q = th[t].key) => db'[r][q] = db[r][q]
      BY <1>3, <2>1 DEF TypeOK, Saved, Row
    <2>5. Repaired(t)'
      BY <1>1, <1>2, <1>4, <2>1, <2>4 DEF Repaired, Present, Dirty
    <2>6. th[t].val \in current[th[t].key]
      BY <2>1 DEF ValueInv, Answers
    <2>7. ASSUME NEW q \in Keys, current[q] # {}
          PROVE  \E r \in Servers : Valid(r, q)' /\ db'[r][q].data \in current[q]
      <3>1. CASE q = th[t].key
        BY <1>3, <2>4, <2>6, <3>1 DEF Valid
      <3>2. CASE q # th[t].key
        <4>1. PICK r \in Servers : Valid(r, q) /\ db[r][q].data \in current[q]
          BY <1>2, <2>1, <2>7 DEF Found
        <4> QED
          BY <2>4, <3>2, <4>1 DEF Valid
      <3> QED
        BY <3>1, <3>2
    <2>8. Found(t)'
      BY <2>1, <2>2, <2>7 DEF Found
    <2> QED
      BY <1>e, <2>5, <2>8 DEF KeepInv
  <1>7. CASE AllGranted(t)
    <2>1. UNCHANGED <<db, net, current>> /\ th[t].pc = "writing" /\ th[t].got
      BY <1>7 DEF AllGranted, server
    <2>2. th'[t].pc = "granted"
      BY <1>3, <1>7 DEF AllGranted, Calls
    <2>6. Repaired(t)'
      BY <1>1, <1>2, <2>1, <2>2 DEF Repaired, Present, Dirty
    <2>7. Found(t)'
      BY <1>1, <1>2, <2>1, <2>2 DEF Found, Valid
    <2> QED
      BY <1>e, <2>6, <2>7 DEF KeepInv
  <1>8. CASE SaveGranted(t)
    <2>1. /\ th[t].pc = "granted" /\ current' = current
          /\ db' = [db EXCEPT ![th[t].srv][th[t].key] = Saved(th[t].val)]
          /\ net' = net \cup Multicast(th[t].srv, "DataWritten", th[t].key, th[t].op)
          /\ th' = [th EXCEPT ![t].pc = "written"]
      BY <1>8 DEF SaveGranted, SaveDataLocally
    <2>2. th'[t].pc = "written" /\ th'[t].val = th[t].val
      BY <1>3, <2>1 DEF Calls
    <2>5. /\ db'[th[t].srv][th[t].key].status = "valid" /\ db'[th[t].srv][th[t].key].data = th[t].val
          /\ \A r \in Servers, q \in Keys :
                ~(r = th[t].srv /\ q = th[t].key) => db'[r][q] = db[r][q]
      BY <1>3, <2>1 DEF TypeOK, Saved, Row
    <2>6. ASSUME NEW r \in Rest(t) PROVE Dirty(r, th[t].key)'
      <3> DEFINE m == [type |-> "DataWritten", from |-> th[t].srv, to |-> r, key |-> th[t].key,
                       data |-> Empty, op |-> th[t].op]
      <3>1. m \in net' /\ m.type = "DataWritten" /\ m.to = r /\ m.key = th[t].key
        BY <2>1 DEF Multicast, Rest
      <3> QED
        BY <1>1, <3>1 DEF Dirty
    <2>7. \A r, q : Dirty(r, q) => Dirty(r, q)'
      BY <2>1 DEF Dirty
    <2>8. ASSUME NEW r \in Servers, NEW q \in Keys
          PROVE  /\ Present(r, q)' => r \in members
                 /\ db'[r][q].status = "invalid" => Dirty(r, q)'
      <3>1. CASE r = th[t].srv /\ q = th[t].key
        BY <1>4, <2>5, <3>1
      <3>2. CASE ~(r = th[t].srv /\ q = th[t].key)
        <4>1. db'[r][q] = db[r][q]
          BY <2>5, <3>2
        <4>2. /\ Present(r, q) => r \in members
              /\ db[r][q].status = "invalid" => Dirty(r, q) \/ q = th[t].key
          BY <1>2 DEF Repaired
        <4>3. q = th[t].key /\ r \in members => r \in Rest(t)
          BY <3>2 DEF Rest
        <4> QED
          BY <1>1, <2>6, <2>7, <4>1, <4>2, <4>3 DEF Present
      <3> QED
        BY <3>1, <3>2
    <2>9. Repaired(t)'
      BY <1>1, <2>8 DEF Repaired
    <2>10. ASSUME NEW q \in Keys, q # th[t].key, current[q] # {}
           PROVE  \E r \in Servers : Valid(r, q)' /\ db'[r][q].data \in current[q]
      <3>1. PICK r \in Servers : Valid(r, q) /\ db[r][q].data \in current[q]
        BY <1>2, <2>10 DEF Found
      <3> QED
        BY <2>5, <2>10, <3>1 DEF Valid
    <2>11. Found(t)'
      BY <1>1, <2>1, <2>2, <2>5, <2>10 DEF Found, Valid
    <2> QED
      BY <1>e, <2>9, <2>11 DEF KeepInv
  <1>9. CASE ReleaseLock(t)
    <2>1. /\ th[t].pc = "written" /\ UNCHANGED <<db, net>>
          /\ th' = [th EXCEPT ![t].pc = "idle",
                     ![t].reply = Reply(th[t].reply, IF th[t].pc = "written" THEN "ok" ELSE "error")]
          /\ current' = IF th[t].pc = "written" /\ th[t].reply = "none"
                        THEN [current EXCEPT ![th[t].key] = {th[t].val}] ELSE current
      BY <1>2, <1>9 DEF ReleaseLock, Exact
    <2>2. th[t].reply = "none"
      BY <2>1 DEF ValueInv, Kinds, WritePCs
    <2>3. th'[t].pc = "idle" /\ current' = [current EXCEPT ![th[t].key] = {th[t].val}]
      BY <1>3, <2>1, <2>2 DEF Calls
    <2>5. Repaired(t)'
      BY <1>1, <1>2, <2>1, <2>3 DEF Repaired, Present, Dirty
    <2>6. ASSUME NEW q \in Keys, current'[q] # {}
          PROVE  \E r \in Servers : Valid(r, q)' /\ db'[r][q].data \in current'[q]
      <3>1. CASE q = th[t].key
        <4>1. current'[q] = {th[t].val}
          BY <1>3, <2>3, <3>1 DEF TypeOK
        <4>2. Valid(th[t].srv, q) /\ db[th[t].srv][q].data = th[t].val
          BY <1>2, <2>1, <3>1 DEF Found
        <4> QED
          BY <1>3, <2>1, <4>1, <4>2 DEF Valid
      <3>2. CASE q # th[t].key
        <4>1. current'[q] = current[q]
          BY <2>3, <3>2 DEF TypeOK
        <4>2. PICK r \in Servers : Valid(r, q) /\ db[r][q].data \in current[q]
          BY <1>2, <2>6, <3>2, <4>1 DEF Found
        <4> QED
          BY <2>1, <4>1, <4>2 DEF Valid
      <3> QED
        BY <3>1, <3>2
    <2>7. Found(t)'
      BY <2>3, <2>6 DEF Found
    <2> QED
      BY <1>e, <2>5, <2>7 DEF KeepInv
  <1> QED
    BY <1>1, <1>2, <1>5, <1>6, <1>7, <1>8, <1>9, NoWriteTimeout

\* A server that answers goes from those not asked to those whose answer is on its
\* way, and nobody else is affected.
LEMMA KeepGrant ==
    ASSUME TypeOK, CallbacksLive, NEW t \in Threads, Caller(t), ClientInv(t),
           AllAnswer, KeepInv(t), NEW m \in net, GrantWrite(m)
    PROVE  KeepInv(t)'
  <1>1. Exact(t) /\ Repaired(t) /\ Found(t)
    BY DEF KeepInv
  <1>2. /\ m.type = "WantToWrite" /\ Deliver(m)
        /\ UNCHANGED <<members, wantToWrite, th, current>>
        /\ db' = [db EXCEPT ![m.to][m.key] = Invalidated(@)]
    BY DEF GrantWrite, Receive, Deliver, group
  <1>3. th[t].pc = "writing"
    BY <1>1, <1>2 DEF Exact
  <1>5. m \in KeyMessages /\ m.key = th[t].key /\ Sent(t, m)
    BY <1>2, DeliverFacts DEF KeyTypes, Answer
  <1>6. m.to \in Servers /\ m.to \in members /\ m.key \in Keys
    BY <1>5 DEF Sent, Rest, KeyMessages
  <1>9. \A n \in net' \ net : n.type = "WantToWriteResponse"
    BY InUnicast DEF GrantWrite
  <1>10. Exact(t)'
    BY <1>1, ExactGrant
  <1>11. /\ \A r \in Servers, q \in Keys : ~(r = m.to /\ q = m.key) => db'[r][q] = db[r][q]
         /\ Present(m.to, m.key)' => Present(m.to, m.key)
    BY <1>2, <1>6 DEF TypeOK, Invalidated, Row, Present
  <1>12. \A r, q : Dirty(r, q)' <=> Dirty(r, q)
    <2>1. \A n \in net \ net' : n.type # "DataWritten"
      BY <1>2 DEF GrantWrite
    <2> QED
      BY <1>9, <2>1, SameDirty
  <1>13. Repaired(t)'
    <2> SUFFICES ASSUME NEW r \in Servers, NEW q \in Keys
                 PROVE  /\ Present(r, q)' => r \in members
                        /\ db'[r][q].status = "invalid" => Dirty(r, q)' \/ th[t].key = q
      BY <1>2, <1>3 DEF Repaired
    <2>1. CASE r = m.to /\ q = m.key
      BY <1>5, <1>6, <2>1
    <2>2. CASE ~(r = m.to /\ q = m.key)
      BY <1>1, <1>11, <1>12, <2>2 DEF Repaired, Present
    <2> QED
      BY <2>1, <2>2
  <1>14. ASSUME NEW q \in Keys, q # th[t].key, current[q] # {}
         PROVE  \E r \in Servers : Valid(r, q)' /\ db'[r][q].data \in current[q]
    <2>1. PICK r \in Servers : Valid(r, q) /\ db[r][q].data \in current[q]
      BY <1>1, <1>14 DEF Found
    <2> QED
      BY <1>5, <1>11, <1>14, <2>1 DEF Valid
  <1>15. Found(t)'
    BY <1>2, <1>3, <1>14 DEF Found
  <1> QED
    BY <1>10, <1>13, <1>15 DEF KeepInv

\* The writer counts every response, and the last one makes them enough.
LEMMA KeepResponse ==
    ASSUME TypeOK, CallbacksLive, NEW t \in Threads, Caller(t), ClientInv(t),
           KeepInv(t), NEW m \in net, WantToWriteResponse(m)
    PROVE  KeepInv(t)'
  <1>1. Exact(t) /\ Repaired(t) /\ Found(t)
    BY DEF KeepInv
  <1>2. /\ m.type = "WantToWriteResponse" /\ Deliver(m)
        /\ UNCHANGED <<members, db, current, participants>> /\ net' = net \ {m}
    BY DEF WantToWriteResponse, Receive, Deliver, group
  <1>3. /\ th'[t].srv = th[t].srv /\ th'[t].key = th[t].key /\ th'[t].pc = th[t].pc
    BY <1>2, DeliverFacts
  <1>4. th \in [Threads -> Calls] /\ th[t].srv \in Servers /\ th[t].key \in Keys
    BY DEF TypeOK, Calls
  <1>5. th'[t].val = th[t].val
    BY <1>4 DEF WantToWriteResponse, Calls
  <1>6. CASE th[t].pc # "writing"
    <2>1. \A n \in net \ net' : n.type # "DataWritten"
      BY <1>2
    <2> QED
      BY <1>2, <1>3, <1>5, <1>6, <2>1, KeepQuiet
  <1>7. CASE th[t].pc = "writing"
    <2>5. Exact(t)'
      BY <1>1, <1>7, ExactResponse
    <2>6. \A r, q : Dirty(r, q)' <=> Dirty(r, q)
      BY <1>2, SameDirty
    <2>7. Repaired(t)'
      BY <1>1, <1>2, <1>3, <2>6 DEF Repaired, Present
    <2>8. Found(t)'
      BY <1>1, <1>2, <1>3, <1>5 DEF Found, Valid
    <2> QED
      BY <2>5, <2>7, <2>8 DEF KeepInv
  <1> QED
    BY <1>6, <1>7

\* A server that hears that the key was written deletes its replica, which is invalid.
LEMMA KeepDataWritten ==
    ASSUME TypeOK, CallbacksLive, NEW t \in Threads, Caller(t), ClientInv(t), ValueInv(t, {}),
           KeepInv(t), NEW m \in net, DataWritten(m)
    PROVE  KeepInv(t)'
  <1>1. Exact(t) /\ Repaired(t) /\ Found(t)
    BY DEF KeepInv
  <1>2. /\ m.type = "DataWritten" /\ Deliver(m) /\ net' = net \ {m}
        /\ UNCHANGED <<members, wantToWrite, th, current>>
        /\ db' = [db EXCEPT ![m.to][m.key] = Purged(@)]
    BY DEF DataWritten, Receive, Deliver, group
  <1>3. m \in KeyMessages /\ m.key = th[t].key /\ Sent(t, m)
    BY <1>2, DeliverFacts DEF KeyTypes, Answer
  <1>4. m.to \in members \cap Servers /\ m.to # th[t].srv /\ m.key \in Keys
    BY <1>3 DEF Sent, Rest, KeyMessages
  <1>5. th[t].pc \notin {"writing", "granted"}
    BY <1>2 DEF ClientInv, Counting
  <1>6. ~Valid(m.to, m.key)
    <2>1. Dirty(m.to, m.key)
      BY <1>2 DEF Dirty
    <2> QED
      BY <1>4, <2>1 DEF ValueInv, Replicas
  <1>7. /\ db'[m.to][m.key].status = "absent"
        /\ \A r \in Servers, q \in Keys : ~(r = m.to /\ q = m.key) => db'[r][q] = db[r][q]
    BY <1>2, <1>4, <1>6 DEF TypeOK, Rows, Purged, NoRow, Row, Valid
  <1>8. Exact(t)'
    BY <1>1, <1>2, <1>5 DEF Exact
  <1>9. Repaired(t)'
    <2> SUFFICES ASSUME NEW r \in Servers, NEW q \in Keys
                 PROVE  /\ Present(r, q)' => r \in members
                        /\ db'[r][q].status = "invalid" => Dirty(r, q)'
      BY <1>2 DEF Repaired
    <2>1. CASE r = m.to /\ q = m.key
      BY <1>7, <2>1 DEF Present
    <2>2. CASE ~(r = m.to /\ q = m.key)
      <3>1. Dirty(r, q) => Dirty(r, q)'
        BY <1>2, <2>2 DEF Dirty
      <3> QED
        BY <1>1, <1>5, <1>7, <2>2, <3>1 DEF Repaired, Present
    <2> QED
      BY <2>1, <2>2
  <1>10. ASSUME NEW r \in Servers, NEW q \in Keys, Valid(r, q)
         PROVE  Valid(r, q)' /\ db'[r][q] = db[r][q]
    BY <1>6, <1>7, <1>10 DEF Valid
  <1>11. th[t].srv \in Servers /\ th[t].key \in Keys
    BY DEF TypeOK, Calls
  <1>12. Found(t)'
    <2>1. th[t].pc = "written" => /\ Valid(th[t].srv, th[t].key)'
                                  /\ db'[th[t].srv][th[t].key].data = th[t].val
      BY <1>1, <1>2, <1>10, <1>11 DEF Found
    <2>2. ASSUME NEW q \in Keys, current[q] # {}
          PROVE  \/ \E r \in Servers : Valid(r, q)' /\ db'[r][q].data \in current[q]
                 \/ th[t].key = q /\ th[t].pc \in {"writing", "granted", "written"}
      <3>1. CASE th[t].key = q /\ th[t].pc \in {"writing", "granted", "written"}
        BY <3>1
      <3>2. CASE ~(th[t].key = q /\ th[t].pc \in {"writing", "granted", "written"})
        <4>1. PICK r \in Servers : Valid(r, q) /\ db[r][q].data \in current[q]
          BY <1>1, <2>2, <3>2 DEF Found
        <4> QED
          BY <1>10, <4>1
      <3> QED
        BY <3>1, <3>2
    <2> QED
      BY <1>2, <2>1, <2>2 DEF Found
  <1> QED
    BY <1>8, <1>9, <1>12 DEF KeepInv

\* The listener of a server handles a message.
LEMMA KeepDeliver ==
    ASSUME TypeOK, CallbacksLive, NEW t \in Threads, Caller(t), ClientInv(t), ValueInv(t, {}),
           AllAnswer, KeepInv(t), NEW m \in net, Deliver(m)
    PROVE  KeepInv(t)'
  <1>1. /\ ~DetectConflict(m) /\ ~ConflictReceived(m) /\ UNCHANGED members
        /\ th'[t].pc = th[t].pc
        /\ \A n \in net' \ net : n.type \in KeyTypes =>
              n.type \in {"AskDataResponse", "WantToWriteResponse"}
    BY DeliverFacts
  <1>2. m.type \in KeyTypes /\ m.type # "RevalidateData"
    BY DEF ValueInv, Kinds, KeepInv, Exact
  <1>3. \/ AskData(m) \/ AskDataResponse(m) \/ GrantWrite(m) \/ WantToWriteResponse(m)
        \/ DataWritten(m)
    BY <1>1, <1>2 DEF Deliver, StartupData, StartupDataResponse, RevalidateData, Receive, KeyTypes
  <1>4. CASE AskData(m) \/ AskDataResponse(m)
    <2>1. m.type \in {"AskData", "AskDataResponse"} /\ UNCHANGED <<db, current>> /\ net \ {m} \subseteq net'
      BY <1>4 DEF AskData, AskDataResponse, Receive, server
    <2>2. th[t].pc \notin WritePCs
      BY <2>1 DEF ValueInv, Kinds
    <2>3. \A n \in net' \ net : n.type \notin {"WantToWrite", "DataWritten", "RevalidateData"}
      BY <1>1 DEF KeyTypes
    <2>4. \A n \in net \ net' : n.type # "DataWritten"
      BY <2>1
    <2> QED
      BY <1>1, <2>1, <2>2, <2>3, <2>4, KeepQuiet DEF WritePCs
  <1> QED
    BY <1>3, <1>4, KeepGrant, KeepResponse, KeepDataWritten

\* Every step, in a group that does not change.
LEMMA KeepStep ==
    ASSUME TypeOK, CallbacksLive, NEW t \in Threads, Caller(t), Stable, ClientInv(t), ValueInv(t, {}),
           AllAnswer, KeepInv(t), [Next]_vars
    PROVE  KeepInv(t)'
  <1>1. ASSUME NEW x, NEW m, NEW cause, Regroup(x, m, cause) PROVE FALSE
    BY <1>1 DEF Regroup, Stable, TypeOK
  <1>2. ~ServiceJoins /\ ~ServiceLeaves /\ \A s \in Servers : ~Join(s) /\ ~Crash(s)
    BY <1>1 DEF ServiceJoins, ServiceLeaves, Join, Crash
  <1>3. ASSUME NEW s \in Servers, Notice(s) PROVE FALSE
    BY <1>3 DEF Notice, UpdateNumberOfParticipants, CheckStartup, NextView, ValueInv, Kinds
  <1>4. CASE UNCHANGED vars
    <2>1. UNCHANGED <<db, members, wantToWrite, th, net, current>>
      BY <1>4 DEF vars, server, group
    <2>2. Rest(t)' = Rest(t) /\ Answered(t)' = Answered(t)
      BY <2>1 DEF Answered, Unasked, Answering, Rest
    <2>3. Exact(t)'
      BY <2>1, <2>2 DEF KeepInv, Exact
    <2>4. Repaired(t)' /\ Found(t)'
      BY <2>1 DEF KeepInv, Repaired, Found, Dirty, Present, Valid
    <2> QED
      BY <2>3, <2>4 DEF KeepInv
  <1> QED
    BY <1>2, <1>3, <1>4, KeepCall, KeepWork, KeepDeliver DEF Next, Listen

\* Where the group does not change, its members stay.
LEMMA MembersStay ==
    ASSUME TypeOK, Stable, [Next]_vars
    PROVE  members' = members
  <1>1. ASSUME NEW x, NEW m, NEW cause, Regroup(x, m, cause) PROVE FALSE
    BY <1>1 DEF Regroup, Stable, TypeOK
  <1>2. ~ServiceJoins /\ ~ServiceLeaves /\ \A s \in Servers : ~Join(s) /\ ~Crash(s)
    BY <1>1 DEF ServiceJoins, ServiceLeaves, Join, Crash
  <1>3. ASSUME NEW t \in Threads, Call(t) PROVE members' = members
    BY <1>3 DEF Call, ReadLocal, ReadInvalid, AskGroup, WriteAlone, SendWantToWrite, group
  <1>4. ASSUME NEW t \in Threads, Work(t) PROVE members' = members
    BY <1>4 DEF Work, RegisterCallback, SaveCopy, RequestTimeout, AllGranted, SaveGranted,
                WriteTimeout, WinConflict, LoseConflict, ReleaseLock, group
  <1>5. ASSUME NEW m \in net, Deliver(m) PROVE members' = members
    BY <1>5 DEF Deliver, AskData, AskDataResponse, GrantWrite, DetectConflict,
                WantToWriteResponse, ConflictReceived, DataWritten, RevalidateData,
                StartupData, StartupDataResponse, group
  <1>6. CASE (\E s \in Servers : Notice(s)) \/ UNCHANGED vars
    BY <1>6 DEF Notice, UpdateNumberOfParticipants, CheckStartup, vars, group
  <1> QED
    BY <1>2, <1>3, <1>4, <1>5, <1>6 DEF Next, Listen

\* The start: there are no rows.
LEMMA KeepInit ==
    ASSUME Init, NEW t \in Threads
    PROVE  KeepInv(t)
  <1>1. th[t].pc = "idle" /\ net = {}
    BY DEF Init
  <1>2. \A k \in Keys : current[k] = {} /\ \A s \in Servers : db[s][k].status = "absent"
    BY DEF Init, NoRow, Row
  <1> QED
    BY <1>1, <1>2 DEF KeepInv, Exact, Repaired, Found, Present

\* The invariant, whoever the client's thread is.
LastingInv ==
    StableInv /\ (Stable /\ AllAnswer => \A t \in Threads : Lone(t) => KeepInv(t))

\* It holds at the start, and every step keeps it.
LEMMA LastingInvCorrect == Spec => []LastingInv
  <1>1. Init => (Stable /\ AllAnswer => \A t \in Threads : Lone(t) => KeepInv(t))
    BY KeepInit
  <1>2. StableInv /\ (Stable /\ AllAnswer => \A t \in Threads : Lone(t) => KeepInv(t)) /\ [Next]_vars
        => (Stable /\ AllAnswer => \A t \in Threads : Lone(t) => KeepInv(t))'
    <2> SUFFICES ASSUME StableInv, Stable /\ AllAnswer => \A t \in Threads : Lone(t) => KeepInv(t),
                        [Next]_vars, Stable', AllAnswer', NEW t \in Threads, Lone(t)'
                 PROVE  KeepInv(t)'
      OBVIOUS
    <2>1. Lone(t) /\ Caller(t) /\ Stable /\ TypeOK
      BY EnvStays DEF Lone, Caller, Stable, StableInv, LoneInv
    <2>2. AllAnswer
      BY <2>1, EnvStays, MembersStay DEF AllAnswer
    <2> QED
      BY <2>1, <2>2, KeepStep DEF StableInv, LoneInv
  <1> QED
    BY <1>1, <1>2, StableInvCorrect, PTL DEF Spec, LastingInv

\* Whenever nothing is under way, an acknowledged value is valid at some server and
\* nothing is left invalid (writeData, wantToWriteReceived, dataWritten): every write of
\* one client, in a group that does not change and where everybody answers in time, is
\* granted, and every row that it invalidated is deleted or replaced, however many
\* servers there are.
THEOREM ReplicasRecoverCorrect == Spec => []ReplicasRecover
  <1>1. LastingInv => ReplicasRecover
    <2> SUFFICES ASSUME LastingInv, OneClient, Stable, AllAnswer, Settled
                 PROVE  LatestAvailable /\ NothingLeftInvalid
      BY DEF ReplicasRecover
    <2>1. PICK t \in Threads : env.threads = {t}
      BY ClientThread DEF LastingInv, StableInv, LoneInv
    <2>2. KeepInv(t)
      BY <2>1 DEF LastingInv, Lone, Caller, OneClient
    <2>3. th[t].pc = "idle" /\ net = {}
      BY DEF Settled
    <2>4. LatestAvailable
      BY <2>2, <2>3 DEF LatestAvailable, KeepInv, Found
    <2>5. NothingLeftInvalid
      BY <2>2, <2>3 DEF NothingLeftInvalid, KeepInv, Repaired, Dirty
    <2> QED
      BY <2>4, <2>5
  <1> QED
    BY <1>1, LastingInvCorrect, PTL

==============================================================================
