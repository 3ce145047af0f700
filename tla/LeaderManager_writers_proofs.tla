-------------------- MODULE LeaderManager_writers_proofs ---------------------
(***************************************************************************)
(* Proofs about LeaderManager where any number of handler threads of any   *)
(* servers write the same keys at once, in a group that does not change,   *)
(* whose servers all answer and have different cardinalities: not all of   *)
(* the writers of a key can be turned away.                                *)
(***************************************************************************)
EXTENDS LeaderManager_client_proofs

----------------------------------------------------------------------------
(* The competition for a key.                                              *)

Competition == Stable /\ AllAnswer /\ NoTies(members \cap Servers)

\* Every server of the group knows how many they are.
Steady ==
    /\ Service \in members
    /\ \A s \in Servers : /\ views[s] = <<>>
                          /\ s \in members => participants[s] = Cardinality(members)

\* A claim to a key comes from another server of the group; so does a writer's
\* rival, and a writer whose client has its answer already counts as acknowledged.
Claims == {"WantToWrite", "WriteConflict"}
Rightful ==
    /\ \A m \in net : m.type \in Claims =>
          m.from \in members /\ m.to \in members /\ m.from # m.to
    /\ \A t \in Threads : th[t].pc \in WritePCs =>
          /\ th[t].srv \in members \ th[t].conflict /\ th[t].conflict \subseteq members
          /\ th[t].reply # "none" => current[th[t].key] # {}

Writes(t, k)  == th[t].key = k /\ th[t].pc \in WritePCs
Claim(m, k)   == m.type \in Claims /\ m.key = k
Outranks(s, r) == Cardinal(r) <= Cardinal(s)

\* Nobody that writes key k, claims it or is known as a rival outranks server s.
Foremost(s, k) ==
    /\ \A m \in net : Claim(m, k) => Outranks(s, m.from)
    /\ \A t \in Threads : Writes(t, k) =>
          \A r \in th[t].conflict \cup {th[t].srv} : Outranks(s, r)

\* Thread t has been granted the key, or will elect its own server.
Decided(t) == \/ th[t].pc \in {"granted", "written"}
              \/ th[t].pc = "writing" /\ (th[t].got \/ th[t].conflict # {})

\* What keeps server r from having been heard by writer t: the question, the answer
\* or a conflict is on its way.
Blocks(m, t, r) ==
    /\ m.type \in KeyTypes /\ m.key = th[t].key
    /\ \/ m.type = "WantToWrite" /\ m.op = th[t].op /\ m.from = th[t].srv /\ m.to = r
       \/ m.type = "WantToWriteResponse" /\ m.op = th[t].op /\ m.from = r /\ m.to = th[t].srv
       \/ m.type = "WriteConflict" /\ m.from = r /\ m.to = th[t].srv
Heard(t) == {r \in Rest(t) : \A m \in net : ~Blocks(m, t, r)}

\* Thread t holds the lock of its key and will be granted it, unless it hears of a
\* conflict: the lock has counted everybody it has heard, who may have answered
\* another thread, and no thread of its server has given the key up.
Lock(t) == wantToWrite[th[t].srv][th[t].key]
Waits(t) ==
    /\ th[t].pc = "writing"
    /\ Lock(t).holder = {t}
    /\ Lock(t).received >= Cardinality(Heard(t))
    /\ Lock(t).received >= participants[th[t].srv] - 2 => th[t].got
    /\ \A u \in Threads : Writes(u, th[t].key) /\ th[u].srv = th[t].srv => th[u].pc # "aborted"

\* Nobody has ever asked to write key k.
Untouched(k) ==
    /\ submitted[k] = {}
    /\ \A m \in net : ~Claim(m, k)
    /\ \A t \in Threads : ~Writes(t, k)

\* A writer of key k that nobody outranks will write it, if nobody did before.
Leads(t, k) == Writes(t, k) /\ Foremost(th[t].srv, k) /\ (Decided(t) \/ Waits(t))
Hope(k)     == current[k] # {} \/ Untouched(k) \/ \E t \in Threads : Leads(t, k)

CompetitionInv == Steady /\ Rightful /\ \A k \in Keys : Hope(k)

----------------------------------------------------------------------------
(* Facts about the group, the rivals and the messages.                     *)

\* In a group that does not change, servers serve calls and messages, and no more.
LEMMA SteadySteps ==
    ASSUME TypeOK, Stable, Steady, [Next]_vars
    PROVE  /\ UNCHANGED <<members, views, participants, env>>
           /\ \/ \E t \in Threads : Call(t) \/ Work(t)
              \/ \E m \in net : Deliver(m)
              \/ UNCHANGED vars
  <1>1. ASSUME NEW x, NEW m, NEW cause, Regroup(x, m, cause) PROVE FALSE
    BY <1>1 DEF Regroup, Stable, TypeOK
  <1>2. ~ServiceJoins /\ ~ServiceLeaves /\ \A s \in Servers : ~Join(s) /\ ~Crash(s)
    BY <1>1 DEF ServiceJoins, ServiceLeaves, Join, Crash
  <1>3. ASSUME NEW s \in Servers PROVE ~Notice(s)
    BY DEF Notice, UpdateNumberOfParticipants, CheckStartup, NextView, Steady
  <1>4. ASSUME NEW t \in Threads, Call(t)
        PROVE  UNCHANGED <<members, views, participants>>
    BY <1>4 DEF Call, ReadLocal, ReadInvalid, AskGroup, WriteAlone, SendWantToWrite, group, server
  <1>5. ASSUME NEW t \in Threads, Work(t)
        PROVE  UNCHANGED <<members, views, participants>>
    BY <1>5 DEF Work, RegisterCallback, SaveCopy, RequestTimeout, AllGranted, SaveGranted,
                WriteTimeout, WinConflict, LoseConflict, ReleaseLock, group, server
  <1>6. ASSUME NEW m \in net, Deliver(m)
        PROVE  UNCHANGED <<members, views, participants>>
    BY <1>6 DEF Deliver, AskData, AskDataResponse, GrantWrite, DetectConflict,
                WantToWriteResponse, ConflictReceived, DataWritten, RevalidateData,
                StartupData, StartupDataResponse, group, server
  <1>7. \/ \E t \in Threads : Call(t) \/ Work(t)
        \/ \E m \in net : Deliver(m)
        \/ UNCHANGED vars
    BY <1>2, <1>3 DEF Next, Listen
  <1>8. env' = env
    BY EnvStays
  <1> QED
    BY <1>4, <1>5, <1>6, <1>7, <1>8 DEF vars, group, server

\* A cardinality is a number, so that of two servers of the group one outranks the
\* other.
LEMMA Ranks ==
    ASSUME NEW s \in Servers, NEW r \in Servers
    PROVE  /\ Outranks(s, r) \/ Outranks(r, s)
           /\ \A q \in Servers : Outranks(s, r) /\ Outranks(r, q) => Outranks(s, q)
           /\ Outranks(s, s)
           /\ NoTies(members \cap Servers) /\ s \in members /\ r \in members /\ s # r
                /\ Outranks(s, r) => Wins(s, r)
           /\ NoTies(members \cap Servers) /\ s \in members /\ r \in members /\ s # r
                /\ Outranks(s, r) => ~Outranks(r, s)
  <1>1. \A q \in Servers : Cardinal(q) \in Int
    BY ConstantAssumption DEF Cardinal
  <1> QED
    BY <1>1 DEF Outranks, NoTies, Wins

\* What a response does to a call and to the locks.
LEMMA ResponseFields ==
    ASSUME TypeOK, NEW m \in net, WantToWriteResponse(m), NEW t \in Threads
    PROVE  /\ th'[t].srv = th[t].srv /\ th'[t].key = th[t].key /\ th'[t].op = th[t].op
           /\ th'[t].pc = th[t].pc /\ th'[t].conflict = th[t].conflict
           /\ th'[t].reply = th[t].reply
           /\ th[t].got => th'[t].got
           /\ t \in wantToWrite[m.to][m.key].holder
                /\ Enough(wantToWrite[m.to][m.key].received + 1, participants[m.to]) => th'[t].got
           /\ \A s \in Servers, k \in Keys :
                 IF s = m.to /\ k = m.key /\ wantToWrite[s][k].holder # {}
                 THEN /\ wantToWrite'[s][k].holder = wantToWrite[s][k].holder
                      /\ wantToWrite'[s][k].received = wantToWrite[s][k].received + 1
                 ELSE wantToWrite'[s][k] = wantToWrite[s][k]
  <1>1. th[t] \in Calls
    BY DEF TypeOK
  <1>2. /\ th'[t].srv = th[t].srv /\ th'[t].key = th[t].key /\ th'[t].op = th[t].op
        /\ th'[t].pc = th[t].pc /\ th'[t].conflict = th[t].conflict
        /\ th'[t].reply = th[t].reply
        /\ th[t].got => th'[t].got
        /\ t \in wantToWrite[m.to][m.key].holder
             /\ Enough(wantToWrite[m.to][m.key].received + 1, participants[m.to]) => th'[t].got
    BY <1>1 DEF WantToWriteResponse, Calls
  <1>3. ASSUME NEW s \in Servers, NEW k \in Keys
        PROVE  IF s = m.to /\ k = m.key /\ wantToWrite[s][k].holder # {}
               THEN /\ wantToWrite'[s][k].holder = wantToWrite[s][k].holder
                    /\ wantToWrite'[s][k].received = wantToWrite[s][k].received + 1
               ELSE wantToWrite'[s][k] = wantToWrite[s][k]
    <2>1. wantToWrite \in [Servers -> [Keys -> Locks]] /\ wantToWrite[s][k] \in Locks
      BY DEF TypeOK
    <2>2. wantToWrite' = IF wantToWrite[m.to][m.key].holder = {} THEN wantToWrite
                         ELSE [wantToWrite EXCEPT ![m.to][m.key].received = @ + 1]
      BY DEF WantToWriteResponse
    <2>3. CASE s = m.to /\ k = m.key
      BY <2>1, <2>2, <2>3 DEF Locks
    <2>4. CASE ~(s = m.to /\ k = m.key)
      BY <2>1, <2>2, <2>4
    <2> QED
      BY <2>3, <2>4
  <1> QED
    BY <1>2, <1>3

\* A claim is a message about a key, between servers.
LEMMA ClaimKind ==
    ASSUME TypeOK, NEW m \in net, m.type \in KeyTypes
    PROVE  m \in KeyMessages /\ m.from \in Servers /\ m.to \in Servers /\ m.key \in Keys
  <1>1. m \in Messages
    BY DEF TypeOK
  <1>2. m \in KeyMessages
    BY <1>1, MessageKind
  <1> QED
    BY <1>2 DEF KeyMessages

----------------------------------------------------------------------------
(* Who claims a key, and what the clients have been told.                  *)

\* A key that was acknowledged remains so.
LEMMA AcknowledgedStays ==
    ASSUME TypeOK, Stable, Steady, [Next]_vars, NEW k \in Keys, current[k] # {}
    PROVE  current'[k] # {}
  <1>0. current \in [Keys -> SUBSET (Values \cup {Empty})]
    BY DEF TypeOK
  <1>1. ASSUME NEW t \in Threads, Call(t) PROVE current'[k] # {}
    <2>1. PICK s \in Servers, l \in Keys :
            \/ ReadLocal(t, s, l) \/ ReadInvalid(t, s, l) \/ AskGroup(t, s, l)
            \/ \E v \in Values : WriteAlone(t, s, l, v) \/ SendWantToWrite(t, s, l, v)
      BY <1>1 DEF Call
    <2>2. CASE UNCHANGED current
      BY <2>2
    <2>3. ASSUME NEW v \in Values, WriteAlone(t, s, l, v) \/ SendWantToWrite(t, s, l, v)
          PROVE  current'[k] # {}
      BY <1>0, <2>3 DEF WriteAlone, SendWantToWrite
    <2> QED
      BY <2>1, <2>2, <2>3 DEF ReadLocal, ReadInvalid, AskGroup
  <1>2. ASSUME NEW t \in Threads, Work(t) PROVE current'[k] # {}
    <2>1. CASE ReleaseLock(t)
      BY <1>0, <2>1 DEF ReleaseLock
    <2> QED
      BY <1>2, <2>1 DEF Work, RegisterCallback, SaveCopy, RequestTimeout, AllGranted,
                SaveGranted, WriteTimeout, WinConflict, LoseConflict
  <1>3. ASSUME NEW m \in net, Deliver(m) PROVE current'[k] # {}
    BY <1>3 DEF Deliver, AskData, AskDataResponse, GrantWrite, DetectConflict,
                WantToWriteResponse, ConflictReceived, DataWritten, RevalidateData,
                StartupData, StartupDataResponse
  <1> QED
    BY <1>1, <1>2, <1>3, SteadySteps DEF vars

\* Which claims a call brings up, and what it says of its thread.
LEMMA CallFacts ==
    ASSUME TypeOK, NEW t \in Threads, NEW s \in Servers, NEW k \in Keys,
           ReadLocal(t, s, k) \/ ReadInvalid(t, s, k) \/ AskGroup(t, s, k)
           \/ \E v \in Values : WriteAlone(t, s, k, v)
    PROVE  /\ th[t].pc = "idle" /\ th'[t].pc \notin WritePCs
           /\ \A u \in Threads \ {t} : th'[u] = th[u]
           /\ \A m \in net' : m \notin net => m.type = "AskData"
           /\ net \subseteq net' /\ wantToWrite' = wantToWrite
  <1>0. th \in [Threads -> Calls]
    BY DEF TypeOK
  <1>1. CASE ReadLocal(t, s, k)
    BY <1>0, <1>1 DEF ReadLocal, Arrives, NewCall, WritePCs, server
  <1>2. CASE ReadInvalid(t, s, k)
    BY <1>0, <1>2 DEF ReadInvalid, Arrives, NewCall, WritePCs, server
  <1>3. CASE AskGroup(t, s, k)
    <2>1. \A m \in Multicast(s, "AskData", k, ops + 1) : m.type = "AskData"
      BY InMulticast
    <2> QED
      BY <1>0, <1>3, <2>1 DEF AskGroup, Arrives, NewCall, WritePCs, server
  <1>4. ASSUME NEW v \in Values, WriteAlone(t, s, k, v)
        PROVE  /\ th[t].pc = "idle" /\ th'[t].pc \notin WritePCs
               /\ \A u \in Threads \ {t} : th'[u] = th[u]
               /\ net' = net /\ wantToWrite' = wantToWrite
    BY <1>0, <1>4 DEF WriteAlone, Arrives, NewCall, WritePCs
  <1> QED
    BY <1>1, <1>2, <1>3, <1>4

\* A write that starts.
LEMMA WriteFacts ==
    ASSUME TypeOK, NEW t \in Threads, NEW s \in Servers, NEW k \in Keys, NEW v \in Values,
           SendWantToWrite(t, s, k, v)
    PROVE  /\ s \in members /\ th[t].pc = "idle"
           /\ th'[t].srv = s /\ th'[t].key = k /\ th'[t].op = ops + 1 /\ th'[t].pc = "writing"
           /\ th'[t].conflict = {} /\ (waitStartup[s] <=> th'[t].reply # "none")
           /\ \A u \in Threads \ {t} : th'[u] = th[u]
           /\ wantToWrite'[s][k].holder = {t} /\ wantToWrite'[s][k].received = 0
           /\ \A r \in Servers, l \in Keys :
                 ~(r = s /\ l = k) => wantToWrite'[r][l] = wantToWrite[r][l]
           /\ net \subseteq net'
           /\ \A m \in net' : m \notin net => m.type = "WantToWrite" /\ m.from = s /\ m.key = k
                                  /\ m.to \in (members \cap Servers) \ {s}
  <1>1. th \in [Threads -> Calls] /\ wantToWrite \in [Servers -> [Keys -> Locks]]
    BY DEF TypeOK
  <1>2. th' = [th EXCEPT ![t] = NewCall("writing", s, k, v, Early(s, "ok"))]
        /\ wantToWrite' = [wantToWrite EXCEPT ![s][k] = [holder |-> {t}, received |-> 0]]
        /\ net' = net \cup Multicast(s, "WantToWrite", k, ops + 1)
        /\ s \in members /\ th[t].pc = "idle"
    BY DEF SendWantToWrite, Arrives
  <1>3. th'[t] = NewCall("writing", s, k, v, Early(s, "ok"))
        /\ \A u \in Threads \ {t} : th'[u] = th[u]
    BY <1>1, <1>2
  <1>4. /\ wantToWrite'[s][k].holder = {t} /\ wantToWrite'[s][k].received = 0
        /\ \A r \in Servers, l \in Keys :
              ~(r = s /\ l = k) => wantToWrite'[r][l] = wantToWrite[r][l]
    BY <1>1, <1>2
  <1>5. \A m \in Multicast(s, "WantToWrite", k, ops + 1) :
           /\ m.type = "WantToWrite" /\ m.from = s /\ m.key = k
           /\ m.to \in (members \cap Servers) \ {s}
    BY InMulticast
  <1>6. /\ net \subseteq net'
        /\ \A m \in net' : m \notin net => m.type = "WantToWrite" /\ m.from = s /\ m.key = k
                               /\ m.to \in (members \cap Servers) \ {s}
    BY <1>2, <1>5
  <1>7. /\ th'[t].srv = s /\ th'[t].key = k /\ th'[t].op = ops + 1 /\ th'[t].pc = "writing"
        /\ th'[t].conflict = {} /\ (waitStartup[s] <=> th'[t].reply # "none")
    BY <1>3 DEF NewCall, Early
  <1> QED
    BY <1>2, <1>3, <1>4, <1>6, <1>7

\* What a handler thread does by itself leaves all claims and its rivals alone.
LEMMA WorkKeeps ==
    ASSUME TypeOK, NEW t \in Threads, Work(t)
    PROVE  /\ th[t].pc # "idle"
           /\ th'[t].srv = th[t].srv /\ th'[t].key = th[t].key /\ th'[t].op = th[t].op
           /\ th'[t].conflict = th[t].conflict /\ th'[t].got = th[t].got
           /\ th'[t].pc \in WritePCs => th[t].pc \in WritePCs /\ th'[t].reply = th[t].reply
           /\ \A u \in Threads \ {t} : th'[u] = th[u]
           /\ net \subseteq net'
           /\ \A m \in net' : m \notin net => m.type \in {"DataWritten", "RevalidateData"}
           /\ \A s \in Servers, k \in Keys :
                 wantToWrite'[s][k] = wantToWrite[s][k]
                 \/ (ReleaseLock(t) /\ s = th[t].srv /\ k = th[t].key)
  <1>1. th \in [Threads -> Calls] /\ wantToWrite \in [Servers -> [Keys -> Locks]]
    BY DEF TypeOK
  <1>2. /\ th[t].pc # "idle"
        /\ th'[t].srv = th[t].srv /\ th'[t].key = th[t].key /\ th'[t].op = th[t].op
        /\ th'[t].conflict = th[t].conflict /\ th'[t].got = th[t].got
        /\ th'[t].pc \in WritePCs => th[t].pc \in WritePCs /\ th'[t].reply = th[t].reply
        /\ \A u \in Threads \ {t} : th'[u] = th[u]
    <2>1. CASE RegisterCallback(t) \/ SaveCopy(t) \/ RequestTimeout(t)
      BY <1>1, <2>1 DEF RegisterCallback, SaveCopy, RequestTimeout, WritePCs, Calls
    <2>2. CASE AllGranted(t) \/ WriteTimeout(t) \/ LoseConflict(t)
      BY <1>1, <2>2 DEF AllGranted, WriteTimeout, LoseConflict, WritePCs, Calls
    <2>3. CASE SaveGranted(t) \/ WinConflict(t)
      BY <1>1, <2>3 DEF SaveGranted, WinConflict, SaveDataLocally, WritePCs, Calls
    <2>4. CASE ReleaseLock(t)
      BY <1>1, <2>4 DEF ReleaseLock, WritePCs, Calls
    <2> QED
      BY <2>1, <2>2, <2>3, <2>4 DEF Work
  <1>3. net \subseteq net'
        /\ \A m \in net' : m \notin net => m.type \in {"DataWritten", "RevalidateData"}
    <2>1. \A s, k, op :
             /\ \A m \in Multicast(s, "DataWritten", k, op) : m.type = "DataWritten"
             /\ \A m \in Multicast(s, "RevalidateData", k, op) : m.type = "RevalidateData"
      BY InMulticast
    <2> QED
      BY <2>1 DEF Work, RegisterCallback, SaveCopy, RequestTimeout, AllGranted, SaveGranted,
                WriteTimeout, WinConflict, LoseConflict, ReleaseLock, SaveDataLocally
  <1>4. ASSUME NEW s \in Servers, NEW k \in Keys
        PROVE  wantToWrite'[s][k] = wantToWrite[s][k]
               \/ (ReleaseLock(t) /\ s = th[t].srv /\ k = th[t].key)
    BY <1>1 DEF Work, RegisterCallback, SaveCopy, RequestTimeout, AllGranted, SaveGranted,
                WriteTimeout, WinConflict, LoseConflict, ReleaseLock, server
  <1> QED
    BY <1>2, <1>3, <1>4

\* Which claims a message brings up: a conflict, on behalf of a server whose own write
\* of the key is under way.
LEMMA DeliverKeeps ==
    ASSUME TypeOK, CallbacksLive, Rightful, NEW m \in net, Deliver(m)
    PROVE  /\ \A n \in net' : n \notin net /\ n.type \in Claims =>
                 /\ DetectConflict(m) /\ n \in Multicast(m.to, "WriteConflict", m.key, m.op)
                 /\ \E u \in Threads : Writes(u, m.key) /\ th[u].srv = m.to
           /\ \A u \in Threads :
                 /\ th'[u].srv = th[u].srv /\ th'[u].key = th[u].key /\ th'[u].op = th[u].op
                 /\ th'[u].pc = th[u].pc /\ th'[u].reply = th[u].reply
                 /\ th[u].got => th'[u].got
                 /\ th'[u].conflict = th[u].conflict
                    \/ (/\ m.type \in Claims /\ m.to \in Servers /\ m.key \in Keys
                        /\ u \in wantToWrite[m.to][m.key].holder
                        /\ th'[u].conflict = {m.from})
  <1>0. th \in [Threads -> Calls]
    BY DEF TypeOK
  <1>1. ASSUME NEW n \in net', n \notin net, n.type \in Claims
        PROVE  /\ DetectConflict(m) /\ n \in Multicast(m.to, "WriteConflict", m.key, m.op)
               /\ \E u \in Threads : Writes(u, m.key) /\ th[u].srv = m.to
    <2>1. n.type = "WantToWrite" \/ n.type = "WriteConflict"
      BY <1>1 DEF Claims
    <2>2. CASE AskData(m)
      <3>1. n \in Unicast(m.to, "AskDataResponse", m.from, m.key, db[m.to][m.key].data, m.op)
        BY <1>1, <2>2 DEF AskData
      <3> QED
        BY <2>1, <3>1, InUnicast
    <2>3. CASE GrantWrite(m)
      <3>1. n \in Unicast(m.to, "WantToWriteResponse", m.from, m.key, Empty, m.op)
        BY <1>1, <2>3 DEF GrantWrite
      <3> QED
        BY <2>1, <3>1, InUnicast
    <2>4. CASE DetectConflict(m)
      <3>1. m.to \in Servers /\ m.key \in Keys
        BY <2>4, ClaimKind DEF DetectConflict, Receive, KeyTypes
      <3>2. PICK u \in wantToWrite[m.to][m.key].holder : TRUE
        BY <2>4 DEF DetectConflict
      <3>3. u \in Threads
        BY <3>1, TablesHoldThreads
      <3>4. Writes(u, m.key) /\ th[u].srv = m.to
        BY <3>1, <3>2 DEF CallbacksLive, Serves, Writes
      <3> QED
        BY <1>1, <2>4, <3>3, <3>4 DEF DetectConflict
    <2>5. CASE StartupData(m)
      <3>1. n.type \notin KeyTypes
        BY <1>1, <2>5, InStartupUnicast DEF StartupData
      <3> QED
        BY <2>1, <3>1 DEF KeyTypes
    <2>6. CASE net' \subseteq net
      BY <1>1, <2>6
    <2> QED
      BY <2>2, <2>3, <2>4, <2>5, <2>6 DEF Deliver, AskDataResponse, WantToWriteResponse,
                ConflictReceived, DataWritten, RevalidateData, StartupDataResponse
  <1>2. ASSUME NEW u \in Threads
        PROVE  /\ th'[u].srv = th[u].srv /\ th'[u].key = th[u].key /\ th'[u].op = th[u].op
               /\ th'[u].pc = th[u].pc /\ th'[u].reply = th[u].reply
               /\ th[u].got => th'[u].got
               /\ th'[u].conflict = th[u].conflict
                  \/ (/\ m.type \in Claims /\ m.to \in Servers /\ m.key \in Keys
                      /\ u \in wantToWrite[m.to][m.key].holder
                      /\ th'[u].conflict = {m.from})
    <2>1. CASE AskDataResponse(m)
      BY <1>0, <2>1 DEF AskDataResponse, Calls
    <2>2. CASE WantToWriteResponse(m)
      BY <2>2, ResponseFields
    <2>3. CASE DetectConflict(m) \/ ConflictReceived(m)
      <3>1. th' = SetConflict(m.to, m.key, m.from)
            /\ (m.type = "WantToWrite" \/ m.type = "WriteConflict")
        BY <2>3 DEF DetectConflict, ConflictReceived, Receive
      <3>2. m.to \in Servers /\ m.from \in Servers /\ m.key \in Keys /\ m.type \in Claims
        BY <3>1, ClaimKind DEF KeyTypes, Claims
      <3>3. /\ th'[u].srv = th[u].srv /\ th'[u].key = th[u].key /\ th'[u].op = th[u].op
            /\ th'[u].pc = th[u].pc /\ th'[u].reply = th[u].reply /\ th'[u].got = th[u].got
            /\ th'[u].conflict = IF u \in wantToWrite[m.to][m.key].holder THEN {m.from}
                                 ELSE th[u].conflict
        BY <1>0, <3>1 DEF SetConflict, Calls
      <3> QED
        BY <3>2, <3>3
    <2>4. CASE th' = th
      BY <2>4
    <2> QED
      BY <2>1, <2>2, <2>3, <2>4 DEF Deliver, AskData, GrantWrite, DataWritten, RevalidateData,
                StartupData, StartupDataResponse
  <1> QED
    BY <1>1, <1>2

\* Claims, rivals and clients keep to their rules.
LEMMA RightfulStep ==
    ASSUME TypeOK, CallbacksLive, Stable, Steady, Rightful, [Next]_vars
    PROVE  Rightful'
  <1>0. members' = members
    BY SteadySteps
  <1>00. \A k \in Keys : current[k] # {} => current'[k] # {}
    BY AcknowledgedStays
  <1>01. \A u \in Threads : th[u].key \in Keys
    BY DEF TypeOK, Calls
  <1>1. ASSUME NEW t \in Threads, NEW s \in Servers, NEW k \in Keys,
               ReadLocal(t, s, k) \/ ReadInvalid(t, s, k) \/ AskGroup(t, s, k)
               \/ \E v \in Values : WriteAlone(t, s, k, v)
        PROVE  Rightful'
    BY <1>0, <1>00, <1>01, <1>1, CallFacts DEF Rightful, Claims
  <1>2. ASSUME NEW t \in Threads, NEW s \in Servers, NEW k \in Keys, NEW v \in Values,
               SendWantToWrite(t, s, k, v)
        PROVE  Rightful'
    <2>00. SendWantToWrite(t, s, k, v)
      BY <1>2
    <2>0. /\ s \in members
          /\ th'[t].srv = s /\ th'[t].key = k /\ th'[t].conflict = {}
          /\ waitStartup[s] <=> th'[t].reply # "none"
          /\ \A u \in Threads \ {t} : th'[u] = th[u]
          /\ \A m \in net' : m \notin net => m.type = "WantToWrite" /\ m.from = s /\ m.key = k
                                 /\ m.to \in (members \cap Servers) \ {s}
      BY <2>00, WriteFacts
    <2>1. waitStartup[s] => current'[k] # {}
      <3>1. current \in [Keys -> SUBSET (Values \cup {Empty})]
        BY DEF TypeOK
      <3> QED
        BY <1>2, <3>1 DEF SendWantToWrite
    <2>2. \A m \in net' : m.type \in Claims =>
             m.from \in members /\ m.to \in members /\ m.from # m.to
      BY <2>0 DEF Rightful
    <2>3. ASSUME NEW u \in Threads, th'[u].pc \in WritePCs
          PROVE  /\ th'[u].srv \in members \ th'[u].conflict /\ th'[u].conflict \subseteq members
                 /\ th'[u].reply # "none" => current'[th'[u].key] # {}
      <3>1. CASE u = t
        BY <2>0, <2>1, <3>1
      <3>2. CASE u # t
        BY <1>00, <1>01, <2>0, <2>3, <3>2 DEF Rightful
      <3> QED
        BY <3>1, <3>2
    <2> QED
      BY <1>0, <2>2, <2>3 DEF Rightful
  <1>3. ASSUME NEW t \in Threads, Work(t) PROVE Rightful'
    <2>1. \A m \in net' : m.type \in Claims => m \in net
      BY <1>3, WorkKeeps DEF Claims
    <2>2. ASSUME NEW u \in Threads, th'[u].pc \in WritePCs
          PROVE  /\ th'[u].srv \in members \ th'[u].conflict /\ th'[u].conflict \subseteq members
                 /\ th'[u].reply # "none" => current'[th'[u].key] # {}
      BY <1>00, <1>01, <1>3, <2>2, WorkKeeps DEF Rightful
    <2> QED
      BY <1>0, <2>1, <2>2 DEF Rightful
  <1>4. ASSUME NEW m \in net, Deliver(m) PROVE Rightful'
    <2>1. ASSUME NEW n \in net', n.type \in Claims
          PROVE  n.from \in members /\ n.to \in members /\ n.from # n.to
      <3>1. CASE n \in net
        BY <2>1, <3>1 DEF Rightful
      <3>2. CASE n \notin net
        <4>1. DetectConflict(m) /\ n \in Multicast(m.to, "WriteConflict", m.key, m.op)
          BY <1>4, <2>1, <3>2, DeliverKeeps
        <4>2. m.type \in Claims
          BY <4>1 DEF DetectConflict, Receive, Claims
        <4>3. n.from = m.to /\ n.to \in (members \cap Servers) \ {m.to}
          BY <4>1, InMulticast
        <4> QED
          BY <4>2, <4>3 DEF Rightful
      <3> QED
        BY <3>1, <3>2
    <2>2. ASSUME NEW u \in Threads, th'[u].pc \in WritePCs
          PROVE  /\ th'[u].srv \in members \ th'[u].conflict /\ th'[u].conflict \subseteq members
                 /\ th'[u].reply # "none" => current'[th'[u].key] # {}
      <3>1. /\ th'[u].srv = th[u].srv /\ th'[u].key = th[u].key
            /\ th'[u].pc = th[u].pc /\ th'[u].reply = th[u].reply
            /\ th'[u].conflict = th[u].conflict
               \/ (/\ m.type \in Claims /\ m.to \in Servers /\ m.key \in Keys
                   /\ u \in wantToWrite[m.to][m.key].holder
                   /\ th'[u].conflict = {m.from})
        BY <1>4, DeliverKeeps
      <3>2. m.type \in Claims /\ m.to \in Servers /\ m.key \in Keys
            /\ u \in wantToWrite[m.to][m.key].holder =>
              th[u].srv = m.to /\ m.from # m.to /\ m.from \in members
        BY DEF CallbacksLive, Serves, Rightful
      <3> QED
        BY <1>00, <1>01, <2>2, <3>1, <3>2 DEF Rightful
    <2> QED
      BY <1>0, <2>1, <2>2 DEF Rightful
  <1>5. CASE UNCHANGED vars
    BY <1>5 DEF vars, group, server, Rightful
  <1>6. ASSUME NEW t \in Threads, Call(t) PROVE Rightful'
    BY <1>1, <1>2, <1>6 DEF Call
  <1> QED
    BY <1>3, <1>4, <1>5, <1>6, SteadySteps

----------------------------------------------------------------------------
(* Who leads.                                                              *)

\* What concerns the writers of a key, among the messages.
Concerns(m, k) == m.type \in {"WantToWrite", "WantToWriteResponse", "WriteConflict"} /\ m.key = k

\* The foremost server of a key stays so, if nobody comes up that outranks it.
LEMMA ForemostKept ==
    ASSUME TypeOK, NEW s \in Servers, NEW k \in Keys, Foremost(s, k),
           \A m \in net' : m \notin net /\ Claim(m, k) => Outranks(s, m.from),
           \A u \in Threads : Writes(u, k)' =>
              \/ /\ Writes(u, k) /\ th'[u].srv = th[u].srv
                 /\ \A r \in th'[u].conflict : r \in th[u].conflict \/ Outranks(s, r)
              \/ Outranks(s, th'[u].srv) /\ th'[u].conflict = {}
    PROVE  Foremost(s, k)'
  <1>1. \A m \in net' : Claim(m, k) => Outranks(s, m.from)
    BY DEF Foremost
  <1>2. ASSUME NEW u \in Threads, Writes(u, k)', NEW r \in th'[u].conflict \cup {th'[u].srv}
        PROVE  Outranks(s, r)
    BY <1>2 DEF Foremost
  <1> QED
    BY <1>1, <1>2 DEF Foremost, Outranks, Claim, Cardinal

\* A server is heard only if nothing is on its way between it and the writer.
LEMMA HeardKept ==
    ASSUME TypeOK, NEW w \in Threads, members' = members, th'[w].srv = th[w].srv,
           \A r \in Rest(w) : \A m \in net : Blocks(m, w, r) => \E n \in net' : Blocks(n, w, r)'
    PROVE  /\ Heard(w)' \subseteq Heard(w) /\ Heard(w) \in SUBSET Servers
           /\ Cardinality(Heard(w)') <= Cardinality(Heard(w))
           /\ Cardinality(Heard(w)) \in Nat /\ Cardinality(Heard(w)') \in Nat
  <1>1. Rest(w)' = Rest(w) /\ Rest(w) \subseteq Servers
    BY DEF Rest
  <1>2. Heard(w)' \subseteq Heard(w) /\ Heard(w) \in SUBSET Servers
    BY <1>1 DEF Heard
  <1> QED
    BY <1>2, ServerSets

\* The type of the counts.
LEMMA LockType ==
    ASSUME TypeOK, NEW w \in Threads
    PROVE  /\ th[w].srv \in Servers /\ th[w].key \in Keys /\ th[w].conflict \subseteq Servers
           /\ Lock(w).received \in Nat /\ participants[th[w].srv] \in Int
  BY DEF TypeOK, Calls, Locks, Lock

\* A writer goes on waiting, if its lock is left alone and nobody is newly heard.
LEMMA WaitsKept ==
    ASSUME TypeOK, NEW w \in Threads, Waits(w), UNCHANGED <<members, participants>>,
           th'[w].pc = th[w].pc, th'[w].srv = th[w].srv, th'[w].key = th[w].key,
           th[w].got => th'[w].got,
           wantToWrite'[th[w].srv][th[w].key] = wantToWrite[th[w].srv][th[w].key],
           \A r \in Rest(w) : \A m \in net : Blocks(m, w, r) => \E n \in net' : Blocks(n, w, r)',
           \A u \in Threads : Writes(u, th[w].key)' /\ th'[u].srv = th[w].srv /\ th'[u].pc = "aborted" =>
              Writes(u, th[w].key) /\ th[u].srv = th[w].srv /\ th[u].pc = "aborted"
    PROVE  Waits(w)'
  <1>1. /\ Cardinality(Heard(w)') <= Cardinality(Heard(w))
        /\ Cardinality(Heard(w)) \in Nat /\ Cardinality(Heard(w)') \in Nat
    BY HeardKept
  <1>2. Lock(w)' = Lock(w)
    BY DEF Lock
  <1>3. Lock(w)'.received >= Cardinality(Heard(w)')
    BY <1>1, <1>2, LockType DEF Waits
  <1>4. (\A u \in Threads : Writes(u, th[w].key) /\ th[u].srv = th[w].srv => th[u].pc # "aborted")'
    BY DEF Waits, Writes
  <1>5. /\ th'[w].pc = "writing" /\ Lock(w)'.holder = {w}
        /\ Lock(w)'.received >= participants'[th'[w].srv] - 2 => th'[w].got
    BY <1>2 DEF Waits
  <1> QED
    BY <1>3, <1>4, <1>5 DEF Waits

\* When nothing about its key is on its way any more, a waiting writer has been granted.
LEMMA WaitEnds ==
    ASSUME TypeOK, Steady, NEW w \in Threads, Waits(w), th[w].srv \in members,
           \A m \in net : m.type \in KeyTypes => m.key # th[w].key
    PROVE  th[w].got
  <1>1. Heard(w) = Rest(w)
    BY DEF Heard, Blocks
  <1>2. Cardinality(Rest(w)) = Cardinality(members) - 2 /\ Cardinality(members) \in Nat
    BY GroupSize, LockType DEF Rest, Steady
  <1>3. participants[th[w].srv] = Cardinality(members)
    BY LockType DEF Steady
  <1> QED
    BY <1>1, <1>2, <1>3, LockType DEF Waits

\* What does not concern the writers of a key leaves their competition alone.
LEMMA HopeFrame ==
    ASSUME TypeOK, NEW k \in Keys, Hope(k), UNCHANGED <<members, participants>>,
           current'[k] = current[k], submitted'[k] = submitted[k],
           \A u \in Threads : Writes(u, k) \/ Writes(u, k)' => th'[u] = th[u],
           \A s \in Servers : wantToWrite'[s][k] = wantToWrite[s][k],
           \A m \in net : Concerns(m, k) => m \in net',
           \A m \in net' : Concerns(m, k) => m \in net
    PROVE  Hope(k)'
  <1>1. \A m \in net' : Claim(m, k) => m \in net
    BY DEF Claim, Claims, Concerns
  <1>2. \A u \in Threads : Writes(u, k)' <=> Writes(u, k)
    BY DEF Writes
  <1>3. CASE current[k] # {}
    BY <1>3 DEF Hope
  <1>4. CASE Untouched(k)
    <2>1. Untouched(k)'
      BY <1>1, <1>2, <1>4 DEF Untouched, Claim
    <2> QED
      BY <2>1 DEF Hope
  <1>5. ASSUME NEW w \in Threads, Leads(w, k) PROVE Hope(k)'
    <2>1. Writes(w, k) /\ th'[w] = th[w] /\ th[w].key = k /\ Writes(w, k)'
      BY <1>2, <1>5 DEF Leads, Writes
    <2>2. Foremost(th[w].srv, k)'
      BY <1>1, <1>2, <1>5, ForemostKept, LockType DEF Leads
    <2>3. Decided(w) => Decided(w)'
      BY <2>1 DEF Decided
    <2>4. ASSUME Waits(w) PROVE Waits(w)'
      <3>1. ASSUME NEW r \in Rest(w), NEW m \in net, Blocks(m, w, r)
            PROVE  m \in net' /\ Blocks(m, w, r)'
        BY <2>1, <3>1 DEF Blocks, Concerns
      <3>2. wantToWrite'[th[w].srv][th[w].key] = wantToWrite[th[w].srv][th[w].key]
        BY <2>1, LockType
      <3>3. \A u \in Threads : Writes(u, th[w].key)' => th'[u] = th[u] /\ Writes(u, th[w].key)
        BY <1>2, <2>1
      <3> QED
        BY <2>1, <2>4, <3>1, <3>2, <3>3, WaitsKept
    <2>5. Leads(w, k)'
      BY <1>5, <2>1, <2>2, <2>3, <2>4 DEF Leads
    <2> QED
      BY <2>5 DEF Hope
  <1> QED
    BY <1>3, <1>4, <1>5 DEF Hope

\* A new writer that nobody outranks waits: all others have yet to be asked.
LEMMA NewWaits ==
    ASSUME TypeOK, Steady, NEW t \in Threads, NEW s \in Servers, NEW k \in Keys, NEW v \in Values,
           SendWantToWrite(t, s, k, v), UNCHANGED <<members, participants>>,
           \A u \in Threads : Writes(u, k) /\ th[u].srv = s => th[u].pc # "aborted"
    PROVE  Writes(t, k)' /\ Waits(t)'
  <1>1. /\ s \in members
        /\ th'[t].srv = s /\ th'[t].key = k /\ th'[t].op = ops + 1 /\ th'[t].pc = "writing"
        /\ \A u \in Threads \ {t} : th'[u] = th[u]
        /\ wantToWrite'[s][k].holder = {t} /\ wantToWrite'[s][k].received = 0
    BY WriteFacts
  <1>2. Heard(t)' = {}
    <2> SUFFICES ASSUME NEW r \in Heard(t)' PROVE FALSE
      OBVIOUS
    <2>1. r \in (members \cap Servers) \ {s} /\ \A m \in net' : ~Blocks(m, t, r)'
      BY <1>1 DEF Heard, Rest
    <2> DEFINE m == [type |-> "WantToWrite", from |-> s, to |-> r, key |-> k,
                     data |-> Empty, op |-> ops + 1]
    <2>2. m \in Multicast(s, "WantToWrite", k, ops + 1)
      BY <2>1 DEF Multicast
    <2>3. m.type = "WantToWrite" /\ m.from = s /\ m.to = r /\ m.key = k /\ m.op = ops + 1
      OBVIOUS
    <2> HIDE DEF m
    <2>4. m \in net'
      BY <2>2 DEF SendWantToWrite
    <2>5. m.type \in KeyTypes
      BY <2>3 DEF KeyTypes
    <2>6. /\ m.type \in KeyTypes /\ m.key = th'[t].key
          /\ m.type = "WantToWrite" /\ m.op = th'[t].op /\ m.from = th'[t].srv /\ m.to = r
      BY <1>1, <2>3, <2>5
    <2> QED
      BY <2>1, <2>4, <2>6 DEF Blocks
  <1>3. Cardinality(Heard(t)') = 0
    BY <1>2, FS_EmptySet
  <1>4. Lock(t)'.holder = {t} /\ Lock(t)'.received = 0
    BY <1>1 DEF Lock
  <1>5. ~(0 >= participants[s] - 2)
    <2>1. participants[s] = Cardinality(members) /\ participants[s] # 2
      BY <1>1 DEF Steady, SendWantToWrite
    <2>2. /\ Cardinality((members \cap Servers) \ {s}) = Cardinality(members) - 2
          /\ Cardinality(members) \in Nat
      BY <1>1, GroupSize DEF Steady
    <2>3. Cardinality((members \cap Servers) \ {s}) \in Nat
      BY ServerSets
    <2> QED
      BY <2>1, <2>2, <2>3
  <1>6. (\A u \in Threads : Writes(u, th[t].key) /\ th[u].srv = th[t].srv => th[u].pc # "aborted")'
    BY <1>1 DEF Writes
  <1>7. participants'[th'[t].srv] = participants[s]
    BY <1>1
  <1>8. Waits(t)'
    BY <1>1, <1>3, <1>4, <1>5, <1>6, <1>7 DEF Waits
  <1> QED
    BY <1>1, <1>8 DEF Writes, WritePCs

\* A write that starts: it leads, or the old leader is still ahead.
LEMMA HopeWrite ==
    ASSUME TypeOK, Competition, CompetitionInv, NEW t \in Threads, NEW s \in Servers,
           NEW k \in Keys, NEW v \in Values, SendWantToWrite(t, s, k, v),
           UNCHANGED <<members, participants>>
    PROVE  Hope(k)'
  <1>1. /\ s \in members /\ th[t].pc = "idle"
        /\ th'[t].srv = s /\ th'[t].key = k /\ th'[t].conflict = {}
        /\ \A u \in Threads \ {t} : th'[u] = th[u]
        /\ net \subseteq net'
        /\ \A m \in net' : m \notin net => m.type = "WantToWrite" /\ m.from = s /\ m.key = k
                               /\ m.to \in (members \cap Servers) \ {s}
    BY WriteFacts
  <1>2. \A r \in Servers, l \in Keys : ~(r = s /\ l = k) => wantToWrite'[r][l] = wantToWrite[r][l]
    BY WriteFacts
  <1>3. /\ ~Writes(t, k)
        /\ \A u \in Threads : Writes(u, k)' => u = t \/ (Writes(u, k) /\ th'[u] = th[u])
    BY <1>1 DEF Writes, WritePCs
  <1>4. \A u \in Threads : th[u].srv \in Servers /\ th[u].conflict \subseteq Servers
    BY LockType
  <1>5. \A m \in net : Claim(m, k) => m.from \in Servers
    BY ClaimKind DEF Claim, Claims, KeyTypes
  <1>6. ASSUME NEW q \in Servers, Foremost(q, k), Outranks(q, s) PROVE Foremost(q, k)'
    <2>1. \A m \in net' : m \notin net /\ Claim(m, k) => Outranks(q, m.from)
      BY <1>1, <1>6
    <2>2. \A u \in Threads : Writes(u, k)' =>
              \/ /\ Writes(u, k) /\ th'[u].srv = th[u].srv
                 /\ \A r \in th'[u].conflict : r \in th[u].conflict \/ Outranks(q, r)
              \/ Outranks(q, th'[u].srv) /\ th'[u].conflict = {}
      BY <1>1, <1>3, <1>6
    <2> QED
      BY <1>6, <2>1, <2>2, ForemostKept
  <1>7. ASSUME Foremost(s, k), \A u \in Threads : Writes(u, k) /\ th[u].srv = s => th[u].pc # "aborted"
        PROVE  Hope(k)'
    <2>1. Writes(t, k)' /\ Waits(t)'
      BY <1>7, NewWaits DEF CompetitionInv
    <2>2. Foremost(s, k)'
      BY <1>6, <1>7, Ranks
    <2> QED
      BY <1>1, <2>1, <2>2 DEF Hope, Leads
  <1>8. CASE current[k] # {}
    <2>1. current'[k] # {}
      BY <1>8 DEF SendWantToWrite, TypeOK
    <2> QED
      BY <2>1 DEF Hope
  <1>9. CASE Untouched(k)
    BY <1>7, <1>9 DEF Untouched, Foremost
  <1>10. ASSUME NEW w \in Threads, Leads(w, k) PROVE Hope(k)'
    <2> DEFINE q == th[w].srv
    <2>1. w # t /\ th'[w] = th[w] /\ Writes(w, k) /\ Writes(w, k)' /\ th[w].key = k /\ Foremost(q, k)
          /\ q \in Servers /\ q \in members
      BY <1>1, <1>3, <1>4, <1>10 DEF Leads, Writes, CompetitionInv, Rightful
    <2>2. ASSUME Outranks(q, s), Decided(w)' \/ Waits(w)' PROVE Hope(k)'
      BY <1>6, <2>1, <2>2 DEF Hope, Leads
    <2>3. CASE q = s /\ Decided(w)
      BY <2>1, <2>2, <2>3, Ranks DEF Decided
    <2>4. CASE q = s /\ Waits(w)
      BY <1>7, <2>1, <2>4 DEF Waits
    <2>5. CASE q # s /\ Outranks(q, s)
      <3>1. Decided(w) => Decided(w)'
        BY <2>1 DEF Decided
      <3>2. ASSUME Waits(w) PROVE Waits(w)'
        <4>1. ASSUME NEW r \in Rest(w), NEW m \in net, Blocks(m, w, r)
              PROVE  m \in net' /\ Blocks(m, w, r)'
          BY <1>1, <2>1, <4>1 DEF Blocks
        <4>2. wantToWrite'[th[w].srv][th[w].key] = wantToWrite[th[w].srv][th[w].key]
          BY <1>2, <2>1, <2>5
        <4>3. \A u \in Threads : Writes(u, th[w].key)' /\ th'[u].srv = th[w].srv /\ th'[u].pc = "aborted"
                 => Writes(u, th[w].key) /\ th[u].srv = th[w].srv /\ th[u].pc = "aborted"
          BY <1>1, <1>3, <2>1, <2>5
        <4> QED
          BY <2>1, <3>2, <4>1, <4>2, <4>3, WaitsKept
      <3> QED
        BY <1>10, <2>2, <2>5, <3>1, <3>2 DEF Leads
    <2>6. CASE q # s /\ ~Outranks(q, s)
      <3>1. Outranks(s, q)
        BY <2>1, <2>6, Ranks
      <3>2. Foremost(s, k)
        <4>1. \A m \in net : Claim(m, k) => Outranks(s, m.from)
          BY <1>5, <2>1, <3>1, Ranks DEF Foremost
        <4>2. ASSUME NEW u \in Threads, Writes(u, k), NEW r \in th[u].conflict \cup {th[u].srv}
              PROVE  Outranks(s, r)
          BY <1>4, <2>1, <3>1, <4>2, Ranks DEF Foremost
        <4> QED
          BY <4>1, <4>2 DEF Foremost
      <3>3. \A u \in Threads : Writes(u, k) => th[u].srv # s
        BY <2>1, <2>6 DEF Foremost
      <3> QED
        BY <1>7, <3>2, <3>3
    <2> QED
      BY <1>10, <2>3, <2>4, <2>5, <2>6 DEF Leads
  <1> QED
    BY <1>8, <1>9, <1>10 DEF CompetitionInv, Hope

\* A call.
LEMMA HopeCall ==
    ASSUME TypeOK, Competition, CompetitionInv, NEW t \in Threads, Call(t), NEW k \in Keys,
           UNCHANGED <<members, participants>>
    PROVE  Hope(k)'
  <1>1. PICK s \in Servers, l \in Keys :
          \/ ReadLocal(t, s, l) \/ ReadInvalid(t, s, l) \/ AskGroup(t, s, l)
          \/ \E v \in Values : WriteAlone(t, s, l, v) \/ SendWantToWrite(t, s, l, v)
    BY DEF Call
  <1>2. current \in [Keys -> SUBSET (Values \cup {Empty})] /\ submitted \in [Keys -> SUBSET Values]
    BY DEF TypeOK
  <1>3. CASE \/ ReadLocal(t, s, l) \/ ReadInvalid(t, s, l) \/ AskGroup(t, s, l)
             \/ \E v \in Values : WriteAlone(t, s, l, v)
    <2>1. /\ th[t].pc = "idle" /\ th'[t].pc \notin WritePCs
          /\ \A u \in Threads \ {t} : th'[u] = th[u]
          /\ \A m \in net' : m \notin net => m.type = "AskData"
          /\ net \subseteq net' /\ wantToWrite' = wantToWrite
      BY <1>3, CallFacts
    <2>2. \A u \in Threads : Writes(u, k) \/ Writes(u, k)' => th'[u] = th[u]
      BY <2>1 DEF Writes, WritePCs
    <2>3. \A m \in net' : Concerns(m, k) => m \in net
      BY <2>1 DEF Concerns
    <2>4. ASSUME NEW v \in Values, WriteAlone(t, s, l, v), k = l PROVE Hope(k)'
      <3>1. current'[k] # {}
        BY <1>2, <2>4 DEF WriteAlone
      <3> QED
        BY <3>1 DEF Hope
    <2>5. \/ \E v \in Values : WriteAlone(t, s, l, v) /\ k = l
          \/ current'[k] = current[k] /\ submitted'[k] = submitted[k]
      BY <1>2, <1>3 DEF ReadLocal, ReadInvalid, AskGroup, WriteAlone
    <2>6. CASE current'[k] = current[k] /\ submitted'[k] = submitted[k]
      BY <2>1, <2>2, <2>3, <2>6, HopeFrame DEF CompetitionInv
    <2> QED
      BY <2>4, <2>5, <2>6
  <1>4. ASSUME NEW v \in Values, SendWantToWrite(t, s, l, v) PROVE Hope(k)'
    <2>1. CASE k = l
      BY <1>4, <2>1, HopeWrite
    <2>2. CASE k # l
      <3>1. /\ th[t].pc = "idle" /\ th'[t].key = l
            /\ \A u \in Threads \ {t} : th'[u] = th[u]
            /\ net \subseteq net'
            /\ \A m \in net' : m \notin net => m.key = l
        BY <1>4, WriteFacts
      <3>2. \A r \in Servers : wantToWrite'[r][k] = wantToWrite[r][k]
        BY <1>4, <2>2, WriteFacts
      <3>3. \A u \in Threads : Writes(u, k) \/ Writes(u, k)' => th'[u] = th[u]
        BY <2>2, <3>1 DEF Writes, WritePCs
      <3>4. \A m \in net' : Concerns(m, k) => m \in net
        BY <2>2, <3>1 DEF Concerns
      <3>5. current'[k] = current[k] /\ submitted'[k] = submitted[k]
        BY <1>2, <1>4, <2>2 DEF SendWantToWrite
      <3> QED
        BY <3>1, <3>2, <3>3, <3>4, <3>5, HopeFrame DEF CompetitionInv
    <2> QED
      BY <2>1, <2>2
  <1> QED
    BY <1>1, <1>3, <1>4

\* A handler thread goes on: the leader decides, and nobody at its server gives up
\* before.
LEMMA HopeWork ==
    ASSUME TypeOK, CallbacksLive, Competition, CompetitionInv, NEW t \in Threads, Work(t),
           NEW k \in Keys, UNCHANGED <<members, participants>>, [Next]_vars
    PROVE  Hope(k)'
  <1>0. th \in [Threads -> Calls]
    BY DEF TypeOK
  <1>1. /\ th'[t].srv = th[t].srv /\ th'[t].key = th[t].key /\ th'[t].op = th[t].op
        /\ th'[t].conflict = th[t].conflict /\ th'[t].got = th[t].got
        /\ th'[t].pc \in WritePCs => th[t].pc \in WritePCs
        /\ \A u \in Threads \ {t} : th'[u] = th[u]
        /\ net \subseteq net'
        /\ \A m \in net' : m \notin net => m.type \in {"DataWritten", "RevalidateData"}
    BY WorkKeeps
  <1>2. \A s \in Servers, l \in Keys :
           wantToWrite'[s][l] = wantToWrite[s][l]
           \/ (ReleaseLock(t) /\ s = th[t].srv /\ l = th[t].key)
    BY WorkKeeps
  <1>3. \A m \in net' : Concerns(m, k) \/ Claim(m, k) => m \in net
    BY <1>1 DEF Concerns, Claim, Claims
  <1>4. submitted' = submitted
    BY DEF Work, RegisterCallback, SaveCopy, RequestTimeout, AllGranted, SaveGranted,
           WriteTimeout, WinConflict, LoseConflict, ReleaseLock
  <1>5. current' = current \/ (ReleaseLock(t) /\ \A l \in Keys \ {th[t].key} : current'[l] = current[l])
    <2>1. current \in [Keys -> SUBSET (Values \cup {Empty})]
      BY DEF TypeOK
    <2> QED
      BY <2>1 DEF Work, RegisterCallback, SaveCopy, RequestTimeout, AllGranted, SaveGranted,
           WriteTimeout, WinConflict, LoseConflict, ReleaseLock
  <1>6. CASE ~Writes(t, k)
    <2>1. ReleaseLock(t) => th[t].key # k
      BY <1>6 DEF ReleaseLock, Writes, WritePCs
    <2>2. current'[k] = current[k] /\ submitted'[k] = submitted[k]
      BY <1>4, <1>5, <2>1
    <2>3. \A u \in Threads : Writes(u, k) \/ Writes(u, k)' => th'[u] = th[u]
      BY <1>1, <1>6 DEF Writes
    <2>4. \A s \in Servers : wantToWrite'[s][k] = wantToWrite[s][k]
      BY <1>2, <2>1
    <2> QED
      BY <1>1, <1>3, <2>2, <2>3, <2>4, HopeFrame DEF CompetitionInv
  <1>7. CASE Writes(t, k) /\ current[k] # {}
    BY <1>7, AcknowledgedStays DEF Competition, CompetitionInv, Hope
  <1>8. CASE Writes(t, k) /\ current[k] = {}
    <2>1. PICK w \in Threads : Leads(w, k)
      BY <1>8 DEF CompetitionInv, Hope, Untouched
    <2>0. PICK s \in Servers : s = th[w].srv
      BY LockType
    <2>2. /\ s = th[w].srv /\ s \in members /\ Foremost(s, k)
          /\ Writes(w, k) /\ th[w].key = k /\ th[t].key = k
      BY <1>8, <2>0, <2>1 DEF Leads, Writes, CompetitionInv, Rightful
    <2>3. Foremost(s, k)'
      <3>1. \A u \in Threads : Writes(u, k)' =>
               \/ /\ Writes(u, k) /\ th'[u].srv = th[u].srv
                  /\ \A r \in th'[u].conflict : r \in th[u].conflict \/ Outranks(s, r)
               \/ Outranks(s, th'[u].srv) /\ th'[u].conflict = {}
        BY <1>1 DEF Writes
      <3>2. \A m \in net' : m \notin net /\ Claim(m, k) => Outranks(s, m.from)
        BY <1>3
      <3> QED
        BY <2>2, <3>1, <3>2, ForemostKept
    <2>4. \A u \in Threads : Writes(u, k) /\ th[u].srv = s => ~LoseConflict(u)
      <3> SUFFICES ASSUME NEW u \in Threads, Writes(u, k), th[u].srv = s, LoseConflict(u)
                   PROVE  FALSE
        OBVIOUS
      <3>1. PICK r \in th[u].conflict : ~Wins(s, r)
        BY DEF LoseConflict
      <3>2. r \in members /\ r \in Servers /\ r # s
        <4>1. th[u].pc \in WritePCs
          BY DEF Writes
        <4>2. th[u].conflict \subseteq members /\ th[u].srv \notin th[u].conflict
          BY <4>1 DEF CompetitionInv, Rightful
        <4>3. th[u].conflict \subseteq Servers
          BY LockType
        <4> QED
          BY <3>1, <4>2, <4>3
      <3>3. Outranks(s, r)
        BY <2>2, <3>1 DEF Foremost
      <3> QED
        BY <2>2, <3>1, <3>2, <3>3, Ranks DEF Competition
    <2>5. ASSUME WriteTimeout(t), Waits(w) PROVE th[w].got
      <3>1. \A m \in net : m.type \in KeyTypes => m.key # th[w].key
        BY <2>2, <2>5 DEF WriteTimeout, Expired, Competition, AllAnswer
      <3> QED
        BY <2>2, <2>5, <3>1, WaitEnds DEF CompetitionInv
    <2>6. ASSUME ReleaseLock(t), th[t].pc = "written" PROVE Hope(k)'
      <3>1. th[t].reply = "none"
        BY <1>8, <2>2 DEF CompetitionInv, Rightful, Writes
      <3>2. current' = [current EXCEPT ![k] = {th[t].val}]
        BY <2>2, <2>6, <3>1 DEF ReleaseLock
      <3>3. current'[k] # {}
        BY <3>2 DEF TypeOK
      <3> QED
        BY <3>3 DEF Hope
    <2>7. ASSUME Decided(w)' \/ Waits(w)', Writes(w, k)' PROVE Hope(k)'
      <3>1. th'[w].srv = s
        BY <1>1, <2>2
      <3>2. Foremost(th[w].srv, k)'
        BY <2>3, <3>1
      <3> QED
        BY <2>7, <3>2 DEF Hope, Leads
    <2>8. CASE w = t
      <3>1. CASE AllGranted(t) \/ SaveGranted(t) \/ WinConflict(t)
        <4>1. th'[t].pc \in {"granted", "written"}
          BY <1>0, <3>1 DEF AllGranted, SaveGranted, WinConflict, SaveDataLocally, Calls
        <4>2. Decided(w)' /\ Writes(w, k)'
          BY <1>1, <2>2, <2>8, <4>1 DEF Decided, Writes, WritePCs
        <4> QED
          BY <2>7, <4>2
      <3>2. CASE WriteTimeout(t)
        <4>1. th[w].pc = "writing" /\ ~th[w].got /\ th[w].conflict = {}
          BY <2>8, <3>2 DEF WriteTimeout, Competition, AllAnswer
        <4>2. Waits(w)
          BY <2>1, <4>1 DEF Leads, Decided
        <4> QED
          BY <2>5, <3>2, <4>1, <4>2
      <3>3. CASE LoseConflict(t)
        BY <2>2, <2>4, <2>8, <3>3
      <3>4. CASE ReleaseLock(t)
        <4>1. th[t].pc = "written"
          BY <2>1, <2>8, <3>4 DEF Leads, Decided, Waits, ReleaseLock
        <4> QED
          BY <2>6, <3>4, <4>1
      <3>5. ~RegisterCallback(t) /\ ~SaveCopy(t) /\ ~RequestTimeout(t)
        BY <1>8 DEF RegisterCallback, SaveCopy, RequestTimeout, Writes, WritePCs
      <3> QED
        BY <3>1, <3>2, <3>3, <3>4, <3>5 DEF Work
    <2>9. CASE w # t /\ Decided(w)
      <3>1. Decided(w)' /\ Writes(w, k)'
        BY <1>1, <2>2, <2>9 DEF Decided, Writes
      <3> QED
        BY <2>7, <3>1
    <2>10. CASE w # t /\ Waits(w) /\ ~Decided(w)
      <3>1. th'[w] = th[w] /\ Writes(w, k)'
        BY <1>1, <2>2, <2>10 DEF Writes
      <3>2. ~WriteTimeout(t)
        BY <2>5, <2>10 DEF Decided, Waits
      <3>3. ASSUME NEW r \in Rest(w), NEW m \in net, Blocks(m, w, r)
            PROVE  m \in net' /\ Blocks(m, w, r)'
        BY <1>1, <3>1, <3>3 DEF Blocks
      <3>4. CASE th[t].srv = s /\ th[t].pc = "aborted"
        BY <1>8, <2>2, <2>10, <3>4 DEF Waits
      <3>5. CASE ~(ReleaseLock(t) /\ th[t].srv = s)
        <4>1. wantToWrite'[th[w].srv][th[w].key] = wantToWrite[th[w].srv][th[w].key]
          BY <1>2, <2>2, <3>5
        <4>2. th'[t].srv = s => th'[t].pc # "aborted"
          <5>1. CASE RegisterCallback(t) \/ SaveCopy(t) \/ RequestTimeout(t) \/ AllGranted(t)
                     \/ ReleaseLock(t)
            BY <1>0, <5>1 DEF RegisterCallback, SaveCopy, RequestTimeout, AllGranted, ReleaseLock,
                              Calls
          <5>2. CASE SaveGranted(t) \/ WinConflict(t)
            BY <1>0, <5>2 DEF SaveGranted, WinConflict, SaveDataLocally, Calls
          <5>3. CASE LoseConflict(t)
            BY <1>1, <1>8, <2>4, <5>3
          <5> QED
            BY <3>2, <5>1, <5>2, <5>3 DEF Work
        <4>3. \A u \in Threads : Writes(u, th[w].key)' /\ th'[u].srv = th[w].srv /\ th'[u].pc = "aborted"
                 => Writes(u, th[w].key) /\ th[u].srv = th[w].srv /\ th[u].pc = "aborted"
          BY <1>1, <2>2, <3>1, <4>2 DEF Writes
        <4>4. \A r \in Rest(w) : \A m \in net : Blocks(m, w, r) => \E n \in net' : Blocks(n, w, r)'
          BY <3>3
        <4>5. Waits(w)'
          BY <2>10, <3>1, <4>1, <4>3, <4>4, WaitsKept
        <4> QED
          BY <2>7, <3>1, <4>5
      <3>6. CASE ReleaseLock(t) /\ th[t].pc = "written"
        BY <2>6, <3>6
      <3> QED
        BY <3>4, <3>5, <3>6 DEF ReleaseLock
    <2> QED
      BY <2>1, <2>8, <2>9, <2>10 DEF Leads
  <1> QED
    BY <1>6, <1>7, <1>8

\* A message about the competition for key k arrives: who is foremost stays foremost,
\* and a leader that has decided stays decided.
LEMMA LeaderStays ==
    ASSUME TypeOK, CallbacksLive, CompetitionInv, NEW m \in net, Deliver(m), NEW k \in Keys,
           NEW w \in Threads, Leads(w, k)
    PROVE  /\ Foremost(th[w].srv, k)' /\ Writes(w, k)' /\ th[w].key = k
           /\ Decided(w) => Decided(w)'
  <1>1. \A u \in Threads :
           /\ th'[u].srv = th[u].srv /\ th'[u].key = th[u].key /\ th'[u].pc = th[u].pc
           /\ th[u].got => th'[u].got
           /\ th'[u].conflict = th[u].conflict
              \/ (/\ m.type \in Claims /\ m.to \in Servers /\ m.key \in Keys
                  /\ u \in wantToWrite[m.to][m.key].holder
                  /\ th'[u].conflict = {m.from})
    BY DeliverKeeps DEF CompetitionInv
  <1>2. PICK s \in Servers : s = th[w].srv
    BY LockType
  <1>3. Foremost(s, k)
    BY <1>2 DEF Leads
  <1>4. ASSUME NEW n \in net', n \notin net, Claim(n, k) PROVE Outranks(s, n.from)
    <2>1. /\ n \in Multicast(m.to, "WriteConflict", m.key, m.op)
          /\ \E u \in Threads : Writes(u, m.key) /\ th[u].srv = m.to
      BY <1>4, DeliverKeeps DEF CompetitionInv, Claim
    <2>2. n.from = m.to /\ n.key = m.key /\ n.key = k
      BY <1>4, <2>1, InMulticast DEF Claim
    <2> QED
      BY <1>3, <2>1, <2>2 DEF Foremost
  <1>5. ASSUME NEW u \in Threads, Writes(u, k)'
        PROVE  /\ Writes(u, k) /\ th'[u].srv = th[u].srv
               /\ \A r \in th'[u].conflict : r \in th[u].conflict \/ Outranks(s, r)
    <2>1. Writes(u, k) /\ th[u].key = k
      BY <1>1, <1>5 DEF Writes
    <2>2. CASE th'[u].conflict = th[u].conflict
      BY <1>1, <2>1, <2>2
    <2>3. CASE /\ m.type \in Claims /\ m.to \in Servers /\ m.key \in Keys
               /\ u \in wantToWrite[m.to][m.key].holder /\ th'[u].conflict = {m.from}
      <3>1. m.key = k
        BY <2>1, <2>3 DEF CallbacksLive, Serves
      <3>2. Outranks(s, m.from)
        BY <1>3, <2>3, <3>1 DEF Foremost, Claim
      <3> QED
        BY <1>1, <2>1, <2>3, <3>2
    <2> QED
      BY <1>1, <2>2, <2>3
  <1>6. Foremost(s, k)'
    BY <1>3, <1>4, <1>5, ForemostKept
  <1>7. th'[w].srv = s
    BY <1>1, <1>2
  <1>8. Foremost(th[w].srv, k)'
    BY <1>6, <1>7
  <1>9. Writes(w, k)' /\ th[w].key = k
    BY <1>1 DEF Leads, Writes
  <1>10. Decided(w) => Decided(w)'
    BY <1>1 DEF Decided
  <1> QED
    BY <1>8, <1>9, <1>10

\* Another server is asked and answers: it is not heard yet.
LEMMA GrantKeepsWaiting ==
    ASSUME TypeOK, AllAnswer, Rightful, NEW m \in net, GrantWrite(m), NEW w \in Threads,
           th'[w] = th[w], NEW r \in Rest(w), NEW n \in net, Blocks(n, w, r),
           UNCHANGED members
    PROVE  \E x \in net' : Blocks(x, w, r)'
  <1>1. m.type = "WantToWrite" /\ m \in KeyMessages /\ m.to \in Servers /\ m.from \in members
    BY ClaimKind DEF GrantWrite, Receive, KeyTypes, Rightful, Claims
  <1>2. CASE n # m
    <2>1. n \in net'
      BY <1>2 DEF GrantWrite
    <2> QED
      BY <2>1 DEF Blocks
  <1>3. CASE n = m
    <2>1. m.key = th[w].key /\ m.op = th[w].op /\ m.from = th[w].srv /\ m.to = r
      BY <1>1, <1>3 DEF Blocks
    <2>2. r \in members
      BY DEF Rest
    <2> DEFINE x == [type |-> "WantToWriteResponse", from |-> r, to |-> m.from, key |-> m.key,
                     data |-> Empty, op |-> m.op]
    <2>3. x \in Unicast(m.to, "WantToWriteResponse", m.from, m.key, Empty, m.op)
      BY <1>1, <2>1 DEF Unicast
    <2>4. /\ x.type = "WantToWriteResponse" /\ x.from = r /\ x.to = m.from /\ x.key = m.key
          /\ x.op = m.op
      OBVIOUS
    <2> HIDE DEF x
    <2>5. x \in net'
      BY <2>1, <2>2, <2>3 DEF GrantWrite, AllAnswer
    <2>6. x.type \in KeyTypes
      BY <2>4 DEF KeyTypes
    <2>7. Blocks(x, w, r)'
      BY <2>1, <2>4, <2>6 DEF Blocks
    <2> QED
      BY <2>5, <2>7
  <1> QED
    BY <1>2, <1>3

\* Another server is asked and objects: it is not heard yet.
LEMMA ConflictKeepsWaiting ==
    ASSUME TypeOK, Rightful, NEW m \in net, DetectConflict(m), NEW w \in Threads,
           th'[w].srv = th[w].srv, th'[w].key = th[w].key, th'[w].op = th[w].op,
           NEW r \in Rest(w), NEW n \in net, Blocks(n, w, r), UNCHANGED members
    PROVE  \E x \in net' : Blocks(x, w, r)'
  <1>1. m.type = "WantToWrite" /\ m.to \in Servers /\ m.from \in members \cap Servers
        /\ m.from # m.to
    BY ClaimKind DEF DetectConflict, Receive, KeyTypes, Rightful, Claims
  <1>2. CASE n # m
    <2>1. n \in net'
      BY <1>2 DEF DetectConflict
    <2> QED
      BY <2>1 DEF Blocks
  <1>3. CASE n = m
    <2>1. m.key = th[w].key /\ m.from = th[w].srv /\ m.to = r
      BY <1>1, <1>3 DEF Blocks
    <2> DEFINE x == [type |-> "WriteConflict", from |-> r, to |-> m.from, key |-> m.key,
                     data |-> Empty, op |-> m.op]
    <2>3. x \in Multicast(m.to, "WriteConflict", m.key, m.op)
      BY <1>1, <2>1 DEF Multicast
    <2>4. /\ x.type = "WriteConflict" /\ x.from = r /\ x.to = m.from /\ x.key = m.key
      OBVIOUS
    <2> HIDE DEF x
    <2>5. x \in net'
      BY <2>3 DEF DetectConflict
    <2>6. x.type \in KeyTypes
      BY <2>4 DEF KeyTypes
    <2>7. Blocks(x, w, r)'
      BY <2>1, <2>4, <2>6 DEF Blocks
    <2> QED
      BY <2>5, <2>7
  <1> QED
    BY <1>2, <1>3

\* A response arrives: if it is for the leader, one more is heard and counted.
LEMMA ResponseKeepsWaiting ==
    ASSUME TypeOK, CallbacksLive, Steady, NEW m \in net, WantToWriteResponse(m), NEW w \in Threads,
           Waits(w), UNCHANGED <<members, participants>>
    PROVE  Waits(w)'
  <1>1. /\ m.to \in Servers /\ m.from \in Servers /\ m.key \in Keys
        /\ m.type = "WantToWriteResponse" /\ net' = net \ {m}
    BY ClaimKind DEF WantToWriteResponse, Receive, KeyTypes
  <1>2. \A u \in Threads :
           /\ th'[u].srv = th[u].srv /\ th'[u].key = th[u].key /\ th'[u].op = th[u].op
           /\ th'[u].pc = th[u].pc
           /\ th[u].got => th'[u].got
    BY ResponseFields
  <1>3. /\ w \in wantToWrite[m.to][m.key].holder
             /\ Enough(wantToWrite[m.to][m.key].received + 1, participants[m.to]) => th'[w].got
        /\ \A s \in Servers, k \in Keys :
              IF s = m.to /\ k = m.key /\ wantToWrite[s][k].holder # {}
              THEN /\ wantToWrite'[s][k].holder = wantToWrite[s][k].holder
                   /\ wantToWrite'[s][k].received = wantToWrite[s][k].received + 1
              ELSE wantToWrite'[s][k] = wantToWrite[s][k]
    BY ResponseFields
  <1>4. \A u \in Threads : Writes(u, th[w].key)' /\ th'[u].srv = th[w].srv /\ th'[u].pc = "aborted"
           => Writes(u, th[w].key) /\ th[u].srv = th[w].srv /\ th[u].pc = "aborted"
    BY <1>2 DEF Writes
  <1>5. CASE m.to = th[w].srv /\ m.key = th[w].key
    <2> DEFINE s == m.to  k == m.key
    <2>1. Lock(w) = wantToWrite[s][k] /\ Lock(w)' = wantToWrite'[s][k]
      BY <1>2, <1>5 DEF Lock
    <2>2. Lock(w).holder = {w}
      BY DEF Waits
    <2>3. Lock(w)'.holder = {w} /\ Lock(w)'.received = Lock(w).received + 1
      BY <1>1, <1>3, <2>1, <2>2
    <2>4. Rest(w)' = Rest(w) /\ Rest(w) \subseteq Servers
      BY <1>2 DEF Rest
    <2>5. Heard(w)' \subseteq Heard(w) \cup {m.from}
      <3> SUFFICES ASSUME NEW r \in Heard(w)', r # m.from PROVE r \in Heard(w)
        OBVIOUS
      <3>1. r \in Rest(w) /\ \A n \in net' : ~Blocks(n, w, r)'
        BY <2>4 DEF Heard
      <3>2. ASSUME NEW n \in net, Blocks(n, w, r) PROVE FALSE
        <4>1. n # m
          BY <1>1, <3>2 DEF Blocks
        <4>2. Blocks(n, w, r)'
          BY <1>2, <3>2 DEF Blocks
        <4> QED
          BY <1>1, <3>1, <4>1, <4>2
      <3> QED
        BY <3>1, <3>2 DEF Heard
    <2>6. Cardinality(Heard(w)') <= Cardinality(Heard(w)) + 1
          /\ Cardinality(Heard(w)) \in Nat /\ Cardinality(Heard(w)') \in Nat
      <3>1. Heard(w) \in SUBSET Servers /\ Heard(w)' \in SUBSET Servers
        BY <2>4 DEF Heard
      <3>2. Heard(w) \cup {m.from} \in SUBSET Servers
        BY <1>1, <3>1
      <3>3. /\ Cardinality(Heard(w)) \in Nat /\ Cardinality(Heard(w)') \in Nat
            /\ Cardinality(Heard(w)') <= Cardinality(Heard(w) \cup {m.from})
            /\ Cardinality(Heard(w) \cup {m.from}) \in Nat
        BY <2>5, <3>1, <3>2, ServerSets
      <3>4. m.from \notin Heard(w) => Cardinality(Heard(w) \cup {m.from}) = Cardinality(Heard(w)) + 1
        BY <1>1, <3>1, ServerSets
      <3>5. m.from \in Heard(w) => Heard(w) \cup {m.from} = Heard(w)
        OBVIOUS
      <3> QED
        BY <3>3, <3>4, <3>5
    <2>7. Lock(w)'.received >= Cardinality(Heard(w)')
      BY <2>3, <2>6, LockType DEF Waits
    <2>8. Lock(w)'.received >= participants'[th'[w].srv] - 2 => th'[w].got
      BY <1>2, <1>3, <1>5, <2>1, <2>2, <2>3 DEF Enough
    <2>9. (\A u \in Threads : Writes(u, th[w].key) /\ th[u].srv = th[w].srv => th[u].pc # "aborted")'
      BY <1>2 DEF Waits, Writes
    <2>10. th'[w].pc = "writing"
      BY <1>2 DEF Waits
    <2> QED
      BY <2>3, <2>7, <2>8, <2>9, <2>10 DEF Waits
  <1>6. CASE ~(m.to = th[w].srv /\ m.key = th[w].key)
    <2>1. wantToWrite'[th[w].srv][th[w].key] = wantToWrite[th[w].srv][th[w].key]
      BY <1>3, <1>6, LockType
    <2>2. ASSUME NEW r \in Rest(w), NEW n \in net, Blocks(n, w, r)
          PROVE  n \in net' /\ Blocks(n, w, r)'
      BY <1>1, <1>2, <1>6, <2>2 DEF Blocks
    <2>3. \A r \in Rest(w) : \A n \in net : Blocks(n, w, r) => \E x \in net' : Blocks(x, w, r)'
      BY <2>2
    <2> QED
      BY <1>2, <1>4, <2>1, <2>3, WaitsKept
  <1> QED
    BY <1>5, <1>6

\* A message arrives.
LEMMA HopeDeliver ==
    ASSUME TypeOK, CallbacksLive, Competition, CompetitionInv, NEW m \in net, Deliver(m),
           NEW k \in Keys, UNCHANGED <<members, participants>>
    PROVE  Hope(k)'
  <1>0. UNCHANGED <<current, submitted>>
    BY DEF Deliver, AskData, AskDataResponse, GrantWrite, DetectConflict,
                WantToWriteResponse, ConflictReceived, DataWritten, RevalidateData,
                StartupData, StartupDataResponse
  <1>1. \A u \in Threads :
           /\ th'[u].srv = th[u].srv /\ th'[u].key = th[u].key /\ th'[u].op = th[u].op
           /\ th'[u].pc = th[u].pc
           /\ th[u].got => th'[u].got
           /\ th'[u].conflict = th[u].conflict
              \/ (/\ m.type \in Claims /\ m.to \in Servers /\ m.key \in Keys
                  /\ u \in wantToWrite[m.to][m.key].holder
                  /\ th'[u].conflict = {m.from})
    BY DeliverKeeps DEF CompetitionInv
  <1>2. \A u \in Threads : Writes(u, k)' <=> Writes(u, k)
    BY <1>1 DEF Writes
  <1>3. CASE ~Concerns(m, k)
    <2>1. \A u \in Threads : Writes(u, k) => th'[u] = th[u]
      <3> SUFFICES ASSUME NEW u \in Threads, Writes(u, k) PROVE th'[u] = th[u]
        OBVIOUS
      <3>0. th \in [Threads -> Calls]
        BY DEF TypeOK
      <3>1. CASE AskDataResponse(m)
        <4>1. m.to \in Servers /\ m.key \in Keys
          BY <3>1, ClaimKind DEF AskDataResponse, Receive, KeyTypes
        <4>2. u \notin waitingData[m.to][m.key]
          BY <4>1, WhereRegistered DEF Writes, WritePCs
        <4> QED
          BY <3>0, <3>1, <4>2 DEF AskDataResponse
      <3>2. CASE WantToWriteResponse(m) \/ DetectConflict(m) \/ ConflictReceived(m)
        <4>1. m.type \in {"WantToWrite", "WantToWriteResponse", "WriteConflict"}
          BY <3>2 DEF WantToWriteResponse, DetectConflict, ConflictReceived, Receive
        <4>2. m.to \in Servers /\ m.key \in Keys /\ m.key # k
          BY <1>3, <4>1, ClaimKind DEF Concerns, KeyTypes
        <4>3. u \notin wantToWrite[m.to][m.key].holder
          BY <4>2, WhereRegistered DEF Writes
        <4> QED
          BY <3>0, <3>2, <4>3 DEF WantToWriteResponse, DetectConflict, ConflictReceived, SetConflict
      <3>3. CASE th' = th
        BY <3>3
      <3> QED
        BY <3>1, <3>2, <3>3 DEF Deliver, AskData, GrantWrite, DataWritten, RevalidateData,
                StartupData, StartupDataResponse
    <2>2. \A s \in Servers : wantToWrite'[s][k] = wantToWrite[s][k]
      <3>1. CASE WantToWriteResponse(m)
        <4>1. m.key # k
          BY <1>3, <3>1 DEF Concerns, WantToWriteResponse, Receive
        <4>2. wantToWrite \in [Servers -> [Keys -> Locks]]
          BY DEF TypeOK
        <4> QED
          BY <3>1, <4>1, <4>2 DEF WantToWriteResponse
      <3>2. CASE wantToWrite' = wantToWrite
        BY <3>2
      <3> QED
        BY <3>1, <3>2 DEF Deliver, AskData, AskDataResponse, GrantWrite, DetectConflict,
                ConflictReceived, DataWritten, RevalidateData, StartupData, StartupDataResponse,
                server
    <2>3. \A n \in net : Concerns(n, k) => n \in net'
      <3>1. net \ {m} \subseteq net'
        BY DEF Deliver, AskData, AskDataResponse, GrantWrite, DetectConflict,
                WantToWriteResponse, ConflictReceived, DataWritten, RevalidateData,
                StartupData, StartupDataResponse
      <3> QED
        BY <1>3, <3>1
    <2>4. ASSUME NEW n \in net', Concerns(n, k) PROVE n \in net
      <3> SUFFICES ASSUME n \notin net PROVE FALSE
        OBVIOUS
      <3>1. CASE AskData(m)
        <4>1. n \in Unicast(m.to, "AskDataResponse", m.from, m.key, db[m.to][m.key].data, m.op)
          BY <2>4, <3>1 DEF AskData
        <4> QED
          BY <2>4, <4>1, InUnicast DEF Concerns
      <3>2. CASE GrantWrite(m)
        <4>1. n \in Unicast(m.to, "WantToWriteResponse", m.from, m.key, Empty, m.op)
              /\ m.type = "WantToWrite"
          BY <2>4, <3>2 DEF GrantWrite, Receive
        <4> QED
          BY <1>3, <2>4, <4>1, InUnicast DEF Concerns
      <3>3. CASE DetectConflict(m)
        <4>1. n \in Multicast(m.to, "WriteConflict", m.key, m.op) /\ m.type = "WantToWrite"
          BY <2>4, <3>3 DEF DetectConflict, Receive
        <4> QED
          BY <1>3, <2>4, <4>1, InMulticast DEF Concerns
      <3>4. CASE StartupData(m)
        <4>1. n.type \notin KeyTypes
          BY <2>4, <3>4, InStartupUnicast DEF StartupData
        <4> QED
          BY <2>4, <4>1 DEF Concerns, KeyTypes
      <3>5. CASE net' \subseteq net
        BY <2>4, <3>5
      <3> QED
        BY <3>1, <3>2, <3>3, <3>4, <3>5 DEF Deliver, AskDataResponse, WantToWriteResponse,
                ConflictReceived, DataWritten, RevalidateData, StartupDataResponse
    <2>5. \A u \in Threads : Writes(u, k) \/ Writes(u, k)' => th'[u] = th[u]
      BY <1>2, <2>1
    <2> QED
      BY <1>0, <2>2, <2>3, <2>4, <2>5, HopeFrame DEF CompetitionInv
  <1>4. CASE Concerns(m, k) /\ current[k] # {}
    BY <1>0, <1>4 DEF Hope
  <1>5. CASE Concerns(m, k) /\ Untouched(k)
    <2>1. ASSUME NEW n \in net', Claim(n, k) PROVE FALSE
      <3>1. n \notin net
        BY <1>5, <2>1 DEF Untouched
      <3>2. \E u \in Threads : Writes(u, m.key) /\ th[u].srv = m.to
        BY <2>1, <3>1, DeliverKeeps DEF CompetitionInv, Claim
      <3> QED
        BY <1>5, <3>2 DEF Untouched, Concerns
    <2>2. Untouched(k)'
      BY <1>0, <1>2, <1>5, <2>1 DEF Untouched
    <2> QED
      BY <2>2 DEF Hope
  <1>6. ASSUME Concerns(m, k), NEW w \in Threads, Leads(w, k) PROVE Hope(k)'
    <2>1. Foremost(th[w].srv, k)' /\ Writes(w, k)' /\ th[w].key = k
      BY <1>6, LeaderStays
    <2>2. CASE Decided(w)' \/ Waits(w)'
      BY <2>1, <2>2 DEF Hope, Leads
    <2>3. CASE Decided(w)
      BY <1>6, <2>2, <2>3, LeaderStays
    <2>4. CASE Waits(w)
      <3>1. \A u \in Threads : Writes(u, th[w].key)' /\ th'[u].srv = th[w].srv /\ th'[u].pc = "aborted"
                => Writes(u, th[w].key) /\ th[u].srv = th[w].srv /\ th[u].pc = "aborted"
        BY <1>1 DEF Writes
      <3>2. ASSUME wantToWrite' = wantToWrite,
                   \A r \in Rest(w) : \A n \in net : Blocks(n, w, r) => \E x \in net' : Blocks(x, w, r)'
            PROVE  Waits(w)'
        BY <1>1, <2>4, <3>1, <3>2, WaitsKept
      <3>3. CASE GrantWrite(m)
        <4>1. th' = th /\ wantToWrite' = wantToWrite
          BY <3>3 DEF GrantWrite
        <4>2. \A r \in Rest(w) : \A n \in net : Blocks(n, w, r) => \E x \in net' : Blocks(x, w, r)'
          BY <3>3, <4>1, GrantKeepsWaiting DEF Competition, CompetitionInv
        <4> QED
          BY <2>2, <3>2, <4>1, <4>2
      <3>4. CASE DetectConflict(m)
        <4>1. wantToWrite' = wantToWrite
          BY <3>4 DEF DetectConflict, server
        <4>2. \A r \in Rest(w) : \A n \in net : Blocks(n, w, r) => \E x \in net' : Blocks(x, w, r)'
          BY <1>1, <3>4, ConflictKeepsWaiting DEF CompetitionInv
        <4> QED
          BY <2>2, <3>2, <4>1, <4>2
      <3>5. CASE WantToWriteResponse(m)
        BY <2>2, <2>4, <3>5, ResponseKeepsWaiting DEF CompetitionInv
      <3>6. CASE ConflictReceived(m)
        <4>1. m.type = "WriteConflict" /\ net' = net \ {m} /\ th' = SetConflict(m.to, m.key, m.from)
              /\ wantToWrite' = wantToWrite
          BY <3>6 DEF ConflictReceived, Receive, server
        <4>2. CASE m.to = th[w].srv
          <5>1. w \in wantToWrite[m.to][m.key].holder /\ th[w].pc = "writing"
            BY <1>6, <2>1, <2>4, <4>2 DEF Waits, Lock, Concerns
          <5>2. th'[w].conflict # {}
            <6>1. th[w] \in Calls
              BY DEF TypeOK
            <6>2. th'[w] = [th[w] EXCEPT !.conflict = {m.from}]
              BY <4>1, <5>1 DEF SetConflict
            <6>3. th'[w].conflict = {m.from}
              BY <6>1, <6>2 DEF Calls
            <6> QED
              BY <6>3
          <5>3. Decided(w)'
            BY <1>1, <5>1, <5>2 DEF Decided
          <5> QED
            BY <2>2, <5>3
        <4>3. CASE m.to # th[w].srv
          <5>1. ASSUME NEW r \in Rest(w), NEW n \in net, Blocks(n, w, r)
                PROVE  n \in net' /\ Blocks(n, w, r)'
            BY <1>1, <4>1, <4>3, <5>1 DEF Blocks
          <5>2. \A r \in Rest(w) : \A n \in net : Blocks(n, w, r) => \E x \in net' : Blocks(x, w, r)'
            BY <5>1
          <5> QED
            BY <2>2, <3>2, <4>1, <5>2
        <4> QED
          BY <4>2, <4>3
      <3> QED
        BY <1>6, <3>3, <3>4, <3>5, <3>6 DEF Deliver, AskData, AskDataResponse, DataWritten,
               RevalidateData, StartupData, StartupDataResponse, Receive, Concerns
    <2> QED
      BY <1>6, <2>3, <2>4 DEF Leads
  <1> QED
    BY <1>3, <1>4, <1>5, <1>6 DEF CompetitionInv, Hope

----------------------------------------------------------------------------
(* The theorem.                                                            *)

\* Every step.
LEMMA CompetitionStep ==
    ASSUME TypeOK, CallbacksLive, Competition, CompetitionInv, [Next]_vars
    PROVE  CompetitionInv'
  <1>1. Stable /\ Steady /\ Rightful
    BY DEF Competition, CompetitionInv
  <1>2. /\ UNCHANGED <<members, views, participants>>
        /\ \/ \E t \in Threads : Call(t) \/ Work(t)
           \/ \E m \in net : Deliver(m)
           \/ UNCHANGED vars
    BY <1>1, SteadySteps
  <1>3. Steady'
    BY <1>1, <1>2 DEF Steady
  <1>4. Rightful'
    BY <1>1, RightfulStep
  <1>5. ASSUME NEW k \in Keys PROVE Hope(k)'
    <2>1. CASE UNCHANGED vars
      <3>1. UNCHANGED <<members, participants, current, submitted, th, wantToWrite, net>>
        BY <2>1 DEF vars, server, group
      <3> QED
        BY <3>1, HopeFrame DEF CompetitionInv
    <2>2. ASSUME NEW t \in Threads, Call(t) PROVE Hope(k)'
      BY <1>2, <2>2, HopeCall
    <2>3. ASSUME NEW t \in Threads, Work(t) PROVE Hope(k)'
      BY <1>2, <2>3, HopeWork
    <2>4. ASSUME NEW m \in net, Deliver(m) PROVE Hope(k)'
      BY <1>2, <2>4, HopeDeliver
    <2> QED
      BY <1>2, <2>1, <2>2, <2>3, <2>4
  <1> QED
    BY <1>3, <1>4, <1>5 DEF CompetitionInv

\* The start.
LEMMA CompetitionInit == Init => CompetitionInv
  <1> SUFFICES ASSUME Init PROVE CompetitionInv
    OBVIOUS
  <1>1. Steady
    BY ConstantAssumption DEF Init, Steady
  <1>2. net = {} /\ \A t \in Threads : th[t].pc = "idle"
    BY DEF Init
  <1>3. Rightful
    BY <1>2 DEF Rightful, WritePCs
  <1>4. \A k \in Keys : Untouched(k)
    BY <1>2 DEF Untouched, Writes, WritePCs, Init
  <1> QED
    BY <1>1, <1>3, <1>4 DEF CompetitionInv, Hope

\* The invariant, where it is needed.
WritersInv == TypeOK /\ CallbacksLive /\ (Competition => CompetitionInv)

\* It holds at the start, and every step keeps it.
LEMMA WritersInvCorrect == Spec => []WritersInv
  <1>1. Init => WritersInv
    BY TypeInit, CallbacksInit, CompetitionInit DEF WritersInv
  <1>2. WritersInv /\ [Next]_vars => WritersInv'
    <2> SUFFICES ASSUME WritersInv, [Next]_vars PROVE WritersInv'
      OBVIOUS
    <2>1. TypeOK /\ CallbacksLive
      BY DEF WritersInv
    <2>2. TypeOK' /\ CallbacksLive'
      BY <2>1, TypeStep, CallbacksStep
    <2>3. ASSUME Competition' PROVE CompetitionInv'
      <3>1. Stable
        BY <2>3, EnvStays DEF Competition, Stable
      <3>2. members' = members
        BY <2>1, <3>1, MembersStay
      <3>3. Competition
        BY <2>3, <3>1, <3>2, EnvStays DEF Competition, AllAnswer, NoTies, Cardinal
      <3> QED
        BY <2>1, <3>3, CompetitionStep DEF WritersInv
    <2> QED
      BY <2>2, <2>3 DEF WritersInv
  <1> QED
    BY <1>1, <1>2, PTL DEF Spec

\* Of the writers of a key, however many threads of however many servers write it at
\* once, one is acknowledged: neither the conflicts that wantToWriteReceived reports
\* and electLeader resolves, nor responses that arrive at another thread of the same
\* server, whose callback was replaced, turn all of them away.
THEOREM SomeoneWinsCorrect == Spec => []SomeoneWins
  <1>1. WritersInv => SomeoneWins
    <2> SUFFICES ASSUME WritersInv, Competition, Settled, NEW k \in Keys, submitted[k] # {}
                 PROVE  current[k] # {}
      BY DEF SomeoneWins, Competition
    <2>1. Hope(k)
      BY DEF WritersInv, CompetitionInv
    <2>2. \A t \in Threads : ~Writes(t, k)
      BY DEF Settled, Writes, WritePCs
    <2> QED
      BY <2>1, <2>2 DEF Hope, Untouched, Leads
  <1> QED
    BY <1>1, WritersInvCorrect, PTL

==============================================================================
