------------------------ MODULE LeaderManager_proofs ------------------------
(***************************************************************************)
(* Proofs about LeaderManager, for every set of servers, threads, keys and *)
(* values, every configuration and every bound.                            *)
(***************************************************************************)
EXTENDS LeaderManager, FiniteSetTheorems, TLAPS

----------------------------------------------------------------------------
(* Facts about the operators.                                              *)

\* The size of a view is a number, as getMembers().length is.
LEMMA CardinalityIsNat ==
    ASSUME NEW S \in SUBSET (Servers \cup {Service})
    PROVE  Cardinality(S) \in Nat
  <1>1. IsFiniteSet(Servers)
    BY ConstantAssumption
  <1>2. IsFiniteSet(Servers \cup {Service})
    BY <1>1, FS_AddElement
  <1>3. IsFiniteSet(S)
    BY <1>2, FS_Subset
  <1> QED
    BY <1>3, FS_CardinalityType

\* What a group message about a key carries is well formed.
LEMMA MulticastType ==
    ASSUME NEW s \in Servers, NEW type \in KeyTypes, NEW k \in Keys, NEW op \in Nat
    PROVE  Multicast(s, type, k, op) \subseteq Messages
  BY DEF Multicast, Messages, KeyMessages

\* What a private message about a key carries is well formed.
LEMMA UnicastType ==
    ASSUME NEW s \in Servers, NEW type \in KeyTypes, NEW r \in Servers, NEW k \in Keys,
           NEW data \in Values \cup {Empty}, NEW op \in Nat
    PROVE  Unicast(s, type, r, k, data, op) \subseteq Messages
  BY DEF Unicast, Messages, KeyMessages

\* What a startup message carries is well formed.
LEMMA StartupUnicastType ==
    ASSUME NEW s \in Servers, NEW r,
           NEW type \in {"StartupRequestUpdate", "StartupResponseUpdate"},
           NEW rows \in [Keys -> Values \cup {Empty}], NEW op \in Nat
    PROVE  StartupUnicast(s, type, r, rows, op) \subseteq Messages
  BY DEF StartupUnicast, Messages, StartupMessages

\* The type tag of a message tells which fields it has.
LEMMA MessageKind ==
    ASSUME NEW m \in Messages
    PROVE  /\ m.type \in KeyTypes => m \in KeyMessages
           /\ m.type \in {"StartupRequestUpdate", "StartupResponseUpdate"} =>
                m \in StartupMessages
           /\ m.to \in Servers /\ m.from \in Servers /\ m.op \in Nat
  BY DEF Messages, KeyMessages, StartupMessages, KeyTypes

\* Invalidation, purge and revalidation turn a row into a row.
LEMMA RowType ==
    ASSUME NEW row \in Rows
    PROVE  Invalidated(row) \in Rows /\ Purged(row) \in Rows /\ Revalidated(row) \in Rows
  BY DEF Rows, Invalidated, Purged, Revalidated, Row, NoRow

\* A call that arrives is well formed.
LEMMA NewCallType ==
    ASSUME ops \in Nat, NEW pc \in {"idle", "asked", "reading"} \cup WritePCs,
           NEW s \in Servers, NEW k \in Keys, NEW v \in Values \cup {Empty},
           NEW reply \in {"none", "empty", "value", "ok", "error"}
    PROVE  NewCall(pc, s, k, v, reply) \in Calls
  BY DEF NewCall, Calls

\* The updates that handlers make to calls and locks keep them well formed.
LEMMA GotType ==
    ASSUME NEW c \in Calls
    PROVE  [c EXCEPT !.got = TRUE] \in Calls
  BY DEF Calls

\* So does the answer of another server, handed to the reader it is for.
LEMMA AnswerType ==
    ASSUME NEW c \in Calls, NEW v \in Values \cup {Empty}
    PROVE  [c EXCEPT !.got = TRUE, !.val = v] \in Calls
  BY DEF Calls

\* So does a conflict, handed to the writer it is about.
LEMMA ConflictType ==
    ASSUME NEW c \in Calls, NEW r \in Servers
    PROVE  [c EXCEPT !.conflict = {r}] \in Calls
  BY DEF Calls

\* So does a crash, which ends a call with an error.
LEMMA StoppedType ==
    ASSUME NEW c \in Calls
    PROVE  [c EXCEPT !.pc = "idle", !.reply = Reply(c.reply, "error")] \in Calls
  BY DEF Calls, Reply

\* So does one more response counted in a lock.
LEMMA CountType ==
    ASSUME NEW lock \in Locks
    PROVE  [lock EXCEPT !.received = lock.received + 1] \in Locks
  BY DEF Locks

----------------------------------------------------------------------------
(* Type correctness.                                                       *)

\* The initial state has the types.
LEMMA TypeInit == Init => TypeOK
  <1> SUFFICES ASSUME Init PROVE TypeOK
    OBVIOUS
  <1> USE DEF Init
  <1>1. db \in [Servers -> [Keys -> Rows]]
    BY DEF NoRow, Row, Rows
  <1>2. wantToWrite \in [Servers -> [Keys -> Locks]]
    BY DEF NoLock, Locks
  <1>3. members \in SUBSET (Servers \cup {Service})
    BY ConstantAssumption
  <1>4. participants \in [Servers -> Int]
    BY <1>3, CardinalityIsNat
  <1>5. th \in [Threads -> Calls]
    <2>1. (CHOOSE s \in Servers : TRUE) \in Servers /\ (CHOOSE k \in Keys : TRUE) \in Keys
      BY ConstantAssumption
    <2> QED
      BY <2>1 DEF Calls
  <1>6. views \in [Servers -> Seq(Views)]
    OBVIOUS
  <1> QED
    BY <1>1, <1>2, <1>3, <1>4, <1>5, <1>6 DEF TypeOK

\* Every step keeps the types.
LEMMA TypeStep == TypeOK /\ [Next]_vars => TypeOK'
  <1> SUFFICES ASSUME TypeOK, [Next]_vars PROVE TypeOK'
    OBVIOUS
  <1> USE DEF TypeOK
  <1>1. ASSUME NEW t \in Threads, Call(t) PROVE TypeOK'
    <2> PICK s \in Servers, k \in Keys :
            \/ ReadLocal(t, s, k)
            \/ ReadInvalid(t, s, k)
            \/ AskGroup(t, s, k)
            \/ \E v \in Values : WriteAlone(t, s, k, v) \/ SendWantToWrite(t, s, k, v)
      BY <1>1 DEF Call
    <2>1. CASE ReadLocal(t, s, k)
      <3>1. NewCall("idle", s, k, db[s][k].data, Reply(Early(s, "empty"), "value")) \in Calls
        BY NewCallType DEF Rows, Reply, Early
      <3> QED
        BY <2>1, <3>1 DEF ReadLocal, Arrives, server, group
    <2>2. CASE ReadInvalid(t, s, k)
      <3>1. NewCall("idle", s, k, Empty, "empty") \in Calls
        BY NewCallType
      <3> QED
        BY <2>2, <3>1 DEF ReadInvalid, Arrives, server, group
    <2>3. CASE AskGroup(t, s, k)
      <3>1. NewCall("asked", s, k, Empty, Early(s, "empty")) \in Calls
        BY NewCallType DEF Early
      <3>2. Multicast(s, "AskData", k, ops + 1) \subseteq Messages
        BY MulticastType DEF KeyTypes
      <3> QED
        BY <2>3, <3>1, <3>2 DEF AskGroup, Arrives, server, group
    <2>4. ASSUME NEW v \in Values, WriteAlone(t, s, k, v) PROVE TypeOK'
      <3>1. NewCall("idle", s, k, v, "ok") \in Calls
        BY NewCallType
      <3>2. Saved(v) \in Rows
        BY DEF Saved, Row, Rows
      <3> QED
        BY <2>4, <3>1, <3>2 DEF WriteAlone, Arrives, group
    <2>5. ASSUME NEW v \in Values, SendWantToWrite(t, s, k, v) PROVE TypeOK'
      <3>1. NewCall("writing", s, k, v, Early(s, "ok")) \in Calls
        BY NewCallType DEF Early, WritePCs
      <3>2. Multicast(s, "WantToWrite", k, ops + 1) \subseteq Messages
        BY MulticastType DEF KeyTypes
      <3>3. Invalidated(db[s][k]) \in Rows
        BY RowType
      <3>4. [holder |-> {t}, received |-> 0] \in Locks
        BY DEF Locks
      <3> QED
        BY <2>5, <3>1, <3>2, <3>3, <3>4 DEF SendWantToWrite, Arrives, group
    <2> QED
      BY <2>1, <2>2, <2>3, <2>4, <2>5
  <1>2. ASSUME NEW t \in Threads, Work(t) PROVE TypeOK'
    <2>0. th[t] \in Calls /\ th[t].srv \in Servers /\ th[t].key \in Keys /\ th[t].op \in Nat
          /\ Saved(th[t].val) \in Rows /\ NoRow \in Rows /\ NoLock \in Locks
      BY DEF Calls, Saved, Row, Rows, NoRow, NoLock, Locks
    <2>1. CASE RegisterCallback(t)
      BY <2>0, <2>1 DEF RegisterCallback, group, Calls
    <2>2. CASE SaveCopy(t)
      BY <2>0, <2>2 DEF SaveCopy, group, Calls, Reply
    <2>3. CASE RequestTimeout(t)
      BY <2>0, <2>3 DEF RequestTimeout, group, Calls, Reply
    <2>4. CASE AllGranted(t)
      BY <2>0, <2>4 DEF AllGranted, server, group, Calls, WritePCs
    <2>5. ASSUME SaveDataLocally(t), SaveGranted(t) \/ WinConflict(t) PROVE TypeOK'
      <3>1. Multicast(th[t].srv, "DataWritten", th[t].key, th[t].op) \subseteq Messages
        BY <2>0, MulticastType DEF KeyTypes
      <3> QED
        BY <2>0, <2>5, <3>1 DEF SaveGranted, WinConflict, SaveDataLocally, group, Calls, WritePCs
    <2>6. CASE WriteTimeout(t)
      <3>1. Multicast(th[t].srv, "RevalidateData", th[t].key, th[t].op) \subseteq Messages
        BY <2>0, MulticastType DEF KeyTypes
      <3> QED
        BY <2>0, <2>6, <3>1 DEF WriteTimeout, server, group, Calls, WritePCs
    <2>7. CASE LoseConflict(t)
      BY <2>0, <2>7 DEF LoseConflict, group, Calls, WritePCs
    <2>8. CASE ReleaseLock(t)
      <3>1. {th[t].val} \in SUBSET (Values \cup {Empty})
        BY <2>0 DEF Calls
      <3> QED
        BY <2>0, <2>8, <3>1 DEF ReleaseLock, group, Calls, Reply
    <2> QED
      BY <1>2, <2>1, <2>2, <2>3, <2>4, <2>5, <2>6, <2>7, <2>8
      DEF Work, SaveGranted, WinConflict
  <1>3. ASSUME NEW m \in net, Deliver(m) PROVE TypeOK'
    <2>0. /\ m \in Messages /\ m.to \in Servers /\ m.from \in Servers /\ m.op \in Nat
          /\ m.type \in KeyTypes => m \in KeyMessages /\ m.key \in Keys
                                     /\ m.data \in Values \cup {Empty}
          /\ m.type \in {"StartupRequestUpdate", "StartupResponseUpdate"} =>
                m \in StartupMessages /\ m.rows \in [Keys -> Values \cup {Empty}]
      BY MessageKind DEF KeyMessages, StartupMessages
    <2>1. CASE AskData(m)
      <3>1. m.key \in Keys
        BY <2>0, <2>1 DEF AskData, Receive, KeyTypes
      <3>2. Unicast(m.to, "AskDataResponse", m.from, m.key, db[m.to][m.key].data, m.op)
              \subseteq Messages
        <4>1. db[m.to][m.key].data \in Values \cup {Empty}
          BY <2>0, <3>1 DEF Rows
        <4> QED
          BY <2>0, <3>1, <4>1, UnicastType DEF KeyTypes
      <3> QED
        BY <2>1, <3>2 DEF AskData, server, group
    <2>2. CASE AskDataResponse(m)
      <3>1. m.key \in Keys /\ m.data \in Values \cup {Empty}
        BY <2>0, <2>2 DEF AskDataResponse, Receive, KeyTypes
      <3>2. th' \in [Threads -> Calls]
        <4>1. \A t \in Threads : [th[t] EXCEPT !.got = TRUE, !.val = m.data] \in Calls
          BY <3>1, AnswerType
        <4> QED
          BY <2>2, <4>1 DEF AskDataResponse
      <3> QED
        BY <2>0, <2>2, <3>1, <3>2 DEF AskDataResponse, group
    <2>3. CASE GrantWrite(m)
      <3>1. m.key \in Keys
        BY <2>0, <2>3 DEF GrantWrite, Receive, KeyTypes
      <3>2. Unicast(m.to, "WantToWriteResponse", m.from, m.key, Empty, m.op) \subseteq Messages
        BY <2>0, <3>1, UnicastType DEF KeyTypes
      <3>3. Invalidated(db[m.to][m.key]) \in Rows
        BY <2>0, <3>1, RowType
      <3> QED
        BY <2>0, <2>3, <3>1, <3>2, <3>3 DEF GrantWrite, group
    <2>4. SetConflict(m.to, m.key, m.from) \in [Threads -> Calls]
      <3>1. \A t \in Threads : [th[t] EXCEPT !.conflict = {m.from}] \in Calls
        BY <2>0, ConflictType
      <3> QED
        BY <3>1 DEF SetConflict
    <2>5. CASE DetectConflict(m)
      <3>1. m.key \in Keys
        BY <2>0, <2>5 DEF DetectConflict, Receive, KeyTypes
      <3>2. Multicast(m.to, "WriteConflict", m.key, m.op) \subseteq Messages
        BY <2>0, <3>1, MulticastType DEF KeyTypes
      <3> QED
        BY <2>4, <2>5, <3>2 DEF DetectConflict, server, group
    <2>6. CASE WantToWriteResponse(m)
      <3>1. m.key \in Keys
        BY <2>0, <2>6 DEF WantToWriteResponse, Receive, KeyTypes
      <3>2. wantToWrite' \in [Servers -> [Keys -> Locks]]
        <4>1. [wantToWrite[m.to][m.key] EXCEPT
                 !.received = wantToWrite[m.to][m.key].received + 1] \in Locks
          BY <2>0, <3>1, CountType
        <4> QED
          BY <2>0, <2>6, <3>1, <4>1 DEF WantToWriteResponse
      <3>3. th' \in [Threads -> Calls]
        <4>1. \A t \in Threads : [th[t] EXCEPT !.got = TRUE] \in Calls
          BY GotType
        <4> QED
          BY <2>6, <4>1 DEF WantToWriteResponse
      <3> QED
        BY <2>6, <3>2, <3>3 DEF WantToWriteResponse, group
    <2>7. CASE ConflictReceived(m)
      BY <2>4, <2>7 DEF ConflictReceived, server, group
    <2>8. CASE DataWritten(m)
      <3>1. m.key \in Keys
        BY <2>0, <2>8 DEF DataWritten, Receive, KeyTypes
      <3>2. Purged(db[m.to][m.key]) \in Rows
        BY <2>0, <3>1, RowType
      <3> QED
        BY <2>0, <2>8, <3>1, <3>2 DEF DataWritten, group
    <2>9. CASE RevalidateData(m)
      <3>1. m.key \in Keys
        BY <2>0, <2>9 DEF RevalidateData, Receive, KeyTypes
      <3>2. Revalidated(db[m.to][m.key]) \in Rows
        BY <2>0, <3>1, RowType
      <3> QED
        BY <2>0, <2>9, <3>1, <3>2 DEF RevalidateData, group
    <2>10. CASE StartupData(m)
      <3> DEFINE rows == [k \in Keys |-> IF m.rows[k] # Empty /\ Present(m.to, k)
                                         THEN db[m.to][k].data ELSE Empty]
      <3>1. rows \in [Keys -> Values \cup {Empty}]
        BY <2>0 DEF Rows
      <3>2. StartupUnicast(m.to, "StartupResponseUpdate", m.from, rows, m.op) \subseteq Messages
        BY <2>0, <3>1, StartupUnicastType
      <3> QED
        BY <2>10, <3>2 DEF StartupData, server, group
    <2>11. CASE StartupDataResponse(m)
      <3>1. m.rows \in [Keys -> Values \cup {Empty}]
        BY <2>0, <2>11 DEF StartupDataResponse, Receive
      <3>2. [k \in Keys |-> IF m.rows[k] # Empty /\ Present(m.to, k)
                            THEN Saved(m.rows[k]) ELSE db[m.to][k]] \in [Keys -> Rows]
        BY <2>0, <3>1 DEF Saved, Row, Rows
      <3> QED
        BY <2>0, <2>11, <3>2 DEF StartupDataResponse, group
    <2> QED
      BY <1>3, <2>1, <2>2, <2>3, <2>5, <2>6, <2>7, <2>8, <2>9, <2>10, <2>11 DEF Deliver
  <1>4. ASSUME NEW s \in Servers, Notice(s) PROVE TypeOK'
    <2>1. NextView(s)
      BY <1>4 DEF Notice, UpdateNumberOfParticipants, CheckStartup
    <2>2. Head(views[s]) \in Views /\ Tail(views[s]) \in Seq(Views)
      BY <2>1 DEF NextView
    <2>3. Cardinality(Head(views[s]).members) \in Nat
      BY <2>2, CardinalityIsNat DEF Views
    <2>4. /\ views' \in [Servers -> Seq(Views)]
          /\ participants' \in [Servers -> Int]
      BY <2>1, <2>2, <2>3 DEF NextView
    <2>5. CASE UpdateNumberOfParticipants(s)
      BY <2>4, <2>5 DEF UpdateNumberOfParticipants
    <2>6. CASE CheckStartup(s)
      <3>1. [k \in Keys |-> db[s][k].data] \in [Keys -> Values \cup {Empty}]
        BY DEF Rows
      <3>2. \A leader : StartupUnicast(s, "StartupRequestUpdate", leader,
                            [k \in Keys |-> db[s][k].data], Head(views[s]).id) \subseteq Messages
        BY <2>2, <3>1, StartupUnicastType DEF Views
      <3>3. [k \in Keys |-> Invalidated(db[s][k])] \in [Keys -> Rows]
        BY RowType
      <3> QED
        BY <2>4, <2>6, <3>2, <3>3 DEF CheckStartup
    <2> QED
      BY <1>4, <2>5, <2>6 DEF Notice
  <1>5. ASSUME NEW x, NEW g \in SUBSET (Servers \cup {Service}), NEW cause \in {"join", "leave"},
               Regroup(x, g, cause)
        PROVE  /\ members' \in SUBSET (Servers \cup {Service})
               /\ changes' \in Nat /\ env' = env
               /\ views' \in [Servers -> Seq(Views)]
    <2>1. [members |-> g, cause |-> cause, id |-> changes + 1] \in Views
      BY DEF Views
    <2> QED
      BY <1>5, <2>1 DEF Regroup
  <1>6. ASSUME NEW s \in Servers, Join(s) PROVE TypeOK'
    <2>1. members \cup {s} \in SUBSET (Servers \cup {Service})
      OBVIOUS
    <2> QED
      BY <1>5, <1>6, <2>1 DEF Join, server
  <1>7. ASSUME NEW s \in Servers, Crash(s) PROVE TypeOK'
    <2>1. members \ {s} \in SUBSET (Servers \cup {Service})
      OBVIOUS
    <2>2. NoLock \in Locks
      BY DEF NoLock, Locks
    <2>3. th' \in [Threads -> Calls]
      <3>1. \A t \in Threads :
              [th[t] EXCEPT !.pc = "idle", !.reply = Reply(th[t].reply, "error")] \in Calls
        BY StoppedType
      <3> QED
        BY <1>7, <3>1 DEF Crash
    <2>4. current' \in [Keys -> SUBSET (Values \cup {Empty})]
      <3>1. \A t \in Threads : th[t].val \in Values \cup {Empty}
        BY DEF Calls
      <3> DEFINE cut(k) == {th[t].val : t \in {u \in Threads :
                               /\ th[u].srv = s /\ th[u].key = k
                               /\ th[u].pc \in WritePCs
                               /\ th[u].reply = "none"}}
      <3>2. \A k \in Keys : cut(k) \subseteq Values \cup {Empty}
        BY <3>1
      <3>3. current' = [k \in Keys |-> current[k] \cup cut(k)]
        BY <1>7 DEF Crash
      <3> HIDE DEF cut
      <3> QED
        BY <3>2, <3>3
    <2>5. /\ waitingData' \in [Servers -> [Keys -> SUBSET Threads]]
          /\ wantToWrite' \in [Servers -> [Keys -> Locks]]
      BY <1>7, <2>2 DEF Crash
    <2>6. /\ members' \in SUBSET (Servers \cup {Service})
          /\ changes' \in Nat /\ env' = env
          /\ views' \in [Servers -> Seq(Views)]
      BY <1>5, <1>7, <2>1 DEF Crash
    <2>7. waitStartup' \in [Servers -> BOOLEAN] /\ participants' \in [Servers -> Int]
      <3>1. waitStartup' = [waitStartup EXCEPT ![s] = TRUE]
            /\ participants' = [participants EXCEPT ![s] = -1]
        BY <1>7 DEF Crash
      <3> QED
        BY <3>1
    <2>8. net' \subseteq net
      BY <1>7 DEF Crash
    <2>9. UNCHANGED <<db, ops, submitted>>
      BY <1>7 DEF Crash
    <2> QED
      BY <2>3, <2>4, <2>5, <2>6, <2>7, <2>8, <2>9
  <1>8. CASE ServiceJoins
    <2>1. members \cup {Service} \in SUBSET (Servers \cup {Service})
      OBVIOUS
    <2> QED
      BY <1>5, <1>8, <2>1 DEF ServiceJoins, server
  <1>9. CASE ServiceLeaves
    <2>1. members \ {Service} \in SUBSET (Servers \cup {Service})
      OBVIOUS
    <2> QED
      BY <1>5, <1>9, <2>1 DEF ServiceLeaves, server
  <1>10. CASE UNCHANGED vars
    BY <1>10 DEF vars, server, group
  <1> QED
    BY <1>1, <1>2, <1>3, <1>4, <1>6, <1>7, <1>8, <1>9, <1>10 DEF Next, Listen

\* Every reachable state of the servers is well typed: whatever interleaving of
\* calls, messages, views, crashes and restarts, the tables hold callbacks of
\* handler threads, the rows are rows and the counts are numbers.
THEOREM TypeCorrect == Spec => []TypeOK
  BY TypeInit, TypeStep, PTL DEF Spec

----------------------------------------------------------------------------
(* The callback tables.                                                    *)

\* At the start no callback is registered.
LEMMA CallbacksInit == Init => CallbacksLive
  BY DEF Init, CallbacksLive, NoLock

\* The tables hold threads.
LEMMA TablesHoldThreads ==
    ASSUME TypeOK
    PROVE  \A s \in Servers, k \in Keys :
             waitingData[s][k] \subseteq Threads /\ wantToWrite[s][k].holder \subseteq Threads
  BY DEF TypeOK, Locks

\* A step that only takes entries out keeps the tables clean, if the calls of
\* the threads that remain registered stay what they are.
LEMMA TablesShrink ==
    ASSUME TypeOK, CallbacksLive,
           \A s \in Servers, k \in Keys :
             /\ waitingData'[s][k] \subseteq waitingData[s][k]
             /\ wantToWrite'[s][k].holder \subseteq wantToWrite[s][k].holder
             /\ \A u \in waitingData'[s][k] :
                   th'[u].srv = th[u].srv /\ th'[u].key = th[u].key /\ th'[u].pc = th[u].pc
             /\ \A u \in wantToWrite'[s][k].holder :
                   /\ th'[u].srv = th[u].srv /\ th'[u].key = th[u].key
                   /\ th[u].pc \in WritePCs => th'[u].pc \in WritePCs
    PROVE  CallbacksLive'
  <1>1. ASSUME NEW s \in Servers, NEW k \in Keys, NEW u \in waitingData'[s][k]
        PROVE  Serves(u, s, k)' /\ th'[u].pc = "reading"
    <2>1. u \in waitingData[s][k]
      OBVIOUS
    <2>2. th[u].srv = s /\ th[u].key = k /\ th[u].pc = "reading"
      BY <2>1 DEF CallbacksLive, Serves
    <2> QED
      BY <1>1, <2>2 DEF Serves
  <1>2. ASSUME NEW s \in Servers, NEW k \in Keys, NEW u \in wantToWrite'[s][k].holder
        PROVE  Serves(u, s, k)' /\ th'[u].pc \in WritePCs
    <2>1. u \in wantToWrite[s][k].holder
      OBVIOUS
    <2>2. th[u].srv = s /\ th[u].key = k /\ th[u].pc \in WritePCs
      BY <2>1 DEF CallbacksLive, Serves
    <2> QED
      BY <1>2, <2>2 DEF Serves
  <1> QED
    BY <1>1, <1>2 DEF CallbacksLive

\* An idle thread is in no table; a thread is in the tables of its own call only.
LEMMA WhereRegistered ==
    ASSUME CallbacksLive, NEW t \in Threads, NEW s \in Servers, NEW k \in Keys
    PROVE  /\ t \in waitingData[s][k] => th[t].srv = s /\ th[t].key = k /\ th[t].pc = "reading"
           /\ t \in wantToWrite[s][k].holder =>
                th[t].srv = s /\ th[t].key = k
                /\ th[t].pc \notin {"idle", "asked", "reading"}
  BY DEF CallbacksLive, Serves, WritePCs

\* A call that arrives keeps the tables clean.
LEMMA CallbacksCall ==
    ASSUME TypeOK, CallbacksLive, NEW t \in Threads, Call(t)
    PROVE  CallbacksLive'
  <1> PICK s \in Servers, k \in Keys :
          \/ ReadLocal(t, s, k)
          \/ ReadInvalid(t, s, k)
          \/ AskGroup(t, s, k)
          \/ \E v \in Values : WriteAlone(t, s, k, v) \/ SendWantToWrite(t, s, k, v)
    BY DEF Call
  <1>1. /\ th[t].pc = "idle"
        /\ \E c : th' = [th EXCEPT ![t] = c]
        /\ waitingData' = waitingData
    BY DEF ReadLocal, ReadInvalid, AskGroup, WriteAlone, SendWantToWrite, Arrives, server
  <1>2. \A u \in Threads : u # t => th'[u] = th[u]
    BY <1>1 DEF TypeOK
  <1>3. \A s0 \in Servers, k0 \in Keys :
          t \notin waitingData[s0][k0] /\ t \notin wantToWrite[s0][k0].holder
    BY <1>1, WhereRegistered
  <1>4. CASE wantToWrite' = wantToWrite
    <2>1. \A s0 \in Servers, k0 \in Keys :
            /\ \A u \in waitingData[s0][k0] : th'[u] = th[u]
            /\ \A u \in wantToWrite[s0][k0].holder : th'[u] = th[u]
      BY <1>2, <1>3, TablesHoldThreads
    <2> QED
      BY <1>1, <1>4, <2>1, TablesShrink
  <1>5. ASSUME NEW v \in Values, SendWantToWrite(t, s, k, v) PROVE CallbacksLive'
    <2>1. th'[t].srv = s /\ th'[t].key = k /\ th'[t].pc \in WritePCs
      BY <1>5 DEF SendWantToWrite, NewCall, WritePCs, TypeOK
    <2>2. ASSUME NEW s0 \in Servers, NEW k0 \in Keys, NEW u \in waitingData'[s0][k0]
          PROVE  Serves(u, s0, k0)' /\ th'[u].pc = "reading"
      <3>1. u \in Threads /\ u # t /\ u \in waitingData[s0][k0]
        BY <1>1, <1>3, <2>2, TablesHoldThreads
      <3> QED
        BY <1>2, <3>1 DEF CallbacksLive, Serves
    <2>3. ASSUME NEW s0 \in Servers, NEW k0 \in Keys, NEW u \in wantToWrite'[s0][k0].holder
          PROVE  Serves(u, s0, k0)' /\ th'[u].pc \in WritePCs
      <3>1. CASE s0 = s /\ k0 = k
        <4>1. wantToWrite'[s0][k0].holder = {t}
          BY <1>5, <3>1 DEF SendWantToWrite, TypeOK
        <4> QED
          BY <2>1, <2>3, <3>1, <4>1 DEF Serves
      <3>2. CASE ~(s0 = s /\ k0 = k)
        <4>1. wantToWrite'[s0][k0] = wantToWrite[s0][k0]
          BY <1>5, <3>2 DEF SendWantToWrite, TypeOK
        <4>2. u \in Threads /\ u # t
          BY <1>3, <2>3, <4>1, TablesHoldThreads
        <4> QED
          BY <1>2, <2>3, <4>1, <4>2 DEF CallbacksLive, Serves
      <3> QED
        BY <3>1, <3>2
    <2> QED
      BY <2>2, <2>3 DEF CallbacksLive
  <1> QED
    BY <1>4, <1>5 DEF ReadLocal, ReadInvalid, AskGroup, WriteAlone, server

\* A step of a running call keeps the tables clean.
LEMMA CallbacksWork ==
    ASSUME TypeOK, CallbacksLive, NEW t \in Threads, Work(t)
    PROVE  CallbacksLive'
  <1>1. th[t].srv \in Servers /\ th[t].key \in Keys
    BY DEF TypeOK, Calls
  <1>2. \A u \in Threads : u # t => th'[u] = th[u]
    BY DEF Work, RegisterCallback, SaveCopy, RequestTimeout, AllGranted, SaveGranted,
           WriteTimeout, WinConflict, LoseConflict, ReleaseLock, SaveDataLocally, TypeOK
  <1>3. th'[t].srv = th[t].srv /\ th'[t].key = th[t].key
    BY DEF Work, RegisterCallback, SaveCopy, RequestTimeout, AllGranted, SaveGranted,
           WriteTimeout, WinConflict, LoseConflict, ReleaseLock, SaveDataLocally, TypeOK, Calls
  <1>4. CASE RegisterCallback(t)
    <2>1. th[t].pc = "asked" /\ th'[t].pc = "reading" /\ wantToWrite' = wantToWrite
      BY <1>4 DEF RegisterCallback, TypeOK, Calls
    <2>2. ASSUME NEW s \in Servers, NEW k \in Keys, NEW u \in waitingData'[s][k]
          PROVE  Serves(u, s, k)' /\ th'[u].pc = "reading"
      <3>1. CASE s = th[t].srv /\ k = th[t].key
        <4>1. waitingData'[s][k] = {t}
          BY <1>4, <3>1 DEF RegisterCallback, TypeOK
        <4> QED
          BY <1>3, <2>1, <2>2, <3>1, <4>1 DEF Serves
      <3>2. CASE ~(s = th[t].srv /\ k = th[t].key)
        <4>1. waitingData'[s][k] = waitingData[s][k]
          BY <1>4, <3>2 DEF RegisterCallback, TypeOK
        <4>2. u \in Threads /\ u # t
          BY <2>1, <2>2, <4>1, TablesHoldThreads, WhereRegistered
        <4> QED
          BY <1>2, <2>2, <4>1, <4>2 DEF CallbacksLive, Serves
      <3> QED
        BY <3>1, <3>2
    <2>3. ASSUME NEW s \in Servers, NEW k \in Keys, NEW u \in wantToWrite'[s][k].holder
          PROVE  Serves(u, s, k)' /\ th'[u].pc \in WritePCs
      <3>1. u \in Threads /\ u # t
        BY <2>1, <2>3, TablesHoldThreads, WhereRegistered
      <3> QED
        BY <1>2, <2>1, <2>3, <3>1 DEF CallbacksLive, Serves
    <2> QED
      BY <2>2, <2>3 DEF CallbacksLive
  <1>5. CASE SaveCopy(t) \/ RequestTimeout(t)
    <2>1. th[t].pc = "reading" /\ wantToWrite' = wantToWrite
          /\ waitingData' = [waitingData EXCEPT ![th[t].srv][th[t].key] = {}]
      BY <1>5 DEF SaveCopy, RequestTimeout
    <2>2. ASSUME NEW s \in Servers, NEW k \in Keys
          PROVE  /\ waitingData'[s][k] \subseteq waitingData[s][k]
                 /\ t \notin waitingData'[s][k]
                 /\ t \notin wantToWrite[s][k].holder
      BY <1>1, <2>1, WhereRegistered DEF TypeOK
    <2>3. \A s \in Servers, k \in Keys :
            /\ \A u \in waitingData'[s][k] : th'[u] = th[u]
            /\ \A u \in wantToWrite[s][k].holder : th'[u] = th[u]
      BY <1>2, <2>2, TablesHoldThreads
    <2> QED
      BY <2>1, <2>2, <2>3, TablesShrink
  <1>6. CASE AllGranted(t) \/ SaveGranted(t) \/ WriteTimeout(t) \/ WinConflict(t)
             \/ LoseConflict(t)
    <2>1. th[t].pc # "reading" /\ th'[t].pc \in WritePCs
          /\ waitingData' = waitingData /\ wantToWrite' = wantToWrite
      BY <1>6 DEF AllGranted, SaveGranted, WriteTimeout, WinConflict, LoseConflict,
                  SaveDataLocally, WritePCs, Calls, TypeOK, server
    <2>2. \A s \in Servers, k \in Keys :
            /\ \A u \in waitingData[s][k] : th'[u] = th[u]
            /\ \A u \in wantToWrite[s][k].holder :
                  th'[u] = th[u] \/ u = t
      BY <1>2, <2>1, TablesHoldThreads, WhereRegistered
    <2> QED
      BY <1>3, <2>1, <2>2, TablesShrink
  <1>7. CASE ReleaseLock(t)
    <2>1. th[t].pc \in WritePCs /\ waitingData' = waitingData
          /\ wantToWrite' = [wantToWrite EXCEPT ![th[t].srv][th[t].key] = NoLock]
      BY <1>7 DEF ReleaseLock, WritePCs
    <2>2. ASSUME NEW s \in Servers, NEW k \in Keys
          PROVE  /\ wantToWrite'[s][k].holder \subseteq wantToWrite[s][k].holder
                 /\ t \notin wantToWrite'[s][k].holder
                 /\ t \notin waitingData[s][k]
      BY <1>1, <2>1, WhereRegistered DEF TypeOK, NoLock, WritePCs
    <2>3. \A s \in Servers, k \in Keys :
            /\ \A u \in waitingData[s][k] : th'[u] = th[u]
            /\ \A u \in wantToWrite'[s][k].holder : th'[u] = th[u]
      BY <1>2, <2>2, TablesHoldThreads
    <2> QED
      BY <2>1, <2>2, <2>3, TablesShrink
  <1> QED
    BY <1>4, <1>5, <1>6, <1>7 DEF Work

\* A message handled by the listener keeps the tables clean.
LEMMA CallbacksDeliver ==
    ASSUME TypeOK, CallbacksLive, NEW m \in net, Deliver(m)
    PROVE  CallbacksLive'
  <1>1. \A u \in Threads :
          th'[u].srv = th[u].srv /\ th'[u].key = th[u].key /\ th'[u].pc = th[u].pc
    <2>1. CASE AskDataResponse(m)
      BY <2>1 DEF AskDataResponse, TypeOK, Calls
    <2>2. CASE DetectConflict(m) \/ ConflictReceived(m)
      BY <2>2 DEF DetectConflict, ConflictReceived, SetConflict, TypeOK, Calls
    <2>3. CASE WantToWriteResponse(m)
      BY <2>3 DEF WantToWriteResponse, TypeOK, Calls
    <2> QED
      BY <2>1, <2>2, <2>3 DEF Deliver, AskData, GrantWrite, DataWritten, RevalidateData,
                              StartupData, StartupDataResponse
  <1>2. ASSUME NEW s \in Servers, NEW k \in Keys
        PROVE  waitingData'[s][k] \subseteq waitingData[s][k]
    <2>1. CASE AskDataResponse(m)
      <3>1. waitingData' = [waitingData EXCEPT ![m.to][m.key] = {}]
        BY <2>1 DEF AskDataResponse
      <3> QED
        BY <3>1 DEF TypeOK
    <2> QED
      BY <2>1 DEF Deliver, AskData, GrantWrite, DetectConflict, WantToWriteResponse,
                  ConflictReceived, DataWritten, RevalidateData, StartupData,
                  StartupDataResponse, server
  <1>3. ASSUME NEW s \in Servers, NEW k \in Keys
        PROVE  wantToWrite'[s][k].holder \subseteq wantToWrite[s][k].holder
    <2>1. CASE WantToWriteResponse(m)
      <3>1. \/ wantToWrite' = wantToWrite
            \/ wantToWrite' = [wantToWrite EXCEPT ![m.to][m.key].received = @ + 1]
        BY <2>1 DEF WantToWriteResponse
      <3>2. wantToWrite[s][k] \in Locks
        BY DEF TypeOK
      <3>3. \/ wantToWrite'[s][k] = wantToWrite[s][k]
            \/ wantToWrite'[s][k] =
                 [wantToWrite[s][k] EXCEPT !.received = wantToWrite[s][k].received + 1]
        <4>1. CASE s = m.to /\ k = m.key
          <5>1. wantToWrite[s] \in [Keys -> Locks] /\ s \in DOMAIN wantToWrite
            BY DEF TypeOK
          <5>2. CASE wantToWrite' = [wantToWrite EXCEPT ![m.to][m.key].received = @ + 1]
            <6>1. wantToWrite'[s] = [wantToWrite[s] EXCEPT ![k].received = @ + 1]
              BY <4>1, <5>1, <5>2
            <6> QED
              BY <5>1, <6>1
          <5> QED
            BY <3>1, <5>2
        <4>2. CASE s = m.to /\ k # m.key
          BY <3>1, <4>2 DEF TypeOK
        <4>3. CASE s # m.to
          BY <3>1, <4>3 DEF TypeOK
        <4> QED
          BY <4>1, <4>2, <4>3
      <3> QED
        BY <3>2, <3>3 DEF Locks
    <2> QED
      BY <2>1 DEF Deliver, AskData, AskDataResponse, GrantWrite, DetectConflict,
                  ConflictReceived, DataWritten, RevalidateData, StartupData,
                  StartupDataResponse, server
  <1> QED
    BY <1>1, <1>2, <1>3, TablesHoldThreads, TablesShrink

\* A crash takes the callbacks of the server away with the calls they belong to.
LEMMA CallbacksCrash ==
    ASSUME TypeOK, CallbacksLive, NEW s \in Servers, Crash(s)
    PROVE  CallbacksLive'
  <1>1. ASSUME NEW r \in Servers, NEW k \in Keys
        PROVE  /\ waitingData'[r][k] = IF r = s THEN {} ELSE waitingData[r][k]
               /\ wantToWrite'[r][k].holder = IF r = s THEN {} ELSE wantToWrite[r][k].holder
    BY DEF Crash, TypeOK, NoLock
  <1>2. \A u \in Threads : th[u].srv # s => th'[u] = th[u]
    BY DEF Crash
  <1>3. ASSUME NEW r \in Servers, NEW k \in Keys
        PROVE  /\ \A u \in waitingData'[r][k] : th'[u] = th[u]
               /\ \A u \in wantToWrite'[r][k].holder : th'[u] = th[u]
    BY <1>1, <1>2, TablesHoldThreads, WhereRegistered
  <1> QED
    BY <1>1, <1>3, TablesShrink

\* No step leaves the callback of a finished call in a table.
LEMMA CallbacksStep ==
    ASSUME TypeOK, CallbacksLive, [Next]_vars
    PROVE  CallbacksLive'
  <1>1. ASSUME UNCHANGED <<waitingData, wantToWrite, th>> PROVE CallbacksLive'
    BY <1>1 DEF CallbacksLive, Serves
  <1>2. CASE \E s \in Servers : Notice(s) \/ Join(s)
    BY <1>1, <1>2 DEF Notice, UpdateNumberOfParticipants, CheckStartup, Join, server
  <1>3. CASE ServiceJoins \/ ServiceLeaves
    BY <1>1, <1>3 DEF ServiceJoins, ServiceLeaves, server
  <1>4. CASE UNCHANGED vars
    BY <1>1, <1>4 DEF vars, server
  <1> QED
    BY <1>2, <1>3, <1>4, CallbacksCall, CallbacksWork, CallbacksDeliver, CallbacksCrash
       DEF Next, Listen

\* No server ever keeps the callback of a call that is over, or of another key's
\* call: the tables waitingData and wantToWriteData, written by handler threads,
\* by the listener and by the finally blocks in any order, stay clean.
THEOREM CallbacksCorrect == Spec => []CallbacksLive
  <1>1. Init => TypeOK /\ CallbacksLive
    BY TypeInit, CallbacksInit
  <1>2. TypeOK /\ CallbacksLive /\ [Next]_vars => (TypeOK /\ CallbacksLive)'
    BY TypeStep, CallbacksStep
  <1> QED
    BY <1>1, <1>2, PTL DEF Spec

----------------------------------------------------------------------------
(* Where values come from.                                                 *)

\* Only a call that is over has been answered with a value: the early answer of
\* a server that is starting up is empty, and the second one is swallowed.
ValueEndsCall == \A t \in Threads : th[t].reply = "value" => th[t].pc = "idle"

\* The history of submitted values only grows.
LEMMA SubmittedGrows ==
    ASSUME TypeOK, [Next]_vars, NEW k \in Keys
    PROVE  submitted[k] \subseteq submitted'[k]
  <1>1. ASSUME NEW t \in Threads, Call(t) PROVE submitted[k] \subseteq submitted'[k]
    <2>1. \/ submitted' = submitted
          \/ \E j \in Keys, v \in Values : submitted' = [submitted EXCEPT ![j] = @ \cup {v}]
      BY <1>1 DEF Call, ReadLocal, ReadInvalid, AskGroup, WriteAlone, SendWantToWrite
    <2> QED
      BY <2>1 DEF TypeOK
  <1>2. ASSUME NEW t \in Threads, Work(t) PROVE submitted' = submitted
    BY <1>2 DEF Work, RegisterCallback, SaveCopy, RequestTimeout, AllGranted, SaveGranted,
                WriteTimeout, WinConflict, LoseConflict, ReleaseLock
  <1>3. ASSUME NEW m \in net, Deliver(m) PROVE submitted' = submitted
    BY <1>3 DEF Deliver, AskData, AskDataResponse, GrantWrite, DetectConflict,
                WantToWriteResponse, ConflictReceived, DataWritten, RevalidateData,
                StartupData, StartupDataResponse
  <1>4. CASE (\E s \in Servers : Notice(s) \/ Join(s) \/ Crash(s))
             \/ ServiceJoins \/ ServiceLeaves \/ UNCHANGED vars
    BY <1>4 DEF Notice, UpdateNumberOfParticipants, CheckStartup, Join, Crash,
                ServiceJoins, ServiceLeaves, vars
  <1> QED
    BY <1>1, <1>2, <1>3, <1>4 DEF Next, Listen

\* A row stays where it is, takes a submitted value, or goes: then every row
\* holds a submitted value.
LEMMA RowsKept ==
    ASSUME RowsSubmitted,
           \A k \in Keys : submitted[k] \subseteq submitted'[k],
           \A s \in Servers, k \in Keys :
              \/ db'[s][k].status = "absent"
              \/ db[s][k].status # "absent" /\ db'[s][k].data = db[s][k].data
              \/ db'[s][k].data \in submitted'[k]
    PROVE  RowsSubmitted'
  BY DEF RowsSubmitted, Present

\* Invalidation, purge and revalidation keep the data of a row or drop the row.
LEMMA RowData ==
    ASSUME NEW row, NEW new \in {row, Invalidated(row), Purged(row), Revalidated(row)}
    PROVE  \/ new.status = "absent"
           \/ row.status # "absent" /\ new.data = row.data
  BY DEF Invalidated, Purged, Revalidated, Row, NoRow

\* The only messages a step may add are those it sends.
LEMMA MessagesKept ==
    ASSUME MessagesSubmitted, net \subseteq Messages,
           \A k \in Keys : submitted[k] \subseteq submitted'[k],
           NEW sent, net' \subseteq net \cup sent,
           \A m \in sent : m.type \notin {"AskDataResponse", "StartupResponseUpdate"}
    PROVE  MessagesSubmitted'
  <1> SUFFICES ASSUME NEW m \in net'
               PROVE  /\ m.type = "AskDataResponse" => m.data \in submitted'[m.key]
                      /\ m.type = "StartupResponseUpdate" =>
                            \A k \in Keys : m.rows[k] \in submitted'[k] \cup {Empty}
    BY DEF MessagesSubmitted
  <1>1. m \in net \/ m.type \notin {"AskDataResponse", "StartupResponseUpdate"}
    OBVIOUS
  <1>2. CASE m \in net /\ m.type = "AskDataResponse"
    <2>1. m.key \in Keys
      BY <1>2, MessageKind DEF KeyMessages, KeyTypes
    <2> QED
      BY <1>2, <2>1 DEF MessagesSubmitted
  <1>3. CASE m \in net /\ m.type = "StartupResponseUpdate"
    BY <1>3 DEF MessagesSubmitted
  <1> QED
    BY <1>1, <1>2, <1>3

\* A step that sends nothing adds no message.
LEMMA MessagesTaken ==
    ASSUME MessagesSubmitted, net \subseteq Messages,
           \A k \in Keys : submitted[k] \subseteq submitted'[k],
           net' \subseteq net
    PROVE  MessagesSubmitted'
  <1>1. PICK none : none = {}
    OBVIOUS
  <1>2. net' \subseteq net \cup none
    BY <1>1
  <1>3. \A m \in none : m.type \notin {"AskDataResponse", "StartupResponseUpdate"}
    BY <1>1
  <1> QED
    BY <1>2, <1>3, MessagesKept

\* A group message carries no value.
LEMMA MulticastIsBlank ==
    ASSUME NEW s, NEW k, NEW op,
           NEW type \in KeyTypes \ {"AskDataResponse"}
    PROVE  \A m \in Multicast(s, type, k, op) :
              m.type \notin {"AskDataResponse", "StartupResponseUpdate"}
  BY DEF Multicast, KeyTypes

\* What a call holds stays, or what the thread takes over is submitted.
LEMMA CallsKept ==
    ASSUME TypeOK, CallsSubmitted,
           \A k \in Keys : submitted[k] \subseteq submitted'[k],
           \A u \in Threads :
              \/ /\ th'[u].val = th[u].val /\ th'[u].key = th[u].key
                 /\ th'[u].pc \in WritePCs => th[u].pc \in WritePCs
                 /\ th'[u].pc \in {"asked", "reading"} /\ th'[u].got =>
                       th[u].pc \in {"asked", "reading"} /\ th[u].got
                 /\ th'[u].reply = "value" =>
                       th[u].reply = "value" \/ (th[u].pc = "reading" /\ th[u].got)
              \/ th'[u].val \in submitted'[th'[u].key]
              \/ /\ th'[u].pc \notin WritePCs
                 /\ ~(th'[u].pc \in {"asked", "reading"} /\ th'[u].got)
                 /\ th'[u].reply # "value"
    PROVE  CallsSubmitted'
  <1>1. \A u \in Threads : th[u].key \in Keys
    BY DEF TypeOK, Calls
  <1> QED
    BY <1>1 DEF CallsSubmitted

\* A call that arrives: only the write brings a value, which is submitted then.
LEMMA ProvenanceCall ==
    ASSUME TypeOK, Provenance, NEW t \in Threads, Call(t)
    PROVE  Provenance'
  <1>1. \A k \in Keys : submitted[k] \subseteq submitted'[k]
    BY SubmittedGrows DEF Next
  <1>2. PICK s \in Servers, k \in Keys :
          \/ ReadLocal(t, s, k)
          \/ ReadInvalid(t, s, k)
          \/ AskGroup(t, s, k)
          \/ \E v \in Values : WriteAlone(t, s, k, v) \/ SendWantToWrite(t, s, k, v)
    BY DEF Call
  <1>3. RowsSubmitted'
    <2>1. CASE db' = db
      BY <1>1, <2>1, RowsKept DEF Provenance
    <2>2. ASSUME NEW v \in Values, WriteAlone(t, s, k, v) PROVE RowsSubmitted'
      <3>1. v \in submitted'[k]
        BY <2>2 DEF WriteAlone, TypeOK
      <3>2. \A s0 \in Servers, k0 \in Keys :
              db'[s0][k0] = db[s0][k0] \/ (k0 = k /\ db'[s0][k0].data = v)
        BY <2>2 DEF WriteAlone, Saved, Row, TypeOK
      <3> QED
        BY <1>1, <3>1, <3>2, RowsKept DEF Provenance
    <2>3. ASSUME NEW v \in Values, SendWantToWrite(t, s, k, v) PROVE RowsSubmitted'
      <3>1. \A s0 \in Servers, k0 \in Keys :
              db'[s0][k0] = db[s0][k0] \/ db'[s0][k0] = Invalidated(db[s0][k0])
        BY <2>3 DEF SendWantToWrite, TypeOK
      <3> QED
        BY <1>1, <3>1, RowData, RowsKept DEF Provenance
    <2> QED
      BY <1>2, <2>1, <2>2, <2>3 DEF ReadLocal, ReadInvalid, AskGroup, server
  <1>4. MessagesSubmitted'
    <2>1. CASE net' = net
      BY <1>1, <2>1, MessagesTaken DEF Provenance, TypeOK
    <2>2. CASE AskGroup(t, s, k)
      <3>1. net' = net \cup Multicast(s, "AskData", k, ops + 1)
        BY <2>2 DEF AskGroup
      <3> QED
        BY <1>1, <3>1, MulticastIsBlank, MessagesKept DEF Provenance, TypeOK, KeyTypes
    <2>3. ASSUME NEW v \in Values, SendWantToWrite(t, s, k, v) PROVE MessagesSubmitted'
      <3>1. net' = net \cup Multicast(s, "WantToWrite", k, ops + 1)
        BY <2>3 DEF SendWantToWrite
      <3> QED
        BY <1>1, <3>1, MulticastIsBlank, MessagesKept DEF Provenance, TypeOK, KeyTypes
    <2> QED
      BY <1>2, <2>1, <2>2, <2>3 DEF ReadLocal, ReadInvalid, WriteAlone
  <1>5. CallsSubmitted'
    <2>1. \A u \in Threads : u # t => th'[u] = th[u]
      BY <1>2 DEF ReadLocal, ReadInvalid, AskGroup, WriteAlone, SendWantToWrite, TypeOK
    <2>2. CASE ReadLocal(t, s, k)
      <3>1. th'[t].key = k /\ th'[t].val = db[s][k].data
        BY <2>2 DEF ReadLocal, NewCall, TypeOK
      <3>2. db[s][k].data \in submitted[k]
        BY <2>2 DEF ReadLocal, Provenance, RowsSubmitted, Valid, Present
      <3> QED
        BY <1>1, <2>1, <3>1, <3>2, CallsKept DEF Provenance
    <2>3. CASE ReadInvalid(t, s, k) \/ AskGroup(t, s, k)
      <3>1. th'[t].pc \in {"idle", "asked"} /\ th'[t].reply # "value" /\ ~th'[t].got
        BY <2>3 DEF ReadInvalid, AskGroup, NewCall, Early, TypeOK
      <3> QED
        BY <1>1, <2>1, <3>1, CallsKept DEF Provenance, WritePCs
    <2>4. ASSUME NEW v \in Values, WriteAlone(t, s, k, v) \/ SendWantToWrite(t, s, k, v)
          PROVE  CallsSubmitted'
      <3>1. th'[t].key = k /\ th'[t].val = v /\ v \in submitted'[k]
        BY <2>4 DEF WriteAlone, SendWantToWrite, NewCall, TypeOK
      <3> QED
        BY <1>1, <2>1, <3>1, CallsKept DEF Provenance
    <2> QED
      BY <1>2, <2>2, <2>3, <2>4
  <1> QED
    BY <1>3, <1>4, <1>5 DEF Provenance

\* A step of a running call: saving takes the value of the call itself.
LEMMA ProvenanceWork ==
    ASSUME TypeOK, ValueEndsCall, Provenance, NEW t \in Threads, Work(t)
    PROVE  Provenance'
  <1>1. submitted' = submitted
    BY DEF Work, RegisterCallback, SaveCopy, RequestTimeout, AllGranted, SaveGranted,
           WriteTimeout, WinConflict, LoseConflict, ReleaseLock
  <1>2. th[t].srv \in Servers /\ th[t].key \in Keys
    BY DEF TypeOK, Calls
  <1>3. \A u \in Threads : u # t => th'[u] = th[u]
    BY DEF Work, RegisterCallback, SaveCopy, RequestTimeout, AllGranted, SaveGranted,
           WriteTimeout, WinConflict, LoseConflict, ReleaseLock, SaveDataLocally, TypeOK
  <1>4. RowsSubmitted'
    <2>1. CASE db' = db
      BY <1>1, <2>1, RowsKept DEF Provenance
    <2>2. CASE SaveCopy(t) \/ SaveGranted(t) \/ WinConflict(t)
      <3>1. th[t].val \in submitted'[th[t].key]
        BY <1>1, <2>2 DEF SaveCopy, SaveGranted, WinConflict, Provenance, CallsSubmitted,
                          WritePCs
      <3>2. db' = [db EXCEPT ![th[t].srv][th[t].key] = Saved(th[t].val)]
        BY <2>2 DEF SaveCopy, SaveGranted, WinConflict, SaveDataLocally
      <3>3. \A s \in Servers, k \in Keys :
              db'[s][k] = db[s][k] \/ (k = th[t].key /\ db'[s][k].data = th[t].val)
        BY <3>2 DEF Saved, Row, TypeOK
      <3> QED
        BY <1>1, <3>1, <3>3, RowsKept DEF Provenance
    <2>3. CASE LoseConflict(t)
      <3>1. \A s \in Servers, k \in Keys : db'[s][k] = db[s][k] \/ db'[s][k] = NoRow
        BY <2>3 DEF LoseConflict, TypeOK
      <3> QED
        BY <1>1, <3>1, RowsKept DEF Provenance, NoRow, Row
    <2> QED
      BY <2>1, <2>2, <2>3 DEF Work, RegisterCallback, RequestTimeout, AllGranted,
                              WriteTimeout, ReleaseLock, server
  <1>5. MessagesSubmitted'
    <2>1. CASE net' = net
      BY <1>1, <2>1, MessagesTaken DEF Provenance, TypeOK
    <2>2. CASE \E type \in KeyTypes \ {"AskDataResponse"} :
                 net' = net \cup Multicast(th[t].srv, type, th[t].key, th[t].op)
      BY <1>1, <2>2, MulticastIsBlank, MessagesKept DEF Provenance, TypeOK
    <2> QED
      BY <2>1, <2>2 DEF Work, RegisterCallback, SaveCopy, RequestTimeout, AllGranted,
                        SaveGranted, WriteTimeout, WinConflict, LoseConflict, ReleaseLock,
                        SaveDataLocally, KeyTypes
  <1>6. CallsSubmitted'
    <2>1. th[t] \in Calls
      BY DEF TypeOK
    <2>2. CASE RegisterCallback(t)
      <3>1. th'[t] = [th[t] EXCEPT !.pc = "reading"] /\ th[t].pc = "asked"
        BY <2>2 DEF RegisterCallback, TypeOK
      <3> QED
        BY <1>1, <1>3, <2>1, <3>1, CallsKept DEF Provenance, Calls, WritePCs
    <2>3. CASE SaveCopy(t)
      <3>1. th'[t].val = th[t].val /\ th'[t].key = th[t].key /\ th'[t].pc = "idle"
            /\ th[t].pc = "reading" /\ th[t].got
        BY <2>3 DEF SaveCopy, TypeOK, Calls
      <3> QED
        BY <1>1, <1>3, <3>1, CallsKept DEF Provenance, WritePCs
    <2>4. CASE RequestTimeout(t)
      <3>1. th'[t].pc = "idle" /\ th'[t].reply = Reply(th[t].reply, "empty")
            /\ th[t].pc = "reading"
        BY <2>4 DEF RequestTimeout, TypeOK, Calls
      <3>2. th'[t].reply # "value"
        BY <3>1 DEF ValueEndsCall, Reply
      <3> QED
        BY <1>1, <1>3, <3>1, <3>2, CallsKept DEF Provenance, WritePCs
    <2>5. CASE AllGranted(t) \/ SaveGranted(t) \/ WriteTimeout(t) \/ WinConflict(t)
               \/ LoseConflict(t) \/ ReleaseLock(t)
      <3>1. th[t].pc \in WritePCs
        BY <2>5 DEF AllGranted, SaveGranted, WriteTimeout, WinConflict, LoseConflict,
                    ReleaseLock, WritePCs
      <3>2. th[t].val \in submitted[th[t].key]
        BY <3>1 DEF Provenance, CallsSubmitted
      <3>3. th'[t].val = th[t].val /\ th'[t].key = th[t].key
        BY <2>5 DEF AllGranted, SaveGranted, WriteTimeout, WinConflict, LoseConflict,
                    ReleaseLock, SaveDataLocally, TypeOK, Calls
      <3> QED
        BY <1>1, <1>3, <3>2, <3>3, CallsKept DEF Provenance
    <2> QED
      BY <2>2, <2>3, <2>4, <2>5 DEF Work
  <1> QED
    BY <1>4, <1>5, <1>6 DEF Provenance

\* A message handled by the listener moves values only along their key.
LEMMA ProvenanceDeliver ==
    ASSUME TypeOK, CallbacksLive, Provenance, NEW m \in net, Deliver(m)
    PROVE  Provenance'
  <1>1. submitted' = submitted
    BY DEF Deliver, AskData, AskDataResponse, GrantWrite, DetectConflict,
           WantToWriteResponse, ConflictReceived, DataWritten, RevalidateData,
           StartupData, StartupDataResponse
  <1>2. m \in Messages /\ m.to \in Servers
    BY MessageKind DEF TypeOK
  <1>3. m.type \in KeyTypes => m.key \in Keys
    BY <1>2, MessageKind DEF KeyMessages
  <1>4. RowsSubmitted'
    <2>1. CASE db' = db
      BY <1>1, <2>1, RowsKept DEF Provenance
    <2>2. CASE GrantWrite(m) \/ DataWritten(m) \/ RevalidateData(m)
      <3>1. \A s \in Servers, k \in Keys :
              db'[s][k] \in {db[s][k], Invalidated(db[s][k]), Purged(db[s][k]),
                             Revalidated(db[s][k])}
        <4>1. m.key \in Keys
          BY <1>3, <2>2 DEF GrantWrite, DataWritten, RevalidateData, Receive, KeyTypes
        <4>2. PICK row \in {Invalidated(db[m.to][m.key]), Purged(db[m.to][m.key]),
                            Revalidated(db[m.to][m.key])} :
                db' = [db EXCEPT ![m.to][m.key] = row]
          BY <2>2 DEF GrantWrite, DataWritten, RevalidateData
        <4>3. \A s \in Servers, k \in Keys :
                db'[s][k] = IF s = m.to /\ k = m.key THEN row ELSE db[s][k]
          BY <1>2, <4>1, <4>2 DEF TypeOK
        <4> QED
          BY <4>2, <4>3
      <3> QED
        BY <1>1, <3>1, RowData, RowsKept DEF Provenance
    <2>3. CASE StartupDataResponse(m)
      <3>1. m.type = "StartupResponseUpdate"
        BY <2>3 DEF StartupDataResponse, Receive
      <3>2. \A k \in Keys : m.rows[k] \in submitted[k] \cup {Empty}
        BY <3>1 DEF Provenance, MessagesSubmitted
      <3>3. \A s \in Servers, k \in Keys :
              db'[s][k] = db[s][k] \/ (m.rows[k] # Empty /\ db'[s][k].data = m.rows[k])
        BY <2>3 DEF StartupDataResponse, Saved, Row, TypeOK
      <3> QED
        BY <1>1, <3>2, <3>3, RowsKept DEF Provenance
    <2> QED
      BY <2>1, <2>2, <2>3 DEF Deliver, AskData, AskDataResponse, DetectConflict,
                              WantToWriteResponse, ConflictReceived, StartupData, server
  <1>5. MessagesSubmitted'
    <2>1. CASE AskData(m)
      <3>1. m.key \in Keys
        BY <1>3, <2>1 DEF AskData, Receive, KeyTypes
      <3>2. ASSUME NEW n \in net', n \notin net
            PROVE  n.type = "AskDataResponse" /\ n.key = m.key
                   /\ n.data \in submitted[m.key]
        <4>1. Valid(m.to, m.key) /\ n \in Unicast(m.to, "AskDataResponse", m.from, m.key,
                                                  db[m.to][m.key].data, m.op)
          BY <2>1, <3>2 DEF AskData
        <4>2. db[m.to][m.key].data \in submitted[m.key]
          BY <1>2, <3>1, <4>1 DEF Provenance, RowsSubmitted, Valid, Present
        <4> QED
          BY <4>1, <4>2 DEF Unicast
      <3> QED
        BY <1>1, <3>2 DEF Provenance, MessagesSubmitted
    <2>2. CASE StartupData(m)
      <3>1. ASSUME NEW n \in net', n \notin net
            PROVE  n.type = "StartupResponseUpdate"
                   /\ \A k \in Keys : n.rows[k] \in submitted[k] \cup {Empty}
        <4> DEFINE rows == [k \in Keys |-> IF m.rows[k] # Empty /\ Present(m.to, k)
                                           THEN db[m.to][k].data ELSE Empty]
        <4>1. n \in StartupUnicast(m.to, "StartupResponseUpdate", m.from, rows, m.op)
          BY <2>2, <3>1 DEF StartupData
        <4>2. \A k \in Keys : rows[k] \in submitted[k] \cup {Empty}
          BY <1>2 DEF Provenance, RowsSubmitted
        <4> HIDE DEF rows
        <4> QED
          BY <4>1, <4>2 DEF StartupUnicast
      <3> QED
        BY <1>1, <3>1 DEF Provenance, MessagesSubmitted
    <2>3. CASE GrantWrite(m)
      <3> DEFINE sent == Unicast(m.to, "WantToWriteResponse", m.from, m.key, Empty, m.op)
      <3>1. net' \subseteq net \cup sent
        BY <2>3 DEF GrantWrite
      <3>2. \A n \in sent : n.type \notin {"AskDataResponse", "StartupResponseUpdate"}
        BY DEF Unicast
      <3> HIDE DEF sent
      <3> QED
        BY <1>1, <3>1, <3>2, MessagesKept DEF Provenance, TypeOK
    <2>4. CASE DetectConflict(m)
      <3>1. net' \subseteq net \cup Multicast(m.to, "WriteConflict", m.key, m.op)
        BY <2>4 DEF DetectConflict
      <3> QED
        BY <1>1, <3>1, MulticastIsBlank, MessagesKept DEF Provenance, TypeOK, KeyTypes
    <2>5. CASE net' \subseteq net
      BY <1>1, <2>5, MessagesTaken DEF Provenance, TypeOK
    <2> QED
      BY <2>1, <2>2, <2>3, <2>4, <2>5 DEF Deliver, AskDataResponse, WantToWriteResponse,
           ConflictReceived, DataWritten, RevalidateData, StartupDataResponse
  <1>6. CallsSubmitted'
    <2>1. CASE th' = th
      BY <1>1, <2>1, CallsKept DEF Provenance
    <2>2. CASE AskDataResponse(m)
      <3>1. m.type = "AskDataResponse" /\ m.key \in Keys
        BY <1>3, <2>2 DEF AskDataResponse, Receive, KeyTypes
      <3>2. m.data \in submitted[m.key]
        BY <3>1 DEF Provenance, MessagesSubmitted
      <3>3. ASSUME NEW u \in Threads
            PROVE  th'[u] = th[u] \/ (th'[u].val = m.data /\ th'[u].key = m.key)
        <4>1. CASE u \in waitingData[m.to][m.key]
          <5>1. th[u].key = m.key
            BY <1>2, <3>1, <4>1, WhereRegistered
          <5>2. th[u] \in Calls
            BY DEF TypeOK
          <5>3. th'[u] = [th[u] EXCEPT !.got = TRUE, !.val = m.data]
            BY <2>2, <4>1 DEF AskDataResponse
          <5> QED
            BY <5>1, <5>2, <5>3 DEF Calls
        <4>2. CASE u \notin waitingData[m.to][m.key]
          BY <2>2, <4>2 DEF AskDataResponse
        <4> QED
          BY <4>1, <4>2
      <3> QED
        BY <1>1, <3>2, <3>3, CallsKept DEF Provenance
    <2>3. CASE DetectConflict(m) \/ ConflictReceived(m)
      <3>1. ASSUME NEW u \in Threads
            PROVE  /\ th'[u].val = th[u].val /\ th'[u].key = th[u].key
                   /\ th'[u].pc = th[u].pc /\ th'[u].got = th[u].got
                   /\ th'[u].reply = th[u].reply
        <4>1. th[u] \in Calls
          BY DEF TypeOK
        <4>2. th'[u] \in {th[u], [th[u] EXCEPT !.conflict = {m.from}]}
          BY <2>3 DEF DetectConflict, ConflictReceived, SetConflict
        <4> QED
          BY <4>1, <4>2 DEF Calls
      <3> QED
        BY <1>1, <3>1, CallsKept DEF Provenance
    <2>4. CASE WantToWriteResponse(m)
      <3>1. m.key \in Keys
        BY <1>3, <2>4 DEF WantToWriteResponse, Receive, KeyTypes
      <3>2. ASSUME NEW u \in Threads
            PROVE  th'[u] = th[u]
                   \/ (th[u].val = th'[u].val /\ th'[u].key = th[u].key
                       /\ th[u].pc \in WritePCs /\ th'[u].pc = th[u].pc
                       /\ th'[u].reply = th[u].reply)
        <4>1. CASE u \in wantToWrite[m.to][m.key].holder
          <5>1. th[u].pc \in WritePCs
            BY <1>2, <3>1, <4>1 DEF CallbacksLive
          <5>2. th[u] \in Calls
            BY DEF TypeOK
          <5>3. th'[u] \in {th[u], [th[u] EXCEPT !.got = TRUE]}
            BY <2>4 DEF WantToWriteResponse
          <5> QED
            BY <5>1, <5>2, <5>3 DEF Calls
        <4>2. CASE u \notin wantToWrite[m.to][m.key].holder
          BY <2>4, <4>2 DEF WantToWriteResponse
        <4> QED
          BY <4>1, <4>2
      <3> QED
        BY <1>1, <3>2, CallsKept DEF Provenance, WritePCs
    <2> QED
      BY <2>1, <2>2, <2>3, <2>4 DEF Deliver, AskData, GrantWrite, DataWritten,
           RevalidateData, StartupData, StartupDataResponse
  <1> QED
    BY <1>4, <1>5, <1>6 DEF Provenance

\* A crash ends calls without inventing values.
LEMMA ProvenanceCrash ==
    ASSUME TypeOK, Provenance, NEW s \in Servers, Crash(s)
    PROVE  Provenance'
  <1>1. submitted' = submitted /\ db' = db /\ net' \subseteq net
    BY DEF Crash
  <1>2. RowsSubmitted'
    BY <1>1, RowsKept DEF Provenance
  <1>3. MessagesSubmitted'
    BY <1>1, MessagesTaken DEF Provenance, TypeOK
  <1>4. CallsSubmitted'
    <2>1. ASSUME NEW u \in Threads
          PROVE  \/ th'[u] = th[u]
                 \/ /\ th'[u].val = th[u].val /\ th'[u].key = th[u].key
                    /\ th'[u].pc = "idle"
                    /\ th'[u].reply = "value" => th[u].reply = "value"
      <3>1. th[u] \in Calls
        BY DEF TypeOK
      <3>2. th'[u] \in {th[u], [th[u] EXCEPT !.pc = "idle",
                                             !.reply = Reply(th[u].reply, "error")]}
        BY DEF Crash
      <3> QED
        BY <3>1, <3>2 DEF Calls, Reply
    <2> QED
      BY <1>1, <2>1, CallsKept DEF Provenance, WritePCs
  <1> QED
    BY <1>2, <1>3, <1>4 DEF Provenance

\* A view is handled, or the group changes: no value is written, answered or
\* sent in answer.
LEMMA ProvenanceGroup ==
    ASSUME TypeOK, Provenance,
           \/ \E s \in Servers : Notice(s) \/ Join(s)
           \/ ServiceJoins \/ ServiceLeaves \/ UNCHANGED vars
    PROVE  Provenance'
  <1>1. submitted' = submitted /\ th' = th
    BY DEF Notice, UpdateNumberOfParticipants, CheckStartup, Join, ServiceJoins,
           ServiceLeaves, vars
  <1>2. CallsSubmitted'
    BY <1>1, CallsKept DEF Provenance
  <1>3. CASE db' = db /\ net' = net
    <2>1. RowsSubmitted'
      BY <1>1, <1>3, RowsKept DEF Provenance
    <2>2. MessagesSubmitted'
      BY <1>1, <1>3, MessagesTaken DEF Provenance, TypeOK
    <2> QED
      BY <1>2, <2>1, <2>2 DEF Provenance
  <1>4. ASSUME NEW s \in Servers, CheckStartup(s) PROVE Provenance'
    <2>1. RowsSubmitted'
      <3>1. \A r \in Servers, k \in Keys :
              db'[r][k] \in {db[r][k], Invalidated(db[r][k])}
        BY <1>4 DEF CheckStartup, TypeOK
      <3> QED
        BY <1>1, <3>1, RowData, RowsKept DEF Provenance
    <2>2. MessagesSubmitted'
      <3>1. PICK leader, rows, op :
              net' = net \cup StartupUnicast(s, "StartupRequestUpdate", leader, rows, op)
        BY <1>4 DEF CheckStartup
      <3>2. \A n \in StartupUnicast(s, "StartupRequestUpdate", leader, rows, op) :
              n.type \notin {"AskDataResponse", "StartupResponseUpdate"}
        BY DEF StartupUnicast
      <3> QED
        BY <1>1, <3>1, <3>2, MessagesKept DEF Provenance, TypeOK
    <2> QED
      BY <1>2, <2>1, <2>2 DEF Provenance
  <1> QED
    BY <1>3, <1>4 DEF Notice, UpdateNumberOfParticipants, Join, ServiceJoins,
                      ServiceLeaves, vars, server

\* Nobody is answered with a value before the call is over.
LEMMA ValueEndsCallStep ==
    ASSUME TypeOK, CallbacksLive, ValueEndsCall, [Next]_vars
    PROVE  ValueEndsCall'
  <1>1. ASSUME NEW t \in Threads, Call(t) PROVE ValueEndsCall'
    <2>1. PICK s \in Servers, k \in Keys :
            \/ ReadLocal(t, s, k)
            \/ ReadInvalid(t, s, k)
            \/ AskGroup(t, s, k)
            \/ \E v \in Values : WriteAlone(t, s, k, v) \/ SendWantToWrite(t, s, k, v)
      BY <1>1 DEF Call
    <2>2. \A u \in Threads : u # t => th'[u] = th[u]
      BY <2>1 DEF ReadLocal, ReadInvalid, AskGroup, WriteAlone, SendWantToWrite, TypeOK
    <2>3. th'[t].pc = "idle" \/ th'[t].reply # "value"
      BY <2>1 DEF ReadLocal, ReadInvalid, AskGroup, WriteAlone, SendWantToWrite, NewCall,
                  Early, TypeOK
    <2> QED
      BY <2>2, <2>3 DEF ValueEndsCall
  <1>2. ASSUME NEW t \in Threads, Work(t) PROVE ValueEndsCall'
    <2>1. \A u \in Threads : u # t => th'[u] = th[u]
      BY <1>2 DEF Work, RegisterCallback, SaveCopy, RequestTimeout, AllGranted, SaveGranted,
           WriteTimeout, WinConflict, LoseConflict, ReleaseLock, SaveDataLocally, TypeOK
    <2>2. th'[t].pc = "idle" \/ th'[t].reply = th[t].reply
      BY <1>2 DEF Work, RegisterCallback, SaveCopy, RequestTimeout, AllGranted, SaveGranted,
           WriteTimeout, WinConflict, LoseConflict, ReleaseLock, SaveDataLocally, TypeOK,
           Calls
    <2>3. th[t].pc # "idle"
      BY <1>2 DEF Work, RegisterCallback, SaveCopy, RequestTimeout, AllGranted, SaveGranted,
           WriteTimeout, WinConflict, LoseConflict, ReleaseLock
    <2> QED
      BY <2>1, <2>2, <2>3 DEF ValueEndsCall
  <1>3. ASSUME NEW m \in net, Deliver(m) PROVE ValueEndsCall'
    <2>1. ASSUME NEW u \in Threads
          PROVE  th'[u].pc = th[u].pc /\ th'[u].reply = th[u].reply
      <3>1. th[u] \in Calls
        BY DEF TypeOK
      <3>2. CASE AskDataResponse(m)
        <4>1. th'[u] \in {th[u], [th[u] EXCEPT !.got = TRUE, !.val = m.data]}
          BY <3>2 DEF AskDataResponse
        <4> QED
          BY <3>1, <4>1 DEF Calls
      <3>3. CASE DetectConflict(m) \/ ConflictReceived(m)
        <4>1. th'[u] \in {th[u], [th[u] EXCEPT !.conflict = {m.from}]}
          BY <3>3 DEF DetectConflict, ConflictReceived, SetConflict
        <4> QED
          BY <3>1, <4>1 DEF Calls
      <3>4. CASE WantToWriteResponse(m)
        <4>1. th'[u] \in {th[u], [th[u] EXCEPT !.got = TRUE]}
          BY <3>4 DEF WantToWriteResponse
        <4> QED
          BY <3>1, <4>1 DEF Calls
      <3> QED
        BY <1>3, <3>2, <3>3, <3>4 DEF Deliver, AskData, GrantWrite, DataWritten,
             RevalidateData, StartupData, StartupDataResponse
    <2> QED
      BY <2>1 DEF ValueEndsCall
  <1>4. ASSUME NEW s \in Servers, Crash(s) PROVE ValueEndsCall'
    <2>1. ASSUME NEW u \in Threads PROVE th'[u] = th[u] \/ th'[u].pc = "idle"
      <3>1. th[u] \in Calls
        BY DEF TypeOK
      <3>2. th'[u] \in {th[u], [th[u] EXCEPT !.pc = "idle",
                                             !.reply = Reply(th[u].reply, "error")]}
        BY <1>4 DEF Crash
      <3> QED
        BY <3>1, <3>2 DEF Calls
    <2> QED
      BY <2>1 DEF ValueEndsCall
  <1>5. CASE (\E s \in Servers : Notice(s) \/ Join(s))
             \/ ServiceJoins \/ ServiceLeaves \/ UNCHANGED vars
    <2>1. th' = th
      BY <1>5 DEF Notice, UpdateNumberOfParticipants, CheckStartup, Join, ServiceJoins,
                  ServiceLeaves, vars
    <2> QED
      BY <2>1 DEF ValueEndsCall
  <1> QED
    BY <1>1, <1>2, <1>3, <1>4, <1>5 DEF Next, Listen

\* The invariant behind Provenance: callbacks must be those of the key's own
\* calls, or an answer about one key could end a read of another; and a call
\* that is under way must not have been answered with a value yet.
ProvenanceInv == TypeOK /\ CallbacksLive /\ ValueEndsCall /\ Provenance

\* At the start there is no row, no message and no call.
LEMMA ProvenanceInit == Init => ProvenanceInv
  <1> SUFFICES ASSUME Init PROVE ProvenanceInv
    OBVIOUS
  <1>1. ValueEndsCall
    BY DEF Init, ValueEndsCall
  <1>2. Provenance
    BY DEF Init, Provenance, RowsSubmitted, MessagesSubmitted, CallsSubmitted, Present,
           NoRow, Row, WritePCs
  <1> QED
    BY <1>1, <1>2, TypeInit, CallbacksInit DEF ProvenanceInv

\* Every step keeps the inductive invariant.
LEMMA ProvenanceStep == ProvenanceInv /\ [Next]_vars => ProvenanceInv'
  <1> SUFFICES ASSUME ProvenanceInv, [Next]_vars PROVE ProvenanceInv'
    OBVIOUS
  <1>1. TypeOK /\ CallbacksLive /\ ValueEndsCall /\ Provenance
    BY DEF ProvenanceInv
  <1>2. TypeOK' /\ CallbacksLive' /\ ValueEndsCall'
    BY <1>1, TypeStep, CallbacksStep, ValueEndsCallStep
  <1>3. Provenance'
    BY <1>1, ProvenanceCall, ProvenanceWork, ProvenanceDeliver, ProvenanceCrash,
       ProvenanceGroup DEF Next, Listen
  <1> QED
    BY <1>2, <1>3 DEF ProvenanceInv

\* Whatever a database, a message, a running call or a reply holds for a key was
\* written to that key by some client, in every interleaving of reads, writes,
\* conflicts, timeouts, crashes and startups.
THEOREM ProvenanceCorrect == Spec => []Provenance
  <1>1. ProvenanceInv => Provenance
    BY DEF ProvenanceInv
  <1> QED
    BY <1>1, ProvenanceInit, ProvenanceStep, PTL DEF Spec

=============================================================================
