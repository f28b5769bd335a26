--------------------------- MODULE IngestionProofs ---------------------------
(***************************************************************************)
(* Theorems about Ingestion for every set of calls, argument lists,        *)
(* conversations, machines and keys, on both dialects.                     *)
(***************************************************************************)
EXTENDS MCIngestionElsewhere, FiniteSetTheorems, TLAPS

(* TypeOK is not inductive alone: the arguments are given once a call started,
   pos points into them, and only a keyed call looks for a receipt. *)
TypeInv ==
  /\ TypeOK
  /\ \A t \in Ingests :
       /\ pc[t] # "idle" => request[t] \in Requests
       /\ pc[t] \in AtConversation => pos[t] \in 1..Len(request[t].conversations)
       /\ pc[t] \in {"replay", "recheck"} => request[t].key # None
-----------------------------------------------------------------------------
(* A request in progress and the copy it is at have their types. *)
LEMMA RequestFields ==
  ASSUME NEW r \in Requests
  PROVE  /\ r \in RequestType
         /\ r.conversations \in Seq(Copies)
         /\ r.subagents \subseteq Edges
         /\ r.key \in Keys \cup {None}
         /\ LockedScopes(r) \subseteq Machines
         /\ \A i \in 1..Len(r.conversations) : r.conversations[i] \in Copies
<1>1. r \in RequestType
  BY RequestsAssumption
<1>2. /\ r.conversations \in Seq(Copies)
      /\ r.subagents \subseteq Edges
      /\ r.key \in Keys \cup {None}
      /\ r.authoritative = None \/ r.authoritative \subseteq Machines
  BY <1>1 DEF RequestType
<1>3. \A i \in 1..Len(r.conversations) : r.conversations[i] \in Copies
  BY <1>2
<1>4. LockedScopes(r) \subseteq Machines
  BY <1>2, <1>3 DEF LockedScopes, CopiesOf, Copies, Rows, Edges
<1> QED
  BY <1>1, <1>2, <1>3, <1>4

(* The conversation a call is at is one of its copies, and its child rows are
   child rows. *)
LEMMA CurrentType ==
  ASSUME TypeInv, NEW t \in Ingests, pc[t] \in AtConversation
  PROVE  /\ Current(t) \in Copies
         /\ Current(t).id \in Conversations
         /\ Current(t).row \in Rows
         /\ Current(t).row.source_machine \in Machines
         /\ ChildRows(Current(t)) \subseteq ChildRow
<1>1. request[t] \in Requests /\ pos[t] \in 1..Len(request[t].conversations)
  BY DEF TypeInv, AtConversation
<1>2. Current(t) \in Copies
  BY <1>1, RequestFields DEF Current
<1> QED
  BY <1>2 DEF Copies, Rows, ChildRows, ChildRow

(* The empty transaction state has its type. *)
LEMMA FreshType == Fresh \in Work /\ NoPending \in [Conversations -> Rows \cup {None}]
BY DEF Fresh, Work, NoPending

(* Leaving the transaction keeps the types of everything it resets. *)
LEMMA EndTransactionType ==
  ASSUME TypeInv, NEW t \in Ingests, EndTransaction(t)
  PROVE  /\ held' \in [Ingests -> SUBSET Locks]
         /\ pos' \in [Ingests -> Nat \ {0}]
         /\ loaded' \in [Ingests -> Rows \cup {None}]
         /\ pending' \in [Ingests -> [Conversations -> Rows \cup {None}]]
         /\ work' \in [Ingests -> Work]
         /\ \A u \in Ingests \ {t} : pos'[u] = pos[u]
BY FreshType DEF EndTransaction, TypeInv, TypeOK

(* A transaction ended by an IntegrityError leaves typed state behind. *)
LEMMA IntegrityErrorType ==
  ASSUME TypeInv, NEW t \in Ingests, IntegrityError(t), pc[t] # "idle"
  PROVE  TypeInv'
BY EndTransactionType
   DEF IntegrityError, Goto, TypeInv, TypeOK, Steps, AtConversation, database
-----------------------------------------------------------------------------
(* Every step of a call or of retention keeps the types. *)
LEMMA TypeStep == TypeInv /\ [Next]_vars => TypeInv'
<1> SUFFICES ASSUME TypeInv, [Next]_vars PROVE TypeInv'
  OBVIOUS
<1>1. ASSUME NEW t \in Ingests, NEW r \in Requests, Call(t, r) PROVE TypeInv'
  BY <1>1, RequestFields
     DEF Call, Goto, TypeInv, TypeOK, Steps, AtConversation, database
<1>2. ASSUME NEW t \in Ingests, Replay(t) PROVE TypeInv'
  <2>1. request[t] \in Requests /\ request[t].key \in Keys
    BY <1>2, RequestFields DEF Replay, TypeInv
  <2> QED
    BY <1>2, <2>1 DEF Replay, Goto, TypeInv, TypeOK, Steps, AtConversation, database
<1>3. ASSUME NEW t \in Ingests, LockScope(t) PROVE TypeInv'
  <2>1. PICK m \in LockedScopes(request[t]) :
          /\ Hold(t, {ScopeLock(m)})
          /\ work' = [work EXCEPT ![t].created = IF m \in scopes THEN @ ELSE @ \cup {m}]
    BY <1>3 DEF LockScope
  <2>2. m \in Machines /\ ScopeLock(m) \in Locks
    BY <1>3, RequestFields DEF LockScope, TypeInv, ScopeLock, Locks
  <2>3. work' \in [Ingests -> Work]
    <3> DEFINE created == IF m \in scopes THEN work[t].created
                          ELSE work[t].created \cup {m}
               w == [work[t] EXCEPT !.created = created]
    <3>1. work[t] \in Work /\ created \subseteq Machines
      BY <2>2 DEF TypeInv, TypeOK, Work
    <3>2. w \in Work
      BY <3>1 DEF Work
    <3>3. work' = [work EXCEPT ![t] = w]
      BY <2>1 DEF TypeInv, TypeOK
    <3> QED
      BY <3>2, <3>3 DEF TypeInv, TypeOK
  <2> QED
    BY <1>3, <2>1, <2>2, <2>3 DEF LockScope, Hold, TypeInv, TypeOK, database
<1>4. ASSUME NEW t \in Ingests, ScopesLocked(t) PROVE TypeInv'
  BY <1>4 DEF ScopesLocked, Goto, TypeInv, TypeOK, Steps, AtConversation, database
<1>5. ASSUME NEW t \in Ingests, Get(t) PROVE TypeInv'
  <2>1. /\ request[t] \in Requests
        /\ pos[t] \in 1..Len(request[t].conversations)
        /\ Len(request[t].conversations) \in Nat
    BY <1>5, RequestFields DEF Get, TypeInv, TypeOK
  <2>2. /\ Current(t) \in Copies
        /\ Current(t).id \in Conversations
        /\ Current(t).row.source_machine \in Machines
    BY <2>1, RequestFields DEF Current, Copies, Rows
  <2>3. work' \in [Ingests -> Work]
    <3> DEFINE existing == conversations[Current(t).id]
               m == Current(t).row.source_machine
               stale == IF existing # None /\ Below(Current(t).row, existing)
                        THEN work[t].stale \cup {m} ELSE work[t].stale
               richer == IF existing # None /\ Below(existing, Current(t).row)
                         THEN work[t].richer \cup {m} ELSE work[t].richer
               kept == IF /\ request[t].merge
                          /\ Skipped(existing, Current(t)) /\ SameCopy(existing, Current(t))
                       THEN work[t].kept \cup {<<m, Current(t).id>>} ELSE work[t].kept
               skipped == IF Skipped(existing, Current(t))
                          THEN work[t].skipped + 1 ELSE work[t].skipped
               w == [work[t] EXCEPT !.stale = stale, !.richer = richer,
                                    !.kept = kept, !.skipped = skipped]
    <3>1. /\ stale \subseteq Machines
          /\ richer \subseteq Machines
          /\ kept \subseteq Machines \X Conversations
          /\ skipped \in Nat
      BY <2>2 DEF TypeInv, TypeOK, Work
    <3>2. work[t] \in Work
      BY DEF TypeInv, TypeOK
    <3>3. w \in Work
      BY <3>1, <3>2 DEF Work
    <3>4. work' = [work EXCEPT ![t] = w]
      BY <1>5 DEF Get, TypeInv, TypeOK
    <3> QED
      BY <3>3, <3>4 DEF TypeInv, TypeOK
  <2>4. loaded' \in [Ingests -> Rows \cup {None}]
    BY <1>5, <2>2 DEF Get, TypeInv, TypeOK
  <2>5. /\ pos' \in [Ingests -> Nat \ {0}]
        /\ \A u \in Ingests \ {t} : pos'[u] = pos[u]
        /\ pc'[t] = "get" \/ pos'[t] = pos[t]
        /\ pc' \in [Ingests -> Steps]
    BY <1>5, <2>1 DEF Get, Goto, TypeInv, TypeOK, Steps
  <2>6. \A u \in Ingests \ {t} : pc'[u] = pc[u]
    BY <1>5 DEF Get, Skipped, Goto, TypeInv, TypeOK
  <2>7. pc'[t] \in {"get", "clear"}
    BY <1>5 DEF Get, Skipped, Goto, TypeInv, TypeOK
  <2> QED
    BY <1>5, <2>1, <2>3, <2>4, <2>5, <2>6, <2>7
       DEF Get, TypeInv, TypeOK, AtConversation, database
<1>6. ASSUME NEW t \in Ingests, StartClear(t) PROVE TypeInv'
  <2>1. Current(t).id \in Conversations
    BY <1>6, CurrentType DEF StartClear, AtConversation
  <2>2. work' \in [Ingests -> Work]
    <3> DEFINE victims == {ch \in children : ch.conversation = Current(t).id}
               w == [work[t] EXCEPT !.victims = victims]
    <3>1. work[t] \in Work /\ victims \subseteq ChildRow
      BY DEF TypeInv, TypeOK
    <3>2. w \in Work
      BY <3>1 DEF Work
    <3>3. work' = [work EXCEPT ![t] = w]
      BY <1>6 DEF StartClear, TypeInv, TypeOK
    <3> QED
      BY <3>2, <3>3 DEF TypeInv, TypeOK
  <2>3. held' \in [Ingests -> SUBSET Locks]
    BY <1>6, <2>1 DEF StartClear, Hold, TypeInv, TypeOK, Locks, RowLock
  <2> QED
    BY <1>6, <2>2, <2>3
       DEF StartClear, Goto, TypeInv, TypeOK, Steps, AtConversation, database
<1>7. ASSUME NEW t \in Ingests, Clear(t) PROVE TypeInv'
  <2> DEFINE victims == work[t].victims \cap children
  <2>1. victims \subseteq ChildRow
    BY DEF TypeInv, TypeOK
  <2>2. {ChildLock(ch) : ch \in victims} \subseteq Locks
    BY <2>1 DEF ChildLock, ChildRow, Locks
  <2>3. held' \in [Ingests -> SUBSET Locks]
    BY <1>7, <2>2 DEF Clear, Hold, TypeInv, TypeOK
  <2>4. work' \in [Ingests -> Work]
    <3> DEFINE removed == work[t].removed \cup victims
               w == [work[t] EXCEPT !.removed = removed, !.victims = {}]
    <3>1. work[t] \in Work /\ removed \subseteq ChildRow
      BY <2>1 DEF TypeInv, TypeOK, Work
    <3>2. w \in Work
      BY <3>1 DEF Work
    <3>3. work' = [work EXCEPT ![t] = w]
      BY <1>7 DEF Clear, TypeInv, TypeOK
    <3> QED
      BY <3>2, <3>3 DEF TypeInv, TypeOK
  <2> QED
    BY <1>7, <2>3, <2>4 DEF Clear, Goto, TypeInv, TypeOK, Steps, AtConversation, database
<1>8. ASSUME NEW t \in Ingests, Merge(t) PROVE TypeInv'
  <2>1. Current(t).id \in Conversations
    BY <1>8, CurrentType DEF Merge, AtConversation
  <2> QED
    BY <1>8, <2>1 DEF Merge, Goto, TypeInv, TypeOK, Steps, AtConversation, database
<1>9. ASSUME NEW t \in Ingests, FlushRow(t) PROVE TypeInv'
  <2> DEFINE copy == Current(t)
             row == IF loaded[t] = None THEN copy.row
                    ELSE [f \in DOMAIN copy.row |->
                            IF copy.row[f] # loaded[t][f] THEN copy.row[f]
                            ELSE conversations[copy.id][f]]
  <2>1. copy.id \in Conversations /\ copy.row \in Rows
    BY <1>9, CurrentType DEF FlushRow, AtConversation
  <2>2. row \in Rows
    <3>1. CASE loaded[t] = None
      BY <3>1, <2>1
    <3>2. CASE loaded[t] # None
      <4>1. conversations[copy.id] \in Rows
        BY <1>9, <2>1, <3>2 DEF FlushRow, TypeInv, TypeOK
      <4> QED
        BY <2>1, <3>2, <4>1 DEF Rows
    <3> QED
      BY <3>1, <3>2
  <2>3. pending' = [pending EXCEPT ![t][copy.id] = row]
    BY <1>9 DEF FlushRow
  <2>4. RowLock(copy.id) \in Locks
    BY <2>1 DEF RowLock, Locks
  <2>5. held' \in [Ingests -> SUBSET Locks]
    BY <1>9, <2>4 DEF FlushRow, Hold, TypeInv, TypeOK
  <2>6. pending' \in [Ingests -> [Conversations -> Rows \cup {None}]]
    BY <2>1, <2>2, <2>3 DEF TypeInv, TypeOK
  <2> QED
    BY <1>9, <2>5, <2>6
       DEF FlushRow, Goto, TypeInv, TypeOK, Steps, AtConversation, database
<1>10. ASSUME NEW t \in Ingests, FlushStale(t) PROVE TypeInv'
  BY <1>10, EndTransactionType
     DEF FlushStale, Goto, TypeInv, TypeOK, Steps, AtConversation, database
<1>11. ASSUME NEW t \in Ingests,
              FlushConflict(t) \/ AddConflict(t) \/ ReceiptConflict(t)
       PROVE TypeInv'
  BY <1>11, IntegrityErrorType
     DEF FlushConflict, AddConflict, ReceiptConflict
<1>12. ASSUME NEW t \in Ingests, AddChildren(t) PROVE TypeInv'
  <2> DEFINE copy == Current(t)
  <2>1. /\ copy.id \in Conversations
        /\ copy.row.source_machine \in Machines
        /\ ChildRows(copy) \subseteq ChildRow
    BY <1>12, CurrentType DEF AddChildren, AtConversation
  <2>2. {ChildLock(ch) : ch \in ChildRows(copy)} \subseteq Locks
    BY <2>1 DEF ChildLock, ChildRow, Locks
  <2>3. held' \in [Ingests -> SUBSET Locks]
    BY <1>12, <2>2 DEF AddChildren, Hold, TypeInv, TypeOK
  <2>4. work' \in [Ingests -> Work]
    <3> DEFINE added == work[t].added \cup ChildRows(copy)
               wrote == IF request[t].merge
                        THEN work[t].wrote \cup {<<copy.row.source_machine, copy.id>>}
                        ELSE work[t].wrote
               w == [work[t] EXCEPT !.added = added, !.written = work[t].written + 1,
                                    !.wrote = wrote]
    <3>1. /\ work[t] \in Work
          /\ added \subseteq ChildRow
          /\ wrote \subseteq Machines \X Conversations
          /\ work[t].written + 1 \in Nat
      BY <2>1 DEF TypeInv, TypeOK, Work
    <3>2. w \in Work
      BY <3>1 DEF Work
    <3>3. work' = [work EXCEPT ![t] = w]
      BY <1>12 DEF AddChildren, TypeInv, TypeOK
    <3> QED
      BY <3>2, <3>3 DEF TypeInv, TypeOK
  <2> QED
    BY <1>12, <2>3, <2>4
       DEF AddChildren, Goto, TypeInv, TypeOK, Steps, AtConversation, database
<1>13. ASSUME NEW t \in Ingests, ConversationsDone(t) PROVE TypeInv'
  BY <1>13 DEF ConversationsDone, Goto, TypeInv, TypeOK, Steps, AtConversation, database
<1>14. ASSUME NEW t \in Ingests, WriteGraph(t) PROVE TypeInv'
  <2>1. request[t].subagents \subseteq Edges
    BY <1>14, RequestFields DEF WriteGraph, TypeInv
  <2>2. EdgesGone(t) \subseteq Edges /\ EdgesLinked(t) \subseteq Edges
    BY <2>1 DEF EdgesGone, EdgesLinked, WrittenEdges, KeptEdges, TypeInv, TypeOK
  <2>3. {EdgeLock(e) : e \in EdgesGone(t) \cup EdgesLinked(t)} \subseteq Locks
    BY <2>2 DEF EdgeLock, EdgeId, Edges, Locks
  <2>4. held' \in [Ingests -> SUBSET Locks]
    BY <1>14, <2>3 DEF WriteGraph, Hold, TypeInv, TypeOK
  <2>5. work' \in [Ingests -> Work]
    <3> DEFINE w == [work[t] EXCEPT !.gone = EdgesGone(t), !.linked = EdgesLinked(t)]
    <3>1. work[t] \in Work
      BY DEF TypeInv, TypeOK
    <3>2. w \in Work
      BY <2>2, <3>1 DEF Work
    <3>3. work' = [work EXCEPT ![t] = w]
      BY <1>14 DEF WriteGraph, TypeInv, TypeOK
    <3> QED
      BY <3>2, <3>3 DEF TypeInv, TypeOK
  <2> QED
    BY <1>14, <2>4, <2>5
       DEF WriteGraph, Goto, TypeInv, TypeOK, Steps, AtConversation, database
<1>15. ASSUME NEW t \in Ingests, Commit(t) PROVE TypeInv'
  <2>1. /\ request[t] \in Requests
        /\ request[t].key \in Keys \cup {None}
        /\ Len(request[t].conversations) \in Nat
    BY <1>15, RequestFields DEF Commit, TypeInv
  <2>2. receipts' \in [Keys -> Ingests \cup {None}]
    BY <1>15, <2>1 DEF Commit, TypeInv, TypeOK
  <2>3. work[t] \in Work
    BY DEF TypeInv, TypeOK
  <2>4. runs' \in [Ingests -> [received : Nat, written : Nat, skipped : Nat] \cup {None}]
    BY <1>15, <2>1, <2>3 DEF Commit, TypeInv, TypeOK, Work
  <2>5. conversations' \in [Conversations -> Rows \cup {None}]
    BY <1>15 DEF Commit, TypeInv, TypeOK
  <2>6. children' \subseteq ChildRow /\ graph' \subseteq Edges /\ scopes' \subseteq Machines
    BY <1>15, <2>3 DEF Commit, CommittedChildren, TypeInv, TypeOK, Work
  <2>7. EndTransaction(t)
    BY <1>15 DEF Commit
  <2> QED
    BY <1>15, <2>2, <2>4, <2>5, <2>6, <2>7, EndTransactionType
       DEF Commit, Goto, TypeInv, TypeOK, Steps, AtConversation
<1>16. ASSUME NEW t \in Ingests, Fail(t) PROVE TypeInv'
  BY <1>16, EndTransactionType
     DEF Fail, Goto, TypeInv, TypeOK, Steps, AtConversation, database, InTransaction
<1>17. ASSUME NEW C \in SUBSET Conversations, NEW E \in SUBSET graph,
              NEW R \in SUBSET Ingests, Retain(C, E, R)
       PROVE TypeInv'
  BY <1>17 DEF Retain, RetainedChildren, TypeInv, TypeOK
<1>18. CASE UNCHANGED vars
  BY <1>18 DEF vars, database, TypeInv, TypeOK
<1> QED
  BY <1>1, <1>2, <1>3, <1>4, <1>5, <1>6, <1>7, <1>8, <1>9, <1>10, <1>11, <1>12,
     <1>13, <1>14, <1>15, <1>16, <1>17, <1>18 DEF Next, Step, Retention

(* The empty database and the idle calls have their types. *)
LEMMA TypeInit == Init => TypeInv
BY FreshType DEF Init, TypeInv, TypeOK, Steps, AtConversation

(* Every variable keeps its type, whatever the calls and the retention do. *)
THEOREM TypeCorrect == Spec => []TypeOK
<1>1. TypeInv => TypeOK
  BY DEF TypeInv
<1> QED
  BY <1>1, TypeInit, TypeStep, PTL DEF Spec
-----------------------------------------------------------------------------
(* The lock discipline: no row is locked twice, and SQLite has one writer. *)
Exclusive ==
  \A t, u \in Ingests :
    t # u => IF Dialect = "sqlite" THEN held[t] = {} \/ held[u] = {}
             ELSE held[t] \cap held[u] = {}
ScopesHeld ==
  \A t \in Ingests :
    pc[t] \in Deciding => \A m \in LockedScopes(request[t]) : ScopeLock(m) \in held[t]
LockInv == TypeInv /\ Exclusive /\ ScopesHeld

(* Rows a call found free and locked are still locked by one call only. *)
LEMMA HoldExclusive ==
  ASSUME TypeInv, Exclusive, NEW t \in Ingests, NEW L, Free(t, L), Hold(t, L)
  PROVE  Exclusive' /\ \A u \in Ingests : held[u] \subseteq held'[u]
BY DEF TypeInv, TypeOK, Exclusive, Free, Hold

(* Releasing a transaction's locks keeps the others exclusive. *)
LEMMA EndExclusive ==
  ASSUME TypeInv, Exclusive, NEW t \in Ingests, EndTransaction(t)
  PROVE  Exclusive' /\ \A u \in Ingests \ {t} : held[u] = held'[u]
BY DEF TypeInv, TypeOK, Exclusive, EndTransaction

(* A call that goes from one deciding step to another keeps its scope rows. *)
LEMMA KeepsScopes ==
  ASSUME TypeInv, ScopesHeld, NEW t \in Ingests, NEW step, Goto(t, step),
         pc[t] \in Deciding \/ step \notin Deciding,
         request' = request, \A u \in Ingests : held[u] \subseteq held'[u]
  PROVE  ScopesHeld'
BY DEF TypeInv, TypeOK, ScopesHeld, Goto

(* A call that leaves its transaction owes no scope row. *)
LEMMA EndScopes ==
  ASSUME TypeInv, ScopesHeld, NEW t \in Ingests, NEW step, Goto(t, step),
         step \notin Deciding, request' = request,
         \A u \in Ingests \ {t} : held[u] = held'[u]
  PROVE  ScopesHeld'
BY DEF TypeInv, TypeOK, ScopesHeld, Goto

(* Every step keeps the locks exclusive and the scope rows of the deciding calls
   locked. *)
LEMMA LockStep == LockInv /\ [Next]_vars => LockInv'
<1> SUFFICES ASSUME TypeInv, Exclusive, ScopesHeld, [Next]_vars
             PROVE Exclusive' /\ ScopesHeld'
  BY TypeStep DEF LockInv
<1> USE DEF AtConversation, Deciding
<1>1. ASSUME NEW t \in Ingests, NEW r \in Requests, Call(t, r)
      PROVE Exclusive' /\ ScopesHeld'
  <2>1. PICK step \in {"failed", "replay", "lock"} : Goto(t, step)
    BY <1>1 DEF Call
  <2>2. held' = held /\ \A u \in Ingests : u # t => request'[u] = request[u]
    BY <1>1 DEF Call, TypeInv, TypeOK
  <2>3. \A u \in Ingests : pc'[u] \in Deciding => u # t /\ pc'[u] = pc[u]
    BY <2>1 DEF Goto, TypeInv, TypeOK
  <2> QED
    BY <2>2, <2>3 DEF Exclusive, ScopesHeld, LockedScopes, CopiesOf
<1>2. ASSUME NEW t \in Ingests, Replay(t) PROVE Exclusive' /\ ScopesHeld'
  BY <1>2 DEF Replay, Goto, TypeInv, TypeOK, Exclusive, ScopesHeld
<1>3. ASSUME NEW t \in Ingests, LockScope(t) PROVE Exclusive' /\ ScopesHeld'
  <2>1. PICK m \in LockedScopes(request[t]) : Free(t, {ScopeLock(m)}) /\ Hold(t, {ScopeLock(m)})
    BY <1>3 DEF LockScope
  <2>2. Exclusive' /\ \A u \in Ingests : held[u] \subseteq held'[u]
    BY <2>1, HoldExclusive
  <2> QED
    BY <1>3, <2>2 DEF LockScope, ScopesHeld
<1>4. ASSUME NEW t \in Ingests, ScopesLocked(t) PROVE Exclusive' /\ ScopesHeld'
  BY <1>4 DEF ScopesLocked, Goto, TypeInv, TypeOK, Exclusive, ScopesHeld
<1>5. ASSUME NEW t \in Ingests, Get(t) PROVE Exclusive' /\ ScopesHeld'
  <2>1. pc[t] = "get" /\ held' = held /\ request' = request /\ \E step : Goto(t, step)
    BY <1>5 DEF Get
  <2> QED
    BY <2>1, KeepsScopes DEF Exclusive
<1>6. ASSUME NEW t \in Ingests, StartClear(t) PROVE Exclusive' /\ ScopesHeld'
  <2>1. Exclusive' /\ \A u \in Ingests : held[u] \subseteq held'[u]
    BY <1>6 DEF StartClear, TypeInv, TypeOK, Exclusive, Free, Hold
  <2> QED
    BY <1>6, <2>1, KeepsScopes DEF StartClear
<1>7. ASSUME NEW t \in Ingests, Clear(t) PROVE Exclusive' /\ ScopesHeld'
  <2>1. Exclusive' /\ \A u \in Ingests : held[u] \subseteq held'[u]
    BY <1>7, HoldExclusive DEF Clear
  <2> QED
    BY <1>7, <2>1, KeepsScopes DEF Clear
<1>8. ASSUME NEW t \in Ingests, Merge(t) PROVE Exclusive' /\ ScopesHeld'
  BY <1>8, KeepsScopes DEF Merge, Exclusive
<1>9. ASSUME NEW t \in Ingests, FlushRow(t) PROVE Exclusive' /\ ScopesHeld'
  <2>1. Exclusive' /\ \A u \in Ingests : held[u] \subseteq held'[u]
    BY <1>9, HoldExclusive DEF FlushRow
  <2> QED
    BY <1>9, <2>1, KeepsScopes DEF FlushRow
<1>10. ASSUME NEW t \in Ingests, AddChildren(t) PROVE Exclusive' /\ ScopesHeld'
  <2>1. Exclusive' /\ \A u \in Ingests : held[u] \subseteq held'[u]
    BY <1>10, HoldExclusive DEF AddChildren
  <2> QED
    BY <1>10, <2>1, KeepsScopes DEF AddChildren
<1>11. ASSUME NEW t \in Ingests, ConversationsDone(t) PROVE Exclusive' /\ ScopesHeld'
  BY <1>11, KeepsScopes DEF ConversationsDone, Exclusive
<1>12. ASSUME NEW t \in Ingests, WriteGraph(t) PROVE Exclusive' /\ ScopesHeld'
  <2>1. Exclusive' /\ \A u \in Ingests : held[u] \subseteq held'[u]
    BY <1>12, HoldExclusive DEF WriteGraph
  <2> QED
    BY <1>12, <2>1, KeepsScopes DEF WriteGraph
<1>13. ASSUME NEW t \in Ingests,
              \/ FlushConflict(t) \/ AddConflict(t) \/ ReceiptConflict(t)
              \/ FlushStale(t) \/ Commit(t) \/ Fail(t)
       PROVE Exclusive' /\ ScopesHeld'
  <2>1. EndTransaction(t) /\ request' = request
    BY <1>13 DEF FlushConflict, AddConflict, ReceiptConflict,
                 IntegrityError, FlushStale, Commit, Fail
  <2>2. \E step \in {"failed", "recheck", "done"} : Goto(t, step)
    BY <1>13 DEF FlushConflict, AddConflict, ReceiptConflict,
                 IntegrityError, FlushStale, Commit, Fail
  <2> QED
    BY <2>1, <2>2, EndExclusive, EndScopes
<1>14. ASSUME NEW C \in SUBSET Conversations, NEW E \in SUBSET graph,
              NEW R \in SUBSET Ingests, Retain(C, E, R)
       PROVE Exclusive' /\ ScopesHeld'
  BY <1>14 DEF Retain, Exclusive, ScopesHeld
<1>15. CASE UNCHANGED vars
  BY <1>15 DEF vars, Exclusive, ScopesHeld
<1> QED
  BY <1>1, <1>2, <1>3, <1>4, <1>5, <1>6, <1>7, <1>8, <1>9, <1>10, <1>11, <1>12,
     <1>13, <1>14, <1>15 DEF Next, Step, Retention

(* At first nothing is locked and nobody decides. *)
LEMMA LockInit == Init => LockInv
BY TypeInit DEF Init, LockInv, Exclusive, ScopesHeld, Deciding, AtConversation

(* Two calls that decide at once have no conversation in common: a common scope
   row would be locked by both. *)
LEMMA ApartAmong ==
  ASSUME NEW asked, SerializeAmong(asked),
         \A t \in Ingests : request[t] \in asked \cup {None}, LockInv
  PROVE  OneDecisionAtATime
<1> SUFFICES ASSUME NEW t \in Ingests, NEW u \in Ingests, t # u,
                    pc[t] \in Deciding, pc[u] \in Deciding,
                    Mentioned(request[t]) \cap Mentioned(request[u]) # {}
             PROVE FALSE
  BY DEF OneDecisionAtATime
<1>1. request[t] \in asked /\ request[u] \in asked
  BY NoneAssumption DEF LockInv, TypeInv, Deciding, AtConversation
<1>2. CASE Dialect = "sqlite"
  <2>1. LockedScopes(request[t]) # {} /\ LockedScopes(request[u]) # {}
    BY <1>1, <1>2 DEF SerializeAmong
  <2>2. held[t] # {} /\ held[u] # {}
    BY <2>1 DEF LockInv, ScopesHeld
  <2> QED
    BY <1>2, <2>2 DEF LockInv, Exclusive
<1>3. CASE Dialect # "sqlite"
  <2>1. PICK m : m \in LockedScopes(request[t]) /\ m \in LockedScopes(request[u])
    BY <1>1, <1>3 DEF SerializeAmong
  <2>2. ScopeLock(m) \in held[t] /\ ScopeLock(m) \in held[u]
    BY <2>1 DEF LockInv, ScopesHeld
  <2> QED
    BY <1>3, <2>2 DEF LockInv, Exclusive
<1> QED
  BY <1>2, <1>3

(* Every call asks for one of the argument lists. *)
LEMMA Apart ==
  ASSUME ScopesSerialize, LockInv
  PROVE  OneDecisionAtATime
<1>1. \A t \in Ingests : request[t] \in Requests \cup {None}
  BY DEF LockInv, TypeInv, TypeOK
<1> QED
  BY <1>1, ApartAmong DEF ScopesSerialize

(* A call is alone with the conversations it mentions from its first read to its
   commit, on either dialect, when the scope rows serialize the callers. *)
THEOREM DecisionsApart == ScopesSerialize => (Spec => []OneDecisionAtATime)
<1> SUFFICES ASSUME ScopesSerialize PROVE Spec => []OneDecisionAtATime
  OBVIOUS
<1>1. LockInv => OneDecisionAtATime
  BY Apart
<1> QED
  BY <1>1, LockInit, LockStep, PTL DEF Spec
-----------------------------------------------------------------------------
(* Ranks are ordered. *)
LEMMA BelowAsymmetric ==
  ASSUME NEW a \in Rows, NEW b \in Rows, Below(a, b)
  PROVE  ~Below(b, a)
BY DEF Below, Rows

(* A step that commits nothing cannot hurt the evidence of another call. *)
LEMMA LocalStep ==
  ASSUME TypeInv, EvidenceStands, NEW t \in Ingests, EvidenceOf(t)',
         conversations' = conversations, request' = request,
         \A u \in Ingests \ {t} :
           /\ pc'[u] = pc[u] /\ pos'[u] = pos[u]
           /\ loaded'[u] = loaded[u] /\ pending'[u] = pending[u]
  PROVE  EvidenceStands'
<1>1. ASSUME NEW u \in Ingests \ {t} PROVE EvidenceOf(u)'
  BY <1>1 DEF EvidenceStands, EvidenceOf, Current
<1> QED
  BY <1>1 DEF EvidenceStands

(* A call that has ended its transaction has nothing to stand for. *)
LEMMA EndEvidence ==
  ASSUME TypeInv, NEW t \in Ingests, EndTransaction(t), NEW step, Goto(t, step),
         step \notin AtConversation
  PROVE  /\ EvidenceOf(t)'
         /\ \A u \in Ingests \ {t} :
              /\ pc'[u] = pc[u] /\ pos'[u] = pos[u]
              /\ loaded'[u] = loaded[u] /\ pending'[u] = pending[u]
BY DEF TypeInv, TypeOK, EndTransaction, Goto, EvidenceOf, NoPending

EvidenceInv == LockInv /\ EvidenceStands

(* The row a call flushes is its copy's row: what the UPDATE leaves alone is equal
   in the loaded row and in the stored one. *)
LEMMA FlushedRow ==
  ASSUME TypeInv, EvidenceStands, NEW t \in Ingests, FlushRow(t)
  PROVE  /\ pending'[t][Current(t).id] = Current(t).row
         /\ \A c \in Conversations \ {Current(t).id} : pending'[t][c] = pending[t][c]
<1> DEFINE copy == Current(t)
           row == IF loaded[t] = None THEN copy.row
                  ELSE [f \in DOMAIN copy.row |->
                          IF copy.row[f] # loaded[t][f] THEN copy.row[f]
                          ELSE conversations[copy.id][f]]
<1>1. /\ pending' = [pending EXCEPT ![t][copy.id] = row]
      /\ pc[t] = "flush"
      /\ (loaded[t] = None) = (conversations[copy.id] = None)
  BY DEF FlushRow
<1>2. copy.id \in Conversations /\ copy.row \in Rows
  BY <1>1, CurrentType DEF AtConversation
<1>3. conversations[copy.id] = loaded[t]
  BY <1>1 DEF EvidenceStands, EvidenceOf, AtConversation
<1>4. row = copy.row
  BY <1>2, <1>3 DEF Rows
<1> QED
  BY <1>1, <1>2, <1>4 DEF TypeInv, TypeOK

(* Every step, whoever takes it, keeps what the deciding calls have read true. *)
LEMMA EvidenceStep ==
  ASSUME OneDecisionAtATime, EvidenceInv, [Next]_vars
  PROVE  EvidenceStands'
<1> USE DEF AtConversation, Deciding
<1>t. TypeInv /\ LockInv /\ OneDecisionAtATime /\ EvidenceStands
  BY DEF EvidenceInv, LockInv
<1>1. ASSUME NEW t \in Ingests, NEW r \in Requests, Call(t, r) PROVE EvidenceStands'
  <2>1. \A c \in Conversations : pending[t][c] = None
    BY <1>1, <1>t DEF Call, EvidenceStands, EvidenceOf
  <2>2. EvidenceOf(t)'
    BY <1>1, <1>t, <2>1 DEF Call, Goto, EvidenceOf, TypeInv, TypeOK
  <2>3. ASSUME NEW u \in Ingests \ {t} PROVE EvidenceOf(u)'
    BY <1>1, <1>t, <2>3
       DEF Call, Goto, EvidenceStands, EvidenceOf, Current, TypeInv, TypeOK, database
  <2> QED
    BY <2>2, <2>3 DEF EvidenceStands
<1>2. ASSUME NEW t \in Ingests, Replay(t) \/ ScopesLocked(t) \/ ConversationsDone(t) \/ LockScope(t)
      PROVE EvidenceStands'
  <2>1. /\ conversations' = conversations /\ request' = request
        /\ pos' = pos /\ loaded' = loaded /\ pending' = pending
        /\ \A u \in Ingests \ {t} : pc'[u] = pc[u]
        /\ pc'[t] \notin AtConversation
    BY <1>2, <1>t
       DEF Replay, ScopesLocked, ConversationsDone, LockScope, Goto, TypeInv, TypeOK, database
  <2>2. pc[t] \in Deciding => pc'[t] \in Deciding
    BY <1>2, <1>t
       DEF Replay, ScopesLocked, ConversationsDone, LockScope, Goto, TypeInv, TypeOK
  <2>3. EvidenceOf(t)'
    BY <1>t, <2>1, <2>2 DEF EvidenceStands, EvidenceOf
  <2> QED
    BY <1>t, <2>1, <2>3, LocalStep
<1>3. ASSUME NEW t \in Ingests, Get(t) PROVE EvidenceStands'
  <2>1. /\ conversations' = conversations /\ request' = request /\ pending' = pending
        /\ \A u \in Ingests \ {t} :
             pc'[u] = pc[u] /\ pos'[u] = pos[u] /\ loaded'[u] = loaded[u]
        /\ pc[t] = "get" /\ pc'[t] \in {"get", "clear"}
    BY <1>3, <1>t DEF Get, Goto, TypeInv, TypeOK, database
  <2>2. ASSUME pc'[t] = "clear"
        PROVE  /\ Current(t)' = Current(t)
               /\ loaded'[t] = conversations[Current(t).id]
               /\ loaded'[t] = None \/ Below(loaded'[t], Current(t).row)
    <3>1. pos'[t] = pos[t] /\ loaded'[t] = conversations[Current(t).id]
      BY <1>3, <1>t, <2>2 DEF Get, Skipped, Goto, TypeInv, TypeOK
    <3>2. loaded'[t] = None \/ Below(loaded'[t], Current(t).row)
      BY <1>3, <1>t, <2>2, <3>1 DEF Get, Skipped, Goto, TypeInv, TypeOK
    <3> QED
      BY <2>1, <3>1, <3>2 DEF Current
  <2>3. EvidenceOf(t)'
    BY <1>t, <2>1, <2>2 DEF EvidenceStands, EvidenceOf
  <2> QED
    BY <1>t, <2>1, <2>3, LocalStep
<1>4. ASSUME NEW t \in Ingests, StartClear(t) \/ Clear(t) PROVE EvidenceStands'
  <2>1. /\ conversations' = conversations /\ request' = request
        /\ pos' = pos /\ loaded' = loaded /\ pending' = pending
        /\ \A u \in Ingests \ {t} : pc'[u] = pc[u]
        /\ pc[t] \in {"clear", "clearing"} /\ pc'[t] \in {"clearing", "merge"}
    BY <1>4, <1>t DEF StartClear, Clear, Goto, TypeInv, TypeOK, database
  <2>2. EvidenceOf(t)'
    BY <1>t, <2>1 DEF EvidenceStands, EvidenceOf, Current
  <2> QED
    BY <1>t, <2>1, <2>2, LocalStep
<1>5. ASSUME NEW t \in Ingests, Merge(t) PROVE EvidenceStands'
  <2>1. /\ conversations' = conversations /\ request' = request
        /\ pos' = pos /\ pending' = pending
        /\ \A u \in Ingests \ {t} : pc'[u] = pc[u] /\ loaded'[u] = loaded[u]
        /\ pc[t] = "merge" /\ pc'[t] = "flush"
    BY <1>5, <1>t DEF Merge, Goto, TypeInv, TypeOK, database
  <2>2. loaded'[t] = loaded[t]
    BY <1>5, <1>t, <2>1 DEF Merge, EvidenceStands, EvidenceOf, TypeInv, TypeOK
  <2>3. EvidenceOf(t)'
    BY <1>t, <2>1, <2>2 DEF EvidenceStands, EvidenceOf, Current
  <2> QED
    BY <1>t, <2>1, <2>3, LocalStep
<1>6. ASSUME NEW t \in Ingests, FlushRow(t) PROVE EvidenceStands'
  <2> DEFINE copy == Current(t)
  <2>1. /\ conversations' = conversations /\ request' = request
        /\ pos' = pos /\ loaded' = loaded
        /\ \A u \in Ingests \ {t} : pc'[u] = pc[u] /\ pending'[u] = pending[u]
        /\ pc[t] = "flush" /\ pc'[t] = "add"
    BY <1>6, <1>t DEF FlushRow, Goto, TypeInv, TypeOK, database
  <2>2. copy \in Copies /\ copy.id \in Conversations /\ copy.row \in Rows
    BY <1>t, <2>1, CurrentType
  <2>3. copy.id \in Mentioned(request[t])
    BY <1>t, <2>1 DEF Mentioned, CopiesOf, Current, TypeInv
  <2>4. conversations[copy.id] \in {None, loaded[t]} /\ (loaded[t] = None \/ Below(loaded[t], copy.row))
    BY <1>t, <2>1 DEF EvidenceStands, EvidenceOf
  <2>5. /\ pending'[t][copy.id] = copy.row
        /\ \A c \in Conversations \ {copy.id} : pending'[t][c] = pending[t][c]
    BY <1>6, <1>t, FlushedRow
  <2>6. EvidenceOf(t)'
    BY <1>t, <2>1, <2>3, <2>4, <2>5 DEF EvidenceStands, EvidenceOf
  <2> QED
    BY <1>t, <2>1, <2>6, LocalStep
<1>7. ASSUME NEW t \in Ingests, AddChildren(t) PROVE EvidenceStands'
  <2>1. /\ conversations' = conversations /\ request' = request
        /\ loaded' = loaded /\ pending' = pending
        /\ \A u \in Ingests \ {t} : pc'[u] = pc[u] /\ pos'[u] = pos[u]
        /\ pc[t] = "add" /\ pc'[t] = "get"
    BY <1>7, <1>t DEF AddChildren, Goto, TypeInv, TypeOK, database
  <2>2. EvidenceOf(t)'
    BY <1>t, <2>1 DEF EvidenceStands, EvidenceOf
  <2> QED
    BY <1>t, <2>1, <2>2, LocalStep
<1>8. ASSUME NEW t \in Ingests, WriteGraph(t) PROVE EvidenceStands'
  <2>1. /\ conversations' = conversations /\ request' = request
        /\ pos' = pos /\ loaded' = loaded /\ pending' = pending
        /\ \A u \in Ingests \ {t} : pc'[u] = pc[u]
        /\ pc[t] = "graph" /\ pc'[t] = "commit"
    BY <1>8, <1>t DEF WriteGraph, Goto, TypeInv, TypeOK, database
  <2>2. EvidenceOf(t)'
    BY <1>t, <2>1 DEF EvidenceStands, EvidenceOf
  <2> QED
    BY <1>t, <2>1, <2>2, LocalStep
<1>9. ASSUME NEW t \in Ingests,
             \/ FlushConflict(t) \/ AddConflict(t) \/ ReceiptConflict(t)
             \/ FlushStale(t) \/ Fail(t)
      PROVE EvidenceStands'
  <2>1. EndTransaction(t) /\ request' = request /\ conversations' = conversations
    BY <1>9 DEF FlushConflict, AddConflict, ReceiptConflict,
                IntegrityError, FlushStale, Fail, database
  <2>2. \E step \in {"failed", "recheck"} : Goto(t, step)
    BY <1>9 DEF FlushConflict, AddConflict, ReceiptConflict,
                IntegrityError, FlushStale, Fail
  <2> QED
    BY <1>t, <2>1, <2>2, EndEvidence, LocalStep
<1>10. ASSUME NEW t \in Ingests, Commit(t) PROVE EvidenceStands'
  <2>1. EndTransaction(t) /\ Goto(t, "done") /\ request' = request /\ pc[t] = "commit"
    BY <1>10 DEF Commit
  <2>2. \A c \in Conversations :
          conversations'[c] = IF pending[t][c] = None THEN conversations[c] ELSE pending[t][c]
    BY <1>10 DEF Commit
  <2>3. /\ EvidenceOf(t)'
        /\ \A u \in Ingests \ {t} :
             /\ pc'[u] = pc[u] /\ pos'[u] = pos[u]
             /\ loaded'[u] = loaded[u] /\ pending'[u] = pending[u]
    BY <1>t, <2>1, EndEvidence
  <2>4. ASSUME NEW u \in Ingests \ {t} PROVE EvidenceOf(u)'
    <3>1. ASSUME NEW c \in Conversations, c \in Mentioned(request[u]), pc[u] \in Deciding
          PROVE conversations'[c] = conversations[c]
      <4>1. c \notin Mentioned(request[t])
        BY <1>t, <2>1, <3>1 DEF OneDecisionAtATime
      <4> QED
        BY <1>t, <2>2, <4>1 DEF EvidenceStands, EvidenceOf
    <3>2. pc[u] \in AtConversation => Current(u).id \in Conversations
      BY <1>t, CurrentType
    <3>3. pc[u] \in AtConversation => Current(u).id \in Mentioned(request[u])
      BY <1>t DEF Mentioned, CopiesOf, Current, TypeInv
    <3>4. Current(u)' = Current(u)
      BY <2>1, <2>3 DEF Current
    <3> QED
      BY <1>t, <2>1, <2>3, <3>1, <3>2, <3>3, <3>4 DEF EvidenceStands, EvidenceOf
  <2> QED
    BY <2>3, <2>4 DEF EvidenceStands
<1>11. ASSUME NEW C \in SUBSET Conversations, NEW E \in SUBSET graph,
              NEW R \in SUBSET Ingests, Retain(C, E, R)
       PROVE EvidenceStands'
  <2>1. /\ request' = request /\ pc' = pc /\ pos' = pos /\ loaded' = loaded
        /\ pending' = pending
        /\ \A c \in Conversations : conversations'[c] \in {None, conversations[c]}
    BY <1>11 DEF Retain
  <2>2. ASSUME NEW u \in Ingests PROVE EvidenceOf(u)'
    <3>1. pc[u] \in AtConversation => Current(u).id \in Conversations
      BY <1>t, CurrentType
    <3>2. Current(u)' = Current(u)
      BY <2>1 DEF Current
    <3> QED
      BY <1>t, <2>1, <3>1, <3>2 DEF EvidenceStands, EvidenceOf
  <2> QED
    BY <2>2 DEF EvidenceStands
<1>12. CASE UNCHANGED vars
  BY <1>12, <1>t DEF vars, database, EvidenceStands, EvidenceOf, Current
<1> QED
  BY <1>1, <1>2, <1>3, <1>4, <1>5, <1>6, <1>7, <1>8, <1>9, <1>10, <1>11, <1>12
     DEF EvidenceInv, Next, Step, Retention

(* At first no call has read anything. *)
LEMMA EvidenceInit == Init => EvidenceInv
BY LockInit DEF Init, EvidenceInv, EvidenceStands, EvidenceOf, NoPending, AtConversation

(* Whatever a call read is still true when it acts on it, and what it is about to
   commit outranks what it will replace. *)
THEOREM EvidenceStandsAlways == ScopesSerialize => (Spec => []EvidenceStands)
<1> SUFFICES ASSUME ScopesSerialize PROVE Spec => []EvidenceStands
  OBVIOUS
<1>1. EvidenceInv /\ [Next]_vars => EvidenceInv'
  BY EvidenceStep, LockStep, Apart DEF EvidenceInv
<1>2. EvidenceInv => EvidenceStands
  BY DEF EvidenceInv
<1> QED
  BY <1>1, <1>2, EvidenceInit, PTL DEF Spec

(* One step on standing evidence never lowers the rank of a stored copy. *)
LEMMA RankStep ==
  ASSUME EvidenceInv, [Next]_vars, NEW c \in Conversations,
         conversations[c] # None, conversations'[c] # None
  PROVE  ~Below(conversations'[c], conversations[c])
<1>t. TypeInv /\ EvidenceStands /\ conversations[c] \in Rows
  BY DEF EvidenceInv, LockInv, TypeInv, TypeOK
<1>0. ~Below(conversations[c], conversations[c])
  BY <1>t, BelowAsymmetric
<1>1. ASSUME NEW t \in Ingests, Commit(t) PROVE ~Below(conversations'[c], conversations[c])
  <2>1. conversations'[c] = IF pending[t][c] = None THEN conversations[c] ELSE pending[t][c]
    BY <1>1 DEF Commit
  <2>2. CASE pending[t][c] # None
    <3>1. pending[t][c] \in Rows /\ Below(conversations[c], pending[t][c])
      BY <1>t, <2>2 DEF TypeInv, TypeOK, EvidenceStands, EvidenceOf
    <3> QED
      BY <1>t, <2>1, <2>2, <3>1, BelowAsymmetric
  <2> QED
    BY <1>0, <2>1, <2>2
<1>2. ASSUME NEW C \in SUBSET Conversations, NEW E \in SUBSET graph,
             NEW R \in SUBSET Ingests, Retain(C, E, R)
      PROVE conversations'[c] = conversations[c]
  BY <1>2 DEF Retain
<1>3. ASSUME NEW t \in Ingests, Step(t), ~Commit(t) PROVE conversations' = conversations
  BY <1>3
     DEF Step, Call, Replay, LockScope, ScopesLocked, Get, StartClear, Clear, Merge,
         FlushRow, FlushConflict, FlushStale, AddChildren, AddConflict,
         ConversationsDone, WriteGraph, ReceiptConflict, Fail,
         IntegrityError, database
<1>4. CASE UNCHANGED vars
  BY <1>4, <1>0 DEF vars, database
<1> QED
  BY <1>0, <1>1, <1>2, <1>3, <1>4 DEF Next, Retention

(* No commit, of any number of concurrent calls and retentions, puts a copy of
   lower rank in place of the stored one. *)
THEOREM RankMonotone == ScopesSerialize => (Spec => RankNeverFalls)
<1> SUFFICES ASSUME ScopesSerialize PROVE Spec => RankNeverFalls
  OBVIOUS
<1>1. EvidenceInv /\ [Next]_vars => EvidenceInv'
  BY EvidenceStep, LockStep, Apart DEF EvidenceInv
<1>2. EvidenceInv /\ [Next]_vars => [KeepsRanks]_vars
  BY RankStep DEF KeepsRanks
<1> QED
  BY <1>1, <1>2, EvidenceInit, PTL DEF Spec, RankNeverFalls
-----------------------------------------------------------------------------
(* The receipt of a key names the only run of that key: a committed keyed run is
   always the one its receipt points to, retention included, since it deletes the
   two together. *)
ReceiptInv ==
  /\ TypeInv
  /\ \A t \in Ingests :
       runs[t] # None =>
         /\ pc[t] = "done"
         /\ request[t].key # None => receipts[request[t].key] = t

(* Every step keeps a key's receipt and its single run together. *)
LEMMA ReceiptStep == ReceiptInv /\ [Next]_vars => ReceiptInv'
<1> SUFFICES ASSUME ReceiptInv, [Next]_vars PROVE ReceiptInv'
  OBVIOUS
<1>t. TypeInv /\ TypeInv'
  BY TypeStep DEF ReceiptInv
<1>1. ASSUME NEW t \in Ingests, Commit(t) PROVE ReceiptInv'
  <2>1. /\ request' = request /\ pc[t] = "commit" /\ pc'[t] = "done"
        /\ \A u \in Ingests \ {t} : runs'[u] = runs[u] /\ pc'[u] = pc[u]
    BY <1>1, <1>t DEF Commit, Goto, TypeInv, TypeOK
  <2>2. request[t] \in Requests /\ request[t].key \in Keys \cup {None}
    BY <1>t, <2>1, RequestFields DEF TypeInv
  <2>3. CASE request[t].key = None
    BY <1>1, <1>t, <2>1, <2>3 DEF Commit, ReceiptInv
  <2>4. CASE request[t].key # None
    <3>1. /\ receipts[request[t].key] = None
          /\ receipts' = [receipts EXCEPT ![request[t].key] = t]
      BY <1>1, <2>4 DEF Commit, ReceiptFree
    <3>2. \A u \in Ingests \ {t} :
            runs[u] # None /\ request[u].key # None => request[u].key # request[t].key
      BY <3>1, NoneAssumption DEF ReceiptInv
    <3> QED
      BY <1>t, <2>1, <2>2, <2>4, <3>1, <3>2 DEF ReceiptInv, TypeInv, TypeOK
  <2> QED
    BY <2>3, <2>4
<1>2. ASSUME NEW C \in SUBSET Conversations, NEW E \in SUBSET graph,
             NEW R \in SUBSET Ingests, Retain(C, E, R)
      PROVE ReceiptInv'
  <2>1. ASSUME NEW t \in Ingests, runs'[t] # None
        PROVE runs[t] # None /\ t \notin R
    BY <1>2, <2>1 DEF Retain
  <2>2. ASSUME NEW t \in Ingests, runs'[t] # None, request[t].key # None
        PROVE receipts'[request[t].key] = t
    <3>1. request[t].key \in Keys
      BY <1>t, <2>1, <2>2, RequestFields DEF ReceiptInv, TypeInv
    <3> QED
      BY <1>2, <2>1, <2>2, <3>1 DEF Retain, ReceiptInv
  <2> QED
    BY <1>2, <1>t, <2>1, <2>2 DEF Retain, ReceiptInv
<1>3. ASSUME NEW t \in Ingests, Step(t), ~Commit(t) PROVE ReceiptInv'
  <2>1. /\ runs' = runs /\ receipts' = receipts
        /\ \A u \in Ingests \ {t} : pc'[u] = pc[u] /\ request'[u] = request[u]
        /\ pc[t] # "done"
    BY <1>3, <1>t
       DEF Step, Call, Replay, LockScope, ScopesLocked, Get, StartClear, Clear, Merge,
           FlushRow, FlushConflict, FlushStale, AddChildren, AddConflict,
           ConversationsDone, WriteGraph, ReceiptConflict, Fail,
           IntegrityError, database, Goto, TypeInv, TypeOK, InTransaction
  <2> QED
    BY <1>t, <2>1 DEF ReceiptInv
<1>4. CASE UNCHANGED vars
  BY <1>4, <1>t DEF vars, database, ReceiptInv
<1> QED
  BY <1>1, <1>2, <1>3, <1>4 DEF Next, Retention

(* A key is never ingested twice, whatever calls replay it and in whatever order
   they reach the receipt table; no scope assumption is needed. *)
THEOREM OneRunPerKeyAlways == Spec => []OneRunPerKey
<1>1. Init => ReceiptInv
  BY TypeInit DEF ReceiptInv, Init
<1>2. ReceiptInv => OneRunPerKey
  BY DEF ReceiptInv, OneRunPerKey
<1> QED
  BY <1>1, <1>2, ReceiptStep, PTL DEF Spec
-----------------------------------------------------------------------------
(* What the uncommitted writes of a call are.  The rows it removes are those of
   the conversations it cleared, all of them that are still stored; the row it
   pends for a conversation, and the child rows it adds to it, are those of the
   one copy it decided to take. *)
Flushed(t, i) == i < pos[t] \/ (i = pos[t] /\ pc[t] = "add")
Cleared(t) ==
  {c \in Conversations :
     pending[t][c] # None \/ (pc[t] \in {"merge", "flush", "add"} /\ c = Current(t).id)}
ComesFrom(t, c, i) ==
  LET copy == request[t].conversations[i]
  IN  /\ Flushed(t, i)
      /\ copy.id = c
      /\ copy.row = pending[t][c]
      /\ {ch \in work[t].added : ch.conversation = c} = IF i < pos[t] THEN ChildRows(copy) ELSE {}
ReplacementOf(t) ==
  /\ pc[t] \notin Deciding => work[t].removed = {} /\ work[t].added = {}
  /\ pc[t] = "clearing" =>
       /\ \A ch \in work[t].victims : ch.conversation = Current(t).id
       /\ \A ch \in children : ch.conversation = Current(t).id => ch \in work[t].victims
  /\ pc[t] = "add" => pending[t][Current(t).id] = Current(t).row
  /\ \A ch \in work[t].removed : ch.conversation \in Cleared(t)
  /\ \A ch \in children : ch.conversation \in Cleared(t) => ch \in work[t].removed
  /\ \A c \in Conversations :
       pending[t][c] # None => \E i \in 1..Len(request[t].conversations) : ComesFrom(t, c, i)
  /\ \A ch \in work[t].added : pending[t][ch.conversation] # None
Replacement == \A t \in Ingests : ReplacementOf(t)

(* The identifiers of a request are unique: two of its positions never hold one
   conversation (validate_snapshot). *)
LEMMA UniqueIds ==
  ASSUME NEW r \in Requests,
         NEW i \in 1..Len(r.conversations), NEW j \in 1..Len(r.conversations),
         r.conversations[i].id = r.conversations[j].id
  PROVE  i = j
BY RequestsAssumption DEF Valid

(* A call's evidence concerns conversations of its own request. *)
LEMMA CurrentMentioned ==
  ASSUME TypeInv, NEW t \in Ingests, pc[t] \in AtConversation
  PROVE  Current(t).id \in Mentioned(request[t])
BY DEF TypeInv, Mentioned, CopiesOf, Current

(* So do the conversations it has cleared, and only while it decides. *)
LEMMA ClearedMentioned ==
  ASSUME TypeInv, EvidenceStands, NEW t \in Ingests, NEW c \in Cleared(t)
  PROVE  /\ pc[t] \in Deciding
         /\ c \in Mentioned(request[t])
BY CurrentMentioned DEF Cleared, EvidenceStands, EvidenceOf, Deciding, AtConversation

(* A step of another call, or of retention, that stores no child row under a
   conversation this call is replacing leaves its replacement as it was. *)
LEMMA OtherReplacement ==
  ASSUME NEW u \in Ingests, ReplacementOf(u),
         pc'[u] = pc[u], pos'[u] = pos[u], request'[u] = request[u],
         pending'[u] = pending[u], work'[u] = work[u],
         \A ch \in children' :
           \/ ch \in children
           \/ /\ ch.conversation \notin Cleared(u)
              /\ pc[u] = "clearing" => ch.conversation # Current(u).id
  PROVE  ReplacementOf(u)'
<1>1. Current(u)' = Current(u) /\ Cleared(u)' = Cleared(u)
  BY DEF Current, Cleared
<1>2. ASSUME NEW c \in Conversations, NEW i \in 1..Len(request[u].conversations),
             ComesFrom(u, c, i)
      PROVE  ComesFrom(u, c, i)'
  BY <1>2 DEF ComesFrom, Flushed
<1> QED
  BY <1>1, <1>2 DEF ReplacementOf

(* A step of this call between two conversations, or before it clears the next
   one, keeps its uncommitted writes. *)
LEMMA SameReplacement ==
  ASSUME TypeInv, NEW t \in Ingests, ReplacementOf(t),
         pc[t] \notin {"merge", "flush", "add"},
         pc'[t] \notin {"clearing", "merge", "flush", "add"},
         pc[t] \in Deciding => pc'[t] \in Deciding,
         pos'[t] \in {pos[t], pos[t] + 1}, request'[t] = request[t],
         pending'[t] = pending[t], children' = children,
         work'[t].removed = work[t].removed, work'[t].added = work[t].added
  PROVE  ReplacementOf(t)'
<1>0. pos[t] \in Nat
  BY DEF TypeInv, TypeOK
<1>1. Cleared(t)' = Cleared(t)
  BY DEF Cleared
<1>2. ASSUME NEW c \in Conversations, NEW i \in 1..Len(request[t].conversations),
             ComesFrom(t, c, i)
      PROVE  ComesFrom(t, c, i)'
  BY <1>0, <1>2 DEF ComesFrom, Flushed
<1> QED
  BY <1>1, <1>2 DEF ReplacementOf

(* A call that leaves its transaction leaves no uncommitted write. *)
LEMMA EndReplacement ==
  ASSUME TypeInv, NEW t \in Ingests, EndTransaction(t), NEW step, Goto(t, step),
         step \notin AtConversation
  PROVE  /\ ReplacementOf(t)'
         /\ \A u \in Ingests \ {t} :
              /\ pc'[u] = pc[u] /\ pos'[u] = pos[u]
              /\ pending'[u] = pending[u] /\ work'[u] = work[u]
<1>1. /\ pending'[t] = NoPending /\ work'[t] = Fresh /\ pc'[t] = step
      /\ \A u \in Ingests \ {t} :
           /\ pc'[u] = pc[u] /\ pos'[u] = pos[u]
           /\ pending'[u] = pending[u] /\ work'[u] = work[u]
  BY DEF EndTransaction, Goto, TypeInv, TypeOK
<1>2. /\ \A c \in Conversations : pending'[t][c] = None
      /\ work'[t].removed = {} /\ work'[t].added = {}
  BY <1>1 DEF NoPending, Fresh
<1>3. ReplacementOf(t)'
  BY <1>1, <1>2 DEF ReplacementOf, Cleared, AtConversation
<1> QED
  BY <1>1, <1>3

ReplacementInv == EvidenceInv /\ Replacement

(* Every step keeps the uncommitted writes of all the calls what they are. *)
LEMMA ReplacementStep ==
  ASSUME OneDecisionAtATime, ReplacementInv, [Next]_vars
  PROVE  Replacement'
<1>t. /\ TypeInv /\ LockInv /\ OneDecisionAtATime /\ EvidenceStands
      /\ \A u \in Ingests : ReplacementOf(u)
  BY DEF ReplacementInv, Replacement, EvidenceInv, LockInv
<1>0. ASSUME NEW t \in Ingests, ReplacementOf(t)', children' = children,
             \A u \in Ingests \ {t} :
               /\ pc'[u] = pc[u] /\ pos'[u] = pos[u] /\ request'[u] = request[u]
               /\ pending'[u] = pending[u] /\ work'[u] = work[u]
      PROVE  Replacement'
  <2>1. ASSUME NEW u \in Ingests \ {t} PROVE ReplacementOf(u)'
    BY <1>t, <1>0, <2>1, OtherReplacement
  <2> QED
    BY <1>0, <2>1 DEF Replacement
<1>1. ASSUME NEW t \in Ingests, NEW r \in Requests, Call(t, r) PROVE Replacement'
  <2>1. /\ pc[t] = "idle" /\ pc'[t] \in {"failed", "replay", "lock"}
        /\ pending'[t] = pending[t] /\ work'[t] = work[t]
    BY <1>1, <1>t DEF Call, Goto, TypeInv, TypeOK
  <2>2. /\ \A c \in Conversations : pending[t][c] = None
        /\ work[t].removed = {} /\ work[t].added = {}
    BY <1>t, <2>1 DEF EvidenceStands, EvidenceOf, ReplacementOf, Deciding, AtConversation
  <2>3. ReplacementOf(t)'
    BY <2>1, <2>2 DEF ReplacementOf, Cleared
  <2> QED
    BY <1>0, <1>1, <1>t, <2>3 DEF Call, Goto, TypeInv, TypeOK, database
<1>2. ASSUME NEW t \in Ingests,
             Replay(t) \/ LockScope(t) \/ ScopesLocked(t) \/ ConversationsDone(t)
      PROVE Replacement'
  <2>1. /\ children' = children /\ request' = request /\ pos' = pos /\ pending' = pending
        /\ \A u \in Ingests \ {t} : pc'[u] = pc[u] /\ work'[u] = work[u]
        /\ pc[t] \in {"replay", "recheck", "lock", "get"}
        /\ pc'[t] \in {"done", "failed", "lock", "get", "graph"}
        /\ pc[t] \in Deciding => pc'[t] \in Deciding
    BY <1>2, <1>t
       DEF Replay, LockScope, ScopesLocked, ConversationsDone, Goto, TypeInv, TypeOK,
           Deciding, AtConversation, database
  <2>2. work'[t].removed = work[t].removed /\ work'[t].added = work[t].added
    <3>1. CASE LockScope(t)
      BY <1>t, <3>1 DEF LockScope, TypeInv, TypeOK, Work
    <3>2. CASE ~LockScope(t)
      BY <1>2, <3>2 DEF Replay, ScopesLocked, ConversationsDone
    <3> QED
      BY <3>1, <3>2
  <2>3. ReplacementOf(t)'
    BY <1>t, <2>1, <2>2, SameReplacement
  <2> QED
    BY <1>0, <2>1, <2>3
<1>3. ASSUME NEW t \in Ingests, Get(t) PROVE Replacement'
  <2>1. /\ children' = children /\ request' = request /\ pending' = pending
        /\ \A u \in Ingests \ {t} : pc'[u] = pc[u] /\ pos'[u] = pos[u] /\ work'[u] = work[u]
        /\ pc[t] = "get" /\ pc'[t] \in {"get", "clear"} /\ pos'[t] \in {pos[t], pos[t] + 1}
    BY <1>3, <1>t DEF Get, Goto, TypeInv, TypeOK, database
  <2>2. work'[t].removed = work[t].removed /\ work'[t].added = work[t].added
    BY <1>3, <1>t DEF Get, TypeInv, TypeOK, Work
  <2>3. ReplacementOf(t)'
    BY <1>t, <2>1, <2>2, SameReplacement DEF Deciding, AtConversation
  <2> QED
    BY <1>0, <2>1, <2>3
<1>4. ASSUME NEW t \in Ingests, WriteGraph(t) PROVE Replacement'
  <2>1. /\ children' = children /\ request' = request /\ pos' = pos /\ pending' = pending
        /\ \A u \in Ingests \ {t} : pc'[u] = pc[u] /\ work'[u] = work[u]
        /\ pc[t] = "graph" /\ pc'[t] = "commit"
    BY <1>4, <1>t DEF WriteGraph, Goto, TypeInv, TypeOK, database
  <2>2. work'[t].removed = work[t].removed /\ work'[t].added = work[t].added
    BY <1>4, <1>t DEF WriteGraph, TypeInv, TypeOK, Work
  <2>3. ReplacementOf(t)'
    BY <1>t, <2>1, <2>2, SameReplacement DEF Deciding, AtConversation
  <2> QED
    BY <1>0, <2>1, <2>3
<1>5. ASSUME NEW t \in Ingests, StartClear(t) PROVE Replacement'
  <2>1. /\ children' = children /\ request' = request /\ pos' = pos /\ pending' = pending
        /\ \A u \in Ingests \ {t} : pc'[u] = pc[u] /\ work'[u] = work[u]
        /\ pc[t] = "clear" /\ pc'[t] = "clearing"
    BY <1>5, <1>t DEF StartClear, Goto, TypeInv, TypeOK, database
  <2>2. /\ work'[t].removed = work[t].removed /\ work'[t].added = work[t].added
        /\ work'[t].victims = {ch \in children : ch.conversation = Current(t).id}
    BY <1>5, <1>t DEF StartClear, TypeInv, TypeOK, Work
  <2>3. Cleared(t)' = Cleared(t) /\ Current(t)' = Current(t)
    BY <2>1 DEF Cleared, Current
  <2>4. ASSUME NEW c \in Conversations, NEW i \in 1..Len(request[t].conversations),
               ComesFrom(t, c, i)
        PROVE  ComesFrom(t, c, i)'
    BY <2>1, <2>2, <2>4 DEF ComesFrom, Flushed
  <2>5. ReplacementOf(t)'
    BY <1>t, <2>1, <2>2, <2>3, <2>4 DEF ReplacementOf, Deciding, AtConversation
  <2> QED
    BY <1>0, <2>1, <2>5
<1>6. ASSUME NEW t \in Ingests, Clear(t) PROVE Replacement'
  <2>1. /\ children' = children /\ request' = request /\ pos' = pos /\ pending' = pending
        /\ \A u \in Ingests \ {t} : pc'[u] = pc[u] /\ work'[u] = work[u]
        /\ pc[t] = "clearing" /\ pc'[t] = "merge"
    BY <1>6, <1>t DEF Clear, Goto, TypeInv, TypeOK, database
  <2>2. /\ work'[t].removed = work[t].removed \cup (work[t].victims \cap children)
        /\ work'[t].added = work[t].added
    BY <1>6, <1>t DEF Clear, TypeInv, TypeOK, Work
  <2>3. Current(t)' = Current(t) /\ Current(t).id \in Conversations
    BY <1>t, <2>1, CurrentType DEF Current, AtConversation
  <2>4. Cleared(t)' = Cleared(t) \cup {Current(t).id}
    BY <2>1, <2>3 DEF Cleared
  <2>5. ASSUME NEW c \in Conversations, NEW i \in 1..Len(request[t].conversations),
               ComesFrom(t, c, i)
        PROVE  ComesFrom(t, c, i)'
    BY <2>1, <2>2, <2>5 DEF ComesFrom, Flushed
  <2>6. ReplacementOf(t)'
    BY <1>t, <2>1, <2>2, <2>3, <2>4, <2>5 DEF ReplacementOf, Deciding, AtConversation
  <2> QED
    BY <1>0, <2>1, <2>6
<1>7. ASSUME NEW t \in Ingests, Merge(t) PROVE Replacement'
  <2>1. /\ children' = children /\ request' = request /\ pos' = pos
        /\ pending' = pending /\ work' = work
        /\ \A u \in Ingests \ {t} : pc'[u] = pc[u]
        /\ pc[t] = "merge" /\ pc'[t] = "flush"
    BY <1>7, <1>t DEF Merge, Goto, TypeInv, TypeOK, database
  <2>2. Cleared(t)' = Cleared(t)
    BY <2>1 DEF Cleared, Current
  <2>3. ASSUME NEW c \in Conversations, NEW i \in 1..Len(request[t].conversations),
               ComesFrom(t, c, i)
        PROVE  ComesFrom(t, c, i)'
    BY <2>1, <2>3 DEF ComesFrom, Flushed
  <2>4. ReplacementOf(t)'
    BY <1>t, <2>1, <2>2, <2>3 DEF ReplacementOf, Deciding, AtConversation
  <2> QED
    BY <1>0, <2>1, <2>4
<1>8. ASSUME NEW t \in Ingests, FlushRow(t) PROVE Replacement'
  <2>1. /\ children' = children /\ request' = request /\ pos' = pos /\ work' = work
        /\ \A u \in Ingests \ {t} : pc'[u] = pc[u] /\ pending'[u] = pending[u]
        /\ pc[t] = "flush" /\ pc'[t] = "add"
    BY <1>8, <1>t DEF FlushRow, Goto, TypeInv, TypeOK, database
  <2>2. /\ request[t] \in Requests
        /\ pos[t] \in 1..Len(request[t].conversations)
        /\ Current(t).id \in Conversations
        /\ Current(t) = request[t].conversations[pos[t]]
        /\ Current(t)' = Current(t)
    BY <1>t, <2>1, CurrentType DEF Current, AtConversation, TypeInv
  <2>3. /\ pending'[t][Current(t).id] = Current(t).row
        /\ \A c \in Conversations \ {Current(t).id} : pending'[t][c] = pending[t][c]
    BY <1>8, <1>t, FlushedRow
  <2>4. pending[t][Current(t).id] = None
    <3> SUFFICES ASSUME pending[t][Current(t).id] # None PROVE FALSE
      OBVIOUS
    <3>1. PICK i \in 1..Len(request[t].conversations) : ComesFrom(t, Current(t).id, i)
      BY <1>t, <2>2 DEF ReplacementOf
    <3>2. i < pos[t] /\ request[t].conversations[i].id = Current(t).id
      BY <2>1, <3>1 DEF ComesFrom, Flushed
    <3> QED
      BY <2>2, <3>2, UniqueIds
  <2>5. \A ch \in work[t].added : ch.conversation # Current(t).id
    BY <1>t, <2>4 DEF ReplacementOf
  <2>6. Current(t).row # None
    BY <1>t, <2>1, CurrentType, NoneAssumption DEF AtConversation
  <2>7. Cleared(t)' = Cleared(t)
    BY <2>1, <2>2, <2>3, <2>4, <2>6 DEF Cleared
  <2>8. ASSUME NEW c \in Conversations, pending'[t][c] # None
        PROVE  \E i \in 1..Len(request[t].conversations) : ComesFrom(t, c, i)'
    <3>1. CASE c = Current(t).id
      <4>1. {ch \in work[t].added : ch.conversation = c} = {}
        BY <2>5, <3>1
      <4>2. request'[t].conversations[pos[t]].id = c
        BY <2>1, <2>2, <3>1
      <4>3. pending'[t][c] = request'[t].conversations[pos[t]].row
        BY <2>1, <2>2, <2>3, <3>1
      <4>4. Flushed(t, pos[t])'
        BY <2>1, <2>2 DEF Flushed
      <4>5. {ch \in work'[t].added : ch.conversation = c} = {} /\ pos'[t] = pos[t]
        BY <2>1, <4>1
      <4>6. ~(pos'[t] < pos'[t])
        BY <2>2, <4>5
      <4>7. ComesFrom(t, c, pos[t])'
        BY <4>2, <4>3, <4>4, <4>5, <4>6 DEF ComesFrom
      <4> QED
        BY <2>1, <2>2, <4>7
    <3>2. CASE c # Current(t).id
      <4>1. PICK i \in 1..Len(request[t].conversations) : ComesFrom(t, c, i)
        BY <1>t, <2>3, <2>8, <3>2 DEF ReplacementOf
      <4>2. ComesFrom(t, c, i)'
        BY <2>1, <2>3, <3>2, <4>1 DEF ComesFrom, Flushed
      <4> QED
        BY <2>1, <4>2
    <3> QED
      BY <3>1, <3>2
  <2>9. \A ch \in work[t].added : pending'[t][ch.conversation] # None
    <3>1. \A ch \in work[t].added : ch.conversation \in Conversations
      BY <1>t DEF TypeInv, TypeOK, Work, ChildRow
    <3> QED
      BY <1>t, <2>3, <2>5, <3>1 DEF ReplacementOf
  <2>10. ReplacementOf(t)'
    BY <1>t, <2>1, <2>2, <2>3, <2>7, <2>8, <2>9 DEF ReplacementOf, Deciding, AtConversation
  <2> QED
    BY <1>0, <2>1, <2>10
<1>9. ASSUME NEW t \in Ingests, AddChildren(t) PROVE Replacement'
  <2>1. /\ children' = children /\ request' = request /\ pending' = pending
        /\ pos' = [pos EXCEPT ![t] = @ + 1]
        /\ \A u \in Ingests \ {t} : pc'[u] = pc[u] /\ work'[u] = work[u]
        /\ pc[t] = "add" /\ pc'[t] = "get"
    BY <1>9, <1>t DEF AddChildren, Goto, TypeInv, TypeOK, database
  <2>2. /\ work'[t].removed = work[t].removed
        /\ work'[t].added = work[t].added \cup ChildRows(Current(t))
    BY <1>9, <1>t DEF AddChildren, TypeInv, TypeOK, Work
  <2>3. /\ request[t] \in Requests
        /\ pos[t] \in 1..Len(request[t].conversations)
        /\ Current(t) = request[t].conversations[pos[t]]
        /\ Current(t).id \in Conversations
        /\ Current(t).row # None
        /\ pos'[t] = pos[t] + 1
    BY <1>t, <2>1, CurrentType, NoneAssumption DEF Current, AtConversation, TypeInv, TypeOK
  <2>4. pending[t][Current(t).id] = Current(t).row
    BY <1>t, <2>1 DEF ReplacementOf
  <2>5. Cleared(t)' = Cleared(t)
    BY <2>1, <2>3, <2>4 DEF Cleared
  <2>6. \A ch \in ChildRows(Current(t)) : ch.conversation = Current(t).id
    BY DEF ChildRows
  <2>7. ASSUME NEW c \in Conversations, pending[t][c] # None
        PROVE  \E i \in 1..Len(request[t].conversations) : ComesFrom(t, c, i)'
    <3>1. PICK i \in 1..Len(request[t].conversations) : ComesFrom(t, c, i)
      BY <1>t, <2>7 DEF ReplacementOf
    <3>2. CASE i < pos[t]
      <4>1. c # Current(t).id
        BY <2>3, <3>1, <3>2, UniqueIds DEF ComesFrom
      <4>2. {ch \in work'[t].added : ch.conversation = c}
              = {ch \in work[t].added : ch.conversation = c}
        BY <2>2, <2>6, <4>1
      <4>3. ComesFrom(t, c, i)'
        BY <2>1, <2>3, <3>1, <3>2, <4>2 DEF ComesFrom, Flushed
      <4> QED
        BY <4>3
    <3>3. CASE ~(i < pos[t])
      <4>1. i = pos[t] /\ c = Current(t).id
        BY <2>3, <3>1, <3>3 DEF ComesFrom, Flushed
      <4>2. {ch \in work[t].added : ch.conversation = c} = {}
        BY <3>1, <3>3 DEF ComesFrom
      <4>3. {ch \in work'[t].added : ch.conversation = c} = ChildRows(Current(t))
        BY <2>2, <2>6, <4>1, <4>2
      <4>4. i < pos'[t] /\ Flushed(t, i)'
        BY <2>3, <4>1 DEF Flushed
      <4>5. request'[t].conversations[i].id = c /\ pending'[t][c] = request'[t].conversations[i].row
        BY <2>1, <2>3, <3>1 DEF ComesFrom
      <4>6. ChildRows(Current(t)) = ChildRows(request'[t].conversations[i])
        BY <2>1, <2>3, <4>1
      <4>7. ComesFrom(t, c, i)'
        BY <4>3, <4>4, <4>5, <4>6 DEF ComesFrom
      <4> QED
        BY <4>7
    <3> QED
      BY <3>2, <3>3
  <2>8. \A ch \in work'[t].added : pending[t][ch.conversation] # None
    BY <1>t, <2>2, <2>3, <2>4, <2>6 DEF ReplacementOf
  <2>9. ReplacementOf(t)'
    BY <1>t, <2>1, <2>2, <2>5, <2>7, <2>8 DEF ReplacementOf, Deciding, AtConversation
  <2> QED
    BY <1>0, <2>1, <2>9
<1>10. ASSUME NEW t \in Ingests,
              \/ FlushConflict(t) \/ AddConflict(t) \/ ReceiptConflict(t)
              \/ FlushStale(t) \/ Fail(t)
       PROVE Replacement'
  <2>1. EndTransaction(t) /\ request' = request /\ children' = children
    BY <1>10 DEF FlushConflict, AddConflict, ReceiptConflict,
                 IntegrityError, FlushStale, Fail, database
  <2>2. \E step \in {"failed", "recheck"} : Goto(t, step)
    BY <1>10 DEF FlushConflict, AddConflict, ReceiptConflict,
                 IntegrityError, FlushStale, Fail
  <2> QED
    BY <1>0, <1>t, <2>1, <2>2, EndReplacement DEF AtConversation
<1>11. ASSUME NEW t \in Ingests, Commit(t) PROVE Replacement'
  <2>1. EndTransaction(t) /\ Goto(t, "done") /\ request' = request /\ pc[t] = "commit"
    BY <1>11 DEF Commit
  <2>2. children' \subseteq children \cup work[t].added
    BY <1>11 DEF Commit, CommittedChildren
  <2>3. /\ ReplacementOf(t)'
        /\ \A u \in Ingests \ {t} :
             /\ pc'[u] = pc[u] /\ pos'[u] = pos[u]
             /\ pending'[u] = pending[u] /\ work'[u] = work[u]
    BY <1>t, <2>1, EndReplacement DEF AtConversation
  <2>4. \A ch \in work[t].added : ch.conversation \in Mentioned(request[t])
    BY <1>t DEF ReplacementOf, EvidenceStands, EvidenceOf, TypeInv, TypeOK, Work, ChildRow
  <2>5. ASSUME NEW u \in Ingests \ {t} PROVE ReplacementOf(u)'
    <3>1. \A c \in Cleared(u) : c \notin Mentioned(request[t])
      BY <1>t, <2>1, ClearedMentioned DEF OneDecisionAtATime, Deciding
    <3>2. pc[u] = "clearing" => Current(u).id \notin Mentioned(request[t])
      BY <1>t, <2>1, CurrentMentioned DEF OneDecisionAtATime, Deciding, AtConversation
    <3>3. \A ch \in children' :
            \/ ch \in children
            \/ /\ ch.conversation \notin Cleared(u)
               /\ pc[u] = "clearing" => ch.conversation # Current(u).id
      BY <2>2, <2>4, <3>1, <3>2
    <3> QED
      BY <1>t, <2>1, <2>3, <3>3, OtherReplacement
  <2> QED
    BY <2>3, <2>5 DEF Replacement
<1>12. ASSUME NEW C \in SUBSET Conversations, NEW E \in SUBSET graph,
              NEW R \in SUBSET Ingests, Retain(C, E, R)
       PROVE Replacement'
  <2>1. children' \subseteq children
    BY <1>12 DEF Retain, RetainedChildren
  <2> QED
    BY <1>12, <1>t, <2>1, OtherReplacement DEF Retain, Replacement
<1>13. CASE UNCHANGED vars
  BY <1>13, <1>t, OtherReplacement DEF vars, database, Replacement
<1> QED
  BY <1>1, <1>2, <1>3, <1>4, <1>5, <1>6, <1>7, <1>8, <1>9, <1>10, <1>11, <1>12, <1>13
     DEF Next, Step, Retention

WholeInv == ReplacementInv /\ WholeCopies

(* A commit stores, for each conversation it takes, the row and all the child rows
   of one copy, and leaves those of the others alone; retention deletes them
   together. *)
LEMMA WholeStep ==
  ASSUME WholeInv, [Next]_vars
  PROVE  WholeCopies'
<1>t. /\ TypeInv /\ EvidenceStands /\ WholeCopies
      /\ \A u \in Ingests : ReplacementOf(u)
  BY DEF WholeInv, ReplacementInv, Replacement, EvidenceInv, LockInv
<1> DEFINE Children(c) == {ch \in children : ch.conversation = c}
           WholeCopy(c, row, stored) ==
             IF row = None THEN stored = {}
             ELSE \E r \in Requests : \E copy \in CopiesOf(r) :
                    copy.id = c /\ copy.row = row /\ stored = ChildRows(copy)
<1>0. \A c \in Conversations : WholeCopy(c, conversations[c], Children(c))
  BY <1>t DEF WholeCopies
<1>1. ASSUME NEW t \in Ingests, Commit(t) PROVE WholeCopies'
  <2>1. pc[t] = "commit" /\ request[t] \in Requests
    BY <1>1, <1>t DEF Commit, TypeInv
  <2>2. /\ \A c \in Conversations :
             conversations'[c] = IF pending[t][c] = None THEN conversations[c] ELSE pending[t][c]
        /\ children' = (children \ work[t].removed) \cup work[t].added
    BY <1>1 DEF Commit, CommittedChildren
  <2>3. \A c \in Conversations : c \in Cleared(t) <=> pending[t][c] # None
    BY <2>1 DEF Cleared
  <2>4. ASSUME NEW c \in Conversations
        PROVE  WholeCopy(c, conversations'[c], {ch \in children' : ch.conversation = c})
    <3>1. CASE pending[t][c] = None
      <4>1. {ch \in children' : ch.conversation = c} = Children(c)
        BY <1>t, <2>2, <2>3, <3>1 DEF ReplacementOf
      <4> QED
        BY <1>0, <2>2, <3>1, <4>1
    <3>2. CASE pending[t][c] # None
      <4>1. PICK i \in 1..Len(request[t].conversations) : ComesFrom(t, c, i)
        BY <1>t, <3>2 DEF ReplacementOf
      <4> DEFINE copy == request[t].conversations[i]
      <4>2. /\ copy.id = c /\ copy.row = pending[t][c]
            /\ {ch \in work[t].added : ch.conversation = c} = ChildRows(copy)
        BY <2>1, <4>1 DEF ComesFrom, Flushed
      <4>3. {ch \in children' : ch.conversation = c} = ChildRows(copy)
        BY <1>t, <2>2, <2>3, <3>2, <4>2 DEF ReplacementOf
      <4>4. copy \in CopiesOf(request[t])
        BY DEF CopiesOf
      <4> QED
        BY <2>1, <2>2, <3>2, <4>2, <4>3, <4>4
    <3> QED
      BY <3>1, <3>2
  <2> QED
    BY <2>4 DEF WholeCopies
<1>2. ASSUME NEW C \in SUBSET Conversations, NEW E \in SUBSET graph,
             NEW R \in SUBSET Ingests, Retain(C, E, R)
      PROVE WholeCopies'
  <2>1. /\ \A c \in Conversations : conversations'[c] = IF c \in C THEN None ELSE conversations[c]
        /\ children' = {ch \in children : ch.conversation \notin C}
    BY <1>2 DEF Retain, RetainedChildren
  <2>2. ASSUME NEW c \in Conversations
        PROVE  WholeCopy(c, conversations'[c], {ch \in children' : ch.conversation = c})
    <3>1. {ch \in children' : ch.conversation = c} = IF c \in C THEN {} ELSE Children(c)
      BY <2>1
    <3> QED
      BY <1>0, <2>1, <3>1
  <2> QED
    BY <2>2 DEF WholeCopies
<1>3. ASSUME NEW t \in Ingests, Step(t), ~Commit(t) PROVE WholeCopies'
  <2>1. conversations' = conversations /\ children' = children
    BY <1>3
       DEF Step, Call, Replay, LockScope, ScopesLocked, Get, StartClear, Clear, Merge,
           FlushRow, FlushConflict, FlushStale, AddChildren, AddConflict,
           ConversationsDone, WriteGraph, ReceiptConflict, Fail,
           IntegrityError, database
  <2> QED
    BY <1>t, <2>1 DEF WholeCopies
<1>4. CASE UNCHANGED vars
  BY <1>4, <1>t DEF vars, database, WholeCopies
<1> QED
  BY <1>1, <1>2, <1>3, <1>4 DEF Next, Retention

(* At first no call has written anything and nothing is stored. *)
LEMMA WholeInit == Init => WholeInv
<1> SUFFICES ASSUME Init PROVE WholeInv
  OBVIOUS
<1>1. ASSUME NEW t \in Ingests PROVE ReplacementOf(t)
  BY DEF Init, ReplacementOf, Cleared, NoPending, Fresh
<1>2. WholeCopies
  BY DEF Init, WholeCopies
<1> QED
  BY <1>1, <1>2, EvidenceInit DEF WholeInv, ReplacementInv, Replacement

(* The stored row and the stored child rows of a conversation are always those of
   one collected copy, whole, also next to retention: the statements of two calls,
   or of a call and a retention, never mix. *)
THEOREM WholeAlways == ScopesSerialize => (Spec => []WholeCopies)
<1> SUFFICES ASSUME ScopesSerialize PROVE Spec => []WholeCopies
  OBVIOUS
<1>1. WholeInv /\ [Next]_vars => WholeInv'
  BY WholeStep, ReplacementStep, EvidenceStep, LockStep, Apart
     DEF WholeInv, ReplacementInv, EvidenceInv
<1>2. WholeInv => WholeCopies
  BY DEF WholeInv
<1> QED
  BY <1>1, <1>2, WholeInit, PTL DEF Spec
-----------------------------------------------------------------------------
(* What a call has decided, as the store would decide it in one step on what is
   stored now: it pends the rows of the copies the store takes and of no other,
   and counts and marks the copies as the store does. *)
TakenBy(copy) == ~Store!Stored(copy) \/ Store!Richer(copy)
Decided(t) ==
  {request[t].conversations[i] : i \in {j \in 1..Len(request[t].conversations) : j < pos[t]}}
Considered(t) == Decided(t) \cup (IF pc[t] \in AtConversation THEN {Current(t)} ELSE {})
DecisionOf(t) ==
  /\ pc[t] \in Deciding =>
       /\ pos[t] <= Len(request[t].conversations) + 1
       /\ pc[t] \in {"graph", "commit"} => pos[t] > Len(request[t].conversations)
       /\ \A copy \in Decided(t) :
            pending[t][copy.id] = IF TakenBy(copy) THEN copy.row ELSE None
       /\ work[t].stale = Store!MachinesOf({copy \in Considered(t) : Store!Stale(copy)})
       /\ work[t].richer = Store!MachinesOf({copy \in Considered(t) : Store!Richer(copy)})
       /\ work[t].written = Cardinality({copy \in Decided(t) : TakenBy(copy)})
       /\ work[t].skipped = pos[t] - 1 - work[t].written
  /\ pc[t] \notin Deciding =>
       /\ pos[t] = 1
       /\ work[t].stale = {} /\ work[t].richer = {}
       /\ work[t].written = 0 /\ work[t].skipped = 0
Decisions == \A t \in Ingests : DecisionOf(t)

(* The copies a call has considered are copies of its request. *)
LEMMA ConsideredCopies ==
  ASSUME TypeInv, NEW t \in Ingests, pc[t] \in Deciding, NEW copy \in Considered(t)
  PROVE  /\ copy \in CopiesOf(request[t])
         /\ copy.id \in Mentioned(request[t])
         /\ copy \in Copies
<1>1. request[t] \in Requests
  BY DEF TypeInv, Deciding, AtConversation
<1>2. copy \in CopiesOf(request[t])
  BY DEF Considered, Decided, CopiesOf, Current, TypeInv
<1>3. copy \in Copies
  BY <1>1, <1>2, RequestFields DEF CopiesOf
<1> QED
  BY <1>2, <1>3 DEF Mentioned

(* The copy a call is replacing is one the store takes. *)
LEMMA CurrentTaken ==
  ASSUME TypeInv, EvidenceStands, NEW t \in Ingests, ReplacementOf(t), pc[t] \in AtConversation
  PROVE  TakenBy(Current(t)) /\ ~Store!Stale(Current(t))
<1>1. Current(t).id \in Conversations /\ Current(t).row \in Rows /\ Current(t).row # None
  BY CurrentType, NoneAssumption
<1>2. conversations[Current(t).id] \in Rows \cup {None}
  BY <1>1 DEF TypeInv, TypeOK
<1>3. \/ conversations[Current(t).id] = None
      \/ Below(conversations[Current(t).id], Current(t).row)
  <2>1. CASE pc[t] = "add"
    BY <1>1, <2>1 DEF ReplacementOf, EvidenceStands, EvidenceOf
  <2>2. CASE pc[t] # "add"
    BY <2>2 DEF EvidenceStands, EvidenceOf
  <2> QED
    BY <2>1, <2>2
<1> QED
  BY <1>1, <1>2, <1>3, BelowAsymmetric
     DEF TakenBy, Store!Stored, Store!Richer, Store!Stale, Store!Below, Below

(* The next conversation joins the decided ones, to which it did not belong. *)
LEMMA NextDecided ==
  ASSUME TypeInv, NEW t \in Ingests, request[t] \in Requests,
         pos[t] \in 1..Len(request[t].conversations),
         pos'[t] = pos[t] + 1, request'[t] = request[t]
  PROVE  /\ Decided(t)' = Decided(t) \cup {Current(t)}
         /\ \A copy \in Decided(t) : copy.id # Current(t).id
<1>1. Len(request[t].conversations) \in Nat
  BY RequestFields
<1>2. \A j \in 1..Len(request[t].conversations) : j < pos[t] + 1 <=> j < pos[t] \/ j = pos[t]
  BY <1>1
<1>3. Decided(t)' = Decided(t) \cup {Current(t)}
  BY <1>2 DEF Decided, Current
<1>4. \A copy \in Decided(t) : copy.id # Current(t).id
  <2> SUFFICES ASSUME NEW j \in 1..Len(request[t].conversations), j < pos[t]
               PROVE  request[t].conversations[j].id # Current(t).id
    BY DEF Decided
  <2> QED
    BY UniqueIds DEF Current
<1> QED
  BY <1>3, <1>4

(* A call has decided finitely many copies. *)
LEMMA DecidedFinite ==
  ASSUME TypeInv, NEW t \in Ingests, request[t] \in Requests
  PROVE  IsFiniteSet(Decided(t))
<1>1. Len(request[t].conversations) \in Nat
  BY RequestFields
<1> DEFINE I == {j \in 1..Len(request[t].conversations) : j < pos[t]}
           copyAt == [j \in I |-> request[t].conversations[j]]
<1>2. IsFiniteSet(I)
  <2>1. IsFiniteSet(1..Len(request[t].conversations))
    BY <1>1, FS_Interval
  <2> QED
    BY <2>1, FS_Subset
<1>3. copyAt \in Surjection(I, Decided(t))
  BY DEF Decided, Surjection
<1> QED
  BY <1>2, <1>3, FS_Surjection

(* A step of another call that stores nothing under a conversation this call
   mentions leaves its decision as it was. *)
LEMMA OtherDecision ==
  ASSUME TypeInv, NEW u \in Ingests, DecisionOf(u),
         pc'[u] = pc[u], pos'[u] = pos[u], request'[u] = request[u],
         pending'[u] = pending[u], work'[u] = work[u],
         pc[u] \in Deciding =>
           \A c \in Mentioned(request[u]) : conversations'[c] = conversations[c]
  PROVE  DecisionOf(u)'
<1>1. CASE pc[u] \notin Deciding
  BY <1>1 DEF DecisionOf
<1>2. CASE pc[u] \in Deciding
  <2>1. Decided(u)' = Decided(u) /\ Considered(u)' = Considered(u)
    BY DEF Decided, Considered, Current
  <2>2. \A copy \in Considered(u) : conversations'[copy.id] = conversations[copy.id]
    BY <1>2, ConsideredCopies
  <2>3. \A copy \in Considered(u) :
          /\ Store!Stale(copy)' = Store!Stale(copy)
          /\ Store!Richer(copy)' = Store!Richer(copy)
          /\ TakenBy(copy)' = TakenBy(copy)
    BY <2>2 DEF TakenBy, Store!Stale, Store!Richer, Store!Stored, Store!Below
  <2>4. /\ {copy \in Considered(u) : Store!Stale(copy)}' = {copy \in Considered(u) : Store!Stale(copy)}
        /\ {copy \in Considered(u) : Store!Richer(copy)}' = {copy \in Considered(u) : Store!Richer(copy)}
        /\ {copy \in Decided(u) : TakenBy(copy)}' = {copy \in Decided(u) : TakenBy(copy)}
    BY <2>1, <2>3 DEF Considered
  <2>5. \A copy \in Decided(u) : TakenBy(copy)' = TakenBy(copy)
    BY <2>3 DEF Considered
  <2> QED
    BY <1>2, <2>1, <2>4, <2>5 DEF DecisionOf, Store!MachinesOf
<1> QED
  BY <1>1, <1>2

(* A step of this call that considers no other copy and counts nothing keeps its
   decision. *)
LEMMA SameDecision ==
  ASSUME TypeInv, NEW t \in Ingests, DecisionOf(t), conversations' = conversations,
         pc[t] \in Deciding, pc'[t] \in Deciding \ {"graph", "commit"},
         pc[t] \in AtConversation <=> pc'[t] \in AtConversation,
         pos'[t] = pos[t], request'[t] = request[t],
         \A copy \in Decided(t) : pending'[t][copy.id] = pending[t][copy.id],
         work'[t].stale = work[t].stale, work'[t].richer = work[t].richer,
         work'[t].written = work[t].written, work'[t].skipped = work[t].skipped
  PROVE  DecisionOf(t)'
<1>1. Decided(t)' = Decided(t) /\ Considered(t)' = Considered(t)
  BY DEF Decided, Considered, Current
<1>2. \A copy : /\ Store!Stale(copy)' = Store!Stale(copy)
                /\ Store!Richer(copy)' = Store!Richer(copy)
                /\ TakenBy(copy)' = TakenBy(copy)
  BY DEF TakenBy, Store!Stale, Store!Richer, Store!Stored, Store!Below
<1>3. /\ {copy \in Considered(t) : Store!Stale(copy)}' = {copy \in Considered(t) : Store!Stale(copy)}
      /\ {copy \in Considered(t) : Store!Richer(copy)}' = {copy \in Considered(t) : Store!Richer(copy)}
      /\ {copy \in Decided(t) : TakenBy(copy)}' = {copy \in Decided(t) : TakenBy(copy)}
  BY <1>1, <1>2
<1> QED
  BY <1>1, <1>2, <1>3 DEF DecisionOf, Store!MachinesOf

(* A call outside its transaction has decided nothing. *)
LEMMA EndDecision ==
  ASSUME TypeInv, NEW t \in Ingests, EndTransaction(t), NEW step, Goto(t, step),
         step \notin Deciding
  PROVE  /\ DecisionOf(t)'
         /\ \A u \in Ingests \ {t} :
              /\ pc'[u] = pc[u] /\ pos'[u] = pos[u]
              /\ pending'[u] = pending[u] /\ work'[u] = work[u]
<1>1. /\ work'[t] = Fresh /\ pc'[t] = step /\ pos'[t] = 1
      /\ \A u \in Ingests \ {t} :
           /\ pc'[u] = pc[u] /\ pos'[u] = pos[u]
           /\ pending'[u] = pending[u] /\ work'[u] = work[u]
  BY DEF EndTransaction, Goto, TypeInv, TypeOK
<1>2. DecisionOf(t)'
  BY <1>1 DEF DecisionOf, Fresh
<1> QED
  BY <1>1, <1>2

(* session.get considers one more copy and decides it as the store would: the row
   it reads is the one stored now. *)
LEMMA GetDecision ==
  ASSUME TypeInv, Replacement, NEW t \in Ingests, DecisionOf(t), Get(t)
  PROVE  DecisionOf(t)'
<1> USE DEF AtConversation, Deciding
<1> DEFINE copy == Current(t)
           existing == conversations[copy.id]
           m == copy.row.source_machine
           skip == Skipped(existing, copy)
<1>1. /\ pc[t] = "get" /\ request' = request /\ pending' = pending
      /\ conversations' = conversations
      /\ request[t] \in Requests
      /\ pos[t] \in 1..Len(request[t].conversations)
      /\ Len(request[t].conversations) \in Nat
  BY RequestFields DEF Get, TypeInv, TypeOK, database
<1>2. /\ copy \in Copies /\ copy.id \in Conversations /\ copy.row \in Rows
      /\ copy = request[t].conversations[pos[t]]
  BY <1>1, RequestFields DEF Current, Copies
<1>3. existing \in Rows \cup {None}
  BY <1>2 DEF TypeInv, TypeOK
<1>4. /\ pos'[t] = IF skip THEN pos[t] + 1 ELSE pos[t]
      /\ pc'[t] = IF skip THEN "get" ELSE "clear"
  BY DEF Get, Goto, TypeInv, TypeOK
<1>5. /\ skip <=> ~TakenBy(copy)
      /\ (existing # None /\ Below(copy.row, existing)) <=> Store!Stale(copy)
      /\ (existing # None /\ Below(existing, copy.row)) <=> Store!Richer(copy)
  BY DEF Skipped, TakenBy, Store!Stale, Store!Richer, Store!Stored, Store!Below, Below
<1>6. /\ work'[t].stale = IF Store!Stale(copy) THEN work[t].stale \cup {m} ELSE work[t].stale
      /\ work'[t].richer = IF Store!Richer(copy) THEN work[t].richer \cup {m} ELSE work[t].richer
      /\ work'[t].written = work[t].written
      /\ work'[t].skipped = IF skip THEN work[t].skipped + 1 ELSE work[t].skipped
      /\ work[t].written \in Nat /\ work[t].skipped \in Nat
  BY <1>5 DEF Get, TypeInv, TypeOK, Work
<1>7. pending[t][copy.id] = None
  <2> SUFFICES ASSUME pending[t][copy.id] # None PROVE FALSE
    OBVIOUS
  <2>1. PICK i \in 1..Len(request[t].conversations) : ComesFrom(t, copy.id, i)
    BY <1>2 DEF Replacement, ReplacementOf
  <2>2. i < pos[t] /\ request[t].conversations[i].id = copy.id
    BY <1>1, <2>1 DEF ComesFrom, Flushed
  <2> QED
    BY <1>1, <1>2, <2>2, UniqueIds
<1>8. \A x : /\ Store!Stale(x)' = Store!Stale(x)
             /\ Store!Richer(x)' = Store!Richer(x)
             /\ TakenBy(x)' = TakenBy(x)
  BY <1>1 DEF TakenBy, Store!Stale, Store!Richer, Store!Stored, Store!Below
<1>9. Considered(t)' = Considered(t) \cup {copy} /\ Considered(t) = Decided(t)
  <2>1. CASE skip
    BY <1>1, <1>4, <2>1, NextDecided DEF Considered
  <2>2. CASE ~skip
    <3>1. Decided(t)' = Decided(t) /\ Current(t)' = Current(t)
      BY <1>1, <1>4, <2>2 DEF Decided, Current
    <3> QED
      BY <1>1, <1>4, <2>2, <3>1 DEF Considered
  <2> QED
    BY <2>1, <2>2
<1>10. /\ work'[t].stale = Store!MachinesOf({x \in Considered(t) : Store!Stale(x)}')
       /\ work'[t].richer = Store!MachinesOf({x \in Considered(t) : Store!Richer(x)}')
  <2>1. /\ {x \in Considered(t) : Store!Stale(x)}'
             = {x \in Considered(t) : Store!Stale(x)} \cup (IF Store!Stale(copy) THEN {copy} ELSE {})
        /\ {x \in Considered(t) : Store!Richer(x)}'
             = {x \in Considered(t) : Store!Richer(x)} \cup (IF Store!Richer(copy) THEN {copy} ELSE {})
    BY <1>8, <1>9
  <2>2. /\ work[t].stale = Store!MachinesOf({x \in Considered(t) : Store!Stale(x)})
        /\ work[t].richer = Store!MachinesOf({x \in Considered(t) : Store!Richer(x)})
    BY <1>1 DEF DecisionOf
  <2> QED
    BY <1>6, <2>1, <2>2 DEF Store!MachinesOf
<1>11. /\ \A x \in Decided(t)' :
             pending[t][x.id] = IF TakenBy(x) THEN x.row ELSE None
       /\ {x \in Decided(t) : TakenBy(x)}' = {x \in Decided(t) : TakenBy(x)}
  <2>1. CASE skip
    <3>1. Decided(t)' = Decided(t) \cup {copy}
      BY <1>1, <1>4, <2>1, NextDecided
    <3> QED
      BY <1>1, <1>5, <1>7, <1>8, <2>1, <3>1 DEF DecisionOf
  <2>2. CASE ~skip
    <3>1. Decided(t)' = Decided(t)
      BY <1>1, <1>4, <2>2 DEF Decided
    <3> QED
      BY <1>1, <1>8, <3>1 DEF DecisionOf
  <2> QED
    BY <2>1, <2>2
<1>12. /\ work[t].written = Cardinality({x \in Decided(t) : TakenBy(x)})
       /\ work[t].skipped = pos[t] - 1 - work[t].written
  BY <1>1 DEF DecisionOf
<1>13. work'[t].written = Cardinality({x \in Decided(t) : TakenBy(x)}')
  BY <1>6, <1>11, <1>12
<1>14. work'[t].skipped = pos'[t] - 1 - work'[t].written
  <2> HIDE DEF skip
  <2> QED
    BY <1>1, <1>4, <1>6, <1>12
<1> QED
  BY <1>1, <1>4, <1>8, <1>10, <1>11, <1>13, <1>14 DEF DecisionOf

(* AddChildren completes the decision of the current copy, which the store takes. *)
LEMMA AddDecision ==
  ASSUME TypeInv, EvidenceStands, Replacement, NEW t \in Ingests, DecisionOf(t), AddChildren(t)
  PROVE  DecisionOf(t)'
<1> USE DEF AtConversation, Deciding
<1> DEFINE copy == Current(t)
<1>1. /\ pc[t] = "add" /\ pc'[t] = "get" /\ pos'[t] = pos[t] + 1
      /\ request' = request /\ pending' = pending /\ conversations' = conversations
      /\ request[t] \in Requests
      /\ pos[t] \in 1..Len(request[t].conversations)
      /\ Len(request[t].conversations) \in Nat
  BY RequestFields DEF AddChildren, Goto, TypeInv, TypeOK, database
<1>2. /\ work'[t].stale = work[t].stale /\ work'[t].richer = work[t].richer
      /\ work'[t].written = work[t].written + 1 /\ work'[t].skipped = work[t].skipped
      /\ work[t].written \in Nat /\ work[t].skipped \in Nat
  BY DEF AddChildren, TypeInv, TypeOK, Work
<1>3. TakenBy(copy) /\ pending[t][copy.id] = copy.row
  BY <1>1, CurrentTaken DEF Replacement, ReplacementOf
<1>4. Decided(t)' = Decided(t) \cup {copy} /\ copy \notin Decided(t)
  BY <1>1, NextDecided
<1>5. Considered(t)' = Considered(t)
  BY <1>1, <1>4 DEF Considered
<1>6. \A x : /\ Store!Stale(x)' = Store!Stale(x)
             /\ Store!Richer(x)' = Store!Richer(x)
             /\ TakenBy(x)' = TakenBy(x)
  BY <1>1 DEF TakenBy, Store!Stale, Store!Richer, Store!Stored, Store!Below
<1>7. /\ {x \in Considered(t) : Store!Stale(x)}' = {x \in Considered(t) : Store!Stale(x)}
      /\ {x \in Considered(t) : Store!Richer(x)}' = {x \in Considered(t) : Store!Richer(x)}
      /\ {x \in Decided(t) : TakenBy(x)}' = {x \in Decided(t) : TakenBy(x)} \cup {copy}
  BY <1>3, <1>4, <1>5, <1>6
<1>8. Cardinality({x \in Decided(t) : TakenBy(x)} \cup {copy})
        = Cardinality({x \in Decided(t) : TakenBy(x)}) + 1
  <2>1. IsFiniteSet({x \in Decided(t) : TakenBy(x)})
    BY <1>1, DecidedFinite, FS_Subset
  <2> QED
    BY <1>4, <2>1, FS_AddElement
<1>9. \A x \in Decided(t)' : pending[t][x.id] = IF TakenBy(x) THEN x.row ELSE None
  BY <1>1, <1>3, <1>4 DEF DecisionOf
<1>10. /\ work[t].written = Cardinality({x \in Decided(t) : TakenBy(x)})
       /\ work[t].skipped = pos[t] - 1 - work[t].written
       /\ work[t].stale = Store!MachinesOf({x \in Considered(t) : Store!Stale(x)})
       /\ work[t].richer = Store!MachinesOf({x \in Considered(t) : Store!Richer(x)})
  BY <1>1 DEF DecisionOf
<1>11. work'[t].written = Cardinality({x \in Decided(t) : TakenBy(x)}')
  BY <1>2, <1>7, <1>8, <1>10
<1>12. work'[t].skipped = pos'[t] - 1 - work'[t].written
  BY <1>1, <1>2, <1>10
<1>13. /\ work'[t].stale = Store!MachinesOf({x \in Considered(t) : Store!Stale(x)}')
       /\ work'[t].richer = Store!MachinesOf({x \in Considered(t) : Store!Richer(x)}')
  BY <1>2, <1>7, <1>10
<1>14. \A x \in Decided(t)' : pending'[t][x.id] = IF TakenBy(x)' THEN x.row ELSE None
  BY <1>1, <1>6, <1>9
<1>15. pos'[t] <= Len(request'[t].conversations) + 1
  BY <1>1
<1> QED
  BY <1>1, <1>11, <1>12, <1>13, <1>14, <1>15 DEF DecisionOf, Store!MachinesOf

(* A commit stores rows under the conversations its request mentions, no other. *)
LEMMA CommitElsewhere ==
  ASSUME TypeInv, EvidenceStands, NEW t \in Ingests, Commit(t),
         NEW u \in Ingests, request[u] \in Requests,
         NEW c \in Mentioned(request[u]), c \notin Mentioned(request[t])
  PROVE  conversations'[c] = conversations[c]
<1>1. c \in Conversations
  BY RequestFields DEF Mentioned, CopiesOf, Copies
<1> QED
  BY <1>1 DEF Commit, EvidenceStands, EvidenceOf

(* The writers' steps are steps of the specification with retention. *)
WriterNext == \E t \in Ingests : Step(t)
DecisionInv == ReplacementInv /\ Decisions

(* Every step of a writer keeps every call's decision the store's: a commit stores
   only what its own call mentions. *)
LEMMA DecisionStep ==
  ASSUME OneDecisionAtATime, DecisionInv, [WriterNext]_vars
  PROVE  Decisions'
<1>t. /\ TypeInv /\ LockInv /\ OneDecisionAtATime /\ EvidenceStands /\ Replacement
      /\ \A u \in Ingests : DecisionOf(u)
  BY DEF DecisionInv, Decisions, ReplacementInv, EvidenceInv, LockInv
<1>0. ASSUME NEW t \in Ingests, DecisionOf(t)', conversations' = conversations,
             \A u \in Ingests \ {t} :
               /\ pc'[u] = pc[u] /\ pos'[u] = pos[u] /\ request'[u] = request[u]
               /\ pending'[u] = pending[u] /\ work'[u] = work[u]
      PROVE  Decisions'
  <2>1. ASSUME NEW u \in Ingests \ {t} PROVE DecisionOf(u)'
    BY <1>t, <1>0, <2>1, OtherDecision
  <2> QED
    BY <1>0, <2>1 DEF Decisions
<1>1. ASSUME NEW t \in Ingests, (\E r \in Requests : Call(t, r)) \/ Replay(t) \/ LockScope(t)
      PROVE Decisions'
  <2>1. /\ conversations' = conversations /\ pos' = pos /\ pending' = pending
        /\ \A u \in Ingests \ {t} : pc'[u] = pc[u] /\ work'[u] = work[u] /\ request'[u] = request[u]
        /\ pc[t] \notin Deciding /\ pc'[t] \notin Deciding
    <3>1. CASE \E r \in Requests : Call(t, r)
      <4>1. PICK r \in Requests : Call(t, r)
        BY <3>1
      <4>2. pc[t] = "idle" /\ pc'[t] \in {"failed", "replay", "lock"}
        BY <1>t, <4>1 DEF Call, Goto, TypeInv, TypeOK
      <4> QED
        BY <1>t, <4>1, <4>2
           DEF Call, Goto, TypeInv, TypeOK, Deciding, AtConversation, database
    <3>2. CASE Replay(t) \/ LockScope(t)
      BY <1>t, <3>2
         DEF Replay, LockScope, Goto, TypeInv, TypeOK, Deciding, AtConversation, database
    <3> QED
      BY <1>1, <3>1, <3>2
  <2>2. /\ work'[t].stale = work[t].stale /\ work'[t].richer = work[t].richer
        /\ work'[t].written = work[t].written /\ work'[t].skipped = work[t].skipped
    <3>1. CASE LockScope(t)
      BY <1>t, <3>1 DEF LockScope, TypeInv, TypeOK, Work
    <3>2. CASE ~LockScope(t)
      BY <1>1, <3>2 DEF Call, Replay
    <3> QED
      BY <3>1, <3>2
  <2>3. DecisionOf(t)'
    BY <1>t, <2>1, <2>2 DEF DecisionOf
  <2> QED
    BY <1>0, <2>1, <2>3
<1>2. ASSUME NEW t \in Ingests, ScopesLocked(t) PROVE Decisions'
  <2>1. /\ conversations' = conversations /\ pos' = pos /\ pending' = pending
        /\ work' = work /\ request' = request
        /\ \A u \in Ingests \ {t} : pc'[u] = pc[u]
        /\ pc[t] = "lock" /\ pc'[t] = "get" /\ request[t] \in Requests
    BY <1>2, <1>t DEF ScopesLocked, Goto, TypeInv, TypeOK, database
  <2>2. pos[t] = 1 /\ Len(request[t].conversations) \in Nat
    <3>1. pos[t] = 1
      BY <1>t, <2>1 DEF DecisionOf, Deciding, AtConversation
    <3>2. Len(request[t].conversations) \in Nat
      BY <2>1, RequestFields
    <3> QED
      BY <3>1, <3>2
  <2>3. Decided(t)' = {} /\ Considered(t)' = {}
    BY <2>1, <2>2 DEF Decided, Considered, AtConversation
  <2>4. /\ {x \in Considered(t) : Store!Stale(x)}' = {}
        /\ {x \in Considered(t) : Store!Richer(x)}' = {}
        /\ {x \in Decided(t) : TakenBy(x)}' = {}
    BY <2>3
  <2>5. /\ work[t].stale = {} /\ work[t].richer = {}
        /\ work[t].written = 0 /\ work[t].skipped = 0
    BY <1>t, <2>1 DEF DecisionOf, Deciding, AtConversation
  <2>6. DecisionOf(t)'
    BY <2>1, <2>2, <2>3, <2>4, <2>5, FS_EmptySet
       DEF DecisionOf, Deciding, AtConversation, Store!MachinesOf
  <2> QED
    BY <1>0, <2>1, <2>6
<1>3. ASSUME NEW t \in Ingests, Get(t) PROVE Decisions'
  <2>1. /\ conversations' = conversations /\ request' = request /\ pending' = pending
        /\ \A u \in Ingests \ {t} : pc'[u] = pc[u] /\ pos'[u] = pos[u] /\ work'[u] = work[u]
    BY <1>3, <1>t DEF Get, Goto, TypeInv, TypeOK, database
  <2> QED
    BY <1>0, <1>3, <1>t, <2>1, GetDecision
<1>4. ASSUME NEW t \in Ingests, StartClear(t) \/ Clear(t) \/ Merge(t) \/ FlushRow(t)
      PROVE Decisions'
  <2>1. /\ conversations' = conversations /\ request' = request /\ pos' = pos
        /\ \A u \in Ingests \ {t} :
             pc'[u] = pc[u] /\ work'[u] = work[u] /\ pending'[u] = pending[u]
        /\ pc[t] \in AtConversation /\ pc'[t] \in AtConversation
    BY <1>4, <1>t
       DEF StartClear, Clear, Merge, FlushRow, Goto, TypeInv, TypeOK, AtConversation, database
  <2>2. /\ work'[t].stale = work[t].stale /\ work'[t].richer = work[t].richer
        /\ work'[t].written = work[t].written /\ work'[t].skipped = work[t].skipped
    BY <1>4, <1>t DEF StartClear, Clear, Merge, FlushRow, TypeInv, TypeOK, Work
  <2>3. \A copy \in Decided(t) : pending'[t][copy.id] = pending[t][copy.id]
    <3>1. CASE FlushRow(t)
      <4>1. \A copy \in Decided(t) : copy.id # Current(t).id
        <5>1. \A j \in 1..Len(request[t].conversations) :
                j < pos[t] => request[t].conversations[j].id # Current(t).id
          BY <1>t, <2>1, UniqueIds DEF Current, TypeInv, AtConversation
        <5> QED
          BY <5>1 DEF Decided
      <4>2. \A copy \in Decided(t) : copy.id \in Conversations
        BY <1>t, <2>1, ConsideredCopies DEF Considered, Deciding, Copies
      <4> QED
        BY <1>t, <3>1, <4>1, <4>2, FlushedRow
    <3>2. CASE ~FlushRow(t)
      BY <1>4, <3>2 DEF StartClear, Clear, Merge
    <3> QED
      BY <3>1, <3>2
  <2>4. DecisionOf(t)'
    BY <1>t, <2>1, <2>2, <2>3, SameDecision DEF Deciding, AtConversation
  <2> QED
    BY <1>0, <2>1, <2>4
<1>5. ASSUME NEW t \in Ingests, AddChildren(t) PROVE Decisions'
  <2>1. /\ conversations' = conversations /\ request' = request /\ pending' = pending
        /\ \A u \in Ingests \ {t} : pc'[u] = pc[u] /\ pos'[u] = pos[u] /\ work'[u] = work[u]
    BY <1>5, <1>t DEF AddChildren, Goto, TypeInv, TypeOK, database
  <2> QED
    BY <1>0, <1>5, <1>t, <2>1, AddDecision
<1>6. ASSUME NEW t \in Ingests, ConversationsDone(t) \/ WriteGraph(t) PROVE Decisions'
  <2>1. /\ conversations' = conversations /\ request' = request /\ pos' = pos
        /\ pending' = pending
        /\ \A u \in Ingests \ {t} : pc'[u] = pc[u] /\ work'[u] = work[u]
        /\ pc[t] \in {"get", "graph"} /\ pc'[t] \in {"graph", "commit"}
        /\ pos[t] > Len(request[t].conversations)
    BY <1>6, <1>t
       DEF ConversationsDone, WriteGraph, Goto, TypeInv, TypeOK, DecisionOf,
           Deciding, AtConversation, database
  <2>2. /\ work'[t].stale = work[t].stale /\ work'[t].richer = work[t].richer
        /\ work'[t].written = work[t].written /\ work'[t].skipped = work[t].skipped
    BY <1>6, <1>t DEF ConversationsDone, WriteGraph, TypeInv, TypeOK, Work
  <2>3. Decided(t)' = Decided(t) /\ Considered(t)' = Considered(t)
    BY <2>1 DEF Decided, Considered, Current, AtConversation
  <2>4. \A x : /\ Store!Stale(x)' = Store!Stale(x)
               /\ Store!Richer(x)' = Store!Richer(x)
               /\ TakenBy(x)' = TakenBy(x)
    BY <2>1 DEF TakenBy, Store!Stale, Store!Richer, Store!Stored, Store!Below
  <2>5. /\ {x \in Considered(t) : Store!Stale(x)}' = {x \in Considered(t) : Store!Stale(x)}
        /\ {x \in Considered(t) : Store!Richer(x)}' = {x \in Considered(t) : Store!Richer(x)}
        /\ {x \in Decided(t) : TakenBy(x)}' = {x \in Decided(t) : TakenBy(x)}
    BY <2>3, <2>4
  <2>6. /\ pc[t] \in Deciding /\ pc'[t] \in Deciding
        /\ pos[t] <= Len(request[t].conversations) + 1
        /\ \A copy \in Decided(t) :
             pending[t][copy.id] = IF TakenBy(copy) THEN copy.row ELSE None
        /\ work[t].stale = Store!MachinesOf({x \in Considered(t) : Store!Stale(x)})
        /\ work[t].richer = Store!MachinesOf({x \in Considered(t) : Store!Richer(x)})
        /\ work[t].written = Cardinality({x \in Decided(t) : TakenBy(x)})
        /\ work[t].skipped = pos[t] - 1 - work[t].written
    BY <1>t, <2>1 DEF DecisionOf, Deciding, AtConversation
  <2>7. \A copy \in Decided(t)' :
          pending'[t][copy.id] = IF TakenBy(copy)' THEN copy.row ELSE None
    BY <2>1, <2>3, <2>4, <2>6
  <2>8. DecisionOf(t)'
    BY <2>1, <2>2, <2>5, <2>6, <2>7 DEF DecisionOf, Store!MachinesOf
  <2> QED
    BY <1>0, <2>1, <2>8
<1>7. ASSUME NEW t \in Ingests,
             \/ FlushConflict(t) \/ AddConflict(t) \/ ReceiptConflict(t)
             \/ FlushStale(t) \/ Fail(t)
       PROVE Decisions'
  <2>1. EndTransaction(t) /\ request' = request /\ conversations' = conversations
    BY <1>7 DEF FlushConflict, AddConflict, ReceiptConflict,
                IntegrityError, FlushStale, Fail, database
  <2>2. \E step \in {"failed", "recheck"} : Goto(t, step)
    BY <1>7 DEF FlushConflict, AddConflict, ReceiptConflict,
                IntegrityError, FlushStale, Fail
  <2> QED
    BY <1>0, <1>t, <2>1, <2>2, EndDecision DEF Deciding, AtConversation
<1>8. ASSUME NEW t \in Ingests, Commit(t) PROVE Decisions'
  <2>1. EndTransaction(t) /\ Goto(t, "done") /\ request' = request /\ pc[t] = "commit"
    BY <1>8 DEF Commit
  <2>2. /\ DecisionOf(t)'
        /\ \A u \in Ingests \ {t} :
             /\ pc'[u] = pc[u] /\ pos'[u] = pos[u]
             /\ pending'[u] = pending[u] /\ work'[u] = work[u]
    BY <1>t, <2>1, EndDecision DEF Deciding, AtConversation
  <2>3. ASSUME NEW u \in Ingests \ {t} PROVE DecisionOf(u)'
    <3>1. ASSUME pc[u] \in Deciding, NEW c \in Mentioned(request[u])
          PROVE  conversations'[c] = conversations[c]
      <4>1. c \notin Mentioned(request[t]) /\ request[u] \in Requests
        BY <1>t, <2>1, <3>1 DEF OneDecisionAtATime, Deciding, TypeInv, AtConversation
      <4> QED
        BY <1>8, <1>t, <3>1, <4>1, CommitElsewhere
    <3> QED
      BY <1>t, <2>1, <2>2, <3>1, OtherDecision
  <2> QED
    BY <2>2, <2>3 DEF Decisions
<1>9. CASE UNCHANGED vars
  BY <1>9, <1>t, OtherDecision DEF vars, database, Decisions
<1> QED
  BY <1>1, <1>2, <1>3, <1>4, <1>5, <1>6, <1>7, <1>8, <1>9 DEF WriterNext, Step

(* At first nothing is decided. *)
LEMMA DecisionInit == Init => DecisionInv
<1> SUFFICES ASSUME Init PROVE DecisionInv
  OBVIOUS
<1>1. ASSUME NEW t \in Ingests PROVE DecisionOf(t)
  BY DEF Init, DecisionOf, Fresh, Deciding, AtConversation
<1> QED
  BY <1>1, WholeInit DEF DecisionInv, Decisions, WholeInv

(* The invariants of retention's specification are the writers' too. *)
LEMMA DecisionInvStep ==
  ASSUME OneDecisionAtATime, DecisionInv, [WriterNext]_vars
  PROVE  DecisionInv'
<1>1. [WriterNext]_vars => [Next]_vars
  BY DEF WriterNext, Next
<1> QED
  BY <1>1, DecisionStep, ReplacementStep, EvidenceStep, LockStep
     DEF DecisionInv, ReplacementInv, EvidenceInv
-----------------------------------------------------------------------------
(* No rank is below itself, and what is not below a row that is not below another
   is not below that one either. *)
LEMMA BelowNever ==
  ASSUME NEW a \in Rows
  PROVE  /\ ~Below(a, a)
         /\ \A b, c \in Rows : ~Below(a, b) /\ ~Below(b, c) => ~Below(a, c)
BY DEF Below, Rows

(* What an answer is worth: a stored receipt names a run of its key, an answer
   names a run of the caller's key, and every copy of a run's snapshot, or a better
   one, is stored. *)
Outranked(copy) ==
  conversations[copy.id] # None /\ ~Below(conversations[copy.id], copy.row)
AnswerOf(t) ==
  /\ runs[t] # None =>
       pc[t] = "done" /\ \A copy \in CopiesOf(request[t]) : Outranked(copy)
  /\ answer[t] # None =>
       /\ pc[t] = "done"
       /\ runs[answer[t]] # None
       /\ request[answer[t]].key = request[t].key
ReceiptOf(k) ==
  receipts[k] # None => runs[receipts[k]] # None /\ request[receipts[k]].key = k
Answers == (\A t \in Ingests : AnswerOf(t)) /\ (\A k \in Keys : ReceiptOf(k))
AnswerInv == DecisionInv /\ Answers

(* The copies of a request have their types. *)
LEMMA CopyTypes ==
  ASSUME NEW r \in Requests, NEW copy \in CopiesOf(r)
  PROVE  copy.id \in Conversations /\ copy.row \in Rows /\ copy.row # None
BY RequestFields, NoneAssumption DEF CopiesOf, Copies

(* A call that commits has decided all of its copies. *)
LEMMA AllDecided ==
  ASSUME TypeInv, NEW t \in Ingests, DecisionOf(t), pc[t] \in {"graph", "commit"}
  PROVE  Decided(t) = CopiesOf(request[t]) /\ Considered(t) = CopiesOf(request[t])
<1>1. request[t] \in Requests
  BY DEF TypeInv
<1>2. Len(request[t].conversations) \in Nat /\ pos[t] \in Nat
  BY <1>1, RequestFields DEF TypeInv, TypeOK
<1>3. pos[t] > Len(request[t].conversations)
  BY DEF DecisionOf, Deciding, AtConversation
<1> QED
  BY <1>2, <1>3 DEF Decided, Considered, CopiesOf, AtConversation

(* What a commit acknowledges it stores, or has found outranked. *)
LEMMA CommitStores ==
  ASSUME TypeInv, NEW t \in Ingests, DecisionOf(t), Commit(t),
         NEW copy \in CopiesOf(request[t])
  PROVE  Outranked(copy)'
<1>1. pc[t] = "commit" /\ request[t] \in Requests
  BY DEF Commit, TypeInv
<1>2. copy.id \in Conversations /\ copy.row \in Rows /\ copy.row # None
  BY <1>1, CopyTypes
<1>3. pending[t][copy.id] = IF TakenBy(copy) THEN copy.row ELSE None
  BY <1>1, AllDecided DEF DecisionOf, Deciding
<1>4. conversations'[copy.id] = IF TakenBy(copy) THEN copy.row ELSE conversations[copy.id]
  BY <1>2, <1>3 DEF Commit
<1>5. CASE TakenBy(copy)
  BY <1>2, <1>4, <1>5, BelowNever DEF Outranked
<1>6. CASE ~TakenBy(copy)
  BY <1>4, <1>6 DEF Outranked, TakenBy, Store!Stored, Store!Richer, Store!Below, Below
<1> QED
  BY <1>5, <1>6

(* Every step of a writer keeps the answers true. *)
LEMMA AnswerStep ==
  ASSUME AnswerInv, [WriterNext]_vars
  PROVE  Answers'
<1>t. /\ TypeInv /\ EvidenceInv /\ [Next]_vars
      /\ \A t \in Ingests : DecisionOf(t) /\ AnswerOf(t)
      /\ \A k \in Keys : ReceiptOf(k)
  BY DEF AnswerInv, Answers, DecisionInv, Decisions, ReplacementInv, EvidenceInv, LockInv,
         WriterNext, Next
<1>1. ASSUME NEW t \in Ingests, Commit(t) PROVE Answers'
  <2>1. /\ request' = request /\ pc[t] = "commit" /\ pc'[t] = "done"
        /\ request[t] \in Requests /\ request[t].key \in Keys \cup {None}
        /\ \A u \in Ingests \ {t} :
             runs'[u] = runs[u] /\ pc'[u] = pc[u] /\ answer'[u] = answer[u]
        /\ answer'[t] = t
    BY <1>1, <1>t, RequestFields DEF Commit, Goto, TypeInv, TypeOK
  <2>2. runs[t] = None /\ runs'[t] # None
    <3>1. runs'[t] = [received |-> Len(request[t].conversations),
                      written |-> work[t].written, skipped |-> work[t].skipped]
      BY <1>1, <1>t DEF Commit, TypeInv, TypeOK
    <3>2. Len(request[t].conversations) \in Nat /\ work[t] \in Work
      BY <1>t, <2>1, RequestFields DEF TypeInv, TypeOK
    <3>3. runs'[t] \in [received : Nat, written : Nat, skipped : Nat]
      BY <3>1, <3>2 DEF Work
    <3> QED
      BY <1>t, <2>1, <3>3, NoneAssumption DEF AnswerOf
  <2>3. ASSUME NEW u \in Ingests \ {t}, runs[u] # None, NEW copy \in CopiesOf(request[u])
        PROVE  Outranked(copy)'
    <3>1. request[u] \in Requests /\ Outranked(copy)
      BY <1>t, <2>3 DEF AnswerOf, TypeInv
    <3>2. copy.id \in Conversations /\ copy.row \in Rows
      BY <3>1, CopyTypes
    <3>3. /\ conversations[copy.id] \in Rows
          /\ conversations'[copy.id] # None
          /\ conversations'[copy.id] \in Rows
      BY <1>1, <1>t, <3>1, <3>2 DEF Commit, Outranked, TypeInv, TypeOK
    <3>4. ~Below(conversations'[copy.id], conversations[copy.id])
      BY <1>t, <3>1, <3>2, <3>3, RankStep DEF Outranked
    <3> QED
      BY <3>1, <3>2, <3>3, <3>4, BelowNever DEF Outranked
  <2>4. ASSUME NEW u \in Ingests PROVE AnswerOf(u)'
    <3>1. CASE u = t
      BY <1>1, <1>t, <2>1, <2>2, <3>1, CommitStores DEF AnswerOf
    <3>2. CASE u # t
      <4>1. answer[u] # None => answer[u] \in Ingests \ {t}
        BY <1>t, <2>2 DEF AnswerOf, TypeInv, TypeOK
      <4> QED
        BY <1>t, <2>1, <2>3, <3>2, <4>1 DEF AnswerOf
    <3> QED
      BY <3>1, <3>2
  <2>5. ASSUME NEW k \in Keys PROVE ReceiptOf(k)'
    <3>1. CASE request[t].key = k
      <4>1. receipts'[k] = t
        BY <1>1, <1>t, <3>1, NoneAssumption DEF Commit, TypeInv, TypeOK
      <4> QED
        BY <2>1, <2>2, <3>1, <4>1 DEF ReceiptOf
    <3>2. CASE request[t].key # k
      <4>1. receipts'[k] = receipts[k]
        BY <1>1, <1>t, <3>2 DEF Commit, TypeInv, TypeOK
      <4>2. receipts[k] # None => receipts[k] \in Ingests \ {t}
        BY <1>t, <2>2 DEF ReceiptOf, TypeInv, TypeOK
      <4> QED
        BY <1>t, <2>1, <4>1, <4>2 DEF ReceiptOf
    <3> QED
      BY <3>1, <3>2
  <2> QED
    BY <2>4, <2>5 DEF Answers
<1>2. ASSUME NEW t \in Ingests, Replay(t) PROVE Answers'
  <2>1. /\ request' = request /\ runs' = runs /\ receipts' = receipts
        /\ conversations' = conversations
        /\ pc[t] \in {"replay", "recheck"} /\ request[t] \in Requests
        /\ request[t].key \in Keys
        /\ \A u \in Ingests \ {t} : pc'[u] = pc[u] /\ answer'[u] = answer[u]
        /\ answer'[t] = receipts[request[t].key]
        /\ receipts[request[t].key] # None => pc'[t] = "done"
    BY <1>2, <1>t, RequestFields DEF Replay, Goto, TypeInv, TypeOK, database
  <2>2. AnswerOf(t)'
    BY <1>t, <2>1 DEF AnswerOf, ReceiptOf, Outranked
  <2>3. ASSUME NEW u \in Ingests \ {t} PROVE AnswerOf(u)'
    BY <1>t, <2>1 DEF AnswerOf, Outranked
  <2> QED
    BY <1>t, <2>1, <2>2, <2>3 DEF Answers, ReceiptOf
<1>3. ASSUME NEW t \in Ingests, Step(t), ~Commit(t), ~Replay(t) PROVE Answers'
  <2>1. /\ runs' = runs /\ receipts' = receipts /\ answer' = answer
        /\ conversations' = conversations
        /\ \A u \in Ingests \ {t} : pc'[u] = pc[u] /\ request'[u] = request[u]
        /\ pc[t] # "done"
    BY <1>3, <1>t
       DEF Step, Call, LockScope, ScopesLocked, Get, StartClear, Clear, Merge,
           FlushRow, FlushConflict, FlushStale, AddChildren, AddConflict,
           ConversationsDone, WriteGraph, ReceiptConflict, Fail,
           IntegrityError, database, Goto, TypeInv, TypeOK, InTransaction
  <2>2. \A u \in Ingests : runs[u] # None => u # t
    BY <1>t, <2>1 DEF AnswerOf
  <2>3. ASSUME NEW u \in Ingests PROVE AnswerOf(u)'
    <3>1. answer[u] # None => u # t /\ answer[u] \in Ingests \ {t}
      BY <1>t, <2>1, <2>2 DEF AnswerOf, TypeInv, TypeOK
    <3>2. runs[u] # None => u # t
      BY <2>2
    <3> QED
      BY <1>t, <2>1, <3>1, <3>2 DEF AnswerOf, Outranked, CopiesOf
  <2>4. ASSUME NEW k \in Keys PROVE ReceiptOf(k)'
    <3>1. receipts[k] # None => receipts[k] \in Ingests \ {t}
      BY <1>t, <2>2 DEF ReceiptOf, TypeInv, TypeOK
    <3> QED
      BY <1>t, <2>1, <3>1 DEF ReceiptOf
  <2> QED
    BY <2>3, <2>4 DEF Answers
<1>4. CASE UNCHANGED vars
  BY <1>4, <1>t DEF vars, database, Answers, AnswerOf, ReceiptOf, Outranked
<1> QED
  BY <1>1, <1>2, <1>3, <1>4 DEF WriterNext

(* An answer is a promise: while nothing retains, every copy of the answered
   snapshot, or a better one, stays in the store, also when the answer is the
   replay of another call's run. *)
THEOREM AcknowledgedAlways == ScopesSerialize => (WriterSpec => []AcknowledgedIsStored)
<1> SUFFICES ASSUME ScopesSerialize PROVE WriterSpec => []AcknowledgedIsStored
  OBVIOUS
<1>1. Init => AnswerInv
  BY DecisionInit DEF AnswerInv, Answers, AnswerOf, ReceiptOf, Init
<1>2. AnswerInv /\ [WriterNext]_vars => AnswerInv'
  BY AnswerStep, DecisionInvStep, Apart
     DEF AnswerInv, DecisionInv, ReplacementInv, EvidenceInv
<1>3. AnswerInv => AcknowledgedIsStored
  BY DEF AnswerInv, Answers, AnswerOf, Outranked, AcknowledgedIsStored, DecisionInv,
         ReplacementInv, EvidenceInv, LockInv, TypeInv, TypeOK
<1> QED
  BY <1>1, <1>2, <1>3, PTL DEF WriterSpec, WriterNext
-----------------------------------------------------------------------------
(* The graph, for callers that pass no merge batch and for those that pass nothing
   else. *)
PlainCalls == \A r \in Requests : ~r.merge
OnlyBatches == \A t \in Ingests : request[t] # None => request[t].merge

(* The scopes a call creates are those it has locked and found missing; only
   batches mark children; what its graph statements removed and inserted is what
   they would now: edges of the scopes it replaces, which it has locked, or next to
   the children it wrote. *)
ScopeOf(t) ==
  /\ ~(pc[t] \in Deciding /\ request[t].merge) => work[t].wrote = {} /\ work[t].kept = {}
  /\ pc[t] \in Deciding \cup {"lock"} =>
       /\ work[t].created = {m \in LockedScopes(request[t]) : ScopeLock(m) \in held[t]} \ scopes
       /\ work[t].richer \subseteq {copy.row.source_machine : copy \in CopiesOf(request[t])}
  /\ pc[t] \notin Deciding \cup {"lock"} =>
       held[t] = {} /\ work[t].created = {} /\ work[t].richer = {}
  /\ pc[t] = "commit" =>
       /\ EdgesGone(t) \subseteq work[t].gone
       /\ \A g \in work[t].gone :
            \/ g.source_machine \in Authoritative(t)
            \/ \E e \in WrittenEdges(t) : e.child = g.child
       /\ work[t].linked = EdgesLinked(t)
Scoped == \A t \in Ingests : ScopeOf(t)
ScopeInv == LockInv /\ Scoped

(* The children a batch has marked are those of the copies it has decided, as the
   store would mark them now. *)
PairOf(copy) == <<copy.row.source_machine, copy.id>>
KeptBy(copy) ==
  /\ Store!Stored(copy)
  /\ Store!SameRank(copy.row, conversations[copy.id])
  /\ conversations[copy.id].source_machine = copy.row.source_machine
FollowedOf(t) ==
  pc[t] \in Deciding /\ request[t].merge =>
    /\ work[t].wrote = {PairOf(copy) : copy \in {x \in Decided(t) : TakenBy(x)}}
    /\ work[t].kept = {PairOf(copy) : copy \in {x \in Decided(t) : KeptBy(x)}}
Followed == \A t \in Ingests : FollowedOf(t)

(* The scopes whose graph a call replaces are among those it locked. *)
LEMMA AuthoritativeLocked ==
  ASSUME LockInv, NEW t \in Ingests, ScopeOf(t), pc[t] \in Deciding
  PROVE  \A m \in Authoritative(t) :
           m \in LockedScopes(request[t]) /\ ScopeLock(m) \in held[t]
<1>2. \A m \in Authoritative(t) : m \in LockedScopes(request[t])
  BY DEF Authoritative, LockedScopes, ScopeOf
<1> QED
  BY <1>2 DEF LockInv, ScopesHeld

(* Two calls never hold one scope row, or on SQLite any row, at once. *)
LEMMA ScopesApart ==
  ASSUME LockInv, NEW t \in Ingests, NEW u \in Ingests \ {t}, NEW m,
         ScopeLock(m) \in held[t]
  PROVE  ScopeLock(m) \notin held[u]
BY DEF LockInv, Exclusive

(* What a call's graph statements would do depends on its own work and the graph. *)
LEMMA SameEdges ==
  ASSUME NEW u \in Ingests, request'[u] = request[u], work'[u] = work[u]
  PROVE  /\ Authoritative(u)' = Authoritative(u)
         /\ WrittenEdges(u)' = WrittenEdges(u)
         /\ graph' = graph => EdgesGone(u)' = EdgesGone(u) /\ EdgesLinked(u)' = EdgesLinked(u)
BY DEF Authoritative, WrittenEdges, EdgesGone, EdgesLinked, KeptEdges

(* A snapshot's call notices nothing of edges stored outside the scopes it
   replaces, *)
LEMMA PlainEdges ==
  ASSUME NEW u \in Ingests, ScopeOf(u), ~request[u].merge, pc[u] = "commit",
         request'[u] = request[u], work'[u] = work[u],
         \A g \in graph' : g \in graph \/ g.source_machine \notin Authoritative(u)
  PROVE  EdgesGone(u)' \subseteq work[u].gone /\ EdgesLinked(u)' = EdgesLinked(u)
<1>1. work[u].wrote = {} /\ work[u].kept = {} /\ EdgesGone(u) \subseteq work[u].gone
  BY DEF ScopeOf
<1>2. Authoritative(u)' = Authoritative(u)
  BY SameEdges
<1>3. ASSUME NEW g \in EdgesGone(u)' PROVE g \in EdgesGone(u)
  BY <1>1, <1>2, <1>3 DEF EdgesGone, WrittenEdges
<1>4. EdgesLinked(u)' = EdgesLinked(u)
  BY <1>1, <1>2 DEF EdgesLinked, WrittenEdges, KeptEdges
<1> QED
  BY <1>1, <1>3, <1>4

(* and a batch's nothing of edges of children it does not mention. *)
LEMMA BatchEdges ==
  ASSUME NEW u \in Ingests, ScopeOf(u), FollowedOf(u), request[u].merge, pc[u] = "commit",
         request'[u] = request[u], work'[u] = work[u],
         \A g : g.child \in Mentioned(request[u]) => (g \in graph' <=> g \in graph)
  PROVE  EdgesGone(u)' \subseteq work[u].gone /\ EdgesLinked(u)' = EdgesLinked(u)
<1>1. \A e \in WrittenEdges(u) : e.child \in Mentioned(request[u])
  BY DEF WrittenEdges, FollowedOf, Deciding, PairOf, Decided, Mentioned, CopiesOf
<1>2. \A e \in request[u].subagents :
        <<e.source_machine, e.child>> \in work[u].kept => e.child \in Mentioned(request[u])
  BY DEF FollowedOf, Deciding, PairOf, Decided, Mentioned, CopiesOf
<1>3. /\ Authoritative(u)' = Authoritative(u) /\ Authoritative(u) = {}
      /\ WrittenEdges(u)' = WrittenEdges(u)
  BY SameEdges DEF Authoritative
<1>4. ASSUME NEW g \in EdgesGone(u)' PROVE g \in EdgesGone(u)
  BY <1>1, <1>3, <1>4 DEF EdgesGone
<1>5. KeptEdges(u)' = KeptEdges(u)
  <2>1. ASSUME NEW e \in request[u].subagents, <<e.source_machine, e.child>> \in work[u].kept
        PROVE  (\A g \in graph' : g.child # e.child) <=> (\A g \in graph : g.child # e.child)
    BY <1>2, <2>1
  <2> QED
    BY <2>1 DEF KeptEdges
<1>6. EdgesLinked(u)' = EdgesLinked(u)
  BY <1>3, <1>5 DEF EdgesLinked
<1> QED
  BY <1>4, <1>6 DEF ScopeOf

(* What a batch removes and inserts belongs to children that it mentions. *)
LEMMA BatchChildren ==
  ASSUME NEW t \in Ingests, ScopeOf(t), FollowedOf(t), request[t].merge, pc[t] = "commit"
  PROVE  \A g \in work[t].gone \cup work[t].linked : g.child \in Mentioned(request[t])
<1>1. Authoritative(t) = {}
  BY DEF Authoritative
<1>2. \A e \in WrittenEdges(t) \cup KeptEdges(t) : e.child \in Mentioned(request[t])
  BY DEF WrittenEdges, KeptEdges, FollowedOf, Deciding, PairOf, Decided, Mentioned, CopiesOf
<1> QED
  BY <1>1, <1>2 DEF ScopeOf, EdgesLinked

(* A step of another call that creates no scope this call has locked and changes
   nothing for its graph statements leaves its graph work as it was. *)
LEMMA OtherScope ==
  ASSUME NEW u \in Ingests, ScopeOf(u),
         pc'[u] = pc[u], request'[u] = request[u], held'[u] = held[u], work'[u] = work[u],
         \A m \in scopes' : m \in scopes \/ ScopeLock(m) \notin held[u],
         scopes \subseteq scopes',
         pc[u] = "commit" =>
           \/ graph' = graph
           \/ EdgesGone(u)' \subseteq work[u].gone /\ EdgesLinked(u)' = EdgesLinked(u)
  PROVE  ScopeOf(u)'
<1>1. Authoritative(u)' = Authoritative(u) /\ WrittenEdges(u)' = WrittenEdges(u)
  BY SameEdges
<1>2. pc[u] \in Deciding \cup {"lock"} =>
        {m \in LockedScopes(request[u]) : ScopeLock(m) \in held[u]} \ scopes'
          = {m \in LockedScopes(request[u]) : ScopeLock(m) \in held[u]} \ scopes
  OBVIOUS
<1>3. /\ LockedScopes(request[u])' = LockedScopes(request[u])
      /\ CopiesOf(request[u])' = CopiesOf(request[u])
      /\ \A m : ScopeLock(m)' = ScopeLock(m)
  BY DEF LockedScopes, CopiesOf, ScopeLock
<1>4. ASSUME pc[u] = "commit"
      PROVE  EdgesGone(u)' \subseteq work[u].gone /\ EdgesLinked(u)' = work[u].linked
  BY <1>4, SameEdges DEF ScopeOf
<1> QED
  BY <1>1, <1>2, <1>3, <1>4 DEF ScopeOf

(* A step of this call that locks no scope and writes no graph keeps it too. *)
LEMMA SameScope ==
  ASSUME NEW t \in Ingests, ScopeOf(t), scopes' = scopes,
         pc[t] \in Deciding \cup {"lock"}, pc'[t] \in Deciding \ {"commit"},
         request'[t] = request[t],
         \A m : ScopeLock(m) \in held'[t] <=> ScopeLock(m) \in held[t],
         work'[t].created = work[t].created, work'[t].richer = work[t].richer,
         \/ work'[t].wrote = work[t].wrote /\ work'[t].kept = work[t].kept
         \/ request[t].merge
  PROVE  ScopeOf(t)'
<1>1. /\ LockedScopes(request[t])' = LockedScopes(request[t])
      /\ CopiesOf(request[t])' = CopiesOf(request[t])
      /\ \A m : (ScopeLock(m) \in held[t])' <=> ScopeLock(m) \in held[t]
  BY DEF LockedScopes, CopiesOf, ScopeLock
<1>2. {m \in LockedScopes(request[t]) : ScopeLock(m) \in held[t]}'
        = {m \in LockedScopes(request[t]) : ScopeLock(m) \in held[t]}
  BY <1>1
<1> QED
  BY <1>1, <1>2 DEF ScopeOf, Deciding, AtConversation

(* A call outside its transaction holds no scope. *)
LEMMA EndScope ==
  ASSUME TypeInv, NEW t \in Ingests, EndTransaction(t), NEW step, Goto(t, step),
         step \notin Deciding \cup {"lock"}
  PROVE  /\ ScopeOf(t)'
         /\ \A u \in Ingests \ {t} :
              /\ pc'[u] = pc[u] /\ held'[u] = held[u] /\ work'[u] = work[u]
<1>1. /\ work'[t] = Fresh /\ pc'[t] = step /\ held'[t] = {}
      /\ \A u \in Ingests \ {t} :
           pc'[u] = pc[u] /\ held'[u] = held[u] /\ work'[u] = work[u]
  BY DEF EndTransaction, Goto, TypeInv, TypeOK
<1>2. ScopeOf(t)'
  BY <1>1 DEF ScopeOf, Fresh, Deciding
<1> QED
  BY <1>1, <1>2

(* The row locks of conversations, child rows and edges are no scope locks. *)
LEMMA OtherLocks ==
  ASSUME NEW m
  PROVE  /\ \A c : ScopeLock(m) # RowLock(c)
         /\ \A ch : ScopeLock(m) # ChildLock(ch)
         /\ \A e : ScopeLock(m) # EdgeLock(e)
BY DEF ScopeLock, RowLock, ChildLock, EdgeLock

(* Every step keeps each call's graph work within the scopes it locked. *)
LEMMA ScopeStep ==
  ASSUME ScopeInv, [Next]_vars,
         \/ PlainCalls
         \/ OnlyBatches /\ OneDecisionAtATime /\ Followed /\ [WriterNext]_vars
  PROVE  Scoped'
<1> USE DEF AtConversation, Deciding
<1>t. TypeInv /\ LockInv /\ \A u \in Ingests : ScopeOf(u)
  BY DEF ScopeInv, Scoped, LockInv
<1>0. ASSUME NEW t \in Ingests, ScopeOf(t)', scopes' = scopes, graph' = graph,
             \A u \in Ingests \ {t} :
               /\ pc'[u] = pc[u] /\ request'[u] = request[u]
               /\ held'[u] = held[u] /\ work'[u] = work[u]
      PROVE  Scoped'
  <2>1. ASSUME NEW u \in Ingests \ {t} PROVE ScopeOf(u)'
    BY <1>t, <1>0, <2>1, OtherScope
  <2> QED
    BY <1>0, <2>1 DEF Scoped
<1>1. ASSUME NEW t \in Ingests, NEW r \in Requests, Call(t, r) PROVE Scoped'
  <2>1. /\ scopes' = scopes /\ graph' = graph /\ held' = held /\ work' = work
        /\ \A u \in Ingests \ {t} : pc'[u] = pc[u] /\ request'[u] = request[u]
        /\ pc[t] = "idle" /\ pc'[t] \in {"failed", "replay", "lock"}
    BY <1>1, <1>t DEF Call, Goto, TypeInv, TypeOK, database
  <2>2. /\ held[t] = {} /\ work[t].created = {} /\ work[t].richer = {}
        /\ work[t].wrote = {} /\ work[t].kept = {}
    BY <1>t, <2>1 DEF ScopeOf
  <2>3. ScopeOf(t)'
    BY <2>1, <2>2 DEF ScopeOf
  <2> QED
    BY <1>0, <2>1, <2>3
<1>2. ASSUME NEW t \in Ingests, Replay(t) PROVE Scoped'
  <2>1. /\ scopes' = scopes /\ graph' = graph /\ held' = held /\ work' = work
        /\ request' = request
        /\ \A u \in Ingests \ {t} : pc'[u] = pc[u]
        /\ pc[t] \in {"replay", "recheck"} /\ pc'[t] \in {"done", "failed", "lock"}
    BY <1>2, <1>t DEF Replay, Goto, TypeInv, TypeOK, database
  <2>2. /\ held[t] = {} /\ work[t].created = {} /\ work[t].richer = {}
        /\ work[t].wrote = {} /\ work[t].kept = {}
    BY <1>t, <2>1 DEF ScopeOf
  <2>3. ScopeOf(t)'
    BY <2>1, <2>2 DEF ScopeOf
  <2> QED
    BY <1>0, <2>1, <2>3
<1>3. ASSUME NEW t \in Ingests, LockScope(t) PROVE Scoped'
  <2>1. PICK m \in LockedScopes(request[t]) :
          /\ ScopeLock(m) \notin held[t]
          /\ Hold(t, {ScopeLock(m)})
          /\ work' = [work EXCEPT ![t].created = IF m \in scopes THEN @ ELSE @ \cup {m}]
    BY <1>3 DEF LockScope
  <2>2. /\ scopes' = scopes /\ graph' = graph /\ request' = request /\ pc' = pc
        /\ pc[t] = "lock"
        /\ \A u \in Ingests \ {t} : held'[u] = held[u] /\ work'[u] = work[u]
        /\ held'[t] = held[t] \cup {ScopeLock(m)}
    BY <1>3, <1>t, <2>1 DEF LockScope, Hold, TypeInv, TypeOK, database
  <2>3. /\ work'[t].created = IF m \in scopes THEN work[t].created ELSE work[t].created \cup {m}
        /\ work'[t].richer = work[t].richer
        /\ work'[t].wrote = work[t].wrote /\ work'[t].kept = work[t].kept
    BY <1>t, <2>1 DEF TypeInv, TypeOK, Work
  <2>4. \A n : ScopeLock(n) \in held'[t] <=> ScopeLock(n) \in held[t] \/ n = m
    BY <2>2 DEF ScopeLock
  <2>5. ScopeOf(t)'
    BY <1>t, <2>2, <2>3, <2>4 DEF ScopeOf
  <2> QED
    BY <1>0, <2>2, <2>5
<1>4. ASSUME NEW t \in Ingests, Get(t) PROVE Scoped'
  <2> DEFINE m == Current(t).row.source_machine
  <2>1. /\ scopes' = scopes /\ graph' = graph /\ request' = request /\ held' = held
        /\ \A u \in Ingests \ {t} : pc'[u] = pc[u] /\ work'[u] = work[u]
        /\ pc[t] = "get" /\ pc'[t] \in {"get", "clear"}
        /\ request[t] \in Requests
        /\ pos[t] \in 1..Len(request[t].conversations)
    BY <1>4, <1>t DEF Get, Goto, TypeInv, TypeOK, database
  <2>2. /\ work'[t].richer \in {work[t].richer, work[t].richer \cup {m}}
        /\ work'[t].created = work[t].created
        /\ ~request[t].merge =>
             work'[t].wrote = work[t].wrote /\ work'[t].kept = work[t].kept
    BY <1>4, <1>t, <2>1 DEF Get, TypeInv, TypeOK, Work
  <2>3. m \in {copy.row.source_machine : copy \in CopiesOf(request[t])}
    BY <2>1 DEF CopiesOf, Current
  <2>4. ScopeOf(t)'
    BY <1>t, <2>1, <2>2, <2>3 DEF ScopeOf
  <2> QED
    BY <1>0, <2>1, <2>4
<1>5. ASSUME NEW t \in Ingests,
             \/ ScopesLocked(t) \/ ConversationsDone(t) \/ Merge(t)
             \/ StartClear(t) \/ Clear(t) \/ FlushRow(t)
      PROVE Scoped'
  <2>1. /\ scopes' = scopes /\ graph' = graph /\ request' = request
        /\ \A u \in Ingests \ {t} : pc'[u] = pc[u]
        /\ pc[t] \in Deciding \cup {"lock"} /\ pc'[t] \in Deciding \ {"commit"}
    BY <1>5, <1>t
       DEF ScopesLocked, ConversationsDone, Merge, StartClear, Clear, FlushRow,
           Goto, TypeInv, TypeOK, database
  <2>2. /\ \A u \in Ingests \ {t} : work'[u] = work[u]
        /\ work'[t].created = work[t].created /\ work'[t].richer = work[t].richer
        /\ work'[t].wrote = work[t].wrote /\ work'[t].kept = work[t].kept
    BY <1>5, <1>t
       DEF ScopesLocked, ConversationsDone, Merge, StartClear, Clear, FlushRow,
           TypeInv, TypeOK, Work
  <2>3. /\ \A u \in Ingests \ {t} : held'[u] = held[u]
        /\ \A m : ScopeLock(m) \in held'[t] <=> ScopeLock(m) \in held[t]
    BY <1>5, <1>t, OtherLocks
       DEF ScopesLocked, ConversationsDone, Merge, StartClear, Clear, FlushRow,
           Hold, TypeInv, TypeOK
  <2>4. ScopeOf(t)'
    BY <1>t, <2>1, <2>2, <2>3, SameScope
  <2> QED
    BY <1>0, <2>1, <2>2, <2>3, <2>4
<1>6. ASSUME NEW t \in Ingests, AddChildren(t) PROVE Scoped'
  <2>1. /\ scopes' = scopes /\ graph' = graph /\ request' = request
        /\ \A u \in Ingests \ {t} : pc'[u] = pc[u] /\ work'[u] = work[u] /\ held'[u] = held[u]
        /\ pc[t] = "add" /\ pc'[t] = "get"
    BY <1>6, <1>t DEF AddChildren, Goto, Hold, TypeInv, TypeOK, database
  <2>2. /\ work'[t].created = work[t].created /\ work'[t].richer = work[t].richer
        /\ ~request[t].merge =>
             work'[t].wrote = work[t].wrote /\ work'[t].kept = work[t].kept
    BY <1>6, <1>t, <2>1 DEF AddChildren, TypeInv, TypeOK, Work
  <2>3. \A m : ScopeLock(m) \in held'[t] <=> ScopeLock(m) \in held[t]
    BY <1>6, <1>t, OtherLocks DEF AddChildren, Hold, TypeInv, TypeOK
  <2>4. ScopeOf(t)'
    BY <1>t, <2>1, <2>2, <2>3, SameScope
  <2> QED
    BY <1>0, <2>1, <2>4
<1>7. ASSUME NEW t \in Ingests, WriteGraph(t) PROVE Scoped'
  <2>1. /\ scopes' = scopes /\ graph' = graph /\ request' = request
        /\ \A u \in Ingests \ {t} : pc'[u] = pc[u] /\ work'[u] = work[u] /\ held'[u] = held[u]
        /\ pc[t] = "graph" /\ pc'[t] = "commit"
    BY <1>7, <1>t DEF WriteGraph, Goto, Hold, TypeInv, TypeOK, database
  <2>2. /\ work'[t].created = work[t].created /\ work'[t].richer = work[t].richer
        /\ work'[t].wrote = work[t].wrote /\ work'[t].kept = work[t].kept
        /\ work'[t].stale = work[t].stale
        /\ work'[t].gone = EdgesGone(t) /\ work'[t].linked = EdgesLinked(t)
    BY <1>7, <1>t DEF WriteGraph, TypeInv, TypeOK, Work
  <2>3. \A m : ScopeLock(m) \in held'[t] <=> ScopeLock(m) \in held[t]
    BY <1>7, <1>t, OtherLocks DEF WriteGraph, Hold, TypeInv, TypeOK
  <2>5. /\ Authoritative(t)' = Authoritative(t)
        /\ WrittenEdges(t)' = WrittenEdges(t) /\ EdgesGone(t)' = EdgesGone(t)
        /\ EdgesLinked(t)' = EdgesLinked(t)
        /\ \A g \in EdgesGone(t) :
             g.source_machine \in Authoritative(t) \/ \E e \in WrittenEdges(t) : e.child = g.child
    BY <2>1, <2>2 DEF Authoritative, EdgesGone, EdgesLinked, WrittenEdges, KeptEdges
  <2>6. {m \in LockedScopes(request[t]) : ScopeLock(m) \in held[t]}'
          = {m \in LockedScopes(request[t]) : ScopeLock(m) \in held[t]}
    BY <2>1, <2>3 DEF LockedScopes, CopiesOf, ScopeLock
  <2>7. ScopeOf(t)'
    BY <1>t, <2>1, <2>2, <2>5, <2>6 DEF ScopeOf
  <2> QED
    BY <1>0, <2>1, <2>7
<1>8. ASSUME NEW t \in Ingests,
             \/ FlushConflict(t) \/ AddConflict(t) \/ ReceiptConflict(t)
             \/ FlushStale(t) \/ Fail(t)
       PROVE Scoped'
  <2>1. EndTransaction(t) /\ request' = request /\ scopes' = scopes /\ graph' = graph
    BY <1>8 DEF FlushConflict, AddConflict, ReceiptConflict,
                IntegrityError, FlushStale, Fail, database
  <2>2. PICK step \in {"failed", "recheck"} : Goto(t, step)
    BY <1>8 DEF FlushConflict, AddConflict, ReceiptConflict,
                IntegrityError, FlushStale, Fail
  <2> QED
    BY <1>0, <1>t, <2>1, <2>2, EndScope
<1>9. ASSUME NEW t \in Ingests, Commit(t) PROVE Scoped'
  <2>1. /\ EndTransaction(t) /\ Goto(t, "done") /\ request' = request /\ pc[t] = "commit"
        /\ scopes' = scopes \cup work[t].created
        /\ graph' = (graph \ work[t].gone) \cup work[t].linked
    BY <1>9 DEF Commit
  <2>2. /\ ScopeOf(t)'
        /\ \A u \in Ingests \ {t} : pc'[u] = pc[u] /\ held'[u] = held[u] /\ work'[u] = work[u]
    BY <1>t, <2>1, EndScope
  <2>3. ASSUME NEW u \in Ingests \ {t} PROVE ScopeOf(u)'
    <3>1. \A m \in work[t].created : ScopeLock(m) \notin held[u]
      BY <1>t, <2>1, ScopesApart DEF ScopeOf
    <3>2. ASSUME pc[u] = "commit"
          PROVE  EdgesGone(u)' \subseteq work[u].gone /\ EdgesLinked(u)' = EdgesLinked(u)
      <4>1. /\ request'[u] = request[u] /\ work'[u] = work[u]
            /\ request[t] \in Requests /\ request[u] \in Requests
        BY <1>t, <2>1, <2>2, <3>2 DEF TypeInv
      <4>2. CASE PlainCalls
        <5>1. ~request[t].merge /\ ~request[u].merge
          BY <4>1, <4>2 DEF PlainCalls
        <5>2. ASSUME NEW g \in work[t].linked PROVE g.source_machine \notin Authoritative(u)
          <6>1. g.source_machine \in Authoritative(t)
            BY <1>t, <2>1, <5>1, <5>2 DEF ScopeOf, EdgesLinked, WrittenEdges, KeptEdges
          <6>2. ScopeLock(g.source_machine) \in held[t]
            BY <1>t, <2>1, <6>1, AuthoritativeLocked
          <6>3. ScopeLock(g.source_machine) \notin held[u]
            BY <1>t, <6>2, ScopesApart
          <6> QED
            BY <1>t, <3>2, <6>3, AuthoritativeLocked
        <5> QED
          BY <1>t, <2>1, <3>2, <4>1, <5>1, <5>2, PlainEdges
      <4>3. CASE OnlyBatches /\ OneDecisionAtATime /\ Followed
        <5>1. request[t].merge /\ request[u].merge /\ FollowedOf(t) /\ FollowedOf(u)
          BY <4>1, <4>3, NoneAssumption DEF OnlyBatches, Followed
        <5>2. \A g \in work[t].gone \cup work[t].linked : g.child \in Mentioned(request[t])
          BY <1>t, <2>1, <5>1, BatchChildren
        <5>3. Mentioned(request[t]) \cap Mentioned(request[u]) = {}
          BY <2>1, <3>2, <4>3 DEF OneDecisionAtATime
        <5> QED
          BY <1>t, <2>1, <3>2, <4>1, <5>1, <5>2, <5>3, BatchEdges
      <4> QED
        BY <4>2, <4>3
    <3> QED
      BY <1>t, <2>1, <2>2, <3>1, <3>2, OtherScope
  <2> QED
    BY <2>2, <2>3 DEF Scoped
<1>10. ASSUME NEW C \in SUBSET Conversations, NEW E \in SUBSET graph,
              NEW R \in SUBSET Ingests, Retain(C, E, R), PlainCalls
       PROVE Scoped'
  <2>1. ASSUME NEW u \in Ingests PROVE ScopeOf(u)'
    <3>1. /\ pc' = pc /\ request' = request /\ held' = held /\ work' = work
          /\ scopes' = scopes /\ graph' \subseteq graph
      BY <1>10 DEF Retain
    <3>2. ASSUME pc[u] = "commit"
          PROVE  EdgesGone(u)' \subseteq work[u].gone /\ EdgesLinked(u)' = EdgesLinked(u)
      <4>1. ~request[u].merge
        BY <1>10, <1>t, <3>2 DEF PlainCalls, TypeInv
      <4> QED
        BY <1>t, <3>1, <3>2, <4>1, PlainEdges
    <3> QED
      BY <1>t, <3>1, <3>2, OtherScope
  <2> QED
    BY <2>1 DEF Scoped
<1>11. CASE UNCHANGED vars
  BY <1>11, <1>t, OtherScope DEF vars, database, Scoped
<1>12. ASSUME NEW t \in Ingests, Step(t) PROVE Scoped'
  BY <1>1, <1>2, <1>3, <1>4, <1>5, <1>6, <1>7, <1>8, <1>9, <1>12 DEF Step
<1> QED
  BY <1>10, <1>11, <1>12 DEF Next, WriterNext, Retention

(* At first no scope is locked. *)
LEMMA ScopeInit == Init => ScopeInv
<1> SUFFICES ASSUME Init PROVE ScopeInv
  OBVIOUS
<1>1. ASSUME NEW t \in Ingests PROVE ScopeOf(t)
  BY DEF Init, ScopeOf, Fresh, Deciding, AtConversation
<1> QED
  BY <1>1, LockInit DEF ScopeInv, Scoped

(* A commit removes every edge of the scopes it replaces, and links edges of its
   own snapshot in those scopes only. *)
LEMMA CommitGraph ==
  ASSUME NEW t \in Ingests, ScopeOf(t), Commit(t), ~request[t].merge
  PROVE  graph' = {g \in graph : g.source_machine \notin Authoritative(t)}
                    \cup {e \in request[t].subagents : e.source_machine \in Authoritative(t)}
<1>1. pc[t] = "commit" /\ graph' = (graph \ work[t].gone) \cup work[t].linked
  BY DEF Commit
<1>2. /\ EdgesGone(t) \subseteq work[t].gone
      /\ \A g \in work[t].gone : g.source_machine \in Authoritative(t)
      /\ work[t].linked =
           {e \in request[t].subagents : e.source_machine \in Authoritative(t)}
  BY <1>1 DEF ScopeOf, EdgesLinked, WrittenEdges, KeptEdges
<1>3. \A g \in graph : g.source_machine \in Authoritative(t) => g \in work[t].gone
  BY <1>2 DEF EdgesGone
<1> QED
  BY <1>1, <1>2, <1>3

(* A step that replaces the graph of a scope takes it whole from one snapshot. *)
LEMMA GraphStep ==
  ASSUME PlainCalls, ScopeInv, GraphOfOneSnapshot, [Next]_vars
  PROVE  GraphOfOneSnapshot'
<1>1. ASSUME NEW t \in Ingests, Commit(t) PROVE GraphOfOneSnapshot'
  <2>1. request[t] \in Requests
    BY <1>1 DEF Commit, ScopeInv, LockInv, TypeInv
  <2>2. graph' = {g \in graph : g.source_machine \notin Authoritative(t)}
                   \cup {e \in request[t].subagents : e.source_machine \in Authoritative(t)}
    BY <1>1, <2>1, CommitGraph DEF ScopeInv, Scoped, PlainCalls
  <2>3. ASSUME NEW m \in Machines
        PROVE  \E r \in Requests : {e \in graph' : e.source_machine = m} \subseteq r.subagents
    <3>1. CASE m \in Authoritative(t)
      BY <2>1, <2>2, <3>1
    <3>2. CASE m \notin Authoritative(t)
      <4>1. {e \in graph' : e.source_machine = m} = GraphOf(graph, m)
        BY <2>2, <3>2 DEF GraphOf
      <4> QED
        BY <4>1 DEF GraphOfOneSnapshot
    <3> QED
      BY <3>1, <3>2
  <2> QED
    BY <2>3 DEF GraphOfOneSnapshot, GraphOf
<1>2. ASSUME graph' \subseteq graph PROVE GraphOfOneSnapshot'
  BY <1>2 DEF GraphOfOneSnapshot, GraphOf
<1>3. ASSUME NEW C \in SUBSET Conversations, NEW E \in SUBSET graph,
             NEW R \in SUBSET Ingests, Retain(C, E, R)
      PROVE graph' \subseteq graph
  BY <1>3 DEF Retain
<1>4. ASSUME NEW t \in Ingests, Step(t), ~Commit(t) PROVE graph' \subseteq graph
  BY <1>4
     DEF Step, Call, Replay, LockScope, ScopesLocked, Get, StartClear, Clear, Merge,
         FlushRow, FlushConflict, FlushStale, AddChildren, AddConflict,
         ConversationsDone, WriteGraph, ReceiptConflict, Fail,
         IntegrityError, database
<1> QED
  BY <1>1, <1>2, <1>3, <1>4 DEF Next, Retention, vars, database

(* The stored graph of a scope always comes from one snapshot, never from two, next
   to retention too; the scopes need not serialize the writers for that, since a
   call replaces the graph of no scope it has not locked. *)
THEOREM GraphsAreWhole ==
  PlainCalls /\ Requests # {} => (Spec => []GraphOfOneSnapshot)
<1> SUFFICES ASSUME PlainCalls, Requests # {} PROVE Spec => []GraphOfOneSnapshot
  OBVIOUS
<1>1. Init => ScopeInv /\ GraphOfOneSnapshot
  BY ScopeInit DEF Init, GraphOfOneSnapshot, GraphOf
<1>2. ScopeInv /\ GraphOfOneSnapshot /\ [Next]_vars => (ScopeInv /\ GraphOfOneSnapshot)'
  BY ScopeStep, GraphStep, LockStep DEF ScopeInv
<1> QED
  BY <1>1, <1>2, PTL DEF Spec
-----------------------------------------------------------------------------
(* The children batches mark.  A step of another call that stores nothing under a
   conversation this call mentions leaves the marks what the store would make. *)
LEMMA OtherFollowed ==
  ASSUME TypeInv, NEW u \in Ingests, FollowedOf(u),
         pc'[u] = pc[u], pos'[u] = pos[u], request'[u] = request[u], work'[u] = work[u],
         pc[u] \in Deciding =>
           \A c \in Mentioned(request[u]) : conversations'[c] = conversations[c]
  PROVE  FollowedOf(u)'
<1>1. CASE pc[u] \notin Deciding
  BY <1>1 DEF FollowedOf
<1>2. CASE pc[u] \in Deciding
  <2>1. Decided(u)' = Decided(u)
    BY DEF Decided
  <2>2. \A copy \in Decided(u) : conversations'[copy.id] = conversations[copy.id]
    BY <1>2, ConsideredCopies DEF Considered
  <2>3. \A copy \in Decided(u) : TakenBy(copy)' = TakenBy(copy) /\ KeptBy(copy)' = KeptBy(copy)
    BY <2>2 DEF TakenBy, KeptBy, Store!Richer, Store!Stored, Store!Below, Store!SameRank
  <2>4. /\ {x \in Decided(u) : TakenBy(x)}' = {x \in Decided(u) : TakenBy(x)}
        /\ {x \in Decided(u) : KeptBy(x)}' = {x \in Decided(u) : KeptBy(x)}
    BY <2>1, <2>3
  <2> QED
    BY <1>2, <2>4 DEF FollowedOf, PairOf
<1> QED
  BY <1>1, <1>2

(* Get marks a copy that is the stored one, and no copy it does not skip. *)
LEMMA GetFollowed ==
  ASSUME TypeInv, NEW t \in Ingests, FollowedOf(t), Get(t)
  PROVE  FollowedOf(t)'
<1> SUFFICES ASSUME request[t].merge PROVE FollowedOf(t)'
  BY DEF FollowedOf, Get
<1> DEFINE copy == Current(t)
           existing == conversations[copy.id]
           skip == Skipped(existing, copy)
           same == skip /\ SameCopy(existing, copy)
<1>1. /\ pc[t] = "get" /\ request' = request /\ conversations' = conversations
      /\ request[t] \in Requests
      /\ pos[t] \in 1..Len(request[t].conversations)
  BY DEF Get, TypeInv, TypeOK, database
<1>2. /\ pos'[t] = IF skip THEN pos[t] + 1 ELSE pos[t]
      /\ work'[t].wrote = work[t].wrote
      /\ work'[t].kept = IF same THEN work[t].kept \cup {PairOf(copy)} ELSE work[t].kept
  BY DEF Get, TypeInv, TypeOK, Work, PairOf
<1>3. (skip <=> ~TakenBy(copy)) /\ (same <=> KeptBy(copy) /\ skip)
  BY DEF Skipped, SameCopy, SameRank, TakenBy, KeptBy, Store!Richer, Store!Stored,
         Store!Below, Below, Store!SameRank
<1>4. \A x : TakenBy(x)' = TakenBy(x) /\ KeptBy(x)' = KeptBy(x)
  BY <1>1 DEF TakenBy, KeptBy, Store!Richer, Store!Stored, Store!Below, Store!SameRank
<1>5. /\ work[t].wrote = {PairOf(x) : x \in {y \in Decided(t) : TakenBy(y)}}
      /\ work[t].kept = {PairOf(x) : x \in {y \in Decided(t) : KeptBy(y)}}
  BY <1>1 DEF FollowedOf, Deciding
<1>6. /\ {x \in Decided(t) : TakenBy(x)}' = {x \in Decided(t) : TakenBy(x)}
      /\ {x \in Decided(t) : KeptBy(x)}'
           = {x \in Decided(t) : KeptBy(x)} \cup (IF same THEN {copy} ELSE {})
  <2>1. CASE skip
    <3>1. Decided(t)' = Decided(t) \cup {copy}
      BY <1>1, <1>2, <2>1, NextDecided
    <3> QED
      BY <1>3, <1>4, <2>1, <3>1
  <2>2. CASE ~skip
    <3>1. Decided(t)' = Decided(t)
      BY <1>1, <1>2, <2>2 DEF Decided
    <3> QED
      BY <1>4, <2>2, <3>1
  <2> QED
    BY <2>1, <2>2
<1> HIDE DEF same
<1>7. \A x : PairOf(x)' = PairOf(x)
  BY DEF PairOf
<1> QED
  BY <1>2, <1>5, <1>6, <1>7 DEF FollowedOf

(* AddChildren marks the copy that the store takes. *)
LEMMA AddFollowed ==
  ASSUME TypeInv, EvidenceStands, Replacement, NEW t \in Ingests, FollowedOf(t), AddChildren(t)
  PROVE  FollowedOf(t)'
<1> SUFFICES ASSUME request[t].merge PROVE FollowedOf(t)'
  BY DEF FollowedOf, AddChildren
<1> DEFINE copy == Current(t)
<1>1. /\ pc[t] = "add" /\ pos'[t] = pos[t] + 1 /\ request' = request
      /\ conversations' = conversations /\ request[t] \in Requests
      /\ pos[t] \in 1..Len(request[t].conversations)
  BY DEF AddChildren, TypeInv, TypeOK, AtConversation, database
<1>2. /\ work'[t].wrote = work[t].wrote \cup {PairOf(copy)}
      /\ work'[t].kept = work[t].kept
  BY DEF AddChildren, TypeInv, TypeOK, Work, PairOf
<1>3. TakenBy(copy)
  BY <1>1, CurrentTaken DEF Replacement, AtConversation
<1>4. ~KeptBy(copy)
  <2>1. copy.row \in Rows /\ copy.id \in Conversations
    BY <1>1, CurrentType DEF AtConversation
  <2>2. conversations[copy.id] \in Rows \cup {None}
    BY <2>1 DEF TypeInv, TypeOK
  <2> QED
    BY <1>3, <2>1, <2>2
       DEF TakenBy, KeptBy, Store!Richer, Store!Stored, Store!Below, Store!SameRank, Rows
<1>5. Decided(t)' = Decided(t) \cup {copy}
  BY <1>1, NextDecided
<1>6. \A x : TakenBy(x)' = TakenBy(x) /\ KeptBy(x)' = KeptBy(x) /\ PairOf(x)' = PairOf(x)
  BY <1>1 DEF TakenBy, KeptBy, PairOf, Store!Richer, Store!Stored, Store!Below, Store!SameRank
<1>7. /\ {x \in Decided(t) : TakenBy(x)}' = {x \in Decided(t) : TakenBy(x)} \cup {copy}
      /\ {x \in Decided(t) : KeptBy(x)}' = {x \in Decided(t) : KeptBy(x)}
  BY <1>3, <1>4, <1>5, <1>6
<1>8. /\ work[t].wrote = {PairOf(x) : x \in {y \in Decided(t) : TakenBy(y)}}
      /\ work[t].kept = {PairOf(x) : x \in {y \in Decided(t) : KeptBy(y)}}
  BY <1>1 DEF FollowedOf, Deciding, AtConversation
<1> QED
  BY <1>2, <1>6, <1>7, <1>8 DEF FollowedOf

(* Every step of a writer keeps the marks of every batch the store's. *)
LEMMA FollowedStep ==
  ASSUME OneDecisionAtATime, DecisionInv, Scoped, Followed, [WriterNext]_vars
  PROVE  Followed'
<1>t. /\ TypeInv /\ EvidenceStands /\ Replacement /\ \A u \in Ingests : FollowedOf(u)
      /\ \A u \in Ingests : ScopeOf(u) /\ DecisionOf(u)
  BY DEF DecisionInv, Decisions, ReplacementInv, EvidenceInv, LockInv, Followed, Scoped
<1>0. ASSUME NEW t \in Ingests, FollowedOf(t)', conversations' = conversations,
             \A u \in Ingests \ {t} :
               /\ pc'[u] = pc[u] /\ pos'[u] = pos[u] /\ request'[u] = request[u]
               /\ work'[u] = work[u]
      PROVE  Followed'
  <2>1. ASSUME NEW u \in Ingests \ {t} PROVE FollowedOf(u)'
    BY <1>t, <1>0, <2>1, OtherFollowed
  <2> QED
    BY <1>0, <2>1 DEF Followed
<1>1. ASSUME NEW t \in Ingests, (\E r \in Requests : Call(t, r)) \/ Replay(t) \/ LockScope(t)
      PROVE Followed'
  <2>1. /\ conversations' = conversations /\ pos' = pos
        /\ \A u \in Ingests \ {t} : pc'[u] = pc[u] /\ work'[u] = work[u] /\ request'[u] = request[u]
        /\ pc'[t] \notin Deciding
    <3>1. CASE \E r \in Requests : Call(t, r)
      <4>1. PICK r \in Requests : Call(t, r)
        BY <3>1
      <4>2. pc'[t] \in {"failed", "replay", "lock"}
        BY <1>t, <4>1 DEF Call, Goto, TypeInv, TypeOK
      <4> QED
        BY <1>t, <4>1, <4>2
           DEF Call, Goto, TypeInv, TypeOK, Deciding, AtConversation, database
    <3>2. CASE Replay(t) \/ LockScope(t)
      BY <1>t, <3>2
         DEF Replay, LockScope, Goto, TypeInv, TypeOK, Deciding, AtConversation, database
    <3> QED
      BY <1>1, <3>1, <3>2
  <2>2. FollowedOf(t)'
    BY <2>1 DEF FollowedOf
  <2> QED
    BY <1>0, <2>1, <2>2
<1>2. ASSUME NEW t \in Ingests, ScopesLocked(t) PROVE Followed'
  <2>1. /\ conversations' = conversations /\ pos' = pos /\ work' = work /\ request' = request
        /\ \A u \in Ingests \ {t} : pc'[u] = pc[u]
        /\ pc[t] = "lock"
    BY <1>2, <1>t DEF ScopesLocked, Goto, TypeInv, TypeOK, database
  <2>2. pos[t] = 1
    BY <1>t, <2>1 DEF DecisionOf, Deciding, AtConversation
  <2>3. Decided(t)' = {}
    BY <2>1, <2>2 DEF Decided
  <2>4. work[t].wrote = {} /\ work[t].kept = {}
    BY <1>t, <2>1 DEF ScopeOf, Deciding, AtConversation
  <2>5. FollowedOf(t)'
    BY <2>1, <2>3, <2>4 DEF FollowedOf
  <2> QED
    BY <1>0, <2>1, <2>5
<1>3. ASSUME NEW t \in Ingests, Get(t) PROVE Followed'
  <2>1. /\ conversations' = conversations /\ request' = request
        /\ \A u \in Ingests \ {t} : pc'[u] = pc[u] /\ pos'[u] = pos[u] /\ work'[u] = work[u]
    BY <1>3, <1>t DEF Get, Goto, TypeInv, TypeOK, database
  <2> QED
    BY <1>0, <1>3, <1>t, <2>1, GetFollowed
<1>4. ASSUME NEW t \in Ingests,
             \/ StartClear(t) \/ Clear(t) \/ Merge(t) \/ FlushRow(t)
             \/ ConversationsDone(t) \/ WriteGraph(t)
      PROVE Followed'
  <2>1. /\ conversations' = conversations /\ request' = request /\ pos' = pos
        /\ \A u \in Ingests \ {t} : pc'[u] = pc[u] /\ work'[u] = work[u]
        /\ pc[t] \in Deciding
    BY <1>4, <1>t
       DEF StartClear, Clear, Merge, FlushRow, ConversationsDone, WriteGraph, Goto,
           TypeInv, TypeOK, Deciding, AtConversation, database
  <2>2. work'[t].wrote = work[t].wrote /\ work'[t].kept = work[t].kept
    BY <1>4, <1>t
       DEF StartClear, Clear, Merge, FlushRow, ConversationsDone, WriteGraph,
           TypeInv, TypeOK, Work
  <2>3. Decided(t)' = Decided(t)
    BY <2>1 DEF Decided
  <2>4. \A x : TakenBy(x)' = TakenBy(x) /\ KeptBy(x)' = KeptBy(x) /\ PairOf(x)' = PairOf(x)
    BY <2>1 DEF TakenBy, KeptBy, PairOf, Store!Richer, Store!Stored, Store!Below, Store!SameRank
  <2>5. /\ {x \in Decided(t) : TakenBy(x)}' = {x \in Decided(t) : TakenBy(x)}
        /\ {x \in Decided(t) : KeptBy(x)}' = {x \in Decided(t) : KeptBy(x)}
    BY <2>3, <2>4
  <2>6. FollowedOf(t)'
    BY <1>t, <2>1, <2>2, <2>4, <2>5 DEF FollowedOf
  <2> QED
    BY <1>0, <2>1, <2>6
<1>5. ASSUME NEW t \in Ingests, AddChildren(t) PROVE Followed'
  <2>1. /\ conversations' = conversations /\ request' = request
        /\ \A u \in Ingests \ {t} : pc'[u] = pc[u] /\ pos'[u] = pos[u] /\ work'[u] = work[u]
    BY <1>5, <1>t DEF AddChildren, Goto, TypeInv, TypeOK, database
  <2> QED
    BY <1>0, <1>5, <1>t, <2>1, AddFollowed
<1>6. ASSUME NEW t \in Ingests,
             \/ FlushConflict(t) \/ AddConflict(t) \/ ReceiptConflict(t)
             \/ FlushStale(t) \/ Fail(t)
       PROVE Followed'
  <2>1. EndTransaction(t) /\ request' = request /\ conversations' = conversations
    BY <1>6 DEF FlushConflict, AddConflict, ReceiptConflict,
                IntegrityError, FlushStale, Fail, database
  <2>2. PICK step \in {"failed", "recheck"} : Goto(t, step)
    BY <1>6 DEF FlushConflict, AddConflict, ReceiptConflict,
                IntegrityError, FlushStale, Fail
  <2>3. /\ pc'[t] \notin Deciding
        /\ \A u \in Ingests \ {t} : pc'[u] = pc[u] /\ pos'[u] = pos[u] /\ work'[u] = work[u]
    BY <1>t, <2>1, <2>2 DEF EndTransaction, Goto, TypeInv, TypeOK, Deciding, AtConversation
  <2>4. FollowedOf(t)'
    BY <2>3 DEF FollowedOf
  <2> QED
    BY <1>0, <2>1, <2>3, <2>4
<1>7. ASSUME NEW t \in Ingests, Commit(t) PROVE Followed'
  <2>1. EndTransaction(t) /\ Goto(t, "done") /\ request' = request /\ pc[t] = "commit"
    BY <1>7 DEF Commit
  <2>2. /\ pc'[t] \notin Deciding
        /\ \A u \in Ingests \ {t} : pc'[u] = pc[u] /\ pos'[u] = pos[u] /\ work'[u] = work[u]
    BY <1>t, <2>1 DEF EndTransaction, Goto, TypeInv, TypeOK, Deciding, AtConversation
  <2>3. ASSUME NEW u \in Ingests \ {t} PROVE FollowedOf(u)'
    <3>1. ASSUME pc[u] \in Deciding, NEW c \in Mentioned(request[u])
          PROVE  conversations'[c] = conversations[c]
      <4>1. c \notin Mentioned(request[t]) /\ request[u] \in Requests
        BY <1>t, <2>1, <3>1 DEF OneDecisionAtATime, Deciding, TypeInv, AtConversation
      <4> QED
        BY <1>7, <1>t, <3>1, <4>1, CommitElsewhere
    <3> QED
      BY <1>t, <2>1, <2>2, <3>1, OtherFollowed
  <2>4. FollowedOf(t)'
    BY <2>2 DEF FollowedOf
  <2> QED
    BY <2>3, <2>4 DEF Followed
<1>8. CASE UNCHANGED vars
  BY <1>8, <1>t, OtherFollowed DEF vars, database, Followed
<1> QED
  BY <1>1, <1>2, <1>3, <1>4, <1>5, <1>6, <1>7, <1>8 DEF WriterNext, Step
-----------------------------------------------------------------------------
(* The refinement: a commit is the store's one decision, every other step stutters. *)
StoreInv == AnswerInv /\ Scoped /\ Followed

(* A step of a writer keeps it, next to whole snapshots or among batches alone, *)
LEMMA StoreInvStep ==
  ASSUME PlainCalls \/ OnlyBatches, OneDecisionAtATime, StoreInv, [WriterNext]_vars
  PROVE  StoreInv'
<1>1. ScopeInv
  BY DEF StoreInv, AnswerInv, DecisionInv, ReplacementInv, EvidenceInv, ScopeInv
<1>2. [Next]_vars
  BY DEF WriterNext, Next
<1>3. Scoped'
  BY <1>1, <1>2, ScopeStep DEF StoreInv
<1>4. AnswerInv' /\ Followed'
  BY AnswerStep, DecisionInvStep, FollowedStep DEF StoreInv, AnswerInv
<1> QED
  BY <1>3, <1>4 DEF StoreInv

(* and it holds before any call has started. *)
LEMMA StoreInit == Init => StoreInv
<1> SUFFICES ASSUME Init PROVE StoreInv
  OBVIOUS
<1>1. Followed
  BY DEF Init, Followed, FollowedOf, Deciding, AtConversation
<1> QED
  BY <1>1, DecisionInit, ScopeInit
     DEF StoreInv, AnswerInv, Answers, AnswerOf, ReceiptOf, ScopeInv, Init

(* The store takes the copies a committing call pended, and marks the scopes it
   replaces as the call did. *)
LEMMA SameTaken ==
  ASSUME TypeInv, NEW t \in Ingests, DecisionOf(t), pc[t] = "commit"
  PROVE  /\ Store!Taken(request[t]) = {copy \in Decided(t) : TakenBy(copy)}
         /\ Store!Taken(request[t]) = {copy \in CopiesOf(request[t]) : TakenBy(copy)}
         /\ \A copy \in CopiesOf(request[t]) :
              pending[t][copy.id] = IF TakenBy(copy) THEN copy.row ELSE None
BY AllDecided
   DEF Store!Taken, Store!CopiesOf, CopiesOf, TakenBy, DecisionOf, Deciding

(* The scopes it replaces the graph of, and those it creates, are the store's too. *)
LEMMA SameAuthoritative ==
  ASSUME LockInv, NEW t \in Ingests, DecisionOf(t), ScopeOf(t), pc[t] = "commit"
  PROVE  /\ Store!Authoritative(request[t]) = Authoritative(t)
         /\ scopes \cup work[t].created = scopes \cup Store!LockedScopes(request[t])
<1>1. TypeInv /\ request[t] \in Requests
  BY DEF LockInv, TypeInv
<1>2. Store!LockedScopes(request[t]) = LockedScopes(request[t])
  BY DEF Store!LockedScopes, LockedScopes, Store!CopiesOf, CopiesOf
<1>3. work[t].created = LockedScopes(request[t]) \ scopes
  BY DEF ScopeOf, LockInv, ScopesHeld, Deciding
<1>4. /\ work[t].stale = Store!MachinesOf({copy \in CopiesOf(request[t]) : Store!Stale(copy)})
      /\ work[t].richer = Store!MachinesOf({copy \in CopiesOf(request[t]) : Store!Richer(copy)})
  BY <1>1, AllDecided DEF DecisionOf, Deciding
<1>5. Store!CopiesOf(request[t]) = CopiesOf(request[t])
  BY DEF Store!CopiesOf, CopiesOf
<1> QED
  BY <1>1, <1>2, <1>3, <1>4, <1>5 DEF Store!Authoritative, Authoritative

(* The rows a commit leaves are those the store chooses: at most one copy of a
   conversation is taken. *)
LEMMA CommitConversations ==
  ASSUME TypeInv, EvidenceStands, Replacement, NEW t \in Ingests, DecisionOf(t), Commit(t)
  PROVE  conversations' =
           [c \in Conversations |->
              IF \E copy \in Store!Taken(request[t]) : copy.id = c
              THEN (CHOOSE copy \in Store!Taken(request[t]) : copy.id = c).row
              ELSE conversations[c]]
<1>1. pc[t] = "commit" /\ request[t] \in Requests
  BY DEF Commit, TypeInv
<1>2. conversations' = [c \in Conversations |->
                          IF pending[t][c] = None THEN conversations[c] ELSE pending[t][c]]
  BY DEF Commit
<1>3. \A x, y \in CopiesOf(request[t]) : x.id = y.id => x = y
  BY <1>1, UniqueIds DEF CopiesOf
<1>4. ASSUME NEW c \in Conversations
      PROVE  (IF pending[t][c] = None THEN conversations[c] ELSE pending[t][c])
               = IF \E copy \in Store!Taken(request[t]) : copy.id = c
                 THEN (CHOOSE copy \in Store!Taken(request[t]) : copy.id = c).row
                 ELSE conversations[c]
  <2>1. CASE \E copy \in Store!Taken(request[t]) : copy.id = c
    <3> DEFINE taken == CHOOSE copy \in Store!Taken(request[t]) : copy.id = c
    <3>1. taken \in Store!Taken(request[t]) /\ taken.id = c
      BY <2>1
    <3>2. taken \in CopiesOf(request[t]) /\ TakenBy(taken)
      BY <1>1, <3>1, SameTaken
    <3>3. pending[t][c] = taken.row /\ taken.row # None
      BY <1>1, <3>1, <3>2, SameTaken, CopyTypes
    <3> QED
      BY <2>1, <3>3
  <2>2. CASE ~\E copy \in Store!Taken(request[t]) : copy.id = c
    <3>1. pending[t][c] = None
      <4> SUFFICES ASSUME pending[t][c] # None PROVE FALSE
        OBVIOUS
      <4>1. c \in Mentioned(request[t])
        BY DEF EvidenceStands, EvidenceOf
      <4>2. PICK copy \in CopiesOf(request[t]) : copy.id = c
        BY <4>1 DEF Mentioned
      <4>3. TakenBy(copy)
        BY <1>1, <4>2, SameTaken
      <4> QED
        BY <1>1, <2>2, <4>2, <4>3, SameTaken
    <3> QED
      BY <2>2, <3>1
  <2> QED
    BY <2>1, <2>2
<1> QED
  BY <1>2, <1>4

(* So are the child rows. *)
LEMMA CommitChildren ==
  ASSUME TypeInv, EvidenceStands, Replacement, NEW t \in Ingests, DecisionOf(t), Commit(t)
  PROVE  children' =
           {ch \in children : \A copy \in Store!Taken(request[t]) : copy.id # ch.conversation}
             \cup UNION {Store!ChildRows(copy) : copy \in Store!Taken(request[t])}
<1>1. pc[t] = "commit" /\ request[t] \in Requests
  BY DEF Commit, TypeInv
<1>2. children' = (children \ work[t].removed) \cup work[t].added
  BY DEF Commit, CommittedChildren
<1>3. \A x, y \in CopiesOf(request[t]) : x.id = y.id => x = y
  BY <1>1, UniqueIds DEF CopiesOf
<1>4. \A c \in Conversations :
        pending[t][c] # None <=> \E copy \in Store!Taken(request[t]) : copy.id = c
  <2> SUFFICES ASSUME NEW c \in Conversations
               PROVE pending[t][c] # None <=> \E copy \in Store!Taken(request[t]) : copy.id = c
    OBVIOUS
  <2>1. ASSUME NEW copy \in Store!Taken(request[t]), copy.id = c PROVE pending[t][c] # None
    BY <1>1, <2>1, SameTaken, CopyTypes
  <2>2. ASSUME pending[t][c] # None
        PROVE  \E copy \in Store!Taken(request[t]) : copy.id = c
    <3>1. PICK copy \in CopiesOf(request[t]) : copy.id = c
      BY <2>2 DEF EvidenceStands, EvidenceOf, Mentioned
    <3> QED
      BY <1>1, <2>2, <3>1, SameTaken
  <2> QED
    BY <2>1, <2>2
<1>5. \A ch \in children : ch \in work[t].removed <=> pending[t][ch.conversation] # None
  <2>1. \A ch \in children : ch.conversation \in Conversations
    BY DEF TypeInv, TypeOK, ChildRow
  <2>2. \A c \in Conversations : c \in Cleared(t) <=> pending[t][c] # None
    BY <1>1 DEF Cleared
  <2> QED
    BY <2>1, <2>2 DEF Replacement, ReplacementOf
<1>6. \A ch \in children : ch.conversation \in Conversations
  BY DEF TypeInv, TypeOK, ChildRow
<1>7. ASSUME NEW copy \in Store!Taken(request[t])
      PROVE  {ch \in work[t].added : ch.conversation = copy.id} = ChildRows(copy)
  <2>1. copy \in CopiesOf(request[t]) /\ copy.id \in Conversations
    BY <1>1, <1>7, SameTaken, CopyTypes
  <2>2. PICK i \in 1..Len(request[t].conversations) : ComesFrom(t, copy.id, i)
    BY <1>4, <1>7, <2>1 DEF Replacement, ReplacementOf
  <2>3. /\ request[t].conversations[i].id = copy.id
        /\ {ch \in work[t].added : ch.conversation = copy.id}
             = ChildRows(request[t].conversations[i])
    BY <1>1, <2>2 DEF ComesFrom, Flushed
  <2>4. request[t].conversations[i] = copy
    BY <1>3, <2>1, <2>3 DEF CopiesOf
  <2> QED
    BY <2>3, <2>4
<1>8. \A ch \in work[t].added :
        \E copy \in Store!Taken(request[t]) : copy.id = ch.conversation
  <2>1. \A ch \in work[t].added : ch.conversation \in Conversations
    BY DEF TypeInv, TypeOK, Work, ChildRow
  <2> QED
    BY <1>4, <2>1 DEF Replacement, ReplacementOf
<1>9. work[t].added = UNION {Store!ChildRows(copy) : copy \in Store!Taken(request[t])}
  <2>1. \A copy : Store!ChildRows(copy) = ChildRows(copy)
    BY DEF Store!ChildRows, ChildRows
  <2>2. ASSUME NEW ch \in work[t].added
        PROVE  \E copy \in Store!Taken(request[t]) : ch \in Store!ChildRows(copy)
    BY <1>7, <1>8, <2>1
  <2>3. ASSUME NEW copy \in Store!Taken(request[t])
        PROVE  Store!ChildRows(copy) \subseteq work[t].added
    BY <1>7, <2>1
  <2> QED
    BY <2>2, <2>3
<1>10. children \ work[t].removed
         = {ch \in children : \A copy \in Store!Taken(request[t]) : copy.id # ch.conversation}
  BY <1>4, <1>5, <1>6
<1> QED
  BY <1>2, <1>9, <1>10

(* So is the graph: a batch's marks are the store's. *)
LEMMA SameBatchEdges ==
  ASSUME TypeInv, NEW t \in Ingests, DecisionOf(t), FollowedOf(t), pc[t] = "commit",
         request[t].merge
  PROVE  /\ WrittenEdges(t) = Store!WrittenEdges(request[t])
         /\ KeptEdges(t) = Store!KeptEdges(request[t])
<1> DEFINE r == request[t]
<1>1. /\ Store!Taken(r) = {copy \in CopiesOf(r) : TakenBy(copy)}
      /\ Decided(t) = CopiesOf(r) /\ Store!CopiesOf(r) = CopiesOf(r)
  BY SameTaken, AllDecided DEF Store!CopiesOf, CopiesOf
<1>2. /\ work[t].wrote = {PairOf(copy) : copy \in {x \in CopiesOf(r) : TakenBy(x)}}
      /\ work[t].kept = {PairOf(copy) : copy \in {x \in CopiesOf(r) : KeptBy(x)}}
  BY <1>1 DEF FollowedOf, Deciding
<1>3. \A e : /\ <<e.source_machine, e.child>> \in work[t].wrote
                  <=> Store!CopyOfChild(r, e) \cap Store!Taken(r) # {}
             /\ <<e.source_machine, e.child>> \in work[t].kept
                  <=> \E copy \in Store!CopyOfChild(r, e) : KeptBy(copy)
  BY <1>1, <1>2 DEF Store!CopyOfChild, PairOf
<1>4. \A e, copy : copy \in Store!CopyOfChild(r, e) =>
        copy.id = e.child /\ copy.row.source_machine = e.source_machine
  BY DEF Store!CopyOfChild
<1>5. WrittenEdges(t) = Store!WrittenEdges(r)
  BY <1>3 DEF WrittenEdges, Store!WrittenEdges
<1>6. KeptEdges(t) = Store!KeptEdges(r)
  BY <1>3, <1>4 DEF KeptEdges, Store!KeptEdges, KeptBy
<1> QED
  BY <1>5, <1>6

(* Whole snapshot or batch, the graph a commit leaves is the one the store chooses. *)
LEMMA CommitEdges ==
  ASSUME StoreInv, NEW t \in Ingests, Commit(t), NEW r, r = request[t]
  PROVE  graph' = {g \in graph : /\ g.source_machine \notin Store!Authoritative(r)
                                 /\ \A e \in Store!WrittenEdges(r) : e.child # g.child}
                    \cup {e \in r.subagents : e.source_machine \in Store!Authoritative(r)}
                    \cup Store!WrittenEdges(r) \cup Store!KeptEdges(r)
<1>t. TypeInv /\ LockInv /\ DecisionOf(t) /\ ScopeOf(t) /\ FollowedOf(t) /\ pc[t] = "commit"
  BY DEF StoreInv, AnswerInv, DecisionInv, Decisions, ReplacementInv, EvidenceInv,
         LockInv, Scoped, Followed, Commit
<1>1. Store!Authoritative(r) = Authoritative(t)
  BY <1>t, SameAuthoritative
<1>2. CASE ~r.merge
  <2>1. Store!WrittenEdges(r) = {} /\ Store!KeptEdges(r) = {}
    BY <1>2 DEF Store!WrittenEdges, Store!KeptEdges
  <2> QED
    BY <1>t, <1>1, <1>2, <2>1, CommitGraph
<1>3. CASE r.merge
  <2>1. graph' = (graph \ work[t].gone) \cup work[t].linked
    BY DEF Commit
  <2>2. /\ WrittenEdges(t) = Store!WrittenEdges(r) /\ KeptEdges(t) = Store!KeptEdges(r)
        /\ Authoritative(t) = {}
    BY <1>t, <1>3, SameBatchEdges DEF Authoritative
  <2>3. /\ \A g \in graph : g \in work[t].gone <=> \E e \in WrittenEdges(t) : e.child = g.child
        /\ work[t].linked = WrittenEdges(t) \cup KeptEdges(t)
    BY <1>t, <2>2 DEF ScopeOf, EdgesGone, EdgesLinked
  <2> QED
    BY <1>1, <2>1, <2>2, <2>3
<1> QED
  BY <1>2, <1>3

(* A commit is the store's decision on its request. *)
LEMMA CommitDecides ==
  ASSUME StoreInv, NEW t \in Ingests, Commit(t)
  PROVE  Store!Ingest(t, request[t]) /\ request[t] \in Requests
<1> DEFINE r == request[t]
<1>t. /\ TypeInv /\ LockInv /\ EvidenceStands /\ Replacement
      /\ DecisionOf(t) /\ AnswerOf(t) /\ ScopeOf(t)
  BY DEF StoreInv, AnswerInv, Answers, DecisionInv, Decisions, ReplacementInv, EvidenceInv,
         LockInv, Scoped
<1>1. pc[t] = "commit" /\ r \in Requests /\ Len(r.conversations) \in Nat
  BY <1>t, RequestFields DEF Commit, TypeInv
<1>2. runs[t] = None /\ (r.key # None => receipts[r.key] = None)
  BY <1>t, <1>1 DEF Commit, ReceiptFree, AnswerOf
<1>3. receipts' = IF r.key = None THEN receipts ELSE [receipts EXCEPT ![r.key] = t]
  BY DEF Commit
<1>5. graph' = {g \in graph : /\ g.source_machine \notin Store!Authoritative(r)
                              /\ \A e \in Store!WrittenEdges(r) : e.child # g.child}
                 \cup {e \in r.subagents : e.source_machine \in Store!Authoritative(r)}
                 \cup Store!WrittenEdges(r) \cup Store!KeptEdges(r)
  BY CommitEdges
<1>6. scopes' = scopes \cup Store!LockedScopes(r)
  BY <1>t, <1>1, SameAuthoritative DEF Commit
<1>7. runs' = [runs EXCEPT ![t] =
                 [received |-> Len(r.conversations),
                  written |-> Store!Cardinality(Store!Taken(r)),
                  skipped |-> Len(r.conversations) - Store!Cardinality(Store!Taken(r))]]
  <2>0. Store!Cardinality(Store!Taken(r)) = Cardinality(Store!Taken(r))
    BY DEF Store!Cardinality, Cardinality
  <2>1. work[t].written = Store!Cardinality(Store!Taken(r))
    BY <1>t, <1>1, <2>0, SameTaken DEF DecisionOf, Deciding
  <2>2. work[t].skipped = pos[t] - 1 - work[t].written /\ pos[t] = Len(r.conversations) + 1
    BY <1>t, <1>1 DEF DecisionOf, Deciding, TypeInv, TypeOK
  <2>3. work[t].written \in Nat
    BY <1>t DEF TypeInv, TypeOK, Work
  <2>4. work[t].skipped = Len(r.conversations) - work[t].written
    BY <1>1, <2>2, <2>3
  <2> QED
    BY <2>1, <2>4 DEF Commit
<1>8. /\ conversations' =
           [c \in Conversations |->
              IF \E copy \in Store!Taken(r) : copy.id = c
              THEN (CHOOSE copy \in Store!Taken(r) : copy.id = c).row
              ELSE conversations[c]]
      /\ children' =
           {ch \in children : \A copy \in Store!Taken(r) : copy.id # ch.conversation}
             \cup UNION {Store!ChildRows(copy) : copy \in Store!Taken(r)}
  BY <1>t, CommitConversations, CommitChildren
<1> QED
  BY <1>1, <1>2, <1>3, <1>5, <1>6, <1>7, <1>8 DEF Store!Ingest

(* Every step of a writer is a decision of the store or none. *)
LEMMA StoreStep ==
  ASSUME StoreInv, [WriterNext]_vars
  PROVE  [Store!Next]_(Store!vars)
<1>1. ASSUME NEW t \in Ingests, Commit(t) PROVE Store!Next
  BY <1>1, CommitDecides DEF Store!Next
<1>2. ASSUME NEW t \in Ingests, Step(t), ~Commit(t) PROVE UNCHANGED Store!vars
  BY <1>2
     DEF Step, Call, Replay, LockScope, ScopesLocked, Get, StartClear, Clear, Merge,
         FlushRow, FlushConflict, FlushStale, AddChildren, AddConflict,
         ConversationsDone, WriteGraph, ReceiptConflict, Fail,
         IntegrityError, database, Store!vars
<1>3. CASE UNCHANGED vars
  BY <1>3 DEF vars, database, Store!vars
<1> QED
  BY <1>1, <1>2, <1>3 DEF WriterNext

BatchCalls == \A r \in Requests : r.merge

(* Every step of a writer keeps what the calls have decided, marked and answered. *)
LEMMA StoreInvKept ==
  ASSUME ScopesSerialize, PlainCalls \/ BatchCalls, StoreInv, [WriterNext]_vars
  PROVE  StoreInv'
<1>1. LockInv
  BY DEF StoreInv, AnswerInv, DecisionInv, ReplacementInv, EvidenceInv
<1>2. PlainCalls \/ OnlyBatches
  BY <1>1 DEF BatchCalls, OnlyBatches, LockInv, TypeInv, TypeOK
<1> QED
  BY <1>1, <1>2, Apart, StoreInvStep

(* The calls, statement by statement and however they interleave, implement the
   store: each commits what its whole decision, taken at once on the state it
   replaces, would have produced, and nothing else is ever stored.  Whole snapshots
   do, and merge batches do. *)
THEOREM CallsImplementStore ==
  ScopesSerialize /\ (PlainCalls \/ BatchCalls) => (WriterSpec => ImplementsStore)
<1> SUFFICES ASSUME ScopesSerialize, PlainCalls \/ BatchCalls PROVE WriterSpec => ImplementsStore
  OBVIOUS
<1>1. Init => StoreInv /\ Store!Init
  BY StoreInit DEF Init, Store!Init
<1>2. StoreInv /\ [WriterNext]_vars => StoreInv'
  BY StoreInvKept
<1>3. StoreInv /\ [WriterNext]_vars => [Store!Next]_(Store!vars)
  BY StoreStep
<1> QED
  BY <1>1, <1>2, <1>3, PTL DEF WriterSpec, WriterNext, ImplementsStore, Store!Spec

(* An edge a batch adds comes with the copy its child is stored with: the one the
   commit writes, or the identical one that the batch found stored. *)
LEMMA EdgesFollow ==
  ASSUME StoreInv, OnlyBatches, [WriterNext]_vars
  PROVE  EdgesFollowCopies
<1>1. ASSUME NEW t \in Ingests, Commit(t) PROVE EdgesFollowCopies
  <2> DEFINE r == request[t]
  <2>1. /\ TypeInv /\ DecisionOf(t) /\ ScopeOf(t) /\ FollowedOf(t)
        /\ pc[t] = "commit" /\ r \in Requests
    BY <1>1 DEF StoreInv, AnswerInv, DecisionInv, Decisions, ReplacementInv, EvidenceInv,
       LockInv, TypeInv, Scoped, Followed, Commit
  <2>2. r.merge
    BY <2>1, NoneAssumption DEF OnlyBatches
  <2>3. /\ Decided(t) = CopiesOf(r)
        /\ \A copy \in CopiesOf(r) :
             pending[t][copy.id] = IF TakenBy(copy) THEN copy.row ELSE None
    BY <2>1, AllDecided, SameTaken
  <2>4. \A copy \in CopiesOf(r) :
          TakenBy(copy) \/ KeptBy(copy) => copy.row = conversations'[copy.id]
    <3> SUFFICES ASSUME NEW copy \in CopiesOf(r), TakenBy(copy) \/ KeptBy(copy)
                 PROVE  copy.row = conversations'[copy.id]
      OBVIOUS
    <3>1. copy.id \in Conversations /\ copy.row \in Rows /\ copy.row # None
      BY <2>1, CopyTypes
    <3>2. conversations'[copy.id] = IF TakenBy(copy) THEN copy.row ELSE conversations[copy.id]
      BY <1>1, <2>3, <3>1 DEF Commit
    <3>3. CASE ~TakenBy(copy)
      <4>1. conversations[copy.id] \in Rows
        BY <2>1, <3>1, <3>3 DEF TypeInv, TypeOK, TakenBy, Store!Stored
      <4>2. /\ copy.row.event_count = conversations[copy.id].event_count
            /\ copy.row.content_hash = conversations[copy.id].content_hash
            /\ copy.row.source_machine = conversations[copy.id].source_machine
        BY <3>3 DEF KeptBy, Store!SameRank
      <4>3. copy.row = conversations[copy.id]
        BY <3>1, <4>1, <4>2 DEF Rows
      <4> QED
        BY <3>2, <3>3, <4>3
    <3> QED
      BY <3>2, <3>3
  <2>5. ASSUME NEW e \in graph' \ graph
        PROVE  e \in r.subagents /\ \E copy \in CopiesOf(r) :
                 copy.id = e.child /\ (TakenBy(copy) \/ KeptBy(copy))
    <3>1. e \in WrittenEdges(t) \cup KeptEdges(t)
      BY <1>1, <2>1, <2>2 DEF Commit, ScopeOf, EdgesLinked, Authoritative
    <3>2. /\ e \in r.subagents
          /\ <<e.source_machine, e.child>> \in work[t].wrote \cup work[t].kept
      BY <3>1 DEF WrittenEdges, KeptEdges
    <3> QED
      BY <2>1, <2>2, <2>3, <3>2 DEF FollowedOf, Deciding, PairOf
  <2> QED
    BY <2>1, <2>4, <2>5 DEF EdgesFollowCopies
<1>2. ASSUME NEW t \in Ingests, Step(t), ~Commit(t) PROVE graph' = graph
  BY <1>2
     DEF Step, Call, Replay, LockScope, ScopesLocked, Get, StartClear, Clear, Merge,
         FlushRow, FlushConflict, FlushStale, AddChildren, AddConflict,
         ConversationsDone, WriteGraph, ReceiptConflict, Fail,
         IntegrityError, database
<1>3. CASE UNCHANGED vars
  BY <1>3 DEF vars, database, EdgesFollowCopies
<1> QED
  BY <1>1, <1>2, <1>3 DEF WriterNext, EdgesFollowCopies

(* When all calls are merge batches a relationship is only ever added next to the
   copy that brought it. *)
THEOREM EdgesFollowAlways ==
  ScopesSerialize /\ BatchCalls => (WriterSpec => [][EdgesFollowCopies]_vars)
<1> SUFFICES ASSUME ScopesSerialize, BatchCalls
             PROVE  WriterSpec => [][EdgesFollowCopies]_vars
  OBVIOUS
<1>1. StoreInv => OnlyBatches
  BY DEF BatchCalls, OnlyBatches, StoreInv, AnswerInv, DecisionInv, ReplacementInv,
     EvidenceInv, LockInv, TypeInv, TypeOK
<1>2. StoreInv /\ [WriterNext]_vars => StoreInv'
  BY StoreInvKept
<1>3. StoreInv /\ [WriterNext]_vars => EdgesFollowCopies
  BY <1>1, EdgesFollow
<1> QED
  BY <1>2, <1>3, StoreInit, PTL DEF WriterSpec, WriterNext

(* The settings of the run whose calls race: a call that has not started has no
   arguments, and one that has keeps them, so a behaviour that is in a setting now
   has always been in it. *)
Uncalled == \A t \in Ingests : pc[t] = "idle" => request[t] = None

(* Every step keeps the arguments of the calls that have started. *)
LEMMA UncalledStep ==
  ASSUME TypeInv, Uncalled, [Next]_vars
  PROVE  /\ Uncalled'
         /\ \A t \in Ingests : request[t] # None => request'[t] = request[t]
<1> USE DEF TypeInv, TypeOK, Uncalled
<1>1. ASSUME NEW t \in Ingests, NEW r \in Requests, Call(t, r)
      PROVE  /\ Uncalled'
             /\ \A u \in Ingests : request[u] # None => request'[u] = request[u]
  <2>1. pc'[t] # "idle" /\ \A u \in Ingests \ {t} : pc'[u] = pc[u] /\ request'[u] = request[u]
    BY <1>1 DEF Call, Goto
  <2> QED
    BY <1>1, <2>1 DEF Call
<1>2. ASSUME NEW t \in Ingests, Step(t), \A r \in Requests : ~Call(t, r)
      PROVE  request' = request /\ \A u \in Ingests : pc'[u] = "idle" => pc[u] = "idle"
  BY <1>2
     DEF Step, Replay, LockScope, ScopesLocked, Get, StartClear, Clear, Merge,
         FlushRow, FlushConflict, FlushStale, AddChildren, AddConflict,
         ConversationsDone, WriteGraph, Commit, ReceiptConflict, Fail,
         IntegrityError, Goto
<1>3. ASSUME NEW C \in SUBSET Conversations, NEW E \in SUBSET graph,
             NEW R \in SUBSET Ingests, Retain(C, E, R)
      PROVE request' = request /\ pc' = pc
  BY <1>3 DEF Retain
<1>4. CASE UNCHANGED vars
  BY <1>4 DEF vars
<1> QED
  BY <1>1, <1>2, <1>3, <1>4 DEF Next, Retention

(* So what all calls ask for after a step, those before it did. *)
LEMMA AskedBefore ==
  ASSUME NEW asked, TypeInv, Uncalled, [Next]_vars, AskedOf(asked)'
  PROVE  AskedOf(asked)
BY UncalledStep DEF AskedOf

(* The batches of the run lock the one scope of their edges. *)
LEMMA BatchesShareScope ==
  /\ \A r \in MergeRequests : r.merge /\ 1 \in LockedScopes(r)
  /\ SerializeAmong(MergeRequests)
<1>1. ASSUME NEW copies, NEW edges, NEW c, NEW p, Edge(1, c, p) \in edges
      PROVE  /\ Batch(copies, edges).merge
             /\ \E e \in Batch(copies, edges).subagents : e.source_machine = 1
  BY <1>1 DEF Batch, Edge
<1>2. \A r \in MergeRequests : r.merge /\ \E e \in r.subagents : e.source_machine = 1
  BY <1>1 DEF MergeRequests
<1>3. \A r \in MergeRequests : 1 \in LockedScopes(r)
  BY <1>2 DEF LockedScopes
<1> QED
  BY <1>2, <1>3 DEF SerializeAmong

(* As long as every call that has started is one of the run's batches, the writers'
   invariant stands and a step is at most one decision of the store. *)
LEMMA BatchesStep ==
  ASSUME LockInv, Uncalled, Batches => StoreInv, [ElsewhereNext]_vars
  PROVE  /\ Batches' => StoreInv'
         /\ Batches => [Store!Next]_database /\ EdgesFollowCopies
<1>1. [Next]_vars
  BY DEF ElsewhereNext, Next
<1>2. ASSUME Batches
      PROVE  /\ StoreInv /\ [WriterNext]_vars
             /\ OneDecisionAtATime /\ OnlyBatches
  <2>1. [WriterNext]_vars
    BY <1>2 DEF ElsewhereNext, WriterNext
  <2>2. OneDecisionAtATime
    BY <1>2, BatchesShareScope, ApartAmong DEF Batches, AskedOf
  <2>3. OnlyBatches
    BY <1>2, BatchesShareScope DEF Batches, AskedOf, OnlyBatches
  <2> QED
    BY <1>2, <2>1, <2>2, <2>3
<1>3. ASSUME Batches' PROVE StoreInv'
  <2>1. Batches
    BY <1>1, <1>3, AskedBefore DEF Batches, LockInv
  <2> QED
    BY <1>2, <2>1, StoreInvStep
<1>4. ASSUME Batches PROVE [Store!Next]_database /\ EdgesFollowCopies
  BY <1>2, <1>4, StoreStep, EdgesFollow DEF database, Store!vars
<1> QED
  BY <1>3, <1>4

(* Among the calls of the run that race, batches take one serialized decision each and
   add a relationship only next to the copy that brought it. *)
THEOREM BatchesDecideOnceAlways == ElsewhereSpec => BatchesDecideOnce
<1> DEFINE Inv == LockInv /\ Uncalled /\ (Batches => StoreInv)
<1>1. Init => Inv
  BY LockInit, StoreInit DEF Init, Uncalled
<1>2. Inv /\ [ElsewhereNext]_vars => Inv'
  <2> SUFFICES ASSUME Inv, [ElsewhereNext]_vars PROVE Inv'
    OBVIOUS
  <2>1. [Next]_vars
    BY DEF ElsewhereNext, Next
  <2>2. LockInv' /\ Uncalled'
    BY <2>1, LockStep, UncalledStep DEF LockInv
  <2> QED
    BY <2>2, BatchesStep
<1>3. Inv /\ [ElsewhereNext]_vars
        => (Batches => [Store!Next]_database /\ EdgesFollowCopies)
  BY BatchesStep
<1> QED
  BY <1>1, <1>2, <1>3, PTL DEF ElsewhereSpec, BatchesDecideOnce
-----------------------------------------------------------------------------
(* The constraints of the schema, whoever races: what a call is about to insert it
   has locked, clashes with no stored row it does not remove, and stands next to
   the conversation row it pends. *)
KeysOf(t) ==
  /\ pc[t] \notin Deciding => work[t].added = {} /\ work[t].linked = {}
  /\ pc[t] = "add" => pending[t][Current(t).id] # None
  /\ \A ch \in work[t].added :
       /\ ChildLock(ch) \in held[t]
       /\ pending[t][ch.conversation] # None
       /\ \E i \in 1..Len(request[t].conversations) :
            i < pos[t] /\ request[t].conversations[i].id = ch.conversation
       /\ \A x \in work[t].added : ChildLock(x) = ChildLock(ch) => x = ch
       /\ \A x \in children : ChildLock(x) = ChildLock(ch) => x \in work[t].removed
  /\ \A e \in work[t].linked :
       /\ EdgeLock(e) \in held[t]
       /\ \A x \in work[t].linked : EdgeLock(x) = EdgeLock(e) => x = e
       /\ \A g \in graph : EdgeLock(g) = EdgeLock(e) => g \in work[t].gone
Keyed == \A t \in Ingests : KeysOf(t)
SchemaInv == LockInv /\ Keyed /\ SchemaConstraints

(* A step of another call, or of retention, that stores no row this call has locked
   leaves what it is about to insert without a clash. *)
LEMMA OtherKeys ==
  ASSUME NEW u \in Ingests, KeysOf(u),
         pc'[u] = pc[u], pos'[u] = pos[u], request'[u] = request[u],
         pending'[u] = pending[u], work'[u] = work[u], held'[u] = held[u],
         \A x \in children' : x \in children \/ ChildLock(x) \notin held[u],
         \A g \in graph' : g \in graph \/ EdgeLock(g) \notin held[u]
  PROVE  KeysOf(u)'
<1>1. Current(u)' = Current(u)
  BY DEF Current
<1>2. ASSUME NEW ch \in work[u].added
      PROVE  \A x \in children' : ChildLock(x) = ChildLock(ch) => x \in work[u].removed
  BY <1>2 DEF KeysOf
<1>3. ASSUME NEW e \in work[u].linked
      PROVE  \A g \in graph' : EdgeLock(g) = EdgeLock(e) => g \in work[u].gone
  BY <1>3 DEF KeysOf
<1> QED
  BY <1>1, <1>2, <1>3 DEF KeysOf, ChildLock, EdgeLock, EdgeId

(* A step of this call that inserts nothing does too. *)
LEMMA SameKeys ==
  ASSUME TypeInv, NEW t \in Ingests, KeysOf(t), children' = children, graph' = graph,
         pc[t] \in Deciding => pc'[t] \in Deciding,
         pc'[t] # "add" \/ pending'[t][Current(t)'.id] # None,
         pos'[t] \in {pos[t], pos[t] + 1}, request'[t] = request[t],
         \A ch \in work[t].added : pending'[t][ch.conversation] # None,
         held[t] \subseteq held'[t],
         work'[t].added = work[t].added, work[t].removed \subseteq work'[t].removed,
         work'[t].gone = work[t].gone, work'[t].linked = work[t].linked
  PROVE  KeysOf(t)'
<1>1. pos[t] \in Nat
  BY DEF TypeInv, TypeOK
<1>2. ASSUME NEW ch \in work[t].added
      PROVE  \E i \in 1..Len(request[t].conversations) :
               i < pos'[t] /\ request[t].conversations[i].id = ch.conversation
  BY <1>1, <1>2 DEF KeysOf
<1> QED
  BY <1>2 DEF KeysOf, ChildLock, EdgeLock, EdgeId

(* A call that has ended its transaction inserts nothing. *)
LEMMA EndKeys ==
  ASSUME TypeInv, NEW t \in Ingests, EndTransaction(t), NEW step, Goto(t, step),
         step \notin AtConversation
  PROVE  /\ KeysOf(t)'
         /\ \A u \in Ingests \ {t} :
              /\ pc'[u] = pc[u] /\ pos'[u] = pos[u] /\ pending'[u] = pending[u]
              /\ work'[u] = work[u] /\ held'[u] = held[u]
<1>1. /\ work'[t] = Fresh /\ pc'[t] = step
      /\ \A u \in Ingests \ {t} :
           /\ pc'[u] = pc[u] /\ pos'[u] = pos[u] /\ pending'[u] = pending[u]
           /\ work'[u] = work[u] /\ held'[u] = held[u]
  BY DEF EndTransaction, Goto, TypeInv, TypeOK
<1>2. KeysOf(t)'
  BY <1>1 DEF KeysOf, Fresh, AtConversation
<1> QED
  BY <1>1, <1>2

(* AddChildren inserts rows whose keys are free, under a conversation whose rows it
   has not inserted yet. *)
LEMMA AddKeys ==
  ASSUME TypeInv, NEW t \in Ingests, KeysOf(t), AddChildren(t)
  PROVE  KeysOf(t)'
<1> DEFINE copy == Current(t)
<1>1. /\ pc[t] = "add" /\ pc'[t] = "get" /\ pos'[t] = pos[t] + 1
      /\ request' = request /\ pending' = pending /\ children' = children /\ graph' = graph
      /\ request[t] \in Requests
      /\ pos[t] \in 1..Len(request[t].conversations)
      /\ Current(t) = request[t].conversations[pos[t]]
      /\ ~KeyTaken(t)
      /\ held'[t] = held[t] \cup {ChildLock(ch) : ch \in ChildRows(copy)}
  BY DEF AddChildren, Goto, Hold, TypeInv, TypeOK, database, Current, AtConversation
<1>2. /\ work'[t].added = work[t].added \cup ChildRows(copy)
      /\ work'[t].removed = work[t].removed
      /\ work'[t].gone = work[t].gone /\ work'[t].linked = work[t].linked
  BY DEF AddChildren, TypeInv, TypeOK, Work
<1>3. \A ch \in ChildRows(copy) : ch.conversation = copy.id /\ ch.id \in copy.rows
  BY DEF ChildRows
<1>4. \A x, ch \in ChildRows(copy) : ChildLock(x) = ChildLock(ch) => x = ch
  BY DEF ChildRows, ChildLock
<1>5. \A ch \in work[t].added : ch.conversation # copy.id
  BY <1>1, UniqueIds DEF KeysOf
<1>6. \A ch \in work[t].added, x \in ChildRows(copy) : ChildLock(ch) # ChildLock(x)
  BY <1>3, <1>5 DEF ChildLock
<1>7. ASSUME NEW ch \in ChildRows(copy), NEW x \in children, ChildLock(x) = ChildLock(ch)
      PROVE  x \in work[t].removed
  <2>1. x.conversation = copy.id /\ x.id \in copy.rows
    BY <1>3, <1>7 DEF ChildLock
  <2> QED
    BY <1>1, <2>1 DEF KeyTaken
<1>8. ASSUME NEW ch \in work'[t].added
      PROVE  /\ ChildLock(ch) \in held'[t]
             /\ pending[t][ch.conversation] # None
             /\ \E i \in 1..Len(request[t].conversations) :
                  i < pos[t] + 1 /\ request[t].conversations[i].id = ch.conversation
             /\ \A x \in work'[t].added : ChildLock(x) = ChildLock(ch) => x = ch
             /\ \A x \in children : ChildLock(x) = ChildLock(ch) => x \in work[t].removed
  <2>1. CASE ch \in work[t].added
    <3>1. PICK i \in 1..Len(request[t].conversations) :
            i < pos[t] /\ request[t].conversations[i].id = ch.conversation
      BY <2>1 DEF KeysOf
    <3>2. i < pos[t] + 1
      BY <1>1, <3>1
    <3>3. /\ ChildLock(ch) \in held'[t] /\ pending[t][ch.conversation] # None
          /\ \A x \in work'[t].added : ChildLock(x) = ChildLock(ch) => x = ch
          /\ \A x \in children : ChildLock(x) = ChildLock(ch) => x \in work[t].removed
      BY <1>1, <1>2, <1>6, <2>1 DEF KeysOf
    <3> QED
      BY <3>1, <3>2, <3>3
  <2>2. CASE ch \in ChildRows(copy)
    <3>1. /\ ChildLock(ch) \in held'[t] /\ pending[t][ch.conversation] # None
          /\ pos[t] < pos[t] + 1 /\ copy.id = ch.conversation
      BY <1>1, <1>3, <2>2 DEF KeysOf
    <3>2. \A x \in work'[t].added : ChildLock(x) = ChildLock(ch) => x = ch
      BY <1>2, <1>4, <1>6, <2>2
    <3> QED
      BY <1>1, <1>7, <2>2, <3>1, <3>2
  <2> QED
    BY <1>2, <2>1, <2>2
<1>9. \A e \in work[t].linked :
        /\ EdgeLock(e) \in held'[t]
        /\ \A x \in work[t].linked : EdgeLock(x) = EdgeLock(e) => x = e
        /\ \A g \in graph : EdgeLock(g) = EdgeLock(e) => g \in work[t].gone
  BY <1>1 DEF KeysOf
<1> QED
  BY <1>1, <1>2, <1>8, <1>9 DEF KeysOf, Deciding, ChildLock, EdgeLock, EdgeId

(* WriteGraph links edges of one snapshot, whose keys are unique, next to no stored
   edge of the same key that it leaves. *)
LEMMA GraphKeys ==
  ASSUME TypeInv, NEW t \in Ingests, KeysOf(t), WriteGraph(t)
  PROVE  KeysOf(t)'
<1>1. /\ pc'[t] = "commit" /\ pos' = pos
      /\ request' = request /\ pending' = pending /\ children' = children /\ graph' = graph
      /\ request[t] \in Requests
      /\ held'[t] = held[t] \cup {EdgeLock(e) : e \in EdgesGone(t) \cup EdgesLinked(t)}
  BY DEF WriteGraph, Goto, Hold, TypeInv, TypeOK, database
<1>2. /\ work'[t].added = work[t].added /\ work'[t].removed = work[t].removed
      /\ work'[t].gone = EdgesGone(t) /\ work'[t].linked = EdgesLinked(t)
  BY DEF WriteGraph, TypeInv, TypeOK, Work
<1>3. EdgesLinked(t) \subseteq request[t].subagents
  BY DEF EdgesLinked, WrittenEdges, KeptEdges
<1>4. \A x, e \in EdgesLinked(t) : EdgeLock(x) = EdgeLock(e) => x = e
  BY <1>1, <1>3, RequestsAssumption DEF Valid, EdgeLock
<1>5. ASSUME NEW e \in EdgesLinked(t), NEW g \in graph, EdgeLock(g) = EdgeLock(e)
      PROVE  g \in EdgesGone(t)
  <2>1. g.source_machine = e.source_machine /\ g.child = e.child
    BY <1>5 DEF EdgeLock, EdgeId
  <2> QED
    BY <1>5, <2>1 DEF EdgesLinked, EdgesGone, KeptEdges
<1>6. \A ch \in work[t].added :
        /\ ChildLock(ch) \in held'[t]
        /\ pending[t][ch.conversation] # None
        /\ \E i \in 1..Len(request[t].conversations) :
             i < pos[t] /\ request[t].conversations[i].id = ch.conversation
        /\ \A x \in work[t].added : ChildLock(x) = ChildLock(ch) => x = ch
        /\ \A x \in children : ChildLock(x) = ChildLock(ch) => x \in work[t].removed
  BY <1>1 DEF KeysOf
<1> QED
  BY <1>1, <1>2, <1>4, <1>5, <1>6 DEF KeysOf, Deciding, ChildLock, EdgeLock, EdgeId

(* FlushRow pends some row, whatever was read and whatever is stored. *)
LEMMA FlushedSome ==
  ASSUME TypeInv, NEW t \in Ingests, FlushRow(t)
  PROVE  /\ pending'[t][Current(t).id] # None
         /\ \A c \in Conversations \ {Current(t).id} : pending'[t][c] = pending[t][c]
<1> DEFINE copy == Current(t)
           row == IF loaded[t] = None THEN copy.row
                  ELSE [f \in DOMAIN copy.row |->
                          IF copy.row[f] # loaded[t][f] THEN copy.row[f]
                          ELSE conversations[copy.id][f]]
<1>1. /\ pending' = [pending EXCEPT ![t][copy.id] = row]
      /\ pc[t] = "flush"
      /\ (loaded[t] = None) = (conversations[copy.id] = None)
  BY DEF FlushRow
<1>2. copy.id \in Conversations /\ copy.row \in Rows
  BY <1>1, CurrentType DEF AtConversation
<1>3. row \in Rows
  <2>1. loaded[t] # None => conversations[copy.id] \in Rows
    BY <1>1, <1>2 DEF TypeInv, TypeOK
  <2> QED
    BY <1>2, <2>1 DEF Rows
<1>4. row # None
  BY <1>3, NoneAssumption
<1> QED
  BY <1>1, <1>2, <1>4 DEF TypeInv, TypeOK

(* Every step keeps what the calls are about to insert free of clashes. *)
LEMMA KeysStep ==
  ASSUME LockInv, Keyed, [Next]_vars
  PROVE  Keyed'
<1>t. TypeInv /\ Exclusive /\ \A u \in Ingests : KeysOf(u)
  BY DEF LockInv, Keyed
<1>0. ASSUME NEW t \in Ingests, KeysOf(t)', children' = children, graph' = graph,
             \A u \in Ingests \ {t} :
               /\ pc'[u] = pc[u] /\ pos'[u] = pos[u] /\ request'[u] = request[u]
               /\ pending'[u] = pending[u] /\ work'[u] = work[u] /\ held'[u] = held[u]
      PROVE  Keyed'
  <2>1. ASSUME NEW u \in Ingests \ {t} PROVE KeysOf(u)'
    BY <1>t, <1>0, <2>1, OtherKeys
  <2> QED
    BY <1>0, <2>1 DEF Keyed
<1>1. ASSUME NEW t \in Ingests, NEW r \in Requests, Call(t, r) PROVE Keyed'
  <2>1. /\ children' = children /\ graph' = graph /\ pos' = pos /\ pending' = pending
        /\ work' = work /\ held' = held
        /\ \A u \in Ingests \ {t} : pc'[u] = pc[u] /\ request'[u] = request[u]
        /\ pc[t] = "idle" /\ pc'[t] \in {"failed", "replay", "lock"}
    BY <1>1, <1>t DEF Call, Goto, TypeInv, TypeOK, database
  <2> QED
    <3>1. work[t].added = {} /\ work[t].linked = {}
      BY <1>t, <2>1 DEF KeysOf, Deciding, AtConversation
    <3>2. KeysOf(t)'
      BY <2>1, <3>1 DEF KeysOf
    <3> QED
      BY <1>0, <2>1, <3>2
<1>2. ASSUME NEW t \in Ingests,
             \/ Replay(t) \/ LockScope(t) \/ ScopesLocked(t) \/ Get(t) \/ StartClear(t)
             \/ Clear(t) \/ Merge(t) \/ ConversationsDone(t)
      PROVE Keyed'
  <2>1. /\ children' = children /\ graph' = graph /\ request' = request /\ pending' = pending
        /\ \A u \in Ingests \ {t} : pc'[u] = pc[u] /\ pos'[u] = pos[u]
        /\ pc'[t] # "add" /\ pos'[t] \in {pos[t], pos[t] + 1}
        /\ pc[t] \in Deciding => pc'[t] \in Deciding
    <3>1. pc \in [Ingests -> Steps] /\ pos \in [Ingests -> Nat \ {0}]
      BY <1>t DEF TypeInv, TypeOK
    <3>2. CASE Replay(t) \/ LockScope(t) \/ ScopesLocked(t)
      BY <3>1, <3>2 DEF Replay, LockScope, ScopesLocked, Goto, Deciding, AtConversation, database
    <3>3. CASE Get(t) \/ StartClear(t)
      BY <3>1, <3>3 DEF Get, StartClear, Goto, Deciding, AtConversation, database
    <3>4. CASE Clear(t) \/ Merge(t) \/ ConversationsDone(t)
      BY <3>1, <3>4 DEF Clear, Merge, ConversationsDone, Goto, Deciding, AtConversation, database
    <3> QED
      BY <1>2, <3>2, <3>3, <3>4
  <2>2. /\ held[t] \subseteq held'[t]
        /\ \A u \in Ingests \ {t} : held'[u] = held[u] /\ work'[u] = work[u]
        /\ work'[t].added = work[t].added /\ work[t].removed \subseteq work'[t].removed
        /\ work'[t].gone = work[t].gone /\ work'[t].linked = work[t].linked
    <3>1. CASE Replay(t) \/ ScopesLocked(t) \/ Merge(t) \/ ConversationsDone(t)
      BY <3>1 DEF Replay, ScopesLocked, Merge, ConversationsDone
    <3>2. CASE LockScope(t)
      BY <1>t, <3>2 DEF LockScope, Hold, TypeInv, TypeOK, Work
    <3>3. CASE Get(t)
      BY <1>t, <3>3 DEF Get, TypeInv, TypeOK, Work
    <3>4. CASE StartClear(t)
      BY <1>t, <3>4 DEF StartClear, Hold, TypeInv, TypeOK, Work
    <3>5. CASE Clear(t)
      BY <1>t, <3>5 DEF Clear, Hold, TypeInv, TypeOK, Work
    <3> QED
      BY <1>2, <3>1, <3>2, <3>3, <3>4, <3>5
  <2>3. KeysOf(t)'
    BY <1>t, <2>1, <2>2, SameKeys DEF KeysOf
  <2> QED
    BY <1>0, <2>1, <2>2, <2>3
<1>3. ASSUME NEW t \in Ingests, FlushRow(t) PROVE Keyed'
  <2>1. /\ children' = children /\ graph' = graph /\ request' = request /\ pos' = pos
        /\ work' = work /\ pc[t] = "flush" /\ pc'[t] = "add"
        /\ \A u \in Ingests \ {t} :
             pc'[u] = pc[u] /\ held'[u] = held[u] /\ pending'[u] = pending[u]
        /\ held[t] \subseteq held'[t]
    BY <1>3, <1>t DEF FlushRow, Goto, Hold, TypeInv, TypeOK, database
  <2>2. /\ Current(t)' = Current(t) /\ Current(t).id \in Conversations
    BY <1>t, <2>1, CurrentType DEF Current, AtConversation
  <2>3. /\ pending'[t][Current(t).id] # None
        /\ \A c \in Conversations \ {Current(t).id} : pending'[t][c] = pending[t][c]
    BY <1>3, <1>t, FlushedSome
  <2>4. \A ch \in work[t].added : pending'[t][ch.conversation] # None
    <3>1. \A ch \in work[t].added : ch.conversation \in Conversations
      BY <1>t DEF TypeInv, TypeOK, Work, ChildRow
    <3> QED
      BY <1>t, <2>3, <3>1 DEF KeysOf
  <2>5. KeysOf(t)'
    BY <1>t, <2>1, <2>2, <2>3, <2>4, SameKeys DEF Deciding, AtConversation
  <2> QED
    BY <1>0, <2>1, <2>5
<1>4. ASSUME NEW t \in Ingests, AddChildren(t) PROVE Keyed'
  <2>1. /\ children' = children /\ graph' = graph /\ request' = request /\ pending' = pending
        /\ \A u \in Ingests \ {t} :
             /\ pc'[u] = pc[u] /\ pos'[u] = pos[u]
             /\ held'[u] = held[u] /\ work'[u] = work[u]
    BY <1>4, <1>t DEF AddChildren, Goto, Hold, TypeInv, TypeOK, database
  <2> QED
    BY <1>0, <1>4, <1>t, <2>1, AddKeys
<1>5. ASSUME NEW t \in Ingests, WriteGraph(t) PROVE Keyed'
  <2>1. /\ children' = children /\ graph' = graph /\ request' = request /\ pending' = pending
        /\ \A u \in Ingests \ {t} :
             /\ pc'[u] = pc[u] /\ pos'[u] = pos[u]
             /\ held'[u] = held[u] /\ work'[u] = work[u]
    BY <1>5, <1>t DEF WriteGraph, Goto, Hold, TypeInv, TypeOK, database
  <2> QED
    BY <1>0, <1>5, <1>t, <2>1, GraphKeys
<1>6. ASSUME NEW t \in Ingests,
             \/ FlushConflict(t) \/ AddConflict(t) \/ ReceiptConflict(t)
             \/ FlushStale(t) \/ Fail(t)
       PROVE Keyed'
  <2>1. /\ EndTransaction(t) /\ request' = request
        /\ children' = children /\ graph' = graph
    BY <1>6 DEF FlushConflict, AddConflict, ReceiptConflict,
                IntegrityError, FlushStale, Fail, database
  <2>2. PICK step \in {"failed", "recheck"} : Goto(t, step)
    BY <1>6 DEF FlushConflict, AddConflict, ReceiptConflict,
                IntegrityError, FlushStale, Fail
  <2> QED
    BY <1>0, <1>t, <2>1, <2>2, EndKeys DEF AtConversation
<1>7. ASSUME NEW t \in Ingests, Commit(t) PROVE Keyed'
  <2>1. /\ EndTransaction(t) /\ Goto(t, "done") /\ request' = request
        /\ children' \subseteq children \cup work[t].added
        /\ graph' \subseteq graph \cup work[t].linked
    BY <1>7 DEF Commit, CommittedChildren
  <2>2. /\ KeysOf(t)'
        /\ \A u \in Ingests \ {t} :
             /\ pc'[u] = pc[u] /\ pos'[u] = pos[u] /\ pending'[u] = pending[u]
             /\ work'[u] = work[u] /\ held'[u] = held[u]
    BY <1>t, <2>1, EndKeys DEF AtConversation
  <2>3. ASSUME NEW u \in Ingests \ {t} PROVE KeysOf(u)'
    <3>1. \A L \in held[t] : L \notin held[u]
      BY <1>t DEF Exclusive
    <3>2. /\ \A x \in work[t].added : ChildLock(x) \notin held[u]
          /\ \A e \in work[t].linked : EdgeLock(e) \notin held[u]
      BY <1>t, <3>1 DEF KeysOf
    <3> QED
      BY <1>t, <2>1, <2>2, <3>2, OtherKeys
  <2> QED
    BY <2>2, <2>3 DEF Keyed
<1>8. ASSUME NEW C \in SUBSET Conversations, NEW E \in SUBSET graph,
             NEW R \in SUBSET Ingests, Retain(C, E, R)
       PROVE Keyed'
  BY <1>8, <1>t, OtherKeys DEF Retain, RetainedChildren, Keyed
<1>9. CASE UNCHANGED vars
  BY <1>9, <1>t, OtherKeys DEF vars, database, Keyed
<1> QED
  BY <1>1, <1>2, <1>3, <1>4, <1>5, <1>6, <1>7, <1>8, <1>9 DEF Next, Step, Retention

(* What a commit or a retention leaves satisfies the schema. *)
LEMMA SchemaStep ==
  ASSUME SchemaInv, [Next]_vars
  PROVE  SchemaConstraints'
<1>t. TypeInv /\ SchemaConstraints /\ \A u \in Ingests : KeysOf(u)
  BY DEF SchemaInv, LockInv, Keyed
<1>1. ASSUME NEW t \in Ingests, Commit(t) PROVE SchemaConstraints'
  <2>1. /\ children' = (children \ work[t].removed) \cup work[t].added
        /\ graph' = (graph \ work[t].gone) \cup work[t].linked
        /\ \A c \in Conversations :
             conversations'[c] = IF pending[t][c] = None THEN conversations[c] ELSE pending[t][c]
    BY <1>1 DEF Commit, CommittedChildren
  <2>2. \A x, y \in children' : ChildLock(x) = ChildLock(y) => x = y
    BY <1>t, <2>1 DEF SchemaConstraints, KeysOf
  <2>3. \A x, y \in graph' : EdgeLock(x) = EdgeLock(y) => x = y
    BY <1>t, <2>1 DEF SchemaConstraints, KeysOf
  <2>4. ASSUME NEW x \in children' PROVE conversations'[x.conversation] # None
    <3>1. x.conversation \in Conversations
      BY <1>t, <2>1 DEF TypeInv, TypeOK, Work, ChildRow
    <3> QED
      BY <1>t, <2>1, <3>1 DEF SchemaConstraints, KeysOf
  <2>5. ASSUME NEW k \in Keys, receipts'[k] # None PROVE runs'[receipts'[k]] # None
    <3>1. request[t] \in Requests /\ pc[t] = "commit" /\ work[t] \in Work
      BY <1>1, <1>t DEF Commit, TypeInv, TypeOK
    <3>2. [received |-> Len(request[t].conversations), written |-> work[t].written,
           skipped |-> work[t].skipped] \in [received : Nat, written : Nat, skipped : Nat]
      BY <3>1, RequestFields DEF Work
    <3>3. runs'[t] # None /\ \A u \in Ingests \ {t} : runs'[u] = runs[u]
      BY <1>1, <1>t, <3>2, NoneAssumption DEF Commit, TypeInv, TypeOK
    <3>4. receipts'[k] \in {receipts[k], t}
      BY <1>1, <1>t DEF Commit, TypeInv, TypeOK
    <3> QED
      BY <1>t, <2>5, <3>3, <3>4 DEF SchemaConstraints, TypeInv, TypeOK
  <2> QED
    BY <2>2, <2>3, <2>4, <2>5 DEF SchemaConstraints, ChildLock, EdgeLock, EdgeId
<1>2. ASSUME NEW C \in SUBSET Conversations, NEW E \in SUBSET graph,
             NEW R \in SUBSET Ingests, Retain(C, E, R)
      PROVE SchemaConstraints'
  <2>1. /\ children' = {ch \in children : ch.conversation \notin C}
        /\ graph' \subseteq graph
        /\ \A c \in Conversations : conversations'[c] = IF c \in C THEN None ELSE conversations[c]
        /\ \A t \in Ingests : runs'[t] = IF t \in R THEN None ELSE runs[t]
        /\ \A k \in Keys : receipts'[k] = IF receipts[k] \in R THEN None ELSE receipts[k]
    BY <1>2 DEF Retain, RetainedChildren
  <2>2. \A ch \in children : ch.conversation \in Conversations
    BY <1>t DEF TypeInv, TypeOK, ChildRow
  <2>3. \A k \in Keys : receipts[k] \in Ingests \cup {None}
    BY <1>t DEF TypeInv, TypeOK
  <2> QED
    BY <1>t, <2>1, <2>2, <2>3 DEF SchemaConstraints, ChildLock, EdgeLock, EdgeId
<1>3. ASSUME NEW t \in Ingests, Step(t), ~Commit(t) PROVE SchemaConstraints'
  <2>1. conversations' = conversations /\ children' = children /\ graph' = graph
        /\ runs' = runs /\ receipts' = receipts
    BY <1>3
       DEF Step, Call, Replay, LockScope, ScopesLocked, Get, StartClear, Clear, Merge,
           FlushRow, FlushConflict, FlushStale, AddChildren, AddConflict,
           ConversationsDone, WriteGraph, ReceiptConflict, Fail,
           IntegrityError, database
  <2> QED
    BY <1>t, <2>1 DEF SchemaConstraints, ChildLock, EdgeLock, EdgeId
<1>4. CASE UNCHANGED vars
  BY <1>4, <1>t DEF vars, database, SchemaConstraints, ChildLock, EdgeLock, EdgeId
<1> QED
  BY <1>1, <1>2, <1>3, <1>4 DEF Next, Retention

(* At first nothing is stored and no call is about to insert anything. *)
LEMMA SchemaInit == Init => SchemaInv
<1> SUFFICES ASSUME Init PROVE SchemaInv
  OBVIOUS
<1>1. ASSUME NEW t \in Ingests PROVE KeysOf(t)
  BY DEF Init, KeysOf, Fresh
<1>2. SchemaConstraints
  BY DEF Init, SchemaConstraints
<1> QED
  BY <1>1, <1>2, LockInit DEF SchemaInv, Keyed

(* The keys and the foreign keys of the schema hold in every committed state, for
   any callers: batches, calls that race without a common scope, and retention. *)
THEOREM SchemaAlways == Spec => []SchemaConstraints
<1>1. SchemaInv /\ [Next]_vars => SchemaInv'
  BY KeysStep, SchemaStep, LockStep DEF SchemaInv
<1>2. SchemaInv => SchemaConstraints
  BY DEF SchemaInv
<1> QED
  BY SchemaInit, <1>1, <1>2, PTL DEF Spec
-----------------------------------------------------------------------------
(* The snapshots of the run that share scopes: a conversation is collected under one
   machine label in all of them, and its scope is locked. *)
LabelOf(c) == IF c = "b" THEN 2 ELSE 1
Labelled(r) ==
  /\ ~r.merge /\ r.authoritative = None
  /\ \A copy \in CopiesOf(r) : copy.row.source_machine = LabelOf(copy.id)

(* The copies of these snapshots carry the label of their conversation, *)
LEMMA CopiesLabelled ==
  ASSUME NEW n
  PROVE  /\ CopyA(n).row.source_machine = LabelOf(CopyA(n).id)
         /\ CopyB(n).row.source_machine = LabelOf(CopyB(n).id)
         /\ CopyC(n).row.source_machine = LabelOf(CopyC(n).id)
BY DEF CopyA, CopyB, CopyC, Copy, LabelOf

(* and a snapshot of such copies is labelled. *)
LEMMA PlainLabelled ==
  ASSUME NEW copies, NEW edges, NEW key,
         \A i \in 1..Len(copies) : copies[i].row.source_machine = LabelOf(copies[i].id)
  PROVE  Labelled(Plain(copies, edges, key))
<1>1. /\ ~Plain(copies, edges, key).merge
      /\ Plain(copies, edges, key).authoritative = None
      /\ Plain(copies, edges, key).conversations = copies
  BY DEF Plain
<1>2. \A copy \in CopiesOf(Plain(copies, edges, key)) : \E i \in 1..Len(copies) : copy = copies[i]
  BY <1>1 DEF CopiesOf
<1> QED
  BY <1>1, <1>2 DEF Labelled

(* Two of the snapshots that mention one conversation lock the scope of its label. *)
LEMMA ScopedShareScope == SerializeAmong(ScopedRequests)
<1>1. \A r \in ScopedRequests : Labelled(r)
  <2>1. ASSUME NEW edges, NEW key PROVE Labelled(Plain(<<>>, edges, key))
    BY PlainLabelled
  <2>2. ASSUME NEW x, NEW edges, NEW key, x.row.source_machine = LabelOf(x.id)
        PROVE  Labelled(Plain(<<x>>, edges, key))
    <3>1. \A i \in 1..Len(<<x>>) : <<x>>[i] = x
      OBVIOUS
    <3> QED
      BY <2>2, <3>1, PlainLabelled
  <2>3. ASSUME NEW x, NEW y, NEW edges, NEW key,
               x.row.source_machine = LabelOf(x.id), y.row.source_machine = LabelOf(y.id)
        PROVE  Labelled(Plain(<<x, y>>, edges, key))
    <3>1. \A i \in 1..Len(<<x, y>>) : <<x, y>>[i] = x \/ <<x, y>>[i] = y
      OBVIOUS
    <3> QED
      BY <2>3, <3>1, PlainLabelled
  <2>4. ASSUME NEW x, NEW y, NEW z, NEW edges, NEW key,
               x.row.source_machine = LabelOf(x.id), y.row.source_machine = LabelOf(y.id),
               z.row.source_machine = LabelOf(z.id)
        PROVE  Labelled(Plain(<<x, y, z>>, edges, key))
    <3>1. \A i \in 1..Len(<<x, y, z>>) :
            <<x, y, z>>[i] = x \/ <<x, y, z>>[i] = y \/ <<x, y, z>>[i] = z
      OBVIOUS
    <3> QED
      BY <2>4, <3>1, PlainLabelled
  <2> QED
    BY <2>1, <2>2, <2>3, <2>4, CopiesLabelled DEF ScopedRequests
<1>2. ASSUME NEW r \in ScopedRequests, NEW c \in Mentioned(r)
      PROVE  LabelOf(c) \in LockedScopes(r)
  BY <1>1 DEF Labelled, Mentioned, LockedScopes
<1> QED
  BY <1>2 DEF SerializeAmong

(* As long as every call that has started is one of these, each step, retention
   included, keeps the stored copies whole and their ranks from falling. *)
LEMMA RetainedStep ==
  ASSUME LockInv, Uncalled, Retained => WholeInv, [Next]_vars
  PROVE  Retained' => WholeInv' /\ KeepsRanks
<1> SUFFICES ASSUME Retained' PROVE WholeInv' /\ KeepsRanks
  OBVIOUS
<1>1. Retained
  BY AskedBefore DEF Retained, LockInv
<1>2. OneDecisionAtATime
  BY <1>1, ScopedShareScope, ApartAmong DEF Retained, AskedOf
<1>3. WholeInv'
  BY <1>1, <1>2, WholeStep, ReplacementStep, EvidenceStep, LockStep
     DEF WholeInv, ReplacementInv, EvidenceInv
<1>4. KeepsRanks
  BY <1>1, RankStep DEF WholeInv, ReplacementInv, KeepsRanks
<1> QED
  BY <1>3, <1>4

(* In the run whose calls race, every commit and every retention leaves rows that
   satisfy the schema; and next to retention, when the calls share scopes, each stored
   copy is whole and its rank never falls. *)
THEOREM CommittedRowsStandAlways == ElsewhereSpec => CommittedRowsStand
<1> DEFINE Inv == SchemaInv /\ Uncalled /\ (Retained => WholeInv)
<1>1. Init => Inv
  BY SchemaInit, WholeInit DEF Init, Uncalled
<1>2. [ElsewhereNext]_vars => [Next]_vars
  BY DEF ElsewhereNext, Next
<1>3. Inv /\ [Next]_vars => Inv'
  <2> SUFFICES ASSUME Inv, [Next]_vars PROVE Inv'
    OBVIOUS
  <2>1. SchemaInv'
    BY KeysStep, SchemaStep, LockStep DEF SchemaInv
  <2>2. Uncalled'
    BY UncalledStep DEF SchemaInv, LockInv
  <2>3. (Retained => WholeInv)'
    BY RetainedStep DEF SchemaInv
  <2> QED
    BY <2>1, <2>2, <2>3
<1>4. Inv /\ [Next]_vars
        => SchemaConstraints' /\ (Retained' => WholeCopies' /\ KeepsRanks)
  <2> SUFFICES ASSUME Inv, [Next]_vars
               PROVE  SchemaConstraints' /\ (Retained' => WholeCopies' /\ KeepsRanks)
    OBVIOUS
  <2>1. SchemaConstraints'
    BY SchemaStep
  <2>2. Retained' => WholeInv' /\ KeepsRanks
    BY RetainedStep DEF SchemaInv
  <2> QED
    BY <2>1, <2>2 DEF WholeInv
<1> QED
  BY <1>1, <1>2, <1>3, <1>4, PTL DEF ElsewhereSpec, CommittedRowsStand
=============================================================================
