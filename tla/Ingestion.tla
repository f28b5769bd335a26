------------------------------ MODULE Ingestion ------------------------------
(***************************************************************************)
(* Concurrent calls of ingest_snapshot (storage.py) on one shared          *)
(* database, one SQL statement per step, on either supported dialect:      *)
(*                                                                         *)
(*   "sqlite"      the driver opens the transaction at the first INSERT,   *)
(*                 UPDATE or DELETE and one transaction writes at a time;  *)
(*                 a SELECT before it reads the last committed state.      *)
(*   "postgresql"  READ COMMITTED: each statement reads what is committed  *)
(*                 when it starts, and waits for the rows it writes.       *)
(*                                                                         *)
(* The seven child tables of a conversation are one set of child rows,     *)
(* written and cleared together.                                           *)
(***************************************************************************)
EXTENDS Snapshots

CONSTANT Dialect  \* "sqlite" or "postgresql"

ASSUME DialectAssumption == Dialect \in {"sqlite", "postgresql"}

VARIABLES
  conversations,  \* committed rows of the conversations table, by id
  children,       \* committed rows of the child tables
  graph,          \* committed subagent relationships
  scopes,         \* committed subagent_scopes rows
  runs,           \* committed ingestion_runs rows, by run id
  receipts,       \* committed sync_receipts rows, by key
  pc,             \* the statement each call is about to execute
  request,        \* the arguments of each call
  answer,         \* the run each call returned
  held,           \* row locks (on SQLite, anything held is the write lock)
  pos,            \* index of the conversation being decided
  loaded,         \* the row session.get returned for it
  pending,        \* uncommitted conversation rows
  work            \* the rest of the transaction's uncommitted state

database == <<conversations, children, graph, scopes, runs, receipts>>
vars == <<database, pc, request, answer, held, pos, loaded, pending, work>>

Steps == {"idle", "replay", "lock", "get", "clear", "clearing", "merge",
          "flush", "add", "graph", "commit", "recheck", "done", "failed"}
InTransaction == {"lock", "get", "clear", "clearing", "merge", "flush", "add",
                  "graph", "commit"}
-----------------------------------------------------------------------------
ScopeLock(m) == <<"scope", m>>
RowLock(c) == <<"conversation", c>>
ChildLock(ch) == <<"child", <<ch.conversation, ch.id>>>>
EdgeLock(e) == <<"subagent", EdgeId(e)>>

(* A statement that writes the rows L waits while another transaction holds one
   of them; SQLite has a single writer. *)
Free(t, L) ==
  \A u \in Ingests \ {t} :
    IF Dialect = "sqlite" THEN held[u] = {} ELSE held[u] \cap L = {}

Locks ==
  ({"scope"} \X Machines) \cup ({"conversation"} \X Conversations)
    \cup ({"child"} \X (Conversations \X Nat))
    \cup ({"subagent"} \X (Machines \X Conversations))

Current(t) == request[t].conversations[pos[t]]

Fresh == [created |-> {}, stale |-> {}, richer |-> {}, kept |-> {}, wrote |-> {},
          victims |-> {}, removed |-> {}, added |-> {}, gone |-> {}, linked |-> {},
          written |-> 0, skipped |-> 0]
Work ==
  [created : SUBSET Machines, stale : SUBSET Machines, richer : SUBSET Machines,
   kept : SUBSET (Machines \X Conversations), wrote : SUBSET (Machines \X Conversations),
   victims : SUBSET ChildRow, removed : SUBSET ChildRow, added : SUBSET ChildRow,
   gone : SUBSET Edges, linked : SUBSET Edges, written : Nat, skipped : Nat]
NoPending == [c \in Conversations |-> None]
-----------------------------------------------------------------------------
Init ==
  /\ conversations = [c \in Conversations |-> None]
  /\ children = {}
  /\ graph = {}
  /\ scopes = {}
  /\ runs = [t \in Ingests |-> None]
  /\ receipts = [k \in Keys |-> None]
  /\ pc = [t \in Ingests |-> "idle"]
  /\ request = [t \in Ingests |-> None]
  /\ answer = [t \in Ingests |-> None]
  /\ held = [t \in Ingests |-> {}]
  /\ pos = [t \in Ingests |-> 1]
  /\ loaded = [t \in Ingests |-> None]
  /\ pending = [t \in Ingests |-> NoPending]
  /\ work = [t \in Ingests |-> Fresh]

Goto(t, step) == pc' = [pc EXCEPT ![t] = step]
Hold(t, L) == held' = [held EXCEPT ![t] = @ \cup L]

(* Leave the transaction: its locks and uncommitted writes disappear. *)
EndTransaction(t) ==
  /\ held' = [held EXCEPT ![t] = {}]
  /\ pos' = [pos EXCEPT ![t] = 1]
  /\ loaded' = [loaded EXCEPT ![t] = None]
  /\ pending' = [pending EXCEPT ![t] = NoPending]
  /\ work' = [work EXCEPT ![t] = Fresh]

(* An IntegrityError rolls back; a keyed call then looks for the receipt another
   call may have committed meanwhile, an unkeyed one raises. *)
IntegrityError(t) ==
  /\ EndTransaction(t)
  /\ Goto(t, IF request[t].key = None THEN "failed" ELSE "recheck")
  /\ UNCHANGED <<database, request, answer>>
-----------------------------------------------------------------------------
(* ingest_snapshot is called with one of the argument lists. *)
Call(t, r) ==
  /\ pc[t] = "idle"
  /\ request' = [request EXCEPT ![t] = r]
  /\ Goto(t, IF r.merge /\ r.authoritative \notin {None, {}} THEN "failed"
             ELSE IF r.key # None THEN "replay" ELSE "lock")
  /\ UNCHANGED <<database, answer, held, pos, loaded, pending, work>>

(* _replayed_ingestion, before the transaction and after an IntegrityError. *)
Replay(t) ==
  /\ pc[t] \in {"replay", "recheck"}
  /\ LET run == receipts[request[t].key]
     IN  /\ answer' = [answer EXCEPT ![t] = run]
         /\ Goto(t, IF run # None THEN "done"
                    ELSE IF pc[t] = "replay" THEN "lock" ELSE "failed")
  /\ UNCHANGED <<database, request, held, pos, loaded, pending, work>>

(* _lock_subagent_scope: insert the scope row if it is missing, then update it. *)
LockScope(t) ==
  /\ pc[t] = "lock"
  /\ \E m \in LockedScopes(request[t]) :
       /\ ScopeLock(m) \notin held[t]
       /\ \A n \in LockedScopes(request[t]) : n < m => ScopeLock(n) \in held[t]
       /\ Free(t, {ScopeLock(m)})
       /\ Hold(t, {ScopeLock(m)})
       /\ work' = [work EXCEPT ![t].created = IF m \in scopes THEN @ ELSE @ \cup {m}]
  /\ UNCHANGED <<database, pc, request, answer, pos, loaded, pending>>

ScopesLocked_ReadFirst(t) ==
  /\ pc[t] = "lock"
  /\ Goto(t, "get")
  /\ UNCHANGED <<database, request, answer, held, pos, loaded, pending, work>>
ScopesLocked(t) ==
  /\ pc[t] = "lock"
  /\ \A m \in LockedScopes(request[t]) : ScopeLock(m) \in held[t]
  /\ Goto(t, "get")
  /\ UNCHANGED <<database, request, answer, held, pos, loaded, pending, work>>

(* A stored copy of equal or higher rank makes the incoming one skipped; a merge
   batch remembers the identical ones collected on the same machine. *)
Skipped_AnyStored(existing, copy) == existing # None
Skipped(existing, copy) == existing # None /\ ~Below(existing, copy.row)
SameCopy_AnyRank(existing, copy) ==
  existing # None /\ existing.source_machine = copy.row.source_machine
SameCopy(existing, copy) ==
  /\ existing # None
  /\ SameRank(existing, copy.row)
  /\ existing.source_machine = copy.row.source_machine

(* session.get: read the stored rank and decide, in this order, staleness,
   richness and whether the incoming copy is skipped. *)
Get(t) ==
  /\ pc[t] = "get"
  /\ pos[t] <= Len(request[t].conversations)
  /\ LET copy == Current(t)
         existing == conversations[copy.id]
         stale == existing # None /\ Below(copy.row, existing)
         richer == existing # None /\ Below(existing, copy.row)
         skip == Skipped(existing, copy)
         same == request[t].merge /\ skip /\ SameCopy(existing, copy)
         m == copy.row.source_machine
     IN  /\ loaded' = [loaded EXCEPT ![t] = existing]
         /\ pos' = IF skip THEN [pos EXCEPT ![t] = @ + 1] ELSE pos
         /\ Goto(t, IF skip THEN "get" ELSE "clear")
         /\ work' = [work EXCEPT
              ![t].stale = IF stale THEN @ \cup {m} ELSE @,
              ![t].richer = IF richer THEN @ \cup {m} ELSE @,
              ![t].kept = IF same THEN @ \cup {<<m, copy.id>>} ELSE @,
              ![t].skipped = IF skip THEN @ + 1 ELSE @]
  /\ UNCHANGED <<database, request, answer, held, pending>>

(* The DELETEs of the child tables.  A statement that has to wait keeps the
   snapshot it started with: rows committed while it waits are not deleted. *)
StartClear(t) ==
  /\ pc[t] = "clear"
  /\ Dialect = "sqlite" => Free(t, {})
  /\ work' = [work EXCEPT ![t].victims =
                {ch \in children : ch.conversation = Current(t).id}]
  /\ Hold(t, IF Dialect = "sqlite" THEN {RowLock(Current(t).id)} ELSE {})
  /\ Goto(t, "clearing")
  /\ UNCHANGED <<database, request, answer, pos, loaded, pending>>

Clear(t) ==
  /\ pc[t] = "clearing"
  /\ LET victims == work[t].victims \cap children
         locks == {ChildLock(ch) : ch \in victims}
     IN  /\ Free(t, locks)
         /\ Hold(t, locks)
         /\ work' = [work EXCEPT ![t].removed = @ \cup victims, ![t].victims = {}]
  /\ Goto(t, "merge")
  /\ UNCHANGED <<database, request, answer, pos, loaded, pending>>

(* session.merge reads the row again when session.get found none. *)
Merge(t) ==
  /\ pc[t] = "merge"
  /\ loaded' = IF loaded[t] = None
               THEN [loaded EXCEPT ![t] = conversations[Current(t).id]] ELSE loaded
  /\ Goto(t, "flush")
  /\ UNCHANGED <<database, request, answer, held, pos, pending, work>>

(* session.flush: INSERT when no row was loaded, otherwise UPDATE of the columns
   that differ from the loaded row. *)
FlushRow(t) ==
  /\ pc[t] = "flush"
  /\ LET copy == Current(t)
         current == conversations[copy.id]
         old == loaded[t]
         row == IF old = None THEN copy.row
                ELSE [f \in DOMAIN copy.row |->
                        IF copy.row[f] # old[f] THEN copy.row[f] ELSE current[f]]
     IN  /\ Free(t, {RowLock(copy.id)})
         /\ (old = None) = (current = None)
         /\ Hold(t, {RowLock(copy.id)})
         /\ pending' = [pending EXCEPT ![t][copy.id] = row]
  /\ Goto(t, "add")
  /\ UNCHANGED <<database, request, answer, pos, loaded, work>>

(* The INSERT finds the key taken by a row committed since it was read. *)
FlushConflict(t) ==
  /\ pc[t] = "flush"
  /\ Free(t, {RowLock(Current(t).id)})
  /\ loaded[t] = None /\ conversations[Current(t).id] # None
  /\ IntegrityError(t)

(* The UPDATE matches no row: retention deleted it.  The mapper's error is not
   an IntegrityError, so it propagates whatever the key. *)
FlushStale(t) ==
  /\ pc[t] = "flush"
  /\ Free(t, {RowLock(Current(t).id)})
  /\ loaded[t] # None /\ conversations[Current(t).id] = None
  /\ EndTransaction(t)
  /\ Goto(t, "failed")
  /\ UNCHANGED <<database, request, answer>>

(* Child rows have deterministic primary keys inside their conversation. *)
KeyTaken(t) ==
  \E ch \in children \ work[t].removed :
    ch.conversation = Current(t).id /\ ch.id \in Current(t).rows

AddChildren(t) ==
  /\ pc[t] = "add"
  /\ LET copy == Current(t)
         locks == {ChildLock(ch) : ch \in ChildRows(copy)}
     IN  /\ Free(t, locks)
         /\ ~KeyTaken(t)
         /\ Hold(t, locks)
         /\ work' = [work EXCEPT
              ![t].added = @ \cup ChildRows(copy),
              ![t].written = @ + 1,
              ![t].wrote = IF request[t].merge
                           THEN @ \cup {<<copy.row.source_machine, copy.id>>} ELSE @]
  /\ pos' = [pos EXCEPT ![t] = @ + 1]
  /\ Goto(t, "get")
  /\ UNCHANGED <<database, request, answer, loaded, pending>>

AddConflict(t) ==
  /\ pc[t] = "add"
  /\ Free(t, {ChildLock(ch) : ch \in ChildRows(Current(t))})
  /\ KeyTaken(t)
  /\ IntegrityError(t)
-----------------------------------------------------------------------------
(* Which stored graphs the snapshot replaces. *)
Authoritative_IgnoresStale(t) ==
  IF request[t].merge THEN {}
  ELSE IF request[t].authoritative = None THEN work[t].created \cup work[t].richer
  ELSE request[t].authoritative
Authoritative(t) ==
  IF request[t].merge THEN {}
  ELSE IF request[t].authoritative = None
  THEN work[t].created \cup (work[t].richer \ work[t].stale)
  ELSE request[t].authoritative

(* _merge_subagents: an edge whose child copy was written replaces every edge of
   that child; one whose child copy is the stored one only fills a gap. *)
WrittenEdges(t) ==
  {e \in request[t].subagents : <<e.source_machine, e.child>> \in work[t].wrote}
KeptEdges(t) ==
  {e \in request[t].subagents :
     /\ <<e.source_machine, e.child>> \in work[t].kept
     /\ \A g \in graph : g.child # e.child}

EdgesGone_None(t) == {}
EdgesGone(t) ==
  {g \in graph : \/ g.source_machine \in Authoritative(t)
                 \/ \E e \in WrittenEdges(t) : e.child = g.child}
EdgesLinked(t) ==
  {e \in request[t].subagents : e.source_machine \in Authoritative(t)}
    \cup WrittenEdges(t) \cup KeptEdges(t)

WriteGraph(t) ==
  /\ pc[t] = "graph"
  /\ LET locks == {EdgeLock(e) : e \in EdgesGone(t) \cup EdgesLinked(t)}
     IN  Free(t, locks) /\ Hold(t, locks)
  /\ work' = [work EXCEPT ![t].gone = EdgesGone(t), ![t].linked = EdgesLinked(t)]
  /\ Goto(t, "commit")
  /\ UNCHANGED <<database, request, answer, pos, loaded, pending>>

ConversationsDone(t) ==
  /\ pc[t] = "get"
  /\ pos[t] > Len(request[t].conversations)
  /\ Goto(t, "graph")
  /\ UNCHANGED <<database, request, answer, held, pos, loaded, pending, work>>

(* What the committed child rows become, and whether the receipt can be added. *)
CommittedChildren_NoDelete(t) == children \cup work[t].added
CommittedChildren(t) == (children \ work[t].removed) \cup work[t].added
ReceiptFree_Unchecked(t) == TRUE
ReceiptFree(t) == request[t].key # None => receipts[request[t].key] = None

(* The run and receipt rows, then COMMIT.  The receipt's primary key is checked
   with the transaction's other writes already made. *)
Commit(t) ==
  /\ pc[t] = "commit"
  /\ Free(t, {})
  /\ LET r == request[t]
     IN  /\ ReceiptFree(t)
         /\ receipts' = IF r.key = None THEN receipts
                        ELSE [receipts EXCEPT ![r.key] = t]
         /\ runs' = [runs EXCEPT ![t] =
                       [received |-> Len(r.conversations), written |-> work[t].written,
                        skipped |-> work[t].skipped]]
  /\ conversations' = [c \in Conversations |->
                         IF pending[t][c] = None THEN conversations[c] ELSE pending[t][c]]
  /\ children' = CommittedChildren(t)
  /\ graph' = (graph \ work[t].gone) \cup work[t].linked
  /\ scopes' = scopes \cup work[t].created
  /\ answer' = [answer EXCEPT ![t] = t]
  /\ EndTransaction(t)
  /\ Goto(t, "done")
  /\ UNCHANGED request

ReceiptConflict(t) ==
  /\ pc[t] = "commit"
  /\ Free(t, {})
  /\ ~ReceiptFree(t)
  /\ IntegrityError(t)

(* The connection, the process or the wait for a lock (a deadlock's victim, the
   SQLite busy timeout) fails: nothing of the transaction remains. *)
Fail(t) ==
  /\ pc[t] \in InTransaction
  /\ EndTransaction(t)
  /\ Goto(t, "failed")
  /\ UNCHANGED <<database, request, answer>>
-----------------------------------------------------------------------------
(* retain_before(apply=True): one transaction deletes what is older than the
   cutoff; foreign keys cascade to child rows and receipts; scope rows stay. *)
RetainedChildren_NoCascade(C) == children
RetainedChildren(C) == {ch \in children : ch.conversation \notin C}
Retain(C, E, R) ==
  /\ \A t \in Ingests :
       LET locks == {RowLock(c) : c \in C} \cup {EdgeLock(e) : e \in E}
                      \cup {ChildLock(ch) : ch \in {x \in children : x.conversation \in C}}
       IN  IF Dialect = "sqlite" THEN held[t] = {} ELSE held[t] \cap locks = {}
  /\ conversations' = [c \in Conversations |-> IF c \in C THEN None ELSE conversations[c]]
  /\ children' = RetainedChildren(C)
  /\ graph' = graph \ E
  /\ runs' = [t \in Ingests |-> IF t \in R THEN None ELSE runs[t]]
  /\ receipts' = [k \in Keys |-> IF receipts[k] \in R THEN None ELSE receipts[k]]
  /\ UNCHANGED <<scopes, pc, request, answer, held, pos, loaded, pending, work>>

Step(t) ==
  \/ \E r \in Requests : Call(t, r)
  \/ Replay(t) \/ LockScope(t) \/ ScopesLocked(t) \/ Get(t)
  \/ StartClear(t) \/ Clear(t) \/ Merge(t)
  \/ FlushRow(t) \/ FlushConflict(t) \/ FlushStale(t)
  \/ AddChildren(t) \/ AddConflict(t) \/ ConversationsDone(t)
  \/ WriteGraph(t)
  \/ Commit(t) \/ ReceiptConflict(t) \/ Fail(t)

Retention ==
  \E C \in SUBSET Conversations, E \in SUBSET graph, R \in SUBSET Ingests : Retain(C, E, R)

Next == (\E t \in Ingests : Step(t)) \/ Retention
Spec == Init /\ [][Next]_vars

(* The writers alone: what retention may undo is claimed of this one. *)
WriterSpec == Init /\ [][\E t \in Ingests : Step(t)]_vars
-----------------------------------------------------------------------------
TypeOK ==
  /\ conversations \in [Conversations -> Rows \cup {None}]
  /\ children \subseteq ChildRow
  /\ graph \subseteq Edges
  /\ scopes \subseteq Machines
  /\ runs \in [Ingests -> [received : Nat, written : Nat, skipped : Nat] \cup {None}]
  /\ receipts \in [Keys -> Ingests \cup {None}]
  /\ pc \in [Ingests -> Steps]
  /\ request \in [Ingests -> Requests \cup {None}]
  /\ answer \in [Ingests -> Ingests \cup {None}]
  /\ held \in [Ingests -> SUBSET Locks]
  /\ pos \in [Ingests -> Nat \ {0}]
  /\ loaded \in [Ingests -> Rows \cup {None}]
  /\ pending \in [Ingests -> [Conversations -> Rows \cup {None}]]
  /\ work \in [Ingests -> Work]

(* When the scope rows serialize the callers.  On PostgreSQL any two argument
   lists that mention one conversation lock a common scope, as when every
   conversation is collected under one source-machine label and no caller passes
   an explicit scope set; on SQLite it is enough that they lock some scope. *)
SerializeAmong(asked) ==
  IF Dialect = "sqlite"
  THEN \A r \in asked : Mentioned(r) # {} => LockedScopes(r) # {}
  ELSE \A r, q \in asked :
         Mentioned(r) \cap Mentioned(q) # {} => LockedScopes(r) \cap LockedScopes(q) # {}
ScopesSerialize == SerializeAmong(Requests)

AtConversation == {"clear", "clearing", "merge", "flush", "add"}
Deciding == AtConversation \cup {"get", "graph", "commit"}

(* From its first read to its commit a call is alone with the conversations it
   mentions: no other call is deciding about one of them (the scope rows updated
   "before reading conversation versions", _lock_subagent_scope). *)
OneDecisionAtATime ==
  \A t, u \in Ingests :
    t # u /\ pc[t] \in Deciding /\ pc[u] \in Deciding
      => Mentioned(request[t]) \cap Mentioned(request[u]) = {}

(* What a call read is still true when it acts on it: the stored row is the one
   session.get returned, or retention has deleted it, and every row the call is
   about to commit outranks the row it will replace. *)
EvidenceOf(t) ==
  /\ pc[t] \in AtConversation \ {"add"} =>
       /\ loaded[t] = None \/ Below(loaded[t], Current(t).row)
       /\ conversations[Current(t).id] \in {None, loaded[t]}
  /\ \A c \in Conversations :
       pending[t][c] # None =>
         /\ pc[t] \in Deciding
         /\ c \in Mentioned(request[t])
         /\ conversations[c] = None \/ Below(conversations[c], pending[t][c])
EvidenceStands == \A t \in Ingests : EvidenceOf(t)

(* The statement-level calls implement the store's one serialized decision: the
   state a call commits is the one its whole decision, taken on the state it
   replaces, would have produced (ADR 0003 asks it of both databases). *)
Store == INSTANCE SnapshotStore
ImplementsStore == Store!Spec

(* "A more complete copy replaces ..., an identical or less complete one is
   skipped": whatever the interleaving of the calls' statements, no commit puts
   a copy of lower (event_count, content_hash) rank in place of the stored one
   (the comparison in ingest_snapshot). *)
KeepsRanks ==
  \A c \in Conversations :
    conversations[c] # None /\ conversations'[c] # None
      => ~Below(conversations'[c], conversations[c])
RankNeverFalls == [][KeepsRanks]_vars

(* The stored row and the stored child rows of a conversation are those of one
   collected copy, all of them: the DELETEs, the merge and the INSERTs of two
   calls never mix (the replacement in ingest_snapshot, the cascade of
   retain_before). *)
WholeCopies ==
  \A c \in Conversations :
    LET stored == {ch \in children : ch.conversation = c}
    IN  IF conversations[c] = None THEN stored = {}
        ELSE \E r \in Requests : \E copy \in CopiesOf(r) :
               copy.id = c /\ copy.row = conversations[c] /\ stored = ChildRows(copy)

(* An answer is a promise: every copy of the answered snapshot, or a better one,
   is in the store for as long as nothing retains, also when the answer was
   replayed from another call's receipt (ingest_snapshot's two return paths). *)
AcknowledgedIsStored ==
  \A t \in Ingests :
    answer[t] # None =>
      /\ runs[answer[t]] # None
      /\ request[answer[t]].key = request[t].key
      /\ \A copy \in CopiesOf(request[answer[t]]) :
           /\ conversations[copy.id] # None
           /\ ~Below(conversations[copy.id], copy.row)

(* All the calls answered under one idempotency key name one run, and no other
   run of that key exists: a replay, concurrent or late, never ingests twice
   (sync_receipts and _replayed_ingestion). *)
OneRunPerKey ==
  \A t, u \in Ingests :
    /\ runs[t] # None /\ runs[u] # None /\ request[t].key # None
    /\ request[t].key = request[u].key
    => t = u

(* The graph of a scope is taken whole from one snapshot, never assembled from
   two (the DELETE and the INSERTs of an authoritative scope). *)
GraphOf(g, m) == {e \in g : e.source_machine = m}
GraphOfOneSnapshot ==
  \A m \in Machines : \E r \in Requests : GraphOf(graph, m) \subseteq r.subagents

(* Every edge of a step comes with the copy its child is stored with after it. *)
EdgesFollowCopies ==
  \A e \in graph' \ graph :
    \E r \in Requests :
      /\ e \in r.subagents
      /\ \E copy \in CopiesOf(r) :
           copy.id = e.child /\ copy.row = conversations'[e.child]

(* The schema's own constraints hold in every committed state, also where calls
   race without a common scope: child rows and edges have unique keys, a child
   row has its conversation, a receipt has its run. *)
SchemaConstraints ==
  /\ \A x, y \in children : ChildLock(x) = ChildLock(y) => x = y
  /\ \A x, y \in graph : EdgeLock(x) = EdgeLock(y) => x = y
  /\ \A x \in children : conversations[x.conversation] # None
  /\ \A k \in Keys : receipts[k] # None => runs[receipts[k]] # None
=============================================================================
