------------------------------ MODULE Snapshots ------------------------------
(***************************************************************************)
(* The data ingest_snapshot works on: conversation copies, their ranks,    *)
(* subagent edges and the argument lists of a call (models.py, storage.py).*)
(*                                                                         *)
(* One provider is modelled: identifiers are provider-qualified, so two    *)
(* providers never share a row, and a scope (provider, source machine) is  *)
(* a machine.                                                              *)
(***************************************************************************)
EXTENDS Integers, FiniteSets, Sequences

CONSTANTS
  Ingests,        \* the calls; a call is also the identifier of its run
  Requests,       \* the argument lists a call may be given
  Conversations,  \* provider-qualified conversation ids
  Machines,       \* source-machine labels, numbered in their sort order
  Keys,           \* idempotency keys
  None            \* "no value"

(* A copy of a conversation: its row and the ids of its child rows (the seven
   child tables are one).  event_count and content_hash are the rank the code
   compares as a tuple; the machine label is part of the row, not of the rank. *)
Rows == [event_count : Nat, content_hash : Nat, source_machine : Machines]
Copies == [id : Conversations, row : Rows, rows : SUBSET Nat]
Edges == [source_machine : Machines, child : Conversations, parent : Nat]
ChildRow == [conversation : Conversations, id : Nat, of : Rows]

Below(a, b) ==
  \/ a.event_count < b.event_count
  \/ a.event_count = b.event_count /\ a.content_hash < b.content_hash
SameRank(a, b) ==
  a.event_count = b.event_count /\ a.content_hash = b.content_hash

ChildRows(copy) == {[conversation |-> copy.id, id |-> n, of |-> copy.row] : n \in copy.rows}
EdgeId(e) == <<e.source_machine, e.child>>

CopiesOf(r) == {r.conversations[i] : i \in 1..Len(r.conversations)}
Mentioned(r) == {copy.id : copy \in CopiesOf(r)}

(* The arguments of ingest_snapshot: the snapshot, and how its subagent graph
   is to be treated.  authoritative is None when the caller passes nothing. *)
RequestType ==
  [conversations : Seq(Copies), subagents : SUBSET Edges,
   authoritative : {None} \cup SUBSET Machines, merge : BOOLEAN,
   key : Keys \cup {None}]

(* validate_snapshot: identifiers are unique in their group. *)
Valid(r) ==
  /\ \A i, j \in 1..Len(r.conversations) :
       r.conversations[i].id = r.conversations[j].id => i = j
  /\ \A e, f \in r.subagents : EdgeId(e) = EdgeId(f) => e = f

(* The scopes locked before anything is read. *)
LockedScopes(r) ==
  LET edgeMachines == {e.source_machine : e \in r.subagents}
      rowMachines == {copy.row.source_machine : copy \in CopiesOf(r)}
  IN  IF r.merge THEN edgeMachines
      ELSE IF r.authoritative = None THEN rowMachines \cup edgeMachines
      ELSE r.authoritative

ASSUME RequestsAssumption ==
  Requests \subseteq RequestType /\ \A r \in Requests : Valid(r)
ASSUME MachinesAssumption == Machines \subseteq Nat /\ IsFiniteSet(Machines)
ASSUME NoneAssumption ==
  /\ \A S \in SUBSET Machines : S # None
  /\ None \notin Requests
  /\ None \notin Keys
  /\ None \notin Rows
  /\ None \notin [received : Nat, written : Nat, skipped : Nat]
  /\ None \notin Ingests
=============================================================================
