---------------------------- MODULE SnapshotStore ----------------------------
(***************************************************************************)
(* What the store promises its writers: a call of ingest_snapshot compares *)
(* the conversations, replaces the graphs and records the run as one       *)
(* serialized decision.  Ingestion runs the same call statement by         *)
(* statement and is checked against this module.                           *)
(***************************************************************************)
EXTENDS Snapshots

VARIABLES conversations, children, graph, scopes, runs, receipts

vars == <<conversations, children, graph, scopes, runs, receipts>>

Init ==
  /\ conversations = [c \in Conversations |-> None]
  /\ children = {}
  /\ graph = {}
  /\ scopes = {}
  /\ runs = [t \in Ingests |-> None]
  /\ receipts = [k \in Keys |-> None]

Stored(copy) == conversations[copy.id] # None
Stale(copy) == Stored(copy) /\ Below(copy.row, conversations[copy.id])
Richer(copy) == Stored(copy) /\ Below(conversations[copy.id], copy.row)
Taken(r) == {copy \in CopiesOf(r) : ~Stored(copy) \/ Richer(copy)}

MachinesOf(copies) == {copy.row.source_machine : copy \in copies}

(* The scopes whose graph the snapshot replaces: those it is the first to
   represent, and those it brings a richer copy and no stale one for. *)
Authoritative(r) ==
  IF r.merge THEN {}
  ELSE IF r.authoritative # None THEN r.authoritative
  ELSE (LockedScopes(r) \ scopes)
         \cup (MachinesOf({copy \in CopiesOf(r) : Richer(copy)})
                 \ MachinesOf({copy \in CopiesOf(r) : Stale(copy)}))

(* In a merge batch an edge follows its child's copy, when the batch has it. *)
CopyOfChild(r, e) ==
  {copy \in CopiesOf(r) : copy.id = e.child /\ copy.row.source_machine = e.source_machine}
WrittenEdges(r) ==
  {e \in r.subagents : r.merge /\ CopyOfChild(r, e) \cap Taken(r) # {}}
KeptEdges(r) ==
  {e \in r.subagents :
     /\ r.merge
     /\ \E copy \in CopyOfChild(r, e) :
          /\ Stored(copy)
          /\ SameRank(copy.row, conversations[e.child])
          /\ conversations[e.child].source_machine = e.source_machine
     /\ \A g \in graph : g.child # e.child}

Ingest(t, r) ==
  /\ runs[t] = None
  /\ r.key # None => receipts[r.key] = None
  /\ conversations' =
       [c \in Conversations |->
          IF \E copy \in Taken(r) : copy.id = c
          THEN (CHOOSE copy \in Taken(r) : copy.id = c).row
          ELSE conversations[c]]
  /\ children' = {ch \in children : \A copy \in Taken(r) : copy.id # ch.conversation}
                   \cup UNION {ChildRows(copy) : copy \in Taken(r)}
  /\ graph' = {g \in graph : /\ g.source_machine \notin Authoritative(r)
                             /\ \A e \in WrittenEdges(r) : e.child # g.child}
                \cup {e \in r.subagents : e.source_machine \in Authoritative(r)}
                \cup WrittenEdges(r) \cup KeptEdges(r)
  /\ scopes' = scopes \cup LockedScopes(r)
  /\ runs' = [runs EXCEPT ![t] =
                [received |-> Len(r.conversations), written |-> Cardinality(Taken(r)),
                 skipped |-> Len(r.conversations) - Cardinality(Taken(r))]]
  /\ receipts' = IF r.key = None THEN receipts ELSE [receipts EXCEPT ![r.key] = t]

Next == \E t \in Ingests, r \in Requests : Ingest(t, r)
Spec == Init /\ [][Next]_vars
=============================================================================
