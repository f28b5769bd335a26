----------------------------- MODULE MCIngestion -----------------------------
(* Small argument lists for the runs of Ingestion. *)
EXTENDS Ingestion

MCMachines == {1, 2}
MCConversations == {"a", "b", "c"}

Copy(c, events, hash, m, n) ==
  [id |-> c, rows |-> 1..n,
   row |-> [event_count |-> events, content_hash |-> hash, source_machine |-> m]]
Edge(m, c, p) == [source_machine |-> m, child |-> c, parent |-> p]

Plain(copies, edges, key) ==
  [conversations |-> copies, subagents |-> edges, authoritative |-> None,
   merge |-> FALSE, key |-> key]
Batch(copies, edges) ==
  [conversations |-> copies, subagents |-> edges, authoritative |-> {},
   merge |-> TRUE, key |-> None]

CopyA(events) == Copy("a", events, events, 1, events)
CopyB(events) == Copy("b", events, events, 2, events)
CopyC(events) == Copy("c", events, 1, 1, 1)

(* Each conversation under one label: an old and a newer snapshot, one that is
   richer and stale in the same scope, a graph without conversations, a newer
   empty graph, a keyed one. *)
ScopedRequests ==
  {Plain(<<CopyA(1), CopyC(1)>>, {Edge(1, "a", 1)}, "k"),
   Plain(<<CopyA(2), CopyB(1)>>, {Edge(1, "a", 2)}, None),
   Plain(<<CopyC(2), CopyA(1), CopyB(2)>>, {Edge(1, "b", 3)}, None),
   Plain(<<>>, {Edge(1, "b", 4)}, None),
   Plain(<<CopyA(3)>>, {}, "k")}

(* The same conversation collected under two machine labels. *)
CrossLabelRequests ==
  {Plain(<<Copy("a", 1, 1, 1, 1)>>, {Edge(1, "a", 1)}, None),
   Plain(<<Copy("a", 2, 1, 2, 2)>>, {Edge(2, "a", 2)}, "k"),
   Plain(<<Copy("a", 3, 1, 1, 1), Copy("b", 1, 1, 1, 0)>>, {Edge(1, "b", 3)}, None)}

(* Merge batches of one label; the richest copy of "a" brings no edge. *)
MergeRequests ==
  {Batch(<<CopyA(1)>>, {Edge(1, "a", 1)}), Batch(<<CopyA(2)>>, {Edge(1, "a", 2)}),
   Batch(<<CopyA(3), CopyC(1)>>, {Edge(1, "c", 3)}),
   Batch(<<CopyC(1), CopyA(1)>>, {Edge(1, "a", 1), Edge(1, "c", 3)})}
=============================================================================
