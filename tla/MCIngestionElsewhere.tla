------------------------- MODULE MCIngestionElsewhere -------------------------
(***************************************************************************)
(* Ingestion on PostgreSQL away from the setting of IngestionScoped; what  *)
(* the calls of a behaviour ask for says which setting it is: two calls    *)
(* that race without a common scope and two that share scopes, next to     *)
(* retention, and three batches that merge graphs.                         *)
(***************************************************************************)
EXTENDS MCIngestion

CONSTANT t3  \* the call that only a batch makes

EveryRequest == ScopedRequests \cup CrossLabelRequests \cup MergeRequests
AskedOf(asked) == \A t \in Ingests : request[t] \in asked \cup {None}

Racing == AskedOf(CrossLabelRequests)
Retained == AskedOf(ScopedRequests)
Batches == AskedOf(MergeRequests)

(* Bounds on what TLC follows. *)
OneSetting == Racing \/ Retained \/ Batches
LastCallIsBatch == request[t3] \in MergeRequests \cup {None}

ElsewhereNext == (\E t \in Ingests : Step(t)) \/ (~Batches /\ Retention)
ElsewhereSpec == Init /\ [][ElsewhereNext]_vars
-----------------------------------------------------------------------------
(* What a commit leaves satisfies the keys and the foreign keys of the schema,
   although rows of several calls met in it.  Retention deletes a conversation
   with all of its rows, at any point of a call that is replacing them (the
   cascades of retain_before), and does not make an old copy win over a row it
   has only just read: next to retention too, each stored copy is whole and its
   rank never falls. *)
CommittedRowsStand ==
  [][SchemaConstraints' /\ (Retained' => WholeCopies' /\ KeepsRanks)]_vars

(* Batches too take one serialized decision each, as the store promises.  A merge
   batch adds a relationship only next to the copy that brought it: when an edge
   appears, the copy stored for its child after the commit is one that comes with
   that edge, so a strictly older copy never restores what a richer one left out
   (_merge_subagents). *)
BatchesDecideOnce == [][Batches => [Store!Next]_database /\ EdgesFollowCopies]_vars
=============================================================================
