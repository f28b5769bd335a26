-------------------------- MODULE MCIngestionScoped --------------------------
(***************************************************************************)
(* Writers whom the scope rows serialize, on either database: on           *)
(* PostgreSQL every conversation has one machine label, on SQLite one      *)
(* comes under two.                                                        *)
(***************************************************************************)
EXTENDS MCIngestion

VARIABLE dialect

WriterRequests == ScopedRequests \cup CrossLabelRequests

Postgres == INSTANCE Ingestion WITH Dialect <- "postgresql", Requests <- ScopedRequests
Sqlite == INSTANCE Ingestion WITH Dialect <- "sqlite", Requests <- CrossLabelRequests

ScopedInit == Init /\ dialect \in {"postgresql", "sqlite"}
ScopedNext ==
  /\ \/ dialect = "postgresql" /\ \E t \in Ingests : Postgres!Step(t)
     \/ dialect = "sqlite" /\ \E t \in Ingests : Sqlite!Step(t)
  /\ UNCHANGED dialect

ScopedSpec == ScopedInit /\ [][ScopedNext]_<<vars, dialect>>
=============================================================================
