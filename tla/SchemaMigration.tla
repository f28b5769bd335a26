---------------------------- MODULE SchemaMigration ----------------------------
(***************************************************************************)
(* The schema of one database (schema.py) and the commands that change it: *)
(* upgrade_database, which every open calls, and downgrade_database, by    *)
(* processes of several releases, under the migration lock.                *)
(*                                                                         *)
(* A schema is the set of the migrations whose effect it shows: the layout *)
(* published with revision r is 1..r, and an unversioned database may show *)
(* any of them.  A migration number 1 that is missing means that one of    *)
(* the ten first tables is missing.                                        *)
(***************************************************************************)
EXTENDS Integers, FiniteSets

CONSTANTS
  Processes,
  HeadOf,     \* the last revision the release of each process knows
  Targets,    \* the revisions downgrade_database is called with
  Started,    \* the databases there may be at first
  Arrivals,   \* the rows that may be ingested later
  Unset        \* "no value": no revision, nobody

(* A row of a (provider, source machine) scope, with what the migrations convert:
   a timestamp ("invalid" is one without a time zone), or a status and a role. *)
TableRows ==
  [table : {"conversations"}, scope : Nat, form : {"canonical", "legacy", "invalid"}]
  \cup [table : {"subagents"}, scope : Nat, form : {"canonical", "legacy"}]

In(rows, table) == {row \in rows : row.table = table}

(* altered: a column, type, key, index or check of a table the releases have is of
   none of them.  foreign: there is a table that no release has. *)
Databases ==
  [revision : Nat \cup {Unset}, schema : SUBSET (Nat \ {0}),
   altered : BOOLEAN, foreign : BOOLEAN, rows : SUBSET TableRows, scopes : SUBSET Nat]

Layout(revision) == 1..revision

(* What the migrations up to a revision made of the stored rows. *)
Canonical(rows) == \A row \in rows : row.form = "canonical"
Scoped(database) == \A row \in database.rows : row.scope \in database.scopes
Converted(database, revision) ==
  /\ revision >= 2 => Canonical(In(database.rows, "subagents"))
  /\ revision >= 3 => Canonical(In(database.rows, "conversations"))
  /\ revision >= 4 => Scoped(database)

Published(database, revision) ==
  /\ database.schema = Layout(revision)
  /\ Converted(database, revision)

(* Adoption at 0004 looks for the tables of 6 and 7, so the release knows them. *)
ASSUME HeadAssumption == HeadOf \in [Processes -> Nat] /\ \A p \in Processes : HeadOf[p] >= 7
ASSUME UnsetAssumption == Unset \notin Nat /\ Unset \notin Processes
ASSUME TargetsAssumption == Targets \subseteq Nat \ {0}
(* The databases releases have left.  One without a revision that shows four or
   more of the migrations was made by a release that converted its rows. *)
ASSUME StartedAssumption ==
  /\ Started \subseteq Databases
  /\ \A d \in Started :
       /\ d.revision # Unset => d.revision > 0 /\ Published(d, d.revision)
       /\ d.revision = Unset /\ Layout(4) \subseteq d.schema => Converted(d, 4)
       /\ 7 \in d.schema => 6 \in d.schema
ASSUME ArrivalsAssumption == \A row \in Arrivals : row \in TableRows /\ row.form = "canonical"

VARIABLES
  db,      \* the committed database
  first,   \* what it was at first
  lock,    \* who holds the migration lock
  work,    \* the database as the transaction of the holder sees it
  call     \* each process: its stage, and the revision it wants

schemaVars == <<db, first, lock, work, call>>

Idle == [stage |-> "idle", down |-> FALSE, target |-> 0]

SchemaInit ==
  /\ db \in Started /\ first = db /\ work = db
  /\ lock = Unset
  /\ call = [p \in Processes |-> Idle]
-----------------------------------------------------------------------------
Stage(p, stage) == call' = [call EXCEPT ![p].stage = stage]
Known_Any(p, revision) == TRUE
Known(p, revision) == revision \in 1..HeadOf[p]

(* The transaction ends, and with it the migration lock. *)
Unlocked_OnCommit(p, stage) == IF stage = "ready" THEN Unset ELSE lock
Unlocked(p, stage) == Unset
Commit(p) ==
  /\ db' = work /\ lock' = Unlocked(p, "ready") /\ Stage(p, "ready")
  /\ UNCHANGED <<first, work>>

Rollback(p, stage) ==
  /\ db' = db /\ work' = db /\ lock' = Unlocked(p, stage) /\ Stage(p, stage)
  /\ UNCHANGED first

Ask(p, down, target) ==
  /\ call[p].stage \notin {"waiting", "begun", "moving"}
  /\ call' = [call EXCEPT ![p] = [stage |-> "waiting", down |-> down, target |-> target]]
  /\ UNCHANGED <<db, first, lock, work>>

(* _migration_lock: an advisory lock of the transaction on PostgreSQL; on SQLite
   BEGIN IMMEDIATE, which may give up after its busy timeout. *)
Begin(p) ==
  /\ call[p].stage = "waiting" /\ lock = Unset
  /\ lock' = p /\ work' = db /\ Stage(p, "begun")
  /\ UNCHANGED <<db, first>>

GiveUp(p) ==
  /\ call[p].stage = "waiting" /\ lock # Unset
  /\ Stage(p, "failed")
  /\ UNCHANGED <<db, first, lock, work>>
-----------------------------------------------------------------------------
(* The layouts an unversioned database is adopted at: that of the head, that of
   0005 or later, and 0004 whether or not it has the table of layouts. *)
Adoptable_AnyColumns(p, schema) ==
  {r \in 4..HeadOf[p] :
     IF r = 4 THEN schema \ {6, 7} = Layout(4) ELSE schema \ {8} = Layout(r) \ {8}}
Adoptable(p, schema) ==
  {r \in 4..HeadOf[p] :
     IF r = 4 THEN schema \ {6, 7} = Layout(4) ELSE schema = Layout(r)}

(* Columns of the last migration are accepted with the layout of the head only; a
   migration the release does not know shows in the tables it knows, or is foreign. *)
Ahead(p, schema) == 8 \in schema \/ schema \ Layout(HeadOf[p]) # {}

(* Only the tables that the release has are looked at: a foreign one is passed. *)
Unpublished(p) ==
  \/ work.altered
  \/ Adoptable(p, work.schema) = {} /\ Ahead(p, work.schema)

(* upgrade_database, from the revision to the migrations that are to be run; the
   stamp of an adopted database is part of the same transaction. *)
Adopt(p) ==
  /\ work.revision = Unset /\ ~Unpublished(p)
  /\ work' = IF Adoptable(p, work.schema) = {} THEN work
             ELSE [work EXCEPT !.revision = CHOOSE r \in Adoptable(p, work.schema) : TRUE]
  /\ Stage(p, "moving")
  /\ UNCHANGED <<db, first, lock>>

PlanUpgrade(p) ==
  /\ call[p].stage = "begun" /\ ~call[p].down
  /\ \/ Adopt(p)
     \/ work.revision = Unset /\ Unpublished(p) /\ Rollback(p, "refused")
     \/ work.revision # Unset /\ ~Known(p, work.revision) /\ Rollback(p, "refused")
     \/ work.revision # Unset /\ Known(p, work.revision) /\ work.revision = HeadOf[p] /\ Commit(p)
     \/ work.revision # Unset /\ Known(p, work.revision) /\ work.revision # HeadOf[p]
        /\ Stage(p, "moving") /\ UNCHANGED <<db, first, lock, work>>

(* downgrade_database; a revision above the present one is no valid target. *)
PlanDowngrade(p) ==
  /\ call[p].stage = "begun" /\ call[p].down
  /\ LET target == call[p].target
     IN  IF ~Known(p, target) \/ work.revision = Unset \/ ~Known(p, work.revision)
           THEN Rollback(p, "refused")
         ELSE IF target > work.revision THEN Rollback(p, "failed")
         ELSE Stage(p, "moving") /\ UNCHANGED <<db, first, lock, work>>
-----------------------------------------------------------------------------
(* The packaged migrations, one upgrade() or downgrade() at a time. *)
Next1(revision) == IF revision = Unset THEN 1 ELSE revision + 1

(* Creating a table or a column that exists fails, as does a timestamp that
   cannot be made canonical; 0001 to 0003 look at what exists. *)
Possible(d, r) ==
  /\ r >= 4 => r \notin d.schema
  /\ r = 3 => \A row \in d.rows : row.form # "invalid"

MadeCanonical(rows, table) ==
  {IF row.table = table THEN [row EXCEPT !.form = "canonical"] ELSE row : row \in rows}

Seeds_Conversations(d) == {row.scope : row \in In(d.rows, "conversations")}
Seeds(d) == {row.scope : row \in d.rows}

Minimized(d) == [d EXCEPT !.rows = MadeCanonical(@, "subagents")]
Timestamped(d) == [d EXCEPT !.rows = MadeCanonical(@, "conversations")]
Seeded(d) == [d EXCEPT !.scopes = Seeds(d)]

Upgraded(d, r) ==
  LET converted == CASE r = 2 -> Minimized(d)
                     [] r = 3 -> Timestamped(d) [] r = 4 -> Seeded(d) [] OTHER -> d
  IN  [converted EXCEPT !.revision = r, !.schema = @ \cup {r}]

(* Nothing is made legacy again; the scopes go with their table. *)
Downgraded(d, r) ==
  [d EXCEPT !.revision = r - 1, !.schema = @ \ {r},
            !.scopes = IF r = 4 THEN {} ELSE @]

MigrateUp(p) ==
  /\ call[p].stage = "moving" /\ ~call[p].down /\ work.revision # HeadOf[p]
  /\ LET r == Next1(work.revision)
     IN  IF Possible(work, r)
         THEN work' = Upgraded(work, r) /\ UNCHANGED <<db, first, lock, call>>
         ELSE Rollback(p, "failed")

MigrateDown(p) ==
  /\ call[p].stage = "moving" /\ call[p].down /\ work.revision # call[p].target
  /\ work' = Downgraded(work, work.revision)
  /\ UNCHANGED <<db, first, lock, call>>

Wanted(p) == IF call[p].down THEN call[p].target ELSE HeadOf[p]

Verify(p) ==
  /\ call[p].stage = "moving" /\ work.revision = Wanted(p)
  /\ Commit(p)

(* A statement fails, or the process is killed, before the commit. *)
Interrupted(p) ==
  /\ lock = p
  /\ Rollback(p, "failed")

(* An open database is written to by its process: ingest_snapshot stores rows with
   their scopes.  Mixed-version access during a migration is excluded by the lock
   on SQLite, and by ADR 0001 elsewhere. *)
WriteRow(p, row) ==
  /\ call[p].stage = "ready" /\ ~call[p].down /\ lock = Unset
  /\ Layout(HeadOf[p]) \subseteq db.schema
  /\ db' = [db EXCEPT !.rows = @ \cup {row}, !.scopes = @ \cup {row.scope}]
  /\ work' = db'
  /\ UNCHANGED <<first, lock, call>>

Proceed(p) ==
  \/ Begin(p) \/ PlanUpgrade(p) \/ PlanDowngrade(p)
  \/ MigrateUp(p) \/ MigrateDown(p) \/ Verify(p)

SchemaNext ==
  \E p \in Processes :
    \/ Proceed(p) \/ GiveUp(p) \/ Interrupted(p)
    \/ Ask(p, FALSE, HeadOf[p])
    \/ \E target \in Targets : Ask(p, TRUE, target)
    \/ \E row \in Arrivals : WriteRow(p, row)

SchemaSpec == SchemaInit /\ [][SchemaNext]_schemaVars

(* A command is one thread, and nothing has to fail.  PostgreSQL grants the lock
   in the order of its queue, and SQLite's waiters poll it and then give up. *)
SchemaFairSpec ==
  SchemaSpec /\ \A p \in Processes : WF_schemaVars(Proceed(p)) /\ SF_schemaVars(Begin(p))
-----------------------------------------------------------------------------
(* The recorded revision tells the layout: what is committed is the published
   schema of its revision, or the database as it was found, whatever failed
   between the stamp and the last migration (upgrade_database). *)
NeverHalfMigrated ==
  IF db.revision = Unset
  THEN /\ first.revision = Unset /\ first.schema = db.schema
       /\ first.rows = db.rows /\ first.scopes = db.scopes
  ELSE db.schema = Layout(db.revision)

(* Every row of a converted database is converted: statuses and roles from 0002
   on, timestamps from 0003 on, a scope for every conversation and every edge from
   0004 on, also when a downgrade went below them in between. *)
HistoryIsConverted ==
  db.revision # Unset => Converted(db, db.revision)

(* A release neither migrates, adopts nor downgrades a schema it does not know:
   who changes the revision knows the old one and the new one and, where there is
   none yet, every migration that the tables of the releases show, unaltered.  A
   table that no release has stops nobody (UnpublishedIsRefused). *)
UnknownIsUntouched ==
  [][db'.revision # db.revision =>
       /\ lock # Unset /\ db'.revision = Wanted(lock)
       /\ db.revision # Unset => db.revision <= HeadOf[lock]
       /\ db.revision = Unset => ~db.altered /\ db.schema \subseteq Layout(HeadOf[lock])]_schemaVars

(* "An unversioned database is adopted only when its columns ... exactly match a
   published schema; an unknown ... schema is refused" (docs/architecture.md).
   _preflight_unversioned looks at no table that the release has not. *)
UnpublishedIsRefused ==
  [][db'.revision # db.revision /\ db.revision = Unset => ~db.altered /\ ~db.foreign]_schemaVars

(* Every open and every downgrade ends, behind any number of others. *)
CommandsEnd ==
  \A p \in Processes : []<>(call[p].stage \notin {"waiting", "begun", "moving"})
=============================================================================
