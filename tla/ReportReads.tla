------------------------------ MODULE ReportReads ------------------------------
(***************************************************************************)
(* What reports, exports and snapshots read while calls commit: a report   *)
(* is an estimate, an index of what it will refer to and one statement for *)
(* each table, and every statement selects its rows anew (reporting.py).   *)
(* _dashboard_snapshot (dashboard.py) and extract_snapshots open a         *)
(* transaction whose first statement fixes what the others see; export_csv *)
(* does not.                                                               *)
(*                                                                         *)
(* A stored copy is a number: of its turns, and of what else its rows say. *)
(* The other children of a conversation are read as its turns are.         *)
(***************************************************************************)
EXTENDS Naturals, Sequences, FiniteSets

CONSTANTS
  Readers,
  Stored,      \* conversations
  MaxTurns,    \* of a copy
  MaxRecords,  \* MAX_DASHBOARD_RECORDS, MAX_SNAPSHOT_RECORDS
  MaxCommits   \* bound on the commits of a behaviour

VARIABLES
  tables,   \* the copy of each conversation (0: none), as committed
  commits,  \* how many there were
  reading   \* each reader

readVars == <<tables, commits, reading>>

Databases == [Stored -> 0..MaxTurns]
ReadKinds == {"dashboard", "detail", "list", "filters", "extraction", "csv"}
ReadStages == {"new", "open", "done", "limit", "stray", "failed"}

(* The statements of a reader: a detail is a list entry and then a dashboard. *)
Statements(kind) ==
  CASE kind = "dashboard" -> <<"estimate", "conversations", "turns", "conversations", "turns">>
    [] kind = "detail" ->
         <<"estimate", "conversations", "turns", "conversations", "turns", "conversations", "turns">>
    [] kind = "list" -> <<"estimate", "conversations", "turns", "conversations">>
    [] kind = "filters" -> <<"estimate", "conversations">>
    [] kind = "extraction" -> <<"estimate", "conversations", "turns">>
    [] kind = "csv" -> <<"conversations", "turns">>

(* report_statement: whether a conversation is selected depends on its row. *)
Selected(db, filter) == {c \in Stored : db[c] >= filter}
Conversations(db, filter) == {<<c, db[c]>> : c \in Selected(db, filter)}
Turns(db, filter) == {t \in Selected(db, filter) \X (1..MaxTurns) : t[2] <= db[t[1]]}

Answer(statement, db, filter) ==
  CASE statement = "estimate" ->
         Cardinality(Conversations(db, filter)) + Cardinality(Turns(db, filter))
    [] statement = "conversations" -> Conversations(db, filter)
    [] statement = "turns" -> Turns(db, filter)

WithinLimit(records) == records <= MaxRecords

Fresh ==
  [kind |-> "csv", filter |-> 1, stage |-> "new", got |-> <<>>,
   view |-> tables, during |-> {}]

ReadInit ==
  /\ tables \in Databases
  /\ commits = 0
  /\ reading = [r \in Readers |-> Fresh]
-----------------------------------------------------------------------------
(* during, the databases that were committed while it runs, is in no code. *)
Open(r) ==
  /\ reading[r].stage = "new"
  /\ \E kind \in ReadKinds, filter \in 1..MaxTurns :
       reading' = [reading EXCEPT ![r] =
         [@ EXCEPT !.kind = kind, !.filter = filter, !.stage = "open", !.during = {tables}]]
  /\ UNCHANGED <<tables, commits>>

(* What a statement sees: in the transactions of the reports, what the first one
   saw. *)
View_ReadCommitted(r) == tables
View(r) ==
  IF reading[r].kind # "csv" /\ reading[r].got # <<>> THEN reading[r].view ELSE tables

NextStatement(r) == Statements(reading[r].kind)[Len(reading[r].got) + 1]
Asked(r, table) ==
  {i \in DOMAIN reading[r].got : Statements(reading[r].kind)[i] = table}

(* A row that the index of the report does not know: a conversation or a turn in
   the sections of a dashboard, a turn without its conversation in a snapshot. *)
Strays(r, table, rows) ==
  CASE reading[r].kind = "csv" \/ table = "estimate" -> FALSE
    [] reading[r].kind = "extraction" ->
         table = "turns" /\ \E i \in Asked(r, "conversations") :
           \E row \in rows : \A known \in reading[r].got[i] : known[1] # row[1]
    [] OTHER ->
         \E i \in Asked(r, table) : \E row \in rows : \A known \in reading[r].got[i] :
           IF table = "turns" THEN known # row ELSE known[1] # row[1]

Ask(r) ==
  /\ reading[r].stage = "open"
  /\ LET statement == NextStatement(r)
         answer == Answer(statement, View(r), reading[r].filter)
         stage == IF statement = "estimate" /\ ~WithinLimit(answer) THEN "limit"
                  ELSE IF Strays(r, statement, answer) THEN "stray"
                  ELSE IF Len(reading[r].got) + 1 = Len(Statements(reading[r].kind))
                       THEN "done" ELSE "open"
     IN  reading' = [reading EXCEPT ![r] =
           [reading[r] EXCEPT !.stage = stage, !.view = View(r),
                              !.got = Append(reading[r].got, answer)]]
  /\ UNCHANGED <<tables, commits>>

(* The deadline, a conversation that the selection no longer holds or an error of
   a statement: the transaction is rolled back. *)
Fail(r) ==
  /\ reading[r].stage = "open"
  /\ reading' = [reading EXCEPT ![r].stage = "failed"]
  /\ UNCHANGED <<tables, commits>>

(* One commit of ingest_snapshot, which replaces some conversations, or of
   retain_before, which deletes some: what readers do does not hinder it. *)
Commit ==
  /\ commits < MaxCommits
  /\ \E db \in Databases :
       /\ tables' = db
       /\ reading' = [r \in Readers |->
            IF reading[r].stage = "open"
            THEN [reading[r] EXCEPT !.during = @ \cup {db}] ELSE reading[r]]
  /\ commits' = commits + 1

ReadNext == (\E r \in Readers : Open(r) \/ Ask(r) \/ Fail(r)) \/ Commit
ReadSpec == ReadInit /\ [][ReadNext]_readVars
-----------------------------------------------------------------------------
ReadTypeOK ==
  /\ tables \in Databases /\ commits \in Nat
  /\ \A r \in Readers :
       /\ reading[r].kind \in ReadKinds /\ reading[r].filter \in Nat /\ reading[r].stage \in ReadStages
       /\ reading[r].view \in Databases /\ reading[r].during \subseteq Databases

(* "Each dataset or export is read from one coherent snapshot" (ADR 0004): all that
   a dashboard, a list, a detail, its filters or an extracted snapshot is made of
   is what one database says that was committed while it was read, within the
   limit that the estimate was held to, and none is refused for rows that only
   met because of a commit between its statements. *)
ReadsAreCoherent ==
  \A r \in Readers :
    LET reader == reading[r]
        statements == Statements(reader.kind)
    IN  reader.kind # "csv" =>
          /\ reader.stage # "stray"
          /\ reader.stage = "done" =>
               \E db \in reader.during :
                 /\ WithinLimit(Answer("estimate", db, reader.filter))
                 /\ \A i \in DOMAIN statements :
                      reader.got[i] = Answer(statements[i], db, reader.filter)
=============================================================================
