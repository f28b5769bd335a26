------------------------------ MODULE Collection ------------------------------
(***************************************************************************)
(* The command collect (cli.py) with the batches of adapters/_incremental: *)
(* providers are read once, one that only exceeds an aggregate budget is   *)
(* read again in batches, a strict command stages every batch before it    *)
(* opens the database, and a command that failed or was killed is run      *)
(* again.  Commands share one database, whose ingest_snapshot is one step, *)
(* as Ingestion shows.                                                     *)
(*                                                                         *)
(* Batches are named by the groups they are made of: the groups of one     *)
(* stream are numbered in discovery order, and a list of consecutive       *)
(* groups is its first and last number.                                    *)
(***************************************************************************)
EXTENDS Transcripts

CONSTANTS
  Commands,         \* commands running on one database
  Options,          \* the ways each of them may be called
  Inputs,           \* the providers that may be selected, in collection order
  BatchCandidates,  \* INCREMENTAL_CANDIDATES_PER_BATCH
  MaxBatches,       \* MAX_INCREMENTAL_BATCHES
  MaxStaged         \* MAX_INCREMENTAL_STAGING_BYTES

OptionsType == [mode : {"forced", "automatic", "never"}, strict : BOOLEAN]

(* capable: the adapter has collect_incrementally, which makes batches of its
   streams of groups, one stream after the other. *)
ProviderType ==
  [capable : BOOLEAN, grouped : BOOLEAN, sources : Seq(Seq(Files)) \ {<<>>},
   streams : Seq(Seq(Seq(Files))) \ {<<>>}]

ASSUME OptionsAssumption == Options \in [Commands -> SUBSET OptionsType]
ASSUME InputsAssumption == Inputs \subseteq Seq(ProviderType) \ {<<>>}
ASSUME ListingAssumption ==
  \A list \in Inputs : \A p \in 1..Len(list) : list[p].streams = Streams(list[p])
(* Identities name their provider, of which a command has each at most once; only
   the rows of Claude Code, whose transcripts are grouped, depend on a parent. *)
ASSUME KeysAssumption ==
  \A list \in Inputs : \A p, q \in 1..Len(list) :
    \A i \in 1..Len(AllFiles(list[p])), j \in 1..Len(AllFiles(list[q])) :
      AllFiles(list[p])[i].key = AllFiles(list[q])[j].key
        => p = q \/ AllFiles(list[p])[i].key = None
ASSUME ParentsAssumption ==
  \A list \in Inputs : \A p \in 1..Len(list) : ~list[p].grouped =>
    \A i \in 1..Len(AllFiles(list[p])) : AllFiles(list[p])[i].parent = None
ASSUME BoundsAssumption ==
  BatchCandidates \in Nat /\ MaxBatches \in Nat /\ MaxStaged \in Nat

VARIABLES
  input,       \* the selected providers and their files, which do not change
  storedRows,  \* the row of each conversation
  runs,        \* the batches each command has ingested since it was started
  command      \* each command's progress

collectVars == <<input, storedRows, runs, command>>

(* A plan is "whole" when its snapshot has been collected, "single" when it will
   be collected as one, and "batched". *)
Start(options) ==
  [options |-> options, stage |-> "plan", plans |-> <<>>, at |-> 1, stream |-> 1,
   from |-> 1, next |-> 1, split |-> <<>>, yielded |-> FALSE, batch |-> None, batches |-> 0, staged |-> <<>>,
   report |-> 0, printed |-> None]

CollectInit ==
  /\ input \in Inputs
  /\ storedRows = [key \in Conversations |-> NoRow]
  /\ runs = [c \in Commands |-> <<>>]
  /\ \E called \in [Commands -> OptionsType] :
       /\ \A c \in Commands : called[c] \in Options[c]
       /\ command = [c \in Commands |-> Start(called[c])]
-----------------------------------------------------------------------------
Forced(c) == command[c].options.mode = "forced"
Strict(c) == command[c].options.strict
Batched(c, p) == command[c].plans[p] = "batched"
Incremental(c) ==
  Forced(c) \/ \E p \in 1..Len(command[c].plans) : Batched(c, p)

(* The groups of the stream at hand; a provider that keeps one snapshot has none. *)
GroupsAt(c, p, s) == IF Batched(c, p) THEN input[p].streams[s] ELSE <<>>
GroupsOf(c) == GroupsAt(c, command[c].at, command[c].stream)
StreamsAt(c, p) == IF Batched(c, p) THEN Len(input[p].streams) ELSE 1

BatchOf(c, first, last) ==
  [at |-> command[c].at, stream |-> command[c].stream, first |-> first, last |-> last]
FilesOf(c, b) ==
  IF Batched(c, b.at)
  THEN FlattenSeq(SubSeq(GroupsAt(c, b.at, b.stream), b.first, b.last))
  ELSE AllFiles(input[b.at])

(* How a command ends.  Only a collection in batches reports what it committed
   before it failed. *)
Ended(c, stage, printed) ==
  [Start(command[c].options) EXCEPT
     !.stage = stage, !.plans = command[c].plans, !.printed = printed]

Printed(c) == IF Incremental(c) THEN command[c].report ELSE 0
Fail(c) == command' = [command EXCEPT ![c] = Ended(c, "failed", Printed(c))]

(* ingest_snapshot of a valid batch. *)
Better_First(key, row) == storedRows[key] = NoRow
Better(key, row) == row.rank > storedRows[key].rank
IngestRows(c, b) ==
  /\ \E rows \in {Normalized(FilesOf(c, b))} :
       storedRows' = [key \in Conversations |->
                    IF key \in DOMAIN rows /\ Better(key, rows[key])
                    THEN rows[key] ELSE storedRows[key]]
  /\ runs' = [runs EXCEPT ![c] = Append(@, b)]

(* The stages of the command that read providers: a file or a directory may be
   gone or refused at any of them. *)
Reading(c) ==
  /\ command[c].at <= Len(input)
  /\ \/ command[c].stage = "plan" /\ ~Forced(c)
     \/ command[c].stage = "pull" /\ command[c].plans[command[c].at] # "whole"

ReadFails(c) ==
  /\ Reading(c)
  /\ Fail(c)
  /\ UNCHANGED <<input, storedRows, runs>>

(* _plan_collection: a provider is read unless batches are forced, and left for
   batches when only an aggregate budget was too small. *)
PlanProvider(c) ==
  /\ command[c].stage = "plan" /\ command[c].at <= Len(input)
  /\ LET provider == input[command[c].at]
         fits == FitsBudget(AllFiles(provider))
         defers == provider.capable /\ command[c].options.mode # "never"
         plan == IF ~Forced(c) /\ fits THEN "whole"
                 ELSE IF defers THEN "batched" ELSE "single"
     IN  IF fits \/ Forced(c) \/ defers
         THEN command' = [command EXCEPT ![c].plans = Append(@, plan), ![c].at = @ + 1]
         ELSE Fail(c)
  /\ UNCHANGED <<input, storedRows, runs>>

Planned(c) ==
  /\ command[c].stage = "plan" /\ command[c].at > Len(input)
  /\ IF Incremental(c)
     THEN command' = [command EXCEPT ![c].stage = "pull", ![c].at = 1]
     ELSE IF Strict(c) /\ \E p \in 1..Len(input) : Malformed(AllFiles(input[p]))
     THEN Fail(c)
     ELSE command' = [command EXCEPT ![c].stage = "direct", ![c].at = 1]
  /\ UNCHANGED <<input, storedRows, runs>>

(* After an ingestion: its batch counts, and the command goes on at another
   stage or place, or is done. *)
Go(c, stage, at) ==
  command' = [command EXCEPT
    ![c].stage = stage, ![c].at = at, ![c].batch = None, ![c].report = @ + 1,
    ![c].printed = IF stage = "done" THEN command[c].report + 1 ELSE @]

(* Every provider fitted: one snapshot after the other. *)
IngestWhole(c) ==
  /\ command[c].stage = "direct"
  /\ LET b == BatchOf(c, 1, 0)
         last == command[c].at = Len(input)
     IN  IF Invalid(FilesOf(c, b))
         THEN Fail(c) /\ UNCHANGED <<storedRows, runs>>
         ELSE /\ IngestRows(c, b)
              /\ Go(c, IF last THEN "done" ELSE "direct", command[c].at + 1)
  /\ UNCHANGED input
-----------------------------------------------------------------------------
(* iter_collection_batches: groups are packed until the next one would be one
   file too many. *)
Pulling(c) == command[c].stage = "pull" /\ command[c].split = <<>>
Packed(c) == command[c].from < command[c].next
Exhausted(c) == command[c].next > Len(GroupsOf(c))
Full(c) ==
  /\ ~Exhausted(c)
  /\ Len(FilesOf(c, BatchOf(c, command[c].from, command[c].next))) > BatchCandidates

Pack(c) ==
  /\ Pulling(c) /\ ~Exhausted(c) /\ (Packed(c) => ~Full(c))
  /\ command' = [command EXCEPT ![c].next = @ + 1]
  /\ UNCHANGED <<input, storedRows, runs>>

Flush(c) ==
  /\ Pulling(c) /\ Packed(c) /\ (Exhausted(c) \/ Full(c))
  /\ command' = [command EXCEPT
       ![c].split = <<[first |-> command[c].from, last |-> command[c].next - 1]>>,
       ![c].from = command[c].next]
  /\ UNCHANGED <<input, storedRows, runs>>

(* _iter_planned_batches hands a batch over, up to a ceiling per command. *)
Yield(c, b, split) ==
  IF command[c].batches + 1 > MaxBatches THEN Fail(c)
  ELSE command' = [command EXCEPT
         ![c].stage = "take", ![c].batch = b, ![c].batches = @ + 1,
         ![c].split = split, ![c].yielded = TRUE]

(* _collect_split: a part that exceeds an aggregate budget is halved between
   groups, and the lower half goes first. *)
Halves_Middle(part) ==
  LET middle == part.first + (part.last - part.first + 1) \div 2
  IN  <<[first |-> part.first, last |-> middle - 1],
        [first |-> middle + 1, last |-> part.last]>>
Halves_Again(part) == <<part>>
Halves(part) ==
  LET middle == part.first + (part.last - part.first + 1) \div 2
  IN  <<[first |-> part.first, last |-> middle - 1],
        [first |-> middle, last |-> part.last]>>

CollectPart(c) ==
  /\ command[c].stage = "pull" /\ command[c].split # <<>>
  /\ LET part == Head(command[c].split)
         b == BatchOf(c, part.first, part.last)
     IN  IF FitsBudget(FilesOf(c, b)) THEN Yield(c, b, Tail(command[c].split))
         ELSE IF part.first = part.last THEN Fail(c)
         ELSE command' = [command EXCEPT ![c].split = Halves(part) \o Tail(@)]
  /\ UNCHANGED <<input, storedRows, runs>>

(* A provider that keeps one snapshot, or a source without any file. *)
YieldWhole(c) ==
  /\ Pulling(c) /\ Exhausted(c) /\ ~Packed(c) /\ ~command[c].yielded
  /\ IF command[c].plans[command[c].at] = "single" /\ ~FitsBudget(AllFiles(input[command[c].at]))
     THEN Fail(c)
     ELSE Yield(c, BatchOf(c, 1, 0), <<>>)
  /\ UNCHANGED <<input, storedRows, runs>>

Advance(c) ==
  /\ Pulling(c) /\ Exhausted(c) /\ ~Packed(c) /\ command[c].yielded
  /\ LET at == command[c].at
         begin == [command[c] EXCEPT !.from = 1, !.next = 1, !.yielded = FALSE]
     IN  command' = [command EXCEPT ![c] =
           IF command[c].stream < StreamsAt(c, at) THEN [begin EXCEPT !.stream = @ + 1]
           ELSE IF at < Len(input) THEN [begin EXCEPT !.at = @ + 1, !.stream = 1]
           ELSE IF Strict(c) THEN [begin EXCEPT !.stage = "write", !.at = 1]
           ELSE [begin EXCEPT !.stage = "done", !.printed = command[c].report]]
  /\ UNCHANGED <<input, storedRows, runs>>
-----------------------------------------------------------------------------
(* What the command does with a batch: ingest it, *)
IngestBatch(c) ==
  /\ command[c].stage = "take" /\ ~Strict(c)
  /\ IF Invalid(FilesOf(c, command[c].batch))
     THEN Fail(c) /\ UNCHANGED <<storedRows, runs>>
     ELSE IngestRows(c, command[c].batch) /\ Go(c, "pull", command[c].at)
  /\ UNCHANGED input

(* or, when it is strict, check and stage it *)
Refused_Invalid(c, files) == Invalid(files)
Refused(c, files) == Malformed(files) \/ Invalid(files)

StagedFiles(c) ==
  FlattenSeq([i \in 1..Len(command[c].staged) |-> FilesOf(c, command[c].staged[i])])

StageBatch(c) ==
  /\ command[c].stage = "take" /\ Strict(c)
  /\ LET files == FilesOf(c, command[c].batch)
     IN  IF Refused(c, files) \/ Weight(StagedFiles(c) \o files) > MaxStaged
         THEN Fail(c)
         ELSE command' = [command EXCEPT ![c].stage = "pull", ![c].batch = None,
                                         ![c].staged = Append(@, command[c].batch)]
  /\ UNCHANGED <<input, storedRows, runs>>

(* and ingest the staged ones in the end. *)
IngestStaged(c) ==
  /\ command[c].stage = "write"
  /\ LET last == command[c].at = Len(command[c].staged)
     IN  /\ IngestRows(c, command[c].staged[command[c].at])
         /\ Go(c, IF last THEN "done" ELSE "write", command[c].at + 1)
  /\ UNCHANGED input
-----------------------------------------------------------------------------
(* A signal, a lost machine, or a database error that nothing catches. *)
Kill(c) ==
  /\ command[c].stage \notin {"done", "failed", "killed"}
  /\ command' = [command EXCEPT ![c] = Ended(c, "killed", None)]
  /\ UNCHANGED <<input, storedRows, runs>>

Rerun(c) ==
  /\ command[c].stage \in {"failed", "killed"}
  /\ \E options \in Options[c] : command' = [command EXCEPT ![c] = Start(options)]
  /\ runs' = [runs EXCEPT ![c] = <<>>]
  /\ UNCHANGED <<input, storedRows>>

Work(c) ==
  \/ PlanProvider(c) \/ Planned(c) \/ IngestWhole(c)
  \/ Pack(c) \/ Flush(c) \/ CollectPart(c) \/ YieldWhole(c) \/ Advance(c)
  \/ IngestBatch(c) \/ StageBatch(c) \/ IngestStaged(c)

CollectNext == \E c \in Commands : Work(c) \/ ReadFails(c) \/ Kill(c) \/ Rerun(c)
CollectSpec == CollectInit /\ [][CollectNext]_collectVars

(* A command is one thread that waits for nobody; nothing has to fail. *)
CollectFairSpec == CollectSpec /\ \A c \in Commands : WF_collectVars(Work(c))
-----------------------------------------------------------------------------
(* The batches a command has ingested, or staged when it is strict. *)
Batches(c) ==
  IF Strict(c) THEN command[c].staged ELSE runs[c]

SameStream(a, b) == a.at = b.at /\ a.stream = b.stream

(* However a stream is packed and halved (_collect_split), no group is in two
   batches, and a command that has read everything has every group in one. *)
NoGroupTwice ==
  \A c \in Commands : \A i, j \in 1..Len(Batches(c)) :
    i < j /\ SameStream(Batches(c)[i], Batches(c)[j])
      => Batches(c)[i].last < Batches(c)[j].first
NoGroupLost ==
  \A c \in Commands :
    command[c].stage = "write" \/ (command[c].stage = "done" /\ Incremental(c)) =>
      \A p \in 1..Len(input) : \A s \in 1..StreamsAt(c, p) :
        \A g \in 1..Len(GroupsAt(c, p, s)) : \E i \in 1..Len(Batches(c)) :
          /\ Batches(c)[i].at = p /\ Batches(c)[i].stream = s
          /\ Batches(c)[i].first <= g /\ g <= Batches(c)[i].last
EveryGroupOnce == NoGroupTwice /\ NoGroupLost

(* What one collection of a provider stores. *)
OneCollection(p) == Normalized(AllFiles(input[p]))

(* A collect that succeeds leaves what one collection of the sources stores:
   in batches, over what an earlier run left, next to other commands. *)
DoneIsOneCollection ==
  \A c \in Commands : command[c].stage = "done" =>
    \A p \in 1..Len(input) :
      LET rows == OneCollection(p)
      IN  \A key \in DOMAIN rows : storedRows[key] = rows[key]

(* Even a partial import of Claude Code holds no row one collection would not
   have: a transcript is batched with every copy of its session
   (_transcript_groups). *)
PartialImportsAgree ==
  \A p \in 1..Len(input) :
    LET rows == OneCollection(p)
    IN  input[p].grouped =>
          \A key \in DOMAIN rows : storedRows[key] \in {NoRow, rows[key]}

(* A strict collect that was stopped by a malformed record, or in batches by
   anything it read, has not written (staging comes first). *)
StrictWritesWholes ==
  \A c \in Commands : Strict(c) /\ runs[c] # <<>> =>
    \A p \in 1..Len(input) :
      /\ ~Malformed(AllFiles(input[p]))
      /\ Incremental(c) => ~Invalid(AllFiles(input[p]))

(* Splitting ends, and with it every collection. *)
CollectionsEnd ==
  \A c \in Commands : []<>(command[c].stage \in {"done", "failed", "killed"})
=============================================================================
