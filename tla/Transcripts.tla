------------------------------ MODULE Transcripts ------------------------------
(***************************************************************************)
(* The files adapters read, what one collection makes of a list of them,   *)
(* and the groups Claude Code transcripts are batched in (claude.py).      *)
(*                                                                         *)
(* A file is a copy of the conversation `key`.  A subagent's transcript    *)
(* also names the session, `parent`, whose responses it may replay: they   *)
(* are left out of its rows, so its rows depend on which copy of that      *)
(* session wins in the same collection.  Ranks (event count, then content  *)
(* hash) are numbers.                                                      *)
(***************************************************************************)
EXTENDS Integers, Sequences, FiniteSets, SequencesExt

CONSTANTS
  Conversations,  \* provider-qualified conversation ids
  Limit,          \* what one ProviderInputBudget and one snapshot admit
  None            \* "no value"

Flaws == {"none", "malformed", "invalid"}

(* records stands for what the file adds to each of the aggregate budgets: one
   candidate, bytes read, normalized records. *)
Files ==
  [key : Conversations \cup {None}, parent : Conversations \cup {None},
   rank : Nat \ {0}, records : Nat, flaw : Flaws]

Weight(files) == FoldLeft(LAMBDA sum, file : sum + file.records, 0, files)
FitsBudget(files) == Weight(files) <= Limit

(* A file without an identity is skipped and counted as malformed. *)
Malformed(files) ==
  \E i \in 1..Len(files) : files[i].key = None \/ files[i].flaw = "malformed"
-----------------------------------------------------------------------------
(* The copies that are kept: of the best ones, the first that was read. *)
Best(files, i, j) ==
  \/ files[j].rank < files[i].rank
  \/ files[j].rank = files[i].rank /\ i <= j
KeptCopies(files) ==
  {i \in 1..Len(files) :
     /\ files[i].key # None
     /\ \A j \in 1..Len(files) : files[j].key = files[i].key => Best(files, i, j)}

(* validate_snapshot refuses what was normalized: the copies that were kept. *)
Invalid(files) == \E i \in KeptCopies(files) : files[i].flaw = "invalid"

(* The rank of a conversation's kept copy, and of no copy. *)
RankIn(files, key) ==
  LET kept == {i \in KeptCopies(files) : files[i].key = key}
  IN  IF kept = {} THEN 0 ELSE files[CHOOSE i \in kept : TRUE].rank

(* A conversation's rows: the copy they are of, and the copy of the parent
   session they were filtered against. *)
Row(files, i) ==
  [rank |-> files[i].rank,
   against |-> IF files[i].parent = None THEN 0 ELSE RankIn(files, files[i].parent)]

NoRow == [rank |-> 0, against |-> 0]

Normalized(files) ==
  LET kept == KeptCopies(files)
      keys == {files[i].key : i \in kept}
  IN  [key \in keys |-> Row(files, CHOOSE i \in kept : files[i].key = key)]
-----------------------------------------------------------------------------
(* The union-find of _transcript_groups, as what find() answers: a subagent's
   class joins that of its parent session. *)
Roots_SessionsApart(files) == [key \in Conversations |-> key]
Roots(files) ==
  LET Joined(root, file) ==
        IF file.key = None \/ file.parent = None THEN root
        ELSE [key \in Conversations |->
                IF root[key] = root[file.key] THEN root[file.parent] ELSE root[key]]
      root[n \in 0..Len(files)] ==
        IF n = 0 THEN [key \in Conversations |-> key] ELSE Joined(root[n - 1], files[n])
  IN  root[Len(files)]

Together(files, root, i, j) ==
  \/ i = j
  \/ /\ files[i].key # None /\ files[j].key # None
     /\ root[files[i].key] = root[files[j].key]
Class(files, i) ==
  LET root == Roots(files) IN {j \in 1..Len(files) : Together(files, root, i, j)}

(* Some of the positions up to n, in reading order. *)
Ordered(positions, n) ==
  LET upTo[i \in 0..n] ==
        IF i = 0 THEN <<>>
        ELSE IF i \in positions THEN Append(upTo[i - 1], i) ELSE upTo[i - 1]
  IN  upTo[n]

(* The groups in the order of their first members, each in reading order. *)
Firsts(files) ==
  {i \in 1..Len(files) : \A j \in Class(files, i) : i <= j}
Groups(files) ==
  LET firsts == Ordered(Firsts(files), Len(files))
      Group(first) ==
        LET members == Ordered(Class(files, first), Len(files))
        IN  [k \in 1..Len(members) |-> files[members[k]]]
  IN  [g \in 1..Len(firsts) |-> Group(firsts[g])]
-----------------------------------------------------------------------------
AllFiles(provider) == FlattenSeq(provider.sources)

(* Claude Code's adapter batches the transcripts of all sources together, by
   identity; the others batch single files, source by source. *)
Streams(provider) ==
  IF provider.grouped THEN <<Groups(AllFiles(provider))>>
  ELSE [s \in 1..Len(provider.sources) |->
          [i \in 1..Len(provider.sources[s]) |-> <<provider.sources[s][i]>>]]
=============================================================================
