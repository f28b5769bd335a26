------------------------------ MODULE Sessions ------------------------------
(* What happens in a session of a coding tool, whichever tool it is: the user    *)
(* asks, the model answers, context is compacted.  The tool writes all of it to  *)
(* a log of its own form; Truth is what a reader of that log has to report.      *)
(* The coding tools are not part of this program: these definitions state what   *)
(* its adapters take their logs to mean.                                         *)
EXTENDS UsageRecords

(* A fact of a session: its kind, the turn it belongs to (0: none; for a prompt,  *)
(* the turn it continues), what it cost, whether a tool was called and whether   *)
(* it ended well.                                                                *)
Fact(kind, turn, use, tool, ok) ==
    [kind |-> kind, turn |-> turn, use |-> use, tool |-> tool, ok |-> ok]

Asks(facts) == Cardinality({i \in DOMAIN facts : facts[i].kind = "ask"})

(* The turn that fact i is part of: a prompt is part of the turn it opens.       *)
Within(facts, i) ==
    IF facts[i].kind = "ask" THEN Asks(SubSeq(facts, 1, i)) ELSE facts[i].turn

Part(facts, turn) == SelectSeq([i \in DOMAIN facts |-> i], LAMBDA i : Within(facts, i) = turn)

\* A model call the tool was billed for.  An answer that streams begins and finishes.
Billed == {"answer", "begin", "advised", "extra"}

\* What a billed fact cost: an answer that was advised is two calls.
Charged(fact) == IF fact.kind = "advised" THEN <<fact.use, fact.use>> ELSE <<fact.use>>

\* Where the answer that begins at fact i finishes, or i itself.
Finish(facts, i) ==
    LET after == {j \in i + 1..Len(facts) : facts[j].kind = "finish" /\ facts[j].turn = facts[i].turn}
        next == {j \in i + 1..Len(facts) : facts[j].kind = "begin" /\ facts[j].turn = facts[i].turn}
    IN  IF facts[i].kind = "begin" /\ after # {} /\ \A j \in next : Min(after) < j
        THEN Min(after) ELSE i

\* The fact at which the answer that fact i finishes began, or i itself.
Origin(facts, i) ==
    IF facts[i].kind = "finish" THEN CHOOSE j \in 1..i - 1 : Finish(facts, j) = i ELSE i

\* The answer that is written again as fact i.
Whole == {"answer", "told", "advised", "finish"}
Repeated(facts, i) ==
    Max({j \in 1..i - 1 : facts[j].turn = facts[i].turn /\ facts[j].kind \in Whole})

\* The fact that fact i continues (0: none): the last one of its turn.
Parent(facts, i) ==
    LET branch == {j \in 1..i - 1 : Within(facts, j) = facts[i].turn /\ facts[j].kind # "note"}
    IN  IF branch = {} THEN 0 ELSE Origin(facts, Max(branch))

Each(items, RecordOf(_)) == [i \in DOMAIN items |-> RecordOf(items[i])]

\* The log of a tool that appends a record for every fact.
Records(facts, RecordOf(_)) == [i \in DOMAIN facts |-> RecordOf(i)]

\* The rows of a tool that keeps one for every message, and updates it in place.
Updated(rows, row) ==
    LET at == {k \in DOMAIN rows : rows[k].id = row.id}
    IN  IF at = {} THEN Append(rows, row) ELSE [rows EXCEPT ![Min(at)] = row]

\* The table after the written records, each of which is a row.
Table(records, written) ==
    LET rows[k \in 0..Len(records)] ==
            IF k = 0 THEN <<>>
            ELSE IF k \in written THEN Updated(rows[k - 1], records[k]) ELSE rows[k - 1]
    IN  rows[Len(records)]

\* What the facts at some places used in all: the counters of a tool know no limit.
UsedAt(facts, places) ==
    LET used[k \in 0..Len(facts)] ==
            IF k = 0 THEN NoTokens
            ELSE Plus(used[k - 1], IF k \in places THEN facts[k].use ELSE NoTokens)
    IN  used[Len(facts)]

OfKind(facts, kinds) == {i \in DOMAIN facts : facts[i].kind \in kinds}

(* What is left of a session when only the kept facts still count, with its      *)
(* turns counted anew.                                                           *)
Kept(facts, kept) ==
    LET nth(turn) == Cardinality({i \in kept : facts[i].kind = "ask" /\ Within(facts, i) <= turn})
    IN  Each(SelectSeq([i \in DOMAIN facts |-> i], LAMBDA i : i \in kept),
             LAMBDA i : [facts[i] EXCEPT !.turn = nth(@)])

\* The branch of fact i: what it continues, and what that continues.
Lineage(facts, i) ==
    LET up[j \in 0..Len(facts)] == IF j = 0 THEN {} ELSE {j} \cup up[Parent(facts, j)]
        line == up[i]
    IN  {j \in DOMAIN facts : Origin(facts, j) \in line}

\* The statuses a turn may be shown with after one more fact.
Fits(fits, fact) ==
    CASE fact.kind = "ask" -> {"in-progress"}
      [] fact.kind = "fail" \/ ~fact.ok -> {"aborted"}
      [] fact.kind \in Whole /\ ~fact.tool -> (fits \cap {"aborted"}) \cup {"completed"}
      [] fact.kind \in Whole \cup {"begin"} -> fits \cup {"completed"}
      [] fact.kind = "cut" -> fits \cup {"aborted"}
      [] OTHER -> fits

Truth(facts) ==
    [turn \in 0..Asks(facts) |->
        LET part == Part(facts, turn)
            billed == SelectSeq(part, LAMBDA i : facts[i].kind \in Billed)
        IN  [calls |-> FlattenSeq(Each(billed, LAMBDA i : Charged(facts[Finish(facts, i)]))),
             tools |-> Cardinality({i \in Range(part) : facts[i].tool}),
             fits |-> FoldLeft(LAMBDA fits, i : Fits(fits, facts[i]), {}, part)]]
===============================================================================
