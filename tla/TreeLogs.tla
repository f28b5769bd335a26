-------------------------------- MODULE TreeLogs -------------------------------
(* The logs of tools that keep a session as a tree of records, each of which  *)
(* names its parent: Pi and Qwen Code.                                        *)
EXTENDS Sessions

--------------------------------------------------------------------------------
(* Pi keeps a session as a tree of entries: each names its parent, and a branch  *)
(* may be taken up again after another was written.                              *)
PiTraits == {"ask", "answer", "errors", "extra", "compact", "branches", "writes", "reasons", "totals"}

(* An entry per fact, under the last entry of the branch it continues.  A        *)
(* summary is billed when a model wrote it.                                      *)
PiLog(facts) ==
    LET Entry(i) ==
            LET fact == facts[i]
            IN  [type |-> CASE fact.kind = "ask" -> "user"
                            [] fact.kind = "answer" -> "assistant"
                            [] fact.kind = "extra" -> "branch_summary"
                            [] OTHER -> "compaction",
                 parent |-> Parent(facts, i),
                 usage |-> [input |-> fact.use[1], cacheRead |-> fact.use[2],
                            cacheWrite |-> fact.use[3], output |-> OutputOf(fact.use),
                            reasoning |-> fact.use[5], totalTokens |-> Total(fact.use)],
                 billed |-> fact.kind = "extra",
                 tool |-> fact.tool,
                 stop |-> CASE ~fact.ok -> "error" [] fact.tool -> "toolUse" [] OTHER -> "stop"]
    IN  Records(facts, Entry)

PiUsage(raw) ==
    LET use == CountersOf(raw)
        reasoning == Least(use.output, use.reasoning)
    IN  TokensApart(use.input, use.cacheRead, use.cacheWrite,
                    use.output - reasoning, reasoning, use.totalTokens)

\* As it would be if the turn that is active counted.
PiAncestralTurn_Latest(entries, entry) == 0

PiAncestralTurn(entries, entry) ==
    LET nearest[i \in 0..Len(entries)] ==
            IF i = 0 THEN 0
            ELSE IF entries[i].type = "user" THEN i ELSE nearest[entries[i].parent]
    IN  nearest[entry.parent]

PiStopped(draft, turn, reason) ==
    CASE reason \in {"error", "aborted"} -> Marked(draft, turn, "aborted")
      [] reason \in {"stop", "length"} -> Marked(draft, turn, "completed")
      [] OTHER -> draft

PiNormalized(entries, draft, i) ==
    LET entry == entries[i]
        nearest == TurnOf(draft, PiAncestralTurn(entries, entry))
        turn == IF nearest = 0 THEN draft.active ELSE nearest
        counted == IF entry.type = "compaction"
                   THEN [draft EXCEPT !.compactions = @ + 1] ELSE draft
    IN  CASE entry.type = "user" -> Opened(draft, i)
          [] entry.type = "assistant" ->
                 ToolUsed(PiStopped(Called(draft, turn, PiUsage(entry.usage)), turn, entry.stop),
                          turn, entry.tool)
          [] OTHER -> IF entry.billed THEN Called(counted, turn, PiUsage(entry.usage)) ELSE counted

PiConversation(entries) ==
    Rows(Drafted(LAMBDA draft, i : PiNormalized(entries, draft, i), NoDraft,
                  [i \in DOMAIN entries |-> i]))

PiEventCount(entries) == Len(entries)
PiRank_Shortest(entries) == <<MaxBigint - Least(PiEventCount(entries), MaxBigint)>>
PiRank(entries) == <<PiEventCount(entries)>>
PiSelected(logs) == Foremost([log \in logs |-> PiRank(log)])

--------------------------------------------------------------------------------
(* Qwen Code appends records that name their parent; a record may be written in  *)
(* fragments of one uuid.  Only the branch of the last record counts.  The       *)
(* adapter reads a chat twice: to select it, and to write its rows.              *)
QwenTraits == {"ask", "answer", "begin", "finish", "side", "compact", "note", "branches", "rereads", "reasons", "totals"}

QwenLog(facts) ==
    LET Record(i) ==
            LET fact == facts[i]
                first == Origin(facts, i)
            IN  [uuid |-> first, parent |-> Parent(facts, first),
                 type |-> CASE fact.kind = "ask" -> "user"
                            [] fact.kind = "compact" -> "chat_compression"
                            [] fact.kind = "note" -> "artifact"
                            [] OTHER -> "assistant",
                 isSidechain |-> fact.kind = "side",
                 usage |-> [promptTokenCount |-> InputOf(fact.use),
                            cachedContentTokenCount |-> fact.use[2],
                            candidatesTokenCount |-> fact.use[4],
                            thoughtsTokenCount |-> fact.use[5], totalTokenCount |-> Total(fact.use)],
                 tool |-> fact.tool]
    IN  Records(facts, Record)

\* What still counts of a session: the branch of its last fact.
QwenLived(facts) ==
    LET spoken == {i \in DOMAIN facts : facts[i].kind # "note"}
    IN  Kept(facts, IF spoken = {} THEN {} ELSE Lineage(facts, Max(spoken)))

QwenUsage(raw) ==
    LET use == CountersOf(raw)
        cached == Least(use.promptTokenCount, use.cachedContentTokenCount)
    IN  TokensApart(use.promptTokenCount - cached, cached, 0,
                    use.candidatesTokenCount, use.thoughtsTokenCount, use.totalTokenCount)

QwenAggregated(fragments) ==
    [Head(fragments) EXCEPT !.usage = Last(fragments).usage,
                            !.tool = \E i \in DOMAIN fragments : fragments[i].tool]

QwenActiveBranch(records) ==
    LET leaves == {i \in DOMAIN records : records[i].type # "artifact"}
        fragments(uuid) == Those(records, {i \in DOMAIN records : records[i].uuid = uuid})
        chain[uuid \in 0..Len(records)] ==
            IF uuid = 0 THEN <<>>
            ELSE Append(chain[records[uuid].parent], QwenAggregated(fragments(uuid)))
    IN  IF leaves = {} THEN <<>> ELSE chain[records[Max(leaves)].uuid]

QwenNormalized(draft, record) ==
    CASE record.type = "user" -> Opened(draft, record.uuid)
      [] record.type = "chat_compression" -> [draft EXCEPT !.compactions = @ + 1]
      [] record.type = "assistant" /\ ~record.isSidechain ->
             LET turn == draft.active
             IN  ToolUsed(Marked(Called(draft, turn, QwenUsage(record.usage)), turn, "completed"),
                          turn, record.tool)
      [] OTHER -> draft

QwenConversation(records) == Rows(Drafted(QwenNormalized, NoDraft, QwenActiveBranch(records)))

QwenEventCount(records) == Len(records)
QwenRank(records) == <<QwenEventCount(records)>>
QwenSelected(logs) == Foremost([log \in logs |-> QwenRank(log)])
================================================================================
