------------------------------- MODULE EventLogs -------------------------------
(* The logs of tools that append events of many kinds to one file: Claude     *)
(* Code, Codex, GitHub Copilot CLI and Kimi Code.                             *)
EXTENDS Sessions

--------------------------------------------------------------------------------
(* Claude Code appends events.  A response is streamed in several events of one  *)
(* request, and an event may be written again; the most complete one tells what  *)
(* the response used.                                                            *)
ClaudeTraits == {"ask", "answer", "begin", "finish", "again", "advised", "compact", "note",
                 "errors", "writes", "reasons"}

ClaudeLog(facts) ==
    LET Event(i) ==
            LET told == IF facts[i].kind = "again" THEN Repeated(facts, i) ELSE i
                fact == facts[told]
                usage == [input_tokens |-> fact.use[1], cache_read |-> fact.use[2],
                          cache_creation |-> fact.use[3], output_tokens |-> OutputOf(fact.use),
                          thinking_tokens |-> fact.use[5]]
            IN  [uuid |-> i, requestId |-> Origin(facts, told),
                 type |-> CASE fact.kind \in {"ask", "note"} -> "user"
                            [] fact.kind = "compact" -> "compact_boundary"
                            [] OTHER -> "assistant",
                 toolUseResult |-> fact.kind = "note",
                 usage |-> usage,
                 advisors |-> IF fact.kind = "advised" THEN <<usage>> ELSE <<>>,
                 stopped |-> fact.kind # "begin",
                 isApiErrorMessage |-> ~fact.ok,
                 tool |-> fact.tool]
    IN  Records(facts, Event)

ClaudeStartsTurn(event) == event.type = "user" /\ ~event.toolUseResult

ClaudeUsage(raw) ==
    LET use == CountersOf(raw)
        reasoning == Least(use.output_tokens, use.thinking_tokens)
    IN  TokensApart(use.input_tokens, use.cache_read, use.cache_creation,
                    use.output_tokens - reasoning, reasoning, 0)

ClaudeAdvisorUsages(event) == Each(event.advisors, ClaudeUsage)

\* The draft also has the responses by request, and the tool calls seen.
ClaudeEmpty == DraftWith([responses |-> <<>>, seen |-> {}])

\* Among the events of a response, the highest rank: stopped, then tokens, then the later.
ClaudeFuller(new, old) ==
    \E k \in 1..3 : new.rank[k] > old.rank[k] /\ \A j \in 1..k - 1 : new.rank[j] = old.rank[j]

ClaudeResponded(responses, new) ==
    LET at == {k \in DOMAIN responses : responses[k].key = new.key}
    IN  IF at = {} THEN Append(responses, new)
        ELSE IF ClaudeFuller(new, responses[Min(at)]) THEN [responses EXCEPT ![Min(at)] = new]
        ELSE responses

\* What the nine fields of a record come to.
ClaudeWeight(use) == Total(use) + Bounded(InputOf(use)) + OutputOf(use) + Bounded(Total(use))

ClaudeAnswered(draft, event, i) ==
    LET usages == <<ClaudeUsage(event.usage)>> \o ClaudeAdvisorUsages(event)
        rank == <<IF event.stopped THEN 1 ELSE 0,
                  FoldLeft(LAMBDA sum, use : sum + ClaudeWeight(use), 0, usages), i>>
        response == [key |-> event.requestId, rank |-> rank, index |-> i,
                     turn |-> draft.active, usages |-> usages]
        marked == Marked(draft, draft.active, IF event.isApiErrorMessage THEN "aborted" ELSE "completed")
        fresh == event.tool /\ event.requestId \notin draft.seen
    IN  [ToolUsed(marked, draft.active, fresh) EXCEPT
            !.responses = ClaudeResponded(@, response),
            !.seen = IF fresh THEN @ \cup {event.requestId} ELSE @]

ClaudeRead(draft, event, i) ==
    CASE ClaudeStartsTurn(event) -> Opened(draft, event.uuid)
      [] event.type = "compact_boundary" -> [draft EXCEPT !.compactions = @ + 1]
      [] event.type = "assistant" -> ClaudeAnswered(draft, event, i)
      [] OTHER -> draft

\* The responses become model calls in the order of the events that were kept.
ClaudeCalled(responses, draft, i) ==
    LET kept == {k \in DOMAIN responses : responses[k].index = i}
        response == responses[Min(kept)]
        Call(use) == [turn |-> response.turn, tokens |-> use]
    IN  IF kept = {} THEN draft ELSE [draft EXCEPT !.calls = @ \o Each(response.usages, Call)]

ClaudeConversation(events) ==
    LET indices == [i \in DOMAIN events |-> i]
        read == Drafted(LAMBDA draft, i : ClaudeRead(draft, events[i], i), ClaudeEmpty, indices)
    IN  Rows(Drafted(LAMBDA draft, i : ClaudeCalled(read.responses, draft, i), read, indices))

ClaudeEventCount(events) == Len(events)
ClaudeRank(events) == <<ClaudeEventCount(events)>>
ClaudeSelected(logs) == Foremost([log \in logs |-> ClaudeRank(log)])

--------------------------------------------------------------------------------
(* Codex appends events to a rollout: a task starts, tokens are counted, tools   *)
(* are called, the task completes or is aborted.  Nothing but their order says   *)
(* which turn a count or a tool belongs to.                                      *)
CodexTraits == {"ask", "answer", "fail", "compact", "note", "closes", "writes", "reasons", "totals"}

CodexEvents(facts, i) ==
    LET fact == facts[i]
        usage == [input |-> InputOf(fact.use), cached |-> fact.use[2], write |-> fact.use[3],
                  output |-> OutputOf(fact.use), reasoning |-> fact.use[5],
                  total |-> Total(fact.use)]
        Event(type) == [type |-> type, turn |-> Within(facts, i), usage |-> usage]
    IN  CASE fact.kind = "ask" -> <<Event("task_started"), Event("turn_context")>>
          [] fact.kind = "answer" ->
                 <<Event("token_count"), Event(IF fact.tool THEN "function_call" ELSE "task_complete")>>
          [] fact.kind = "fail" -> <<Event("turn_aborted")>>
          [] fact.kind = "compact" -> <<Event("compacted")>>
          [] OTHER -> <<Event("thread_settings_applied")>>

CodexLog(facts) == FlattenSeq(Records(facts, LAMBDA i : CodexEvents(facts, i)))

CodexUsage(raw) ==
    LET use == [field \in DOMAIN raw |-> InRange(raw[field])]
        write == Least(use.write, Over(MaxBigint, use.cached))
        uncached == Over(use.input, use.cached + write)
        left == Over(MaxBigint, uncached + use.cached + write)
        reasoning == Least(use.reasoning, left)
        visible == Least(Over(use.output, use.reasoning), Over(left, reasoning))
        known == uncached + use.cached + write + visible + reasoning
    IN  <<uncached, use.cached, write, visible, reasoning,
          Least(Over(use.total, known), Over(MaxBigint, known))>>

(* The turn an event is in: the one the last task or context named, 0 after a    *)
(* task has ended.  A task that starts opens its turn; no task starts twice.     *)
CodexTasked(draft, event) ==
    LET turn == TurnOf(draft, event.turn)
    IN  CASE event.type = "task_started" -> Opened(draft, event.turn)
          [] event.type = "turn_context" -> [draft EXCEPT !.active = turn]
          [] event.type = "task_complete" -> [Marked(draft, turn, "completed") EXCEPT !.active = 0]
          [] event.type = "turn_aborted" -> [Marked(draft, turn, "aborted") EXCEPT !.active = 0]

CodexCounted(draft, event) == Called(draft, draft.active, CodexUsage(event.usage))

CodexNormalized(draft, event) ==
    CASE event.type = "compacted" -> [draft EXCEPT !.compactions = @ + 1]
      [] event.type \in {"task_started", "turn_context", "task_complete", "turn_aborted"} ->
             CodexTasked(draft, event)
      [] event.type = "token_count" -> CodexCounted(draft, event)
      [] event.type = "function_call" -> ToolUsed(draft, draft.active, TRUE)
      [] OTHER -> draft

CodexConversation(events) == Rows(Drafted(CodexNormalized, NoDraft, events))

CodexEventCount(events) == Len(events)
CodexRank(events) == <<CodexEventCount(events)>>
CodexSelected(logs) == Foremost([log \in logs |-> CodexRank(log)])

--------------------------------------------------------------------------------
(* GitHub Copilot CLI appends events.  Those of a subagent name it, the others    *)
(* are of the session itself.  What the session used is only told when it shuts  *)
(* down, in one sum per model.  The adapter reads the events twice.              *)
CopilotTraits == {"ask", "answer", "again", "side", "compact", "close", "rereads", "writes", "reasons"}

CopilotTold == {"answer"}
CopilotUsedBy(facts, i) == UsedAt(facts, {j \in 1..i : facts[j].kind \in CopilotTold})

CopilotEvents(facts, i) ==
    LET fact == facts[i]
        used == CopilotUsedBy(facts, i)
        Event(type) ==
            [type |-> type, id |-> i, root |-> fact.kind # "side",
             error |-> ~fact.ok,
             toolCallId |-> IF fact.kind = "again" THEN Repeated(facts, i) ELSE i,
             usage |-> [inputTokens |-> InputOf(used), cacheReadTokens |-> used[2],
                        cacheWriteTokens |-> used[3], outputTokens |-> OutputOf(used),
                        reasoningTokens |-> used[5]]]
    IN  CASE fact.kind = "ask" -> <<Event("user.message")>>
          [] fact.kind = "answer" ->
                 <<Event("assistant.message"),
                   Event(IF fact.tool THEN "tool.execution_start" ELSE "assistant.turn_end")>>
          [] fact.kind = "again" ->
                 IF facts[Repeated(facts, i)].tool THEN <<Event("tool.execution_start")>>
                 ELSE <<Event("assistant.turn_end")>>
          [] fact.kind = "side" ->
                 <<Event("assistant.message"), Event("tool.execution_start"),
                   Event("assistant.turn_end")>>
          [] fact.kind = "compact" -> <<Event("session.compaction_complete")>>
          [] fact.kind = "close" -> <<Event("session.shutdown")>>

CopilotLog(facts) == FlattenSeq(Records(facts, LAMBDA i : CopilotEvents(facts, i)))

(* What the rows can be about: the last shutdown is the only model call, and it  *)
(* belongs to no turn.  A shutdown by an error may show on the last turn, also   *)
(* on one that began after it: the adapter does not compare the two.             *)
CopilotLived(facts) ==
    LET closed == {i \in DOMAIN facts : facts[i].kind = "close"}
        Shown(i) ==
            CASE facts[i].kind = "answer" -> [facts[i] EXCEPT !.kind = "told"]
              [] i \in closed /\ i = Max(closed) ->
                     Fact("extra", 0, CopilotUsedBy(facts, i), FALSE, TRUE)
              [] i \in closed -> [facts[i] EXCEPT !.ok = TRUE]
              [] OTHER -> facts[i]
        cut == closed # {} /\ ~facts[Max(closed)].ok
    IN  Records(facts, Shown)
            \o IF cut THEN <<Fact("cut", Asks(facts), NoTokens, FALSE, TRUE)>> ELSE <<>>

CopilotUsage(raw) ==
    LET use == CountersOf(raw)
        cached == Least(use.inputTokens, use.cacheReadTokens)
        written == Least(use.inputTokens - cached, use.cacheWriteTokens)
        reasoning == Least(use.outputTokens, use.reasoningTokens)
    IN  TokensApart(use.inputTokens - cached - written, cached, written,
                    use.outputTokens - reasoning, reasoning, 0)

\* The draft also has the last shutdown, if any, and the tool calls seen.
CopilotEmpty == DraftWith([shutdown |-> <<>>, seen |-> {}])

CopilotNormalized(draft, event) ==
    CASE event.root /\ event.type = "user.message" -> Opened(draft, event.id)
      [] event.root /\ event.type = "assistant.turn_end" -> Marked(draft, draft.active, "completed")
      [] event.root /\ event.type = "tool.execution_start" ->
             [ToolUsed(draft, draft.active, event.toolCallId \notin draft.seen)
                 EXCEPT !.seen = @ \cup {event.toolCallId}]
      [] event.root /\ event.type = "session.compaction_complete" -> [draft EXCEPT !.compactions = @ + 1]
      [] event.root /\ event.type = "session.shutdown" -> [draft EXCEPT !.shutdown = <<event>>]
      [] OTHER -> draft

\* A shutdown by an error aborts the last turn, unless that turn was completed.
CopilotConversation(events) ==
    LET read == Drafted(CopilotNormalized, CopilotEmpty, events)
        last == read.active
        aborted == /\ last # 0 /\ read.shutdown # <<>>
                   /\ read.shutdown[1].error /\ read.turns[last].status # "completed"
        marked == IF aborted THEN Marked(read, last, "aborted") ELSE read
    IN  Rows(IF read.shutdown = <<>> THEN marked
             ELSE Called(marked, 0, CopilotUsage(read.shutdown[1].usage)))

CopilotEventCount(events) == Len(events)
CopilotRank(events) == <<CopilotEventCount(events)>>
CopilotSelected(logs) == Foremost([log \in logs |-> CopilotRank(log)])

--------------------------------------------------------------------------------
(* Kimi Code appends wire events: a turn begins and ends or is interrupted, a     *)
(* status tells what a step used.                                                *)
KimiTraits == {"ask", "answer", "fail", "compact", "note", "presumes", "writes", "totals"}

KimiEvents(facts, i) ==
    LET fact == facts[i]
        usage == [input_other |-> fact.use[1], input_cache_read |-> fact.use[2],
                  input_cache_creation |-> fact.use[3], output |-> OutputOf(fact.use),
                  total |-> Total(fact.use)]
        Event(type) == [id |-> i, type |-> type,
                        usage |-> IF fact.kind = "answer" THEN {usage} ELSE {}]
    IN  CASE fact.kind = "ask" -> <<Event("TurnBegin")>>
          [] fact.kind = "answer" ->
                 <<Event("StatusUpdate"), Event(IF fact.tool THEN "ToolCall" ELSE "TurnEnd")>>
          [] fact.kind = "fail" -> <<Event("StepInterrupted")>>
          [] fact.kind = "compact" -> <<Event("CompactionEnd")>>
          [] fact.kind = "note" -> <<Event("StatusUpdate")>>

KimiLog(facts) == FlattenSeq(Records(facts, LAMBDA i : KimiEvents(facts, i)))

KimiUsage(raw) ==
    Tokens(raw.input_other, raw.input_cache_read, raw.input_cache_creation, raw.output, 0, raw.total)

\* A turn that begins completes the one before it, however that one ended.
KimiNormalized(draft, event) ==
    LET turn == draft.active
    IN  CASE event.type = "TurnBegin" -> Opened(Marked(draft, turn, "completed"), event.id)
          [] event.type = "TurnEnd" -> Marked(draft, turn, "completed")
          [] event.type = "StepInterrupted" -> Marked(draft, turn, "aborted")
          [] event.type = "StatusUpdate" ->
                 IF event.usage = {} THEN draft
                 ELSE Called(draft, turn, KimiUsage(CHOOSE raw \in event.usage : TRUE))
          [] event.type = "ToolCall" -> ToolUsed(draft, turn, TRUE)
          [] event.type = "CompactionEnd" -> [draft EXCEPT !.compactions = @ + 1]

KimiConversation(events) == Rows(Drafted(KimiNormalized, NoDraft, events))

KimiEventCount(events) == Len(events)
KimiRank(events) ==
    <<KimiEventCount(events), IF events = <<>> THEN 0 ELSE events[Len(events)].id>>    \* and when it was written
KimiSelected(logs) == Foremost([log \in logs |-> KimiRank(log)])
================================================================================
