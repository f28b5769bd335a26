-------------------------------- MODULE GrokLogs -------------------------------
(* Grok Build keeps a summary of a session and two files beside it: updates,     *)
(* with the prompts and what a whole turn used, and events, with the tools.  An   *)
(* older session has no updates.                                                 *)
EXTENDS Sessions

GrokTraits == {"ask", "answer", "fail", "compact", "note", "closes", "apart", "rereads",
               "writes", "reasons", "totals", "reported", "prompted"}

GrokEnds(fact) == fact.kind = "fail" \/ (fact.kind = "answer" /\ ~fact.tool)

\* What the turn of fact i has used up to it.
GrokAnswers(facts, i) == {j \in 1..i : facts[j].kind = "answer" /\ facts[j].turn = facts[i].turn}
GrokUsed(facts, i) ==
    LET use == UsedAt(facts, GrokAnswers(facts, i))
    IN  [inputTokens |-> InputOf(use), cachedReadTokens |-> use[2],
         cacheCreationTokens |-> use[3], outputTokens |-> OutputOf(use),
         reasoningTokens |-> use[5], totalTokens |-> Total(use),
         modelCalls |-> Cardinality(GrokAnswers(facts, i))]

GrokUpdates(facts, i) ==
    LET fact == facts[i]
        Update(type, usage) == <<[type |-> type, prompt |-> fact.turn, usage |-> usage,
                                  reason |-> IF fact.kind = "fail" THEN "error" ELSE "end_turn"]>>
    IN  CASE fact.kind = "ask" ->
                 <<[type |-> "user_message_chunk", prompt |-> Within(facts, i), usage |-> {}]>>
          [] fact.kind = "compact" -> Update("auto_compact_completed", {})
          [] GrokEnds(fact) -> Update("turn_completed", IF GrokAnswers(facts, i) = {} THEN {} ELSE {GrokUsed(facts, i)})
          [] OTHER -> Update("agent_message_chunk", {})

GrokEvents(facts, i) ==
    CASE facts[i].kind = "ask" -> <<[type |-> "turn_started", turn_number |-> Within(facts, i)]>>
      [] GrokEnds(facts[i]) ->
             <<[type |-> "turn_ended", outcome |-> IF facts[i].kind = "fail" THEN "cancelled" ELSE "completed"]>>
      [] facts[i].kind = "answer" /\ facts[i].tool -> <<[type |-> "tool_started"]>>
      [] OTHER -> <<>>

GrokLog(facts) ==
    [updates |-> FlattenSeq(Records(facts, LAMBDA i : GrokUpdates(facts, i))),
     events |-> FlattenSeq(Records(facts, LAMBDA i : GrokEvents(facts, i))), updated_at |-> Len(facts)]

GrokEventsOnly(facts) == [GrokLog(facts) EXCEPT !.updates = <<>>]

\* A turn is one call, told when it ends.
GrokLived(facts) ==
    LET Told(i) ==
            LET fact == facts[i]
                spent == Fact("extra", fact.turn, UsedAt(facts, GrokAnswers(facts, i)), FALSE, TRUE)
            IN  CASE GrokEnds(fact) /\ GrokAnswers(facts, i) # {} /\ fact.turn > 0 ->
                             <<spent, [fact EXCEPT !.kind = IF @ = "fail" THEN "fail" ELSE "told"]>>
                  [] fact.kind = "answer" -> <<[fact EXCEPT !.kind = "told"]>>
                  [] OTHER -> <<fact>>
    IN  FlattenSeq(Records(facts, Told))

\* Without updates, nothing tells what a turn used.
GrokLivedByEvents(facts) ==
    Records(facts, LAMBDA i : [facts[i] EXCEPT !.kind = IF @ = "answer" THEN "told" ELSE @])

-------------------------------------------------------------------------------
GrokUsage(raw) ==
    LET use == CountersOf(raw)
        cached == Least(use.inputTokens, use.cachedReadTokens)
        creation == Least(use.inputTokens - cached, use.cacheCreationTokens)
        reasoning == Least(use.outputTokens, use.reasoningTokens)
    IN  TokensApart(use.inputTokens - cached - creation, cached, creation,
                    use.outputTokens - reasoning, reasoning, use.totalTokens)

\* Each counter reaches its limit on its own.
GrokAddEach(target, tokens) == [k \in DOMAIN target |-> Bounded(target[k] + tokens[k])]

GrokUpdated(draft, update) ==
    CASE update.type = "auto_compact_completed" -> [draft EXCEPT !.compactions = @ + 1]
      [] update.type = "user_message_chunk" /\ TurnOf(draft, update.prompt) > 0 ->
             [draft EXCEPT !.active = TurnOf(draft, update.prompt)]
      [] update.type = "user_message_chunk" /\ TurnOf(draft, update.prompt) = 0 ->
             Opened(draft, update.prompt)
      [] OTHER -> draft

GrokStarted(draft, event) ==
    IF event.type # "turn_started" \/ TurnOf(draft, event.turn_number) > 0 THEN draft
    ELSE Opened(draft, event.turn_number)

\* The last end that was told of each prompt, in the order of the first.
GrokTold(terminals, update) ==
    LET at == {k \in DOMAIN terminals : terminals[k].prompt = update.prompt}
    IN  IF update.type # "turn_completed" THEN terminals
        ELSE IF at = {} THEN Append(terminals, update) ELSE [terminals EXCEPT ![Min(at)] = update]

\* A turn that has no end of its own takes the next one that no turn has.
GrokApplied(terminals, sofar, turn) ==
    LET own == {k \in DOMAIN terminals : terminals[k].prompt = sofar.draft.turns[turn].key}
        Ended(end) == Marked(sofar.draft, turn, IF end.reason = "error" THEN "aborted" ELSE "completed")
    IN  IF own # {} THEN [sofar EXCEPT !.draft = Ended(terminals[Min(own)])]
        ELSE IF sofar.unmatched = <<>> THEN sofar
        ELSE [draft |-> Ended(Head(sofar.unmatched)), unmatched |-> Tail(sofar.unmatched)]

GrokApplyTerminals(draft, terminals) ==
    LET unmatched == Those(terminals, {k \in DOMAIN terminals : TurnOf(draft, terminals[k].prompt) = 0})
    IN  Drafted(LAMBDA sofar, turn : GrokApplied(terminals, sofar, turn),
                [draft |-> draft, unmatched |-> unmatched], [t \in DOMAIN draft.turns |-> t]).draft

\* The n-th turn that started is the n-th turn.
GrokMetadata(draft, event) ==
    LET turn == draft.active
        index == draft.index + 1
    IN  CASE event.type = "turn_started" ->
                 [[draft EXCEPT !.index = index] EXCEPT
                     !.active = IF index <= Len(draft.turns) THEN index ELSE 0]
          [] event.type = "tool_started" -> ToolUsed(draft, turn, TRUE)
          [] event.type = "turn_ended" /\ turn > 0 /\ draft.turns[turn].status = "in-progress" ->
                 Marked(draft, turn, IF event.outcome = "completed" THEN "completed" ELSE "aborted")
          [] OTHER -> draft

GrokApplyEventMetadata(draft, events) ==
    LET start == [turns |-> draft.turns, active |-> 0, index |-> 0, calls |-> draft.calls,
                  tools |-> draft.tools, compactions |-> draft.compactions]
    IN  Drafted(GrokMetadata, start, events)

GrokUsageOf(terminals, key) ==
    LET own == {k \in DOMAIN terminals : terminals[k].prompt = key}
    IN  IF own = {} THEN {} ELSE terminals[Min(own)].usage

GrokCharged(terminals, draft, turn) ==
    LET usage == GrokUsageOf(terminals, draft.turns[turn].key)
    IN  IF usage = {} THEN draft
        ELSE Called(draft, turn, GrokUsage(CHOOSE raw \in usage : TRUE))

GrokTotal(calls) ==
    Drafted(LAMBDA total, call : GrokAddEach(total, call.tokens), NoTokens, calls)

GrokConversation(log) ==
    LET told == Drafted(GrokUpdated, NoDraft, log.updates)
        opened == IF told.turns = <<>> THEN Drafted(GrokStarted, told, log.events) ELSE told
        terminals == Drafted(GrokTold, <<>>, log.updates)
        ended == GrokApplyEventMetadata(GrokApplyTerminals(opened, terminals), log.events)
        charged == Drafted(LAMBDA draft, turn : GrokCharged(terminals, draft, turn),
                           ended, [t \in DOMAIN ended.turns |-> t])
        Reports(turn) == {raw.modelCalls : raw \in GrokUsageOf(terminals, ended.turns[turn].key)}
    IN  [Rows(charged) EXCEPT !.totals.tokens = GrokTotal(charged.calls),
                              !.turns = [t \in DOMAIN @ |->
                                  [@[t] EXCEPT !.calls = SumSet(Reports(t)),
                                               !.tokens = GrokTotal(InTurn(charged.calls, t))]]]

GrokEventCount(log) == Len(log.updates) + Len(log.events)
GrokRank(log) == <<GrokEventCount(log), log.updated_at>>
GrokSelected(logs) == Foremost([log \in logs |-> GrokRank(log)])
================================================================================
