------------------------------ MODULE DocumentLogs -----------------------------
(* The logs of tools that keep a session as one document and write it anew:   *)
(* Amazon Q Developer CLI, Cline, Continue and Amp.                           *)
EXTENDS Sessions

--------------------------------------------------------------------------------
(* Amazon Q Developer CLI keeps a conversation as one document, an entry for      *)
(* every request that was answered: what was sent, a prompt or what tools         *)
(* returned, with the answer.  It tells no tokens.                               *)
AmazonQTraits == {"ask", "answer", "presumes"}

AmazonQEntry(facts, i) ==
    [id |-> i, assistant |-> TRUE, tool |-> facts[i].tool,
     content |-> IF i > 1 /\ facts[i - 1].kind = "ask" THEN "Prompt" ELSE "ToolUseResults"]

AmazonQLog(facts) ==
    Table(Records(facts, LAMBDA i : AmazonQEntry(facts, i)), OfKind(facts, {"answer"}))

\* A prompt that was not answered has left no trace.
AmazonQLived(facts) ==
    LET answered == {i \in DOMAIN facts : facts[i].kind = "ask" => \E j \in {i + 1} \cap DOMAIN facts : facts[j].kind = "answer"}
    IN  Each(Kept(facts, answered), LAMBDA fact : [fact EXCEPT !.use = NoTokens])

AmazonQNormalized(draft, entry) ==
    LET opened == IF entry.content = "Prompt"
                  THEN Opened(Marked(draft, draft.active, "completed"), entry.id) ELSE draft
        called == IF entry.assistant THEN Called(opened, opened.active, NoTokens) ELSE opened
    IN  ToolUsed(called, opened.active, entry.tool)

AmazonQConversation(history) ==
    LET read == Drafted(AmazonQNormalized, NoDraft, history)
    IN  Rows(Marked(read, read.active, "completed"))

AmazonQEventCount(history) == Len(history)
AmazonQRank(history) == <<AmazonQEventCount(history)>>
AmazonQSelected(logs) == Foremost([log \in logs |-> AmazonQRank(log)])

--------------------------------------------------------------------------------
(* Cline keeps its sessions as rows of a database, and the messages of each in a  *)
(* document that is written anew.  It does not tell how a turn ended.            *)
ClineTraits == {"ask", "answer", "begin", "finish", "note", "presumes", "writes"}

ClineMessage(facts, i) ==
    LET fact == facts[i]
    IN  [id |-> Origin(facts, i),
         role |-> IF fact.kind \in {"ask", "note"} THEN "user" ELSE "assistant",
         content |-> CASE fact.kind = "note" -> {"tool_result"}
                       [] fact.tool -> {"text", "tool_use"}
                       [] OTHER -> {"text"},
         metrics |-> [inputTokens |-> InputOf(fact.use), cacheReadTokens |-> fact.use[2],
                      cacheWriteTokens |-> fact.use[3], outputTokens |-> OutputOf(fact.use)]]

ClineLog(facts) ==
    [messages |-> Table(Records(facts, LAMBDA i : ClineMessage(facts, i)), OfKind(facts, ClineTraits)),
     updated |-> Len(facts)]

ClineUsage(raw) ==
    Tokens(Over(raw.inputTokens, raw.cacheReadTokens + raw.cacheWriteTokens),
           raw.cacheReadTokens, raw.cacheWriteTokens, raw.outputTokens, 0, 0)

\* _is_visible_user
ClineStartsTurn(message) == message.role = "user" /\ "text" \in message.content

ClineNormalized(draft, message) ==
    LET turn == draft.active
        answered == Called(draft, turn, ClineUsage(message.metrics))
    IN  CASE ClineStartsTurn(message) -> Opened(Marked(draft, turn, "completed"), message.id)
          [] message.role = "assistant" -> ToolUsed(answered, turn, "tool_use" \in message.content)
          [] OTHER -> draft

ClineConversation(log) ==
    LET read == Drafted(ClineNormalized, NoDraft, log.messages)
    IN  Rows(Marked(read, read.active, "completed"))

ClineEventCount(log) == Len(log.messages)
ClineRank(log) == <<ClineEventCount(log), log.updated>>
ClineSelected(logs) == Foremost([log \in logs |-> ClineRank(log)])

--------------------------------------------------------------------------------
(* Continue keeps a session as one document: the history, whose items tell what   *)
(* they cost, and the sum of all the session cost.  What the sum has beyond the   *)
(* items is shown as one more call.                                               *)
ContinueTraits == {"ask", "answer", "begin", "finish", "extra", "compact", "note", "sums", "reasons"}

ContinueRaw(use) == [prompt |-> InputOf(use), completion |-> OutputOf(use), cached |-> use[2], reasoning |-> use[5]]

\* What the session cost: an answer that has finished cost what it cost in the end.
ContinueCosts(facts) ==
    {i \in DOMAIN facts : facts[i].kind \in {"answer", "begin", "finish", "extra"} /\ Finish(facts, i) = i}

ContinueItem(facts, i) ==
    LET fact == facts[i]
        calls == IF fact.tool THEN <<[id |-> i]>> ELSE <<>>
    IN  [id |-> Origin(facts, i),
         role |-> IF fact.kind \in {"ask", "note"} THEN "user" ELSE "assistant",
         visible |-> fact.kind = "ask",
         usage |-> ContinueRaw(fact.use),
         toolCalls |-> calls, toolCallStates |-> calls,
         conversationSummary |-> fact.kind = "compact"]

ContinueLog(facts) ==
    [history |-> Table(Records(facts, LAMBDA i : ContinueItem(facts, i)),
                       OfKind(facts, ContinueTraits \ {"extra"})),
     usage |-> ContinueRaw(UsedAt(facts, ContinueCosts(facts)))]

\* A summary is an item that cost nothing; the calls without an item are one call.
ContinueLived(facts) ==
    LET extras == {i \in DOMAIN facts : facts[i].kind = "extra"}
        rest == Fact("extra", 0, UsedAt(facts, extras), FALSE, TRUE)
        Shown(i) == CASE i \in extras -> Fact("note", 0, NoTokens, FALSE, TRUE)
                      [] facts[i].kind = "compact" -> [facts[i] EXCEPT !.kind = "answer"]
                      [] OTHER -> facts[i]
    IN  Records(facts, Shown) \o IF extras = {} THEN <<>> ELSE <<rest>>

\* _usage: the counters of an item, or of the session.
ContinueRead(raw) == [field \in DOMAIN raw |-> InRange(raw[field])]

\* _tokens, for a model whose input includes what it read from the cache: unless
\* that is more than all of it.
ContinueUsage(use) ==
    LET apart == use.cached > use.prompt
        cached == IF apart THEN Least(use.cached, Over(MaxBigint, use.prompt)) ELSE use.cached
        uncached == IF apart THEN use.prompt ELSE use.prompt - cached
        output == Least(use.completion, Over(MaxBigint, uncached + cached))
        reasoning == Least(output, use.reasoning)
    IN  <<uncached, cached, 0, output - reasoning, reasoning, 0>>

\* The draft also has the tool calls seen, and what the items cost.
ContinueEmpty == DraftWith([seen |-> {}, told |-> ContinueRaw(NoTokens)])

ContinueNormalized(draft, item) ==
    LET turn == draft.active
        use == ContinueRead(item.usage)
        called == [Called(Marked(draft, turn, "completed"), turn, ContinueUsage(use))
                      EXCEPT !.told = [field \in DOMAIN @ |-> @[field] + use[field]],
                             !.compactions = @ + IF item.conversationSummary THEN 1 ELSE 0]
        fresh == {tool.id : tool \in Range(item.toolCalls \o item.toolCallStates)} \ draft.seen
    IN  CASE item.role = "user" /\ item.visible -> Opened(draft, item.id)
          [] item.role = "assistant" -> 
                 [ToolsUsed(called, turn, Cardinality(fresh)) EXCEPT !.seen = @ \cup fresh]
          [] OTHER -> draft

ContinueResidual(usage, told) == [field \in DOMAIN usage |-> Over(usage[field], told[field])]

ContinueConversation(log) ==
    LET read == Drafted(ContinueNormalized, ContinueEmpty, log.history)
        residual == ContinueResidual(ContinueRead(log.usage), read.told)
    IN  Rows(IF Range(residual) = {0} THEN read ELSE Called(read, 0, ContinueUsage(residual)))

ContinueEventCount(log) == Len(log.history)
ContinueRank(log) == <<ContinueEventCount(log)>>
ContinueSelected(logs) == Foremost([log \in logs |-> ContinueRank(log)])

--------------------------------------------------------------------------------
(* Amp keeps a thread as one document: messages, which carry what they cost, and  *)
(* in later releases a ledger of the model calls, which carries it instead and    *)
(* also has the calls that wrote no message.                                      *)
AmpTraits == {"ask", "answer", "note", "errors", "writes", "totals"}

AmpMessage(facts, ledger, i) ==
    LET fact == facts[i]
    IN  [id |-> i,
         role |-> IF fact.kind = "answer" THEN "assistant" ELSE "user",
         content |-> CASE fact.kind = "note" -> {"tool_result"}
                       [] fact.tool -> {"text", "tool_use"}
                       [] OTHER -> {"text"},
         usage |-> IF fact.kind # "answer" THEN {}
                   ELSE {[input |-> IF ledger THEN 0 ELSE fact.use[1],
                          output |-> IF ledger THEN 0 ELSE OutputOf(fact.use),
                          cacheCreation |-> fact.use[3], cacheRead |-> fact.use[2],
                          total |-> IF ledger THEN 0 ELSE Total(fact.use)]},
         stop_reason |-> IF ~fact.ok THEN "error" ELSE IF fact.tool THEN "tool_use" ELSE "end_turn"]

AmpEvent(facts, i) ==
    LET fact == facts[i]
        cached == IF fact.kind = "answer" THEN 0 ELSE fact.use[2] + fact.use[3]
    IN  [id |-> i, toMessageId |-> IF fact.kind = "answer" THEN i ELSE 0,
         input |-> fact.use[1] + cached, output |-> OutputOf(fact.use), total |-> Total(fact.use)]

AmpThread(facts, ledger) ==
    [messages |-> Table(Records(facts, LAMBDA i : AmpMessage(facts, ledger, i)),
                        OfKind(facts, {"ask", "answer", "note"})),
     events |-> IF ledger THEN Table(Records(facts, LAMBDA i : AmpEvent(facts, i)),
                                     OfKind(facts, {"answer", "extra"}))
                ELSE <<>>]

AmpLog(facts) == AmpThread(facts, FALSE)
AmpLedger(facts) == AmpThread(facts, TRUE)

\* A call that wrote no message is outside the turns, and its use of the cache is not told.
AmpLived(facts) ==
    LET Untold(use) == <<InputOf(use), 0, 0, use[4], use[5], use[6]>>
        Shown(i) == IF facts[i].kind = "extra"
                    THEN [facts[i] EXCEPT !.turn = 0, !.use = Untold(@)] ELSE facts[i]
    IN  Records(facts, Shown)

AmpUsage(raw) ==
    LET use == CountersOf(raw)
    IN  TokensApart(use.input, use.cacheRead, use.cacheCreation, use.output, 0, use.total)

\* The draft also has the turn of each message.
AmpEmpty == DraftWith([turnOf |-> <<>>])

\* _is_visible_user_message
AmpStartsTurn(message) == message.role = "user" /\ message.content \ {"tool_result"} # {}

AmpNormalized(draft, message) ==
    LET opened == IF AmpStartsTurn(message) THEN Opened(draft, message.id) ELSE draft
        turn == opened.active
        placed == [opened EXCEPT !.turnOf = @ @@ (message.id :> turn)]
        ended == CASE message.stop_reason \in {"error", "aborted", "cancelled"} ->
                          Marked(placed, turn, "aborted")
                   [] message.stop_reason \in {"end_turn", "stop", "length", "max_tokens"} ->
                          Marked(placed, turn, "completed")
                   [] OTHER -> placed
        called == IF message.usage = {} THEN ended
                  ELSE Called(ended, turn, AmpUsage(CHOOSE raw \in message.usage : TRUE))
    IN  IF message.role # "assistant" THEN placed
        ELSE ToolUsed(called, turn, "tool_use" \in message.content)

\* What a message tells of its use of the cache, for the event of the ledger.
AmpLedgerUsage(log, event) ==
    LET told == {message \in Range(log.messages) :
                    message.id = event.toMessageId /\ message.role = "assistant"}
        written == IF told = {} THEN 0 ELSE (CHOOSE raw \in (CHOOSE m \in told : TRUE).usage : TRUE).cacheCreation
        read == IF told = {} THEN 0 ELSE (CHOOSE raw \in (CHOOSE m \in told : TRUE).usage : TRUE).cacheRead
    IN  TokensApart(Bounded(event.input), Bounded(read), Bounded(written), Bounded(event.output), 0,
                    Bounded(event.total))

\* _ledger_calls: the calls of the ledger, each in the turn of its message.
AmpLedgerCalls(log, draft) ==
    LET Call(event) ==
            [turn |-> IF event.toMessageId \in DOMAIN draft.turnOf THEN draft.turnOf[event.toMessageId] ELSE 0,
             tokens |-> AmpLedgerUsage(log, event)]
        calls == Each(log.events, Call)
    IN  Those(calls, {k \in DOMAIN calls : Total(calls[k].tokens) > 0})

\* If the ledger has calls, they replace those of the messages.
AmpConversation(log) ==
    LET read == Drafted(AmpNormalized, AmpEmpty, log.messages)
        ledger == AmpLedgerCalls(log, read)
        counted == IF ledger = <<>> THEN read ELSE [read EXCEPT !.calls = ledger]
        called == {call.turn : call \in Range(counted.calls)}
        Ended(i, turn) ==
            IF turn.status = "in-progress" /\ i \in called THEN [turn EXCEPT !.status = "completed"] ELSE turn
    IN  Rows([counted EXCEPT !.turns = [i \in DOMAIN @ |-> Ended(i, @[i])]])

AmpEventCount(log) == Len(log.messages) + Len(log.events)
AmpRank(log) == <<AmpEventCount(log)>>
AmpSelected(logs) == Foremost([log \in logs |-> AmpRank(log)])
================================================================================
