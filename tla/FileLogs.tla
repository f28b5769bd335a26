-------------------------------- MODULE FileLogs -------------------------------
(* The logs of tools that keep every message or event in a file of its own:   *)
(* Plandex and OpenHands.                                                     *)
EXTENDS Sessions

--------------------------------------------------------------------------------
(* Plandex keeps every message of a plan in a file of its own; a message tells    *)
(* one number of tokens, and whether it was stopped.                             *)
PlandexTraits == {"ask", "answer", "presumes", "toolless", "errors", "totals"}

PlandexLog(facts) ==
    LET Message(i) == [id |-> i, role |-> IF facts[i].kind = "ask" THEN "user" ELSE "assistant",
                       tokens |-> Total(facts[i].use), stopped |-> ~facts[i].ok]
    IN  Records(facts, Message)

\* What the tokens were spent on is not told.
PlandexLived(facts) == Records(facts, LAMBDA i : [facts[i] EXCEPT !.use = <<0, 0, 0, 0, 0, Total(@)>>])

PlandexUsage(raw) == Tokens(0, 0, 0, 0, 0, raw)

PlandexNormalized(draft, message) ==
    LET turn == draft.active
        called == Called(draft, turn, PlandexUsage(message.tokens))
    IN  IF message.role = "user" THEN Opened(Marked(draft, turn, "completed"), message.id)
        ELSE Marked(called, turn, IF message.stopped THEN "aborted" ELSE "completed")

PlandexConversation(messages) == Rows(Drafted(PlandexNormalized, NoDraft, messages))

PlandexEventCount(messages) == Len(messages)
PlandexRank(messages) == <<PlandexEventCount(messages)>>
PlandexSelected(logs) == Foremost([log \in logs |-> PlandexRank(log)])

--------------------------------------------------------------------------------
(* OpenHands keeps every event in a file of its own, and a state document with    *)
(* what each response of the model used.  A response is named by its id, both in  *)
(* the events that it led to and in the state.                                    *)
OpenHandsTraits == {"ask", "answer", "again", "extra", "compact", "fail", "close", "errors", "writes", "reasons", "nets"}

\* A run that ended in an error has that status until the user or the agent goes on.
OpenHandsStatus(facts) ==
    LET last == Max({0} \cup {i \in DOMAIN facts : facts[i].kind \in {"ask", "answer", "close"}})
    IN  IF last > 0 /\ facts[last].kind = "close" /\ ~facts[last].ok THEN "error" ELSE "idle"

OpenHandsEvents(facts, i) ==
    LET fact == facts[i]
        response == IF fact.kind = "again" THEN Repeated(facts, i) ELSE i
        \* An error that the agent met is an event after what it did.
        One(kind) == [id |-> i, kind |-> kind, user |-> fact.kind = "ask",
                      response |-> IF fact.kind \in {"ask", "fail"} THEN 0 ELSE response]
    IN  CASE fact.kind = "ask" -> <<One("MessageEvent")>>
          [] fact.kind = "answer" ->
                 <<One(IF fact.tool THEN "ActionEvent" ELSE "MessageEvent")>>
                     \o IF fact.ok THEN <<>> ELSE <<One("AgentErrorEvent")>>
          [] fact.kind = "again" -> <<One("MessageEvent")>>
          [] fact.kind = "compact" -> <<One("Condensation")>>
          [] fact.kind = "fail" -> <<One("ConversationErrorEvent")>>
          [] OTHER -> <<>>

OpenHandsLog(facts) ==
    LET used == Those([i \in DOMAIN facts |-> i], OfKind(facts, {"answer", "extra"}))
        TokenUsage(i) == [response_id |-> i, prompt |-> InputOf(facts[i].use),
                          cacheRead |-> facts[i].use[2], cacheWrite |-> facts[i].use[3],
                          completion |-> OutputOf(facts[i].use), reasoning |-> facts[i].use[5]]
    IN  [events |-> FlattenSeq(Records(facts, LAMBDA i : OpenHandsEvents(facts, i))),
         token_usages |-> Each(used, TokenUsage),
         execution_status |-> OpenHandsStatus(facts)]

(* A condensation is a response, too, after which a turn may count as answered;   *)
(* what no event names is outside the turns.                                     *)
OpenHandsLived(facts) ==
    LET Shown(i) == CASE facts[i].kind = "extra" -> [facts[i] EXCEPT !.turn = 0]
                      [] facts[i].kind = "compact" -> [facts[i] EXCEPT !.kind = "begin"]
                      [] OTHER -> facts[i]
        ended == IF OpenHandsStatus(facts) = "error" THEN <<Fact("fail", Asks(facts), NoTokens, FALSE, TRUE)>> ELSE <<>>
    IN  SelectSeq(Records(facts, Shown), LAMBDA fact : fact.kind # "close") \o ended

OpenHandsUsage(raw) ==
    LET use == CountersOf(raw)
        reasoning == Least(use.completion, use.reasoning)
        apart == use.cacheRead + use.cacheWrite
        uncached == IF Bounded(apart) <= use.prompt THEN use.prompt - apart ELSE use.prompt
    IN  TokensApart(uncached, use.cacheRead, use.cacheWrite, use.completion - reasoning, reasoning, 0)

\* The draft also has the responses in order, the turn of each, and the turns that
\* were answered or met an error.
OpenHandsEmpty == DraftWith([responses |-> <<>>, turnOf |-> <<>>, answered |-> {}, errors |-> {}])

OpenHandsResponds(event) ==
    event.kind \in {"ActionEvent", "Condensation", "MessageEvent"} /\ ~event.user

OpenHandsResponded(draft, event) ==
    IF ~OpenHandsResponds(event) THEN draft
    ELSE [draft EXCEPT !.answered = @ \cup {draft.active},
                       !.responses = IF event.response \in Range(@) THEN @ ELSE Append(@, event.response),
                       !.turnOf = @ @@ (event.response :> draft.active)]

OpenHandsNormalized(draft, event) ==
    LET responded == OpenHandsResponded(draft, event)
    IN  CASE event.kind = "MessageEvent" /\ event.user -> Opened(draft, event.id)
          [] event.kind = "ActionEvent" -> ToolUsed(responded, draft.active, TRUE)
          [] event.kind = "Condensation" -> [responded EXCEPT !.compactions = @ + 1]
          [] event.kind \in {"AgentErrorEvent", "ConversationErrorEvent"} ->
                 [responded EXCEPT !.errors = @ \cup {draft.active}]
          [] OTHER -> responded

\* What the state tells of a response; a response it does not tell of used nothing.
OpenHandsModelCalls(log, draft) ==
    LET known == {usage.response_id : usage \in Range(log.token_usages)}
        TurnOfResponse(id) == IF id \in DOMAIN draft.turnOf THEN draft.turnOf[id] ELSE 0
        Told(usage) == [turn |-> TurnOfResponse(usage.response_id), tokens |-> OpenHandsUsage(usage)]
        Untold(id) == [turn |-> TurnOfResponse(id), tokens |-> NoTokens]
    IN  Each(log.token_usages, Told)
            \o Each(Those(draft.responses, {k \in DOMAIN draft.responses : draft.responses[k] \notin known}),
                    Untold)

OpenHandsConversation(log) ==
    LET read == Drafted(OpenHandsNormalized, OpenHandsEmpty, log.events)
        failed == IF log.execution_status \in {"error", "stuck"} THEN {Len(read.turns)} ELSE {}
        StatusOf(turn) ==
            IF turn \in read.errors \cup failed THEN "aborted"
            ELSE IF turn \in read.answered THEN "completed" ELSE "in-progress"
    IN  Rows([read EXCEPT !.turns = [turn \in DOMAIN @ |-> [@[turn] EXCEPT !.status = StatusOf(turn)]],
                          !.calls = OpenHandsModelCalls(log, read)])

OpenHandsEventCount(log) == Len(log.events)
OpenHandsRank(log) == <<OpenHandsEventCount(log), Len(log.token_usages)>>
OpenHandsSelected(logs) == Foremost([log \in logs |-> OpenHandsRank(log)])
================================================================================
