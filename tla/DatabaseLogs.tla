------------------------------ MODULE DatabaseLogs -----------------------------
(* The logs of tools that keep the messages of a session as rows of a         *)
(* database: OpenCode, Kilo Code, Goose and Crush.                            *)
EXTENDS Sessions

--------------------------------------------------------------------------------
(* OpenCode keeps messages and their parts as rows of a database, and updates a  *)
(* row in place when the answer it holds goes on.                                *)
OpenCodeTraits == {"ask", "answer", "begin", "finish", "compact", "errors", "writes", "reasons", "totals"}

OpenCodeMessage(facts, i) ==
    LET fact == facts[i]
    IN  [id |-> Origin(facts, i),
         kind |-> CASE fact.kind = "ask" -> "user"
                    [] fact.kind = "compact" -> "compaction"
                    [] OTHER -> "assistant",
         tokens |-> [input |-> fact.use[1], read |-> fact.use[2], write |-> fact.use[3],
                     output |-> fact.use[4], reasoning |-> fact.use[5],
                     total |-> Total(fact.use)],
         error |-> ~fact.ok,
         completed |-> fact.kind # "begin",
         parts |-> IF fact.tool THEN <<"tool">> ELSE <<>>]

OpenCodeLog(facts) ==
    [messages |-> Table(Records(facts, LAMBDA i : OpenCodeMessage(facts, i)), OfKind(facts, OpenCodeTraits)),
     updated |-> Len(facts)]

OpenCodeUsage(raw) ==
    LET use == CountersOf(raw)
    IN  TokensApart(use.input, use.read, use.write, use.output, use.reasoning, use.total)

OpenCodeAnswered(draft, message) ==
    LET turn == draft.active
        called == Called(draft, turn, OpenCodeUsage(message.tokens))
    IN  CASE message.error -> Marked(called, turn, "aborted")
          [] ~message.error /\ message.completed /\ turn > 0 /\ draft.turns[turn].status # "aborted" ->
                 Marked(called, turn, "completed")
          [] OTHER -> called

OpenCodeNormalized(draft, message) ==
    CASE message.kind = "user" -> Opened(draft, message.id)
      [] message.kind = "compaction" -> [draft EXCEPT !.compactions = @ + 1]
      [] message.kind = "assistant" ->
             LET answered == OpenCodeAnswered(draft, message)
             IN  ToolUsed(answered, answered.active, "tool" \in Range(message.parts))

OpenCodeConversation(log) == Rows(Drafted(OpenCodeNormalized, NoDraft, log.messages))

OpenCodeEventCount(log) == Len(log.messages)
OpenCodeRank(log) ==
    <<Len(log.messages) + Len(FlattenSeq(Each(log.messages, LAMBDA message : message.parts))), log.updated>>
OpenCodeSelected(logs) == Foremost([log \in logs |-> OpenCodeRank(log)])

--------------------------------------------------------------------------------
\* ORDER BY: the rows by their creation, those of one instant by their id or rowid,
\* which grow as rows are inserted.
InOrder(rows) ==
    LET Before(k) == {j \in DOMAIN rows : \/ rows[j].created < rows[k].created
                                          \/ (rows[j].created = rows[k].created /\ j < k)}
    IN  [p \in DOMAIN rows |-> rows[CHOOSE k \in DOMAIN rows : Cardinality(Before(k)) = p - 1]]

(* Kilo Code keeps messages and their parts as rows of two tables, and updates a  *)
(* message in place when the answer it holds goes on.  An answer names the        *)
(* prompt it answers, which need not be the latest.                               *)
KiloTraits == {"ask", "answer", "begin", "finish", "late", "errors", "writes", "reasons", "totals"}

KiloMessage(facts, i) ==
    LET fact == facts[i]
        Prompt(turn) == CHOOSE j \in DOMAIN facts : facts[j].kind = "ask" /\ Within(facts, j) = turn
    IN  [id |-> Origin(facts, i), created |-> Origin(facts, i),
         role |-> IF fact.kind = "ask" THEN "user" ELSE "assistant",
         parentID |-> IF fact.turn > 0 THEN Prompt(fact.turn) ELSE 0,
         tokens |-> [input |-> fact.use[1], read |-> fact.use[2], write |-> fact.use[3],
                     output |-> fact.use[4], reasoning |-> fact.use[5],
                     total |-> Total(fact.use)],
         completed |-> fact.kind # "begin",
         error |-> ~fact.ok]

KiloPart(facts, i) == [id |-> i, message |-> Origin(facts, i), type |-> "tool"]

KiloLog(facts) ==
    [messages |-> Table(Records(facts, LAMBDA i : KiloMessage(facts, i)), OfKind(facts, KiloTraits)),
     parts |-> Table(Records(facts, LAMBDA i : KiloPart(facts, i)), {i \in DOMAIN facts : facts[i].tool}),
     updated |-> Len(facts)]

\* _read_database: the messages in the order of their creation, each with its parts.
KiloMessages(log) ==
    LET rows == InOrder(log.messages)
        PartsOf(row) == SelectSeq(log.parts, LAMBDA part : part.message = row.id)
    IN  Each(rows, LAMBDA row : [row |-> row, parts |-> PartsOf(row)])

KiloUsage(raw) ==
    LET use == CountersOf(raw)
    IN  TokensApart(use.input, use.read, use.write, use.output, use.reasoning, use.total)

\* The turn of a message: the one of its parent, or the one that is active.
KiloAddressed(draft, message) ==
    LET parent == TurnOf(draft, message.row.parentID)
    IN  IF message.row.role = "assistant" /\ parent > 0 THEN parent ELSE draft.active

KiloAnswered(draft, turn, row) ==
    LET called == Called(draft, turn, KiloUsage(row.tokens))
        aborted == turn > 0 /\ draft.turns[turn].status = "aborted"
    IN  IF row.error THEN Marked(called, turn, "aborted")
        ELSE IF row.completed /\ ~aborted THEN Marked(called, turn, "completed")
        ELSE called

KiloNormalized(draft, message) ==
    LET opened == IF message.row.role = "user" THEN Opened(draft, message.row.id) ELSE draft
        turn == KiloAddressed(opened, message)
        answered == IF message.row.role = "assistant" THEN KiloAnswered(opened, turn, message.row)
                    ELSE opened
    IN  ToolsUsed(answered, turn, Cardinality({k \in DOMAIN message.parts : message.parts[k].type = "tool"}))

KiloConversation(log) == Rows(Drafted(KiloNormalized, NoDraft, KiloMessages(log)))

KiloEventCount(log) == Len(log.messages) + Len(log.parts)
KiloRank(log) == <<KiloEventCount(log), log.updated>>
KiloSelected(logs) == Foremost([log \in logs |-> KiloRank(log)])

--------------------------------------------------------------------------------
(* Goose keeps messages in one table and what the model calls cost in another, a  *)
(* ledger that knows no messages: a call belongs to the turn that had begun by    *)
(* then.  The clock of both tables is taken to tell any two rows apart.           *)
GooseTraits == {"ask", "answer", "extra", "compact", "note", "errors", "writes", "totals"}

GooseMessage(facts, i) ==
    LET fact == facts[i]
    IN  [id |-> i, time |-> i,
         role |-> IF fact.kind = "answer" THEN "assistant" ELSE "user",
         content |-> CASE fact.kind = "ask" -> {"text"}
                       [] fact.kind = "note" -> {"toolResponse"}
                       [] OTHER -> {IF ~fact.ok THEN "error"
                                    ELSE IF fact.tool THEN "toolRequest" ELSE "text"}]

GooseEntry(facts, i) ==
    [id |-> i, time |-> i,
     tokens |-> [input |-> InputOf(facts[i].use), read |-> facts[i].use[2],
                 write |-> facts[i].use[3], output |-> OutputOf(facts[i].use),
                 total |-> Total(facts[i].use)],
     compaction |-> facts[i].kind = "compact"]

GooseLog(facts) ==
    [messages |-> Table(Records(facts, LAMBDA i : GooseMessage(facts, i)),
                        OfKind(facts, {"ask", "answer", "note"})),
     ledger |-> Table(Records(facts, LAMBDA i : GooseEntry(facts, i)),
                      OfKind(facts, {"answer", "extra", "compact"})),
     updated |-> Len(facts)]

\* A compaction is a model call, too.
GooseLived(facts) ==
    LET Shown(i) == IF facts[i].kind = "compact" THEN [facts[i] EXCEPT !.kind = "extra"] ELSE facts[i]
    IN  Records(facts, Shown)

GooseUsage(raw) ==
    LET use == CountersOf(raw)
        cached == Least(use.input, use.read)
        written == Least(use.input - cached, use.write)
    IN  TokensApart(use.input - cached - written, cached, written, use.output, 0, use.total)

\* The draft also has the times at which its turns began, and those with an error.
GooseEmpty == DraftWith([started |-> <<>>, errors |-> {}])

\* _message: a prompt is what the user wrote, not the answer of a tool.
GooseStartsTurn(message) == message.role = "user" /\ message.content \cap {"text", "image"} # {}

GooseNormalized(draft, message) ==
    LET opened == IF ~GooseStartsTurn(message) THEN draft
                  ELSE [Opened(draft, message.id) EXCEPT !.started = Append(@, message.time)]
        turn == opened.active
        seen == IF message.role = "assistant" /\ turn > 0
                THEN [Marked(opened, turn, "completed")
                        EXCEPT !.errors = @ \cup (IF "error" \in message.content THEN {turn} ELSE {})]
                ELSE opened
    IN  ToolUsed(seen, turn, "toolRequest" \in message.content)

\* _turn_at: the last turn that began no later.
GooseTurnAt(draft, time) ==
    Max({0} \cup {turn \in DOMAIN draft.started : draft.started[turn] <= time})

GooseCharged(draft, entry) ==
    LET called == Called(draft, GooseTurnAt(draft, entry.time), GooseUsage(entry.tokens))
    IN  IF entry.compaction THEN [called EXCEPT !.compactions = @ + 1] ELSE called

GooseConversation(log) ==
    LET read == Drafted(GooseNormalized, GooseEmpty, log.messages)
        aborted == [read EXCEPT !.turns =
                       [turn \in DOMAIN @ |-> IF turn \in read.errors
                                              THEN [@[turn] EXCEPT !.status = "aborted"] ELSE @[turn]]]
    IN  Rows(Drafted(GooseCharged, aborted, log.ledger))

GooseEventCount(log) == Len(log.messages) + Len(log.ledger)
GooseRank(log) == <<GooseEventCount(log), log.updated>>
GooseSelected(logs) == Foremost([log \in logs |-> GooseRank(log)])

--------------------------------------------------------------------------------
(* Crush keeps messages as rows, updated in place, and the size of the latest     *)
(* context on the row of the session.  A subagent has a session of its own, which *)
(* the adapter leaves out.                                                        *)
CrushTraits == {"ask", "answer", "begin", "finish", "side", "extra", "compact", "errors"}

\* The facts that leave their use on the row of the session.
CrushSized == {"answer", "begin", "finish", "extra"}
CrushSizes(facts) == {i \in DOMAIN facts : facts[i].kind \in CrushSized}
CrushContext(facts) == IF CrushSizes(facts) = {} THEN NoTokens ELSE facts[Max(CrushSizes(facts))].use

CrushMessage(facts, i) ==
    LET fact == facts[i]
    IN  [id |-> Origin(facts, i), created |-> Origin(facts, i),
         root |-> fact.kind # "side",
         role |-> IF fact.kind = "ask" THEN "user" ELSE "assistant",
         tools |-> IF fact.tool THEN 1 ELSE 0,
         finish |-> IF fact.kind = "begin" THEN "" ELSE IF fact.ok THEN "end_turn" ELSE "error",
         summary |-> fact.kind = "compact"]

CrushLog(facts) ==
    [session |-> [prompt_tokens |-> InputOf(CrushContext(facts)),
                  completion_tokens |-> OutputOf(CrushContext(facts))],
     messages |-> Table(Records(facts, LAMBDA i : CrushMessage(facts, i)),
                        OfKind(facts, CrushTraits \ {"extra"})),
     updated |-> Len(facts)]

(* What the rows can be about: one context, shown on the last call, or on a call  *)
(* outside the turns when no other is known.                                      *)
CrushLived(facts) ==
    LET size == <<InputOf(CrushContext(facts)), 0, 0, OutputOf(CrushContext(facts)), 0, 0>>
        begun == {i \in DOMAIN facts : facts[i].kind \in {"answer", "begin"}}
        Shown(i) ==
            LET fact == facts[i]
            IN  CASE fact.kind = "extra" ->
                         IF begun = {} /\ i = Max(CrushSizes(facts)) THEN Fact("extra", 0, size, FALSE, TRUE)
                         ELSE Fact("note", 0, NoTokens, FALSE, TRUE)
                  [] fact.kind \in {"answer", "begin", "finish"} ->
                         [fact EXCEPT !.use = IF Origin(facts, i) = Max(begun) THEN size ELSE NoTokens]
                  [] OTHER -> fact
    IN  Records(facts, Shown)

\* _read_database: the messages of the sessions that have no parent.
CrushMessages(log) ==
    LET rows == InOrder(log.messages)
    IN  Those(rows, {k \in DOMAIN rows : rows[k].root})

CrushUsage(raw) ==
    LET use == CountersOf(raw)
    IN  TokensApart(use.prompt_tokens, 0, 0, use.completion_tokens, 0, 0)

CrushAnswered(draft, message) ==
    LET turn == draft.active
        called == Called(draft, turn, NoTokens)
    IN  IF message.finish = "error" THEN Marked(called, turn, "aborted")
        ELSE IF message.finish # "" THEN Marked(called, turn, "completed")
        ELSE called

CrushNormalized(draft, message) ==
    CASE message.summary -> [draft EXCEPT !.compactions = @ + 1]
      [] ~message.summary /\ message.role = "user" -> Opened(draft, message.id)
      [] ~message.summary /\ message.role = "assistant" ->
             ToolUsed(CrushAnswered(draft, message), draft.active, message.tools > 0)

CrushConversation(log) ==
    LET read == Drafted(CrushNormalized, NoDraft, CrushMessages(log))
        usage == CrushUsage(log.session)
        known == IF read.calls = <<>> /\ Total(usage) > 0 THEN Called(read, 0, NoTokens) ELSE read
    IN  Rows(IF known.calls = <<>> THEN known
             ELSE [known EXCEPT !.calls[Len(known.calls)].tokens = usage])

CrushEventCount(log) == Cardinality({k \in DOMAIN log.messages : log.messages[k].root})
CrushRank(log) == <<CrushEventCount(log), log.updated>>
CrushSelected(logs) == Foremost([log \in logs |-> CrushRank(log)])
================================================================================
