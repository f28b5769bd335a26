------------------------------ MODULE MessageLogs ------------------------------
(* The logs of tools that append messages to one file and keep what describes *)
(* the session elsewhere: Gemini CLI, Cursor CLI and Mistral Vibe.            *)
EXTENDS Sessions

--------------------------------------------------------------------------------
(* Gemini CLI appends records: messages, each of which may be written again      *)
(* under its id; a rewind, which takes back a message and all that follow it; a  *)
(* checkpoint, which replaces the messages.  Older sessions are one document.    *)
(* The adapter reads a session twice.                                            *)
GeminiTraits == {"ask", "answer", "begin", "finish", "fail", "rewind", "note", "rereads", "reasons", "totals"}

\* The facts that no later rewind took back.  A rewind to turn 0 takes back all.
GeminiStanding(facts) ==
    {i \in DOMAIN facts : facts[i].kind # "rewind" /\
        \A j \in i + 1..Len(facts) : facts[j].kind = "rewind" => Within(facts, i) < facts[j].turn}

GeminiLived(facts) == Kept(facts, GeminiStanding(facts))

\* _read_session: the messages after one more record.
GeminiApplied(messages, record) ==
    LET at(id) == {i \in DOMAIN messages : messages[i].id = id}
    IN  CASE record.kind = "rewind" ->
                 IF at(record.to) = {} THEN <<>> ELSE SubSeq(messages, 1, Min(at(record.to)) - 1)
          [] record.kind = "message" ->
                 IF at(record.message.id) = {} THEN Append(messages, record.message)
                 ELSE [messages EXCEPT ![Min(at(record.message.id))] = record.message]
          [] OTHER -> record.messages        \* a checkpoint, or a session in one document

GeminiMessages(records) == Drafted(GeminiApplied, <<>>, records)

GeminiMessage(facts, i) ==
    LET fact == facts[i]
    IN  [id |-> Origin(facts, i),
         type |-> CASE fact.kind = "ask" -> "user"
                    [] fact.kind = "fail" -> "error"
                    [] OTHER -> "gemini",
         tokens |-> [input |-> InputOf(fact.use), cached |-> fact.use[2],
                     output |-> fact.use[4], thoughts |-> fact.use[5],
                     total |-> Total(fact.use)],
         tool |-> fact.tool]

\* The record of a fact, when the messages before it are known.
GeminiRecord(facts, i, messages) ==
    LET Prompts(turn) ==
            {j \in DOMAIN facts : facts[j].kind = "ask" /\ Within(facts, j) = turn}
    IN  CASE facts[i].kind = "rewind" ->
                 [kind |-> "rewind", to |-> IF facts[i].turn = 0 THEN 0 ELSE Max(Prompts(facts[i].turn))]
          [] facts[i].kind = "note" -> [kind |-> "set", messages |-> messages]
          [] OTHER -> [kind |-> "message", message |-> GeminiMessage(facts, i)]

GeminiLog(facts) ==
    LET messages[k \in 0..Len(facts)] ==
            IF k = 0 THEN <<>>
            ELSE GeminiApplied(messages[k - 1], GeminiRecord(facts, k, messages[k - 1]))
    IN  Records(facts, LAMBDA i : GeminiRecord(facts, i, messages[i - 1]))

\* The older form of a session: one document, written anew for every fact.
GeminiDocument(facts) == <<[kind |-> "session", messages |-> GeminiMessages(GeminiLog(facts))]>>

GeminiUsage(raw) ==
    LET use == CountersOf(raw)
        cached == Least(use.input, use.cached)
    IN  TokensApart(use.input - cached, cached, 0, use.output, use.thoughts, use.total)

GeminiNormalized(draft, message) ==
    LET turn == draft.active
    IN  CASE message.type = "user" -> Opened(draft, message.id)
          [] message.type = "error" -> Marked(draft, turn, "aborted")
          [] message.type = "gemini" ->
                 ToolUsed(Marked(Called(draft, turn, GeminiUsage(message.tokens)), turn, "completed"),
                          turn, message.tool)

GeminiConversation(records) ==
    Rows(Drafted(GeminiNormalized, NoDraft, GeminiMessages(records)))

GeminiEventCount(records) == Len(records)
GeminiRank(records) == <<GeminiEventCount(records)>>
GeminiSelected(logs) == Foremost([log \in logs |-> GeminiRank(log)])

--------------------------------------------------------------------------------
(* Cursor CLI appends a transcript and keeps what describes the session in a      *)
(* database, which may be missing or be all there is.  It tells no tokens.       *)
CursorTraits == {"ask", "answer", "note"}

CursorLog(facts) ==
    LET Line(i) == [line |-> i, role |-> IF facts[i].kind = "answer" THEN "assistant" ELSE "user",
                    visible_user |-> facts[i].kind = "ask",
                    tools |-> IF facts[i].tool THEN 1 ELSE 0]
    IN  [records |-> Records(facts, Line), meta |-> TRUE]

CursorLived(facts) == Records(facts, LAMBDA i : [facts[i] EXCEPT !.use = NoTokens])

\* A turn that a call was made in counts as completed once it is left.
CursorEnded(draft) ==
    IF \E call \in Range(draft.calls) : call.turn = draft.active
    THEN Marked(draft, draft.active, "completed") ELSE draft

CursorNormalized(draft, record) ==
    CASE record.role = "user" /\ record.visible_user -> Opened(CursorEnded(draft), record.line)
      [] record.role = "assistant" ->
             ToolUsed(Called(draft, draft.active, NoTokens), draft.active, record.tools > 0)
      [] OTHER -> draft

CursorConversation(log) == Rows(CursorEnded(Drafted(CursorNormalized, NoDraft, log.records)))

CursorEventCount(log) == Len(log.records)
CursorRank(log) == <<CursorEventCount(log), IF log.meta THEN 1 ELSE 0>>
CursorSelected(logs) == Foremost([log \in logs |-> CursorRank(log)])

--------------------------------------------------------------------------------
(* Mistral Vibe keeps messages in one file and, in another, what the session used *)
(* in all.  The adapter shows the sum on the last model call, and leaves the      *)
(* counters of the turns at zero.                                                *)
VibeTraits == {"ask", "answer", "compact", "note", "presumes", "aggregate"}

VibeSpent(facts) == UsedAt(facts, DOMAIN facts)

VibeLog(facts) ==
    LET Message(i) == [id |-> i, role |-> IF facts[i].kind = "answer" THEN "assistant" ELSE "user",
                       injected |-> facts[i].kind # "ask", tool |-> facts[i].tool,
                       boundary |-> IF facts[i].kind = "compact" THEN "compaction" ELSE ""]
        spent == VibeSpent(facts)
    IN  [messages |-> Records(facts, Message),
         stats |-> [prompt |-> InputOf(spent), cached |-> spent[2], completion |-> OutputOf(spent)],
         end_time |-> Len(facts)]

\* The last answer bears the use of all.
VibeLived(facts) ==
    LET last == Max({0} \cup {i \in DOMAIN facts : facts[i].kind = "answer"})
    IN  Records(facts, LAMBDA i : [facts[i] EXCEPT !.use = IF i = last THEN VibeSpent(facts) ELSE NoTokens])

VibeUsage(raw) ==
    LET use == CountersOf(raw)
        cached == Least(use.prompt, use.cached)
    IN  Tokens(use.prompt - cached, cached, 0, use.completion, 0, 0)

VibeNormalized(draft, message) ==
    LET starts == message.role = "user" /\ ~message.injected
        opened == IF starts THEN Opened(Marked(draft, draft.active, "completed"), message.id) ELSE draft
        counted == [opened EXCEPT !.compactions = @ + IF message.boundary = "compaction" THEN 1 ELSE 0]
        turn == opened.active
    IN  IF message.role # "assistant" THEN counted
        ELSE ToolUsed(Called(Marked(counted, turn, "completed"), turn, NoTokens), turn, message.tool)

\* The last call bears the sum, which its turn does not count.
VibeConversation(log) ==
    LET read == Drafted(VibeNormalized, NoDraft, log.messages)
        usage == VibeUsage(log.stats)
        rows == Rows(read)
    IN  IF read.calls = <<>> THEN [rows EXCEPT !.totals.tokens = usage]
        ELSE [rows EXCEPT !.calls[Len(read.calls)].tokens = usage, !.totals.tokens = usage]

VibeEventCount(log) == Len(log.messages)
VibeRank(log) == <<VibeEventCount(log), log.end_time>>
VibeSelected(logs) == Foremost([log \in logs |-> VibeRank(log)])
================================================================================
