---------------------------- MODULE ProviderLogs ----------------------------
(* One session of one coding tool, from its log to the store.  The tool goes on  *)
(* writing while collections read: a collection sees the log as it is, an older  *)
(* copy of it in another source, or both, keeps the candidate of the highest     *)
(* rank, and the store keeps what it has unless the delivered copy is more       *)
(* complete.                                                                     *)
EXTENDS TreeLogs, EventLogs, MessageLogs, DatabaseLogs, DocumentLogs, FileLogs, AiderLogs, GrokLogs

CONSTANTS Providers,        \* the coding tools
          Outcomes,         \* how a model call may end: its use, whether it called a tool, whether it is ok
          MaxFacts,         \* the longest session
          MaxCollected      \* the longest session that collections have read, by tool

\* The coding tools with a log of their own form; three of them write either of two.
Tools ==
    {"pi", "qwen", "codex", "claude", "copilot", "opencode", "grok", "grok-events", "aider", "cursor",
     "cline", "mistral-vibe", "amazon-q", "plandex", "kimi", "openhands", "continue", "amp",
     "amp-ledger", "crush", "goose", "kilo", "gemini", "gemini-json"}

ASSUME ProvidersAssumption == Providers \subseteq Tools

\* The six amounts of a call may be of any size.
ASSUME OutcomesAssumption ==
    \A end \in Outcomes : end.use \in Nat \X Nat \X Nat \X Nat \X Nat \X Nat

VARIABLES provider,
          facts,            \* what happened in the session
          backup,           \* how many of the facts the older copy holds (0: no copy)
          selected,         \* the candidate that a collection selected and is to read again
          upload,           \* the copy under way: how many facts its candidate had when it was
                            \* selected (seen) and its rows tell (held), and how many the
                            \* longest source of the collection had (offered)
          stored,           \* the stored copy, likewise
          current           \* a collection that was offered the whole log was delivered
                            \* since the last fact

vars == <<provider, facts, backup, selected, upload, stored, current>>

-------------------------------------------------------------------------------
\* What the tool of the session writes, and how.
TraitsOf(tool) ==
    CASE tool = "pi" -> PiTraits
      [] tool = "qwen" -> QwenTraits
      [] tool = "codex" -> CodexTraits
      [] tool = "claude" -> ClaudeTraits
      [] tool = "copilot" -> CopilotTraits
      [] tool = "opencode" -> OpenCodeTraits
      [] tool \in {"grok", "grok-events"} -> GrokTraits
      [] tool = "aider" -> AiderTraits
      [] tool = "cursor" -> CursorTraits
      [] tool = "cline" -> ClineTraits
      [] tool = "mistral-vibe" -> VibeTraits
      [] tool = "amazon-q" -> AmazonQTraits
      [] tool = "plandex" -> PlandexTraits
      [] tool = "kimi" -> KimiTraits
      [] tool = "openhands" -> OpenHandsTraits
      [] tool = "continue" -> ContinueTraits
      [] tool = "amp" -> AmpTraits
      [] tool = "amp-ledger" -> AmpTraits \cup {"extra"}
      [] tool = "crush" -> CrushTraits
      [] tool = "goose" -> GooseTraits
      [] tool = "kilo" -> KiloTraits
      [] tool \in {"gemini", "gemini-json"} -> GeminiTraits
Traits == TraitsOf(provider)

LogOf(tool, session) ==
    CASE tool = "pi" -> PiLog(session)
      [] tool = "qwen" -> QwenLog(session)
      [] tool = "codex" -> CodexLog(session)
      [] tool = "claude" -> ClaudeLog(session)
      [] tool = "copilot" -> CopilotLog(session)
      [] tool = "opencode" -> OpenCodeLog(session)
      [] tool = "grok" -> GrokLog(session)
      [] tool = "grok-events" -> GrokEventsOnly(session)
      [] tool = "aider" -> AiderLog(session)
      [] tool = "cursor" -> CursorLog(session)
      [] tool = "cline" -> ClineLog(session)
      [] tool = "mistral-vibe" -> VibeLog(session)
      [] tool = "amazon-q" -> AmazonQLog(session)
      [] tool = "plandex" -> PlandexLog(session)
      [] tool = "kimi" -> KimiLog(session)
      [] tool = "openhands" -> OpenHandsLog(session)
      [] tool = "continue" -> ContinueLog(session)
      [] tool = "amp" -> AmpLog(session)
      [] tool = "amp-ledger" -> AmpLedger(session)
      [] tool = "crush" -> CrushLog(session)
      [] tool = "goose" -> GooseLog(session)
      [] tool = "kilo" -> KiloLog(session)
      [] tool = "gemini" -> GeminiLog(session)
      [] tool = "gemini-json" -> GeminiDocument(session)

\* The part of a session that the rows are about.
Lived(session) ==
    CASE provider = "qwen" -> QwenLived(session)
      [] provider = "copilot" -> CopilotLived(session)
      [] provider = "grok" -> GrokLived(session)
      [] provider = "grok-events" -> GrokLivedByEvents(session)
      [] provider = "aider" -> AiderLived(session)
      [] provider = "cursor" -> CursorLived(session)
      [] provider = "mistral-vibe" -> VibeLived(session)
      [] provider = "amazon-q" -> AmazonQLived(session)
      [] provider = "plandex" -> PlandexLived(session)
      [] provider = "openhands" -> OpenHandsLived(session)
      [] provider = "continue" -> ContinueLived(session)
      [] provider \in {"amp", "amp-ledger"} -> AmpLived(session)
      [] provider = "crush" -> CrushLived(session)
      [] provider = "goose" -> GooseLived(session)
      [] provider \in {"gemini", "gemini-json"} -> GeminiLived(session)
      [] OTHER -> session

\* What the adapter of the tool makes of its log.
Conversation(log) ==
    CASE provider = "pi" -> PiConversation(log)
      [] provider = "qwen" -> QwenConversation(log)
      [] provider = "codex" -> CodexConversation(log)
      [] provider = "claude" -> ClaudeConversation(log)
      [] provider = "copilot" -> CopilotConversation(log)
      [] provider = "opencode" -> OpenCodeConversation(log)
      [] provider \in {"grok", "grok-events"} -> GrokConversation(log)
      [] provider = "aider" -> AiderConversation(log)
      [] provider = "cursor" -> CursorConversation(log)
      [] provider = "cline" -> ClineConversation(log)
      [] provider = "mistral-vibe" -> VibeConversation(log)
      [] provider = "amazon-q" -> AmazonQConversation(log)
      [] provider = "plandex" -> PlandexConversation(log)
      [] provider = "kimi" -> KimiConversation(log)
      [] provider = "openhands" -> OpenHandsConversation(log)
      [] provider = "continue" -> ContinueConversation(log)
      [] provider \in {"amp", "amp-ledger"} -> AmpConversation(log)
      [] provider = "crush" -> CrushConversation(log)
      [] provider = "goose" -> GooseConversation(log)
      [] provider = "kilo" -> KiloConversation(log)
      [] provider \in {"gemini", "gemini-json"} -> GeminiConversation(log)

EventCount(tool, log) ==
    CASE tool = "pi" -> PiEventCount(log)
      [] tool = "qwen" -> QwenEventCount(log)
      [] tool = "codex" -> CodexEventCount(log)
      [] tool = "claude" -> ClaudeEventCount(log)
      [] tool = "copilot" -> CopilotEventCount(log)
      [] tool = "opencode" -> OpenCodeEventCount(log)
      [] tool \in {"grok", "grok-events"} -> GrokEventCount(log)
      [] tool = "aider" -> AiderEventCount(log)
      [] tool = "cursor" -> CursorEventCount(log)
      [] tool = "cline" -> ClineEventCount(log)
      [] tool = "mistral-vibe" -> VibeEventCount(log)
      [] tool = "amazon-q" -> AmazonQEventCount(log)
      [] tool = "plandex" -> PlandexEventCount(log)
      [] tool = "kimi" -> KimiEventCount(log)
      [] tool = "openhands" -> OpenHandsEventCount(log)
      [] tool = "continue" -> ContinueEventCount(log)
      [] tool \in {"amp", "amp-ledger"} -> AmpEventCount(log)
      [] tool = "crush" -> CrushEventCount(log)
      [] tool = "goose" -> GooseEventCount(log)
      [] tool = "kilo" -> KiloEventCount(log)
      [] tool \in {"gemini", "gemini-json"} -> GeminiEventCount(log)

Selected(logs) ==
    CASE provider = "pi" -> PiSelected(logs)
      [] provider = "qwen" -> QwenSelected(logs)
      [] provider = "codex" -> CodexSelected(logs)
      [] provider = "claude" -> ClaudeSelected(logs)
      [] provider = "copilot" -> CopilotSelected(logs)
      [] provider = "opencode" -> OpenCodeSelected(logs)
      [] provider \in {"grok", "grok-events"} -> GrokSelected(logs)
      [] provider = "aider" -> AiderSelected(logs)
      [] provider = "cursor" -> CursorSelected(logs)
      [] provider = "cline" -> ClineSelected(logs)
      [] provider = "mistral-vibe" -> VibeSelected(logs)
      [] provider = "amazon-q" -> AmazonQSelected(logs)
      [] provider = "plandex" -> PlandexSelected(logs)
      [] provider = "kimi" -> KimiSelected(logs)
      [] provider = "openhands" -> OpenHandsSelected(logs)
      [] provider = "continue" -> ContinueSelected(logs)
      [] provider \in {"amp", "amp-ledger"} -> AmpSelected(logs)
      [] provider = "crush" -> CrushSelected(logs)
      [] provider = "goose" -> GooseSelected(logs)
      [] provider = "kilo" -> KiloSelected(logs)
      [] provider \in {"gemini", "gemini-json"} -> GeminiSelected(logs)

-------------------------------------------------------------------------------
(* The turns a fact may belong to: the last one that is left, or any when the    *)
(* tool has branches.  A prompt may also continue the root; anything else is in  *)
(* a turn once there is one.                                                     *)
Turns(kept) == {0} \cup {Within(facts, i) : i \in {j \in kept : facts[j].kind = "ask"}}

Places ==
    IF Traits \cap {"branches", "late"} # {} THEN Least(1, Asks(facts))..Asks(facts)
    ELSE IF "rewind" \in Traits THEN {Max(Turns(GeminiStanding(facts)))}
    ELSE {Asks(facts)}

\* The last fact of the turn is an answer that has only begun.
Unfinished(turn) ==
    \E i \in DOMAIN facts :
        /\ facts[i].kind = "begin" /\ facts[i].turn = turn
        /\ \A j \in i + 1..Len(facts) : facts[j].kind # "rewind" /\ Within(facts, j) # turn

\* The last fact of the turn, which is not a prompt, is an answer that is whole.
Repeatable(turn) ==
    \E i \in DOMAIN facts :
        /\ facts[i].kind \in Whole /\ facts[i].turn = turn
        /\ \A j \in i + 1..Len(facts) : Within(facts, j) # turn

(* Once a turn was ended, an answer waits for the next prompt where the log says  *)
(* when a turn ends.  Some tools answer nothing but prompts.                     *)
Open(turn) ==
    LET ends == {i \in DOMAIN facts : facts[i].kind \in {"answer", "fail"} /\ facts[i].turn = turn}
    IN  /\ "closes" \in Traits /\ turn > 0 => \A i \in ends : facts[i].tool
        /\ "prompted" \in Traits => turn > 0

Plain(kind, turns) == {Fact(kind, turn, NoTokens, FALSE, TRUE) : turn \in turns}
\* What a tool reports of a use: not all tell cache writes or reasoning, or a total.
Reported(use) ==
    LET written == IF "writes" \in Traits THEN use[3] ELSE 0
        reasoned == IF "reasons" \in Traits THEN use[5] ELSE 0
        other == IF "totals" \in Traits THEN use[6] ELSE 0
    IN  <<use[1] + use[3] - written, use[2], written, OutputOf(use) - reasoned, reasoned, other>>
Ending(kind, turns) ==
    {Fact(kind, turn, Reported(end.use), end.tool, end.ok) :
        turn \in turns,
        end \in {e \in Outcomes : (e.ok \/ "errors" \in Traits) /\ ("toolless" \in Traits => ~e.tool)}}
Billing(kind, turns) ==
    {Fact(kind, turn, Reported(end.use), FALSE, TRUE) :
        turn \in turns, end \in {e \in Outcomes : ~e.tool}}

Closing(kind, turns) == {Fact(kind, turn, NoTokens, FALSE, ok) : turn \in turns, ok \in BOOLEAN}

\* The tokens of some calls, as they are without a limit.
TokensOf(calls) ==
    LET sum[k \in 0..Len(calls)] == IF k = 0 THEN 0 ELSE sum[k - 1] + Total(calls[k].tokens)
    IN  sum[Len(calls)]

Happenings ==
    {fact \in Plain("ask", IF "branches" \in Traits THEN Places \cup {0} ELSE Places)
              \cup Ending("answer", {turn \in Places : Open(turn)})
              \cup Billing("begin", Places)
              \cup Ending("finish", {turn \in Places : Unfinished(turn)})
              \cup Billing("advised", Places)
              \cup Plain("again", {turn \in Places : Repeatable(turn)})
              \cup Billing("extra", Places)
              \cup Billing("side", Places)
              \cup Plain("fail", {turn \in Places : Open(turn)})
              \cup Plain("compact", Places)
              \cup Plain("note", Places)
              \cup Closing("close", Places)
              \cup Plain("rewind", Turns(GeminiStanding(facts))) :
        fact.kind \in Traits}

-------------------------------------------------------------------------------
Nothing == [seen |-> 0, held |-> 0, offered |-> 0]

Init ==
    /\ provider \in Providers
    /\ facts = <<>>
    /\ backup = 0 /\ selected = <<>> /\ upload = Nothing /\ stored = Nothing
    /\ current = FALSE

\* The coding tool writes on, whether or not a collection is reading.
Write ==
    /\ Len(facts) < MaxFacts
    /\ Len(facts) >= MaxCollected[provider] =>
          backup = 0 /\ selected = <<>> /\ upload = Nothing /\ stored = Nothing
    /\ \E fact \in Happenings : facts' = Append(facts, fact)
    /\ current' = FALSE
    /\ UNCHANGED <<provider, backup, selected, upload, stored>>

\* The user keeps a copy of the log, which is a source of its own.
KeepCopy ==
    /\ backup = 0
    /\ Len(facts) \in 1..MaxCollected[provider]
    /\ backup' = Len(facts)
    /\ UNCHANGED <<provider, facts, selected, upload, stored, current>>

Size(source) == IF source = "log" THEN Len(facts) ELSE backup
Candidate(source) == LogOf(provider, SubSeq(facts, 1, Size(source)))

(* A collection reads some of the sources and keeps the foremost candidate.  An   *)
(* adapter writes the rows of what it has read, or reads the candidate again and *)
(* writes the rows of what it holds by then, with the rank it had.               *)
Select ==
    /\ upload = Nothing /\ selected = <<>>
    /\ Len(facts) <= MaxCollected[provider]
    /\ \E sources \in SUBSET {source \in {"log", "backup"} : Size(source) > 0} :
       \E source \in sources :
          /\ Candidate(source) \in Selected({Candidate(other) : other \in sources})
          /\ LET copy == [seen |-> Size(source), held |-> Size(source),
                          offered |-> Max({Size(other) : other \in sources})]
             IN  IF "rereads" \in Traits
                 THEN selected' = <<source, copy>> /\ UNCHANGED upload
                 ELSE upload' = copy /\ UNCHANGED selected
    /\ UNCHANGED <<provider, facts, backup, stored, current>>

ReadAgain ==
    /\ selected # <<>>
    /\ upload' = [selected[2] EXCEPT !.held = Size(selected[1])]
    /\ selected' = <<>>
    /\ UNCHANGED <<provider, facts, backup, stored, current>>

(* The stored copy is replaced when the number of events and then the content    *)
(* hash of the delivered one are greater: equal hashes mean equal copies, the    *)
(* order of two others is arbitrary.                                             *)
Replaces(new, old) ==
    LET count(copy) == EventCount(provider, LogOf(provider, SubSeq(facts, 1, copy.seen)))
    IN  IF old = Nothing THEN {TRUE}
        ELSE IF new.seen = old.seen THEN {FALSE}
        ELSE IF count(new) = count(old) THEN BOOLEAN ELSE {count(new) > count(old)}

Ingest ==
    /\ upload # Nothing
    /\ \E replaced \in Replaces(upload, stored) :
           stored' = IF replaced THEN [upload EXCEPT !.offered = 0] ELSE stored
    /\ current' = (current \/ upload.offered = Len(facts))
    /\ upload' = Nothing
    /\ UNCHANGED <<provider, facts, backup, selected>>

Next == Write \/ KeepCopy \/ Select \/ ReadAgain \/ Ingest

Spec == Init /\ [][Next]_vars

-------------------------------------------------------------------------------
\* A log that does not tell how a turn ended leaves the adapter to presume it.
Presumed == IF "presumes" \in Traits THEN {"completed"} ELSE {}

SameItems(s, t) ==
    \A item \in Range(s) \cup Range(t) :
        Len(SelectSeq(s, LAMBDA x : x = item)) = Len(SelectSeq(t, LAMBDA x : x = item))

AllTokens(calls) == Bounded(TokensOf(calls))

Tells(rows, truth) ==
    /\ Len(rows.turns) = Cardinality(DOMAIN truth \ {0})
    /\ \A turn \in DOMAIN truth :
          /\ LET calls == InTurn(rows.calls, turn)
             IN  SameItems([i \in DOMAIN calls |-> calls[i].tokens], truth[turn].calls)
          /\ Len(SelectSeq(rows.tools, LAMBDA tool : tool = turn)) = truth[turn].tools
          /\ turn > 0 => rows.turns[turn].status \in truth[turn].fits \cup Presumed

\* What all facts of the session used.
Spent == TokensOf([k \in DOMAIN facts |-> [tokens |-> facts[k].use]])

(* A counter can tell each call of the session, and their sum where the log tells *)
(* of some calls by nothing but the sum.                                         *)
Countable(truth) ==
    /\ \A turn \in DOMAIN truth : \A use \in Range(truth[turn].calls) : Total(use) <= MaxBigint
    /\ "sums" \in Traits => Spent <= MaxBigint

(* Whatever the tool has written when a collection reads the log, the rows say   *)
(* what happened: each model call once, with the tokens it used, in the turn it  *)
(* belongs to; each tool call once; no turn missing, none shown with a status    *)
(* that its last answers contradict.  A call of more tokens than a counter holds  *)
(* is not told, and its session is left out.                                     *)
RowsTellTheTruth ==
    LET truth == Truth(Lived(facts))
    IN  Countable(truth) => Tells(Conversation(LogOf(provider, facts)), truth)

AddsUp(rows) ==
    /\ rows.totals.calls = Len(rows.calls) /\ rows.totals.tools = Len(rows.tools)
    /\ Total(rows.totals.tokens) = AllTokens(rows.calls)
    /\ \A i \in DOMAIN rows.turns :
          LET calls == InTurn(rows.calls, i)
              tokens == Total(rows.turns[i].tokens)
          IN  /\ "reported" \in Traits \/ rows.turns[i].calls = Len(calls)
              /\ tokens = IF "aggregate" \in Traits THEN 0 ELSE AllTokens(calls)
              /\ \A j \in DOMAIN rows.turns : rows.turns[i].key = rows.turns[j].key => i = j

\* What add_tokens and tokens do at the limit, the adapters of two tools do not.
Sparing ==
    /\ "apart" \in Traits => Spent <= MaxBigint
    /\ "nets" \in Traits => \A i \in DOMAIN facts : Total(facts[i].use) <= MaxBigint

(* The counters of the conversation and of its turns agree with the rows under   *)
(* them, also where a counter has reached its limit; no two turns share an id.   *)
(* Some tools tell how many calls one row stands for, or no use by turn.  Left    *)
(* out are sessions of Grok beyond it, whose adapter adds each counter apart      *)
(* (RecordsCompose), and calls of OpenHands beyond it, whose adapter compares a   *)
(* sum at its limit and subtracts the terms.                                     *)
CountersAddUp == Sparing => AddsUp(Conversation(LogOf(provider, facts)))

(* models.py validate_token_composition: the totals of a record are the sums of   *)
(* its parts, and no counter is negative or beyond the limit.  Each counter of a  *)
(* record is capped alone, so the sums hold while all six amounts come to no      *)
(* more than the limit.  It does not hold of Grok, which adds as                  *)
(* AddTokens_EachAlone does: two turns below the limit make a conversation that   *)
(* is refused.                                                                   *)
Composes(tokens) == Total(tokens) <= MaxBigint /\ \A k \in DOMAIN tokens : tokens[k] >= 0

RecordsCompose ==
    LET rows == Conversation(LogOf(provider, facts))
    IN  /\ Composes(rows.totals.tokens)
        /\ \A row \in Range(rows.turns) \cup Range(rows.calls) : Composes(row.tokens)

(* Once a collection that was offered the whole log was delivered, the stored     *)
(* copy is as complete as the log, whichever older copies it was offered with    *)
(* and whichever were delivered before or after it: it counts as many events.    *)
SettledIsCurrent ==
    current => EventCount(provider, LogOf(provider, SubSeq(facts, 1, stored.seen)))
                   = EventCount(provider, LogOf(provider, facts))
===============================================================================
