------------------------------- MODULE AiderLogs -------------------------------
(* Aider appends analytics events of all its sessions to one file.  A session is  *)
(* what follows a launch, up to the exit or the next launch.                     *)
EXTENDS Sessions

AiderTraits == {"ask", "answer", "fail", "close", "closes", "toolless", "totals"}

AiderEvent(facts, i) ==
    [event |-> CASE facts[i].kind = "ask" -> "message_send_starting"
                 [] facts[i].kind = "answer" -> "message_send"
                 [] facts[i].kind = "fail" -> "message_send_exception"
                 [] facts[i].kind = "close" -> "exit",
     usage |-> [prompt_tokens |-> InputOf(facts[i].use), completion_tokens |-> OutputOf(facts[i].use),
                total_tokens |-> Total(facts[i].use)]]

AiderLog(facts) ==
    LET launched == [event |-> "launched", usage |-> {}]
    IN  <<launched>> \o Records(facts, LAMBDA i : AiderEvent(facts, i))

\* The last turn waits for its answer.
AiderWaits(facts) ==
    /\ Asks(facts) > 0
    /\ \A i \in DOMAIN facts : facts[i].turn = Asks(facts) => facts[i].kind = "ask"

(* The session ends when it exits.  A prompt that waits when the next one is sent *)
(* or when the session ends was given up.                                        *)
AiderLived(facts) ==
    LET GivenUp(lived) == IF AiderWaits(lived) THEN <<Fact("fail", Asks(lived), NoTokens, FALSE, TRUE)>> ELSE <<>>
        Untold(use) == <<InputOf(use), 0, 0, OutputOf(use), 0, use[6]>>
        Step(lived, fact) ==
            CASE \E i \in DOMAIN lived : lived[i].kind = "close" -> lived
              [] fact.kind \in {"ask", "close"} -> lived \o GivenUp(lived) \o <<[fact EXCEPT !.ok = TRUE]>>
              [] OTHER -> Append(lived, [fact EXCEPT !.use = Untold(@)])
    IN  FoldLeft(Step, <<>>, facts)

\* _read_sessions: the events from a launch to the exit or to the next launch.
AiderSession(events, launch) ==
    LET Later(type) == {i \in launch + 1..Len(events) : events[i].event = type}
    IN  SubSeq(events, launch,
               Min({Len(events)} \cup Later("exit") \cup {i - 1 : i \in Later("launched")}))

AiderUsage(raw) ==
    TokensApart(InRange(raw.prompt_tokens), 0, 0, InRange(raw.completion_tokens), 0,
                InRange(raw.total_tokens))

AiderLeft(draft, status) == [Marked(draft, draft.active, status) EXCEPT !.active = 0]

AiderNormalized(draft, event) ==
    CASE event.event = "message_send_starting" -> Opened(AiderLeft(draft, "aborted"), Len(draft.turns) + 1)
      [] event.event \in {"message_send_exception", "exit"} -> AiderLeft(draft, "aborted")
      [] event.event = "message_send" ->
             AiderLeft(Called(draft, draft.active, AiderUsage(event.usage)), "completed")
      [] OTHER -> draft

AiderConversation(events) == Rows(Drafted(AiderNormalized, NoDraft, AiderSession(events, 1)))

AiderEventCount(events) == Len(AiderSession(events, 1))
AiderRank(events) == <<AiderEventCount(events)>>
AiderSelected(logs) == Foremost([log \in logs |-> AiderRank(log)])
================================================================================
