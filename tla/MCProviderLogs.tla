---------------------------- MODULE MCProviderLogs ----------------------------
(* Two uses whose sum exceeds the limit of a counter, and one that does by        *)
(* itself, in two amounts that do not; an answer that ends the turn, two that     *)
(* call a tool, one that fails.                                                  *)
EXTENDS ProviderLogs

MCOutcomes ==
    {[use |-> <<1, 1, 0, 1, 0, 0>>, tool |-> FALSE, ok |-> TRUE],
     [use |-> <<2, 0, 1, 1, 1, 0>>, tool |-> TRUE, ok |-> TRUE],
     [use |-> <<0, 5, 0, 4, 0, 0>>, tool |-> TRUE, ok |-> TRUE],
     [use |-> <<0, 1, 0, 0, 0, 1>>, tool |-> FALSE, ok |-> FALSE]}

\* Turns of one answer, which is below the limit.
MCTurns == {[use |-> <<2, 1, 0, 1, 0, 0>>, tool |-> FALSE, ok |-> TRUE]}

(* Tools that write many kinds of facts have too many sessions of three of them. *)
MCMaxCollected ==
    [tool \in Providers |->
        IF tool \in {"qwen", "gemini", "gemini-json", "claude", "copilot", "crush",
                    "openhands", "continue", "goose"} THEN 2 ELSE 3]
===============================================================================
