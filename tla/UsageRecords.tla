---------------------------- MODULE UsageRecords ----------------------------
(* What the provider adapters build a conversation from, and what they make of   *)
(* it.  An adapter reads the log a coding tool keeps of one session and          *)
(* writes rows: the turns of the session, one row for every model call           *)
(* and every tool call, and counters on each turn and on the conversation.       *)
(*                                                                               *)
(* A token record is a sequence of six amounts, in the order the source adds     *)
(* them: uncached input, cached input, cache writes, visible output, reasoning,  *)
(* unattributed.  Input, output and total are their sums.                        *)
EXTENDS Integers, Sequences, FiniteSets, FiniteSetsExt, Folds, Functions, SequencesExt

CONSTANT MaxBigint          \* the largest counter a column holds

ASSUME MaxBigintAssumption == MaxBigint \in Nat \ {0}

\* adapters/_shared.py counter, bounded_sum
Bounded(n) == IF n > MaxBigint THEN MaxBigint ELSE n

\* The counter of some adapters takes nothing for too much.
InRange(n) == IF n > MaxBigint THEN 0 ELSE n

Over(n, m) == IF n > m THEN n - m ELSE 0            \* max(0, n - m)
Least(n, m) == IF n < m THEN n ELSE m

(* tokens and add_tokens fill the amounts in order and give each what is left    *)
(* of MaxBigint.                                                                 *)
Filled(amounts) ==
    LET u1 == Bounded(amounts[1])
        u2 == Bounded(u1 + amounts[2])
        u3 == Bounded(u2 + amounts[3])
        u4 == Bounded(u3 + amounts[4])
        u5 == Bounded(u4 + amounts[5])
        u6 == Bounded(u5 + amounts[6])
    IN  <<u1, u2 - u1, u3 - u2, u4 - u3, u5 - u4, u6 - u5>>

Tokens(uncached, cached, write, visible, reasoning, total) ==
    LET known == uncached + cached + write + visible + reasoning
    IN  Filled(<<uncached, cached, write, visible, reasoning, Over(total, known)>>)

(* Most adapters count each amount they read up to the limit, and give each the   *)
(* limit to itself: the six of one call may come to more.                        *)
CountersOf(raw) == [field \in DOMAIN raw |-> Bounded(raw[field])]

TokensApart(uncached, cached, write, visible, reasoning, total) ==
    LET known == Bounded(uncached + cached + write + visible + reasoning)
    IN  <<uncached, cached, write, visible, reasoning, Over(total, known)>>

\* As it would be if each amount had the limit to itself.
AddTokens_EachAlone(target, value) == [k \in DOMAIN target |-> Bounded(target[k] + value[k])]

Plus(a, b) == <<a[1] + b[1], a[2] + b[2], a[3] + b[3], a[4] + b[4], a[5] + b[5], a[6] + b[6]>>
AddTokens(target, value) == Filled(Plus(target, value))

NoTokens == <<0, 0, 0, 0, 0, 0>>
InputOf(tokens) == tokens[1] + tokens[2] + tokens[3]
OutputOf(tokens) == tokens[4] + tokens[5]
Total(tokens) == InputOf(tokens) + OutputOf(tokens) + tokens[6]

-------------------------------------------------------------------------------
(* Of several logs of one session with their ranks, those of the highest; the     *)
(* order of content hashes then picks one of them.                               *)
Foremost(ranks) ==
    LET Ahead(rank, other) ==
            \E i \in DOMAIN rank : rank[i] > other[i] /\ \A j \in 1..i - 1 : rank[j] = other[j]
    IN  {log \in DOMAIN ranks : \A other \in DOMAIN ranks : ~Ahead(ranks[other], ranks[log])}

(* The draft of a conversation: its turns in order, the turn that is active (0:  *)
(* none), and the calls and tools with the turn each belongs to (0: none).       *)
NoDraft == [turns |-> <<>>, active |-> 0, calls |-> <<>>, tools |-> <<>>, compactions |-> 0]

\* The draft of an adapter that keeps more beside it.
DraftWith(beside) ==
    [field \in DOMAIN NoDraft \cup DOMAIN beside |->
        IF field \in DOMAIN NoDraft THEN NoDraft[field] ELSE beside[field]]

TurnOf(draft, key) ==
    LET found == {i \in DOMAIN draft.turns : draft.turns[i].key = key}
    IN  IF found = {} THEN 0 ELSE Min(found)

Opened(draft, key) ==
    [draft EXCEPT !.turns = Append(@, [key |-> key, status |-> "in-progress"]),
                  !.active = Len(draft.turns) + 1]

Marked(draft, turn, status) ==
    IF turn = 0 THEN draft ELSE [draft EXCEPT !.turns[turn].status = status]

Called(draft, turn, tokens) ==
    [draft EXCEPT !.calls = Append(@, [turn |-> turn, tokens |-> tokens])]

ToolUsed(draft, turn, used) ==
    IF used THEN [draft EXCEPT !.tools = Append(@, turn)] ELSE draft

ToolsUsed(draft, turn, n) == [draft EXCEPT !.tools = @ \o [k \in 1..n |-> turn]]

\* The draft after the records that are read, one by one.
Drafted(Step(_, _), start, records) ==
    LET draft[k \in 0..Len(records)] ==
            IF k = 0 THEN start ELSE Step(draft[k - 1], records[k])
    IN  draft[Len(records)]

\* The items at some places of a list.
Those(items, at) ==
    LET those[k \in 0..Len(items)] ==
            IF k = 0 THEN <<>>
            ELSE IF k \in at THEN Append(those[k - 1], items[k]) ELSE those[k - 1]
    IN  those[Len(items)]

InTurn(calls, turn) == Those(calls, {k \in DOMAIN calls : calls[k].turn = turn})

(* The rows: every call and every tool counts on the conversation, and on its    *)
(* turn when it has one.                                                         *)
Summed(calls) ==
    LET sum[k \in 0..Len(calls)] ==
            IF k = 0 THEN NoTokens ELSE AddTokens(sum[k - 1], calls[k].tokens)
    IN  sum[Len(calls)]

Rows(draft) ==
    LET of(i) == InTurn(draft.calls, i)
    IN  [turns |-> [i \in DOMAIN draft.turns |->
                      [key |-> draft.turns[i].key, status |-> draft.turns[i].status,
                       calls |-> Len(of(i)),
                       tools |-> Len(SelectSeq(draft.tools, LAMBDA turn : turn = i)),
                       tokens |-> Summed(of(i))]],
         calls |-> draft.calls,
         tools |-> draft.tools,
         totals |-> [calls |-> Len(draft.calls), tools |-> Len(draft.tools),
                     tokens |-> Summed(draft.calls)],
         compactions |-> draft.compactions]
===============================================================================
