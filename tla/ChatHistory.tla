----------------------------- MODULE ChatHistory -----------------------------
(***************************************************************************)
(* What the chat does with a list of model messages                        *)
(* (core/runtime/message_history.py, _bounded_pydantic_messages of         *)
(* repl.py and _ensure_history_consistent of app_factory.py). A message is *)
(* its kind, the turn (or the task) it comes from and its size in tokens:  *)
(*   "ask"  a request with a user prompt      "call" a response with a tool call *)
(*   "ret"  a request of tool returns only    "say"  a response of text          *)
(*   "fed"  a request of text: findings of a sub-agent                     *)
(***************************************************************************)
EXTENDS Naturals, Sequences, SequencesExt, FiniteSetsExt, SequenceFold

CONSTANTS TokenBudget,   \* runtime.chat_history_max_tokens
          MaxMessages,   \* MAX_PYDANTIC_MESSAGES
          ResultCap      \* runtime.tool_result_max_chars, in tokens

ASSUME LimitsAreNumbers == TokenBudget \in Nat /\ MaxMessages \in Nat /\ ResultCap \in Nat

Messages == [kind : {"ask", "call", "ret", "say", "fed"}, of : Nat, size : Nat]
Message(kind, of, size) == [kind |-> kind, of |-> of, size |-> size]

\* estimate_message_tokens
Tokens(s) == Sum([m \in Messages |-> m.size], s)

\* A return that is too long is cut, and gets a prefix that says so.
Sanitized(s) ==
    [i \in DOMAIN s |-> IF s[i].kind = "ret" /\ ResultCap > 0 /\ s[i].size > ResultCap
                        THEN [s[i] EXCEPT !.size = ResultCap + 1] ELSE s[i]]

From(s, i) == SubSeq(s, i, Len(s))

\* _strip_leading_orphan_tool_returns
Stripped(s) ==
    LET kept == {i \in DOMAIN s : s[i].kind # "ret"}
    IN IF kept = {} THEN <<>> ELSE From(s, Min(kept))

\* split_chat_turns: a turn begins at the first message and at every user prompt.
Starts(s) == {i \in DOMAIN s : i = 1 \/ s[i].kind = "ask"}

\* The oldest turns are dropped until the rest fits; the last turn always stays.
DropOldest(s, fitting) == From(s, IF fitting = {} THEN Max(Starts(s)) ELSE Min(fitting))

Pruned(s) ==
    LET clean == Stripped(s)
    IN IF TokenBudget = 0 \/ clean = <<>> THEN <<>>
       ELSE DropOldest(clean, {i \in Starts(clean) : Tokens(From(clean, i)) <= TokenBudget})

\* Mutant: the oldest messages are cut off, whatever they belong to.
BoundedRaw(s) ==
    LET pruned == Pruned(s)
    IN From(pruned, Max({1, Len(pruned) - MaxMessages + 1}))

\* _bounded_pydantic_messages: also the number of messages is bounded, in whole turns.
Bounded(s) ==
    LET pruned == Pruned(s)
    IN IF pruned = <<>> THEN <<>> ELSE DropOldest(pruned, {i \in Starts(pruned) : Len(From(pruned, i)) <= MaxMessages})

\* A resumed history that ends in a tool call gets a return for it.
Repaired(s) ==
    IF s # <<>> /\ Last(s).kind = "call" THEN Append(s, Message("ret", Last(s).of, 1)) ELSE s

\* _message_contains_marker: the messages that findings of a task were fed with.
Selected(s, these) ==
    Fold([m \in Messages |-> [kept \in Seq(Messages) |-> IF m \in these THEN Append(kept, m) ELSE kept]], <<>>, s)
Without(s, task) == Selected(s, {m \in Messages : ~(m.kind = "fed" /\ m.of = task)})

\* The messages of all rows, one row after the other.
Joined(rows) == Fold([row \in Seq(Messages) |-> [s \in Seq(Messages) |-> s \o row]], <<>>, rows)

-----------------------------------------------------------------------------
\* What the model's API asks for: a return follows its call, and a call is followed by its return.
WellFormed(s) ==
    \A i \in DOMAIN s :
        /\ s[i].kind = "ret" => i > 1 /\ s[i-1].kind = "call" /\ s[i-1].of = s[i].of
        /\ s[i].kind = "call" => i < Len(s) /\ s[i+1].kind = "ret"
=============================================================================
