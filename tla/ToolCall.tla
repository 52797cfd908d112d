------------------------------- MODULE ToolCall -------------------------------
(***************************************************************************)
(* The tool calls of one agent turn, which the agent library runs in       *)
(* threads of their own: a built-in tool through the guards and the        *)
(* ToolRunner, a skill through the SkillRunner, and what the adapters of   *)
(* pydantic_runtime.py write into the event log around them.               *)
(*                                                                         *)
(* Abstracted: a call is its idempotency key (tool name and normalized     *)
(* arguments) and the classes of its arguments that the guards tell apart: *)
(* a path, a content and a query are the class that a guard puts them in,  *)
(* a declared argument is the Python type of its value.                    *)
(***************************************************************************)
EXTENDS Naturals, Sequences, FiniteSets

CONSTANTS Calls,      \* tool calls; a turn with fewer has calls with door "none"
          Turns,      \* [Calls -> [door, key, args, schema, pollable, ends, cancel]]: what the model
                      \* asks for, the ways its handler may end, whether somebody cancels it
          MaxHistory, \* IdempotencyGuard max_history
          Budget      \* MAX_SEMBLE_SEARCH_CALLS_PER_RUN

VARIABLES call,    \* the calls of this turn
          stage,   \* stage[c]: where the call is
          errors,  \* errors[c]: a guard has refused it
          seen,    \* IdempotencyGuard._seen
          history, \* IdempotencyGuard._history
          spent,   \* ctx.deps.tool_call_counts of the budgeted skill
          held,    \* held[c]: the count it has read
          tokens,  \* tokens[c]: its entry in _active_tokens: "none" | "live" | "cancelled"
          work,    \* work[c]: its handler: "idle" | "running" | outcome
          answer,  \* answer[c]: what the model gets, "none" before
          log,     \* log[c]: its entries in the event log: "called", or the status it ended with
          lost,    \* history: calls with an event that could not be written
          order,   \* history: all keys recorded by the guard
          checked  \* history: Len(order) when c's key was looked up

vars == <<call, stage, errors, seen, history, spent, held, tokens, work, answer, log, lost, order, checked>>

-----------------------------------------------------------------------------
(* The guards that only look at the arguments; they all run, and one that objects refuses the call *)

\* Arguments: path, size of the file it names, limit, content, query [verb, limit], and given: the
\* type of the value of each parameter, or "absent".  A schema is the set of required parameters and
\* the declared type of each property.

\* Relative paths, paths with "..", and paths that resolve into a protected place.
PathGuard(args) == args.path \in {"dotted", "relative", "reserved", "protected"}

\* Limits that are not positive, and files above the size limit.
SizeGuard(args) == args.limit = "not positive" \/ args.size = "too large"

\* Binary files, and contents that look like a secret.
ContentGuard(args) == args.path = "binary" \/ args.content = "secret"

\* Writes, a SELECT without a LIMIT, and a LIMIT above the maximum.
QueryGuard(args) ==
    \/ args.query.verb = "write"
    \/ args.query.verb = "select" /\ args.query.limit = "none"
    \/ args.query.limit = "too large"

\* isinstance: a bool is an int too; a property without a type is taken for a string.
Instance(value, type) ==
    CASE type \in {"string", "untyped"} -> value = "str"
      [] type = "integer" -> value \in {"int", "bool"}
      [] type = "number" -> value \in {"int", "float", "bool"}
      [] type = "boolean" -> value = "bool"
      [] type = "array" -> value = "list"
      [] type = "object" -> value = "dict"
      [] OTHER -> TRUE

\* A required parameter that is missing; a declared one whose value is neither null nor of its type.
TypeGuard(args, schema) ==
    \/ \E p \in schema.required : args.given[p] = "absent"
    \/ \E p \in DOMAIN schema.types :
           args.given[p] \notin {"absent", "null"} /\ ~Instance(args.given[p], schema.types[p])

\* GuardPipeline.validate, without IdempotencyGuard.
Objections(args, schema) ==
    \/ PathGuard(args) \/ SizeGuard(args) \/ TypeGuard(args, schema)
    \/ ContentGuard(args) \/ QueryGuard(args)

-----------------------------------------------------------------------------
(* The turn *)

Asked(c) == call[c].door # "none"
Builtin(c) == call[c].door = "builtin"
Limited(c) == call[c].door = "limited"
Objects(c) == Objections(call[c].args, call[c].schema)
Outcomes == {"success", "failed", "error"}

\* What the handlers of any calls may end with, and the types that a schema may declare.
TurnsAssumption ==
    /\ IsFiniteSet(Calls) /\ MaxHistory \in Nat /\ Budget \in Nat
    /\ \A turn \in Turns, c \in Calls :
           /\ turn[c].door \in {"none", "builtin", "limited", "skill"} /\ turn[c].ends \subseteq Outcomes
           /\ \A p \in DOMAIN turn[c].schema.types : turn[c].schema.types[p] \in
                  {"string", "untyped", "integer", "number", "boolean", "array", "object"}

Init ==
    /\ call \in Turns /\ stage = [c \in Calls |-> IF Asked(c) THEN "start" ELSE "over"]
    /\ errors = [c \in Calls |-> FALSE]
    /\ seen = {} /\ history = <<>> /\ spent = 0 /\ held = [c \in Calls |-> 0]
    /\ tokens = [c \in Calls |-> "none"] /\ work = [c \in Calls |-> "idle"]
    /\ answer = [c \in Calls |-> "none"] /\ log = [c \in Calls |-> <<>>] /\ lost = {} /\ order = <<>>
    /\ checked = [c \in Calls |-> 0]

Go(c, from, to) == stage[c] = from /\ stage' = [stage EXCEPT ![c] = to]
guards == <<errors, seen, history, order, checked>>
budget == <<spent, held>>
running == <<tokens, work>>

-----------------------------------------------------------------------------
(* The budget of one skill per run: read, compared, and written back.                            *)
ReadBudget(c) ==
    /\ Limited(c) /\ Go(c, "start", "budget")
    /\ held' = [held EXCEPT ![c] = spent]
    /\ UNCHANGED <<call, spent, guards, running, answer, log, lost>>

\* A call that finds the budget used up is turned away; another one counts itself.
TakeBudget(c) ==
    /\ Limited(c) /\ stage[c] = "budget" /\ UNCHANGED <<call, held, guards, running, log, lost>>
    /\ \/ held[c] >= Budget /\ Go(c, "budget", "over") /\ answer' = [answer EXCEPT ![c] = "blocked"] /\ UNCHANGED spent
       \/ held[c] < Budget /\ Go(c, "budget", "log") /\ spent' = held[c] + 1 /\ UNCHANGED answer

-----------------------------------------------------------------------------
\* An event is written, or lost with a debug line.
Persist(c, what) ==
    \/ log' = [log EXCEPT ![c] = Append(@, what)] /\ UNCHANGED lost
    \/ lost' = lost \cup {c} /\ UNCHANGED log

\* SkillCalled, before the guards have seen the call.
LogStarted(c) ==
    /\ \/ ~Limited(c) /\ stage[c] = "start"
       \/ stage[c] = "log"
    /\ stage' = [stage EXCEPT ![c] = IF Builtin(c) THEN "check" ELSE "register"]
    /\ Persist(c, "called") /\ UNCHANGED <<call, guards, budget, running, answer>>

\* Mutant: a key is looked up in an empty set.
CheckNothing(c) ==
    /\ stage[c] = "check" /\ checked' = [checked EXCEPT ![c] = Len(order)]
    /\ errors' = [errors EXCEPT ![c] = Objects(c)]
    /\ stage' = [stage EXCEPT ![c] = "record"]
    /\ UNCHANGED <<call, seen, history, order, budget, running, answer, log, lost>>

\* All guards run: those that only look at the arguments, and IdempotencyGuard, which looks the key
\* up among those it remembers ...
Check(c) ==
    /\ stage[c] = "check" /\ checked' = [checked EXCEPT ![c] = Len(order)]
    /\ errors' = [errors EXCEPT ![c] = Objects(c) \/ call[c].key \in seen]
    /\ stage' = [stage EXCEPT ![c] = IF call[c].key \in seen THEN "guarded" ELSE "record"]
    /\ UNCHANGED <<call, seen, history, order, budget, running, answer, log, lost>>

\* ... and remembers it, also when another guard refuses the call; the oldest key is forgotten.
Record(c) ==
    LET longer == Append(history, call[c].key) IN
    /\ Go(c, "record", "guarded") /\ order' = Append(order, call[c].key)
    /\ IF Len(longer) > MaxHistory
       THEN history' = Tail(longer) /\ seen' = (seen \cup {call[c].key}) \ {Head(longer)}
       ELSE history' = longer /\ seen' = seen \cup {call[c].key}
    /\ UNCHANGED <<call, errors, checked, budget, running, answer, log, lost>>

\* A refused call does not reach its handler.
Refuse(c) ==
    /\ errors[c] /\ Go(c, "guarded", "close") /\ answer' = [answer EXCEPT ![c] = "error"]
    /\ UNCHANGED <<call, guards, budget, running, log, lost>>

-----------------------------------------------------------------------------
\* The token is registered and the handler starts.
Begin(c) ==
    /\ \/ stage[c] = "guarded" /\ ~errors[c]
       \/ stage[c] = "register"
    /\ stage' = [stage EXCEPT ![c] = "run"]
    /\ tokens' = [tokens EXCEPT ![c] = "live"] /\ work' = [work EXCEPT ![c] = "running"]
    /\ UNCHANGED <<call, guards, budget, answer, log, lost>>

\* cancel_call finds the token of a call that is under way.
Cancel(c) ==
    /\ tokens[c] = "live" /\ call[c].cancel /\ tokens' = [tokens EXCEPT ![c] = "cancelled"]
    /\ UNCHANGED <<call, stage, guards, budget, work, answer, log, lost>>

\* The handler returns a result that says success or not, or raises; it may never do so.
Finish(c) ==
    /\ work[c] = "running" /\ \E o \in call[c].ends : work' = [work EXCEPT ![c] = o]
    /\ UNCHANGED <<call, stage, guards, budget, tokens, answer, log, lost>>

\* Mutant: a cancelled call waits for its handler.
ReturnWhenDone(c) ==
    /\ stage[c] = "run" /\ work[c] \in Outcomes
    /\ Go(c, "run", "close") /\ tokens' = [tokens EXCEPT ![c] = "none"]
    /\ answer' = [answer EXCEPT ![c] = work[c]]
    /\ UNCHANGED <<call, guards, budget, work, log, lost>>

\* The call takes the handler's outcome.  A tool that is polled gives up as soon as its token is
\* cancelled, and its handler runs on.
Return(c) ==
    /\ stage[c] = "run"
    /\ \/ work[c] \in Outcomes /\ answer' = [answer EXCEPT ![c] = work[c]]
       \/ /\ call[c].pollable /\ tokens[c] = "cancelled" /\ work[c] = "running"
          /\ answer' = [answer EXCEPT ![c] = "cancelled"]
    /\ Go(c, "run", "close") /\ tokens' = [tokens EXCEPT ![c] = "none"]
    /\ UNCHANGED <<call, guards, budget, work, log, lost>>

\* The status a completion is logged with: of a skill its own, of a built-in tool "error" only
\* when the JSON it returned says "error".
Status(c) == IF Builtin(c) /\ answer[c] # "error" THEN "success" ELSE answer[c]

\* Mutant: a refused call is not closed.
LogOnlyRun(c) ==
    /\ Go(c, "close", "over")
    /\ IF work[c] = "idle" THEN UNCHANGED <<log, lost>> ELSE Persist(c, Status(c))
    /\ UNCHANGED <<call, guards, budget, running, answer>>

LogCompleted(c) ==
    /\ Go(c, "close", "over") /\ Persist(c, Status(c))
    /\ UNCHANGED <<call, guards, budget, running, answer>>

Step(c) == \/ ReadBudget(c) \/ TakeBudget(c) \/ LogStarted(c) \/ Check(c) \/ Record(c) \/ Refuse(c)
           \/ Begin(c) \/ Return(c) \/ LogCompleted(c)
Over(c) == stage[c] = "over"
Next == \/ \E c \in Calls : Step(c) \/ Cancel(c) \/ Finish(c)
        \/ (\A c \in Calls : Over(c)) /\ UNCHANGED vars

\* Threads of the library take their steps; nothing makes a handler come back.
Spec == Init /\ [][Next]_vars /\ \A c \in Calls : WF_vars(Step(c))

-----------------------------------------------------------------------------
TypeOK ==
    /\ \A c \in Calls : stage[c] \in {"start", "budget", "log", "check", "record", "guarded", "register",
                                      "run", "close", "over"}
    /\ \A c \in Calls : tokens[c] \in {"none", "live", "cancelled"} /\ work[c] \in {"idle", "running"} \cup Outcomes
    /\ Len(history) <= MaxHistory /\ seen \subseteq {history[i] : i \in DOMAIN history} /\ spent \in 0..Cardinality(Calls)

\* A call is refused as a repeat if an equal call was recorded before it was looked up and not yet
\* pushed out by MaxHistory later ones, and only if an equal call was recorded: equal calls both
\* pass only when they overlap or are far apart.  More than Budget calls of the limited skill
\* pass only if two of them read the same count.  A refused call's handler never starts.
Earlier(c) == {i \in DOMAIN order : order[i] = call[c].key /\ i <= checked[c]}
Passed == {c \in Calls : Limited(c) /\ stage[c] \notin {"start", "budget"} /\ answer[c] # "blocked"}
LimitsHold ==
    /\ \A c \in Calls :
           (Builtin(c) /\ stage[c] \notin {"start", "check"} /\ ~Objects(c)) =>
               /\ errors[c] => Earlier(c) # {}
               /\ (Earlier(c) # {} /\ \A i \in Earlier(c) : checked[c] < i + MaxHistory) => errors[c]
    /\ Cardinality(Passed) > Budget => \E c, d \in Passed : c # d /\ held[c] = held[d]
    /\ \A c \in Calls : errors[c] => work[c] = "idle" /\ answer[c] \in {"none", "error"}

\* A handler that starts has every required argument, and each declared one as its declared type,
\* as null, or, where a number is declared, as a boolean.
Fits(value, type) ==
    value = CASE type \in {"string", "untyped"} -> "str" [] type = "integer" -> "int" [] type = "number" -> "float"
              [] type = "boolean" -> "bool" [] type = "array" -> "list" [] type = "object" -> "dict"
HandlersGetTheirTypes ==
    \A c \in Calls : (Builtin(c) /\ work[c] # "idle") =>
        \A p \in DOMAIN call[c].schema.types :
            LET value == call[c].args.given[p] IN
            \/ value = "absent" /\ p \notin call[c].schema.required
            \/ value = "null" \/ Fits(value, call[c].schema.types[p])
            \/ call[c].schema.types[p] \in {"integer", "number"} /\ value = "bool"
            \/ call[c].schema.types[p] = "number" /\ value = "int"

\* The log of a session closes every call it opens, in that order and once, refused, raised and
\* cancelled calls too; it gives a skill's status as the model got it, and calls a built-in call
\* an error exactly if the model got one.  A closed call has left no token behind.
Says(c, status) == IF Builtin(c) THEN (status = "error") = (answer[c] = "error") ELSE status = answer[c]
AnswersAreLogged ==
    \A c \in Calls : (Asked(c) /\ Over(c)) =>
        /\ answer[c] # "none" /\ tokens[c] = "none"
        /\ IF answer[c] = "blocked" THEN log[c] = <<>>
           ELSE c \notin lost => Len(log[c]) = 2 /\ log[c][1] = "called" /\ Says(c, log[c][2])

\* A cancelled call of a tool that is polled ends, whatever its handler does.
CancelledCallsEnd == \A c \in Calls : (tokens[c] = "cancelled" /\ call[c].pollable) ~> Over(c)
=============================================================================
