------------------------------- MODULE MCTools -------------------------------
(***************************************************************************)
(* One run for the tools of the system: the calls of an agent's turn and   *)
(* calls that share the container engine (Tools), and calls that share a   *)
(* file (FileEdit). `subject' says which a behaviour is about; the         *)
(* variables of the others are idle.                                       *)
(***************************************************************************)
EXTENDS Tools

CONSTANT Editors

VARIABLES job, file, draft, between

turn == <<errors, history, spent, held, tokens, work, log, lost, order, checked>>
shared == <<engine, created, picture, doomed, using, scratch, memory, gone, took>>
text == <<job, file, draft, between>>
vars == <<subject, stage, call, answer, seen, turn, shared, text>>

-----------------------------------------------------------------------------
\* Turns of two calls of any kind; three built-in calls, the third of which repeats the first when
\* the history holds one key; more calls of the limited skill than its budget; and single calls
\* with an argument of every type for a parameter of every type, and with one that each guard refuses.
Fine == [path |-> "project", size |-> "small", limit |-> "none", content |-> "plain",
         query |-> [verb |-> "none", limit |-> "none"], given |-> [x |-> "str"]]
Text1 == [required |-> {"x"}, types |-> [x |-> "string"]]
Ask(door, key, args, pollable, ends) ==
    [door |-> door, key |-> key, args |-> args, schema |-> Text1, pollable |-> pollable, ends |-> ends,
     cancel |-> pollable]
Every == {"success", "failed", "error"}
Kinds == {Ask("builtin", "k1", Fine, TRUE, Every), Ask("builtin", "k1", Fine, FALSE, Every),
          Ask("builtin", "k1", [Fine EXCEPT !.path = "protected"], FALSE, Every),
          Ask("skill", "none", Fine, FALSE, Every)}
Quick(key) == Ask("builtin", key, Fine, FALSE, {"success"})
Limit == Ask("limited", "none", Fine, FALSE, {"success"})
Nobody == Ask("none", "none", Fine, FALSE, {})
Types == {"string", "untyped", "integer", "number", "boolean", "array", "object"}
Values == {"absent", "null", "str", "int", "bool", "float", "list", "dict"}
Typed == {[Quick("k1") EXCEPT !.schema = [required |-> r, types |-> [x |-> t]], !.args.given = [x |-> v]] :
              r \in {{}, {"x"}}, t \in Types, v \in Values}
Bad == {[Fine EXCEPT !.path = "binary"], [Fine EXCEPT !.path = "relative"], [Fine EXCEPT !.size = "too large"],
        [Fine EXCEPT !.limit = "not positive"], [Fine EXCEPT !.content = "secret"],
        [Fine EXCEPT !.query = [verb |-> "write", limit |-> "none"]],
        [Fine EXCEPT !.query = [verb |-> "select", limit |-> "none"]],
        [Fine EXCEPT !.query = [verb |-> "select", limit |-> "too large"]]}
Single == Typed \cup {[Quick("k1") EXCEPT !.args = a] : a \in Bad}
MCTurns == {<<a, b, Nobody>> : a, b \in Kinds}
         \cup {<<Quick("k1"), Quick("k2"), Quick("k1")>>, <<Limit, Limit, Limit>>}
         \cup {<<a, Nobody, Nobody>> : a \in Single}

\* Containers: an empty engine, one with a stopped container, one with containers past their TTL,
\* and one with more than MaxContainers; execute_python beside every other kind of call.
Req(op, s, n) == [op |-> op, session |-> s, name |-> n, cancel |-> op = "execute_python"]
Python == Req("execute_python", "s1", "p1")
Others == {Req("execute_python", "s2", "p2"), Req("spawn", "s1", "h1"), Req("spawn", "s2", "h1"),
           Req("container_exec", "s1", "h1"), Req("container_destroy", "s1", "p1"),
           Req("container_destroy", "s1", "h1")}
Box(id, old, up) == [id |-> id, old |-> old, up |-> up]
None == Box(0, FALSE, FALSE)
Engines == {[p1 |-> None, p2 |-> None, h1 |-> None],
            [p1 |-> Box(1, TRUE, TRUE), p2 |-> None, h1 |-> Box(2, FALSE, FALSE)],
            [p1 |-> Box(1, FALSE, FALSE), p2 |-> Box(2, TRUE, TRUE), h1 |-> Box(3, FALSE, TRUE)],
            [p1 |-> Box(1, FALSE, TRUE), p2 |-> Box(2, FALSE, TRUE), h1 |-> Box(3, FALSE, TRUE)]}
MCScenes == [engine : Engines, call : {<<Python, r, Req("none", "s1", "p1")>> : r \in Others}]
          \cup [engine : {[p1 |-> Box(1, TRUE, TRUE), p2 |-> None, h1 |-> None]},
                call : {<<Python, Req("spawn", "s2", "h1"), Req("container_destroy", "s1", "p1")>>}]

\* Files: every patch of at most two characters on every text of at most three, and some longer
\* ones; every diff of one hunk of at most two lines, also with a wrong count and with a final
\* newline, and diffs of two hunks; and two calls on one file.
Texts(chars, k) == UNION {[1..i -> chars] : i \in 0..k}
Look == [tool |-> "view_file", limit |-> 1]
Patch(old, new, all) == [tool |-> "patch", old |-> old, new |-> new, all |-> all]
Patches == {Patch(o, n, all) : o \in Texts({"a", "s", "n"}, 2), n \in {<<"b">>, <<"b", "n", "a">>}, all \in BOOLEAN}
Alone(files, calls) == {[file |-> f, call |-> <<c, Look>>] : f \in files, c \in calls}

Op(o, t) == [op |-> o, text |-> t]
Bodies == {b \in UNION {[1..k -> {Op(" ", <<"a">>), Op("-", <<"a">>), Op("-", <<>>), Op("+", <<"b">>)}] : k \in 1..2} :
               \E i \in DOMAIN b : b[i].op # "+"}
Olds(body) == Cardinality({i \in DOMAIN body : body[i].op # "+"})
Hunk(start, count, ops) == [start |-> start, count |-> count, ops |-> ops]
Diff(hunks, newline, python) == [tool |-> "apply_diff", diff |-> [hunks |-> hunks, newline |-> newline], python |-> python]
Diffs == {Diff(<<Hunk(s, n, b)>>, nl, FALSE) : s \in 1..2, n \in 1..2, b \in Bodies, nl \in BOOLEAN}
         \cup {Diff(<<Hunk(1, Olds(a), a), Hunk(3, Olds(b), b)>>, FALSE, FALSE) : a, b \in Bodies}
         \cup {Diff(<<Hunk(1, 1, <<Op("-", <<"a">>)>>)>>, FALSE, TRUE)}

Together == {[file |-> f, call |-> <<c, d>>] :
                 f \in {<<"a", "n", "a", "s">>, <<"a", "n", "a">>},
                 c \in {Patch(<<"a", "n">>, <<"b">>, FALSE), Diff(<<Hunk(1, 1, <<Op("-", <<"a">>), Op("+", <<"b">>)>>)>>, FALSE, FALSE)},
                 d \in {Patch(<<"n", "a">>, <<"n", "b", "b">>, FALSE), Look, [tool |-> "write_file", text |-> <<"b">>]}}
Jobs == Alone(Texts({"a", "s", "n"}, 3), Patches) \cup Alone(Texts({"a", "n"}, 4), Diffs) \cup Together

Text == INSTANCE FileEdit
ASSUME Turn!TurnsAssumption /\ Engine!ScenesAssumption

-----------------------------------------------------------------------------
NoTurn == /\ errors = 0 /\ history = 0 /\ spent = 0 /\ held = 0 /\ tokens = 0 /\ work = 0
          /\ log = 0 /\ lost = 0 /\ order = 0 /\ checked = 0
NoEngine == /\ engine = 0 /\ created = 0 /\ picture = 0 /\ doomed = 0 /\ using = 0
            /\ scratch = 0 /\ memory = 0 /\ gone = 0 /\ took = 0
NoText == job = 0 /\ file = 0 /\ draft = 0 /\ between = 0

Init ==
    \/ subject = "turn" /\ Turn!Init /\ NoEngine /\ NoText
    \/ subject = "containers" /\ Engine!Init /\ seen = 0 /\ NoTurn /\ NoText
    \/ subject = "file" /\ Text!Init /\ call = 0 /\ NoTurn /\ NoEngine

TurnStep(c) == subject = "turn" /\ Turn!Step(c) /\ UNCHANGED <<subject, shared, text>>
TurnEnvironment(c) == subject = "turn" /\ (Turn!Cancel(c) \/ Turn!Finish(c)) /\ UNCHANGED <<subject, shared, text>>
ContainerStep(c) == subject = "containers" /\ Engine!Call(c) /\ UNCHANGED <<subject, seen, turn, text>>
FileStep(e) == subject = "file" /\ Text!Edit(e) /\ UNCHANGED <<subject, call, turn, shared>>
Over == (\A c \in DOMAIN stage : stage[c] = "over") /\ UNCHANGED vars

Next == \/ \E c \in Calls : TurnStep(c) \/ TurnEnvironment(c)
        \/ \E c \in Callers : ContainerStep(c)
        \/ \E e \in Editors : FileStep(e)
        \/ Over

Spec == /\ Init /\ [][Next]_vars
        /\ \A c \in Calls : WF_vars(TurnStep(c))
        /\ \A c \in Callers : WF_vars(ContainerStep(c))

-----------------------------------------------------------------------------
\* FileEdit: edits change what they name, and calls that do not overlap are serial.
EditsAreExact == subject = "file" => Text!TypeOK /\ Text!PatchIsTargeted /\ Text!DiffIsExact /\ Text!Serializable

\* Cancelled calls of polled tools and calls of the container tools end.
ToolsEnd ==
    /\ \A c \in Calls : (subject = "turn" /\ tokens[c] = "cancelled" /\ call[c].pollable) ~> (subject = "turn" /\ stage[c] = "over")
    /\ (subject = "containers") ~> (\A c \in DOMAIN stage : stage[c] = "over")
=============================================================================
