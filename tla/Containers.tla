------------------------------ MODULE Containers ------------------------------
(***************************************************************************)
(* container_spawn, container_exec, container_destroy and execute_python   *)
(* (system_tools/): calls of several sessions that share one container     *)
(* engine, know a container by its name, and run the engine's commands one *)
(* at a time, in any interleaving.                                         *)
(*                                                                         *)
(* Abstracted: a container is [id, old, up]: the order of its creation,    *)
(* whether it has passed container_ttl_seconds, and whether it runs; a     *)
(* command run in it is its outcome; the image is one step that may fail.  *)
(***************************************************************************)
EXTENDS Naturals, FiniteSets, FiniteSetsExt

CONSTANTS Callers,      \* tool calls
          Names,        \* container names with the harness prefix
          Sessions,
          Scenes,       \* [engine: [Names -> container or Gone], call: [Callers -> request]]
          MaxContainers \* runtime.max_harness_containers

VARIABLES call,    \* call[c]: [op, session, name, cancel]
          stage,   \* stage[c]: which engine command is next
          engine,  \* engine[n]: the container of that name, or Gone
          created, \* number of containers ever created
          picture, \* picture[c]: what a cleanup saw: set of [name, id, old]
          doomed,  \* doomed[c]: names it is going to remove
          using,   \* using[c]: id of the container a command runs in
          scratch, \* scratch[s]: the session's scratch directory exists
          memory,  \* memory[s][n]: "none" | "spawned" | "removed"
          answer,  \* answer[c]: "none" | "success" | "failed" | "missing" | "cancelled" | "raised"
          gone,    \* history: <<id, call, why>> of containers removed or stopped
          took     \* history: took[c]: the container its spawn returned: [id, up, own]

vars == <<call, stage, engine, created, picture, doomed, using, scratch, memory, answer, gone, took>>

Gone == [id |-> 0, old |-> FALSE, up |-> FALSE]
There(n) == engine[n] # Gone
Name(c) == call[c].name
Session(c) == call[c].session
Op(c) == call[c].op
Spawns(c) == Op(c) \in {"spawn", "execute_python"}

\* What a scene may be: no two containers have the same id.
ScenesAssumption ==
    /\ IsFiniteSet(Names) /\ Names # {} /\ MaxContainers \in Nat
    /\ \A scene \in Scenes :
           /\ scene.engine \in [Names -> [id : Nat, old : BOOLEAN, up : BOOLEAN]]
           /\ \A n \in Names : scene.engine[n].id = 0 => scene.engine[n] = Gone
           /\ \A m, n \in Names : (m # n /\ scene.engine[m].id # 0) => scene.engine[m].id # scene.engine[n].id
           /\ \A c \in Callers : scene.call[c].session \in Sessions /\ scene.call[c].name \in Names

Init ==
    /\ \E scene \in Scenes : call = scene.call /\ engine = scene.engine
    /\ stage = [c \in Callers |-> CASE Spawns(c) -> "list" [] Op(c) = "container_exec" -> "exec"
                                    [] Op(c) = "container_destroy" -> "stop" [] OTHER -> "over"]
    /\ created = Max({engine[n].id : n \in Names}) /\ picture = [c \in Callers |-> {}] /\ doomed = [c \in Callers |-> {}]
    /\ using = [c \in Callers |-> 0] /\ answer = [c \in Callers |-> "none"]
    /\ scratch = [s \in Sessions |-> \E n \in Names : There(n)] /\ memory = [s \in Sessions |-> [n \in Names |-> "none"]]
    /\ gone = {} /\ took = [c \in Callers |-> [id |-> 0, up |-> FALSE, own |-> FALSE]]

Go(c, from, to) == stage[c] = from /\ stage' = [stage EXCEPT ![c] = to]
End(c, from, a) == Go(c, from, "over") /\ answer' = [answer EXCEPT ![c] = a]
world == <<engine, created, scratch, memory, gone>>
view == <<picture, doomed>>
Remember(c, what) == memory' = [memory EXCEPT ![Session(c)][Name(c)] = what]

-----------------------------------------------------------------------------
(* container_spawn.                                                                              *)

\* No image, no container runtime, or an image that cannot be checked or built.
CannotSpawn(c) ==
    /\ \E from \in {"list", "image"} : End(c, from, "failed")
    /\ UNCHANGED <<call, world, view, using, took>>

\* ps -a: the names of all harness containers but its own; a failing ps lists none.
List(c) ==
    /\ Go(c, "list", "inspect")
    /\ \E names \in {{}, {n \in Names \ {Name(c)} : There(n)}} :
           doomed' = [doomed EXCEPT ![c] = names]
    /\ UNCHANGED <<call, world, picture, using, answer, took>>

Younger(seen, x) == {y \in seen : ~y.old /\ y.id > x.id}
\* Mutant: the youngest beyond the maximum.
DoomedYoung(seen) == {x.name : x \in {x \in seen : x.old \/ Cardinality({y \in seen : ~y.old /\ y.id < x.id}) >= MaxContainers}}
\* Of the containers seen, those past the TTL, and the oldest of the others beyond the maximum.
Doomed(seen) ==
    {x.name : x \in {x \in seen : x.old \/ (MaxContainers > 0 /\ Cardinality(Younger(seen, x)) >= MaxContainers)}}

\* Each listed name is inspected; one that has gone is dropped.
Inspect(c) ==
    LET seen == {[name |-> n, id |-> engine[n].id, old |-> engine[n].old] : n \in {n \in doomed[c] : There(n)}} IN
    /\ Go(c, "inspect", "clean")
    /\ picture' = [picture EXCEPT ![c] = seen] /\ doomed' = [doomed EXCEPT ![c] = Doomed(seen)]
    /\ UNCHANGED <<call, world, using, answer, took>>

\* rm -f by name, one after the other; a failure is passed over.
Clean(c) ==
    /\ stage[c] = "clean" /\ UNCHANGED <<call, created, scratch, memory, picture, using, answer, took>>
    /\ \/ doomed[c] = {} /\ Go(c, "clean", "image") /\ UNCHANGED <<engine, doomed, gone>>
       \/ \E n \in doomed[c] :
              /\ doomed' = [doomed EXCEPT ![c] = @ \ {n}] /\ UNCHANGED stage
              /\ \/ There(n) /\ engine' = [engine EXCEPT ![n] = Gone] /\ gone' = gone \cup {<<engine[n].id, c, "stale">>}
                 \/ UNCHANGED <<engine, gone>>

\* Where a call that has its container goes on.
Spawned(c, from, n) ==
    /\ took' = [took EXCEPT ![c] = [id |-> engine[n].id, up |-> engine[n].up, own |-> from = "await"]] /\ Remember(c, "spawned")
    /\ IF Op(c) = "spawn" THEN End(c, from, "success") ELSE Go(c, from, "spawned") /\ UNCHANGED answer

\* The image is there; a container of that name, running or not, is what the call returns.
Look(c) ==
    /\ stage[c] = "image" /\ UNCHANGED <<call, engine, created, scratch, gone, view, using>>
    /\ IF There(Name(c)) THEN Spawned(c, "image", Name(c))
       ELSE Go(c, "image", "create") /\ UNCHANGED <<memory, answer, took>>

\* run -d: a name in use is an error; a run that fails or times out may have left a container.
Create(c) ==
    /\ stage[c] = "create" /\ scratch' = [scratch EXCEPT ![Session(c)] = TRUE]
    /\ UNCHANGED <<call, memory, gone, view, using, took>>
    /\ \/ /\ ~There(Name(c)) /\ created' = created + 1
          /\ \E up \in BOOLEAN : engine' = [engine EXCEPT ![Name(c)] = [id |-> created + 1, old |-> FALSE, up |-> up]]
          /\ (Go(c, "create", "await") /\ UNCHANGED answer) \/ End(c, "create", "failed")
       \/ End(c, "create", "failed") /\ UNCHANGED <<engine, created>>

\* Ten looks: it runs, or the call fails and leaves it as it is.
Await(c) ==
    /\ stage[c] = "await" /\ UNCHANGED <<call, engine, created, scratch, gone, view, using>>
    /\ \/ engine[Name(c)].up /\ Spawned(c, "await", Name(c))
       \/ ~engine[Name(c)].up /\ End(c, "await", "failed") /\ UNCHANGED <<memory, took>>

-----------------------------------------------------------------------------
(* execute_python goes on in the container that its spawn has named; container_exec starts here. *)

Cancelled(c) ==
    /\ call[c].cancel /\ \E from \in {"spawned", "command"} : End(c, from, "cancelled")
    /\ UNCHANGED <<call, world, view, took>> /\ using' = [using EXCEPT ![c] = 0]

\* exec in a container that does not exist or does not run is an error of the engine.
Exec(c) ==
    /\ stage[c] \in {"spawned", "exec"} /\ UNCHANGED <<call, world, view, took>>
    /\ \/ engine[Name(c)].up /\ Go(c, stage[c], "command")
          /\ using' = [using EXCEPT ![c] = engine[Name(c)].id] /\ UNCHANGED answer
       \/ ~engine[Name(c)].up /\ End(c, stage[c], "missing") /\ UNCHANGED using

\* The command ends, is killed after its timeout, or with its container.
Command(c) ==
    /\ \/ End(c, "command", "failed")
       \/ engine[Name(c)].id = using[c] /\ engine[Name(c)].up /\ End(c, "command", "success")
    /\ using' = [using EXCEPT ![c] = 0] /\ UNCHANGED <<call, world, view, took>>

-----------------------------------------------------------------------------
(* container_destroy.                                                                            *)

\* stop: its failure is ignored, unless it times out or cannot be invoked, which is raised.
Stop(c) ==
    /\ stage[c] = "stop" /\ UNCHANGED <<call, created, scratch, memory, view, using, took>>
    /\ \/ /\ Go(c, "stop", "rm") /\ UNCHANGED answer
          /\ \/ /\ There(Name(c)) /\ engine' = [engine EXCEPT ![Name(c)].up = FALSE]
                /\ gone' = gone \cup {<<engine[Name(c)].id, c, "destroy">>}
             \/ UNCHANGED <<engine, gone>>
       \/ End(c, "stop", "raised") /\ UNCHANGED <<engine, gone>>

\* rm, without force: a running container stays.  Whatever rm says, the blackboard says removed
\* and the scratch directory of the session goes; only a timeout ends the call before that.
Rm(c) ==
    /\ stage[c] = "rm" /\ UNCHANGED <<call, created, view, using, took>>
    /\ \/ /\ Remember(c, "removed") /\ scratch' = [scratch EXCEPT ![Session(c)] = FALSE]
          /\ \/ /\ There(Name(c)) /\ ~engine[Name(c)].up /\ End(c, "rm", "success")
                /\ engine' = [engine EXCEPT ![Name(c)] = Gone]
                /\ gone' = gone \cup {<<engine[Name(c)].id, c, "destroy">>}
             \/ /\ ~There(Name(c)) \/ engine[Name(c)].up
                /\ End(c, "rm", "failed") /\ UNCHANGED <<engine, gone>>
       \/ End(c, "rm", "failed") /\ UNCHANGED <<engine, gone, scratch, memory>>

Call(c) ==
    \/ CannotSpawn(c) \/ List(c) \/ Inspect(c) \/ Clean(c) \/ Look(c) \/ Create(c) \/ Await(c)
    \/ Cancelled(c) \/ Exec(c) \/ Command(c) \/ Stop(c) \/ Rm(c)
AllOver == \A c \in Callers : stage[c] = "over"
Next == (\E c \in Callers : Call(c)) \/ (AllOver /\ UNCHANGED vars)

\* Every command of the engine has a timeout, so every call takes its next step.
Spec == Init /\ [][Next]_vars /\ \A c \in Callers : WF_vars(Call(c))

-----------------------------------------------------------------------------
TypeOK ==
    /\ \A c \in Callers : stage[c] \in {"list", "inspect", "clean", "image", "create", "await", "spawned", "exec",
                                        "command", "stop", "rm", "over"}
    /\ \A n \in Names : engine[n].id \in 0..created
    /\ \A m, n \in Names : (m # n /\ There(m)) => engine[m].id # engine[n].id

\* A cleanup removes a container of its picture only if it was past its TTL or had MaxContainers
\* younger ones in the picture.  It removes one that it did not see only by its name: that
\* container was created after the picture, in place of a doomed one that is gone.
CleanupSparesTheYoung ==
    \A g \in gone : g[3] = "stale" =>
        LET seen == picture[g[2]] IN
        /\ seen # {}
        /\ \A x \in seen : x.id = g[1] => x.old \/ Cardinality(Younger(seen, x)) >= MaxContainers
        /\ (\A x \in seen : x.id # g[1]) => \E x \in seen : x.id < g[1] /\ \E h \in gone : h[1] = x.id /\ h[2] # g[2]

\* execute_python misses the container that its spawn returned only if another call has removed
\* or stopped it meanwhile, or spawn had found it stopped: never one that it created itself.  A
\* command loses its scratch directory only to a destroy of its own session.
ByOther(id, c) == \E g \in gone : g[1] = id /\ g[2] # c
UseIsExplained ==
    /\ \A c \in Callers : (Op(c) = "execute_python" /\ answer[c] = "missing") =>
           ByOther(took[c].id, c) \/ (~took[c].up /\ ~took[c].own)
    /\ \A c \in Callers : (using[c] # 0 /\ Spawns(c) /\ took[c].own /\ ~scratch[Session(c)]) =>
           \E d \in Callers : Op(d) = "container_destroy" /\ Session(d) = Session(c) /\ stage[d] = "over"

\* Every call ends.
CallsEnd == <>AllOver
=============================================================================
