----------------------------- MODULE SkillBundles -----------------------------
(***************************************************************************)
(* Compiled skills. Threads of the terminal program and of the dashboard's *)
(* server compile SKILL.md files (skill_compiler.py, api/routes.py,        *)
(* app_factory.py) into bundles that each process caches by the file's     *)
(* mtime and that are saved beside the file; agents edit and view skills   *)
(* meanwhile (knowledge_tools.py), and browsers follow a compilation.      *)
(*                                                                         *)
(* A file's text is the number of its edit, which is also its mtime, and 0 *)
(* when there is no file; a bundle is the text it was made from and its    *)
(* compilation status.                                                     *)
(***************************************************************************)
EXTENDS Naturals, Sequences, FiniteSets

CONSTANTS Files,       \* the SKILL.md files, in the order in which they are compiled: 1..n
          Threads,     \* compilations that may be asked for: [proc, kind]
          Viewers,     \* the processes whose agent views skills
          Clients,     \* browser tabs of the dashboard
          QueueMax,    \* _MAX_CLIENT_QUEUE
          MaxEdits, MaxFailures   \* bounds: edits of a file; compilations and writes that fail

VARIABLES disk,       \* disk[f]: [text, sound]: sound when its frontmatter can be parsed
          json,       \* json[f]: the bundle in .skill_bundle.json, or NoBundle
          cache,      \* cache[p]: process p's _cache: <<mtime, file>> -> bundle
          running,    \* running[p]: _compilation_progress says that a batch is under way
          thread,     \* thread[t]: [at, todo, key, text, out]
          view,       \* view[p]: the agent's skill_view: [at, file, key, found]
          shown,      \* shown[p]: what the last view gave: [of, when], of = 0 for raw markdown
          settled,    \* settled[p][f]: p compiled the file as it is, with nothing else at it
          client,     \* client[c]: [at, shows, queue]
          listening,  \* _clients
          edits, failures

vars == <<disk, json, cache, running, thread, view, shown, settled, client, listening, edits, failures>>

\* Files have an order, and only the server has browsers that follow it.
BundlesAssumption ==
    /\ Files \subseteq Nat /\ QueueMax \in Nat
    /\ Clients # {} => \E t \in Threads : t.proc = "web"

Procs == {t.proc : t \in Threads} \cup Viewers
NoBundle == [of |-> 0, status |-> "none"]
Key(f) == <<disk[f].text, f>>          \* (_safe_mtime(skill_file), str(skill_file))
IdleThread == [at |-> "none", todo |-> {}, key |-> <<0, 0>>, text |-> [text |-> 0, sound |-> FALSE],
               out |-> NoBundle]
IdleView == [at |-> "none", file |-> 0, key |-> <<0, 0>>, found |-> NoBundle]

Init ==
    /\ disk = [f \in Files |-> [text |-> 1, sound |-> TRUE]] /\ json = [f \in Files |-> NoBundle]
    /\ cache = [p \in Procs |-> <<>>]
    /\ running = [p \in Procs |-> FALSE]
    /\ thread = [t \in Threads |-> IdleThread]
    /\ view = [p \in Procs |-> IdleView] /\ shown = [p \in Procs |-> [of |-> 0, when |-> 0]]
    /\ settled = [p \in Procs |-> [f \in Files |-> FALSE]]
    /\ client = [c \in Clients |-> [at |-> "off", shows |-> "idle", queue |-> <<>>]] /\ listening = {}
    /\ edits = 0 /\ failures = 0

browsers == <<client, listening>>
views == <<view, shown>>
Failure == failures < MaxFailures /\ failures' = failures + 1
Present == {f \in Files : disk[f].text # 0}
Put(p, key, bundle) == cache' = [cache EXCEPT ![p] =
                          [k \in DOMAIN cache[p] \cup {key} |-> IF k = key THEN bundle ELSE cache[p][k]]]

-----------------------------------------------------------------------------
(* skill_manage *)

\* Create or overwrite, patch, and delete with the directory. Nothing invalidates a cache.
Manage(f) ==
    /\ edits < MaxEdits /\ edits' = edits + 1
    /\ \/ /\ \E sound \in BOOLEAN : disk' = [disk EXCEPT ![f] = [text |-> edits + 2, sound |-> sound]]
          /\ UNCHANGED json
       \/ /\ disk[f].text # 0
          /\ disk' = [disk EXCEPT ![f] = [text |-> 0, sound |-> FALSE]]
          /\ json' = [json EXCEPT ![f] = NoBundle]
    /\ settled' = [p \in Procs |-> [settled[p] EXCEPT ![f] = FALSE]]
    /\ UNCHANGED <<cache, running, thread, views, browsers, failures>>

-----------------------------------------------------------------------------
(* publish_compile_event: a client whose queue is full is dropped *)

Publish(events) ==
    LET room(c) == QueueMax - Len(client[c].queue)
        sent(c) == {i \in DOMAIN events : i <= room(c)}
    IN  /\ client' = [c \in Clients |-> IF c \in listening
                         THEN [client[c] EXCEPT !.queue = @ \o [i \in sent(c) |-> events[i]]] ELSE client[c]]
        /\ listening' = {c \in listening : Len(events) <= room(c)}

Web(t) == t.proc = "web"
Goto(t, there) == thread' = [thread EXCEPT ![t].at = there]
inert == <<disk, json, cache, views, settled, edits, failures>>

-----------------------------------------------------------------------------
(* Asking for a compilation *)

\* post_compile_skills and post_compile_skill read `running' and the files, all of them or one, and
\* spawn a thread; the terminal application does so once, when it starts, and does not look.
Ask(t) ==
    /\ thread[t].at = "none" /\ Present # {}
    /\ Web(t) => ~running[t.proc]
    /\ \E files \in IF t.kind = "single" THEN {{f} : f \in Present} ELSE {Present} :
          thread' = [thread EXCEPT ![t] = [IdleThread EXCEPT !.todo = files,
                        !.at = IF Web(t) /\ t.kind = "batch" THEN "mark" ELSE "spawned"]]
    /\ UNCHANGED <<inert, running, browsers>>

\* The server's batch says that it runs before its thread exists.
Mark(t) ==
    /\ thread[t].at = "mark"
    /\ running' = [running EXCEPT ![t.proc] = TRUE]
    /\ Goto(t, "spawned")
    /\ UNCHANGED <<inert, browsers>>

Spawned(t) ==
    /\ thread[t].at = "spawned"
    /\ Goto(t, "stat")
    /\ running' = [running EXCEPT ![t.proc] = @ \/ t.kind = "batch"]
    /\ IF Web(t) THEN Publish(<<"progress">>) ELSE UNCHANGED browsers
    /\ UNCHANGED inert

-----------------------------------------------------------------------------
(* compile_skill, always with force *)

Current(t) == CHOOSE f \in thread[t].todo : \A g \in thread[t].todo : f <= g

Stat(t) ==
    /\ thread[t].at = "stat" /\ thread[t].todo # {}
    /\ thread' = [thread EXCEPT ![t].at = "parse", ![t].key = Key(Current(t))]
    /\ UNCHANGED <<inert, running, browsers>>

\* A file that is gone or malformed makes a rejected bundle, which is cached and not saved; a YAML
\* error is none of the exceptions that are caught here.
Parse(t) ==
    /\ thread[t].at = "parse"
    /\ LET d == disk[Current(t)] IN
       \/ /\ thread' = [thread EXCEPT ![t].at = IF d.sound THEN "extract" ELSE "reject", ![t].text = d]
          /\ UNCHANGED failures
       \/ /\ ~d.sound /\ Goto(t, "raised") /\ UNCHANGED failures
    /\ UNCHANGED <<disk, json, cache, views, settled, edits, running, browsers>>

\* The stages: a call of the language model per cluster (SkillParse).
Extract(t) ==
    /\ thread[t].at = "extract"
    /\ \/ /\ \E status \in {"full", "rejected"} :
                thread' = [thread EXCEPT ![t].at = "store", ![t].out = [of |-> thread[t].text.text, status |-> status]]
          /\ UNCHANGED failures
       \/ Goto(t, "raised") /\ Failure
    /\ UNCHANGED <<disk, json, cache, views, settled, edits, running, browsers>>

\* Something else in the same process is between reading and writing the file's cache entry.
Meets(t, f) ==
    \/ \E u \in Threads \ {t} : /\ u.proc = t.proc /\ thread[u].at \in {"parse", "extract", "store", "reject"}
                                /\ Current(u) = f
    \/ view[t.proc].at \in {"load", "fill"} /\ view[t.proc].file = f

Store(t) ==
    LET f == Current(t)  p == t.proc IN
    /\ thread[t].at = "store"
    /\ Put(p, thread[t].key, thread[t].out)
    /\ settled' = [settled EXCEPT ![p][f] = /\ thread[t].key = Key(f) /\ thread[t].text = disk[f]
                                            /\ ~Meets(t, f)]
    /\ Goto(t, "write")
    /\ UNCHANGED <<disk, json, views, edits, failures, running, browsers>>

Reject(t) ==
    LET f == Current(t)  p == t.proc IN
    /\ thread[t].at = "reject"
    /\ Put(p, thread[t].key, [of |-> thread[t].text.text, status |-> "rejected"])
    /\ thread' = [thread EXCEPT ![t].at = "report", ![t].out = [of |-> 0, status |-> "rejected"]]
    /\ settled' = [settled EXCEPT ![p][f] = FALSE]
    /\ UNCHANGED <<disk, json, views, edits, failures, running, browsers>>

\* _write_bundle_json: an error, as of a directory that is gone, is only logged.
Write(t) ==
    LET f == Current(t) IN
    /\ thread[t].at = "write"
    /\ \/ json' = [json EXCEPT ![f] = IF disk[f].text = 0 THEN NoBundle ELSE thread[t].out] /\ UNCHANGED failures
       \/ Failure /\ UNCHANGED json
    /\ Goto(t, "report")
    /\ UNCHANGED <<disk, cache, views, settled, edits, running, browsers>>

\* The skill's event and the counts go out together here.
Report(t) ==
    /\ thread[t].at \in {"report", "raised"}
    /\ thread' = [thread EXCEPT ![t] = [IdleThread EXCEPT !.at = "stat", !.todo = thread[t].todo \ {Current(t)}]]
    /\ IF Web(t) THEN Publish(IF t.kind = "single" THEN <<"compiled">> ELSE <<"compiled", "progress">>)
       ELSE UNCHANGED browsers
    /\ UNCHANGED <<inert, running>>

\* The last skill is done: first the flag, then the event that ends the stream.
Finally(t) ==
    /\ thread[t].at = "stat" /\ thread[t].todo = {}
    /\ Goto(t, IF Web(t) THEN "announce" ELSE "over")
    /\ running' = [running EXCEPT ![t.proc] = @ /\ t.kind = "single"]
    /\ UNCHANGED <<inert, browsers>>

Announce(t) ==
    /\ thread[t].at = "announce"
    /\ Publish(<<"done">>) /\ Goto(t, "none")
    /\ UNCHANGED <<inert, running>>

-----------------------------------------------------------------------------
(* skill_view and bundle_for_skill *)

\* Mutant: the saved bundle is preferred to the cached one.
LookSaved(p, f) ==
    /\ p \in Viewers /\ view[p].at = "none" /\ disk[f].sound
    /\ view' = [view EXCEPT ![p] =
           IF json[f] # NoBundle THEN [at |-> "fill", file |-> f, key |-> Key(f), found |-> json[f]]
           ELSE IF Key(f) \in DOMAIN cache[p]
                THEN [at |-> "serve", file |-> f, key |-> Key(f), found |-> cache[p][Key(f)]]
                ELSE [at |-> "load", file |-> f, key |-> Key(f), found |-> NoBundle]]
    /\ UNCHANGED <<disk, json, cache, running, thread, shown, settled, browsers, edits, failures>>

\* A skill whose frontmatter cannot be read is not found; the cache is asked first.
Look(p, f) ==
    /\ p \in Viewers /\ view[p].at = "none" /\ disk[f].sound
    /\ IF Key(f) \in DOMAIN cache[p]
       THEN view' = [view EXCEPT ![p] = [at |-> "serve", file |-> f, key |-> Key(f), found |-> cache[p][Key(f)]]]
       ELSE view' = [view EXCEPT ![p] = [at |-> "load", file |-> f, key |-> Key(f), found |-> NoBundle]]
    /\ UNCHANGED <<disk, json, cache, running, thread, shown, settled, browsers, edits, failures>>

\* On a miss the saved bundle is taken, and put into the cache under the file's mtime of now.
Load(p) ==
    /\ view[p].at = "load"
    /\ view' = [view EXCEPT ![p].at = IF json[view[p].file] = NoBundle THEN "serve" ELSE "fill",
                            ![p].found = json[view[p].file]]
    /\ UNCHANGED <<disk, json, cache, running, thread, shown, settled, browsers, edits, failures>>

Fill(p) ==
    /\ view[p].at = "fill"
    /\ Put(p, view[p].key, view[p].found)
    /\ view' = [view EXCEPT ![p].at = "serve"]
    /\ UNCHANGED <<disk, json, running, thread, shown, settled, browsers, edits, failures>>

\* A rejected bundle and none at all give the raw markdown.
Serve(p) ==
    /\ view[p].at = "serve"
    /\ LET b == view[p].found IN
       shown' = [shown EXCEPT ![p] = [of |-> IF b.status \in {"none", "rejected"} THEN 0 ELSE b.of,
                                      when |-> view[p].key[1]]]
    /\ view' = [view EXCEPT ![p] = IdleView]
    /\ UNCHANGED <<disk, json, cache, running, thread, settled, browsers, edits, failures>>

-----------------------------------------------------------------------------
(* stream_compilation: a browser's stream *)

Connect(c) ==
    /\ client[c].at = "off"
    /\ client' = [client EXCEPT ![c] = [at |-> "subscribed", shows |-> "idle", queue |-> <<>>]]
    /\ listening' = listening \cup {c}
    /\ UNCHANGED <<inert, running, thread>>

\* The snapshot for a browser that comes late.
Snapshot(c) ==
    /\ client[c].at = "subscribed"
    /\ client' = [client EXCEPT ![c].at = "open", ![c].shows = IF running["web"] THEN "progress" ELSE @]
    /\ UNCHANGED <<inert, running, thread, listening>>

Receive(c) ==
    /\ client[c].at = "open" /\ client[c].queue # <<>>
    /\ client' = [client EXCEPT ![c].queue = Tail(@), ![c].shows = Head(client[c].queue)]
    /\ UNCHANGED <<inert, running, thread, listening>>

Disconnect(c) ==
    /\ client[c].at = "open"
    /\ client' = [client EXCEPT ![c] = [at |-> "off", shows |-> "idle", queue |-> <<>>]]
    /\ listening' = listening \ {c}
    /\ UNCHANGED <<inert, running, thread>>

-----------------------------------------------------------------------------
Compile(t) == Mark(t) \/ Spawned(t) \/ Stat(t) \/ Parse(t) \/ Extract(t) \/ Store(t) \/ Reject(t)
              \/ Write(t) \/ Report(t) \/ Finally(t) \/ Announce(t)
View(p) == Load(p) \/ Fill(p) \/ Serve(p)
Stream(c) == Snapshot(c) \/ Receive(c)

Next ==
    \/ \E f \in Files : Manage(f) \/ \E p \in Viewers : Look(p, f)
    \/ \E t \in Threads : Ask(t) \/ Compile(t)
    \/ \E p \in Viewers : View(p)
    \/ \E c \in Clients : Connect(c) \/ Stream(c) \/ Disconnect(c)

Spec == Init /\ [][Next]_vars

-----------------------------------------------------------------------------
(* Properties *)

\* A process that compiled a file, with no edit and nothing else at the file's entry meanwhile,
\* gives every later view the bundle of the file as it is, until the file is edited: no older bundle
\* that is saved beside the file, or that another process saves there later, comes back.
FreshUntilEdited ==
    \A p \in Procs, f \in Files : settled[p][f] =>
        Key(f) \in DOMAIN cache[p] /\ cache[p][Key(f)].of = disk[f].text

\* A browser that shows a compilation under way is told of its end, whenever it connected: once no
\* compilation of the server is under way and the browser has read what it was sent, it shows none,
\* unless it fell behind and was dropped.
EndIsShown ==
    \A c \in Clients :
        /\ client[c].at = "open" /\ c \in listening /\ client[c].queue = <<>>
        /\ \A t \in Threads : Web(t) => thread[t].at = "none"
        => client[c].shows \in {"idle", "done"}

\* What the compiler's documentation says: a skill is compiled when its file changes, as its mtime
\* shows, and until then a view gives the raw markdown. So no view gives a bundle of another text.
ViewIsCurrent == \A p \in Viewers : shown[p].of \in {0, shown[p].when}
=============================================================================
