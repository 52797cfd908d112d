---------------------------- MODULE MCFrontEnds ----------------------------
(***************************************************************************)
(* One run for what the front ends do beside each other (FrontEnds): two   *)
(* turns of chat with everything that may happen to them, and two          *)
(* sequences of three inputs with commands; the keys, the text and the     *)
(* skills of the application and the dashboard; what the compiler makes of *)
(* every body of up to MaxLines lines and of every list of answers         *)
(* (SkillParse); and the system prompts of specification files (AcdlFiles, *)
(* a file is in `body'). `subject' says which one a behaviour is about;    *)
(* the variables of the others are idle.                                   *)
(***************************************************************************)
EXTENDS FrontEnds

CONSTANTS MaxLines, MaxClusters

VARIABLES body, answers, skill, near

input == <<body, answers, skill, near>>
bundles == <<disk, json, cache, compiling, thread, view, shown, settled, client, listening, edits, failures>>
keys == <<initial, enabled, pane, mode, awaited, counting, selection, messages, focus, visible, help, begun>>
line == <<modal, text, past, index, draft, before, queue, working, menu, choosing, picking, override, served,
          header, up>>
all == <<subject, vars, input, bundles, keys, line>>

-----------------------------------------------------------------------------
(* Chat *)
MCTurns == 1..3
MCModels == <<"m1", "m2">>
MCScripts == {<<"chat", "chat">>, <<"spawn", "goal", "chat">>, <<"copy", "feed", "slice">>}
MCWritten == {"delegated"}
MCOutcomes == {"long", "tools", "caught", "raised"}

-----------------------------------------------------------------------------
(* Skills *)
Parse == INSTANCE SkillParse

Compiling(p, k) == [proc |-> p, kind |-> k]

\* The terminal application compiles and views while the dashboard compiles the same file; a browser
\* follows the two kinds of compilation of the dashboard.
MCViewThreads == {Compiling("tui", "batch"), Compiling("web", "single")}
MCFollowThreads == {Compiling("web", "batch"), Compiling("web", "single")}

Bodies == UNION {[1..n -> Parse!LineKinds] : n \in 0..MaxLines}
Contract(name, inputs, template) == [name |-> name, inputs |-> inputs, template |-> template]
Contracts == {Contract(n, i, t) : n \in {"a", "b"}, i \in {{}, {"p"}}, t \in {"found", "missing", "none"}}
Answers == UNION {[1..n -> {<<>>} \cup {<<c>> : c \in Contracts}] : n \in 0..MaxClusters}
Skills == [knowledge : BOOLEAN, params : {{}, {"p"}}, unbalanced : BOOLEAN, inWords : {{}, {"a"}}]
Pairs == {p \in SUBSET (1..4) : Cardinality(p) = 2}

-----------------------------------------------------------------------------
(* Specification files: all short fragments, and all short messages with two fragments. *)
Acdl == INSTANCE AcdlFiles

Upto(n, items) == UNION {[1..k -> items] : k \in 0..n}
SpecFiles ==
    [frag : Upto(2, {"a", "b", "'x'", "'}'", "'.'", "call"}), system : {<<"if">>}, mark : {"''"}]
    \cup [frag : {<<"a", "b", "'x'">>, <<"''", "a">>}, mark : {"''", "'{'", "'}'"},
          system : Upto(2, {"F", "G", "if", "loop", "''", "var", "//", "'}'"})]

-----------------------------------------------------------------------------
NoInput == body = 0 /\ answers = 0 /\ skill = 0 /\ near = 0
NoBundles == /\ disk = 0 /\ json = 0 /\ cache = 0 /\ compiling = 0 /\ thread = 0 /\ view = 0 /\ shown = 0
             /\ settled = 0 /\ client = 0 /\ listening = 0 /\ edits = 0 /\ failures = 0

NoKeys == /\ initial = 0 /\ enabled = 0 /\ pane = 0 /\ mode = 0 /\ awaited = 0 /\ counting = 0 /\ selection = 0
          /\ messages = 0 /\ focus = 0 /\ visible = 0 /\ help = 0 /\ begun = 0
NoLine == /\ modal = 0 /\ text = 0 /\ past = 0 /\ index = 0 /\ draft = 0 /\ before = 0 /\ queue = 0
          /\ working = 0 /\ menu = 0 /\ choosing = 0 /\ picking = 0 /\ override = 0 /\ served = 0
          /\ header = 0 /\ up = 0

ASSUME Tui!HistoryAssumption /\ Views!BundlesAssumption /\ Follows!BundlesAssumption

\* The chat is at its start, and stays there, when a behaviour is about something else.
Idle == Init /\ kind = <<"chat", "chat">>

MCInit ==
    \/ subject = "chat" /\ Init /\ NoInput /\ NoBundles /\ NoKeys /\ NoLine
    \/ subject = "vim" /\ Vim!Init /\ Idle /\ NoInput /\ NoBundles /\ NoLine
    \/ subject = "tui" /\ Tui!Init /\ Idle /\ NoInput /\ NoBundles /\ NoKeys
    \/ /\ Idle /\ NoKeys /\ NoLine
       /\ \/ subject = "body" /\ body \in Bodies /\ answers = 0 /\ skill = 0 /\ near = 0 /\ NoBundles
          \/ subject = "acdl" /\ body \in SpecFiles /\ answers = 0 /\ skill = 0 /\ near = 0 /\ NoBundles
          \/ subject = "near" /\ near \in SUBSET Pairs /\ body = 0 /\ answers = 0 /\ skill = 0 /\ NoBundles
          \/ /\ subject = "answers" /\ answers \in Answers /\ skill \in Skills
             /\ body = 0 /\ near = 0 /\ NoBundles
          \/ subject = "views" /\ NoInput /\ Views!Init
          \/ subject = "follows" /\ NoInput /\ Follows!Init

MCNext == \/ subject = "chat" /\ Next /\ UNCHANGED <<subject, input, bundles, keys, line>>
          \/ subject = "vim" /\ Vim!Next /\ UNCHANGED <<subject, vars, input, bundles, line>>
          \/ subject = "tui" /\ Tui!Next /\ UNCHANGED <<subject, vars, input, bundles, keys>>
          \/ subject = "views" /\ Views!Next /\ UNCHANGED <<subject, vars, input, keys, line>>
          \/ subject = "follows" /\ Follows!Next /\ UNCHANGED <<subject, vars, input, keys, line>>

MCSpec == MCInit /\ [][MCNext]_all

-----------------------------------------------------------------------------
\* SkillParse and AcdlPrompt: no instruction is lost on the way to the language model, what a bundle
\* offers of its answers has been verified, and the system prompt is what its specification means.
TextsAreWhole ==
    /\ subject = "body" => Parse!UnitsKeepInstructions(body)
    /\ subject = "near" => \A n \in 0..4 : Parse!ClustersPartition(n, near)
    /\ subject = "answers" => Parse!BundleIsVerified(answers, skill)
    /\ subject = "acdl" => Acdl!PromptIsMeant(body)

\* SkillBundles, the documentation: a view gives no bundle of another text.
ViewIsCurrent == subject = "views" => Views!ViewIsCurrent
=============================================================================
