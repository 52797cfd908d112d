------------------------------ MODULE AcdlFiles ------------------------------
(***************************************************************************)
(* Specification files by what their author means, the tokens they are     *)
(* written in, and what the docstring of assemble_system_prompt says the   *)
(* prompt is. A file is [frag, system, mark]: the items of its fragment F, *)
(* the items of the S: message, and the literal in an annotation. Every    *)
(* file has a fragment G of the one variable sys.b, and begins with the    *)
(* other constructs of the language.                                       *)
(***************************************************************************)
EXTENDS AcdlPrompt, TLC

\* Literals are written with quotes; the ones the parser may take for its own are the odd ones.
Literals == "'x'" :> "x" @@ "'}'" :> "}" @@ "'{'" :> "{" @@ "'.'" :> "." @@ "''" :> ""
Odd == {"'}'", "'{'", "'.'"}

Keywords == {"If", "ElseIf", "Else", "ForEach", "Switch", "Case", "Default", "Name", "Mark", "StrFrag", "RoleFrag",
             "Frag", "Namespace", "none"} \cup NamespaceKeywords
Symbols == {":", ".", ",", "(", ")", "{", "}", "[", "]", "@", "$", "!", "=", "<", ">", "-", "+"}

Token(word, line) ==
    [type |-> CASE word \in DOMAIN Literals -> "STRING"
                [] word \in Keywords -> "KEYWORD"
                [] word \in Symbols -> "SYMBOL"
                [] word = "//" -> "COMMENT"
                [] word = "1" -> "NUMBER"
                [] OTHER -> "IDENT",
     value |-> IF word \in DOMAIN Literals THEN Literals[word] ELSE word, line |-> line]
Tokens(lines) ==
    FlattenSeq([n \in DOMAIN lines |-> [k \in DOMAIN lines[n] |-> Token(lines[n][k], n)]])
        \o <<[type |-> "EOF", value |-> "", line |-> Len(lines)]>>

-----------------------------------------------------------------------------
Var(v) == <<"sys", ".", v>>
Preamble == <<
    <<"//">>, <<"Struct", "P", "{", "a", "{", "}", "}">>,
    <<"Namespace", "env", ":", "=", "{">>, <<"//">>, <<"u", ":", "string", "[", "]", "//">>,
    <<"r", ":", "(", "int", ",", "int", ")">>, <<"}">>,
    <<"RoleFrag", "Turn", "[", "@", "t", ",", "$", "n", ",", "k", "]", ":", "{">>,
    <<"Switch", "resp", ".", "kind", "[", "@", "t", "]", "{", "//">>,
    <<"Case", "call", ":", "{", "A", ":", "RECORD", "(", "call", ")", "}">>, <<"Default", "{", "Frag", "G", "}", "}">>,
    <<"If", "@", "t", ">", "1", "{", "U", ":", "env", ".", "u", ".", "v", "}">>,
    <<"ElseIf", "x", "=", "=", "none", "{", "U", ":", "{", "'x'", "line", "(", "1", "-", "$", "n", ")", "m", ".", "k", "}", "}">>,
    <<"}">>,
    <<"StrFrag", "G", ":", "{">>, <<"Name", "n", ":", "=", "1", "+", "1">>, Var("b"), <<"}">> >>

ItemOfFrag(item) ==
    CASE item \in {"a", "b"} -> Var(item)
      [] item = "call" -> <<"RECORD", "(", "env", ".", "u", ")">>
      [] OTHER -> <<item>>
ItemOfSystem(item) ==
    CASE item \in {"F", "G"} -> <<"Frag", item>>
      [] item = "if" -> <<"If">> \o Var("a") \o <<"!", "=", "none", "{", "Frag", "F", "}",
                                                  "ElseIf">> \o Var("b") \o <<"=", "=", "none", "{", "'x'", "}",
                                                  "Else", "{", "Frag", "G", "}">>
      [] item = "loop" -> <<"ForEach", "(", "@", "t", ":">> \o Var("a") \o <<")", "{", "Frag", "F", "}">>
      [] item = "var" -> Var("a")
      [] OTHER -> <<item>>

TokensOf(file) ==
    Tokens(Preamble \o <<<<"StrFrag", "F", ":", "{">>>> \o [k \in DOMAIN file.frag |-> ItemOfFrag(file.frag[k])]
           \o << <<"}">>, <<"Loop", "[", "@", "T", "]", ":", "{">>, <<"Mark", "m", "{", file.mark, "}">>, <<"S", ":", "{">> >>
           \o [k \in DOMAIN file.system |-> ItemOfSystem(file.system[k])]
           \o << <<"}">>, <<"U", ":">> \o Var("a"), <<"}">> >>)

-----------------------------------------------------------------------------
\* A fragment is included iff it references a bound variable and all that it references are bound,
\* the one in RECORD(env.u) too, which never is.
MeantFrag(items, bindings) ==
    LET vars == {<<"sys", v>> : v \in ToSet(items) \cap {"a", "b"}}
                \cup {<<"env", "u">> : i \in ToSet(items) \cap {"call"}}
        piece(item) == IF item \in {"a", "b"} THEN Variable(<<"sys", item>>) ELSE Literal(Literals[item])
        shown == SelectSeq(items, LAMBDA i : i # "//")
    IN  IF vars = {} \/ ~(vars \subseteq DOMAIN bindings) THEN <<>>
        ELSE <<[k \in DOMAIN shown |-> piece(shown[k])]>>

Meant(file, bindings) ==
    LET has(v) == <<"sys", v>> \in DOMAIN bindings /\ bindings[<<"sys", v>>] # ""
        F == MeantFrag(file.frag, bindings)
        G == MeantFrag(<<"b">>, bindings)
        blocks(item) ==
            CASE item = "F" -> F
              [] item = "G" -> G
              [] item = "if" -> IF has("a") THEN F ELSE IF ~has("b") THEN <<<<Literal("x")>>>> ELSE G
              [] item \in {"loop", "var", "//"} -> <<>>
              [] OTHER -> <<<<Literal(Literals[item])>>>>
        empty(block) == /\ Len(block) = 1
                        /\ \/ block[1] = Literal("")
                           \/ block[1].is = "variable" /\ bindings[block[1].of] = ""
    IN  SelectSeq(FlattenSeq([k \in DOMAIN file.system |-> blocks(file.system[k])]), LAMBDA b : ~empty(b))

Bindings == LET keys == {<<"sys", "a">>, <<"sys", "b">>} IN UNION {[K -> {"", "text"}] : K \in SUBSET keys}
HasOdd(file) == (ToSet(file.frag) \cup ToSet(file.system) \cup {file.mark}) \cap Odd # {}

\* _render_frag looks for variables among the items of a fragment, not inside them.
Direct(file) == "call" \notin ToSet(file.frag)

\* The prompt is what the file means or the file is refused, whatever is bound: no fragment of other
\* parts of the program shows, none that is wanted is lost, and none is cut short by a literal that
\* reads like punctuation; and only a file with such a literal is refused. This is claimed for a fragment
\* whose references are all items of its own: one that is inside a RECORD goes unnoticed, and inside an
\* If, too, of which the executor renders the first body whatever the condition.
PromptIsMeant(file) ==
    LET t == TokensOf(file)
        tree == ParseFile(t)
        blocks == BlocksOf(tree)
        systems == Systems(t, blocks, "Loop")
    IN  IF tree.to = 0 THEN HasOdd(file)
        ELSE /\ systems = {} => HasOdd(file)
             /\ Direct(file) => \A words \in systems, bindings \in Bindings :
                    Assemble(t, words, blocks, bindings) = Meant(file, bindings)
=============================================================================
