------------------------------ MODULE AcdlPrompt ------------------------------
(***************************************************************************)
(* How the system prompt comes from a specification file: the parser of    *)
(* core/acdl/parser.py over the tokens of the file, and core/acdl/executor *)
(* over its tree and the values app_factory.py binds to variables.         *)
(*                                                                         *)
(* A token is [type, value, line]. The grammar is a table: Rule gives, by  *)
(* the next two tokens, what a rule expects. As in the parser, most tests  *)
(* look at a token's value alone, so that a literal "}" passes for a brace *)
(* until it is consumed as one.                                            *)
(*                                                                         *)
(* Abstracted: the characters of tokens and the wording of errors; the     *)
(* identifiers that are all capitals are those in Templates.               *)
(* Fragments that invoke themselves inside an If are left out: the code    *)
(* recurses until Python refuses.                                          *)
(***************************************************************************)
EXTENDS Naturals, Sequences, FiniteSets, SequencesExt

Types == {"COMMENT", "STRING", "IDENT", "KEYWORD", "SYMBOL", "NUMBER"}
NamespaceKeywords == {"env", "sys", "resp", "prompt"}
RoleIds == {"S", "U", "A", "T"}
Annotations == {"Struct", "Event", "Pipeline", "Flow", "Fact"}
Templates == {"RECORD"} \cup RoleIds

\* What a rule expects: one token of some type and value, or another rule.
One(types, value) == [is |-> "token", types |-> types, value |-> value]
Some(type) == One({type}, "")
S(value) == One({"SYMBOL"}, value)
Name == One({"IDENT", "KEYWORD"}, "")
In(rule, kind) == [is |-> "rule", rule |-> rule, kind |-> kind]
R(rule) == In(rule, "")
Braces(rule, kind) == <<S("{"), In(rule, kind), S("}")>>
Nothing == <<>>
Error == <<One({}, "")>>
If(condition, then) == IF condition THEN then ELSE Nothing

-----------------------------------------------------------------------------
(* The file and its blocks *)

Definition(kind) == <<Some("IDENT"), R("Params"), S(":")>> \o Braces("Body", kind)

Block(tok) ==
    CASE tok.type = "COMMENT" -> <<Some("COMMENT")>>
      [] tok.type = "KEYWORD" /\ tok.value \in {"StrFrag", "RoleFrag"} ->
            <<Some("KEYWORD")>> \o Definition(tok.value)
      [] tok.type = "KEYWORD" /\ tok.value = "Namespace" -> <<R("Namespace")>>
      [] \/ tok.type = "KEYWORD" /\ tok.value = "Mark"
         \/ tok.type = "IDENT" /\ tok.value \in Annotations -> <<R("Skipped")>>
      [] tok.type = "IDENT" /\ tok.value \notin Annotations ->
            <<Some("IDENT"), R("Indices"), S(":")>> \o Braces("Body", "Prompt")
      [] OTHER -> Error

\* The items of a StrFrag, a RoleFrag, a prompt, and a message of a role.
Item(kind, tok) ==
    CASE tok.type = "COMMENT" -> <<Some("COMMENT")>>
      [] tok.type = "STRING" /\ kind # "RoleFrag" -> <<Some("STRING")>>
      [] tok.type = "IDENT" /\ kind \in {"StrFrag", "Role"} -> <<R("Call")>>
      [] tok.type = "IDENT" /\ kind \notin {"StrFrag", "Role"} /\ tok.value \in RoleIds -> <<R("Message")>>
      [] tok.type = "KEYWORD" /\ tok.value \in NamespaceKeywords /\ kind \in {"StrFrag", "Role"} -> <<R("Var")>>
      [] tok.type = "KEYWORD" /\ tok.value \in {"If", "ForEach", "Frag", "Name"} -> <<In(tok.value, kind)>>
      [] tok.type = "KEYWORD" /\ tok.value = "Switch" /\ kind # "StrFrag" -> <<In("Switch", kind)>>
      [] tok.type = "KEYWORD" /\ tok.value = "Namespace" /\ kind = "Prompt" -> <<R("Namespace")>>
      [] tok.type = "KEYWORD" /\ tok.value = "Mark" /\ kind = "Prompt" -> <<R("Skipped")>>
      [] OTHER -> Error

AtEnd(tok, close) == tok.type = "EOF" \/ tok.value = close

\* A comment may stand before a binding and after its type.
Binding(tok) ==
    If(tok.type = "COMMENT", <<Some("COMMENT")>>) \o <<Name, S(":"), R("Type"), R("Trailing"), R("Bindings")>>

Type(tok) ==
    CASE tok.value = "(" -> <<S("("), R("Types"), S(")")>>
      [] tok.value # "(" /\ tok.type = "IDENT" -> <<Some("IDENT"), R("Array")>>
      [] OTHER -> Error

\* More than one token is one message only in braces; without them it has no literals.
Words(tok) ==
    CASE tok.value = "{" -> Braces("Body", "Role")
      [] tok.type = "KEYWORD" /\ tok.value \in NamespaceKeywords -> <<R("Var")>>
      [] tok.type = "IDENT" -> <<R("Call")>>
      [] OTHER -> Error

Cases(kind, tok) ==
    CASE AtEnd(tok, "}") -> Nothing
      [] tok.type = "COMMENT" -> <<Some("COMMENT"), In("Cases", kind)>>
      [] tok.type = "KEYWORD" /\ tok.value = "Case" ->
            <<Some("KEYWORD"), R("Condition"), S(":")>> \o Braces("Body", kind) \o <<In("Cases", kind)>>
      [] tok.type = "KEYWORD" /\ tok.value = "Default" ->
            <<Some("KEYWORD")>> \o Braces("Body", kind) \o <<In("Cases", kind)>>
      [] OTHER -> Error

Else(kind, tok) ==
    CASE tok.type = "KEYWORD" /\ tok.value = "ElseIf" ->
            <<Some("KEYWORD"), R("Condition")>> \o Braces("Body", kind) \o <<In("Else", kind)>>
      [] tok.type = "KEYWORD" /\ tok.value = "Else" -> <<Some("KEYWORD")>> \o Braces("Body", kind)
      [] OTHER -> Nothing

-----------------------------------------------------------------------------
(* Expressions *)

Call(tok) == <<Some("IDENT"), R(IF tok.value \in Templates THEN "Template" ELSE "Rest")>>

Param(tok) ==
    CASE tok.type = "SYMBOL" /\ tok.value \in {"$", "@"} -> <<Some("SYMBOL"), Some("IDENT"), R("MoreParams")>>
      [] tok.type = "IDENT" -> <<Some("IDENT"), R("MoreParams")>>
      [] OTHER -> Nothing

Atom(tok, nxt) ==
    CASE tok.type = "SYMBOL" /\ tok.value = "@" -> <<S("@"), R("Atom")>>
      [] tok.type \in {"STRING", "NUMBER"} -> <<Some(tok.type)>>
      [] tok.type = "KEYWORD" /\ tok.value \in NamespaceKeywords -> <<R("Var")>>
      [] tok.type = "KEYWORD" /\ tok.value = "none" -> <<Some("KEYWORD")>>
      [] tok.type = "IDENT" ->
            IF tok.value \in Templates \/ nxt.value \in {"(", ".", "["} THEN <<R("Call")>> ELSE <<Some("IDENT")>>
      [] tok.type = "SYMBOL" /\ tok.value = "$" -> <<S("$"), Some("IDENT"), R("Indices")>>
      [] OTHER -> Error

\* Operators are taken by their values, of whatever type.
Arithmetic(tok) == If(tok.value \in {"+", "-", "*", "/", "%"}, <<One(Types, ""), R("Expr")>>)
Compare(tok, nxt) ==
    CASE tok.value \in {"!", "=", ">", "<"} /\ nxt.value = "=" -> <<One(Types, ""), One(Types, ""), R("Expr")>>
      [] tok.value \in {">", "<"} /\ nxt.value # "=" -> <<One(Types, ""), R("Expr")>>
      [] OTHER -> Nothing

-----------------------------------------------------------------------------
Rule(sym, tok, nxt) ==
    LET kind == sym.kind  is(value) == tok.value = value IN
    CASE sym.rule = "File" -> If(tok.type # "EOF", <<R("Block"), R("File")>>)
      [] sym.rule = "Block" -> Block(tok)
      [] sym.rule = "Body" -> If(~AtEnd(tok, "}"), <<In("Item", kind), In("Body", kind)>>)
      [] sym.rule = "Item" -> Item(kind, tok)
      [] sym.rule = "Namespace" -> <<Some("KEYWORD"), Name, S(":"), S("=")>> \o Braces("Bindings", "")
      [] sym.rule = "Bindings" -> If(~AtEnd(tok, "}"), Binding(tok))
      [] sym.rule = "Trailing" -> If(tok.type = "COMMENT", <<Some("COMMENT")>>)
      [] sym.rule = "Type" -> Type(tok)
      [] sym.rule = "Types" -> If(~AtEnd(tok, ")"), <<Some("IDENT"), R("Comma"), R("Types")>>)
      [] sym.rule = "Comma" -> If(is(","), <<S(",")>>)
      [] sym.rule = "Array" -> If(is("["), <<S("["), S("]")>>)
      [] sym.rule = "Message" -> <<Some("IDENT"), S(":"), R("Words")>>
      [] sym.rule = "Words" -> Words(tok)
      [] sym.rule = "If" -> <<Some("KEYWORD"), R("Condition")>> \o Braces("Body", kind) \o <<In("Else", kind)>>
      [] sym.rule = "Else" -> Else(kind, tok)
      [] sym.rule = "ForEach" ->
            <<Some("KEYWORD"), S("("), R("LoopVar"), S(":"), R("Condition"), S(")")>> \o Braces("Body", kind)
      [] sym.rule = "LoopVar" -> If(is("@"), <<S("@")>>) \o <<Some("IDENT")>>
      [] sym.rule = "Switch" -> <<Some("KEYWORD"), R("Condition")>> \o Braces("Cases", kind)
      [] sym.rule = "Cases" -> Cases(kind, tok)
      [] sym.rule = "Frag" -> <<Some("KEYWORD"), Some("IDENT"), R("Indices")>>
      [] sym.rule = "Name" -> <<Some("KEYWORD"), Some("IDENT"), S(":"), S("="), R("Line")>>
      [] sym.rule = "Var" -> <<Some("KEYWORD"), S("."), Some("IDENT"), R("Path"), R("Indices")>>
      [] sym.rule = "Path" -> If(is("."), <<S("."), Some("IDENT"), R("Path")>>)
      [] sym.rule = "Call" -> Call(tok)
      [] sym.rule = "Template" -> If(is("("), <<S("("), R("Arguments"), S(")")>>)
      [] sym.rule = "Rest" -> IF is("(") THEN <<S("("), R("Arguments"), S(")"), R("Indices")>>
                              ELSE <<R("Dots"), R("Indices")>>
      [] sym.rule = "Dots" -> If(is("."), <<S("."), Name, R("Dots")>>)
      [] sym.rule = "Arguments" -> If(tok.value \notin {")", "]"}, <<R("Expr"), R("More")>>)
      [] sym.rule = "More" -> If(tok.type = "SYMBOL" /\ is(","), <<S(","), R("Expr"), R("More")>>)
      [] sym.rule = "Indices" -> If(is("["), <<S("["), R("Index"), S("]"), R("Indices")>>)
      [] sym.rule = "Index" -> If(~is("]"), <<R("Expr"), R("More")>>)
      [] sym.rule = "Params" -> If(is("["), <<S("["), R("Param"), S("]")>>)
      [] sym.rule = "Param" -> Param(tok)
      [] sym.rule = "MoreParams" -> If(tok.type = "SYMBOL" /\ is(","), <<S(","), R("Param")>>)
      [] sym.rule = "Atom" -> Atom(tok, nxt)
      [] sym.rule = "Expr" -> <<R("Atom"), R("Arithmetic")>>
      [] sym.rule = "Arithmetic" -> Arithmetic(tok)
      [] sym.rule = "Condition" -> <<R("Expr"), R("Compare")>>
      [] sym.rule = "Compare" -> Compare(tok, nxt)

-----------------------------------------------------------------------------
(* The parser: a tree of nodes [rule, from, to, kids]; `to' is 0 after an error. *)

First(positions) == CHOOSE p \in positions : \A q \in positions : p <= q

\* _skip_block: to the first brace, and past the one that closes it, counting values.
Skip(t, p) ==
    LET end == Len(t)
        open == First({q \in p..end : q = end \/ t[q].value = "{"})
        count(value, q) == Cardinality({k \in open..q : t[k].value = value})
        closed == {q \in open..end : t[q].value = "}" /\ count("{", q) = count("}", q)}
    IN  IF closed = {} THEN end ELSE First(closed) + 1

\* _collect_until_semicolon_or_newline
RestOfLine(t, p) ==
    First({q \in p..Len(t) : t[q].type = "EOF" \/ t[q].line # t[p].line \/ t[q].value = ";"})

RECURSIVE Parse(_, _, _)
Parse(t, sym, p) ==
    LET node(to, kids) == [rule |-> IF sym.is = "rule" THEN sym.rule ELSE t[p].type, from |-> p, to |-> to, kids |-> kids]
        \* One after the other, until one fails.
        step(seen, s) ==
            IF seen.to = 0 THEN seen
            ELSE LET kid == Parse(t, s, seen.to) IN [to |-> kid.to, kids |-> Append(seen.kids, kid)]
        nxt == t[IF p < Len(t) THEN p + 1 ELSE p]
    IN  CASE sym.is = "token" ->
                node(IF t[p].type \in sym.types /\ sym.value \in {"", t[p].value} THEN p + 1 ELSE 0, <<>>)
          [] sym.is = "rule" /\ sym.rule = "Skipped" -> node(Skip(t, p), <<>>)
          [] sym.is = "rule" /\ sym.rule = "Line" -> node(RestOfLine(t, p), <<>>)
          [] OTHER -> LET done == FoldLeft(step, [to |-> p, kids |-> <<>>], Rule(sym, t[p], nxt))
                      IN  node(done.to, done.kids)

ParseFile(t) == Parse(t, R("File"), 1)
Accepted(t) == ParseFile(t).to # 0

-----------------------------------------------------------------------------
(* The executor. A prompt is a sequence of blocks, each a sequence of [literal] and [variable]; *)
(* bindings give the variables that are bound their text, which may be empty.                  *)

RECURSIVE ListOf(_)
ListOf(body) == IF body.kids = <<>> THEN <<>> ELSE <<body.kids[1].kids[1]>> \o ListOf(body.kids[2])

RECURSIVE BlocksOf(_)
BlocksOf(file) == IF file.kids = <<>> THEN <<>> ELSE <<file.kids[1]>> \o BlocksOf(file.kids[2])

Kid(node, rule) == node.kids[CHOOSE k \in DOMAIN node.kids : node.kids[k].rule = rule]

Literal(v) == [is |-> "literal", of |-> <<v>>]
Variable(key) == [is |-> "variable", of |-> key]

\* ContextVar: a variable of a namespace, or a dotted name; _var_key leaves the indices out.
IsVar(node) == \/ node.rule = "Var"
               \/ node.rule = "Call" /\ node.kids[2].rule = "Rest" /\ node.kids[2].kids[1].rule = "Dots"
                  /\ node.kids[2].kids[1].kids # <<>>
Key(t, node) ==
    LET indices == IF node.rule = "Var" THEN node.kids[5] ELSE node.kids[2].kids[2]
    IN  SelectSeq([i \in 1..(indices.from - node.from) |-> t[node.from + i - 1].value], LAMBDA v : v # ".")

\* _cond_true: `variable != none' asks for the variable, any other comparison with none for its absence;
\* every other condition holds.
CondTrue(t, condition, bindings) ==
    LET compare == condition.kids[2].kids
        plain(expr) == expr.kids[2].kids = <<>>
        left == condition.kids[1].kids[1].kids[1]
        right == compare[Len(compare)]
        key == IF plain(condition.kids[1]) /\ IsVar(left) THEN Key(t, left) ELSE <<>>
        present == key \in DOMAIN bindings /\ bindings[key] # ""
        none == /\ plain(right) /\ right.kids[1].kids[1].rule \in {"KEYWORD", "IDENT"}
                /\ t[right.from].value = "none"
    IN  IF compare # <<>> /\ none THEN present = (Len(compare) = 3 /\ t[compare[1].from].value = "!") ELSE TRUE

RECURSIVE RenderItems(_, _, _, _)
RECURSIVE RenderElse(_, _, _, _)

\* _render_frag: nothing, or one block; the condition of an If in a fragment is not asked for.
RenderFrag(t, file, name, bindings) ==
    LET named == {k \in DOMAIN file : file[k].rule = "Block" /\ file[k].kids[1].rule = "KEYWORD"
                                      /\ Len(file[k].kids) = 7 /\ t[file[k].kids[2].from].value = name}
        items == ListOf(file[First(named)].kids[6])
        vars == {k \in DOMAIN items : IsVar(items[k])}
        line(item) ==
            CASE item.rule = "STRING" -> <<Literal(t[item.from].value)>>
              [] IsVar(item) -> <<Variable(Key(t, item))>>
              [] item.rule = "If" -> FlattenSeq(RenderItems(t, file, ListOf(item.kids[4]), bindings))
              [] OTHER -> <<>>
    IN  IF named = {} \/ vars = {} \/ \E k \in vars : Key(t, items[k]) \notin DOMAIN bindings THEN <<>>
        ELSE <<FlattenSeq([k \in DOMAIN items |-> line(items[k])])>>

\* _render_conditional
RenderIf(t, file, node, bindings) ==
    IF CondTrue(t, node.kids[2], bindings) THEN RenderItems(t, file, ListOf(node.kids[4]), bindings)
    ELSE RenderElse(t, file, Kid(node, "Else"), bindings)

RenderElse(t, file, node, bindings) ==
    CASE node.kids = <<>> -> <<>>
      [] Len(node.kids) = 4 -> RenderItems(t, file, ListOf(node.kids[3]), bindings)
      [] Len(node.kids) = 6 ->
            IF CondTrue(t, node.kids[2], bindings) THEN RenderItems(t, file, ListOf(node.kids[4]), bindings)
            ELSE RenderElse(t, file, node.kids[6], bindings)

RenderItems(t, file, items, bindings) ==
    LET blocks(item) ==
            CASE item.rule = "Frag" -> RenderFrag(t, file, t[item.kids[2].from].value, bindings)
              [] item.rule = "If" -> RenderIf(t, file, item, bindings)
              [] item.rule = "STRING" -> <<<<Literal(t[item.from].value)>>>>
              [] OTHER -> <<>>
    IN  FlattenSeq([k \in DOMAIN items |-> blocks(items[k])])

\* The S: message of the prompt of that name; a file without one is refused.
Systems(t, file, prompt) ==
    LET prompts == {k \in DOMAIN file : file[k].kids[1].rule = "IDENT" /\ t[file[k].from].value = prompt}
        items == ListOf(file[First(prompts)].kids[5])
        messages == {k \in DOMAIN items : items[k].rule = "Message" /\ t[items[k].from].value = "S"}
    IN  IF prompts = {} \/ messages = {} THEN {} ELSE {items[First(messages)].kids[3]}

\* assemble_system_prompt: the blocks that have text.
Assemble(t, words, file, bindings) ==
    LET items == IF words.kids[1].rule = "SYMBOL" THEN ListOf(words.kids[2]) ELSE <<>>
        text(piece) == IF piece.is = "literal" THEN piece.of[1] ELSE bindings[piece.of]
    IN  SelectSeq(RenderItems(t, file, items, bindings),
                  LAMBDA block : Len(block) > 1 \/ (Len(block) = 1 /\ text(block[1]) # ""))
=============================================================================
