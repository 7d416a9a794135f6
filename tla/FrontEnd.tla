------------------------------ MODULE FrontEnd ------------------------------
(***************************************************************************)
(* A source file between an editor and `arche fmt --write`: the author      *)
(* opens one of the given programs, drops, inserts or swaps tokens at any   *)
(* place and saves it; fmt reads the file, writes it back formatted unless  *)
(* it has a parse error, and reads it again.  parsed is what parse_source   *)
(* returned for the text last read, original what it returned before the    *)
(* formatted text was written.                                              *)
(***************************************************************************)
EXTENDS Formatter, SequencesExt

CONSTANTS
    Sources,        \* the programs an author starts from
    Words,          \* the tokens an author inserts
    MaxEdits,       \* how many edits the author makes
    Scan(_),        \* the scanner: lexer_tokenize of module Lexer
    Parse(_),       \* the parser: parse_source of module Parser
    Format(_)       \* the formatter: format_syntax of module Formatter

VARIABLES text, parsed, original, edits, stage
vars == <<text, parsed, original, edits, stage>>

NotParsed == [root |-> Node("SOURCE_FILE", <<>>), errs |-> 0, skipped |-> FALSE, rest |-> FALSE]

Init == /\ text = ""
        /\ parsed = NotParsed
        /\ original = NotParsed
        /\ edits = 0
        /\ stage = "new"

OpenFile == /\ stage = "new"
            /\ text' \in Sources
            /\ stage' = "saved"
            /\ UNCHANGED <<parsed, original, edits>>

(* The tokens of the text, and the text before and after one of them. *)
Spans == SelectSeq(Scan(text), LAMBDA t : t.k # "eof")
Before(t) == SubSeq(text, 1, t.at - 1)
After(t) == SubSeq(text, t.at + Len(t.text), Len(text))
Edit(t) == /\ stage = "saved"
           /\ edits < MaxEdits
           /\ text' = t
           /\ edits' = edits + 1
           /\ UNCHANGED <<parsed, original, stage>>

DropToken == \E t \in Range(Spans) : Edit(Before(t) \o After(t))
InsertToken ==
    \E t \in Range(Spans), w \in Words : Edit(Before(t) \o " " \o w \o " " \o t.text \o After(t))
SwapTokens ==
    LET ts == Spans
    IN  \E i \in 1..(Len(ts) - 1) :
            Edit(Before(ts[i]) \o ts[i+1].text \o " " \o ts[i].text \o After(ts[i+1]))

ReadFile == /\ stage \in {"saved", "formatted"}
            /\ parsed' = Parse(text)
            /\ stage' = IF stage = "saved" THEN "read" ELSE "settled"
            /\ UNCHANGED <<text, original, edits>>

(* format_to_buffer and fmt_run with --write: a file with a parse error is  *)
(* reported and left alone.                                                 *)
FormatFile ==
    /\ stage = "read"
    /\ text' = IF parsed.errs > 0 THEN text ELSE Format(parsed.root)
    /\ original' = parsed
    /\ stage' = "formatted"
    /\ UNCHANGED <<parsed, edits>>

Next == OpenFile \/ DropToken \/ InsertToken \/ SwapTokens \/ ReadFile \/ FormatFile
Spec == Init /\ [][Next]_vars
-----------------------------------------------------------------------------
Read == stage \in {"read", "settled"}
Leaves == collect(parsed.root)
Solid(ls) == SelectSeq(ls, LAMBDA l : l.k # "comment")
Comments(ls) == LET cs == SelectSeq(ls, LAMBDA l : l.k = "comment")
                IN  [i \in 1..Len(cs) |-> cs[i].text]

(* The leaves of the tree are the tokens of the text in their order, with   *)
(* none left out, doubled or moved by any recovery, except the ones the     *)
(* scanner refused; and they are all of them, unless the parser gave up at  *)
(* one of its limits (comments in a row, tokens skipped by one recovery,    *)
(* declarations), where the tree ends.                                      *)
TreeIsLossless ==
    LET kept == SelectSeq(Scan(text), LAMBDA t : t.k \notin {"eof", "error"})
        leaves == Leaves
    IN  Read => /\ Len(leaves) <= Len(kept) /\ (~parsed.rest => Len(leaves) = Len(kept))
                /\ \A i \in 1..Len(leaves) : kept[i].text = leaves[i].text

(* A semicolon with no statement before it. *)
EmptyStatement ==
    LET s == Solid(Leaves)
    IN  \E i \in 2..Len(s) : s[i].k = ";" /\ s[i-1].k \in {";", "{", "}", ":"}
(* More comments in a row, or more declarations, than the parser reads. *)
TooLong ==
    LET ts == Scan(text)
    IN  \/ \E i \in 1..(Len(ts) - MaxComments) : \A j \in i..(i + MaxComments) : ts[j].k = "comment"
        \/ NodesSince([items |-> parsed.root.ch], 0) >= MaxDecls
(* Recovery passes over no code without a reported error: nested panic and  *)
(* branches whose failure the caller does not look at leave an error        *)
(* behind, unless it was what follows an empty statement.  And a text whose *)
(* rest the parser does not read is reported, unless that rest follows too  *)
(* many comments in a row or too many declarations, where the code only     *)
(* sets had_error, which nobody reads.                                      *)
NothingSkippedSilently ==
    Read /\ parsed.errs = 0 => (parsed.skipped => EmptyStatement) /\ (parsed.rest => TooLong)

RECURSIVE Nests(_)
Operator(n) ==
    LET ops == SelectSeq(n.ch, LAMBDA c : c.tag = "leaf" /\ c.k # "comment") IN binop_prec(ops[1].k)
Operands(n) == SelectSeq(n.ch, LAMBDA c : c.tag = "node" /\ c.k # "POLICY_REF")
Nests(n) ==
    n.tag = "node" =>
        /\ \A i \in 1..Len(n.ch) : Nests(n.ch[i])
        /\ n.k = "BINARY_EXPR" =>
               LET e == Operands(n)
               IN  /\ Len(e) = 2
                   /\ e[1].k = "BINARY_EXPR" => Operator(e[1]) >= Operator(n)
                   /\ e[2].k = "BINARY_EXPR" => Operator(e[2]) > Operator(n)
(* In an accepted text every operator's operands bind tighter than itself,  *)
(* and equal operators nest to the left: the one tree that the precedences  *)
(* allow, however the climbing got there.                                   *)
OperatorsNest == Read /\ parsed.errs = 0 => Nests(parsed.root)

RECURSIVE Shape(_)
(* The tree without comments, separators and positions. *)
Shape(n) ==
    LET kept == SelectSeq(n.ch, LAMBDA c : c.k \notin {"comment", ",", ";"})
    IN  [k |-> n.k, ch |-> [i \in 1..Len(kept) |-> IF kept[i].tag = "node" THEN Shape(kept[i])
                                                   ELSE [k |-> kept[i].k, text |-> kept[i].text]]]
(* Formatting keeps the program and its comments, and its result is a text  *)
(* that formatting leaves as it is.                                         *)
KeptByFormatting ==
    /\ parsed.errs = original.errs
    /\ Shape(parsed.root) = Shape(original.root)
    /\ Comments(collect(parsed.root)) = Comments(collect(original.root))
    /\ parsed.errs = 0 => Format(parsed.root) = text

(* A comment inside an item of a list. *)
InnermostOpen(ls, i) ==
    LET opens == {j \in 1..(i-1) : ls[j].k \in Openers /\ Closing(ls, j, 0) > i}
    IN  IF opens = {} THEN 0 ELSE Max(opens)
CommentInItem(ls) ==
    \E i \in 1..Len(ls) :
        /\ ls[i].k = "comment"
        /\ InnermostOpen(ls, i) # 0
        /\ is_list_open(ls[InnermostOpen(ls, i)])
        /\ Last(Solid(SubSeq(ls, 1, i))).k \notin Openers \cup {","}

(* `arche fmt --write` on a file whose comments stand between statements,   *)
(* declarations or list items, and that the parser read to its end, keeps   *)
(* the program, and settles: formatting the result again changes nothing.   *)
FormatKeepsProgram ==
    stage = "settled" /\ ~original.rest /\ ~CommentInItem(collect(original.root)) => KeptByFormatting

-----------------------------------------------------------------------------
(* The instance: small programs that between them use every production of  *)
(* the grammar and reach every limit of the parser.                         *)
MCSources ==
    {"a :: int;\nP :: arche { a, v(x, y) :: float, n: type: int }\n// pools\n[4]P(2) { a: 1 } ?abort;\n[N]q.P;",
     "f :: func(x: int, own y: []int) -> int { return x + y[1] * -2 - 3; }\ng :: proc(a: handle<P>)(b: int) { }",
     "m :: map (query { a, v } as w)(v) eff {\n  v.x = a; // here\n\n  i := 0;\n  long: int = 2;\n}",
     "s :: system eff {\n  for (i := 0; i < 4; i += 1) { if (i == 2) break; else { continue; } }\n  insert(P { a: 1 })(h:, _:);\n}\n#run seq({ s, m })",
     "E :: enum { A, B = 2 }\nt :: proc() {\n  match e { E.A: x = 1;, _: { (p:, q: int) = f(1); } }\n  u, v := k(2) !clamp;\n}",
     "#import { fmt io }\n#foreign {\n  @drop(x) o :: opaque;\n  r :: proc(n: int, ...)(z: Eff(int));\n}\n@default(proc, bounds, abort)\np :: policy(i: int) -> int { return a[1:i][0].b; }",
     "b := { 1, 2, };\nS :: sum { L(int), M }\nh :: func { f1, f2 }\nw :: proc() { c := reduce(+, col) |> d; let; }",
     "// 1\na :: int;\n// 2\n// 3\n// 4\n// 5\nb :: int;",
     "a :: 1; b :: 2; c :: 3; d :: 4; e :: 5; f :: 6; g :: 7; h :: 8; i :: 9;",
     "k :: proc() { (a, b:, c: int, d) = f(); }",
     "l :: system {\n  for { x = (1 + 2) * 3 % 4 !zero; }\n  #each_field f: int in P { y = !a && b || move c; }\n  aa, bb, cc(dd, ee, ff, gg, hh, ii, jj, kk);\n}"}
MCWords == {";", "{", "x"}

(* The passes under test. *)
MCScan(t) == LET tokens == lexer_tokenize(t) IN tokens
MCParse(t) == LET answer == parse_source(t) IN answer
MCFormat(root) == LET written == format_syntax(root) IN written
=============================================================================
