----------------------------- MODULE Formatter -----------------------------
(***************************************************************************)
(* The formatter of syntax/format_syntax.c: it prints the leaves of the     *)
(* syntax tree with a gap decided before each one (nothing, a space, or a   *)
(* new line at some indentation), adds or drops the trailing comma of a     *)
(* bracketed list, and then lines up the separators of neighbouring lines.  *)
(***************************************************************************)
EXTENDS Parser, FiniteSetsExt

CONSTANTS
    MaxWidth,       \* MAX_WIDTH: the column a list may reach on one line (98 in the code)
    MaxFrames       \* size of fr: nested lists that are laid out (128 in the code)

RECURSIVE collect(_), Collected(_, _)
(* The leaves in order, each with the kind of its parent; the first leaf of *)
(* a declaration is marked.                                                 *)
collect(n) == Collected(n, 1)
Collected(n, c) ==
    IF c > Len(n.ch) THEN <<>>
    ELSE LET e == n.ch[c]
             sub == collect(e)
             top == n.k \in {"SOURCE_FILE", "REGION"}
             own == [k |-> e.k, text |-> e.text, line |-> e.line, parent |-> n.k, start |-> FALSE]
         IN  (CASE e.tag = "leaf" -> <<own>>
                [] e.tag = "node" /\ top -> [sub EXCEPT ![1].start = TRUE]
                [] OTHER -> sub) \o Collected(n, c + 1)

Openers == {"(", "{", "["}
Closers == {")", "}", "]"}
is_line_comment(l) == l.k = "comment" /\ SubSeq(l.text, 1, 2) = "//"

no_space_before(t, prev, next, prev_parent) ==
    CASE t \in {";", ",", ")", "]", "."} -> TRUE
      [] t = ":" -> prev = ":" \/ next \notin {"=", ":"}
      [] t = "=" -> prev = ":"
      [] t \in {"(", "["} ->
             prev \in {"ident", ")", "]", "proc", "func", "!", "(", "[", "policy"}
      [] OTHER -> \/ prev \in {".", "(", "[", "@", "!", "?"}
                  \/ prev = "]" /\ prev_parent = "STATIC_DECL"
                  \/ prev = "proc" /\ t = "!"

is_list_brace_parent(p) ==
    p \in {"ARRAY_LIT_EXPR", "USE_DECL", "GROUP_EXPR", "ARCH_EXPR", "ENUM_EXPR", "QUERY_EXPR",
           "ENTITY_EXPR"}
is_list_paren_parent(p) ==
    p \in {"CALL_EXPR", "PROC_CALL_STMT", "PROC_EXPR", "FUNC_EXPR", "MAP_EXPR", "SYSTEM_EXPR",
           "EACH_EXPR", "TYPE_PROC", "TYPE_FUNC"}
is_list_open(l) ==
    \/ l.k = "(" /\ is_list_paren_parent(l.parent)
    \/ l.k = "{" /\ is_list_brace_parent(l.parent)
is_block_brace(l) == l.k \in {"{", "}"} /\ ~is_list_brace_parent(l.parent)
is_match_brace(l) == l.k \in {"{", "}"} /\ l.parent = "MATCH_STMT"

Turn(k) == IF k \in Openers THEN 1 ELSE IF k \in Closers THEN -1 ELSE 0
RECURSIVE Closing(_, _, _)
(* Where the bracket opened at depth 0 closes; past the end if it does not. *)
Closing(ls, i, depth) ==
    IF i > Len(ls) THEN i
    ELSE IF Turn(ls[i].k) = -1 /\ depth = 1 THEN i
    ELSE Closing(ls, i + 1, depth + Turn(ls[i].k))

KindAt(ls, i) == IF i \in 1..Len(ls) THEN ls[i].k ELSE "eof"

(* A list is printed on one line when it holds no comment and no statement  *)
(* and its width fits, unless the author closed it with a comma.            *)
Inline(ls, i) == \A j \in i..Closing(ls, i, 0) : KindAt(ls, j) \notin {"comment", ";"}
flat_width(ls, i) ==
    LET end == Closing(ls, i, 0)
        Wide(j) == Len(ls[j].text)
                   + IF j = i \/ no_space_before(ls[j].k, ls[j-1].k, KindAt(ls, j+1), ls[j-1].parent)
                     THEN 0 ELSE 1
    IN  MapThenSumSet(Wide, i..end) + (IF ls[i].k = "{" THEN 2 ELSE 0)
has_trailing_comma(ls, i) == LET end == Closing(ls, i, 0) IN end > i /\ KindAt(ls, end - 1) = ","
Broken(ls, i, col) ==
    \/ ~Inline(ls, i)
    \/ col + flat_width(ls, i) > MaxWidth
    \/ has_trailing_comma(ls, i)

(* The last token of a decorator `@name` or `@name(...)`. *)
deco_end(ls, i) ==
    \E a \in 1..i : /\ ls[a].k = "@"
                    /\ KindAt(ls, a + 1) \in {"ident", "policy"}
                    /\ i = IF KindAt(ls, a + 2) = "(" THEN Closing(ls, a + 2, 0) ELSE a + 1

-----------------------------------------------------------------------------
(* The printer's state: the text so far and its column, the indentation,    *)
(* the last token printed (kind, parent, line), the last one that was no    *)
(* comment, the open lists and the bracket depth.                           *)
Printer0 ==
    [out |-> "", col |-> 0, indent |-> 0, started |-> FALSE, prev |-> "eof", noncomment |-> "eof",
     parent |-> "SOURCE_FILE", line |-> 0, force |-> FALSE, frames |-> <<>>, depth |-> 0]
NoFrame == [opener |-> "none", closer |-> "none", parent |-> "none", broken |-> FALSE, depth |-> -1]
Frame(st) == IF st.frames = <<>> THEN NoFrame ELSE st.frames[Len(st.frames)]

Gap(kind, indent, comma) == [kind |-> kind, indent |-> indent, comma |-> comma]

(* Normal spacing inside an item, a statement or a declaration. *)
Plainly(st, l, next) ==
    LET after_unary == st.parent = "UNARY_EXPR" /\ st.prev \in {"-", "!"}
        compact == l.parent = st.parent /\
                   l.parent \in {"TYPE_REF", "TYPE_ARRAY", "TYPE_SHAPED_ARRAY", "TYPE_HANDLE", "NAME_EXPR"}
    IN  IF compact \/ after_unary \/ no_space_before(l.k, st.prev, next, st.parent)
        THEN "none" ELSE "space"

(* Mutant: the comma is also added where a query header closes. *)
comma_after_header(st, f) ==
    IF f.broken THEN Gap("nl", st.indent - 1, st.noncomment \notin {",", f.opener})
    ELSE Gap(IF f.closer = "}" THEN "space" ELSE "none", st.indent, FALSE)
(* Before the bracket that closes a list; a broken one gets one comma.      *)
(* The comma goes where the text ends, after a comment too.                 *)
ClosingGap(st, f) ==
    LET comma == /\ st.noncomment \notin {",", f.opener}
                 /\ f.parent \notin {"EACH_EXPR", "SYSTEM_EXPR", "MAP_EXPR", "QUERY_EXPR"}
    IN  CASE f.broken -> Gap("nl", st.indent - 1, comma)
          [] ~f.broken /\ f.closer = "}" -> Gap("space", st.indent, FALSE)
          [] OTHER -> Gap("none", st.indent, FALSE)

(* Before a token of a list. *)
ItemGap(st, f, l, next) ==
    LET separated == \/ st.prev \in {f.opener, ","}
                     \/ f.parent = "USE_DECL" /\ l.k = "ident" /\ st.prev = "ident"
        spaced == st.prev # f.opener \/ f.opener = "{"
    IN  CASE st.force -> Gap("nl", st.indent, FALSE)
          [] ~st.force /\ l.k = "comment" /\ l.line = st.line ->
                 Gap("space", st.indent, f.broken /\ st.noncomment \notin {",", f.opener})
          [] ~st.force /\ ~(l.k = "comment" /\ l.line = st.line) /\ separated ->
                 Gap(IF f.broken THEN "nl" ELSE IF spaced THEN "space" ELSE "none", st.indent, FALSE)
          [] OTHER -> Gap(Plainly(st, l, next), st.indent, FALSE)

Markers == {"#module", "#file", "#foreign"}
(* Before a token of a block, a statement or a declaration. *)
BlockGap(st, ls, i, next) ==
    LET l == ls[i]
        header == st.prev = ";" /\ st.parent = "FOR_STMT"
        close == l.k = "}" /\ is_block_brace(l)
        breaks == \/ st.force \/ close \/ l.start
                  \/ st.prev \in {"{", "}"}
                  \/ st.prev = ";" /\ ~header
                  \/ l.k \in Markers \cup {"|>"}
                  \/ st.prev \in Markers /\ l.k # "{"
                  \/ i > 1 /\ deco_end(ls, i - 1)
        nl == CASE l.k = ";" /\ st.prev = "}" -> FALSE
                [] l.k = "comment" -> l.line # st.line
                [] OTHER -> breaks \/ (header /\ l.line > st.line)
        indent == IF close /\ ~is_match_brace(l) /\ st.indent > 0 THEN st.indent - 1 ELSE st.indent
    IN  Gap(CASE nl -> "nl"
              [] ~nl /\ l.k = "comment" -> "space"
              [] OTHER -> Plainly(st, l, next), indent, FALSE)

RECURSIVE Pad(_)
Pad(n) == IF n <= 0 THEN "" ELSE " " \o Pad(n - 1)

(* Print one leaf after its gap and keep the books on brackets and lists. *)
Print1(st, ls, i, gap) ==
    LET l == ls[i]
        f == Frame(st)
        closes == l.k = f.closer /\ st.depth = f.depth
        piped == IF l.k = "|>" /\ st.depth # f.depth THEN 1 ELSE 0
        margin == 2 * (gap.indent + piped)
        space == CASE gap.kind = "nl" -> (IF l.line - st.line >= 2 THEN "\n\n" ELSE "\n") \o Pad(margin)
                   [] gap.kind = "space" -> " "
                   [] OTHER -> ""
        col == (IF gap.kind = "nl" THEN margin
                ELSE st.col + Len(space) + (IF gap.comma THEN 1 ELSE 0)) + Len(l.text)
        opens == is_list_open(l) /\ Len(st.frames) < MaxFrames
        broken == Broken(ls, i, col)
        depth == st.depth + Turn(l.k)
        frame == [opener |-> l.k, closer |-> IF l.k = "(" THEN ")" ELSE "}", parent |-> l.parent,
                  broken |-> broken, depth |-> depth]
        deeper == \/ opens /\ broken
                  \/ ~opens /\ l.k = "{" /\ is_block_brace(l) /\ ~is_match_brace(l)
    IN  [out |-> st.out \o (IF gap.comma THEN "," ELSE "") \o space \o l.text,
         col |-> col,
         indent |-> gap.indent + (IF deeper THEN 1 ELSE 0),
         started |-> TRUE,
         prev |-> l.k,
         noncomment |-> IF l.k # "comment" THEN l.k ELSE IF gap.comma THEN "," ELSE st.noncomment,
         parent |-> l.parent,
         line |-> l.line,
         force |-> is_line_comment(l),
         frames |-> CASE closes -> SubSeq(st.frames, 1, Len(st.frames) - 1)
                      [] ~closes /\ opens -> Append(st.frames, frame)
                      [] OTHER -> st.frames,
         depth |-> depth]

RECURSIVE Printed(_, _, _)
(* The trailing comma of a list on one line, and the optional semicolon     *)
(* after a declaration's brace, are not printed.                            *)
Printed(st, ls, i) ==
    LET l == ls[i]
        next == KindAt(ls, i + 1)
        f == Frame(st)
        closes == l.k = f.closer /\ st.depth = f.depth
        inside == st.depth = f.depth /\ ~closes
        gap == CASE ~st.started -> Gap("none", st.indent, FALSE)
                 [] st.started /\ closes -> ClosingGap(st, f)
                 [] st.started /\ inside -> ItemGap(st, f, l, next)
                 [] OTHER -> BlockGap(st, ls, i, next)
    IN  CASE i > Len(ls) -> st.out \o "\n"
          [] i <= Len(ls) /\ \/ l.k = "," /\ inside /\ next = f.closer /\ ~f.broken
                             \/ l.k = ";" /\ st.prev = "}" /\ st.depth = 0 -> Printed(st, ls, i + 1)
          [] OTHER -> Printed(Print1(st, ls, i, gap), ls, i + 1)

-----------------------------------------------------------------------------
(* Aligning separators. *)

RECURSIVE LineStarts(_, _)
LineStarts(text, i) ==
    LET end == Run(text, i, "line")
    IN  IF i > Len(text) THEN <<>> ELSE <<[from |-> i, to |-> end]>> \o LineStarts(text, end + 1)

RECURSIVE Depths(_, _, _)
(* The bracket depth before each token; it never falls below zero. *)
Depths(toks, i, d) ==
    IF i > Len(toks) THEN <<>>
    ELSE <<d>> \o Depths(toks, i + 1, Max({0, d + Turn(toks[i].k)}))

Glued(toks, i) ==
    /\ toks[i].k = ":" /\ KindAt(toks, i + 1) \in {":", "="}
    /\ toks[i + 1].at = toks[i].at + 1
RECURSIVE Separators(_, _, _)
(* Every separator: `:` alone, or `::`, `:=` and `=`. *)
Separators(toks, depth, i) ==
    CASE i > Len(toks) -> <<>>
      [] i <= Len(toks) /\ Glued(toks, i) ->
             <<[line |-> toks[i].line, from |-> toks[i].at, to |-> toks[i].at + 2, colon |-> FALSE,
                depth |-> depth[i]]>> \o Separators(toks, depth, i + 2)
      [] i <= Len(toks) /\ ~Glued(toks, i) /\ toks[i].k \in {":", "="} ->
             <<[line |-> toks[i].line, from |-> toks[i].at, to |-> toks[i].at + 1,
                colon |-> toks[i].k = ":", depth |-> depth[i]]>> \o Separators(toks, depth, i + 1)
      [] OTHER -> Separators(toks, depth, i + 1)

NoSep == [from |-> 0, to |-> 0]
(* A line of the text with its type column and its binding column. *)
AlignLine(text, span, toks, depth, seps, n) ==
    LET first == {i \in 1..Len(toks) : toks[i].line = n}
        level == IF first = {} THEN -1 ELSE depth[Min(first)]
        own == SelectSeq(seps, LAMBDA p : p.line = n /\ p.depth = level)
        typed == own # <<>> /\ own[1].colon
        rest == IF typed THEN Tail(own) ELSE own
    IN  [from |-> span.from, to |-> span.to,
         body |-> Min({i \in span.from..span.to : i = span.to \/ At(text, i) # " "}),
         type |-> IF typed THEN [from |-> own[1].from, to |-> own[1].to] ELSE NoSep,
         bind |-> IF rest # <<>> THEN [from |-> rest[1].from, to |-> rest[1].to] ELSE NoSep]
leading(L) == L.body - L.from
alignable(L) == L.type # NoSep \/ L.bind # NoSep
same_shape(text, a, b) ==
    /\ (a.type = NoSep) = (b.type = NoSep)
    /\ (a.bind = NoSep) = (b.bind = NoSep)
    /\ a.bind # NoSep => (At(text, a.bind.from) = ":") = (At(text, b.bind.from) = ":")

(* The text between two positions without the spaces at its ends. *)
trim_slice(text, from, to) ==
    LET solid == {i \in from..(to - 1) : At(text, i) # " "}
    IN  IF solid = {} THEN "" ELSE SubSeq(text, Min(solid), Max(solid))

RECURSIVE RunEnd(_, _, _, _)
RunEnd(text, lines, g, h) ==
    IF /\ h <= Len(lines) /\ alignable(lines[h]) /\ leading(lines[h]) = leading(lines[g])
       /\ same_shape(text, lines[h], lines[g])
    THEN RunEnd(text, lines, g, h + 1) ELSE h

(* One column of a run: every cell padded to the widest, then the separator. *)
Column(text, built, cell, sep) ==
    LET wide == Max({Len(built[k]) + Len(cell[k]) + 1 : k \in DOMAIN built})
    IN  [k \in DOMAIN built |->
            built[k] \o cell[k] \o Pad(wide - Len(built[k]) - Len(cell[k]))
            \o SubSeq(text, sep[k].from, sep[k].to - 1) \o " "]
RECURSIVE TrimEnd(_)
TrimEnd(t) == IF t # "" /\ At(t, Len(t)) = " " THEN TrimEnd(SubSeq(t, 1, Len(t) - 1)) ELSE t

AlignedRun(text, lines, g, h) ==
    LET S == g..(h - 1)
        margin == [k \in S |-> Pad(leading(lines[k]))]
        types == [k \in S |-> lines[k].type]
        binds == [k \in S |-> lines[k].bind]
        one == IF types[g] = NoSep THEN margin
               ELSE Column(text, margin,
                           [k \in S |-> trim_slice(text, lines[k].body, types[k].from)], types)
        before(k) == IF types[k] = NoSep THEN lines[k].body ELSE types[k].to
        two == IF binds[g] = NoSep THEN one
               ELSE Column(text, one, [k \in S |-> trim_slice(text, before(k), binds[k].from)], binds)
        after(k) == IF binds[k] = NoSep THEN types[k].to ELSE binds[k].to
        tail(k) == LET solid == {i \in after(k)..lines[k].to : i = lines[k].to \/ At(text, i) # " "}
                   IN  SubSeq(text, Min(solid), lines[k].to - 1)
    IN  [n \in 1..(h - g) |-> TrimEnd(two[g + n - 1] \o tail(g + n - 1))]

RECURSIVE AlignedFrom(_, _, _), JoinLines(_)
JoinLines(ls) == IF ls = <<>> THEN "" ELSE ls[1] \o "\n" \o JoinLines(Tail(ls))
AlignedFrom(text, lines, g) ==
    LET h == IF g <= Len(lines) /\ alignable(lines[g]) THEN RunEnd(text, lines, g, g + 1) ELSE g + 1
    IN  CASE g > Len(lines) -> ""
          [] g <= Len(lines) /\ h - g >= 2 ->
                 JoinLines(AlignedRun(text, lines, g, h)) \o AlignedFrom(text, lines, h)
          [] OTHER -> SubSeq(text, lines[g].from, lines[g].to) \o AlignedFrom(text, lines, h)
align_and_write(text) ==
    LET toks == SelectSeq(lexer_tokenize(text), LAMBDA t : t.k # "eof")
        depth == Depths(toks, 1, 0)
        seps == Separators(toks, depth, 1)
        spans == LineStarts(text, 1)
    IN  AlignedFrom(text, [n \in 1..Len(spans) |-> AlignLine(text, spans[n], toks, depth, seps, n)], 1)

format_syntax(root) == align_and_write(Printed(Printer0, collect(root), 1))
=============================================================================
