------------------------------ MODULE Parser ------------------------------
(***************************************************************************)
(* The parser of parser/parser.c and the lossless tree builder of           *)
(* syntax/syntax_tree.c.  A parse state holds the tokens and the position   *)
(* of the lookahead, the builder's flat list of leaves and finished nodes,  *)
(* the panic flag and the number of reported errors, the two modes of the   *)
(* grammar (inside #foreign, inside a match header), the nesting depth, and *)
(* what the production just run returned: ok, the node kind of its form and *)
(* whether a type was the meta type.  Every production leaves a state that  *)
(* is not ok as it is, so a sequence of productions stops at the first one  *)
(* that fails, like the early returns of the code.  Node kinds and          *)
(* production names are those of the source.                                *)
(***************************************************************************)
EXTENDS Lexer

CONSTANTS
    MaxComments,    \* MAX_COMMENT_LOOP: comments in a row (1000 in the code)
    MaxSync,        \* MAX_SYNC_LOOP: tokens that recovery skips (1000 in the code)
    MaxTargets,     \* MAX_TARGETS: targets of one binding (1000 in the code)
    MaxDepth,       \* MAX_RECURSION_DEPTH: nested statements (1000 in the code)
    MaxDecls        \* MAX_DECL_LOOP: top-level declarations (10000 in the code)

Node(k, ch) == [tag |-> "node", k |-> k, ch |-> ch]
Leaf(t) == [tag |-> "leaf", k |-> t.k, text |-> t.text, line |-> t.line]

Cur(s) == IF s.cut THEN "eof" ELSE s.toks[s.pos].k
Word(s) == s.toks[s.pos].text
Is(s, k) == Cur(s) = k
IsWord(s, w) == Is(s, "ident") /\ Word(s) = w
Mark(s) == Len(s.items)

RECURSIVE PastComments(_, _)
PastComments(toks, i) == IF toks[i].k = "comment" THEN PastComments(toks, i + 1) ELSE i

(* Mutant: comments are not kept as leaves. *)
onto_without_comments(s, from) == [s EXCEPT !.pos = PastComments(s.toks, from)]
(* The lookahead becomes a leaf and the comments after it too; after too    *)
(* many comments the parser takes the rest of the text for empty.           *)
Onto(s, from) ==
    LET to == PastComments(s.toks, from)
        cut == to - from > MaxComments
        last == IF cut THEN from + MaxComments ELSE to
        leaves == [n \in 1..(last - from) |-> Leaf(s.toks[from + n - 1])]
    IN  [s EXCEPT !.pos = last, !.cut = cut, !.items = @ \o leaves]

advance(s) ==
    IF ~s.ok \/ Is(s, "eof") THEN s
    ELSE LET t == s.toks[s.pos]
             here == IF t.k = "error" THEN s ELSE [s EXCEPT !.items = Append(@, Leaf(t))]
         IN  Onto([here EXCEPT !.prev = t.k], s.pos + 1)

(* error() reports nothing in panic mode and enters it. *)
error(s) == IF s.panic THEN s ELSE [s EXCEPT !.panic = TRUE, !.errs = @ + 1]
(* Mutant: a production fails without a report. *)
fail_quietly(s) == IF s.ok THEN [s EXCEPT !.panic = TRUE, !.ok = FALSE] ELSE s
Fail(s) == IF s.ok THEN [error(s) EXCEPT !.ok = FALSE] ELSE s

(* match; match or return 0; match or report. *)
Skip(s, k) == IF s.ok /\ Is(s, k) THEN advance(s) ELSE s
Take(s, k) == IF s.ok /\ ~Is(s, k) THEN Fail(s) ELSE advance(s)
Hope(s, k) == IF s.ok /\ ~Is(s, k) THEN error(s) ELSE advance(s)

(* syntax_builder_wrap: what was emitted since the mark becomes one node. *)
Wrap(s, mark, kind) ==
    IF mark >= Len(s.items) THEN s
    ELSE [s EXCEPT !.items = Append(SubSeq(@, 1, mark), Node(kind, SubSeq(@, mark + 1, Len(@))))]
WrapOk(s, mark, kind) == IF s.ok THEN Wrap(s, mark, kind) ELSE s
TakeAs(s, k, kind) == WrapOk(Take(s, k), Mark(s), kind)
Kind(s, kind) == [s EXCEPT !.kind = kind]

(* syntax_single_node_kind *)
SingleKind(s, mark) ==
    IF Len(s.items) = mark + 1 /\ s.items[mark + 1].tag = "node" THEN s.items[mark + 1].k
    ELSE "ERROR"
NodesSince(s, mark) ==
    Len(SelectSeq(SubSeq(s.items, mark + 1, Len(s.items)), LAMBDA x : x.tag = "node"))

SyncAt == {"arche", "proc", "map", "system", "func", "let", "for"}
RECURSIVE SkipTo(_, _)
SkipTo(s, budget) ==
    CASE Is(s, "eof") -> s
      [] ~Is(s, "eof") /\ budget = 0 -> [s EXCEPT !.cut = TRUE]
      [] OTHER -> IF s.prev = ";" \/ Cur(s) \in SyncAt THEN s ELSE SkipTo(advance(s), budget - 1)
(* One token always, then up to the end of a statement or a keyword; after  *)
(* too many tokens the rest of the text is taken for empty.                 *)
synchronize(s) ==
    LET on == advance([s EXCEPT !.panic = FALSE, !.ok = TRUE])
    IN  [SkipTo(on, MaxSync) EXCEPT !.skipped = TRUE]

-----------------------------------------------------------------------------
RECURSIVE parse_binary_rhs(_, _, _), parse_unary_expr(_), parse_statement(_),
          parse_type_form(_), parse_decl(_), Item(_, _), List(_, _, _)

parse_expression(s) ==
    LET l == IF s.ok THEN parse_unary_expr(s) ELSE s IN parse_binary_rhs(l, Mark(s), 1)
parse_type(s) == IF s.ok THEN parse_type_form(s) ELSE s

(* do { item } while (match(COMMA) && !check(close)) *)
List(s, what, close) ==
    LET r == Item(s, what)
        c == Skip(r, ",")
    IN  IF r.ok /\ Is(r, ",") /\ ~Is(c, close) THEN List(c, what, close) ELSE c
(* The same, where the list may be empty, with its closing bracket. *)
Bracketed(s, what, close) ==
    Take(IF s.ok /\ ~Is(s, close) THEN List(s, what, close) ELSE s, close)

RECURSIVE Strings(_, _)
(* while (check(one of the kinds)) advance *)
Strings(s, kinds) == IF s.ok /\ Cur(s) \in kinds THEN Strings(advance(s), kinds) ELSE s

RECURSIVE Dotted(_, _)
(* Names after dots, each wrapped unless kind is "none". *)
Dotted(s, kind) ==
    IF ~s.ok \/ ~Is(s, ".") THEN s
    ELSE LET d == advance(s)
         IN  Dotted(IF kind = "none" THEN Take(d, "ident") ELSE TakeAs(d, "ident", kind), kind)

-----------------------------------------------------------------------------
(* Signatures and types. *)

param(s) ==
    LET n == TakeAs(Skip(s, "own"), "ident", "PARAM_NAME")
    IN  WrapOk(parse_type(Take(n, ":")), Mark(s), "PARAM")
RECURSIVE Params(_, _)
Params(s, is_extern) ==
    IF Is(s, "...") THEN advance(IF is_extern THEN s ELSE error(s))
    ELSE LET p == param(s)
             c == Skip(p, ",")
         IN  IF p.ok /\ Is(p, ",") /\ ~Is(c, ")") THEN Params(c, is_extern) ELSE c
parse_param_list_body(s, is_extern) ==
    IF ~s.ok \/ Is(s, ")") THEN s ELSE Params(s, is_extern)

parse_proc_out_list(s) ==
    CASE ~s.ok \/ Cur(s) \notin {"->", "("} -> s
      [] Is(s, "->") -> Fail(s)
      [] Is(s, "(") -> Bracketed(advance(s), "out_param", ")")

parse_func_return(s) ==
    CASE ~s.ok -> s
      [] Is(s, "->") -> LET a == advance(s) IN IF Is(a, "(") THEN Fail(a) ELSE parse_type(a)
      [] Is(s, "(") -> parse_proc_out_list(s)
      [] OTHER -> Fail(s)

parse_proc_sig(s, is_extern) ==
    parse_proc_out_list(Take(parse_param_list_body(Take(s, "("), is_extern), ")"))
parse_func_sig(s) == parse_func_return(Take(parse_param_list_body(Take(s, "("), FALSE), ")"))

parse_query_columns(s) == Bracketed(Take(s, "{"), "column", "}")

Meta(s, kind) == [s EXCEPT !.kind = kind, !.meta = TRUE]
Plain(s, kind) == [s EXCEPT !.kind = kind, !.meta = FALSE]

RECURSIVE Dims(_, _)
(* The brackets before an element type.  A size that does not parse ends    *)
(* the type, as a type reference, without failing it.                       *)
Dims(s, sized) ==
    LET a == advance(s)
        e == parse_expression(a)
        n == Take(s, "ident")
        q == IF n.ok /\ Is(n, ".") THEN Take(advance(n), "ident") ELSE n
    IN  CASE ~Is(s, "[") -> Plain(q, CASE ~q.ok -> "TYPE_REF"
                                       [] q.ok /\ sized -> "TYPE_SHAPED_ARRAY"
                                       [] OTHER -> "TYPE_ARRAY")
          [] Is(s, "[") /\ Is(a, "]") -> Dims(advance(a), sized)
          [] Is(s, "[") /\ ~Is(a, "]") /\ e.ok /\ Is(e, "]") -> Dims(advance(e), TRUE)
          [] OTHER -> Plain([(IF e.ok THEN error(e) ELSE e) EXCEPT !.ok = TRUE], "TYPE_REF")

NamedType(s) ==
    LET w == Word(s)
        a == advance(s)
        d == advance(a)
    IN  CASE w \in {"archetype", "opaque"} -> Plain(a, "TYPE_REF")
          [] w \notin {"archetype", "opaque", "handle", "type"} /\ Is(a, ".") ->
                 Plain(Take(d, "ident"), "TYPE_REF")
          [] w = "type" -> Meta(a, "TYPE_REF")
          [] w = "handle" /\ Is(a, "<") ->
                 LET h == Take(Take(d, "ident"), ">")
                 IN  Plain(h, IF h.ok THEN "TYPE_HANDLE" ELSE "TYPE_REF")
          [] w = "Eff" /\ Is(a, "(") ->
                 LET h == Take(IF Is(d, ")") THEN d ELSE List(d, "type", "none"), ")")
                 IN  Plain(h, IF h.ok THEN "TYPE_EFF" ELSE "TYPE_REF")
          [] OTHER -> Plain(a, "TYPE_REF")

parse_type_inner(s) ==
    CASE Is(s, "proc") -> Meta(parse_proc_sig(advance(s), FALSE), "TYPE_PROC")
      [] Is(s, "func") -> Meta(parse_func_sig(advance(s)), "TYPE_FUNC")
      [] Is(s, "system") -> Meta(advance(s), "TYPE_REF")
      [] Is(s, "[") -> Dims(s, FALSE)
      [] Is(s, "ident") -> NamedType(s)
      [] OTHER -> Plain(Fail(s), "TYPE_REF")
parse_type_form(s) == LET r == parse_type_inner(s) IN Wrap(r, Mark(s), r.kind)

-----------------------------------------------------------------------------
(* Shapes, bodies and the forms that stand on the right of a binding. *)

RECURSIVE GroupNames(_)
GroupNames(s) ==
    LET a == advance(s)
        b == advance(a)
    IN  CASE ~Is(a, ",") -> a
          [] Is(a, ",") /\ Is(b, "ident") -> GroupNames(b)
          [] Is(a, ",") /\ Cur(b) \in {")", "eof"} -> b
          [] OTHER -> error(b)
(* `(a, b) :: T`, or `(a, b) :: value`. *)
parse_tuple_name_group(s) ==
    LET a == advance(s)
        n == Take(IF Is(a, "ident") THEN GroupNames(a) ELSE Fail(a), ")")
        r == Take(Take(n, ":"), ":")
    IN  IF r.ok /\ Cur(r) \in {"(", "num", "str", "-"} THEN parse_expression(r) ELSE parse_type(r)

parse_arch_field(s) ==
    LET f == TakeAs(s, "ident", "FIELD_NAME")
        a == advance(f)
        t == CASE Is(a, ":") -> advance(a)
               [] IsWord(a, "type") -> Take(advance(a), ":")
               [] OTHER -> Fail(a)
    IN  CASE ~f.ok -> f
          [] f.ok /\ Is(f, "(") -> Skip(parse_tuple_name_group(f), ",")
          [] f.ok /\ Is(f, ":") -> Skip(parse_type(t), ",")
          [] OTHER -> Skip(f, ",")

RECURSIVE ArchFields(_)
(* A malformed field ends the list; the closing brace is then missing. *)
ArchFields(s) ==
    IF ~s.ok \/ Cur(s) \in {"}", "eof"} THEN s
    ELSE LET f == parse_arch_field(s)
         IN  IF f.ok THEN ArchFields(f) ELSE [f EXCEPT !.ok = TRUE]

RECURSIVE Statements(_)
Statements(s) ==
    IF ~s.ok \/ Cur(s) \in {"}", "eof"} THEN s
    ELSE LET r == parse_statement(s) IN Statements(IF r.ok THEN r ELSE synchronize(r))
parse_block_body(s) == Hope(Statements(Take(s, "{")), "}")

Query(s) ==
    CASE ~s.ok -> s
      [] Is(s, "query") -> WrapOk(parse_query_columns(advance(s)), Mark(s), "QUERY_EXPR")
      [] Is(s, "ident") -> TakeAs(s, "ident", "QUERY_REF")
      [] OTHER -> Fail(s)
(* The callers ignore whether the optional parts parsed. *)
parse_opt_row_bind(s) ==
    IF ~s.ok \/ ~IsWord(s, "as") THEN s
    ELSE LET a == advance(s)
         IN  IF Is(a, "ident") THEN TakeAs(a, "ident", "QUERY_BIND") ELSE error(a)
parse_opt_writes(s) ==
    IF s.ok /\ Is(s, "(") THEN [Bracketed(advance(s), "write", ")") EXCEPT !.ok = TRUE] ELSE s
parse_opt_eff(s) == IF s.ok /\ IsWord(s, "eff") THEN TakeAs(s, "ident", "EFF") ELSE s

MapForm(s) ==
    LET q == parse_opt_row_bind(Query(Take(s, "(")))
        w == parse_opt_writes(Take(IF q.ok /\ Is(q, ",") THEN Fail(q) ELSE q, ")"))
        eff == w.ok /\ IsWord(w, "eff")
    IN  Kind(parse_block_body(parse_opt_eff(w)), IF eff THEN "EACH_EXPR" ELSE "MAP_EXPR")
SystemForm(s) ==
    LET q == IF Is(s, "(") THEN parse_opt_writes(Take(List(advance(s), "query", "none"), ")"))
             ELSE s
    IN  Kind(parse_block_body(parse_opt_eff(q)), "SYSTEM_EXPR")

parse_group_form(s) ==
    LET a == advance(s)
    IN  Kind(Take(IF Is(a, "}") THEN Fail(a) ELSE List(a, "member", "}"), "}"), "GROUP_EXPR")
parse_proc_form(s) ==
    LET r == parse_proc_sig(s, s.foreign)
    IN  CASE r.ok /\ Is(r, "{") /\ s.foreign -> Fail(r)
          [] r.ok /\ Is(r, "{") /\ ~s.foreign -> Kind(parse_block_body(r), "PROC_EXPR")
          [] OTHER -> Kind(r, IF s.foreign THEN "PROC_EXPR" ELSE "TYPE_PROC")
parse_func_form(s) ==
    LET r == parse_func_sig(s)
    IN  IF r.ok /\ Is(r, "{") THEN Kind(parse_block_body(r), "FUNC_EXPR") ELSE Kind(r, "TYPE_FUNC")
parse_policy_form(s) ==
    LET r == Take(parse_param_list_body(Take(s, "("), FALSE), ")")
        t == IF r.ok /\ Is(r, "->") THEN parse_type(advance(r)) ELSE r
    IN  Kind(IF t.ok /\ ~Is(t, "{") THEN Fail(t) ELSE parse_block_body(t), "POLICY_EXPR")

RECURSIVE SumVariants(_)
SumVariants(s) ==
    LET n == Take(s, "ident")
        a == advance(n)
        p == IF n.ok /\ Is(n, "(")
             THEN Take(IF Is(a, ")") THEN a ELSE List(a, "type", "none"), ")") ELSE n
    IN  IF ~s.ok \/ Cur(s) \in {"}", "eof"} THEN s
        ELSE SumVariants(Skip(WrapOk(p, Mark(s), "SUM_VARIANT"), ","))

-----------------------------------------------------------------------------
(* Expressions. *)

(* After `[`: an index, or a slice with either end left out. *)
parse_bracket_index_or_slice(s) ==
    LET Upper(a) == IF Is(a, "]") THEN a ELSE parse_expression(a)
        e == IF Is(s, ":") THEN s ELSE parse_expression(s)
    IN  CASE ~e.ok -> e
          [] e.ok /\ Is(e, ":") -> Kind(Take(Upper(advance(e)), "]"), "SLICE_EXPR")
          [] OTHER -> Kind(Take(e, "]"), "INDEX_EXPR")

(* A parenthesised list is a tuple when it has more than one element. *)
Paren(s, closed(_)) ==
    LET a == advance(s)
        c == closed(IF Is(a, ")") THEN a ELSE List(a, "expr", ")"))
    IN  WrapOk(c, Mark(s),
               IF NodesSince(c, Mark(s)) > 1 THEN "TUPLE_LIT" ELSE "PAREN_EXPR")

Arguments(s) == Kind(Bracketed(advance(s), "expr", ")"), "CALL_EXPR")
(* reduce and scan take an operator as their first argument. *)
CallArguments(s, collective) ==
    LET a == advance(s)
        o == IF collective /\ Cur(a) \in {"+", "*"}
             THEN Skip(WrapOk(advance(a), Mark(a), "LITERAL_EXPR"), ",") ELSE a
    IN  Kind(Bracketed(o, "expr", ")"), "CALL_EXPR")

NameExpr(s) ==
    LET w == Word(s)
        a == advance(s)
        d == Dotted(a, "FIELD_NAME")
    IN  CASE w = "table" /\ Is(a, "<") -> Kind(Take(Take(advance(a), "ident"), ">"), "NAME_EXPR")
          [] w = "sum" /\ Is(a, "{") -> Kind(Take(SumVariants(advance(a)), "}"), "SUM_EXPR")
          [] w # "sum" /\ Is(a, "{") /\ ~s.nbl ->
                 Kind(Bracketed(advance(a), "field", "}"), "ENTITY_EXPR")
          [] Is(a, ".") -> CASE ~d.ok -> d
                             [] d.ok /\ Is(d, "[") -> parse_bracket_index_or_slice(advance(d))
                             [] d.ok /\ Is(d, "(") -> Arguments(d)
                             [] OTHER -> Kind(d, "FIELD_EXPR")
          [] Is(a, "[") -> parse_bracket_index_or_slice(advance(a))
          [] Is(a, "(") -> CallArguments(Wrap(a, Mark(s), "CALLEE_NAME"), w \in {"reduce", "scan"})
          [] OTHER -> Kind(a, "NAME_EXPR")

parse_primary_expr(s) ==
    LET a == advance(s)
    IN  CASE Cur(s) \in {"num", "char"} -> Kind(a, "LITERAL_EXPR")
          [] Is(s, "str") -> Kind(a, "STRING_EXPR")
          [] Is(s, "{") -> Kind(Bracketed(a, "expr", "}"), "ARRAY_LIT_EXPR")
          [] Cur(s) \in {"proc", "func"} /\ Is(a, "{") -> parse_group_form(a)
          [] Is(s, "proc") /\ ~Is(a, "{") -> parse_proc_form(a)
          [] Is(s, "func") /\ ~Is(a, "{") -> parse_func_form(a)
          [] Is(s, "policy") -> parse_policy_form(a)
          [] Is(s, "arche") -> Kind(Hope(ArchFields(Take(a, "{")), "}"), "ARCH_EXPR")
          [] Is(s, "query") -> Kind(parse_query_columns(a), "QUERY_EXPR")
          [] Is(s, "map") -> MapForm(a)
          [] Is(s, "system") -> SystemForm(a)
          [] Is(s, "enum") -> Kind(Bracketed(Take(a, "{"), "variant", "}"), "ENUM_EXPR")
          [] Is(s, "ident") -> NameExpr(s)
          [] Is(s, "(") -> Kind(Paren(s, LAMBDA r : Hope(r, ")")), "NAME_EXPR")
          [] OTHER -> Fail(s)

(* `!policy` or `?policy` after an index, a slice or a call. *)
parse_opt_policy(s) ==
    IF s.ok /\ s.kind \in {"INDEX_EXPR", "SLICE_EXPR", "CALL_EXPR"} /\ Cur(s) \in {"!", "?"}
    THEN WrapOk(Take(advance(s), "ident"), Mark(s), "POLICY_REF") ELSE s

RECURSIVE Postfix(_, _)
(* A further `.field` or `[index]` makes what was parsed so far its base. *)
Postfix(s, mark) ==
    LET w == Wrap(s, mark, s.kind)
    IN  IF s.ok /\ s.kind \in {"INDEX_EXPR", "SLICE_EXPR", "CALL_EXPR", "FIELD_EXPR"}
                /\ Cur(s) \in {".", "["}
        THEN Postfix(IF Is(s, ".") THEN Kind(Dotted(w, "FIELD_NAME"), "FIELD_EXPR")
                     ELSE parse_opt_policy(parse_bracket_index_or_slice(advance(w))), mark)
        ELSE IF s.ok /\ SingleKind(s, mark) = "ERROR" THEN w ELSE s

parse_unary_expr(s) ==
    IF Cur(s) \in {"move", "copy", "-", "!"}
    THEN WrapOk(parse_unary_expr(advance(s)), Mark(s), "UNARY_EXPR")
    ELSE Postfix(parse_opt_policy(parse_primary_expr(s)), Mark(s))

binop_prec(k) ==
    CASE k \in {"*", "/", "%"} -> 5
      [] k \in {"+", "-"} -> 4
      [] k \in {"<", ">", "<=", ">=", "==", "!="} -> 3
      [] k = "&&" -> 2
      [] k \in {"||", "|>"} -> 1
      [] OTHER -> 0

RECURSIVE Tighter(_, _, _), tighter_or_equal(_, _, _)
(* Mutant: an operator of the same precedence goes to the right operand. *)
tighter_or_equal(s, mark, prec) ==
    IF s.ok /\ prec > 0 /\ binop_prec(Cur(s)) >= prec
    THEN tighter_or_equal(parse_binary_rhs(s, mark, prec), mark, prec) ELSE s
Tighter(s, mark, prec) ==
    IF s.ok /\ binop_prec(Cur(s)) > prec
    THEN Tighter(parse_binary_rhs(s, mark, prec + 1), mark, prec) ELSE s
(* Precedence climbing; the left operand starts at the mark. *)
parse_binary_rhs(s, mark, min_prec) ==
    LET op == Cur(s)
        a == advance(s)
        r == Tighter(parse_unary_expr(a), Mark(a), binop_prec(op))
        p == IF r.ok /\ op \in {"/", "%"} /\ Is(r, "!")
             THEN WrapOk(Take(advance(r), "ident"), Mark(r), "POLICY_REF") ELSE r
    IN  IF ~s.ok \/ binop_prec(op) < min_prec THEN s
        ELSE parse_binary_rhs(WrapOk(p, mark, "BINARY_EXPR"), mark, min_prec)

-----------------------------------------------------------------------------
(* Statements. *)

RECURSIVE MultiNames(_)
MultiNames(s) ==
    IF ~s.ok \/ Cur(s) \in {":", "=", "eof"} THEN s
    ELSE LET a == Take(s, "ident")
         IN  IF a.ok /\ Is(a, ",") THEN MultiNames(advance(a)) ELSE a

(* An archetype shape is no value of a local. *)
NotArch(r, mark) == IF r.ok /\ SingleKind(r, mark) = "ARCH_EXPR" THEN Fail(r) ELSE r

parse_binding_tail(s) ==
    LET a == advance(s)
        n == MultiNames(a)
        c == Skip(advance(a), "alias")
        t == parse_type(a)
    IN  CASE Is(s, ",") ->
                 Kind(parse_expression(Take(IF n.ok /\ Is(n, ":") THEN advance(n) ELSE n, "=")),
                      "MULTI_BIND_STMT")
          [] Is(s, ":") /\ Is(a, "=") ->
                 Kind(NotArch(parse_expression(advance(a)), Mark(advance(a))), "BIND_STMT")
          [] Is(s, ":") /\ Is(a, ":") -> Kind(NotArch(parse_expression(c), Mark(c)), "BIND_STMT")
          [] OTHER -> Kind(CASE t.ok /\ Is(t, ":") /\ t.meta -> parse_type(advance(t))
                             [] t.ok /\ Is(t, ":") /\ ~t.meta -> parse_expression(advance(t))
                             [] t.ok /\ Is(t, "=") -> parse_expression(advance(t))
                             [] OTHER -> t, "BIND_STMT")

AssignOps == {"=", "+=", "-=", "*=", "/=", "%="}

parse_simple_statement(s) ==
    LET e == parse_expression(s)
        k == SingleKind(e, Mark(s))
    IN  CASE ~e.ok -> e
          [] e.ok /\ k = "NAME_EXPR" /\ Cur(e) \in {":", ","} -> parse_binding_tail(e)
          [] e.ok /\ k = "CALL_EXPR" /\ Is(e, "(") ->
                 Kind(Bracketed(advance(e), "out_arg", ")"), "PROC_CALL_STMT")
          [] e.ok /\ Cur(e) \in AssignOps -> Kind(parse_expression(advance(e)), "ASSIGN_STMT")
          [] OTHER -> Kind(e, "EXPR_STMT")
Wrapped(s) == LET r == parse_simple_statement(s) IN WrapOk(r, Mark(s), r.kind)

RECURSIVE EachBody(_)
(* Here a statement that fails ends the body. *)
EachBody(s) ==
    IF ~s.ok \/ Cur(s) \in {"}", "eof"} THEN s
    ELSE LET r == parse_statement(s) IN IF r.ok THEN EachBody(r) ELSE [r EXCEPT !.ok = TRUE]
EachField(s) ==
    LET n == Take(s, "ident")
        t == IF n.ok /\ Is(n, ":") THEN parse_type(advance(n)) ELSE n
    IN  Kind(Hope(EachBody(Take(Take(Take(t, "in"), "ident"), "{")), "}"), "EACH_FIELD_STMT")

Pattern(s) ==
    LET a == advance(s)
    IN  CASE Cur(s) \in {"num", "str", "char"} -> a
          [] Is(s, "ident") /\ Is(a, ".") -> Take(advance(a), "ident")
          [] Is(s, "ident") /\ ~Is(a, ".") -> IF Word(s) = "_" THEN a ELSE Fail(a)
          [] OTHER -> Fail(s)
RECURSIVE MatchArms(_)
MatchArms(s) ==
    LET p == Take(Pattern(s), ":")
        b == parse_statement(p)
        body == CASE Is(p, "{") -> parse_block_body(p)
                  [] ~Is(p, "{") /\ b.ok -> b
                  [] OTHER -> synchronize(b)
    IN  CASE ~s.ok \/ Cur(s) \in {"}", "eof"} -> s
          [] s.ok /\ Cur(s) \notin {"}", "eof"} /\ ~p.ok -> [p EXCEPT !.ok = TRUE]
          [] OTHER -> MatchArms(Skip(Wrap(body, Mark(s), "MATCH_ARM"), ","))
MatchStmt(s) ==
    LET e == [parse_expression([s EXCEPT !.nbl = TRUE]) EXCEPT !.nbl = s.nbl]
    IN  Kind(Hope(MatchArms(Take(e, "{")), "}"), "MATCH_STMT")

RECURSIVE Targets(_, _)
Targets(s, budget) ==
    LET a == advance(s)
        b == advance(a)
        t == CASE ~Is(a, ":") -> a
               [] Is(a, ":") /\ Cur(b) \in {",", ")"} -> b
               [] OTHER -> parse_type(b)
    IN  CASE ~s.ok \/ Cur(s) \in {")", "eof"} -> s
          [] s.ok /\ Cur(s) \notin {")", "eof"} /\ (budget = 0 \/ ~Is(s, "ident")) -> error(s)
          [] OTHER -> IF t.ok /\ Is(t, ",") THEN Targets(advance(t), budget - 1) ELSE t

(* A body in braces, or one statement whose failure goes unnoticed. *)
Branch(s) ==
    IF ~s.ok \/ Is(s, "{") THEN (IF s.ok THEN parse_block_body(s) ELSE s)
    ELSE [parse_statement(s) EXCEPT !.ok = TRUE]
IfStmt(s) ==
    LET b == Branch(Take(parse_expression(Take(s, "(")), ")"))
    IN  Kind(IF b.ok /\ Is(b, "else") THEN Branch(advance(b)) ELSE b, "IF_STMT")
ForStmt(s) ==
    LET a == advance(s)
        i == Take(IF Is(a, ";") THEN a ELSE Wrapped(a), ";")
        c == Take(IF i.ok /\ ~Is(i, ";") THEN parse_expression(i) ELSE i, ";")
        n == Take(IF c.ok /\ ~Is(c, ")") THEN Wrapped(c) ELSE c, ")")
    IN  Kind(CASE Is(s, "{") -> parse_block_body(s)
               [] Is(s, "(") -> parse_block_body(n)
               [] OTHER -> Fail(s), "FOR_STMT")

Statement(s) ==
    LET a == advance(s)
    IN  CASE Is(s, ";") -> [a EXCEPT !.ok = FALSE]
          [] Is(s, "break") -> Kind(Hope(a, ";"), "BREAK_STMT")
          [] Is(s, "continue") -> Kind(Hope(a, ";"), "CONTINUE_STMT")
          [] Is(s, "#each_field") -> EachField(a)
          [] Is(s, "return") ->
                 Kind(Hope(IF Is(a, ";") THEN a ELSE List(a, "expr", ";"), ";"), "RETURN_STMT")
          [] Is(s, "match") -> MatchStmt(a)
          [] Is(s, "{") -> Kind(parse_block_body(s), "BLOCK")
          [] Is(s, "(") ->
                 Kind(Hope(parse_expression(Take(Take(Targets(a, MaxTargets), ")"), "=")), ";"),
                      "MULTI_BIND_STMT")
          [] Is(s, "let") -> [advance(error(s)) EXCEPT !.ok = FALSE]
          [] Is(s, "if") -> IfStmt(a)
          [] Is(s, "for") -> ForStmt(a)
          [] OTHER -> Hope(parse_simple_statement(s), ";")

(* The depth goes down also where the limit kept it from going up. *)
parse_statement(s) ==
    LET r == CASE ~s.ok -> s
               [] s.ok /\ s.depth > MaxDepth -> Fail(s)
               [] OTHER -> Statement([s EXCEPT !.depth = @ + 1])
        d == [r EXCEPT !.depth = @ - 1]
    IN  IF r.ok THEN Wrap(d, Mark(s), r.kind) ELSE d

-----------------------------------------------------------------------------
(* Declarations. *)

require_decl_terminator(s) ==
    CASE ~s.ok -> s
      [] s.ok /\ Is(s, ";") -> advance(s)
      [] s.ok /\ ~Is(s, ";") -> IF s.prev = "}" THEN s ELSE error(s)

PoolDecl(s) ==
    LET c == Take(parse_expression(advance(s)), "]")
        shape == c.ok /\ Is(c, "arche")
        n == CASE ~c.ok -> c
               [] shape -> WrapOk(Take(ArchFields(Take(advance(c), "{")), "}"), Mark(c), "ARCH_EXPR")
               [] OTHER -> Dotted(Take(c, "ident"), "none")
        m == IF n.ok /\ Is(n, "(") THEN Hope(parse_expression(advance(n)), ")") ELSE n
        block == m.ok /\ Is(m, "{")
        b == advance(m)
        v == IF block
             THEN Hope([(IF Is(b, "}") THEN b ELSE List(b, "init", "}")) EXCEPT !.ok = TRUE], "}")
             ELSE m
        p == IF v.ok /\ Is(v, "?") THEN WrapOk(Take(advance(v), "ident"), Mark(v), "POLICY_REF")
             ELSE v
    IN  Kind(IF shape \/ block THEN Skip(p, ";") ELSE require_decl_terminator(p), "STATIC_DECL")

(* name : [T] (: | =) value, with every part after the colon optional. *)
BindingDecl(s) ==
    LET a == advance(s)
        untyped == Is(a, ":")
        t == IF untyped THEN Plain(a, "none") ELSE parse_type(a)
        v == Skip(Take(t, ":"), IF t.meta THEN "none" ELSE "alias")
        rhs == IF v.ok /\ (t.meta \/ Is(v, "[")) THEN parse_type(v) ELSE parse_expression(v)
        End(r, kind) == Kind(require_decl_terminator(r), kind)
    IN  CASE Is(a, "=") -> End(parse_expression(advance(a)), "STATIC_DECL")
          [] ~Is(a, "=") /\ ~t.ok -> t
          [] ~Is(a, "=") /\ t.ok /\ Is(t, "=") -> End(parse_expression(advance(t)), "STATIC_DECL")
          [] ~Is(a, "=") /\ t.ok /\ ~untyped /\ Cur(t) \notin {"=", ":"} -> End(t, "STATIC_DECL")
          [] OTHER -> End(rhs, "CONST_DECL")

parse_static_decl(s) ==
    LET n == advance(s)
    IN  CASE Is(s, "[") -> PoolDecl(s)
          [] Is(s, "ident") /\ Is(n, "(") ->
                 Kind(require_decl_terminator(parse_tuple_name_group(n)), "CONST_DECL")
          [] Is(s, "ident") /\ Is(n, ":") -> BindingDecl(n)
          [] OTHER -> [n EXCEPT !.ok = FALSE]

RECURSIVE Decls(_, _, _)
(* The declarations up to a closing token; one that fails becomes an ERROR  *)
(* node with everything recovery skips.                                     *)
Decls(s, close, budget) ==
    LET r == parse_decl(s)
    IN  IF Cur(s) \in {close, "eof"} \/ budget = 0 THEN s
        ELSE Decls(IF r.ok THEN Wrap(r, Mark(s), r.kind)
                   ELSE Wrap(synchronize(r), Mark(s), "ERROR"), close, budget - 1)

parse_region(s) ==
    LET a == advance(s)
        foreign == s.foreign \/ Is(s, "#foreign")
        body == Decls([advance(a) EXCEPT !.foreign = foreign], "}", Len(s.toks))
    IN  Kind(IF Is(a, "{") THEN Take([body EXCEPT !.foreign = s.foreign], "}")
             ELSE [a EXCEPT !.foreign = foreign], "REGION")
parse_link_region(s) ==
    LET a == Take(advance(s), "{")
    IN  Kind(Take(IF a.ok /\ Is(a, "}") THEN Fail(a) ELSE Strings(a, {"str"}), "}"), "REGION")
parse_run_region(s) ==
    LET a == advance(s)
        b == advance(a)
    IN  Kind(CASE ~Is(a, "{") -> parse_expression(a)
               [] Is(a, "{") /\ Is(b, "}") -> Fail(b)
               [] OTHER -> Take(List(b, "expr", "}"), "}"), "RUN_DECL")
UseDecl(s) ==
    LET a == advance(s)
        b == advance(a)
        names == Strings(a, {"ident", "str"})
    IN  Kind(CASE Is(a, "{") /\ Is(b, "}") -> Fail(b)
               [] Is(a, "{") /\ ~Is(b, "}") -> Take(Strings(b, {"ident", "str"}), "}")
               [] OTHER -> IF names.pos = a.pos \/ ~Is(names, "eof") THEN Fail(names) ELSE names,
             "USE_DECL")

Argument(s, k) == Take(Take(Take(advance(s), "("), k), ")")
(* @default(kind, category, policy) is a declaration of its own. *)
DefaultDecl(s) ==
    LET a == Take(advance(s), "(")
        k == IF a.ok /\ Cur(a) \notin {"proc", "func"} THEN Fail(a) ELSE advance(a)
    IN  Kind(Take(Take(Take(Take(Take(k, ","), "ident"), ","), "ident"), ")"), "DEFAULT_DECL")

RECURSIVE Decorators(_)
Decorators(s) ==
    LET a == advance(s)
        w == Word(a)
    IN  CASE ~s.ok \/ ~Is(s, "@") -> s
          [] s.ok /\ Is(s, "@") /\ Is(a, "policy") -> Decorators(Argument(a, "ident"))
          [] s.ok /\ Is(s, "@") /\ Is(a, "ident") ->
                 CASE w \in {"allow_pure_proc", "intrinsic", "gpu", "resident"} ->
                          Decorators(advance(a))
                   [] w = "default" -> DefaultDecl(a)
                   [] w \in {"drop", "allow"} -> Decorators(Argument(a, "ident"))
                   [] w = "syscall" -> Decorators(Argument(a, "num"))
                   [] w = "implements" ->
                          Decorators(Take(List(Take(advance(a), "("), "requirement", "none"), ")"))
                   [] OTHER -> Fail(a)
          [] OTHER -> Fail(a)

parse_decl(s) ==
    LET d == Decorators(Kind(s, "none"))
        b == parse_static_decl(d)
    IN  CASE ~d.ok \/ d.kind = "DEFAULT_DECL" -> d
          [] d.ok /\ Is(d, "#import") -> UseDecl(d)
          [] d.ok /\ Cur(d) \in {"#module", "#file", "#foreign"} -> parse_region(d)
          [] d.ok /\ Cur(d) \in {"#link", "#cflags"} -> parse_link_region(d)
          [] d.ok /\ Is(d, "#run") -> parse_run_region(d)
          [] d.ok /\ Cur(d) \in {"ident", "["} -> IF b.ok THEN b ELSE error(b)
          [] OTHER -> Fail(d)

(* The elements of comma-separated lists. *)
Item(s, what) ==
    LET n == Take(s, "ident")
        a == advance(n)
        p == TakeAs(s, "ident", "PARAM_NAME")
        f == Take(TakeAs(s, "ident", "FIELD_NAME"), ":")
    IN  CASE ~s.ok -> s
          [] s.ok /\ what = "expr" -> parse_expression(s)
          [] s.ok /\ what = "type" -> parse_type(s)
          [] s.ok /\ what = "out_param" ->
                 IF Is(s, "own") THEN Fail(s)
                 ELSE WrapOk(parse_type(Take(p, ":")), Mark(s), "OUT_PARAM")
          [] s.ok /\ what = "column" -> WrapOk(p, Mark(s), "PARAM")
          [] s.ok /\ what = "write" -> TakeAs(s, "ident", "WRITE_PARAM")
          [] s.ok /\ what = "member" -> n
          [] s.ok /\ what = "requirement" -> Dotted(n, "none")
          [] s.ok /\ what = "query" -> parse_opt_row_bind(Query(s))
          [] s.ok /\ what = "variant" ->
                 WrapOk(IF n.ok /\ Is(n, "=") THEN Take(a, "num") ELSE n, Mark(s), "ENUM_VARIANT")
          [] s.ok /\ what = "field" ->
                 IF f.ok /\ Is(f, "(") THEN Paren(f, LAMBDA r : Take(r, ")")) ELSE parse_expression(f)
          [] s.ok /\ what = "init" -> parse_expression(Take(n, ":"))
          [] s.ok /\ what = "out_arg" ->
                 WrapOk(IF ~n.ok \/ ~Is(n, ":") \/ Cur(a) \in {")", ","} THEN Skip(n, ":")
                        ELSE parse_type(a), Mark(s), "OUT_ARG")

parser_init(src) ==
    Onto([toks |-> lexer_tokenize(src), pos |-> 1, cut |-> FALSE, prev |-> "none", items |-> <<>>,
          panic |-> FALSE, errs |-> 0, skipped |-> FALSE, depth |-> 0, nbl |-> FALSE,
          foreign |-> FALSE, ok |-> TRUE, kind |-> "none", meta |-> FALSE], 1)

(* What a caller gets: the tree and the number of errors; cut and skipped   *)
(* are kept for the properties.                                             *)
parse_source(src) ==
    LET r == Decls(parser_init(src), "none", MaxDecls)
    IN  [root |-> Node("SOURCE_FILE", r.items), errs |-> r.errs, skipped |-> r.skipped,
         rest |-> ~Is(r, "eof") \/ r.cut]
=============================================================================
