------------------------------- MODULE Lexer -------------------------------
(***************************************************************************)
(* The scanner of lexer/lexer.c.  A text is a string; a token is its kind,  *)
(* its text, the position and the line it starts on.  Punctuation,          *)
(* operators, keywords and directives are their own kinds; the other kinds  *)
(* are ident, num, str, char, comment, eof and error.                       *)
(***************************************************************************)
EXTENDS Naturals, Sequences

Keywords ==
    {"arche", "proc", "map", "system", "query", "func", "policy", "enum",
     "match", "let", "for", "if", "else", "in", "break", "continue", "move",
     "own", "copy", "alias", "return"}
Directives ==
    {"#import", "#each_field", "#module", "#file", "#foreign", "#link",
     "#cflags", "#run"}
Digits == {"0", "1", "2", "3", "4", "5", "6", "7", "8", "9"}
HexDigits == Digits \cup {"a", "b", "c", "d", "e", "f", "A", "B", "C", "D", "E", "F"}
Spaces == {" ", "\t", "\r", "\n"}
Single == {"(", ")", "{", "}", "[", "]", ",", ":", ";", "@", "?"}
Paired ==
    {"+=", "->", "-=", "*=", "/=", "%=", "==", "!=", "<=", ">=", "&&", "||", "|>"}
Alone == {"+", "-", "*", "/", "%", "=", "!", "<", ">"}
Letters ==
    {"a", "b", "c", "d", "e", "f", "g", "h", "i", "j", "k", "l", "m", "n", "o",
     "p", "q", "r", "s", "t", "u", "v", "w", "x", "y", "z", "A", "B", "C", "D",
     "E", "F", "G", "H", "I", "J", "K", "L", "M", "N", "O", "P", "Q", "R", "S",
     "T", "U", "V", "W", "X", "Y", "Z", "_"}

(* The character at a position, "" past the end (the terminating NUL). *)
At(src, i) == IF i \in 1..Len(src) THEN SubSeq(src, i, i) ELSE ""
is_ident_start(c) == c \in Letters
is_ident_char(c) == c \in Letters \cup Digits

RECURSIVE Run(_, _, _)
(* The first position from i on whose character is not of the class. *)
Run(src, i, class) ==
    LET c == At(src, i)
        in == CASE class = "space"  -> c \in Spaces
                [] class = "word"   -> is_ident_char(c)
                [] class = "digits" -> c \in Digits \cup {"_"}
                [] class = "hex"    -> c \in HexDigits \cup {"_"}
                [] class = "bin"    -> c \in {"0", "1", "_"}
                [] class = "oct"    -> c \in (Digits \ {"8", "9"}) \cup {"_"}
                [] class = "line"   -> c \notin {"\n", ""}
    IN  IF in THEN Run(src, i + 1, class) ELSE i

RECURSIVE BlockEnd(_, _)
(* A block comment without an end runs to the end of the text. *)
BlockEnd(src, i) ==
    IF At(src, i) = "" THEN i
    ELSE IF At(src, i) = "*" /\ At(src, i + 1) = "/" THEN i + 2
    ELSE BlockEnd(src, i + 1)

RECURSIVE StringEnd(_, _)
(* The position of the closing quote, or of the end of the text. *)
StringEnd(src, i) ==
    IF At(src, i) \in {"", "\""} THEN i
    ELSE IF At(src, i) = "\\" /\ At(src, i + 1) # "" THEN StringEnd(src, i + 2)
    ELSE StringEnd(src, i + 1)

NumberEnd(src, i) ==
    LET base == At(src, i + 1)
        whole == Run(src, i, "digits")
    IN  CASE At(src, i) = "0" /\ base \in {"x", "X"} -> Run(src, i + 2, "hex")
          [] At(src, i) = "0" /\ base \in {"b", "B"} -> Run(src, i + 2, "bin")
          [] At(src, i) = "0" /\ base \in {"o", "O"} -> Run(src, i + 2, "oct")
          [] OTHER -> IF At(src, whole) = "." /\ At(src, whole + 1) \in Digits
                      THEN Run(src, whole + 1, "digits") ELSE whole

(* A scanned piece: its kind and the position after it. *)
Piece(k, end) == [k |-> k, end |-> end]

lex_char_lit(src, i) ==
    LET c == At(src, i + 1)
        close == IF c = "\\" THEN (IF At(src, i + 2) = "" THEN i + 2 ELSE i + 3) ELSE i + 2
    IN  CASE c \in {"'", ""} -> Piece("error", i + 1)
          [] At(src, close) # "'" -> Piece("error", close)
          [] OTHER -> Piece("char", close + 1)

lex_string(src, i) ==
    LET close == StringEnd(src, i + 1)
    IN  IF At(src, close) = "" THEN Piece("error", close) ELSE Piece("str", close + 1)

lex_identifier(src, i) ==
    LET end == Run(src, i, "word")
        word == SubSeq(src, i, end - 1)
    IN  Piece(IF word \in Keywords THEN word ELSE "ident", end)

lex_directive(src, i) ==
    LET end == Run(src, i + 1, "word")
        word == SubSeq(src, i, end - 1)
    IN  Piece(IF word \in Directives THEN word ELSE "#", end)

(* The token that starts at a position that holds no white space. *)
lexer_next_token(src, i) ==
    LET c == At(src, i)
        two == c \o At(src, i + 1)
    IN  CASE c = "" -> Piece("eof", i)
          [] two = "/*" -> Piece("comment", BlockEnd(src, i + 2))
          [] two = "//" -> Piece("comment", Run(src, i, "line"))
          [] is_ident_start(c) -> lex_identifier(src, i)
          [] c \in Digits -> Piece("num", NumberEnd(src, i))
          [] c = "\"" -> lex_string(src, i)
          [] c = "'" -> lex_char_lit(src, i)
          [] c \in Single -> Piece(c, i + 1)
          [] c = "." -> IF two \o At(src, i + 2) = "..." THEN Piece("...", i + 3)
                        ELSE Piece(".", i + 1)
          [] c = "#" -> lex_directive(src, i)
          [] two \in Paired -> Piece(two, i + 2)
          [] c \in Alone -> Piece(c, i + 1)
          [] OTHER -> Piece("error", i + 1)

(* How often the line ends between two positions. *)
Breaks(src, i, j) == Len(SelectSeq([n \in 1..(j - i) |-> At(src, i + n - 1)],
                                   LAMBDA c : c = "\n"))

RECURSIVE Tokens(_, _, _)
Tokens(src, i, line) ==
    LET start == Run(src, i, "space")
        here == line + Breaks(src, i, start)
        p == lexer_next_token(src, start)
        tok == [k |-> p.k, text |-> SubSeq(src, start, p.end - 1), at |-> start, line |-> here]
    IN  IF p.k = "eof" THEN <<tok>>
        ELSE <<tok>> \o Tokens(src, p.end, here + Breaks(src, start, p.end))

lexer_tokenize(src) == Tokens(src, 1, 1)
=============================================================================
