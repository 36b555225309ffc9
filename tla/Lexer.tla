------------------------------- MODULE Lexer -------------------------------
(***************************************************************************)
(* The lexer (src/Plang/src/lexer/lexer.cpp).  A text is a sequence of     *)
(* one-character strings, a position an index into it; the position after  *)
(* the last character is eof, where the buffer holds its final NUL.        *)
(*                                                                         *)
(* LexNextToken is the whole of Lexer::lexNextToken as an operator of the  *)
(* text, the position and the template flag, so that a parser over         *)
(* characters can be composed with it (module Templates).  The kind of a   *)
(* punctuation token is named by its spelling: "&&" is TK_andand.          *)
(***************************************************************************)
EXTENDS Integers, Sequences, FiniteSetsExt

CONSTANT Texts     \* the texts that may be lexed

ASSUME TextsAssumption == Texts \subseteq Seq(STRING)

VARIABLES
    text,          \* the file being read
    pos, loc,      \* stream.parsePoint and loc, a [line, offset]
    token,         \* the current token
    template,      \* parsingTypeSpecTemplate
    start,         \* history: where loc was last set by setContextPath
    status         \* "lexing", "exited", or "overrun" past the end of the text

vars == <<text, pos, loc, token, template, start, status>>

\* The letters and digits that texts are made of here: one of each class the
\* lexer tells apart.
White      == {" ", "\t", "\r", "\n", "\f"}
Decimal    == {"0", "1", "2", "3", "4", "5", "6", "7", "8", "9"}
Letters    == {"a", "b", "c", "d", "e", "f", "n", "x", "A", "T", "_"}
DoubleQuote == "\""
Escapes    == {"t", "b", "n", "r", "f", "'", "\"", "\\"}

DigitsOf(base) == CASE base = 2  -> {"0", "1"}
                    [] base = 8  -> Decimal \ {"8", "9"}
                    [] base = 10 -> Decimal
                    [] base = 16 -> Decimal \cup {"a", "b", "c", "d", "e", "f", "A"}

At(t, p)      == IF p <= Len(t) THEN t[p] ELSE "NUL"
Eof(t)        == Len(t) + 1
Span(t, p, S) == Min({q \in p..Eof(t) : At(t, q) \notin S})     \* past the S from p on
Until(t, p, S) == Min({q \in p..Eof(t) : At(t, q) \in S \cup {"NUL"}})

(***************************************************************************)
(* skipWhiteSpaces.  The test for a block comment asks one character to be *)
(* both / and *, so only line comments are skipped.                        *)
(***************************************************************************)
SkipSlash(t, p) ==                        \* mutant: one / opens a comment
    LET w == Span(t, p, White)
    IN  IF At(t, w) = "/" THEN Until(t, w, {"\r", "\n"}) ELSE w

SkipWhiteSpaces(t, p) ==
    LET skip[q \in 1..Eof(t)] ==
          LET w == Span(t, q, White)
          IN  IF At(t, w) = "/" /\ At(t, w + 1) = "/"
              THEN skip[Until(t, w, {"\r", "\n"})]
              ELSE w
    IN  skip[p]
-----------------------------------------------------------------------------
(***************************************************************************)
(* Punctuation.  A token starts with the kind of its first character; then *)
(* a list of up to three tests is gone through once, each changing the     *)
(* kind when the next character is `on` (and the kind is `if`, unless that *)
(* is empty) and stepping over the character, or not.                      *)
(***************************************************************************)
Peek(on, kind)     == [if |-> "", on |-> on, kind |-> kind, by |-> 0]
Test(on, kind)     == [if |-> "", on |-> on, kind |-> kind, by |-> 1]
After(k, on, kind) == [if |-> k,  on |-> on, kind |-> kind, by |-> 1]

Tests(c, flag) ==
    CASE c = "+" -> <<Test("+", "++"), Test("=", "+=")>>
      [] c = "-" -> <<Peek("-", "--"), Test("=", "-="), Test(">", "->")>>
      [] c = "&" -> <<Test("&", "&&"), Test("=", "&=")>>
      [] c = "|" -> <<Test("|", "||"), Test("=", "|=")>>
      [] c = "=" -> <<Test("=", "||"), Test(">", "=>")>>
      [] c = "!" -> <<Test("=", "!=")>>
      [] c = "^" -> <<Test("=", "^=")>>
      [] c = "%" -> <<Test("=", "%=")>>
      [] c = "*" -> <<Test("=", "*=")>>
      [] c = "/" -> <<Test("=", "/=")>>
      [] c = ":" -> <<Test(":", "::")>>
      [] c = "<" -> <<Test("=", "<="), Test("<", "<<"), After("<<", "=", "<<=")>>
      [] c = ">" -> IF flag THEN <<Test("=", ">=")>>
                    ELSE <<Test("=", ">="), Test(">", ">>"), After(">>", "=", ">>=")>>
      [] OTHER   -> <<>>

Alone == {",", "(", ")", "[", "]", "{", "}", "?", ";"}
Longer == {"+", "-", "&", "|", "=", "!", "^", "%", "*", "/", ":", "<", ">", "."}

TwoDots(t, p, flag) == [kind |-> t[p], to |-> IF At(t, p + 1) = "." THEN p + 3 ELSE p + 1]
                                                    \* mutant: the third is not asked for

Punctuation(t, p, flag) ==
    LET tests == Tests(t[p], flag)
        Go(acc, i) ==
          IF i <= Len(tests) /\ At(t, acc.to) = tests[i].on /\ tests[i].if \in {"", acc.kind}
          THEN [kind |-> tests[i].kind, to |-> acc.to + tests[i].by]
          ELSE acc
    IN  IF t[p] = "." /\ At(t, p + 1) = "." /\ At(t, p + 2) = "."
        THEN [kind |-> "...", to |-> p + 3]
        ELSE Go(Go(Go([kind |-> t[p], to |-> p + 1], 1), 2), 3)
-----------------------------------------------------------------------------
(***************************************************************************)
(* Literals.  scanFloat: digits, a point, digits, an exponent, an f; an    *)
(* exponent without a digit ends the program.  scanInteger: the extent of  *)
(* what module IntScan gives a value (overflow needs longer texts).        *)
(* scanString: up to the delimiter, with no test for the end of the text   *)
(* before the closing one is found; an unknown escape ends the program.    *)
(***************************************************************************)
Ends(to)  == [to |-> to, status |-> "lexing"]
Exits(to) == [to |-> to, status |-> "exited"]

ScanFloat(t, p) ==
    LET whole == Span(t, p, Decimal)
        frac  == Span(t, IF At(t, whole) = "." THEN whole + 1 ELSE whole, Decimal)
        sign  == IF At(t, frac + 1) \in {"+", "-"} THEN frac + 2 ELSE frac + 1
        exp   == IF At(t, frac) = "e" THEN Span(t, sign, Decimal) ELSE frac
    IN  IF At(t, frac) = "e" /\ At(t, sign) \notin Decimal THEN Exits(sign)
        ELSE Ends(IF At(t, exp) = "f" THEN exp + 1 ELSE exp)

ScanInteger(t, p) ==
    LET second == IF t[p] = "0" THEN At(t, p + 1) ELSE "NUL"
    IN  CASE second = "x"       -> Ends(Span(t, p + 2, DigitsOf(16)))
          [] second = "b"       -> Ends(Span(t, p + 2, DigitsOf(2)))
          [] second \in Decimal -> Ends(Span(t, p + 2, DigitsOf(8)))
          [] OTHER              -> Ends(Span(t, p, DigitsOf(10)))

ScanString(t, p) ==
    LET scan[q \in p..Eof(t) + 1] ==
          IF q > Len(t) THEN [to |-> Eof(t) + 1, status |-> "overrun"]
          ELSE IF t[q] = t[p] THEN Ends(q + 1)
          ELSE IF t[q] # "\\" THEN scan[q + 1]
          ELSE IF At(t, q + 1) \in Escapes THEN scan[q + 2] ELSE Exits(q + 1)
    IN  scan[p + 1]

\* A token with what scanning it did: `again` counts the characters walked
\* over twice, once to find the end of the digits and once by the scan.
Token(kind, from, scan, again) ==
    [kind |-> kind, from |-> from, to |-> scan.to, status |-> scan.status, again |-> again]

LexNextToken(t, p, flag) ==
    LET b     == SkipWhiteSpaces(t, p)
        c     == At(t, b)
        digits == Span(t, b, Decimal)
    IN  CASE c = "NUL"      -> Token("eof", b, Ends(b), 0)
          [] c \in Letters  -> Token("name", b, Ends(Span(t, b, Letters \cup Decimal)), 0)
          [] c = DoubleQuote -> Token("dqstring", b, ScanString(t, b), 0)
          [] c = "'"        -> Token("sqstring", b, ScanString(t, b), 0)
          [] c \in Decimal  -> IF At(t, digits) = "."
                               THEN Token("float", b, ScanFloat(t, b), digits - b)
                               ELSE Token("int", b, ScanInteger(t, b), digits - b)
          [] c = "." /\ At(t, b + 1) \in Decimal -> Token("float", b, ScanFloat(t, b), 1)
          [] c \in Alone \cup Longer /\ ~(c = "." /\ At(t, b + 1) \in Decimal) ->
               LET op == Punctuation(t, b, flag) IN Token(op.kind, b, Ends(op.to), 0)
          [] OTHER          -> Token("eof", b, Exits(b), 0)

\* advanceChar from p to q: the offset grows, a newline resets it.
Newlines(t, p, q) == {i \in p..q - 1 : At(t, i) = "\n"}
LineFirst(l, t, p, q, again) ==           \* mutant: the newline counts in its new line
    LET nl == Newlines(t, p, q)
    IN  [line   |-> l.line + Cardinality(nl),
         offset |-> again + IF nl = {} THEN l.offset + (q - p) ELSE q - Max(nl)]

NewlineLast(l, t, p, q, again) ==         \* mutant: the newline is not counted at all
    LET nl == Newlines(t, p, q)
    IN  [line   |-> l.line + Cardinality(nl),
         offset |-> again + IF nl = {} THEN l.offset + (q - p) ELSE q - 2 - Max(nl)]

Walk(l, t, p, q, again) ==
    LET nl == Newlines(t, p, q)
    IN  [line   |-> l.line + Cardinality(nl),
         offset |-> again + IF nl = {} THEN l.offset + (q - p) ELSE q - 1 - Max(nl)]

\* checkTemplate: a > on this line closes the < that is the current token.
CheckTemplate(t, p, kind) ==
    /\ kind = "<"
    /\ \E q \in p..Len(t) :
         /\ Newlines(t, p, q + 1) = {}
         /\ Cardinality({i \in p..q : t[i] = ">"}) = 1 + Cardinality({i \in p..q : t[i] = "<"})
-----------------------------------------------------------------------------
Lexed(tok) ==
    /\ token' = tok /\ pos' = tok.to /\ status' = tok.status
    /\ loc' = Walk(loc, text, pos, tok.to, tok.again)

\* The constructor reads the first token; Module::parseAst then calls
\* setContextPath, which sets the location back to zero.
Init ==
    /\ text \in Texts
    /\ token = LexNextToken(text, 1, FALSE)
    /\ pos = token.to /\ status = token.status
    /\ loc = Walk([line |-> 0, offset |-> 0], text, 1, pos, token.again)
    /\ template = FALSE /\ start = 0

SetContextPath ==
    /\ status = "lexing" /\ start = 0
    /\ loc' = [line |-> 0, offset |-> 0] /\ start' = pos
    /\ UNCHANGED <<text, pos, token, template, status>>

NextToken ==
    /\ status = "lexing" /\ start > 0 /\ token.kind # "eof"
    /\ Lexed(LexNextToken(text, pos, template))
    /\ UNCHANGED <<text, template, start>>

\* The calls of parse_templatespec: the flag is raised once the token after
\* the < is read, and lowered after the list.
ParsingTemplateContext ==
    /\ status = "lexing" /\ start > 0 /\ CheckTemplate(text, pos, token.kind)
    /\ Lexed(LexNextToken(text, pos, template))
    /\ template' = (template \/ token'.kind # ">")
    /\ UNCHANGED <<text, start>>

EndOfParsingTemplateContext ==
    /\ status = "lexing" /\ start > 0
    /\ template' = FALSE
    /\ UNCHANGED <<text, pos, loc, token, start, status>>

AtEnd == (status # "lexing" \/ (start > 0 /\ token.kind = "eof")) /\ UNCHANGED vars

Next ==
    \/ SetContextPath \/ NextToken
    \/ ParsingTemplateContext \/ EndOfParsingTemplateContext \/ AtEnd

Spec == Init /\ [][Next]_vars
-----------------------------------------------------------------------------
\* Types of the lexer's state.
TypeOK ==
    /\ text \in Seq(STRING) /\ pos \in Nat /\ start \in 0..Eof(text)
    /\ loc.line \in Nat /\ loc.offset \in Nat
    /\ template \in BOOLEAN /\ status \in {"lexing", "exited", "overrun"}
    /\ token.from \in 1..Eof(text) /\ token.to = pos

\* The parse point never passes the end of the text, which isEof only knows by
\* equality, however many characters the tests ahead of it look at: all but for
\* a string that is not closed.
StaysInside == pos <= Eof(text) \/ status = "overrun"

\* Between two tokens there are only blanks and line comments: no character of
\* a program is dropped, whatever mixture of literals, comments and operators
\* the text is, and none is read twice.  Each token takes some, until the end:
\* whatever loop of the parser reads tokens comes to the end of the file.
Blank(t, i) ==
    \/ t[i] \in White
    \/ \E j \in 1..i : /\ t[j] = "/" /\ At(t, j + 1) = "/"
                      /\ \A k \in j..i : t[k] \notin {"\r", "\n"}
Tiles == [][token' # token =>
              /\ token'.from >= pos /\ \A i \in pos..token'.from - 1 : Blank(text, i)
              /\ pos' > pos \/ token'.kind = "eof"]_vars

\* The position of messages: the line counts the newlines read since the
\* context was set, and the offset is the column, never less; it is more when
\* the line has a number, whose digits are counted twice.
LocationOK ==
    status = "lexing" /\ start > 0 =>
        LET nl  == Newlines(text, start, pos)
            bol == Max(nl \cup {start - 1})
        IN  /\ loc.line = Cardinality(nl)
            /\ loc.offset >= pos - 1 - bol
            /\ loc.offset = pos - 1 - bol \/ \E i \in bol + 1..pos - 1 : text[i] \in Decimal

\* What a token is does not depend on what follows it: read alone it is the
\* same token.  The token of a single - before another one is the exception.
ReadAlone ==
    status = "lexing" /\ token.kind \notin {"eof", "--"} =>
        LET own   == SubSeq(text, token.from, token.to - 1)
        IN  \E flag \in BOOLEAN :
              LET alone == LexNextToken(own, 1, flag)
              IN  alone.kind = token.kind /\ alone.to = Eof(own)
=============================================================================
