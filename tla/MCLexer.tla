------------------------------ MODULE MCLexer ------------------------------
(***************************************************************************)
(* Texts for the lexer and for the parser of types on it.  The lexer reads *)
(* all strings of up to Length characters over each of four alphabets      *)
(* (operators, numbers, strings and comments, lines), and of up to two     *)
(* over all of them together.  The parser gets well-written types of up to *)
(* Depth lists inside one another, with and without a blank after each     *)
(* closing >, and a semicolon at the end.                                  *)
(***************************************************************************)
EXTENDS Templates

CONSTANTS Length, Depth

Strings(alphabet, n) == UNION {[1..k -> alphabet] : k \in 0..n}

Operators == {"+", "-", "&", "=", "<", ">", "."}
Numbers   == {"0", "1", "8", "b", "x", "e", ".", "-"}
Quoted    == {"\"", "'", "\\", "n", " ", "/"}
Lines     == {"/", "*", "\n", "\r", "1", "T", "@"}
AllChars  == Operators \cup Numbers \cup Quoted \cup Lines
               \cup {",", ":", ";", "!", "^", "%", "|", "?", "(", "\t", "f", "_"}

StringTexts == Strings(Operators, Length) \cup Strings(Numbers, Length)
                 \cup Strings(Quoted, Length) \cup Strings(Lines, Length)
                 \cup Strings(AllChars, 2)
TypeTexts   == {t \o <<";">> : t \in Written(Depth, <<">">>) \cup Written(Depth, <<">", " ">>)}
MCTexts     == StringTexts \cup TypeTexts

\* The texts of the parser are what RejectedOnlyIfDeep is about.
ASSUME TypesWellWritten == \A t \in TypeTexts : WellWritten(t)

MCInit == \/ RInit /\ text \in StringTexts
          \/ PInit /\ text \in TypeTexts
MCSpec == MCInit /\ [][RNext \/ PNext]_<<vars, pvars>>
=============================================================================
