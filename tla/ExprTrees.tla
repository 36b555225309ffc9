------------------------------ MODULE ExprTrees ------------------------------
(***************************************************************************)
(* The trees that the parser of expressions builds.  Two history variables *)
(* are added to the parse of an expression: the tokens taken, and the      *)
(* nodes built, in the order of their construction, which is the postfix   *)
(* form of the tree.                                                       *)
(*                                                                         *)
(* PostfixOf says what the tree of a text is without the parser: it is     *)
(* split at its operator of the lowest level, the last one, since every    *)
(* level groups to the left; = is of the level of the comparisons, below   *)
(* && and ||.  It is written for texts of literals, operators, calls,      *)
(* indexes and ternaries.                                                  *)
(***************************************************************************)
EXTENDS Parser, SequencesExt, FiniteSetsExt

VARIABLES read, built

Expressions == {"expr", "or"}    \* parse_ternary, and parse_or below it

Init2 == Init /\ read = <<>> /\ built = <<>>

Next2 ==
    /\ Next
    /\ read'  = IF start \in Expressions /\ Busy("expect") /\ Matches(Top.what)
                THEN Append(read, tok) ELSE read
    /\ built' = IF start \in Expressions /\ Busy("build") THEN Append(built, Top.node) ELSE built

SpecWithHistory == Init2 /\ [][Next2]_<<vars, read, built>> /\ WF_<<vars, read, built>>(Next2)
-----------------------------------------------------------------------------
Levels  == <<"or", "and", "cmp", "add", "mul">>
Openers == {"(", "["}

\* How many brackets token i is inside of, and how many of the ? before it
\* have no : yet.
Depth(s, i)     == Cardinality({j \in 1..i - 1 : s[j] \in Openers})
                     - Cardinality({j \in 1..i : s[j] \in {")", "]"}})
Outside(s, K)   == {i \in DOMAIN s : s[i] \in K /\ Depth(s, i) = 0}
Questions(s, i) == Cardinality(Outside(s, {"?"}) \cap 1..i) - Cardinality(Outside(s, {":"}) \cap 1..i)

\* The operators of a level that have an operand before them: the others are
\* signs of what follows.
Splits(s, l) == {i \in Outside(s, Operators[l]) \ {1} :
                   s[i - 1] \in Literals \cup {")", "]", "++"}}

RECURSIVE PostfixOf(_)
PostfixOf(s) ==
    LET n          == Len(s)
        From(i, j) == PostfixOf(SubSeq(s, i, j))
        question   == Min(Outside(s, {"?"}))
        colon      == Min({i \in Outside(s, {":"}) : Questions(s, i) = 0})
        level      == SelectInSeq(Levels, LAMBDA l : Splits(s, l) # {})
        operator   == Max(Splits(s, Levels[level]))
        opening    == Max(Outside(s, Openers))
        commas     == SetToSortSeq({k \in opening + 1..n : s[k] = "comma" /\ Depth(s, k) = 1}
                                     \cup {opening, n}, <)
        arguments  == IF opening + 1 = n THEN <<>>
                      ELSE [k \in 1..Len(commas) - 1 |-> From(commas[k] + 1, commas[k + 1] - 1)]
        Operand    ==
          CASE n = 1              -> <<<<s[1]>>>>
            [] s[n] = "++"        -> From(1, n - 1) \o <<<<"modify", "++">>>>
            [] s[n] = "]"         -> From(1, opening - 1) \o From(opening + 1, n - 1) \o <<<<"index">>>>
            [] s[n] = ")"         -> IF opening = 1 THEN From(2, n - 1)
                                     ELSE From(1, opening - 1) \o FlattenSeq(arguments) \o <<<<"call">>>>
    IN  IF Outside(s, {"?"}) # {}
        THEN From(1, question - 1) \o From(question + 1, colon - 1) \o From(colon + 1, n) \o <<<<"ternary">>>>
        ELSE IF level # 0
        THEN From(1, operator - 1) \o From(operator + 1, n) \o <<<<"binary", s[operator]>>>>
        ELSE IF s[1] \in Unary THEN From(2, n) \o <<<<"unary", s[1]>>>> ELSE Operand

\* The tree of an expression that is accepted is the one its operators' levels
\* and brackets say, for every mixture of them.
TreeFollowsLevels == start \in Expressions /\ outcome = "accepted" => built = PostfixOf(read)
=============================================================================
