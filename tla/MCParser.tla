------------------------------ MODULE MCParser ------------------------------
(***************************************************************************)
(* Texts for the parser, by the function that a parse starts with.         *)
(***************************************************************************)
EXTENDS ExprTrees

\* Modules: declarations, with statements and expressions reduced to names and
\* calls.  Scopes: statements, with a few expressions and types in them.
\* Expressions of every form, and longer ones of operators only.
MCKinds == [
    ast   |-> {"name", "fn", "struct", "use", "extern", "(", ")", "lbrace", "rbrace", "[", "]",
               ":", "::", "semicolon", "comma", "*", "...", "="},
    scope |-> {"name", "int", "for", "while", "comptime", "return", "new", "lbrace", "rbrace",
               "semicolon", ":", "=", "&", "<", ">", "comma", "[", "]", "++"},
    expr  |-> {"int", "+", "*", "(", ")", "[", "]", "?", ":", "comma", "++"},
    or    |-> {"int", "+", "*", "<", "&&", "||", "(", ")"}]
MCMaxTokens == [ast |-> 11, scope |-> 7, expr |-> 6, or |-> 7]

\* Types with const in front of them, or inside.
ConstKinds     == [typespec |-> {"name", "const", "*"}]
ConstMaxTokens == [typespec |-> 4]
=============================================================================
