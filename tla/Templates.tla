----------------------------- MODULE Templates -----------------------------
(***************************************************************************)
(* The parser of types composed with the lexer.  The lexer reads >> as one *)
(* token, unless its template flag is up; parse_templatespec raises the    *)
(* flag for its list of arguments and lowers it after the list, and lists  *)
(* are nested.  A token is lexed one step before the parser looks at it,   *)
(* under the flag of that moment.                                          *)
(*                                                                         *)
(* The types are those of names, pointers and templates: an array or a     *)
(* reference adds no list.                                                 *)
(***************************************************************************)
EXTENDS Lexer

VARIABLES
    stack,      \* what is left to do, each [do, at]: at is the < it is about
    nodes,      \* history: the templates built, each its < and its >
    outcome     \* "parsing", "accepted" or "failed"; or "reading", no type at all

pvars == <<stack, nodes, outcome>>

Do(what, at) == [do |-> what, at |-> at]
Top          == Head(stack)
Busy(what)   == outcome = "parsing" /\ stack # <<>> /\ Top.do = what
Then(s)      == stack' = s \o Tail(stack)
-----------------------------------------------------------------------------
PInit == Init /\ stack = <<Do("typespec", 0)>> /\ nodes = {} /\ outcome = "parsing"
RInit == Init /\ stack = <<>>                  /\ nodes = {} /\ outcome = "reading"

Begin == SetContextPath /\ UNCHANGED pvars

\* parse_ptrspec and parse_namespec, after which comes the template, if any.
ParsePtrspec ==
    /\ Busy("typespec") /\ token.kind = "*"
    /\ NextToken /\ UNCHANGED <<pvars>>

ParseNamespec ==
    /\ Busy("typespec") /\ token.kind = "name"
    /\ NextToken /\ Then(<<Do("template", 0)>>)
    /\ UNCHANGED <<nodes, outcome>>

ParseBasespec ==
    /\ Busy("template") /\ ~CheckTemplate(text, pos, token.kind)
    /\ Then(<<>>) /\ UNCHANGED <<vars, nodes, outcome>>

\* parse_templatespec: the token after the < is read, then the flag is raised.
Lists(at, empty) == (IF empty THEN <<>> ELSE <<Do("typespec", 0), Do("more", at), Do("lower", at)>>)
                      \o <<Do("close", at)>>

FlagDown ==                        \* mutant: the flag is not raised
    /\ Busy("template") /\ CheckTemplate(text, pos, token.kind) /\ NextToken
    /\ Then(Lists(token.from, token'.kind = ">"))
    /\ UNCHANGED <<nodes, outcome>>

ParseTemplatespec ==
    /\ Busy("template") /\ ParsingTemplateContext
    /\ Then(Lists(token.from, token'.kind = ">"))
    /\ UNCHANGED <<nodes, outcome>>

\* parse_typespec_list
MoreTypes ==
    /\ Busy("more") /\ pos # Eof(text) /\ token.kind = ","
    /\ NextToken /\ Then(<<Do("typespec", 0), Top>>)
    /\ UNCHANGED <<nodes, outcome>>

NoMoreTypes ==
    /\ Busy("more") /\ ~(pos # Eof(text) /\ token.kind = ",")
    /\ Then(<<>>) /\ UNCHANGED <<vars, nodes, outcome>>

LeaveUp ==                         \* mutant: the flag is not lowered after a list
    /\ Busy("lower")
    /\ Then(<<>>) /\ UNCHANGED <<vars, nodes, outcome>>

LowerFlag ==
    /\ Busy("lower") /\ EndOfParsingTemplateContext
    /\ Then(<<>>) /\ UNCHANGED <<nodes, outcome>>

CloseTemplate ==
    /\ Busy("close") /\ token.kind = ">"
    /\ NextToken /\ Then(<<>>)
    /\ nodes' = nodes \cup {<<Top.at, token.from>>}
    /\ UNCHANGED outcome

SyntaxError ==
    /\ \/ Busy("typespec") /\ token.kind \notin {"*", "name"}
       \/ Busy("close") /\ token.kind # ">"
    /\ start > 0 /\ outcome' = "failed"
    /\ UNCHANGED <<vars, stack, nodes>>

Return ==
    /\ outcome = "parsing" /\ stack = <<>>
    /\ outcome' = "accepted"
    /\ UNCHANGED <<vars, stack, nodes>>

Ended == outcome # "parsing" /\ UNCHANGED <<vars, pvars>>

PNext ==
    \/ Begin \/ ParsePtrspec \/ ParseNamespec \/ ParseBasespec \/ ParseTemplatespec
    \/ MoreTypes \/ NoMoreTypes \/ LowerFlag \/ CloseTemplate \/ SyntaxError \/ Return \/ Ended

PSpec == PInit /\ [][PNext]_<<vars, pvars>>

\* The same texts read by whoever calls the lexer, in any order of its calls.
RNext == outcome = "reading" /\ Next /\ UNCHANGED pvars
-----------------------------------------------------------------------------
\* The types written out: of at most n templates inside one another, each with
\* one or two arguments, closed by `close`.
Written(n, close) ==
    LET types[k \in 0..n] ==
          IF k = 0 THEN {<<"A">>}
          ELSE LET args == types[k - 1]
               IN  args \cup {<<"*">> \o x : x \in args}
                     \cup {<<"A", "<">> \o x \o close : x \in args}
                     \cup {<<"A", "<">> \o x \o <<",">> \o y \o close : x \in args, y \in args}
    IN  types[n]

\* Where the < or the > are that stand before p and in no comment.
Brackets(t, b, p) == {i \in 1..p - 1 : t[i] = b /\ ~Blank(t, i)}

\* Of two templates one is written after the other, or inside it.
Precedes(m, n)  == m[2] < n[1]
Inside(m, n) == n[1] < m[1] /\ m[2] < n[2]

\* The templates of an accepted type are the ones that were written: each <
\* read has its own >, and so each > its own <.  The flag is down again, so that
\* the lexer reads >> as a shift after a type.
ReadAsWritten ==
    outcome = "accepted" =>
        /\ ~template
        /\ {n[1] : n \in nodes} = Brackets(text, "<", token.from)
        /\ {n[2] : n \in nodes} = Brackets(text, ">", token.from)
        /\ \A n \in nodes : n[1] < n[2]
        /\ \A m, n \in nodes :
             m = n \/ Precedes(m, n) \/ Precedes(n, m) \/ Inside(m, n) \/ Inside(n, m)

\* The lists that are open before p.
Nesting(t, p) == Cardinality({i \in 1..p - 1 : t[i] = "<"}) - Cardinality({i \in 1..p - 1 : t[i] = ">"})

\* A type up to its semicolon, with a blank or none after each closing >: by what
\* may come after each character, and by the lists that are open there.
WellWritten(t) ==
    /\ t # <<>> /\ t[1] \in {"A", "*"} /\ t[Len(t)] = ";"
    /\ \A i \in 1..Len(t) - 1 :
         \/ t[i] \in {"*", "<", ","} /\ t[i + 1] \in {"A", "*"}
         \/ t[i] = "A" /\ t[i + 1] \in {"<", ">", ",", ";"}
         \/ t[i] = ">" /\ t[i + 1] \in {">", ",", ";", " "}
         \/ t[i] = " " /\ t[i + 1] \in {">", ",", ";"}
    /\ \A i \in 1..Len(t) : Nesting(t, i) >= IF t[i] = "," THEN 1 ELSE 0
    /\ Nesting(t, Len(t)) = 0

\* A type that is well written is read to its end, but when it has three lists
\* inside one another and two closing > without a blank between them.
RejectedOnlyIfDeep ==
    (outcome = "failed" \/ (outcome = "accepted" /\ token.kind # ";")) /\ WellWritten(text) =>
        /\ \E i \in DOMAIN text : Nesting(text, i) >= 3
        /\ \E i \in 1..Len(text) - 1 : text[i] = ">" /\ text[i + 1] = ">"
=============================================================================
