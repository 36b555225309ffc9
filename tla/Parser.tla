------------------------------- MODULE Parser -------------------------------
(***************************************************************************)
(* The recursive-descent parsers (src/Plang/src/parser and                 *)
(* Module::parseAst).  The C++ call stack is the variable `stack`, a       *)
(* sequence of what is still to be done: a function to call, a token to    *)
(* expect, an operator loop to go on with, a node to build.  One operator  *)
(* below per parsing function gives what its body does next, as far as it  *)
(* can see from the current token.                                         *)
(*                                                                         *)
(* Tokens are chosen when they are read.  A parse starts with one of the   *)
(* functions, and Kinds and MaxTokens bound the text for each of them.     *)
(* `last` is Lexer::isEof, which is about the characters: it holds of the  *)
(* eof token, and already of a last token that no blank follows.           *)
(* Names holds the kind "name" and the keywords, which are names as well.  *)
(* The other kinds are the signs themselves, but for "comma", "semicolon", *)
(* "lbrace" and "rbrace".                                                  *)
(***************************************************************************)
EXTENDS Integers, Sequences

CONSTANTS
    Kinds,      \* for each function a parse starts with, the kinds of tokens in its text
    MaxTokens   \* for each such function, the bound on the tokens of its text

VARIABLES
    start,      \* the function the parse started with
    stack,      \* what is still to be done
    tok, last,  \* the current token and Lexer::isEof
    left,       \* how many tokens may still be read
    open,       \* history: the brackets read and not yet closed
    outcome     \* "parsing", "accepted" or "failed" (the program ends)

vars == <<start, stack, tok, last, left, open, outcome>>

Names    == {"name", "fn", "struct", "union", "use", "extern", "const", "for",
             "while", "comptime", "return", "new"}
Literals == {"int", "float", "dqstring"}

Call(f)    == [do |-> "call",   what |-> f]
Expect(k)  == [do |-> "expect", what |-> k]    \* "anyName" and "any" as well
Loop(l)    == [do |-> "loop",   what |-> l]
Build(n)   == [do |-> "build",  node |-> n]
Name       == Expect("anyName")
Fail       == <<[do |-> "fail", what |-> "fail"]>>

\* if (lexer->expect(k)) ...
If(k, body) == IF tok = k THEN <<Expect(k)>> \o body ELSE <<>>
\* while (!lexer->isEof()) { if the token is the closing one, break; ... }
Until(close, body) == IF last \/ tok = close THEN <<>> ELSE body
-----------------------------------------------------------------------------
(***************************************************************************)
(* Module::parseAst and declParser.cpp.                                    *)
(***************************************************************************)
ParseAst == IF last THEN <<>> ELSE <<Call("decl"), Call("ast")>>

IgnoreDecl ==                      \* mutant: what is no declaration is passed over
    IF tok \in {"fn", "struct", "use"} THEN <<Call(IF tok = "struct" THEN "aggregate" ELSE tok)>>
    ELSE <<>>

ParseDecl ==
    CASE tok = "fn"                  -> <<Call("fn")>>
      [] tok \in {"struct", "union"} -> <<Call("aggregate")>>
      [] tok = "use"                 -> <<Call("use")>>
      [] OTHER                       -> Fail

ParseFn == <<Expect("fn"), Name, Call("fnParams"), Call("fnResult"), Call("scope")>>
FnResult ==
    CASE tok = ":"      -> <<Expect(":"), Call("typespec"), Call("fnExtern")>>
      [] OTHER          -> <<Call("fnExtern")>>
FnExtern == If("extern", <<>>)

NoOpening     == <<Call("params"), Expect(")")>>      \* mutant: ( is not asked for
ParseFnParams == <<Expect("("), Call("params"), Expect(")")>>
Params        == Until(")", <<Call("paramOrDots")>>)
MoreParams    == Until(")", <<Expect("comma"), Call("paramOrDots")>>)
ParamOrDots   == IF tok = "..." THEN <<Expect("...")>>
                 ELSE <<Call("fnParam"), Call("moreParams")>>
ParseFnParam  == <<Name, Expect(":"), Call("typespec"), Call("default")>>
Default       == If("=", <<Call("expr")>>)

ParseAggregate ==
    <<Expect(IF tok = "union" THEN "union" ELSE "struct"), Name,
      Expect("lbrace"), Call("fields"), Expect("rbrace")>>
Fields ==
    Until("rbrace", IF tok = "fn" THEN <<Call("fn"), Call("fields")>>
                             ELSE <<Call("fnParam"), Call("fields")>>)

\* The scopes of a use, each a name (an assertion) with a :: that may be left
\* out, then what is imported: any token at all is taken for a name.
ParseUseModule == <<Expect("use"), Call("useScope"), Call("useArgs"), Expect("semicolon")>>
UseScope       == <<Name, Call("useScopeRes"), Call("useScopes")>>
UseScopeRes    == If("::", <<>>)
UseScopes      == IF ~last /\ tok \in Names \cup {"::"} THEN <<Call("useScope")>> ELSE <<>>
UseModuleArgs  ==
    IF tok # "lbrace" THEN <<Call("useArg")>>
    ELSE <<Expect("lbrace"), Call("useArgList"), Expect("rbrace")>>
UseArgList     == IF tok \in Names THEN <<Call("useArg"), Call("moreUseArgs")>> ELSE <<>>
MoreUseArgs    == IF ~last /\ tok \in Names \cup {"comma"}
                  THEN <<Expect("comma"), Call("useArg"), Call("moreUseArgs")>> ELSE <<>>
ParseModuleArg == IF tok = "*" THEN <<Expect("*")>> ELSE <<Expect("any")>>
-----------------------------------------------------------------------------
(***************************************************************************)
(* stmtParser.cpp.  A for without a body always has its first expression,  *)
(* so the error for one that has none is never reached.                    *)
(***************************************************************************)
ParseScope == IF tok = "semicolon" THEN <<Expect("semicolon")>>
              ELSE <<Expect("lbrace"), Call("stmts"), Expect("rbrace")>>
Stmts      == Until("rbrace", <<Call("stmt"), Call("stmts")>>)

ParseStmt ==
    CASE tok = "for"      -> <<Expect("for"), Call("unlessBody"), Call("forNext"),
                               Call("forNext"), Call("body")>>
      [] tok = "while"    -> <<Expect("while"), Call("unlessBody"), Call("body")>>
      [] tok = "comptime" -> <<Expect("comptime"), Call("scope")>>
      [] tok = "return"   -> <<Expect("return"), Call("returned"), Expect("semicolon")>>
      [] OTHER            -> <<Call("expr"), Expect("semicolon")>>
UnlessBody == IF tok = "lbrace" THEN <<>> ELSE <<Call("expr")>>
ForNext    == If("semicolon", <<Call("expr")>>)
Body       == IF tok = "lbrace" THEN <<Call("scope")>> ELSE <<>>
Returned   == IF tok = "semicolon" THEN <<>> ELSE <<Call("expr")>>
-----------------------------------------------------------------------------
(***************************************************************************)
(* typespecParser.cpp.  checkTemplate looks ahead in the text, which is    *)
(* not chosen yet: `closed` is what it answers.  After the keyword const   *)
(* the token is still const, so the & is not there and the type is parsed  *)
(* from the same token again.                                              *)
(***************************************************************************)
ParseTypespec ==
    CASE tok = "const" -> <<Call("typespec")>>
      [] tok = "["     -> <<Expect("["), Call("size"), Expect("]"), Call("typespec")>>
      [] tok = "*"     -> <<Expect("*"), Call("typespec")>>
      [] tok = "&"     -> <<Expect("&"), Name, Call("noTemplate")>>
      [] OTHER         -> <<Name, Call("template")>>
ArraySize  == IF tok = "]" THEN <<>> ELSE <<Call("expr")>>
NoTemplate(closed) == IF tok = "<" /\ closed THEN Fail ELSE <<>>
ParseTemplatespec(closed) ==
    IF tok = "<" /\ closed THEN <<Expect("<"), Call("typeList"), Expect(">")>> ELSE <<>>
TypeList   == IF tok = ">" THEN <<>> ELSE <<Call("typespec"), Call("moreTypes")>>
MoreTypes  == IF ~last /\ tok = "comma"
              THEN <<Expect("comma"), Call("typespec"), Call("moreTypes")>> ELSE <<>>
-----------------------------------------------------------------------------
(***************************************************************************)
(* exprParser.cpp.  parse_or, parse_and, parse_cmp, parse_add and          *)
(* parse_mul are one scheme: an operand of the next level, and as long as  *)
(* an operator of the level follows, another one, to the left.             *)
(***************************************************************************)
Operators == [or  |-> {"||"},
              and |-> {"&&"},
              cmp |-> {"=", "!=", "<", ">", "<=", ">="},
              add |-> {"+", "-", "^", "|"},
              mul |-> {"*", "/", "%", "&", "<<", ">>"}]
Tighter   == [or |-> "and", and |-> "cmp", cmp |-> "add", add |-> "mul", mul |-> "unary"]
Unary     == {"*", "&", "-", "!", "+"}

RightToLeft(l) == IF tok \notin Operators[l] THEN <<>>   \* mutant: groups to the right
                  ELSE <<Expect(tok), Call(l), Build(<<"binary", tok>>), Loop(l)>>
ParseLevel(l) == <<Call(Tighter[l]), Loop(l)>>
LoopLevel(l)  == IF tok \notin Operators[l] THEN <<>>
                 ELSE <<Expect(tok), Call(Tighter[l]), Build(<<"binary", tok>>), Loop(l)>>

ParseTernary == <<Call("or"), Call("ternaryRest")>>
TernaryRest  == If("?", <<Call("expr"), Expect(":"), Call("expr"), Build(<<"ternary">>)>>)

ParseUnary ==
    CASE tok \in {"++", "--"} -> Fail
      [] tok \in Unary        -> <<Expect(tok), Call("unary"), Build(<<"unary", tok>>)>>
      [] OTHER                -> <<Call("operand"), Call("postfix")>>

ParseBase ==
    CASE tok = "("            -> <<Expect("("), Call("args"), Expect(")"), Build(<<"call">>), Call("postfix")>>
      [] tok = "["            -> <<Expect("["), Call("expr"), Expect("]"), Build(<<"index">>), Call("postfix")>>
      [] tok \in {".", "->"}  -> <<Expect(tok), Name, Build(<<"field", tok>>), Call("postfix")>>
      [] tok \in {"++", "--"} -> <<Expect(tok), Build(<<"modify", tok>>), Call("postfix")>>
      [] OTHER                -> <<>>
ParseCallArgs == Until(")", <<Call("expr"), Call("moreArgs")>>)
MoreArgs      == Until(")", <<Expect("comma"), Call("expr"), Call("moreArgs")>>)

ParseOperand ==
    CASE tok \in Literals -> <<Expect(tok), Build(<<tok>>)>>
      [] tok = "("        -> <<Expect("("), Call("expr"), Expect(")")>>
      [] tok \in Names \ {"new"} -> <<Name, Call("nameRest")>>
      [] OTHER            -> Fail
NameRest  == IF tok = ":" THEN <<Call("init")>> ELSE <<Build(<<"name">>)>>
ParseInit == <<Expect(":"), Call("initType"), Call("default"), Build(<<"init">>)>>
InitType  == IF tok = "=" THEN <<>> ELSE <<Call("typespec")>>
-----------------------------------------------------------------------------
\* The parsing functions, and the ends of them that a token decides about.
Functions ==
    {"ast", "decl", "fn", "fnParams", "params", "moreParams", "paramOrDots", "fnParam",
     "default", "fnResult", "fnExtern", "aggregate", "fields", "use", "useScope",
     "useScopeRes", "useScopes", "useArgs", "useArgList", "moreUseArgs", "useArg", "scope",
     "stmts", "stmt", "unlessBody", "forNext", "body", "returned", "typespec", "size",
     "template", "noTemplate", "typeList", "moreTypes", "expr", "ternaryRest", "unary",
     "postfix", "args", "moreArgs", "operand", "nameRest", "init", "initType"}
      \cup DOMAIN Operators

ASSUME StartAssumption == DOMAIN Kinds \subseteq Functions

\* The body of each function.
Does(f, closed) ==
    CASE f = "ast"         -> ParseAst
      [] f = "decl"        -> ParseDecl
      [] f = "fn"          -> ParseFn
      [] f = "fnParams"    -> ParseFnParams
      [] f = "params"      -> Params
      [] f = "moreParams"  -> MoreParams
      [] f = "paramOrDots" -> ParamOrDots
      [] f = "fnParam"     -> ParseFnParam
      [] f = "default"     -> Default
      [] f = "fnResult"    -> FnResult
      [] f = "fnExtern"    -> FnExtern
      [] f = "aggregate"   -> ParseAggregate
      [] f = "fields"      -> Fields
      [] f = "use"         -> ParseUseModule
      [] f = "useScope"    -> UseScope
      [] f = "useScopeRes" -> UseScopeRes
      [] f = "useScopes"   -> UseScopes
      [] f = "useArgs"     -> UseModuleArgs
      [] f = "useArgList"  -> UseArgList
      [] f = "moreUseArgs" -> MoreUseArgs
      [] f = "useArg"      -> ParseModuleArg
      [] f = "scope"       -> ParseScope
      [] f = "stmts"       -> Stmts
      [] f = "stmt"        -> ParseStmt
      [] f = "unlessBody"  -> UnlessBody
      [] f = "forNext"     -> ForNext
      [] f = "body"        -> Body
      [] f = "returned"    -> Returned
      [] f = "typespec"    -> ParseTypespec
      [] f = "size"        -> ArraySize
      [] f = "template"    -> ParseTemplatespec(closed)
      [] f = "noTemplate"  -> NoTemplate(closed)
      [] f = "typeList"    -> TypeList
      [] f = "moreTypes"   -> MoreTypes
      [] f = "expr"        -> ParseTernary
      [] f = "ternaryRest" -> TernaryRest
      [] f \in DOMAIN Operators -> ParseLevel(f)
      [] f = "unary"       -> ParseUnary
      [] f = "postfix"     -> ParseBase
      [] f = "args"        -> ParseCallArgs
      [] f = "moreArgs"    -> MoreArgs
      [] f = "operand"     -> ParseOperand
      [] f = "nameRest"    -> NameRest
      [] f = "init"        -> ParseInit
      [] f = "initType"    -> InitType

Top     == Head(stack)
Busy(d) == outcome = "parsing" /\ stack # <<>> /\ Top.do = d

Matches(k) == CASE k = "anyName" -> tok \in Names
                [] k = "any"     -> TRUE
                [] OTHER         -> tok = k

\* Lexer::nextToken: the next token of the text, eof after the last.
NextToken ==
    \E k \in Kinds[start] \cup {"eof"}, l \in BOOLEAN :
      /\ left = 0 \/ last => k = "eof"
      /\ k = "eof" => l
      /\ tok' = k /\ last' = l
      /\ left' = IF k = "eof" THEN 0 ELSE left - 1

Closes == [k \in {")", "]", "rbrace"} |->
             CASE k = ")" -> "(" [] k = "]" -> "[" [] k = "rbrace" -> "lbrace"]

\* A token taken for the name of an import is no bracket.
Bracketed(k) ==
    IF Top.what = "any" THEN open
    ELSE CASE k \in {"(", "[", "lbrace"} -> Append(open, k)
           [] k \in DOMAIN Closes        -> SubSeq(open, 1, Len(open) - 1)
           [] OTHER                      -> open
-----------------------------------------------------------------------------
Init ==
    /\ start \in DOMAIN Kinds
    /\ stack = <<Call(start)>> /\ open = <<>> /\ outcome = "parsing"
    /\ tok \in Kinds[start] \cup {"eof"} /\ last \in BOOLEAN
    /\ tok = "eof" => last
    /\ left = IF tok = "eof" THEN 0 ELSE MaxTokens[start] - 1

Parse ==
    /\ Busy("call")
    /\ \E closed \in IF tok = "<" /\ ~last THEN BOOLEAN ELSE {FALSE} :
         stack' = Does(Top.what, closed) \o Tail(stack)
    /\ UNCHANGED <<start, tok, last, left, open, outcome>>

GoOn ==
    /\ Busy("loop")
    /\ stack' = LoopLevel(Top.what) \o Tail(stack)
    /\ UNCHANGED <<start, tok, last, left, open, outcome>>

Take ==
    /\ Busy("expect") /\ Matches(Top.what)
    /\ stack' = Tail(stack) /\ open' = Bracketed(tok)
    /\ NextToken
    /\ UNCHANGED <<start, outcome>>

New ==
    /\ Busy("build")
    /\ stack' = Tail(stack)
    /\ UNCHANGED <<start, tok, last, left, open, outcome>>

\* syntax_error, fatal_error, exit and assert all end the program.
SyntaxError ==
    /\ Busy("fail") \/ (Busy("expect") /\ ~Matches(Top.what))
    /\ outcome' = "failed"
    /\ UNCHANGED <<start, stack, tok, last, left, open>>

Return ==
    /\ outcome = "parsing" /\ stack = <<>>
    /\ outcome' = "accepted"
    /\ UNCHANGED <<start, stack, tok, last, left, open>>

Ended == outcome # "parsing" /\ UNCHANGED vars

Next == Parse \/ GoOn \/ Take \/ New \/ SyntaxError \/ Return \/ Ended

Spec == Init /\ [][Next]_vars /\ WF_vars(Next)
-----------------------------------------------------------------------------
\* A bracket that is taken closes the last one open, whatever declarations,
\* statements, types and expressions lie between, and a text that is accepted
\* has closed them all.  (But for the token taken for the name of an import.)
BracketsMatch ==
    /\ Busy("expect") /\ tok \in DOMAIN Closes /\ Top.what = tok
         => open # <<>> /\ open[Len(open)] = Closes[tok]
    /\ outcome = "accepted" => open = <<>>

\* Every text is accepted or rejected: no function calls itself, and no loop
\* goes round, without taking a token.
ParserEnds == <>(outcome # "parsing")

\* What the message of parse_constspec says it expects: the keyword const in
\* front of a type.
ConstTypeParses == [](tok = "const" => <>(outcome # "parsing"))
=============================================================================
