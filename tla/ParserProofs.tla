---------------------------- MODULE ParserProofs ----------------------------
(***************************************************************************)
(* Proof that brackets match, for texts of any length and of any tokens.   *)
(*                                                                         *)
(* What is still to be done tells how the brackets that are open will be   *)
(* closed: an opening bracket to be expected adds one, a closing one takes *)
(* the last away, and everything else leaves them alone.  The invariant is *)
(* that doing all of the stack leads from the brackets open now to none.   *)
(* It is kept because each function, done whole, leaves the open brackets  *)
(* as it found them, whatever tokens decide about its body.                *)
(***************************************************************************)
EXTENDS Parser, TLAPS

Openers  == {"(", "[", "lbrace"}
Closers  == DOMAIN Closes
Brackets == Openers \cup Closers

\* What a frame may say: the kinds of tokens and of nodes.
Words == Names \cup Literals \cup Brackets \cup Unary
           \cup {"||", "&&", "=", "!=", "<", ">", "<=", ">=", "^", "|", "/", "%", "<<", ">>"}
           \cup {"union", ":", "::", "?", "comma", "semicolon", "...", ".", "->", "++", "--",
                 "anyName", "any"}
           \cup {"binary", "ternary", "unary", "call", "index", "field", "modify", "init"}

Frames == [do : {"call"},   what : Functions]
            \cup [do : {"expect"}, what : Words]
            \cup [do : {"loop"},   what : DOMAIN Operators]
            \cup [do : {"fail"},   what : {"fail"}]
            \cup [do : {"build"},  node : Seq(Words)]

AtBracket(f, K) == f.do = "expect" /\ f.what \in K
Plain == {f \in Frames : ~AtBracket(f, Brackets)}

\* What doing f makes of the brackets o that are open.
Effect(f, o, z) ==
    IF AtBracket(f, Openers) THEN z = Append(o, f.what)
    ELSE IF AtBracket(f, Closers) THEN o = Append(z, Closes[f.what])
    ELSE z = o

\* Doing all of s leads from the open brackets o to the open brackets z.
Passes(s, o, z, d) ==
    /\ d \in [1..Len(s) + 1 -> Seq(Openers)]
    /\ d[1] = o /\ d[Len(s) + 1] = z
    /\ \A i \in 1..Len(s) : Effect(s[i], d[i], d[i + 1])

Leads(s, o, z) == \E d : Passes(s, o, z, d)

Neutral(s) == s \in Seq(Frames) /\ \A o \in Seq(Openers) : Leads(s, o, o)

IInv == /\ stack \in Seq(Frames) /\ open \in Seq(Openers)
        /\ Leads(stack, open, <<>>)
        /\ outcome = "accepted" => stack = <<>>
-----------------------------------------------------------------------------
LEMMA ClosesValues ==
    /\ Closers = {")", "]", "rbrace"}
    /\ Closes[")"] = "(" /\ Closes["]"] = "[" /\ Closes["rbrace"] = "lbrace"
    /\ \A k \in Closers : Closes[k] \in Openers
  BY DEF Closers, Closes, Openers

\* Nothing is to be done, or something before the rest of the stack.
LEMMA LeadsNone ==
    ASSUME NEW o \in Seq(Openers) PROVE Leads(<<>>, o, o)
  <1> DEFINE d == [i \in 1..1 |-> o]
  <1>1. Passes(<<>>, o, o, d)
    BY DEF Passes
  <1> QED
    BY <1>1 DEF Leads

LEMMA LeadsConcat ==
    ASSUME NEW s \in Seq(Frames), NEW t \in Seq(Frames),
           NEW a, NEW b, NEW c, Leads(s, a, b), Leads(t, b, c)
    PROVE  Leads(s \o t, a, c)
  <1>1. PICK d : Passes(s, a, b, d)
    BY DEF Leads
  <1>2. PICK e : Passes(t, b, c, e)
    BY DEF Leads
  <1> DEFINE u == s \o t
             f == [i \in 1..Len(u) + 1 |-> IF i <= Len(s) THEN d[i] ELSE e[i - Len(s)]]
  <1>3. /\ u \in Seq(Frames) /\ Len(u) = Len(s) + Len(t) /\ Len(s) \in Nat /\ Len(t) \in Nat
        /\ \A i \in 1..Len(s) : u[i] = s[i]
        /\ \A i \in Len(s) + 1..Len(u) : u[i] = t[i - Len(s)]
    OBVIOUS
  <1>4. f \in [1..Len(u) + 1 -> Seq(Openers)]
    <2> SUFFICES ASSUME NEW i \in 1..Len(u) + 1 PROVE f[i] \in Seq(Openers)
      OBVIOUS
    <2>1. CASE i <= Len(s)
      BY <2>1, <1>1, <1>3 DEF Passes
    <2>2. CASE ~(i <= Len(s))
      <3>1. i - Len(s) \in 1..Len(t) + 1
        BY <2>2, <1>3
      <3> QED
        BY <2>2, <3>1, <1>2 DEF Passes
    <2> QED
      BY <2>1, <2>2
  <1>5. f[Len(s) + 1] = b /\ f[1] = a /\ f[Len(u) + 1] = c
    BY <1>1, <1>2, <1>3 DEF Passes
  <1>6. ASSUME NEW i \in 1..Len(u) PROVE Effect(u[i], f[i], f[i + 1])
    <2>1. CASE i <= Len(s)
      <3>1. f[i] = d[i] /\ f[i + 1] = d[i + 1] /\ u[i] = s[i] /\ i \in 1..Len(s)
        BY <2>1, <1>1, <1>3, <1>5 DEF Passes
      <3> QED
        BY <3>1, <1>1 DEF Passes
    <2>2. CASE ~(i <= Len(s))
      <3>1. /\ f[i] = e[i - Len(s)] /\ f[i + 1] = e[(i - Len(s)) + 1]
            /\ u[i] = t[i - Len(s)] /\ i - Len(s) \in 1..Len(t)
        BY <2>2, <1>3
      <3> QED
        BY <3>1, <1>2 DEF Passes
    <2> QED
      BY <2>1, <2>2
  <1>7. Passes(u, a, c, f)
    BY <1>4, <1>5, <1>6 DEF Passes
  <1> QED
    BY <1>7 DEF Leads

\* Done first, the head of a stack has its effect, and the tail is left.
LEMMA LeadsTail ==
    ASSUME NEW s \in Seq(Frames), s # <<>>, NEW a, NEW c, Leads(s, a, c)
    PROVE  \E b \in Seq(Openers) : Effect(Head(s), a, b) /\ Leads(Tail(s), b, c)
  <1>1. PICK d : Passes(s, a, c, d)
    BY DEF Leads
  <1> DEFINE e == [i \in 1..Len(Tail(s)) + 1 |-> d[i + 1]]
  <1>2. /\ Len(s) \in Nat /\ Len(s) >= 1 /\ Len(Tail(s)) = Len(s) - 1 /\ Head(s) = s[1]
        /\ \A i \in 1..Len(Tail(s)) : Tail(s)[i] = s[i + 1]
    OBVIOUS
  <1>3. Effect(Head(s), a, d[2]) /\ d[2] \in Seq(Openers)
    BY <1>1, <1>2 DEF Passes
  <1>4. Passes(Tail(s), d[2], c, e)
    BY <1>1, <1>2 DEF Passes
  <1> QED
    BY <1>3, <1>4 DEF Leads
-----------------------------------------------------------------------------
\* What expects no bracket is neutral, and so is what expects one and then the
\* bracket that closes it.
LEMMA PlainNeutral == ASSUME NEW s \in Seq(Plain) PROVE Neutral(s)
  <1> SUFFICES ASSUME NEW o \in Seq(Openers) PROVE s \in Seq(Frames) /\ Leads(s, o, o)
    BY DEF Neutral, Plain
  <1> DEFINE d == [i \in 1..Len(s) + 1 |-> o]
  <1>1. s \in Seq(Frames) /\ \A i \in 1..Len(s) : s[i] \in Plain
    BY DEF Plain
  <1>2. Passes(s, o, o, d)
    BY <1>1 DEF Passes, Effect, Plain, AtBracket, Brackets
  <1> QED
    BY <1>1, <1>2 DEF Leads

Encloses(s, i, j, k) ==
    /\ i \in 1..Len(s) /\ j \in i + 1..Len(s)
    /\ s[i] = Expect(Closes[k]) /\ s[j] = Expect(k)
    /\ \A n \in 1..Len(s) : n # i /\ n # j => s[n] \in Plain

LEMMA EnclosedNeutral ==
    ASSUME NEW s \in Seq(Frames), NEW k \in Closers, NEW i, NEW j, Encloses(s, i, j, k)
    PROVE  Neutral(s)
  <1> USE DEF Encloses
  <1> SUFFICES ASSUME NEW o \in Seq(Openers) PROVE Leads(s, o, o)
    BY DEF Neutral
  <1> DEFINE d == [n \in 1..Len(s) + 1 |-> IF i < n /\ n <= j THEN Append(o, Closes[k]) ELSE o]
  <1>0. Closes[k] \in Openers /\ k \notin Openers
    BY ClosesValues DEF Openers
  <1>1. Closes[k] \in Openers /\ Append(o, Closes[k]) \in Seq(Openers) /\ k \notin Openers
    BY <1>0
  <1>2. ASSUME NEW n \in 1..Len(s) PROVE Effect(s[n], d[n], d[n + 1])
    <2>1. CASE n = i
      BY <2>1, <1>1 DEF Effect, AtBracket, Expect
    <2>2. CASE n = j
      BY <2>2, <1>1 DEF Effect, AtBracket, Expect
    <2>3. CASE n # i /\ n # j
      <3>1. d[n + 1] = d[n]
        BY <2>3
      <3> QED
        BY <2>3, <3>1 DEF Effect, AtBracket, Plain, Brackets
    <2> QED
      BY <2>1, <2>2, <2>3
  <1>3. d \in [1..Len(s) + 1 -> Seq(Openers)] /\ d[1] = o /\ d[Len(s) + 1] = o
    BY <1>1
  <1>4. Passes(s, o, o, d)
    <2> HIDE DEF d
    <2> QED
      BY <1>2, <1>3 DEF Passes
  <1> QED
    BY <1>4 DEF Leads
-----------------------------------------------------------------------------
(***************************************************************************)
(* The bodies of the functions.                                            *)
(***************************************************************************)
\* Calls, other frames and expectations that leave the brackets alone.
LEMMA CallsPlain ==
    /\ Call("ast") \in Plain /\ Call("decl") \in Plain /\ Call("fn") \in Plain
    /\ Call("fnParams") \in Plain /\ Call("params") \in Plain /\ Call("moreParams") \in Plain
    /\ Call("paramOrDots") \in Plain /\ Call("fnParam") \in Plain /\ Call("default") \in Plain
    /\ Call("fnResult") \in Plain /\ Call("fnExtern") \in Plain /\ Call("aggregate") \in Plain
    /\ Call("fields") \in Plain /\ Call("use") \in Plain /\ Call("useScope") \in Plain
    /\ Call("useScopeRes") \in Plain /\ Call("useScopes") \in Plain /\ Call("useArgs") \in Plain
    /\ Call("useArgList") \in Plain /\ Call("moreUseArgs") \in Plain /\ Call("useArg") \in Plain
    /\ Call("scope") \in Plain /\ Call("stmts") \in Plain /\ Call("stmt") \in Plain
    /\ Call("unlessBody") \in Plain /\ Call("forNext") \in Plain /\ Call("body") \in Plain
    /\ Call("returned") \in Plain /\ Call("typespec") \in Plain /\ Call("size") \in Plain
    /\ Call("template") \in Plain /\ Call("noTemplate") \in Plain /\ Call("typeList") \in Plain
    /\ Call("moreTypes") \in Plain /\ Call("expr") \in Plain /\ Call("ternaryRest") \in Plain
    /\ Call("unary") \in Plain /\ Call("postfix") \in Plain /\ Call("args") \in Plain
    /\ Call("moreArgs") \in Plain /\ Call("operand") \in Plain /\ Call("nameRest") \in Plain
    /\ Call("init") \in Plain /\ Call("initType") \in Plain /\ Call("or") \in Plain
    /\ Call("and") \in Plain /\ Call("cmp") \in Plain /\ Call("add") \in Plain
    /\ Call("mul") \in Plain
  <1>1. ASSUME NEW f \in Functions PROVE Call(f) \in Plain
    BY DEF Call, Plain, Frames, AtBracket
  <1> USE DEF Functions, Operators
  <1>2. /\ "ast" \in Functions /\ "decl" \in Functions /\ "fn" \in Functions
        /\ "fnParams" \in Functions /\ "params" \in Functions /\ "moreParams" \in Functions
        /\ "paramOrDots" \in Functions /\ "fnParam" \in Functions /\ "default" \in Functions
        /\ "fnResult" \in Functions /\ "fnExtern" \in Functions /\ "aggregate" \in Functions
    OBVIOUS
  <1>3. /\ "fields" \in Functions /\ "use" \in Functions /\ "useScope" \in Functions
        /\ "useScopeRes" \in Functions /\ "useScopes" \in Functions /\ "useArgs" \in Functions
        /\ "useArgList" \in Functions /\ "moreUseArgs" \in Functions /\ "useArg" \in Functions
        /\ "scope" \in Functions /\ "stmts" \in Functions /\ "stmt" \in Functions
    OBVIOUS
  <1>4. /\ "unlessBody" \in Functions /\ "forNext" \in Functions /\ "body" \in Functions
        /\ "returned" \in Functions /\ "typespec" \in Functions /\ "size" \in Functions
        /\ "template" \in Functions /\ "noTemplate" \in Functions /\ "typeList" \in Functions
        /\ "moreTypes" \in Functions /\ "expr" \in Functions /\ "ternaryRest" \in Functions
    OBVIOUS
  <1>5. /\ "unary" \in Functions /\ "postfix" \in Functions /\ "args" \in Functions
        /\ "moreArgs" \in Functions /\ "operand" \in Functions /\ "nameRest" \in Functions
        /\ "init" \in Functions /\ "initType" \in Functions /\ "or" \in Functions
        /\ "and" \in Functions /\ "cmp" \in Functions /\ "add" \in Functions
    OBVIOUS
  <1>6. /\ "mul" \in Functions
    OBVIOUS
  <1> HIDE DEF Functions, Operators
  <1> QED
    BY <1>1, <1>2, <1>3, <1>4, <1>5, <1>6

LEMMA OthersPlain ==
    /\ Name \in Plain /\ Fail \in Seq(Plain)
    /\ \A l \in DOMAIN Operators : Loop(l) \in Plain
    /\ Build(<<"ternary">>) \in Plain /\ Build(<<"call">>) \in Plain
    /\ Build(<<"index">>) \in Plain /\ Build(<<"name">>) \in Plain /\ Build(<<"init">>) \in Plain
    /\ \A k \in Words : /\ Build(<<"binary", k>>) \in Plain /\ Build(<<"unary", k>>) \in Plain
                        /\ Build(<<"field", k>>) \in Plain /\ Build(<<"modify", k>>) \in Plain
                        /\ Build(<<k>>) \in Plain
  <1>1. \A l \in DOMAIN Operators : Loop(l) \in Plain
    BY DEF Loop, Plain, AtBracket, Frames
  <1>2. \A n \in Seq(Words) : Build(n) \in Plain
    BY DEF Build, Plain, AtBracket, Frames
  <1>3. \A k \in Words : <<k>> \in Seq(Words)
    OBVIOUS
  <1>4. \A j, k \in Words : <<j, k>> \in Seq(Words)
    OBVIOUS
  <1>5. /\ "ternary" \in Words /\ "call" \in Words /\ "index" \in Words /\ "init" \in Words
        /\ "binary" \in Words /\ "unary" \in Words /\ "field" \in Words /\ "modify" \in Words
        /\ "name" \in Words
    BY DEF Words, Names
  <1>6. "anyName" \in Words \ Brackets
    BY ClosesValues DEF Words, Brackets, Openers
  <1>7. Name \in Plain
    BY <1>6 DEF Name, Expect, Plain, AtBracket, Brackets, Frames
  <1>8. [do |-> "fail", what |-> "fail"] \in Frames
    BY DEF Frames
  <1>9. Fail \in Seq(Plain)
    BY <1>8 DEF Fail, Plain, AtBracket
  <1> QED
    BY <1>1, <1>2, <1>3, <1>4, <1>5, <1>7, <1>9

LEMMA ExpectsPlain ==
    /\ \A k \in Names \cup Literals \cup Unary : Expect(k) \in Plain
    /\ \A l \in DOMAIN Operators : \A k \in Operators[l] : Expect(k) \in Plain
    /\ Expect("union") \in Plain /\ Expect(":") \in Plain /\ Expect("::") \in Plain
    /\ Expect("?") \in Plain /\ Expect("comma") \in Plain /\ Expect("semicolon") \in Plain
    /\ Expect("...") \in Plain /\ Expect(".") \in Plain /\ Expect("->") \in Plain
    /\ Expect("++") \in Plain /\ Expect("--") \in Plain /\ Expect("any") \in Plain
    /\ Expect("fn") \in Plain /\ Expect("struct") \in Plain /\ Expect("use") \in Plain
    /\ Expect("extern") \in Plain /\ Expect("for") \in Plain /\ Expect("while") \in Plain
    /\ Expect("comptime") \in Plain /\ Expect("return") \in Plain /\ Expect("=") \in Plain
    /\ Expect("*") \in Plain /\ Expect("&") \in Plain /\ Expect("<") \in Plain
    /\ Expect(">") \in Plain
  <1>1. ASSUME NEW k \in Words \ Brackets PROVE Expect(k) \in Plain
    BY ClosesValues DEF Expect, Openers, Plain, AtBracket, Brackets, Frames
  <1> USE ClosesValues DEF Words, Brackets, Openers
  <1>2. \A k \in Names \cup Literals \cup Unary : k \in Words \ Brackets
    BY DEF Names, Literals, Unary
  <1>3. \A l \in DOMAIN Operators : \A k \in Operators[l] : k \in Words \ Brackets
    BY DEF Operators, Unary
  <1>4. /\ "union" \in Words \ Brackets /\ ":" \in Words \ Brackets
        /\ "::" \in Words \ Brackets /\ "?" \in Words \ Brackets
        /\ "comma" \in Words \ Brackets /\ "semicolon" \in Words \ Brackets
        /\ "..." \in Words \ Brackets /\ "." \in Words \ Brackets
    BY DEF Names
  <1>5. /\ "->" \in Words \ Brackets /\ "++" \in Words \ Brackets
        /\ "--" \in Words \ Brackets /\ "any" \in Words \ Brackets
        /\ "fn" \in Words \ Brackets /\ "struct" \in Words \ Brackets
        /\ "use" \in Words \ Brackets /\ "extern" \in Words \ Brackets
    BY DEF Names
  <1>6. /\ "for" \in Words \ Brackets /\ "while" \in Words \ Brackets
        /\ "comptime" \in Words \ Brackets /\ "return" \in Words \ Brackets
        /\ "=" \in Words \ Brackets /\ "*" \in Words \ Brackets
        /\ "&" \in Words \ Brackets /\ "<" \in Words \ Brackets
    BY DEF Names, Unary
  <1>7. /\ ">" \in Words \ Brackets
    BY DEF Names
  <1> HIDE DEF Words, Brackets, Openers
  <1> QED
    BY <1>1, <1>2, <1>3, <1>4, <1>5, <1>6, <1>7

LEMMA WordsOf ==
    /\ Unary \subseteq Words /\ Literals \subseteq Words
    /\ \A l \in DOMAIN Operators : Operators[l] \subseteq Words
    /\ {".", "->", "++", "--"} \subseteq Words
  BY DEF Words, Unary, Literals, Operators

LEMMA ExpectsBracket ==
    \A k \in Closers : Expect(k) \in Frames /\ Expect(Closes[k]) \in Frames
  BY ClosesValues DEF Frames, Expect, Words, Brackets

LEMMA PlainBodies ==
    /\ Neutral(ParseAst) /\ Neutral(ParseDecl) /\ Neutral(ParseFn)
    /\ Neutral(FnResult) /\ Neutral(FnExtern) /\ Neutral(Params)
    /\ Neutral(MoreParams) /\ Neutral(ParamOrDots) /\ Neutral(ParseFnParam)
    /\ Neutral(Default) /\ Neutral(Fields) /\ Neutral(ParseUseModule)
    /\ Neutral(UseScope) /\ Neutral(UseScopeRes) /\ Neutral(UseScopes)
    /\ Neutral(UseArgList) /\ Neutral(MoreUseArgs) /\ Neutral(ParseModuleArg)
    /\ Neutral(Stmts) /\ Neutral(ParseStmt) /\ Neutral(UnlessBody)
    /\ Neutral(ForNext) /\ Neutral(Body) /\ Neutral(Returned)
    /\ Neutral(ArraySize) /\ Neutral(TypeList) /\ Neutral(MoreTypes)
    /\ Neutral(ParseTernary) /\ Neutral(TernaryRest) /\ Neutral(ParseUnary)
    /\ Neutral(ParseCallArgs) /\ Neutral(MoreArgs) /\ Neutral(NameRest)
    /\ Neutral(ParseInit) /\ Neutral(InitType)
  <1>1. ParseAst \in Seq(Plain)
    BY CallsPlain DEF ParseAst
  <1>2. ParseDecl \in Seq(Plain)
    BY CallsPlain, OthersPlain DEF ParseDecl
  <1>3. ParseFn \in Seq(Plain)
    BY CallsPlain, ExpectsPlain, OthersPlain DEF ParseFn
  <1>4. FnResult \in Seq(Plain)
    BY CallsPlain, ExpectsPlain DEF FnResult
  <1>5. FnExtern \in Seq(Plain)
    BY ExpectsPlain DEF FnExtern, If
  <1>6. Params \in Seq(Plain)
    BY CallsPlain DEF Params, Until
  <1>7. MoreParams \in Seq(Plain)
    BY CallsPlain, ExpectsPlain DEF MoreParams, Until
  <1>8. ParamOrDots \in Seq(Plain)
    BY CallsPlain, ExpectsPlain DEF ParamOrDots
  <1>9. ParseFnParam \in Seq(Plain)
    BY CallsPlain, ExpectsPlain, OthersPlain DEF ParseFnParam
  <1>10. Default \in Seq(Plain)
    BY CallsPlain, ExpectsPlain DEF Default, If
  <1>11. Fields \in Seq(Plain)
    BY CallsPlain DEF Fields, Until
  <1>12. UseScope \in Seq(Plain)
    BY CallsPlain, OthersPlain DEF UseScope
  <1>13. UseScopeRes \in Seq(Plain)
    BY ExpectsPlain DEF UseScopeRes, If
  <1>14. UseScopes \in Seq(Plain)
    BY CallsPlain, OthersPlain DEF UseScopes
  <1>15. UseArgList \in Seq(Plain)
    BY CallsPlain, OthersPlain DEF UseArgList
  <1>16. MoreUseArgs \in Seq(Plain)
    BY CallsPlain, ExpectsPlain, OthersPlain DEF MoreUseArgs
  <1>17. ParseModuleArg \in Seq(Plain)
    BY ExpectsPlain DEF ParseModuleArg
  <1>18. Stmts \in Seq(Plain)
    BY CallsPlain DEF Stmts, Until
  <1>19. ParseStmt \in Seq(Plain)
    BY CallsPlain, ExpectsPlain DEF ParseStmt
  <1>20. UnlessBody \in Seq(Plain)
    BY CallsPlain DEF UnlessBody
  <1>21. ForNext \in Seq(Plain)
    BY CallsPlain, ExpectsPlain DEF ForNext, If
  <1>22. Body \in Seq(Plain)
    BY CallsPlain DEF Body
  <1>23. Returned \in Seq(Plain)
    BY CallsPlain DEF Returned
  <1>24. ArraySize \in Seq(Plain)
    BY CallsPlain DEF ArraySize
  <1>25. TypeList \in Seq(Plain)
    BY CallsPlain DEF TypeList
  <1>26. MoreTypes \in Seq(Plain)
    BY CallsPlain, ExpectsPlain DEF MoreTypes
  <1>27. ParseTernary \in Seq(Plain)
    BY CallsPlain DEF ParseTernary
  <1>28. TernaryRest \in Seq(Plain)
    BY CallsPlain, ExpectsPlain, OthersPlain DEF TernaryRest, If
  <1>29. ParseUnary \in Seq(Plain)
    <2>1. CASE tok \in {"++", "--"}
      <3>1. ParseUnary = Fail
        BY <2>1 DEF ParseUnary, Unary
      <3> QED
        BY <3>1, OthersPlain
    <2>2. CASE tok \in Unary /\ tok \notin {"++", "--"}
      <3>1. Expect(tok) \in Plain /\ Call("unary") \in Plain /\ Build(<<"unary", tok>>) \in Plain
        BY <2>2, CallsPlain, ExpectsPlain, OthersPlain, WordsOf
      <3> QED
        BY <2>2, <3>1 DEF ParseUnary
    <2>3. CASE tok \notin Unary /\ tok \notin {"++", "--"}
      BY <2>3, CallsPlain DEF ParseUnary
    <2> QED
      BY <2>1, <2>2, <2>3
  <1>30. ParseCallArgs \in Seq(Plain)
    BY CallsPlain DEF ParseCallArgs, Until
  <1>31. MoreArgs \in Seq(Plain)
    BY CallsPlain, ExpectsPlain DEF MoreArgs, Until
  <1>32. NameRest \in Seq(Plain)
    BY CallsPlain, OthersPlain DEF NameRest
  <1>33. ParseInit \in Seq(Plain)
    BY CallsPlain, ExpectsPlain, OthersPlain DEF ParseInit
  <1>34. ParseUseModule \in Seq(Plain)
    BY CallsPlain, ExpectsPlain DEF ParseUseModule
  <1>35. InitType \in Seq(Plain)
    BY CallsPlain DEF InitType
  <1> QED
    BY PlainNeutral, <1>1, <1>2, <1>3, <1>4, <1>5, <1>6, <1>7, <1>8, <1>9, <1>10, <1>11,
       <1>12, <1>13, <1>14, <1>15, <1>16, <1>17, <1>18, <1>19, <1>20, <1>21, <1>22,
       <1>23, <1>24, <1>25, <1>26, <1>27, <1>28, <1>29, <1>30, <1>31, <1>32, <1>33,
       <1>34, <1>35

\* The bodies in which the token is an operator, or that look for a template.
LEMMA OperatorBodies ==
    ASSUME NEW l \in DOMAIN Operators
    PROVE  Neutral(ParseLevel(l)) /\ Neutral(LoopLevel(l))
  <1>1. Tighter[l] \in {"and", "cmp", "add", "mul", "unary"}
    BY DEF Operators, Tighter
  <1>2. Call(Tighter[l]) \in Plain /\ Loop(l) \in Plain
    BY <1>1, CallsPlain, OthersPlain
  <1>3. ParseLevel(l) \in Seq(Plain)
    BY <1>2 DEF ParseLevel
  <1>4. LoopLevel(l) \in Seq(Plain)
    <2>1. CASE tok \notin Operators[l]
      BY <2>1 DEF LoopLevel
    <2>2. CASE tok \in Operators[l]
      <3>1. Expect(tok) \in Plain /\ Build(<<"binary", tok>>) \in Plain
        BY <2>2, ExpectsPlain, OthersPlain, WordsOf
      <3> QED
        BY <2>2, <3>1, <1>2 DEF LoopLevel
    <2> QED
      BY <2>1, <2>2
  <1> QED
    BY <1>3, <1>4, PlainNeutral

LEMMA TemplateBodies ==
    ASSUME NEW closed
    PROVE  Neutral(ParseTemplatespec(closed)) /\ Neutral(NoTemplate(closed))
  <1>1. ParseTemplatespec(closed) \in Seq(Plain)
    BY CallsPlain, ExpectsPlain DEF ParseTemplatespec
  <1>2. NoTemplate(closed) \in Seq(Plain)
    BY OthersPlain DEF NoTemplate
  <1> QED
    BY <1>1, <1>2, PlainNeutral

\* The bodies that expect a bracket and the one that closes it.
LEMMA EnclosingBodies ==
    /\ Neutral(ParseFnParams)
    /\ Neutral(ParseAggregate)
    /\ Neutral(UseModuleArgs)
    /\ Neutral(ParseScope)
    /\ Neutral(ParseTypespec)
    /\ Neutral(ParseBase)
    /\ Neutral(ParseOperand)
  <1>1. ASSUME NEW m \in Plain, NEW k \in Closers
        PROVE  /\ Neutral(<<Expect(Closes[k]), m, Expect(k)>>)
               /\ \A e \in Plain : Neutral(<<Expect(Closes[k]), m, Expect(k), e>>)
               /\ \A a, e \in Plain : Neutral(<<Expect(Closes[k]), m, Expect(k), a, e>>)
               /\ \A a, e \in Plain : Neutral(<<a, e, Expect(Closes[k]), m, Expect(k)>>)
    <2>0. Expect(k) \in Frames /\ Expect(Closes[k]) \in Frames /\ m \in Frames
      BY ExpectsBracket DEF Plain
    <2>1. Neutral(<<Expect(Closes[k]), m, Expect(k)>>)
      <3> DEFINE s == <<Expect(Closes[k]), m, Expect(k)>>
      <3>1. /\ s \in Seq(Frames) /\ Len(s) = 3 /\ s[1] = Expect(Closes[k]) /\ s[3] = Expect(k)
            /\ \A n \in 1..Len(s) : n # 1 /\ n # 3 => s[n] \in Plain
        BY <2>0
      <3> HIDE DEF s
      <3>2. Encloses(s, 1, 3, k)
        BY <3>1 DEF Encloses
      <3>3. Neutral(s)
        BY <3>1, <3>2, EnclosedNeutral
      <3> QED
        BY <3>3 DEF s
    <2>2. ASSUME NEW e \in Plain PROVE Neutral(<<Expect(Closes[k]), m, Expect(k), e>>)
      <3> DEFINE s == <<Expect(Closes[k]), m, Expect(k), e>>
      <3>0. e \in Frames
        BY DEF Plain
      <3>1. /\ s \in Seq(Frames) /\ Len(s) = 4 /\ s[1] = Expect(Closes[k]) /\ s[3] = Expect(k)
            /\ \A n \in 1..Len(s) : n # 1 /\ n # 3 => s[n] \in Plain
        BY <2>0, <3>0
      <3> HIDE DEF s
      <3>2. Encloses(s, 1, 3, k)
        BY <3>1 DEF Encloses
      <3>3. Neutral(s)
        BY <3>1, <3>2, EnclosedNeutral
      <3> QED
        BY <3>3 DEF s
    <2>3. ASSUME NEW a \in Plain, NEW e \in Plain
          PROVE  Neutral(<<Expect(Closes[k]), m, Expect(k), a, e>>)
      <3> DEFINE s == <<Expect(Closes[k]), m, Expect(k), a, e>>
      <3>0. a \in Frames /\ e \in Frames
        BY DEF Plain
      <3>1. /\ s \in Seq(Frames) /\ Len(s) = 5 /\ s[1] = Expect(Closes[k]) /\ s[3] = Expect(k)
            /\ \A n \in 1..Len(s) : n # 1 /\ n # 3 => s[n] \in Plain
        BY <2>0, <3>0
      <3> HIDE DEF s
      <3>2. Encloses(s, 1, 3, k)
        BY <3>1 DEF Encloses
      <3>3. Neutral(s)
        BY <3>1, <3>2, EnclosedNeutral
      <3> QED
        BY <3>3 DEF s
    <2>4. ASSUME NEW a \in Plain, NEW e \in Plain
          PROVE  Neutral(<<a, e, Expect(Closes[k]), m, Expect(k)>>)
      <3> DEFINE s == <<a, e, Expect(Closes[k]), m, Expect(k)>>
      <3>0. a \in Frames /\ e \in Frames
        BY DEF Plain
      <3>1. /\ s \in Seq(Frames) /\ Len(s) = 5 /\ s[3] = Expect(Closes[k]) /\ s[5] = Expect(k)
            /\ \A n \in 1..Len(s) : n # 3 /\ n # 5 => s[n] \in Plain
        BY <2>0, <3>0
      <3> HIDE DEF s
      <3>2. Encloses(s, 3, 5, k)
        BY <3>1 DEF Encloses
      <3>3. Neutral(s)
        BY <3>1, <3>2, EnclosedNeutral
      <3> QED
        BY <3>3 DEF s
    <2> QED
      BY <2>1, <2>2, <2>3, <2>4
  <1>2. /\ ")" \in Closers /\ Closes[")"] = "(" /\ "]" \in Closers /\ Closes["]"] = "["
        /\ "rbrace" \in Closers /\ Closes["rbrace"] = "lbrace"
    BY ClosesValues
  <1>3. Neutral(ParseFnParams)
    BY <1>1, <1>2, CallsPlain DEF ParseFnParams
  <1>4. Neutral(ParseAggregate)
    BY <1>1, <1>2, CallsPlain, ExpectsPlain, OthersPlain DEF ParseAggregate
  <1>5. Neutral(UseModuleArgs)
    <2>1. CASE tok # "lbrace"
      <3>1. UseModuleArgs \in Seq(Plain)
        BY <2>1, CallsPlain DEF UseModuleArgs
      <3> QED
        BY <3>1, PlainNeutral
    <2>2. CASE tok = "lbrace"
      BY <2>2, <1>1, <1>2, CallsPlain DEF UseModuleArgs
    <2> QED
      BY <2>1, <2>2
  <1>6. Neutral(ParseScope)
    <2>1. CASE tok = "semicolon"
      <3>1. ParseScope \in Seq(Plain)
        BY <2>1, ExpectsPlain DEF ParseScope
      <3> QED
        BY <3>1, PlainNeutral
    <2>2. CASE tok # "semicolon"
      BY <2>2, <1>1, <1>2, CallsPlain DEF ParseScope
    <2> QED
      BY <2>1, <2>2
  <1>7. Neutral(ParseTypespec)
    <2>1. CASE tok = "["
      BY <2>1, <1>1, <1>2, CallsPlain DEF ParseTypespec
    <2>2. CASE tok # "["
      <3>1. ParseTypespec \in Seq(Plain)
        BY <2>2, CallsPlain, ExpectsPlain, OthersPlain DEF ParseTypespec
      <3> QED
        BY <3>1, PlainNeutral
    <2> QED
      BY <2>1, <2>2
  <1>8. Neutral(ParseBase)
    <2>0. Call("postfix") \in Plain /\ Call("args") \in Plain /\ Call("expr") \in Plain
          /\ Build(<<"call">>) \in Plain /\ Build(<<"index">>) \in Plain /\ Name \in Plain
      BY CallsPlain, OthersPlain
    <2>1. CASE tok = "("
      BY <2>0, <2>1, <1>1, <1>2 DEF ParseBase
    <2>2. CASE tok = "["
      BY <2>0, <2>2, <1>1, <1>2 DEF ParseBase
    <2>3. CASE tok # "(" /\ tok # "["
      <3>1. CASE tok \in {".", "->", "++", "--"}
        <4>1. /\ Expect(tok) \in Plain /\ Build(<<"field", tok>>) \in Plain
              /\ Build(<<"modify", tok>>) \in Plain
          BY <3>1, ExpectsPlain, OthersPlain, WordsOf
        <4>2. ParseBase \in Seq(Plain)
          BY <2>0, <2>3, <3>1, <4>1 DEF ParseBase
        <4> QED
          BY <4>2, PlainNeutral
      <3>2. CASE tok \notin {".", "->", "++", "--"}
        <4>1. ParseBase \in Seq(Plain)
          BY <2>3, <3>2 DEF ParseBase
        <4> QED
          BY <4>1, PlainNeutral
      <3> QED
        BY <3>1, <3>2
    <2> QED
      BY <2>1, <2>2, <2>3
  <1>9. Neutral(ParseOperand)
    <2>1. CASE tok \in Literals
      <3>1. Expect(tok) \in Plain /\ Build(<<tok>>) \in Plain
        BY <2>1, ExpectsPlain, OthersPlain, WordsOf
      <3>2. ParseOperand \in Seq(Plain)
        <4>1. ParseOperand = <<Expect(tok), Build(<<tok>>)>>
          BY <2>1 DEF ParseOperand, Literals, Names
        <4> QED
          BY <3>1, <4>1
      <3> QED
        BY <3>2, PlainNeutral
    <2>2. CASE tok = "("
      <3>1. ParseOperand = <<Expect("("), Call("expr"), Expect(")")>>
        BY <2>2 DEF ParseOperand, Literals, Names
      <3> QED
        BY <3>1, <1>1, <1>2, CallsPlain
    <2>3. CASE tok \notin Literals /\ tok # "("
      <3>1. ParseOperand \in Seq(Plain)
        BY <2>3, CallsPlain, OthersPlain DEF ParseOperand
      <3> QED
        BY <3>1, PlainNeutral
    <2> QED
      BY <2>1, <2>2, <2>3
  <1> QED
    BY <1>3, <1>4, <1>5, <1>6, <1>7, <1>8, <1>9

LEMMA DoesNeutral ==
    ASSUME NEW f \in Functions, NEW closed PROVE Neutral(Does(f, closed))
  <1>1. CASE f \in DOMAIN Operators
    <2>1. Does(f, closed) = ParseLevel(f)
      BY <1>1 DEF Does, Operators
    <2> QED
      BY <1>1, <2>1, OperatorBodies
  <1>2. CASE f \notin DOMAIN Operators
    <2>1. CASE f \in {"ast", "decl", "fn", "fnParams", "params", "moreParams", "paramOrDots",
                      "fnParam", "default", "fnResult", "fnExtern"}
      BY <2>1, PlainBodies, TemplateBodies, EnclosingBodies DEF Does, Operators
    <2>2. CASE f \in {"aggregate", "fields", "use", "useScope", "useScopeRes", "useScopes",
                      "useArgs", "useArgList", "moreUseArgs", "useArg", "scope"}
      BY <2>2, PlainBodies, TemplateBodies, EnclosingBodies DEF Does, Operators
    <2>3. CASE f \in {"stmts", "stmt", "unlessBody", "forNext", "body", "returned", "typespec",
                      "size", "template", "noTemplate", "typeList"}
      BY <2>3, PlainBodies, TemplateBodies, EnclosingBodies DEF Does, Operators
    <2>4. CASE f \in {"moreTypes", "expr", "ternaryRest", "unary", "postfix", "args", "moreArgs",
                      "operand", "nameRest", "init", "initType"}
      BY <2>4, PlainBodies, TemplateBodies, EnclosingBodies DEF Does, Operators
    <2> QED
      BY <1>2, <2>1, <2>2, <2>3, <2>4 DEF Functions
  <1> QED
    BY <1>1, <1>2
-----------------------------------------------------------------------------
(***************************************************************************)
(* The invariant.                                                          *)
(***************************************************************************)
LEMMA Initially == Init => IInv
  <1> SUFFICES ASSUME Init PROVE IInv
    OBVIOUS
  <1>1. start \in Functions
    BY StartAssumption DEF Init
  <1>2. Call(start) \in Plain
    BY <1>1 DEF Call, Plain, Frames, AtBracket
  <1>3. Neutral(<<Call(start)>>)
    <2>1. <<Call(start)>> \in Seq(Plain)
      BY <1>2
    <2> QED
      BY <2>1, PlainNeutral
  <1>4. <<>> \in Seq(Openers)
    OBVIOUS
  <1> QED
    BY <1>3, <1>4 DEF Init, IInv, Neutral

\* What a frame of each kind says, and that only an expectation of a bracket
\* changes the brackets that are open.
LEMMA FrameKinds ==
    ASSUME NEW f \in Frames
    PROVE  /\ f.do = "call" => f.what \in Functions
           /\ f.do = "loop" => f.what \in DOMAIN Operators
           /\ \A o, z : f.do # "expect" /\ Effect(f, o, z) => z = o
  BY DEF Frames, Effect, AtBracket

\* The top of the stack is done, and a body is put in its place.
LEMMA Replaced ==
    ASSUME IInv, stack # <<>>, Top.do # "expect",
           NEW s, Neutral(s), stack' = s \o Tail(stack), open' = open, outcome' = "parsing"
    PROVE  IInv'
  <1>1. /\ Top \in Frames /\ Tail(stack) \in Seq(Frames)
        /\ open \in Seq(Openers) /\ s \in Seq(Frames)
    BY DEF IInv, Top, Neutral
  <1>2. PICK b \in Seq(Openers) : Effect(Top, open, b) /\ Leads(Tail(stack), b, <<>>)
    BY LeadsTail DEF IInv, Top
  <1>3. b = open
    BY <1>1, <1>2, FrameKinds
  <1>4. Leads(s \o Tail(stack), open, <<>>)
    BY <1>1, <1>2, <1>3, LeadsConcat DEF Neutral
  <1>5. stack' \in Seq(Frames)
    BY <1>1
  <1> QED
    BY <1>1, <1>4, <1>5 DEF IInv

\* What is taken changes the open brackets as the top of the stack says.
LEMMA TakenAsExpected ==
    ASSUME Busy("expect"), Matches(Top.what), NEW b \in Seq(Openers), open \in Seq(Openers),
           Effect(Top, open, b)
    PROVE  Bracketed(tok) = b
  <1> DEFINE w == Top.what
  <1>1. Top.do = "expect"
    BY DEF Busy
  <1>2. CASE w \in Openers
    <2>1. tok = w /\ w # "any"
      BY <1>2 DEF Matches, Openers
    <2>2. b = Append(open, w)
      BY <1>1, <1>2 DEF Effect, AtBracket
    <2> QED
      BY <1>2, <2>1, <2>2, ClosesValues DEF Bracketed, Openers, Closers
  <1>3. CASE w \in Closers
    <2>1. tok = w /\ w # "any" /\ w \notin Openers
      BY <1>3, ClosesValues DEF Matches, Openers
    <2>2. open = Append(b, Closes[w]) /\ Closes[w] \in Openers
      BY <1>1, <1>3, <2>1, ClosesValues DEF Effect, AtBracket
    <2>3. SubSeq(open, 1, Len(open) - 1) = b
      BY <2>2
    <2> QED
      BY <1>3, <2>1, <2>3, ClosesValues DEF Bracketed, Openers, Closers
  <1>4. CASE w \notin Openers /\ w \notin Closers
    <2>1. b = open
      BY <1>1, <1>4 DEF Effect, AtBracket
    <2>2. w = "any" \/ tok \notin Openers \cup Closers
      BY <1>4, ClosesValues DEF Matches, Names, Openers
    <2> QED
      BY <2>1, <2>2 DEF Bracketed, Openers, Closers
  <1> QED
    BY <1>2, <1>3, <1>4

LEMMA Kept == IInv /\ [Next]_vars => IInv'
  <1> SUFFICES ASSUME IInv, [Next]_vars PROVE IInv'
    OBVIOUS
  <1>0. stack # <<>> => Top \in Frames
    BY DEF IInv, Top
  <1>1. CASE Parse
    <2>1. stack # <<>> /\ Top.do = "call" /\ outcome' = "parsing" /\ open' = open
      BY <1>1 DEF Parse, Busy
    <2>2. PICK closed : stack' = Does(Top.what, closed) \o Tail(stack)
      BY <1>1 DEF Parse
    <2>3. Neutral(Does(Top.what, closed))
      BY <1>0, <2>1, FrameKinds, DoesNeutral
    <2> QED
      BY <2>1, <2>2, <2>3, Replaced
  <1>2. CASE GoOn
    <2>1. stack # <<>> /\ Top.do = "loop" /\ outcome' = "parsing" /\ open' = open
          /\ stack' = LoopLevel(Top.what) \o Tail(stack)
      BY <1>2 DEF GoOn, Busy
    <2>2. Neutral(LoopLevel(Top.what))
      BY <1>0, <2>1, FrameKinds, OperatorBodies
    <2> QED
      BY <2>1, <2>2, Replaced
  <1>3. CASE Take
    <2>1. stack # <<>> /\ outcome' = "parsing" /\ stack' = Tail(stack) /\ open' = Bracketed(tok)
      BY <1>3 DEF Take, Busy
    <2>2. PICK b \in Seq(Openers) : Effect(Top, open, b) /\ Leads(Tail(stack), b, <<>>)
      BY <2>1, LeadsTail DEF IInv, Top
    <2>3. open' = b
      BY <1>3, <2>1, <2>2, TakenAsExpected DEF Take, IInv
    <2> QED
      BY <2>1, <2>2, <2>3 DEF IInv
  <1>4. CASE New
    <2>1. stack # <<>> /\ Top.do = "build" /\ outcome' = "parsing" /\ open' = open
          /\ stack' = Tail(stack)
      BY <1>4 DEF New, Busy
    <2>2. Neutral(<<>>)
      <3>1. <<>> \in Seq(Plain)
        OBVIOUS
      <3> QED
        BY <3>1, PlainNeutral
    <2>3. stack' = <<>> \o Tail(stack)
      BY <2>1 DEF IInv
    <2> QED
      BY <2>1, <2>2, <2>3, Replaced
  <1>5. CASE SyntaxError
    BY <1>5 DEF SyntaxError, IInv
  <1>6. CASE Return
    BY <1>6 DEF Return, IInv
  <1>7. CASE UNCHANGED vars
    BY <1>7 DEF vars, IInv
  <1> QED
    BY <1>1, <1>2, <1>3, <1>4, <1>5, <1>6, <1>7 DEF Next, Ended

LEMMA Implies == IInv => BracketsMatch
  <1> SUFFICES ASSUME IInv PROVE BracketsMatch
    OBVIOUS
  <1>1. ASSUME Busy("expect"), tok \in DOMAIN Closes, Top.what = tok
        PROVE  open # <<>> /\ open[Len(open)] = Closes[tok]
    <2>1. stack # <<>> /\ Top.do = "expect"
      BY <1>1 DEF Busy
    <2>2. PICK b \in Seq(Openers) : Effect(Top, open, b)
      BY <2>1, LeadsTail DEF IInv, Top
    <2>3. tok \in Closers /\ tok \notin Openers /\ Closes[tok] \in Openers
      BY <1>1, ClosesValues DEF Openers, Closers
    <2>4. open = Append(b, Closes[tok])
      BY <1>1, <2>1, <2>2, <2>3 DEF Effect, AtBracket
    <2> QED
      BY <2>3, <2>4
  <1>2. ASSUME outcome = "accepted" PROVE open = <<>>
    <2>1. PICK d : Passes(<<>>, open, <<>>, d)
      BY <1>2 DEF IInv, Leads
    <2> QED
      BY <2>1 DEF Passes
  <1> QED
    BY <1>1, <1>2 DEF BracketsMatch

\* In every parse, of any text, a bracket that is taken closes the last one
\* open, and a text that is accepted has closed them all: what parse_scope,
\* parse_fn_params, parse_base and the rest of the parsing functions do with
\* lexer->next, whichever of them calls which.
THEOREM BracketsMatchCorrect == Spec => []BracketsMatch
  <1>1. Init => IInv
    BY Initially
  <1>2. IInv /\ [Next]_vars => IInv'
    BY Kept
  <1>3. IInv => BracketsMatch
    BY Implies
  <1> QED
    BY <1>1, <1>2, <1>3, PTL DEF Spec
=============================================================================
