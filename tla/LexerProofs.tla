---------------------------- MODULE LexerProofs ----------------------------
(***************************************************************************)
(* Proofs about the lexer, for every text, and about the parser of types   *)
(* that drives it.  Six parts:                                             *)
(*   - the least element of a set of positions, counting up and down, and  *)
(*     the functions that call themselves for a later argument             *)
(*     (skipWhiteSpaces and scanString): that there is such a function,    *)
(*     and what it returns when all it stops with is known;                *)
(*   - what each scan returns, and with these what lexNextToken promises   *)
(*     (Read, of LexNextTokenIs);                                          *)
(*   - the lexer's invariant and its theorems: what makes StaysInside and  *)
(*     LocationOK inductive is that the context was set at a place read;   *)
(*   - a token read alone: each scan compared with itself on the text of   *)
(*     the token only (ReadAlone);                                         *)
(*   - the parser of types: its steps are the lexer's, its flag is up only *)
(*     while there is a list to close, and the < it has read and not       *)
(*     closed are those of the stack, the innermost on top;                *)
(*   - the parser on a well-written type: as many lists are open on its    *)
(*     stack as in the text, the token it expects is the one that stands   *)
(*     there, and the flag is down inside a list only after a deeper one   *)
(*     was closed, so that only a deep type is rejected.                   *)
(***************************************************************************)
EXTENDS Templates, FiniteSetTheorems, SequenceTheorems, WellFoundedInduction, TLAPS

(***************************************************************************)
(* A set of positions has a least one.                                     *)
(***************************************************************************)
LEMMA LeastNat ==
    ASSUME NEW S \in SUBSET Nat, S # {}
    PROVE  \E m \in S : \A k \in S : m <= k
  <1> DEFINE R == {ss \in Nat \X Nat : ss[1] < ss[2]}
  <1>1. IsWellFoundedOn(R, Nat)
    BY NatLessThanWellFounded DEF OpToRel
  <1>2. \E x \in S : \A y \in S : ~ (<<y, x>> \in R)
    <2> HIDE DEF R
    <2> QED
      BY <1>1, WFMin
  <1>3. PICK x \in S : \A y \in S : ~ (<<y, x>> \in R)
    BY <1>2
  <1>4. \A y \in S : x <= y
    <2> SUFFICES ASSUME NEW y \in S, y < x PROVE FALSE
      OBVIOUS
    <2>1. <<y, x>> \in Nat \X Nat
      OBVIOUS
    <2>2. <<y, x>> \in R
      BY <2>1
    <2> QED
      BY <1>3, <2>2
  <1> QED
    BY <1>4

(***************************************************************************)
(* Induction over a set instead of a predicate: up from zero, and down     *)
(* from the end of the text.                                               *)
(***************************************************************************)
LEMMA CountUp ==
    ASSUME NEW S \in SUBSET Nat, NEW n \in Nat, 0 \in S,
           \A k \in 1..n : k - 1 \in S => k \in S
    PROVE  0..n \subseteq S
  <1> DEFINE Bad == (0..n) \ S
  <1> SUFFICES ASSUME Bad # {} PROVE FALSE
    OBVIOUS
  <1>1. Bad \in SUBSET Nat
    OBVIOUS
  <1>2. PICK k \in Bad : \A j \in Bad : k <= j
    <2> HIDE DEF Bad
    <2> QED
      BY <1>1, LeastNat
  <1>3. k \in 1..n /\ k - 1 \in 0..n
    BY <1>2
  <1> QED
    BY <1>2, <1>3

LEMMA CountDown ==
    ASSUME NEW a \in Nat, NEW n \in Nat, NEW S,
           \A q \in a..n : (\A r \in q + 1..n : r \in S) => q \in S
    PROVE  a..n \subseteq S
  <1> DEFINE T == {k \in Nat : \A q \in a..n : q > n - k => q \in S}
  <1>1. T \in SUBSET Nat /\ 0 \in T
    OBVIOUS
  <1>2. ASSUME NEW k \in 1..n + 1, k - 1 \in T PROVE k \in T
    <2> SUFFICES ASSUME NEW q \in a..n, q > n - k PROVE q \in S
      OBVIOUS
    <2>1. \A r \in q + 1..n : r \in S
      BY <1>2
    <2> QED
      BY <2>1
  <1>3. n + 1 \in T
    <2> HIDE DEF T
    <2>1. 0..n + 1 \subseteq T
      BY <1>1, <1>2, CountUp
    <2> QED
      BY <2>1
  <1> QED
    BY <1>3

\* A function that calls itself does it for a later argument.
Forward(a, n, G, next) == \A q \in a..n : q \in G => next[q] \in q + 1..n

Recurses(f, a, n, G, next, val) ==
    /\ f = [q \in a..n |-> f[q]]
    /\ \A q \in a..n : f[q] = IF q \in G THEN f[next[q]] ELSE val[q]

(***************************************************************************)
(* There is a function that stops outside G and calls itself for a later   *)
(* argument inside it.                                                     *)
(***************************************************************************)
LEMMA TailRecursion ==
    ASSUME NEW a \in Nat, NEW n \in Nat, NEW G, NEW next, NEW val, Forward(a, n, G, next)
    PROVE  \E f : Recurses(f, a, n, G, next, val)
  <1> USE DEF Forward
  <1> DEFINE Body(f, q) == IF q \in G THEN f[next[q]] ELSE val[q]
             Found(m) == \E f : f = [q \in m..n |-> Body(f, q)]
             S == {k \in Nat : k <= n + 1 - a => Found(n + 1 - k)}
  <1>1. 0 \in S
    <2> DEFINE f == [q \in n + 1..n |-> 0]
    <2>1. f = [q \in n + 1..n |-> Body(f, q)]
      OBVIOUS
    <2>2. n + 1 - 0 = n + 1
      OBVIOUS
    <2> QED
      BY <2>1, <2>2
  <1>2. ASSUME NEW m \in a..n, Found(m + 1) PROVE Found(m)
    <2>1. PICK g : g = [q \in m + 1..n |-> Body(g, q)]
      BY <1>2
    <2> DEFINE f == [q \in m..n |-> IF q = m THEN Body(g, m) ELSE g[q]]
    <2>2. \A q \in m + 1..n : f[q] = g[q]
      OBVIOUS
    <2>3. ASSUME NEW q \in m..n PROVE f[q] = Body(f, q)
      <3>1. q \in a..n /\ (q \in G => next[q] \in m + 1..n)
        OBVIOUS
      <3>2. Body(f, q) = Body(g, q)
        <4> HIDE DEF f
        <4> QED
          BY <2>2, <3>1
      <3>3. CASE q = m
        BY <3>2, <3>3
      <3>4. CASE q # m
        <4>1. q \in m + 1..n
          BY <3>4
        <4>2. g[q] = Body(g, q)
          <5> HIDE DEF Body
          <5> QED
            BY <2>1, <4>1
        <4> QED
          BY <2>2, <3>2, <4>1, <4>2
      <3> QED
        BY <3>3, <3>4
    <2>4. f = [q \in m..n |-> f[q]]
      OBVIOUS
    <2>5. f = [q \in m..n |-> Body(f, q)]
      <3> HIDE DEF f, Body
      <3> QED
        BY <2>3, <2>4
    <2> QED
      BY <2>5
  <1> HIDE DEF Found
  <1>3. ASSUME NEW k \in 1..n + 1, k - 1 \in S PROVE k \in S
    <2> SUFFICES ASSUME k <= n + 1 - a PROVE Found(n + 1 - k)
      OBVIOUS
    <2>1. n + 1 - k \in a..n /\ (n + 1 - k) + 1 = n + 1 - (k - 1)
      OBVIOUS
    <2>2. Found((n + 1 - k) + 1)
      BY <1>3, <2>1
    <2> QED
      BY <1>2, <2>1, <2>2
  <1>4. 0..n + 1 \subseteq S
    <2>1. S \in SUBSET Nat /\ n + 1 \in Nat
      OBVIOUS
    <2> HIDE DEF S
    <2> QED
      BY <1>1, <1>3, <2>1, CountUp
  <1>5. ASSUME a <= n + 1 PROVE Found(a)
    <2>1. n + 1 - a \in 0..n + 1 /\ n + 1 - (n + 1 - a) = a
      BY <1>5
    <2>2. n + 1 - a \in S
      <3> HIDE DEF S
      <3> QED
        BY <1>4, <2>1
    <2>3. Found(n + 1 - (n + 1 - a))
      BY <2>1, <2>2
    <2> QED
      BY <2>1, <2>3
  <1>6. ASSUME a > n + 1 PROVE Found(a)
    <2> DEFINE f == [q \in a..n |-> 0]
    <2>1. f = [q \in a..n |-> Body(f, q)]
      BY <1>6
    <2> QED
      BY <2>1 DEF Found
  <1>7. PICK f : f = [q \in a..n |-> Body(f, q)]
    <2>1. Found(a)
      BY <1>5, <1>6
    <2> QED
      BY <2>1 DEF Found
  <1>8. f = [q \in a..n |-> f[q]] /\ \A q \in a..n : f[q] = Body(f, q)
    <2> HIDE DEF Body
    <2> QED
      BY <1>7
  <1>9. Recurses(f, a, n, G, next, val)
    BY <1>8 DEF Recurses
  <1> QED
    BY <1>9

(***************************************************************************)
(* Min and Max of FiniteSetsExt return the least and the greatest.         *)
(***************************************************************************)
LEMMA MinIs ==
    ASSUME NEW S \in SUBSET Nat, S # {}
    PROVE  Min(S) \in S /\ \A k \in S : Min(S) <= k
  <1>1. \E m \in S : \A k \in S : m <= k
    BY LeastNat
  <1> QED
    BY <1>1 DEF Min

LEMMA MaxIs ==
    ASSUME NEW S \in SUBSET Nat, S # {}, NEW n \in Nat, \A k \in S : k <= n
    PROVE  Max(S) \in S /\ \A k \in S : Max(S) >= k
  <1> DEFINE D == {d \in Nat : \E k \in S : d = n - k}
  <1>0. \A k \in S : n - k \in D
    OBVIOUS
  <1>1. D \in SUBSET Nat /\ D # {}
    BY <1>0
  <1>2. PICK d \in D : \A e \in D : d <= e
    BY <1>1, LeastNat
  <1>3. PICK m \in S : d = n - m
    BY <1>2
  <1>4. \A k \in S : m >= k
    <2> HIDE DEF D
    <2> QED
      BY <1>0, <1>2, <1>3
  <1> QED
    BY <1>4 DEF Max
-----------------------------------------------------------------------------
(***************************************************************************)
(* The NUL at the end of the buffer is of no class of characters.          *)
(***************************************************************************)
LEMMA Apart ==
    /\ "NUL" \notin White /\ "NUL" \notin Decimal /\ "NUL" \notin Letters
  BY Zenon DEF White, Decimal, Letters

(***************************************************************************)
(* Span and Until stop at the first character they may stop at, and there  *)
(* is one: the NUL at the end.                                             *)
(***************************************************************************)
LEMMA SpanIs ==
    ASSUME NEW t \in Seq(STRING), NEW p \in 1..Eof(t), NEW S, "NUL" \notin S
    PROVE  /\ Span(t, p, S) \in p..Eof(t)
           /\ At(t, Span(t, p, S)) \notin S
           /\ \A i \in p..Span(t, p, S) - 1 : At(t, i) \in S
  <1> DEFINE Q == {q \in p..Eof(t) : At(t, q) \notin S}
  <1>1. Eof(t) \in Nat /\ p \in Nat /\ Eof(t) \in Q
    BY DEF Eof, At
  <1>2. Q \in SUBSET Nat /\ Q # {}
    BY <1>1
  <1>3. Min(Q) \in Q /\ \A k \in Q : Min(Q) <= k
    BY <1>2, MinIs
  <1>4. Span(t, p, S) = Min(Q)
    BY DEF Span
  <1>5. ASSUME NEW i \in p..Min(Q) - 1 PROVE At(t, i) \in S
    <2>1. i \in p..Eof(t) /\ i \notin Q
      BY <1>1, <1>3
    <2> QED
      BY <2>1
  <1> HIDE DEF Q
  <1>6. Min(Q) \in p..Eof(t) /\ At(t, Min(Q)) \notin S
    BY <1>3 DEF Q
  <1> QED
    BY <1>4, <1>5, <1>6

LEMMA UntilIs ==
    ASSUME NEW t \in Seq(STRING), NEW p \in 1..Eof(t), NEW S
    PROVE  /\ Until(t, p, S) \in p..Eof(t)
           /\ At(t, Until(t, p, S)) \in S \cup {"NUL"}
           /\ \A i \in p..Until(t, p, S) - 1 : At(t, i) \notin S \cup {"NUL"}
  <1> DEFINE Q == {q \in p..Eof(t) : At(t, q) \in S \cup {"NUL"}}
  <1>1. Eof(t) \in Nat /\ p \in Nat /\ Eof(t) \in Q
    BY DEF Eof, At
  <1>2. Q \in SUBSET Nat /\ Q # {}
    BY <1>1
  <1>3. Min(Q) \in Q /\ \A k \in Q : Min(Q) <= k
    BY <1>2, MinIs
  <1>4. Until(t, p, S) = Min(Q)
    BY DEF Until
  <1>5. ASSUME NEW i \in p..Min(Q) - 1 PROVE At(t, i) \notin S \cup {"NUL"}
    <2>1. i \in p..Eof(t) /\ i \notin Q
      BY <1>1, <1>3
    <2> QED
      BY <2>1
  <1> HIDE DEF Q
  <1>6. Min(Q) \in p..Eof(t) /\ At(t, Min(Q)) \in S \cup {"NUL"}
    BY <1>3 DEF Q
  <1> QED
    BY <1>4, <1>5, <1>6

\* skipWhiteSpaces as a function of the positions
SkipFrom(t, f, q) ==
    LET w == Span(t, q, White)
    IN  IF At(t, w) = "/" /\ At(t, w + 1) = "/" THEN f[Until(t, w, {"\r", "\n"})] ELSE w

\* A comment begins at q.
Comment(t, q) == At(t, q) = "/" /\ At(t, q + 1) = "/"

LEMMA SkipDef ==
    ASSUME NEW t, NEW p
    PROVE  SkipWhiteSpaces(t, p) = (CHOOSE f : f = [q \in 1..Eof(t) |-> SkipFrom(t, f, q)])[p]
  BY DEF SkipWhiteSpaces, SkipFrom

(***************************************************************************)
(* A comment takes skipWhiteSpaces at least to the next place.             *)
(***************************************************************************)
LEMMA CommentGoesOn ==
    ASSUME NEW t \in Seq(STRING), NEW q \in 1..Eof(t),
           At(t, Span(t, q, White)) = "/", At(t, Span(t, q, White) + 1) = "/"
    PROVE  Until(t, Span(t, q, White), {"\r", "\n"}) \in q + 1..Eof(t)
  <1>1. "NUL" \notin White
    BY Apart
  <1>2. Span(t, q, White) \in q..Eof(t)
    BY <1>1, SpanIs
  <1>3. Span(t, q, White) \in 1..Eof(t) /\ Eof(t) \in Nat /\ q \in Nat
    BY <1>2 DEF Eof
  <1>4. /\ Until(t, Span(t, q, White), {"\r", "\n"}) \in Span(t, q, White)..Eof(t)
        /\ At(t, Until(t, Span(t, q, White), {"\r", "\n"})) \in {"\r", "\n", "NUL"}
    BY <1>3, UntilIs
  <1>5. Until(t, Span(t, q, White), {"\r", "\n"}) # Span(t, q, White)
    BY <1>4
  <1> QED
    BY <1>2, <1>3, <1>4, <1>5

\* A comment between p and a place b inside the text has come to its end of line.
CommentsEnd(t, p, b) ==
    At(t, b) # "NUL" =>
        \A j \in p..b - 1 : At(t, j) = "/" => \E k \in j..b - 1 : At(t, k) \in {"\r", "\n"}

(***************************************************************************)
(* skipWhiteSpaces returns, and everything it has passed is a blank or in  *)
(* a comment.                                                              *)
(***************************************************************************)
LEMMA SkipExists ==
    ASSUME NEW t \in Seq(STRING)
    PROVE  \E f : f = [q \in 1..Eof(t) |-> SkipFrom(t, f, q)]
  <1> DEFINE val  == [q \in 1..Eof(t) |-> Span(t, q, White)]
             G    == {q \in 1..Eof(t) : At(t, val[q]) = "/" /\ At(t, val[q] + 1) = "/"}
             next == [q \in 1..Eof(t) |-> Until(t, val[q], {"\r", "\n"})]
  <1>1. /\ Eof(t) \in Nat /\ 1 \in Nat
        /\ \A q \in 1..Eof(t) : q \in G => next[q] \in q + 1..Eof(t)
    BY CommentGoesOn DEF Eof
  <1>2. \A f : \A q \in 1..Eof(t) :
          SkipFrom(t, f, q) = IF q \in G THEN f[next[q]] ELSE val[q]
    BY DEF SkipFrom
  <1> HIDE DEF G, next, val
  <1>3. PICK f : Recurses(f, 1, Eof(t), G, next, val)
    <2>1. Forward(1, Eof(t), G, next)
      BY <1>1 DEF Forward
    <2> QED
      BY <1>1, <2>1, TailRecursion
  <1>4. \A q \in 1..Eof(t) : f[q] = SkipFrom(t, f, q)
    BY <1>2, <1>3 DEF Recurses
  <1>5. f = [q \in 1..Eof(t) |-> SkipFrom(t, f, q)]
    BY <1>3, <1>4 DEF Recurses
  <1> QED
    BY <1>5

LEMMA SkipIs ==
    ASSUME NEW t \in Seq(STRING), NEW p \in 1..Eof(t)
    PROVE  /\ SkipWhiteSpaces(t, p) \in p..Eof(t)
           /\ At(t, SkipWhiteSpaces(t, p)) \notin White
           /\ \A i \in p..SkipWhiteSpaces(t, p) - 1 : Blank(t, i)
           /\ ~Comment(t, SkipWhiteSpaces(t, p))
           /\ CommentsEnd(t, p, SkipWhiteSpaces(t, p))
  <1> DEFINE N == Eof(t)
             f == CHOOSE g : g = [q \in 1..N |-> SkipFrom(t, g, q)]
             Good(q) == /\ f[q] \in q..N /\ At(t, f[q]) \notin White
                        /\ \A i \in q..f[q] - 1 : Blank(t, i)
                        /\ ~Comment(t, f[q]) /\ CommentsEnd(t, q, f[q])
             S == {q \in 1..N : Good(q)}
  <1>0. N \in Nat /\ N >= 1 /\ "NUL" \notin White /\ Len(t) = N - 1
    BY Apart DEF Eof
  <1>1. f = [q \in 1..N |-> SkipFrom(t, f, q)]
    BY SkipExists
  <1>2. SkipWhiteSpaces(t, p) = f[p]
    BY SkipDef
  <1> HIDE DEF f
  <1>3. ASSUME NEW q \in 1..N, \A r \in q + 1..N : Good(r) PROVE Good(q)
    <2> DEFINE w == Span(t, q, White)
    <2>1. /\ w \in q..N /\ At(t, w) \notin White
          /\ \A i \in q..w - 1 : At(t, i) \in White
      BY <1>0, SpanIs
    <2>2. \A i \in q..w - 1 : Blank(t, i)
      BY <1>0, <2>1 DEF Blank, At
    <2>3. f[q] = SkipFrom(t, f, q)
      BY <1>1
    <2>4. CASE At(t, w) = "/" /\ At(t, w + 1) = "/"
      <3> DEFINE u == Until(t, w, {"\r", "\n"})
      <3>1. f[q] = f[u]
        BY <2>3, <2>4 DEF SkipFrom
      <3>2. u \in q + 1..N
        BY <2>4, CommentGoesOn
      <3>3. w \in 1..N
        BY <1>0, <2>1
      <3>4. /\ \A i \in w..u - 1 : At(t, i) \notin {"\r", "\n"}
            /\ At(t, u) \in {"\r", "\n"} \cup {"NUL"}
        BY <3>3, UntilIs
      <3> HIDE DEF w, u
      <3>5. \A i \in w..u - 1 : Blank(t, i)
        <4> SUFFICES ASSUME NEW i \in w..u - 1 PROVE Blank(t, i)
          OBVIOUS
        <4>1. t[w] = "/" /\ w \in 1..i
          BY <1>0, <2>1, <2>4, <3>2, <3>3 DEF At
        <4>2. \A k \in w..i : t[k] \notin {"\r", "\n"}
          BY <1>0, <2>1, <3>2, <3>3, <3>4 DEF At
        <4> QED
          BY <4>1, <4>2, <2>4 DEF Blank
      <3>6. Good(u)
        BY <1>3, <3>2
      <3>7. CommentsEnd(t, q, f[u])
        <4> SUFFICES ASSUME At(t, f[u]) # "NUL", NEW j \in q..f[u] - 1, At(t, j) = "/"
                     PROVE  \E k \in j..f[u] - 1 : At(t, k) \in {"\r", "\n"}
          BY DEF CommentsEnd
        <4>1. f[u] \in u..N /\ At(t, f[u]) \notin White /\ CommentsEnd(t, u, f[u])
          BY <3>6
        <4>2. At(t, u) # "NUL"
          <5> SUFFICES ASSUME At(t, u) = "NUL" PROVE f[u] = u
            BY <4>1
          <5>1. u \in 1..N
            BY <1>0, <3>2
          <5>2. /\ Span(t, u, White) \in u..N
                /\ \A i \in u..Span(t, u, White) - 1 : At(t, i) \in White
            BY <1>0, <5>1, SpanIs
          <5>3. Span(t, u, White) = u
            BY <1>0, <5>1, <5>2
          <5>4. f[u] = SkipFrom(t, f, u)
            BY <1>1, <5>1
          <5> QED
            BY <5>3, <5>4 DEF SkipFrom
        <4>3. At(t, u) \in {"\r", "\n"} /\ At(t, u) \in White
          BY <3>4, <4>2 DEF White
        <4>4. u # f[u]
          BY <4>1, <4>3
        <4>5. CASE j \in q..w - 1
          BY <2>1, <4>5 DEF White
        <4>6. CASE j \in w..u - 1
          <5>1. u \in j..f[u] - 1
            BY <1>0, <3>2, <3>3, <4>1, <4>4, <4>6
          <5> QED
            BY <4>3, <5>1
        <4>7. CASE j \in u..f[u] - 1
          BY <4>1, <4>7 DEF CommentsEnd
        <4> QED
          BY <1>0, <2>1, <3>2, <3>3, <4>1, <4>5, <4>6, <4>7
      <3> QED
        BY <1>0, <2>1, <2>2, <3>1, <3>2, <3>3, <3>5, <3>6, <3>7
    <2>5. CASE ~(At(t, w) = "/" /\ At(t, w + 1) = "/")
      <3>1. f[q] = w
        BY <2>3, <2>5 DEF SkipFrom
      <3> QED
        <4>1. CommentsEnd(t, q, w)
          BY <2>1 DEF CommentsEnd, White
        <4> QED
          BY <2>1, <2>2, <2>5, <3>1, <4>1 DEF Comment
    <2> QED
      BY <2>4, <2>5
  <1> HIDE DEF Good
  <1>4. 1..N \subseteq S
    <2>1. \A q \in 1..N : (\A r \in q + 1..N : r \in S) => q \in S
      BY <1>0, <1>3
    <2> HIDE DEF S
    <2> QED
      BY <1>0, <2>1, CountDown
  <1> QED
    BY <1>2, <1>4 DEF Good
-----------------------------------------------------------------------------
Stops(a, n, G, val, V) == \A q \in a..n : q \notin G => val[q] \in V

(***************************************************************************)
(* What a function calling itself returns is something it stops with.      *)
(***************************************************************************)
LEMMA RecursionIn ==
    ASSUME NEW a \in Nat, NEW n \in Nat, NEW G, NEW next, NEW val, NEW f, NEW V,
           Forward(a, n, G, next), Recurses(f, a, n, G, next, val), Stops(a, n, G, val, V)
    PROVE  \A q \in a..n : f[q] \in V
  <1> DEFINE S == {q \in a..n : f[q] \in V}
  <1>1. \A q \in a..n : (\A r \in q + 1..n : r \in S) => q \in S
    BY DEF Forward, Recurses, Stops
  <1>2. a..n \subseteq S
    <2> HIDE DEF S
    <2> QED
      BY <1>1, CountDown
  <1> QED
    BY <1>2

\* The characters the lexer tells apart
LEMMA NotNewline ==
    /\ "\n" \notin Decimal
    /\ \A base \in {2, 8, 10, 16} : /\ "\n" \notin DigitsOf(base)
                                     /\ "NUL" \notin DigitsOf(base)
  BY Zenon DEF DigitsOf, Decimal

\* A scan that starts at p ends the token later, within the text, or ran past
\* the end of the text.
Scanned(t, p) == {Ends(k) : k \in p + 1..Eof(t)} \cup {Exits(k) : k \in p + 1..Eof(t)}
RanOver(t) == [to |-> Eof(t) + 1, status |-> "overrun"]

\* A number is on one line and has a digit.
Number(t, p, to) ==
    /\ \A i \in p..to - 1 : At(t, i) # "\n"
    /\ \E i \in p..to - 1 : At(t, i) \in Decimal

LEMMA Within ==
    ASSUME NEW t \in Seq(STRING), NEW i \in 1..Eof(t), At(t, i) # "NUL"
    PROVE  i \in 1..Len(t) /\ i + 1 \in 1..Eof(t)
  BY DEF At, Eof

(***************************************************************************)
(* scanFloat, scanInteger and scanString: each ends the token within the   *)
(* text, scanString but for a string that is not closed.                   *)
(***************************************************************************)
LEMMA ScanFloatIs ==
    ASSUME NEW t \in Seq(STRING), NEW p \in 1..Len(t),
           At(t, p) \in Decimal \/ (At(t, p) = "." /\ At(t, p + 1) \in Decimal)
    PROVE  ScanFloat(t, p) \in Scanned(t, p) /\ Number(t, p, ScanFloat(t, p).to)
  <1> DEFINE whole == Span(t, p, Decimal)
             point == IF At(t, whole) = "." THEN whole + 1 ELSE whole
             frac  == Span(t, point, Decimal)
             sign  == IF At(t, frac + 1) \in {"+", "-"} THEN frac + 2 ELSE frac + 1
             exp   == IF At(t, frac) = "e" THEN Span(t, sign, Decimal) ELSE frac
             last  == IF At(t, exp) = "f" THEN exp + 1 ELSE exp
  <1>1. p \in 1..Eof(t) /\ Eof(t) \in Nat
    BY DEF Eof
  <1>2. "NUL" \notin Decimal /\ "\n" \notin Decimal
    BY Apart, NotNewline
  <1>3. /\ whole \in p..Eof(t) /\ At(t, whole) \notin Decimal
        /\ \A i \in p..whole - 1 : At(t, i) \in Decimal
    BY <1>1, <1>2, SpanIs
  <1>4. point \in whole..Eof(t) /\ \A i \in p..point - 1 : At(t, i) # "\n"
    BY <1>1, <1>2, <1>3, Within
  <1>5. /\ frac \in point..Eof(t) /\ At(t, frac) \notin Decimal
        /\ \A i \in point..frac - 1 : At(t, i) \in Decimal
    <2> HIDE DEF point
    <2>1. point \in 1..Eof(t)
      BY <1>1, <1>3, <1>4
    <2> QED
      BY <1>2, <2>1, SpanIs
  <1>6. \A i \in p..frac - 1 : At(t, i) # "\n"
    BY <1>1, <1>2, <1>3, <1>4, <1>5
  <1>7. frac > p /\ \E i \in p..frac - 1 : At(t, i) \in Decimal
    <2>1. CASE At(t, p) \in Decimal
      BY <1>1, <1>3, <1>4, <1>5, <2>1
    <2>2. CASE At(t, p) = "." /\ At(t, p + 1) \in Decimal
      BY <1>1, <1>2, <1>3, <1>4, <1>5, <2>2
    <2> QED
      BY <2>1, <2>2
  <1> HIDE DEF whole, point, frac
  <1>8. frac \in p + 1..Eof(t)
    BY <1>1, <1>3, <1>4, <1>5, <1>7
  <1>9. At(t, frac) = "e" =>
          sign \in frac + 1..Eof(t) /\ \A i \in p..sign - 1 : At(t, i) # "\n"
    <2> SUFFICES ASSUME At(t, frac) = "e" PROVE
          sign \in frac + 1..Eof(t) /\ \A i \in p..sign - 1 : At(t, i) # "\n"
      OBVIOUS
    <2>1. frac + 1 \in 1..Eof(t)
      BY <1>1, <1>8, Within
    <2>2. At(t, frac + 1) \in {"+", "-"} => frac + 2 \in 1..Eof(t)
      <3> SUFFICES ASSUME At(t, frac + 1) \in {"+", "-"} PROVE frac + 2 \in 1..Eof(t)
        OBVIOUS
      <3>1. (frac + 1) + 1 \in 1..Eof(t)
        BY <2>1, Within
      <3> QED
        BY <1>8, <3>1
    <2> QED
      BY <1>1, <1>6, <1>8, <2>1, <2>2
  <1>10. exp \in frac..Eof(t) /\ \A i \in p..exp - 1 : At(t, i) # "\n"
    <2>1. CASE At(t, frac) = "e"
      <3> HIDE DEF sign
      <3>1. sign \in 1..Eof(t) /\ sign \in frac + 1..Eof(t)
        BY <1>1, <1>8, <1>9, <2>1
      <3>2. exp \in sign..Eof(t) /\ \A i \in sign..exp - 1 : At(t, i) \in Decimal
        BY <1>2, <2>1, <3>1, SpanIs
      <3> QED
        BY <1>1, <1>2, <1>8, <1>9, <2>1, <3>1, <3>2
    <2>2. CASE At(t, frac) # "e"
      BY <1>1, <1>6, <1>8, <2>2
    <2> QED
      BY <2>1, <2>2
  <1> HIDE DEF exp
  <1>11. last \in exp..Eof(t) /\ \A i \in p..last - 1 : At(t, i) # "\n"
    BY <1>1, <1>8, <1>10, Within
  <1> HIDE DEF last, sign
  <1>12. ScanFloat(t, p) = IF At(t, frac) = "e" /\ At(t, sign) \notin Decimal
                           THEN Exits(sign) ELSE Ends(last)
    BY DEF ScanFloat, whole, point, frac, sign, exp, last
  <1>13. CASE At(t, frac) = "e" /\ At(t, sign) \notin Decimal
    <2>1. ScanFloat(t, p) = Exits(sign) /\ sign \in frac + 1..Eof(t)
      BY <1>9, <1>12, <1>13
    <2>2. ScanFloat(t, p) \in Scanned(t, p) /\ ScanFloat(t, p).to = sign
      BY <1>1, <1>8, <2>1 DEF Scanned, Exits
    <2>3. Number(t, p, sign)
      BY <1>1, <1>7, <1>8, <1>9, <1>13, <2>1 DEF Number
    <2> QED
      BY <2>2, <2>3
  <1>14. CASE ~(At(t, frac) = "e" /\ At(t, sign) \notin Decimal)
    <2>1. ScanFloat(t, p) = Ends(last) /\ last \in frac..Eof(t)
      BY <1>1, <1>8, <1>10, <1>11, <1>12, <1>14
    <2>2. ScanFloat(t, p) \in Scanned(t, p) /\ ScanFloat(t, p).to = last
      BY <1>1, <1>8, <2>1 DEF Scanned, Ends
    <2>3. Number(t, p, last)
      BY <1>1, <1>7, <1>8, <1>11, <2>1 DEF Number
    <2> QED
      BY <2>2, <2>3
  <1> QED
    BY <1>13, <1>14

LEMMA ScanIntegerIs ==
    ASSUME NEW t \in Seq(STRING), NEW p \in 1..Len(t), At(t, p) \in Decimal
    PROVE  ScanInteger(t, p) \in Scanned(t, p) /\ Number(t, p, ScanInteger(t, p).to)
  <1> DEFINE second == IF t[p] = "0" THEN At(t, p + 1) ELSE "NUL"
  <1>1. p \in 1..Eof(t) /\ Eof(t) \in Nat /\ p + 1 \in 1..Eof(t)
    BY DEF Eof
  <1>2. "\n" \notin Decimal
    BY NotNewline
  <1>3. ASSUME NEW base \in {2, 8, 10, 16}, NEW q \in {p, p + 2}, q \in 1..Eof(t),
               \A i \in p..q - 1 : At(t, i) # "\n"
        PROVE  /\ Span(t, q, DigitsOf(base)) \in q..Eof(t)
               /\ At(t, Span(t, q, DigitsOf(base))) \notin DigitsOf(base)
               /\ \A i \in p..Span(t, q, DigitsOf(base)) - 1 : At(t, i) # "\n"
    <2>1. "NUL" \notin DigitsOf(base) /\ "\n" \notin DigitsOf(base)
      BY NotNewline
    <2>2. /\ Span(t, q, DigitsOf(base)) \in q..Eof(t)
          /\ At(t, Span(t, q, DigitsOf(base))) \notin DigitsOf(base)
          /\ \A i \in q..Span(t, q, DigitsOf(base)) - 1 : At(t, i) \in DigitsOf(base)
      BY <1>3, <2>1, SpanIs
    <2> QED
      BY <1>1, <1>3, <2>1, <2>2
  <1>4. second # "NUL" => p + 2 \in 1..Eof(t)
    <2> SUFFICES ASSUME second # "NUL" PROVE p + 2 \in 1..Eof(t)
      OBVIOUS
    <2>1. At(t, p + 1) # "NUL"
      OBVIOUS
    <2>2. (p + 1) + 1 \in 1..Eof(t)
      BY <1>1, <2>1, Within
    <2> QED
      BY <2>2
  <1>5. ASSUME NEW base \in {2, 8, 16}, second # "NUL", second # "\n",
               ScanInteger(t, p) = Ends(Span(t, p + 2, DigitsOf(base)))
        PROVE  ScanInteger(t, p) \in Scanned(t, p) /\ Number(t, p, ScanInteger(t, p).to)
    <2>1. p + 2 \in 1..Eof(t) /\ \A i \in p..(p + 2) - 1 : At(t, i) # "\n"
      BY <1>1, <1>2, <1>4, <1>5
    <2>2. /\ Span(t, p + 2, DigitsOf(base)) \in p + 2..Eof(t)
          /\ \A i \in p..Span(t, p + 2, DigitsOf(base)) - 1 : At(t, i) # "\n"
      BY <1>3, <2>1
    <2>3. Number(t, p, Span(t, p + 2, DigitsOf(base)))
      BY <1>1, <2>2 DEF Number
    <2> QED
      BY <1>1, <1>5, <2>2, <2>3 DEF Scanned, Ends
  <1>6. CASE ScanInteger(t, p) = Ends(Span(t, p, DigitsOf(10)))
    <2>0. DigitsOf(10) = Decimal
      BY DEF DigitsOf
    <2>1. /\ Span(t, p, DigitsOf(10)) \in p..Eof(t)
          /\ At(t, Span(t, p, DigitsOf(10))) \notin Decimal
          /\ \A i \in p..Span(t, p, DigitsOf(10)) - 1 : At(t, i) # "\n"
      BY <1>1, <1>3, <2>0
    <2>2. Number(t, p, Span(t, p, DigitsOf(10)))
      BY <1>1, <2>1 DEF Number
    <2> QED
      BY <1>1, <1>6, <2>1, <2>2 DEF Scanned, Ends
  <1>7. "NUL" \notin Decimal /\ "x" \notin Decimal /\ "b" \notin Decimal
    BY Zenon DEF Decimal
  <1>8. ScanInteger(t, p) = CASE second = "x"       -> Ends(Span(t, p + 2, DigitsOf(16)))
                              [] second = "b"       -> Ends(Span(t, p + 2, DigitsOf(2)))
                              [] second \in Decimal -> Ends(Span(t, p + 2, DigitsOf(8)))
                              [] OTHER              -> Ends(Span(t, p, DigitsOf(10)))
    BY DEF ScanInteger
  <1> HIDE DEF second
  <1> QED
    BY <1>2, <1>5, <1>6, <1>7, <1>8

\* scanString as a function of the positions
StringStep(t, p, f, q) ==
    IF q > Len(t) THEN RanOver(t)
    ELSE IF t[q] = t[p] THEN Ends(q + 1)
    ELSE IF t[q] # "\\" THEN f[q + 1]
    ELSE IF At(t, q + 1) \in Escapes THEN f[q + 2] ELSE Exits(q + 1)

Scans(t, p, f) == /\ ScanString(t, p) = f[p + 1]
                  /\ \A q \in p..Eof(t) + 1 : f[q] = StringStep(t, p, f, q)

LEMMA ScanStringRuns ==
    ASSUME NEW t \in Seq(STRING), NEW p \in 1..Len(t)
    PROVE  \E f : Scans(t, p, f) /\ f[p + 1] \in Scanned(t, p) \cup {RanOver(t)}
  <1> DEFINE N    == Eof(t) + 1
             G    == {q \in p..Len(t) : /\ t[q] # t[p]
                                        /\ t[q] = "\\" => At(t, q + 1) \in Escapes}
             next == [q \in p..N |-> IF t[q] # "\\" THEN q + 1 ELSE q + 2]
             val  == [q \in p..N |-> IF q > Len(t) THEN RanOver(t)
                                     ELSE IF t[q] = t[p] THEN Ends(q + 1) ELSE Exits(q + 1)]
             scan == CHOOSE f : f = [q \in p..N |-> StringStep(t, p, f, q)]
             V    == Scanned(t, p) \cup {RanOver(t)}
  <1>1. /\ p \in Nat /\ N \in Nat /\ Len(t) \in Nat /\ N = Len(t) + 2 /\ p + 1 \in p..N
        /\ Eof(t) = Len(t) + 1
    BY DEF Eof
  <1>2. ScanString(t, p) = scan[p + 1]
    BY DEF ScanString, RanOver, StringStep
  <1>3. ASSUME NEW f, NEW q \in p..N
        PROVE  StringStep(t, p, f, q) = IF q \in G THEN f[next[q]] ELSE val[q]
    BY <1>1 DEF StringStep
  <1>4. Forward(p, N, G, next)
    BY <1>1 DEF Forward
  <1>5. Stops(p, N, G, val, V)
    BY <1>1 DEF Scanned, Stops
  <1> HIDE DEF G, next, val, N, V
  <1>6. PICK f : Recurses(f, p, N, G, next, val)
    BY <1>1, <1>4, TailRecursion
  <1>7. f = [q \in p..N |-> StringStep(t, p, f, q)]
    BY <1>3, <1>6 DEF Recurses
  <1>8. scan = [q \in p..N |-> StringStep(t, p, scan, q)]
    BY <1>7
  <1> HIDE DEF scan
  <1>9. Recurses(scan, p, N, G, next, val)
    BY <1>3, <1>8 DEF Recurses
  <1>10. \A q \in p..N : scan[q] \in V
    BY <1>1, <1>4, <1>5, <1>9, RecursionIn
  <1>11. Scans(t, p, scan)
    BY <1>2, <1>8 DEF Scans, N
  <1> QED
    BY <1>1, <1>10, <1>11 DEF V

LEMMA ScanStringIs ==
    ASSUME NEW t \in Seq(STRING), NEW p \in 1..Len(t)
    PROVE  ScanString(t, p) \in Scanned(t, p) \cup {RanOver(t)}
  BY ScanStringRuns DEF Scans
-----------------------------------------------------------------------------
\* A test looks at a character and steps over it or not.
Fit(tests) ==
    /\ Len(tests) \in 0..3
    /\ \A i \in 1..Len(tests) : tests[i].on # "NUL" /\ tests[i].by \in {0, 1}

LEMMA TestsFit ==
    ASSUME NEW c, NEW flag \in BOOLEAN
    PROVE  Fit(Tests(c, flag))
  <1> DEFINE Fine(x) == x.on # "NUL" /\ x.by \in {0, 1}
  <1>1. \A on, kind : on # "NUL" => Fine(Peek(on, kind)) /\ Fine(Test(on, kind))
    BY DEF Peek, Test
  <1>2. \A k, on, kind : on # "NUL" => Fine(After(k, on, kind))
    BY DEF After
  <1>3. Fit(<<>>)
    BY DEF Fit
  <1>4. \A x : Fine(x) => Fit(<<x>>)
    BY DEF Fit
  <1>5. \A x, y : Fine(x) /\ Fine(y) => Fit(<<x, y>>)
    BY DEF Fit
  <1>6. \A x, y, z : Fine(x) /\ Fine(y) /\ Fine(z) => Fit(<<x, y, z>>)
    BY DEF Fit
  <1> HIDE DEF Fine
  <1>8. c = ">" => Fit(Tests(c, flag))
    BY <1>1, <1>2, <1>4, <1>6 DEF Tests
  <1> QED
    BY <1>1, <1>2, <1>3, <1>4, <1>5, <1>6, <1>8 DEF Tests

(***************************************************************************)
(* Each of the tests steps over a character it has seen, so none steps     *)
(* over the end of the text.                                               *)
(***************************************************************************)
LEMMA PunctuationIs ==
    ASSUME NEW t \in Seq(STRING), NEW p \in 1..Len(t), NEW flag \in BOOLEAN
    PROVE  Punctuation(t, p, flag).to \in p + 1..Eof(t)
  <1> DEFINE tests == Tests(t[p], flag)
             Go(acc, i) ==
               IF i <= Len(tests) /\ At(t, acc.to) = tests[i].on /\ tests[i].if \in {"", acc.kind}
               THEN [kind |-> tests[i].kind, to |-> acc.to + tests[i].by]
               ELSE acc
             first == [kind |-> t[p], to |-> p + 1]
  <1>1. p \in 1..Eof(t) /\ p + 1 \in 1..Eof(t) /\ Eof(t) \in Nat /\ Eof(t) = Len(t) + 1
    BY DEF Eof
  <1>2. ASSUME NEW acc, NEW i \in 1..3, acc.to \in p + 1..Eof(t)
        PROVE  Go(acc, i).to \in p + 1..Eof(t)
    <2>1. CASE Go(acc, i) = acc
      BY <1>2, <2>1
    <2>2. CASE /\ i <= Len(tests) /\ At(t, acc.to) = tests[i].on
               /\ Go(acc, i) = [kind |-> tests[i].kind, to |-> acc.to + tests[i].by]
      <3>0. Fit(tests)
        BY TestsFit
      <3> HIDE DEF tests, Go
      <3>1. tests[i].on # "NUL" /\ tests[i].by \in {0, 1}
        BY <2>2, <3>0 DEF Fit
      <3>2. acc.to + 1 \in 1..Eof(t)
        <4>1. acc.to \in 1..Eof(t) /\ At(t, acc.to) # "NUL"
          BY <1>1, <1>2, <2>2, <3>1
        <4> QED
          BY <4>1, Within
      <3> QED
        BY <1>1, <1>2, <2>2, <3>1, <3>2
    <2> QED
      BY <2>1, <2>2
  <1>3. first.to \in p + 1..Eof(t)
    BY <1>1
  <1>4. Punctuation(t, p, flag) =
          IF t[p] = "." /\ At(t, p + 1) = "." /\ At(t, p + 2) = "."
          THEN [kind |-> "...", to |-> p + 3] ELSE Go(Go(Go(first, 1), 2), 3)
    BY DEF Punctuation
  <1> HIDE DEF Go, first, tests
  <1>5. CASE t[p] = "." /\ At(t, p + 1) = "." /\ At(t, p + 2) = "."
    <2>1. p + 2 \in 1..Eof(t)
      <3>1. (p + 1) + 1 \in 1..Eof(t)
        BY <1>1, <1>5, Within
      <3> QED
        BY <3>1
    <2>2. (p + 2) + 1 \in 1..Eof(t)
      BY <1>5, <2>1, Within
    <2> QED
      BY <1>1, <1>4, <1>5, <2>2
  <1>6. CASE ~(t[p] = "." /\ At(t, p + 1) = "." /\ At(t, p + 2) = ".")
    <2>1. Go(first, 1).to \in p + 1..Eof(t)
      BY <1>2, <1>3
    <2>2. Go(Go(first, 1), 2).to \in p + 1..Eof(t)
      BY <1>2, <2>1
    <2>3. Go(Go(Go(first, 1), 2), 3).to \in p + 1..Eof(t)
      BY <1>2, <2>2
    <2> QED
      BY <1>4, <1>6, <2>3
  <1> QED
    BY <1>5, <1>6

\* What the lexer promises of a token read from p.
Read(t, p, tok) ==
    /\ tok.from \in p..Eof(t) /\ \A i \in p..tok.from - 1 : Blank(t, i)
    /\ tok.status \in {"lexing", "exited", "overrun"}
    /\ tok.status # "overrun" => tok.to \in tok.from..Eof(t)
    /\ tok.status = "overrun" => tok.to = Eof(t) + 1
    /\ tok.to > tok.from \/ tok.kind = "eof"
    /\ tok.again \in Nat
    /\ tok.again > 0 => Number(t, tok.from, tok.to)

LEMMA TokenIs ==
    ASSUME NEW t \in Seq(STRING), NEW p \in 1..Eof(t), NEW b \in 1..Eof(t), NEW kind, NEW scan,
           NEW again, b \in p..Eof(t), \A i \in p..b - 1 : Blank(t, i),
           \/ scan \in Scanned(t, b) /\ again \in Nat /\ (again > 0 => Number(t, b, scan.to))
           \/ scan = RanOver(t) /\ again = 0
           \/ scan \in {Ends(b), Exits(b)} /\ kind = "eof" /\ again = 0
    PROVE  Read(t, p, Token(kind, b, scan, again))
  <1>1. Eof(t) \in Nat
    BY DEF Eof
  <1> QED
    BY <1>1 DEF Read, Token, Scanned, RanOver, Ends, Exits

(***************************************************************************)
(* A character has one kind: the first case of lexNextToken that holds is  *)
(* the only one.                                                           *)
(***************************************************************************)
LEMMA Kinds ==
    ASSUME NEW c
    PROVE  /\ c \in Letters => c \notin {"NUL", DoubleQuote, "'"} \cup Decimal \cup Alone \cup Longer
           /\ c \in Decimal => c \notin {"NUL", DoubleQuote, "'"} \cup Alone \cup Longer
           /\ c \in Alone \cup Longer => c \notin {"NUL", DoubleQuote, "'"}
           /\ "NUL" # DoubleQuote /\ "'" # DoubleQuote
           /\ "." \in Longer
           /\ "NUL" \notin Alone \cup Longer
  BY Zenon DEF Letters, Decimal, Alone, Longer, DoubleQuote

(***************************************************************************)
(* lexNextToken from any place of any text keeps what is promised of it.   *)
(***************************************************************************)
LEMMA LexNextTokenIs ==
    ASSUME NEW t \in Seq(STRING), NEW p \in 1..Eof(t), NEW flag \in BOOLEAN
    PROVE  Read(t, p, LexNextToken(t, p, flag))
  <1> DEFINE b      == SkipWhiteSpaces(t, p)
             c      == At(t, b)
             digits == Span(t, b, Decimal)
             tok    == LexNextToken(t, p, flag)
             point  == c = "." /\ At(t, b + 1) \in Decimal
  <1> SUFFICES Read(t, p, tok)
    OBVIOUS
  <1>1. b \in p..Eof(t) /\ \A i \in p..b - 1 : Blank(t, i)
    BY SkipIs
  <1>2. b \in 1..Eof(t)
    BY <1>1 DEF Eof
  <1>3. tok = CASE c = "NUL"      -> Token("eof", b, Ends(b), 0)
                [] c \in Letters  -> Token("name", b, Ends(Span(t, b, Letters \cup Decimal)), 0)
                [] c = DoubleQuote -> Token("dqstring", b, ScanString(t, b), 0)
                [] c = "'"        -> Token("sqstring", b, ScanString(t, b), 0)
                [] c \in Decimal  -> IF At(t, digits) = "."
                                     THEN Token("float", b, ScanFloat(t, b), digits - b)
                                     ELSE Token("int", b, ScanInteger(t, b), digits - b)
                [] point          -> Token("float", b, ScanFloat(t, b), 1)
                [] c \in Alone \cup Longer /\ ~point ->
                     Token(Punctuation(t, b, flag).kind, b, Ends(Punctuation(t, b, flag).to), 0)
                [] OTHER          -> Token("eof", b, Exits(b), 0)
    BY DEF LexNextToken
  <1> HIDE DEF b, tok, digits
  <1>4. c # "NUL" => b \in 1..Len(t)
    BY <1>2, Within
  <1>5. ASSUME NEW kind, NEW scan \in Scanned(t, b), tok = Token(kind, b, scan, 0)
        PROVE  Read(t, p, tok)
    BY <1>1, <1>2, <1>5, TokenIs
  <1>6. CASE tok = Token("eof", b, Ends(b), 0) \/ tok = Token("eof", b, Exits(b), 0)
    BY <1>1, <1>2, <1>6, TokenIs
  <1>7. CASE c \in Letters
    <2>1. tok = Token("name", b, Ends(Span(t, b, Letters \cup Decimal)), 0)
      BY <1>3, <1>7, Kinds
    <2>2. "NUL" \notin Letters \cup Decimal
      BY Apart
    <2>3. /\ Span(t, b, Letters \cup Decimal) \in b..Eof(t)
          /\ At(t, Span(t, b, Letters \cup Decimal)) \notin Letters \cup Decimal
      BY <1>2, <2>2, SpanIs
    <2>4. Span(t, b, Letters \cup Decimal) \in b + 1..Eof(t)
      BY <1>2, <1>7, <2>3 DEF Eof
    <2>5. Ends(Span(t, b, Letters \cup Decimal)) \in Scanned(t, b)
      BY <2>4 DEF Scanned
    <2> QED
      BY <1>5, <2>1, <2>5
  <1>8. CASE c = DoubleQuote \/ c = "'"
    <2>1. \E kind : tok = Token(kind, b, ScanString(t, b), 0)
      BY <1>3, <1>8, Kinds
    <2>2. ScanString(t, b) \in Scanned(t, b) \cup {RanOver(t)}
      BY <1>4, <1>8, Kinds, ScanStringIs
    <2> QED
      BY <1>1, <1>2, <2>1, <2>2, TokenIs
  <1>9. CASE c \in Decimal
    <2>0. b \in 1..Len(t)
      BY <1>4, <1>9, Apart
    <2>a. ScanFloat(t, b) \in Scanned(t, b) /\ Number(t, b, ScanFloat(t, b).to)
      BY <1>9, <2>0, ScanFloatIs
    <2>1. ScanInteger(t, b) \in Scanned(t, b) /\ Number(t, b, ScanInteger(t, b).to)
      BY <1>9, <2>0, ScanIntegerIs
    <2>2. digits \in b..Eof(t)
      BY <1>2, Apart, SpanIs DEF digits
    <2>3. digits - b \in Nat
      BY <1>2, <2>2 DEF Eof
    <2>4. \/ tok = Token("float", b, ScanFloat(t, b), digits - b)
          \/ tok = Token("int", b, ScanInteger(t, b), digits - b)
      BY <1>3, <1>9, Kinds
    <2> QED
      BY <1>1, <1>2, <2>a, <2>1, <2>3, <2>4, TokenIs
  <1>10. CASE point
    <2>1. tok = Token("float", b, ScanFloat(t, b), 1)
      BY <1>3, <1>10, Kinds
    <2>2. ScanFloat(t, b) \in Scanned(t, b) /\ Number(t, b, ScanFloat(t, b).to)
      BY <1>4, <1>10, ScanFloatIs
    <2> QED
      BY <1>1, <1>2, <2>1, <2>2, TokenIs
  <1>11. CASE c \in Alone \cup Longer /\ ~point
    <2>1. tok = Token(Punctuation(t, b, flag).kind, b, Ends(Punctuation(t, b, flag).to), 0)
      BY <1>3, <1>11, Kinds
    <2>2. Punctuation(t, b, flag).to \in b + 1..Eof(t)
      BY <1>4, <1>11, Kinds, PunctuationIs
    <2>3. Ends(Punctuation(t, b, flag).to) \in Scanned(t, b)
      BY <2>2 DEF Scanned
    <2> QED
      BY <1>5, <2>1, <2>3
  <1>12. CASE c = "NUL"
    BY <1>3, <1>6, <1>12, Kinds, Apart
  <1>13. CASE /\ c # "NUL" /\ c \notin Letters /\ c # DoubleQuote /\ c # "'" /\ c \notin Decimal
              /\ ~point /\ c \notin Alone \cup Longer
    BY <1>3, <1>6, <1>13
  <1> QED
    BY <1>7, <1>8, <1>9, <1>10, <1>11, <1>12, <1>13
-----------------------------------------------------------------------------
(***************************************************************************)
(* The newlines of a stretch of text can be counted, and add up.           *)
(***************************************************************************)
LEMMA NewlinesAre ==
    ASSUME NEW t, NEW p \in Nat, NEW q \in Nat
    PROVE  /\ Newlines(t, p, q) \subseteq p..q - 1
           /\ Newlines(t, p, q) \in SUBSET Nat
           /\ IsFiniteSet(Newlines(t, p, q)) /\ Cardinality(Newlines(t, p, q)) \in Nat
  <1>1. Newlines(t, p, q) \subseteq p..q - 1 /\ IsFiniteSet(p..q - 1)
    BY FS_Interval DEF Newlines
  <1>2. IsFiniteSet(Newlines(t, p, q))
    BY <1>1, FS_Subset
  <1> QED
    BY <1>1, <1>2, FS_CardinalityType

LEMMA NewlinesAdd ==
    ASSUME NEW t, NEW s \in Nat, NEW p \in Nat, NEW q \in Nat, s <= p, p <= q
    PROVE  Cardinality(Newlines(t, s, q)) =
             Cardinality(Newlines(t, s, p)) + Cardinality(Newlines(t, p, q))
  <1>1. Newlines(t, s, q) = Newlines(t, s, p) \cup Newlines(t, p, q)
    BY DEF Newlines
  <1>2. Newlines(t, s, p) \cap Newlines(t, p, q) = {}
    BY DEF Newlines
  <1>3. /\ IsFiniteSet(Newlines(t, s, p)) /\ Cardinality(Newlines(t, s, p)) \in Nat
        /\ IsFiniteSet(Newlines(t, p, q)) /\ Cardinality(Newlines(t, p, q)) \in Nat
    BY NewlinesAre
  <1>4. Cardinality(Newlines(t, s, p) \cup Newlines(t, p, q)) =
          Cardinality(Newlines(t, s, p)) + Cardinality(Newlines(t, p, q)) - Cardinality({})
    BY <1>2, <1>3, FS_Union, Zenon
  <1> QED
    BY <1>1, <1>3, <1>4, FS_EmptySet

\* The place before the line that p is on, of a text read from s
Before(t, s, p, m) ==
    /\ m \in s - 1..p - 1
    /\ m = s - 1 \/ At(t, m) = "\n"
    /\ \A i \in m + 1..p - 1 : At(t, i) # "\n"

(***************************************************************************)
(* The newline the location counts its offset from is the last one read.   *)
(***************************************************************************)
LEMMA MaxIsBefore ==
    ASSUME NEW t, NEW s \in Nat \ {0}, NEW p \in Nat, s <= p
    PROVE  /\ Before(t, s, p, Max(Newlines(t, s, p) \cup {s - 1}))
           /\ \A m : Before(t, s, p, m) => m = Max(Newlines(t, s, p) \cup {s - 1})
           /\ Newlines(t, s, p) # {} => Before(t, s, p, Max(Newlines(t, s, p)))
  <1> DEFINE nl == Newlines(t, s, p)
  <1>1. nl \in SUBSET Nat /\ \A i : i \in nl <=> i \in s..p - 1 /\ At(t, i) = "\n"
    BY DEF Newlines
  <1> HIDE DEF nl
  <1>2. nl \cup {s - 1} \in SUBSET Nat /\ \A i \in nl \cup {s - 1} : i <= p
    BY <1>1
  <1>3. Max(nl \cup {s - 1}) \in nl \cup {s - 1} /\ \A i \in nl \cup {s - 1} : Max(nl \cup {s - 1}) >= i
    BY <1>2, MaxIs
  <1>4. Before(t, s, p, Max(nl \cup {s - 1}))
    BY <1>1, <1>3 DEF Before
  <1>5. ASSUME NEW m, NEW k, Before(t, s, p, m), Before(t, s, p, k) PROVE m = k
    BY <1>5 DEF Before
  <1>6. ASSUME nl # {} PROVE Before(t, s, p, Max(nl))
    <2>1. Max(nl) \in nl /\ \A i \in nl : Max(nl) >= i
      BY <1>1, <1>2, <1>6, MaxIs
    <2> QED
      BY <1>1, <2>1 DEF Before
  <1> QED
    BY <1>4, <1>5, <1>6 DEF nl

LEMMA WalkIs ==
    ASSUME NEW t, NEW p \in Nat \ {0}, NEW q \in Nat, p <= q, NEW again \in Nat, NEW l,
           l.line \in Nat, l.offset \in Nat
    PROVE  Walk(l, t, p, q, again).line \in Nat /\ Walk(l, t, p, q, again).offset \in Nat
  <1>1. Cardinality(Newlines(t, p, q)) \in Nat
    BY NewlinesAre
  <1>2. Newlines(t, p, q) # {} => Max(Newlines(t, p, q)) \in p - 1..q - 1
    BY MaxIsBefore DEF Before
  <1> QED
    BY <1>1, <1>2 DEF Walk

\* LocationOK of a text t read from s to p
Located(t, s, p, l) ==
    LET bol == Max(Newlines(t, s, p) \cup {s - 1})
    IN  /\ l.line = Cardinality(Newlines(t, s, p))
        /\ l.offset >= p - 1 - bol
        /\ l.offset = p - 1 - bol \/ \E i \in bol + 1..p - 1 : At(t, i) \in Decimal

(***************************************************************************)
(* advanceChar keeps the location true over any number of characters.      *)
(***************************************************************************)
LEMMA LocatedOn ==
    ASSUME NEW t, NEW s \in Nat \ {0}, NEW p \in Nat, NEW q \in Nat, s <= p, p <= q, NEW l,
           l.line \in Nat, l.offset \in Nat, Located(t, s, p, l),
           NEW again \in Nat, NEW from \in p..q, again > 0 => Number(t, from, q)
    PROVE  Located(t, s, q, Walk(l, t, p, q, again))
  <1> DEFINE m == Max(Newlines(t, s, p) \cup {s - 1})
             k == Max(Newlines(t, s, q) \cup {s - 1})
             w == Walk(l, t, p, q, again)
  <1>1. /\ l.line = Cardinality(Newlines(t, s, p))
        /\ l.offset >= p - 1 - m
        /\ l.offset = p - 1 - m \/ \E i \in m + 1..p - 1 : At(t, i) \in Decimal
    BY DEF Located
  <1>2. Before(t, s, p, m) /\ \A x : Before(t, s, q, x) => x = k
    <2>1. Before(t, s, p, m)
      BY MaxIsBefore
    <2>2. s <= q
      OBVIOUS
    <2>3. \A x : Before(t, s, q, x) => x = k
      BY <2>2, MaxIsBefore
    <2> QED
      BY <2>1, <2>3
  <1>3. w.line = l.line + Cardinality(Newlines(t, p, q))
    BY DEF Walk
  <1>4. w.line = Cardinality(Newlines(t, s, q))
    BY <1>1, <1>3, NewlinesAdd
  <1>5. again > 0 => /\ \A i \in from..q - 1 : At(t, i) # "\n"
                     /\ \E i \in from..q - 1 : At(t, i) \in Decimal
    BY DEF Number
  <1>6. \/ Newlines(t, p, q) = {} /\ w.offset = again + (l.offset + (q - p))
        \/ /\ Newlines(t, p, q) # {}
           /\ w.offset = again + (q - 1 - Max(Newlines(t, p, q)))
    BY DEF Walk
  <1>7. Newlines(t, p, q) = {} => \A i \in p..q - 1 : At(t, i) # "\n"
    BY DEF Newlines
  <1>8. Newlines(t, p, q) # {} => Before(t, p, q, Max(Newlines(t, p, q)))
                                  /\ Max(Newlines(t, p, q)) \in Newlines(t, p, q)
    <2>1. \A i \in Newlines(t, p, q) : i <= q
      BY NewlinesAre
    <2>2. Newlines(t, p, q) \in SUBSET Nat
      BY NewlinesAre
    <2>3. Newlines(t, p, q) # {} => Max(Newlines(t, p, q)) \in Newlines(t, p, q)
      BY <2>1, <2>2, MaxIs
    <2>4. p \in Nat \ {0}
      OBVIOUS
    <2> QED
      BY <2>3, <2>4, MaxIsBefore
  <1>9. \A i \in Newlines(t, p, q) : i \in p..q - 1 /\ At(t, i) = "\n"
    BY DEF Newlines
  <1> HIDE DEF m, k, w
  <1>10. /\ w.offset >= q - 1 - k
         /\ w.offset = q - 1 - k \/ \E i \in k + 1..q - 1 : At(t, i) \in Decimal
    <2>1. CASE Newlines(t, p, q) = {}
      <3>1. m \in s - 1..p - 1 /\ Before(t, s, q, m)
        BY <1>2, <1>7, <2>1 DEF Before
      <3>2. k = m
        BY <1>2, <3>1
      <3> QED
        BY <1>1, <1>5, <1>6, <2>1, <3>1, <3>2
    <2>2. CASE Newlines(t, p, q) # {}
      <3> DEFINE x == Max(Newlines(t, p, q))
      <3>1. /\ x \in p..q - 1 /\ At(t, x) = "\n" /\ \A i \in x + 1..q - 1 : At(t, i) # "\n"
            /\ w.offset = again + (q - 1 - x)
        BY <1>6, <1>8, <1>9, <2>2 DEF Before
      <3> HIDE DEF x
      <3>2. Before(t, s, q, x)
        BY <3>1 DEF Before
      <3>3. k = x
        BY <1>2, <3>2
      <3> QED
        BY <1>5, <3>1, <3>3
    <2> QED
      BY <2>1, <2>2
  <1> QED
    BY <1>4, <1>10 DEF Located, k, w
-----------------------------------------------------------------------------
\* start is a place that has been read
Placed == 1 <= pos /\ start <= pos

IInv == TypeOK /\ StaysInside /\ Placed /\ LocationOK

LEMMA ReadIs ==
    ASSUME NEW t \in Seq(STRING), NEW p \in 1..Eof(t), NEW tok, Read(t, p, tok)
    PROVE  /\ tok.from \in 1..Eof(t) /\ tok.from \in p..tok.to /\ tok.to \in Nat /\ p <= tok.to
           /\ tok.to <= Eof(t) \/ tok.status = "overrun"
           /\ tok.status \in {"lexing", "exited", "overrun"} /\ tok.again \in Nat
           /\ tok.again > 0 => Number(t, tok.from, tok.to)
  <1>1. Eof(t) \in Nat
    BY DEF Eof
  <1> QED
    BY <1>1 DEF Read

LEMMA LocationIs ==
    ASSUME NEW t \in Seq(STRING), NEW s \in Nat \ {0}, NEW p \in Nat, s <= p, p <= Eof(t), NEW l
    PROVE  Located(t, s, p, l) <=>
             LET nl  == Newlines(t, s, p)
                 bol == Max(nl \cup {s - 1})
             IN  /\ l.line = Cardinality(nl)
                 /\ l.offset >= p - 1 - bol
                 /\ l.offset = p - 1 - bol \/ \E i \in bol + 1..p - 1 : t[i] \in Decimal
  <1> DEFINE m == Max(Newlines(t, s, p) \cup {s - 1})
  <1>1. m \in s - 1..p - 1
    BY MaxIsBefore DEF Before
  <1>2. \A i \in m + 1..p - 1 : At(t, i) = t[i]
    BY <1>1 DEF At, Eof
  <1> QED
    BY <1>2 DEF Located

LEMMA IInvInit == Init => IInv
  <1> SUFFICES ASSUME Init PROVE IInv
    OBVIOUS
  <1>1. text \in Seq(STRING) /\ Eof(text) \in Nat /\ 1 \in 1..Eof(text)
    BY TextsAssumption DEF Init, Eof
  <1>2. Read(text, 1, token)
    BY <1>1, LexNextTokenIs DEF Init
  <1>3. /\ token.from \in 1..Eof(text) /\ token.to \in Nat /\ 1 <= token.to
        /\ token.to <= Eof(text) \/ token.status = "overrun"
        /\ token.status \in {"lexing", "exited", "overrun"} /\ token.again \in Nat
    BY <1>1, <1>2, ReadIs
  <1>4. loc.line \in Nat /\ loc.offset \in Nat
    <2>1. /\ [line |-> 0, offset |-> 0].line \in Nat /\ [line |-> 0, offset |-> 0].offset \in Nat
          /\ loc = Walk([line |-> 0, offset |-> 0], text, 1, token.to, token.again)
      BY DEF Init
    <2> QED
      BY <1>3, <2>1, WalkIs
  <1>5. TypeOK /\ StaysInside /\ Placed
    <2>1. /\ pos = token.to /\ status = token.status /\ start = 0 /\ template = FALSE
          /\ start \in 0..Eof(text)
      BY <1>1 DEF Init
    <2>2. TypeOK
      BY <1>1, <1>3, <1>4, <2>1 DEF TypeOK
    <2> QED
      BY <1>3, <2>1, <2>2 DEF StaysInside, Placed
  <1>6. LocationOK
    BY DEF Init, LocationOK
  <1> QED
    BY <1>5, <1>6 DEF IInv

(***************************************************************************)
(* Lexing a token keeps the invariant; so does every step, and what it     *)
(* lexes tiles the text.                                                   *)
(***************************************************************************)
LEMMA LexedStep ==
    ASSUME IInv, status = "lexing", Lexed(LexNextToken(text, pos, template)),
           text' = text, start' = start, template' \in BOOLEAN
    PROVE  IInv' /\ Read(text, pos, token')
  <1>1. text \in Seq(STRING) /\ Eof(text) \in Nat /\ pos \in 1..Eof(text) /\ Eof(text)' = Eof(text)
    BY DEF IInv, TypeOK, StaysInside, Placed, Eof
  <1>2. Read(text, pos, token')
    BY <1>1, LexNextTokenIs DEF Lexed, IInv, TypeOK
  <1>3. /\ token'.from \in 1..Eof(text) /\ token'.from \in pos..pos' /\ pos' \in Nat /\ pos <= pos'
        /\ pos' <= Eof(text) \/ status' = "overrun"
        /\ status' \in {"lexing", "exited", "overrun"} /\ token'.again \in Nat
        /\ token'.again > 0 => Number(text, token'.from, pos')
        /\ token'.to = pos'
    BY <1>1, <1>2, ReadIs DEF Lexed
  <1>4. loc' = Walk(loc, text, pos, pos', token'.again) /\ loc.line \in Nat /\ loc.offset \in Nat
    BY DEF Lexed, IInv, TypeOK
  <1>5. loc'.line \in Nat /\ loc'.offset \in Nat
    BY <1>1, <1>3, <1>4, WalkIs
  <1>6. TypeOK' /\ StaysInside' /\ Placed'
    BY <1>1, <1>3, <1>5 DEF IInv, TypeOK, StaysInside, Placed
  <1>7. LocationOK'
    <2> SUFFICES ASSUME status' = "lexing", start' > 0 PROVE LocationOK'
      BY DEF LocationOK
    <2>1. start \in Nat \ {0} /\ start <= pos
      BY <1>1 DEF IInv, TypeOK, Placed
    <2>2. Located(text, start, pos, loc)
      <3>1. pos \in Nat /\ pos <= Eof(text) /\ LocationOK
        BY <1>1 DEF IInv
      <3> QED
        BY <1>1, <2>1, <3>1, LocationIs DEF LocationOK
    <2>3. Located(text, start, pos', loc')
      <3>1. pos \in Nat
        BY <1>1
      <3> QED
        BY <1>3, <1>4, <2>1, <2>2, <3>1, LocatedOn
    <2>4. pos' <= Eof(text) /\ pos' \in Nat /\ start <= pos'
      BY <1>1, <1>3, <2>1
    <2> QED
      BY <1>1, <2>1, <2>3, <2>4, LocationIs DEF LocationOK
  <1> QED
    BY <1>2, <1>6, <1>7 DEF IInv

Tiled ==
    token' # token =>
        /\ token'.from >= pos /\ \A i \in pos..token'.from - 1 : Blank(text, i)
        /\ pos' > pos \/ token'.kind = "eof"

LEMMA ReadTiles == ASSUME IInv, Lexed(token'), Read(text, pos, token') PROVE Tiled
  <1>1. pos \in Nat /\ Eof(text) \in Nat /\ token'.to = pos'
    BY DEF IInv, TypeOK, Eof, Lexed
  <1>2. /\ token'.from \in pos..Eof(text)
        /\ \A i \in pos..token'.from - 1 : Blank(text, i)
        /\ token'.status \in {"lexing", "exited", "overrun"}
        /\ token'.status # "overrun" => token'.to \in token'.from..Eof(text)
        /\ token'.status = "overrun" => token'.to = Eof(text) + 1
        /\ token'.to > token'.from \/ token'.kind = "eof"
    BY DEF Read
  <1> QED
    BY <1>1, <1>2 DEF Tiled

LEMMA IInvStep == ASSUME IInv, [Next]_vars PROVE IInv' /\ Tiled
  <1>1. CASE SetContextPath
    <2>1. text \in Seq(STRING) /\ Eof(text) \in Nat /\ pos \in 1..Eof(text)
      BY <1>1 DEF IInv, TypeOK, StaysInside, Placed, Eof, SetContextPath
    <2>2. /\ text' = text /\ pos' = pos /\ token' = token /\ template' = template
          /\ status' = status /\ start' = pos /\ loc' = [line |-> 0, offset |-> 0]
      BY <1>1 DEF SetContextPath
    <2>3. TypeOK' /\ StaysInside' /\ Placed'
      BY <2>1, <2>2 DEF IInv, TypeOK, StaysInside, Placed, Eof
    <2>4. LocationOK'
      <3>1. Newlines(text, pos, pos) = {} /\ Cardinality({}) = 0
        BY <2>1, FS_EmptySet DEF Newlines
      <3>2. Before(text, pos, pos, pos - 1)
        BY <2>1 DEF Before
      <3>3. Max(Newlines(text, pos, pos) \cup {pos - 1}) = pos - 1
        <4>1. pos \in Nat \ {0} /\ pos \in Nat /\ pos <= pos
          BY <2>1
        <4> QED
          BY <3>2, <4>1, MaxIsBefore
      <3>4. loc'.line = 0 /\ loc'.offset = 0
        BY <2>2
      <3> QED
        BY <2>1, <2>2, <3>1, <3>3, <3>4 DEF LocationOK
    <2> QED
      BY <2>2, <2>3, <2>4 DEF IInv, Tiled
  <1>2. CASE NextToken
    <2>1. /\ status = "lexing" /\ Lexed(LexNextToken(text, pos, template))
          /\ text' = text /\ start' = start /\ template' = template
      BY <1>2 DEF NextToken
    <2>2. template' \in BOOLEAN
      BY <2>1 DEF IInv, TypeOK
    <2>3. IInv' /\ Read(text, pos, token')
      BY <2>1, <2>2, LexedStep
    <2>4. Lexed(token')
      BY <2>1 DEF Lexed
    <2> QED
      BY <2>3, <2>4, ReadTiles
  <1>3. CASE ParsingTemplateContext
    <2>1. /\ status = "lexing" /\ Lexed(LexNextToken(text, pos, template))
          /\ text' = text /\ start' = start /\ template' = (template \/ token'.kind # ">")
      BY <1>3 DEF ParsingTemplateContext
    <2>2. template' \in BOOLEAN
      BY <2>1 DEF IInv, TypeOK
    <2>3. IInv' /\ Read(text, pos, token')
      BY <2>1, <2>2, LexedStep
    <2>4. Lexed(token')
      BY <2>1 DEF Lexed
    <2> QED
      BY <2>3, <2>4, ReadTiles
  <1>4. CASE EndOfParsingTemplateContext
    BY <1>4 DEF EndOfParsingTemplateContext, Tiled, IInv, TypeOK, StaysInside, Placed, LocationOK,
                Eof
  <1>5. CASE AtEnd \/ UNCHANGED vars
    BY <1>5 DEF AtEnd, vars, Tiled, IInv, TypeOK, StaysInside, Placed, LocationOK, Eof
  <1> QED
    BY <1>1, <1>2, <1>3, <1>4, <1>5 DEF Next

(***************************************************************************)
(* The invariant, of every text and any number of tokens.                  *)
(***************************************************************************)
THEOREM IInvHolds == Spec => []IInv
  <1>1. IInv /\ [Next]_vars => IInv'
    BY IInvStep
  <1> QED
    BY IInvInit, <1>1, PTL DEF Spec

(***************************************************************************)
(* The state has the types the code gives it: the current token begins in  *)
(* the text and ends at the parse point.                                   *)
(***************************************************************************)
THEOREM StateIsTyped == Spec => []TypeOK
  <1>1. IInv => TypeOK
    BY DEF IInv
  <1> QED
    BY IInvHolds, <1>1, PTL

(***************************************************************************)
(* The parse point never passes the end of a text, of any length and of    *)
(* any characters, but for a string that is not closed: lexNextToken may   *)
(* look at three characters ahead without asking for the end.              *)
(***************************************************************************)
THEOREM ParsePointStaysInside == Spec => []StaysInside
  <1>1. IInv => StaysInside
    BY DEF IInv
  <1> QED
    BY IInvHolds, <1>1, PTL

(***************************************************************************)
(* The line of messages is the number of newlines read since the context   *)
(* was set, and the offset the column, or more if the line has a digit.    *)
(***************************************************************************)
THEOREM LocationIsRight == Spec => []LocationOK
  <1>1. IInv => LocationOK
    BY DEF IInv
  <1> QED
    BY IInvHolds, <1>1, PTL

(***************************************************************************)
(* Between two tokens there are only blanks and comments, and each token   *)
(* but the last takes some characters: no loop over tokens stays where it  *)
(* is.                                                                     *)
(***************************************************************************)
THEOREM TokensTile == Spec => Tiles
  <1>1. IInv /\ [Next]_vars => [Tiled]_vars
    BY IInvStep
  <1>2. Spec => [][Tiled]_vars
    BY IInvHolds, <1>1, PTL DEF Spec
  <1> QED
    BY <1>2 DEF Tiles, Tiled
-----------------------------------------------------------------------------
\* u is the text t from the place after d up to before e.
Cut(t, d, e, u) ==
    /\ t \in Seq(STRING) /\ u \in Seq(STRING) /\ d \in Nat /\ e \in d + 2..Eof(t)
    /\ Len(u) = e - d - 1 /\ \A i \in 1..Len(u) : u[i] = t[i + d]

(***************************************************************************)
(* A token read alone.  The text u is t from the place after d up to       *)
(* before e: what follows of t is not in it, only the end of a text.       *)
(***************************************************************************)
LEMMA CutIs ==
    ASSUME NEW t \in Seq(STRING), NEW b \in 1..Len(t), NEW e \in b + 1..Eof(t)
    PROVE  Cut(t, b - 1, e, SubSeq(t, b, e - 1))
  <1>1. Len(t) \in Nat /\ Eof(t) = Len(t) + 1
    BY DEF Eof
  <1>2. \A i \in b..e - 1 : t[i] \in STRING
    BY <1>1
  <1> DEFINE u == SubSeq(t, b, e - 1)
  <1>3. /\ u \in Seq(STRING) /\ Len(u) = e - 1 - b + 1
        /\ \A i \in 1..e - 1 - b + 1 : u[i] = t[b + i - 1]
    <2>1. b \in Int /\ e - 1 \in Int /\ b <= e - 1
      BY <1>1
    <2>2. /\ u \in Seq(STRING) /\ Len(u) = IF b <= e - 1 THEN e - 1 - b + 1 ELSE 0
          /\ \A i \in 1..e - 1 - b + 1 : u[i] = t[b + i - 1]
      BY <1>2, <2>1, SubSeqProperties
    <2> QED
      BY <2>1, <2>2
  <1> HIDE DEF u
  <1>4. b - 1 \in Nat /\ e \in b - 1 + 2..Eof(t) /\ Len(u) = e - (b - 1) - 1
    BY <1>1, <1>3
  <1>5. \A i \in 1..Len(u) : u[i] = t[i + (b - 1)]
    BY <1>1, <1>3
  <1> QED
    BY <1>3, <1>4, <1>5 DEF Cut, u

(***************************************************************************)
(* A character of the token is the same, and after the last one is the     *)
(* end, of no class; so a span that ends with the token does so in u.      *)
(***************************************************************************)
LEMMA AtCut ==
    ASSUME NEW t, NEW d, NEW e, NEW u, Cut(t, d, e, u)
    PROVE  /\ d \in Nat /\ e \in Nat /\ e >= d + 2 /\ e <= Eof(t) /\ Eof(t) \in Nat
           /\ Eof(u) = e - d /\ Len(u) = e - d - 1 /\ Len(t) = Eof(t) - 1
           /\ t \in Seq(STRING) /\ u \in Seq(STRING)
           /\ \A i \in d + 1..e - 1 : At(u, i - d) = At(t, i) /\ u[i - d] = t[i] /\ At(t, i) = t[i]
           /\ \A i \in Int : i >= e - d => At(u, i) = "NUL"
           /\ At(u, e - d) = "NUL"
  <1>1. /\ d \in Nat /\ e \in Nat /\ e >= d + 2 /\ e <= Eof(t) /\ Eof(t) \in Nat
        /\ Eof(u) = e - d /\ Len(u) = e - d - 1 /\ Len(t) = Eof(t) - 1
        /\ t \in Seq(STRING) /\ u \in Seq(STRING)
    BY DEF Cut, Eof
  <1>2. ASSUME NEW i \in d + 1..e - 1
        PROVE  At(u, i - d) = At(t, i) /\ u[i - d] = t[i] /\ At(t, i) = t[i]
    <2>1. i - d \in 1..Len(u) /\ (i - d) + d = i
      BY <1>1
    <2>2. u[i - d] = t[(i - d) + d]
      BY <2>1 DEF Cut
    <2> QED
      BY <1>1, <2>1, <2>2 DEF At
  <1>3. \A i \in Int : i >= e - d => At(u, i) = "NUL"
    BY <1>1 DEF At
  <1> QED
    BY <1>1, <1>2, <1>3

LEMMA IsCut ==
    ASSUME NEW t, NEW d, NEW e, NEW u, Cut(t, d, e, u), NEW i \in d + 1..e, NEW S, "NUL" \notin S,
           At(t, i) \notin S \/ i < e
    PROVE  At(u, i - d) \in S <=> At(t, i) \in S
  <1>0. /\ d \in Nat /\ e \in Nat /\ \A j \in d + 1..e - 1 : At(u, j - d) = At(t, j)
        /\ At(u, e - d) = "NUL"
    BY AtCut
  <1>1. CASE i < e
    <2>1. i \in d + 1..e - 1
      BY <1>0, <1>1
    <2>2. At(u, i - d) = At(t, i)
      BY <1>0, <2>1
    <2> QED
      BY <2>2
  <1>2. CASE i = e
    BY <1>0, <1>2
  <1> QED
    BY <1>0, <1>1, <1>2

LEMMA SpanCut ==
    ASSUME NEW t, NEW d, NEW e, NEW u, Cut(t, d, e, u), NEW p \in d + 1..e, NEW S, "NUL" \notin S,
           Span(t, p, S) <= e
    PROVE  Span(u, p - d, S) = Span(t, p, S) - d
  <1> DEFINE s == Span(t, p, S)
             r == Span(u, p - d, S)
  <1>1. /\ d \in Nat /\ e \in Nat /\ e >= d + 2 /\ e <= Eof(t) /\ Eof(t) \in Nat
        /\ Eof(u) = e - d /\ t \in Seq(STRING) /\ u \in Seq(STRING)
        /\ \A i \in d + 1..e - 1 : At(u, i - d) = At(t, i)
        /\ At(u, e - d) = "NUL"
    BY AtCut
  <1>2. s \in p..Eof(t) /\ At(t, s) \notin S /\ \A i \in p..s - 1 : At(t, i) \in S
    <2>1. p \in 1..Eof(t)
      BY <1>1
    <2> QED
      BY <1>1, <2>1, SpanIs
  <1>3. r \in p - d..e - d /\ At(u, r) \notin S /\ \A i \in p - d..r - 1 : At(u, i) \in S
    <2>1. p - d \in 1..Eof(u)
      BY <1>1
    <2> QED
      BY <1>1, <2>1, SpanIs
  <1> HIDE DEF s, r
  <1>4. s <= e
    BY DEF s
  <1>5. ~(r < s - d)
    <2> SUFFICES ASSUME r < s - d PROVE FALSE
      OBVIOUS
    <2>1. r + d \in p..s - 1 /\ r + d \in d + 1..e - 1 /\ (r + d) - d = r
      BY <1>1, <1>2, <1>3, <1>4
    <2>2. At(t, r + d) \in S /\ At(u, (r + d) - d) = At(t, r + d)
      BY <1>1, <1>2, <2>1
    <2> QED
      BY <1>3, <2>1, <2>2
  <1>6. ~(r > s - d)
    <2> SUFFICES ASSUME r > s - d PROVE FALSE
      OBVIOUS
    <2>1. s - d \in p - d..r - 1
      BY <1>1, <1>2, <1>3
    <2>2. At(u, s - d) \in S
      BY <1>3, <2>1
    <2>3. s = e \/ s \in d + 1..e - 1
      BY <1>1, <1>2, <1>4
    <2> QED
      BY <1>1, <1>2, <2>2, <2>3
  <1> QED
    <2>1. r = s - d
      BY <1>1, <1>2, <1>3, <1>5, <1>6
    <2> QED
      BY <2>1 DEF s, r

(***************************************************************************)
(* Where there is nothing to skip in t, there is nothing to skip in u.     *)
(***************************************************************************)
LEMMA SkipCut ==
    ASSUME NEW t, NEW d, NEW e, NEW u, Cut(t, d, e, u),
           At(t, d + 1) \notin White, ~Comment(t, d + 1)
    PROVE  SkipWhiteSpaces(u, 1) = 1
  <1> DEFINE f == CHOOSE g : g = [q \in 1..Eof(u) |-> SkipFrom(u, g, q)]
  <1>1. /\ d \in Nat /\ e >= d + 2 /\ e \in Nat /\ Eof(u) = e - d /\ u \in Seq(STRING)
        /\ \A i \in d + 1..e - 1 : At(u, i - d) = At(t, i)
        /\ At(u, e - d) = "NUL"
    BY AtCut
  <1>2. f = [q \in 1..Eof(u) |-> SkipFrom(u, f, q)]
    BY <1>1, SkipExists
  <1>3. SkipWhiteSpaces(u, 1) = f[1]
    BY SkipDef
  <1> HIDE DEF f
  <1>4. 1 \in 1..Eof(u) /\ 1 = (d + 1) - d /\ d + 1 \in d + 1..e - 1
    BY <1>1
  <1>5. f[1] = SkipFrom(u, f, 1)
    BY <1>2, <1>4
  <1>6. At(u, 1) = At(t, d + 1)
    BY <1>1, <1>4
  <1>7. Span(u, 1, White) = 1
    <2>1. /\ Span(u, 1, White) \in 1..Eof(u)
          /\ \A i \in 1..Span(u, 1, White) - 1 : At(u, i) \in White
      BY <1>1, <1>4, Apart, SpanIs
    <2>2. Span(u, 1, White) > 1 => 1 \in 1..Span(u, 1, White) - 1
      BY <1>1, <2>1
    <2> QED
      BY <1>1, <1>6, <2>1, <2>2
  <1>8. ~(At(u, 1) = "/" /\ At(u, 1 + 1) = "/")
    <2> SUFFICES ASSUME At(u, 1) = "/", At(u, 1 + 1) = "/" PROVE FALSE
      OBVIOUS
    <2>1. CASE d + 2 < e
      <3>1. d + 2 \in d + 1..e - 1 /\ (d + 2) - d = 1 + 1 /\ (d + 1) + 1 = d + 2
        BY <1>1, <2>1
      <3>2. At(t, (d + 1) + 1) = "/"
        BY <1>1, <3>1
      <3> QED
        BY <1>6, <3>2 DEF Comment
    <2>2. CASE d + 2 = e
      <3>1. 1 + 1 = e - d
        BY <1>1, <2>2
      <3> QED
        BY <1>1, <3>1
    <2> QED
      BY <1>1, <2>1, <2>2
  <1> QED
    BY <1>3, <1>5, <1>7, <1>8 DEF SkipFrom
-----------------------------------------------------------------------------
\* The parts of a floating point number that begins at p
Whole(t, p) == Span(t, p, Decimal)
Point(t, p) == IF At(t, Whole(t, p)) = "." THEN Whole(t, p) + 1 ELSE Whole(t, p)
Frac(t, p)  == Span(t, Point(t, p), Decimal)
Sign(t, p)  == IF At(t, Frac(t, p) + 1) \in {"+", "-"} THEN Frac(t, p) + 2 ELSE Frac(t, p) + 1
Exp(t, p)   == IF At(t, Frac(t, p)) = "e" THEN Span(t, Sign(t, p), Decimal) ELSE Frac(t, p)
Suffix(t, p) == IF At(t, Exp(t, p)) = "f" THEN Exp(t, p) + 1 ELSE Exp(t, p)

LEMMA FloatParts ==
    ASSUME NEW t, NEW p
    PROVE  ScanFloat(t, p) = IF At(t, Frac(t, p)) = "e" /\ At(t, Sign(t, p)) \notin Decimal
                             THEN Exits(Sign(t, p)) ELSE Ends(Suffix(t, p))
  BY DEF ScanFloat, Whole, Point, Frac, Sign, Exp, Suffix

LEMMA SpanFrom ==
    ASSUME NEW t \in Seq(STRING), NEW p \in 1..Eof(t)
    PROVE  /\ Span(t, p, Decimal) \in p..Eof(t)
           /\ At(t, p) \in Decimal => Span(t, p, Decimal) > p
  <1>1. /\ Span(t, p, Decimal) \in p..Eof(t)
        /\ At(t, Span(t, p, Decimal)) \notin Decimal
    BY Apart, SpanIs
  <1> QED
    BY <1>1

(***************************************************************************)
(* Each scan that ends at e does so alone.  A part of a number is looked   *)
(* for only where the part before it ended, and the number ends after the  *)
(* last.                                                                   *)
(***************************************************************************)
LEMMA FloatCut ==
    ASSUME NEW t, NEW d, NEW e, NEW u, Cut(t, d, e, u), ScanFloat(t, d + 1) = Ends(e)
    PROVE  /\ ScanFloat(u, 1) = Ends(Eof(u))
           /\ At(t, Whole(t, d + 1)) = "." => Whole(t, d + 1) < e
           /\ Frac(t, d + 1) <= e
  <1> DEFINE whole == Whole(t, d + 1)
             point == Point(t, d + 1)
             frac  == Frac(t, d + 1)
             sign  == Sign(t, d + 1)
             exp   == Exp(t, d + 1)
             last  == Suffix(t, d + 1)
  <1>0. "NUL" \notin Decimal /\ "NUL" \notin {"."} /\ "NUL" \notin {"e"} /\ "NUL" \notin {"f"}
        /\ "NUL" \notin {"+", "-"}
    BY Apart
  <1>1. /\ d \in Nat /\ e \in Nat /\ e >= d + 2 /\ e <= Eof(t) /\ Eof(t) \in Nat
        /\ Eof(u) = e - d /\ t \in Seq(STRING) /\ u \in Seq(STRING)
    BY AtCut
  <1>2. last = e /\ ~(At(t, frac) = "e" /\ At(t, sign) \notin Decimal)
    <2>1. \A k : Exits(k) # Ends(e) /\ (Ends(k) = Ends(e) => k = e)
      BY DEF Exits, Ends
    <2> QED
      BY <2>1, FloatParts
  <1>3. whole \in d + 1..Eof(t)
    BY <1>1, SpanFrom DEF Whole
  <1>4. point \in whole..Eof(t) /\ (At(t, whole) = "." => point = whole + 1)
        /\ (At(t, whole) # "." => point = whole)
    <2>1. At(t, whole) = "." => whole + 1 \in 1..Eof(t)
      <3>1. whole \in 1..Eof(t)
        BY <1>1, <1>3
      <3> QED
        BY <1>1, <3>1, Within
    <2>2. point = IF At(t, whole) = "." THEN whole + 1 ELSE whole
      BY DEF Point
    <2> HIDE DEF whole, point
    <2> QED
      BY <1>1, <1>3, <2>1, <2>2
  <1>5. frac \in point..Eof(t)
    <2> HIDE DEF whole, point
    <2>1. point \in 1..Eof(t)
      BY <1>1, <1>3, <1>4
    <2>2. frac = Span(t, point, Decimal)
      BY DEF Frac, point
    <2> QED
      BY <1>1, <2>1, <2>2, SpanFrom
  <1>6. At(t, frac) = "e" => /\ sign \in frac + 1..Eof(t)
                             /\ exp = Span(t, sign, Decimal) /\ exp \in sign + 1..Eof(t)
    <2> SUFFICES ASSUME At(t, frac) = "e"
                 PROVE  /\ sign \in frac + 1..Eof(t)
                        /\ exp = Span(t, sign, Decimal) /\ exp \in sign + 1..Eof(t)
      OBVIOUS
    <2>1. sign = (IF At(t, frac + 1) \in {"+", "-"} THEN frac + 2 ELSE frac + 1)
          /\ exp = Span(t, sign, Decimal)
      BY DEF Sign, Exp
    <2>2. At(t, sign) \in Decimal
      BY <1>2
    <2> HIDE DEF whole, point, frac, sign, exp
    <2>3. frac \in 1..Eof(t) /\ frac \in Nat
      BY <1>1, <1>3, <1>4, <1>5
    <2>4. sign \in Nat /\ sign > frac
      BY <2>1, <2>3
    <2>5. sign <= Eof(t)
      BY <1>0, <1>1, <2>2, <2>4 DEF At, Eof
    <2>6. sign \in 1..Eof(t)
      BY <2>3, <2>4, <2>5
    <2>7. exp \in sign..Eof(t) /\ exp > sign
      BY <1>1, <2>1, <2>2, <2>6, SpanFrom
    <2> QED
      BY <1>1, <2>1, <2>3, <2>4, <2>5, <2>7
  <1>7. /\ At(t, frac) # "e" => exp = frac
        /\ exp <= e /\ (At(t, exp) = "f" => exp < e) /\ (At(t, exp) # "f" => exp = e)
    <2>1. At(t, frac) # "e" => exp = frac
      BY DEF Exp
    <2>2. last = IF At(t, exp) = "f" THEN exp + 1 ELSE exp
      BY DEF Suffix
    <2> HIDE DEF whole, point, frac, sign, exp, last
    <2>3. exp \in Nat
      BY <1>1, <1>3, <1>4, <1>5, <1>6, <2>1
    <2> QED
      BY <1>1, <1>2, <2>1, <2>2, <2>3
  <1> HIDE DEF whole, point, frac, sign, exp, last
  <1>8. /\ whole \in d + 1..e /\ point \in d + 1..e /\ frac \in d + 1..e /\ exp \in d + 1..e
        /\ At(t, whole) = "." => whole < e
        /\ At(t, frac) = "e" => frac < e /\ sign \in d + 1..e - 1 /\ frac + 1 <= sign
    BY <1>1, <1>3, <1>4, <1>5, <1>6, <1>7
  <1>9. Whole(u, 1) = whole - d
    <2>1. d + 1 \in d + 1..e /\ (d + 1) - d = 1 /\ Span(t, d + 1, Decimal) <= e
      BY <1>1, <1>8 DEF whole, Whole
    <2>2. Span(u, (d + 1) - d, Decimal) = Span(t, d + 1, Decimal) - d
      BY <1>0, <2>1, SpanCut
    <2> QED
      BY <2>1, <2>2 DEF Whole, whole
  <1>10. Point(u, 1) = point - d
    <2>1. At(u, whole - d) \in {"."} <=> At(t, whole) \in {"."}
      BY <1>0, <1>8, IsCut
    <2>2. Point(u, 1) = IF At(u, whole - d) = "." THEN (whole - d) + 1 ELSE whole - d
      BY <1>9 DEF Point
    <2> QED
      BY <1>1, <1>4, <1>8, <2>1, <2>2
  <1>11. Frac(u, 1) = frac - d
    <2>1. frac = Span(t, point, Decimal) /\ Frac(u, 1) = Span(u, point - d, Decimal)
      BY <1>10 DEF Frac, frac, point
    <2>2. Span(t, point, Decimal) <= e
      BY <1>1, <1>8, <2>1
    <2> QED
      BY <1>0, <1>8, <2>1, <2>2, SpanCut
  <1>12. At(u, frac - d) \in {"e"} <=> At(t, frac) \in {"e"}
    BY <1>0, <1>8, IsCut
  <1>13. At(t, frac) = "e" => /\ Sign(u, 1) = sign - d /\ At(u, sign - d) \in Decimal
                              /\ Exp(u, 1) = exp - d
    <2> SUFFICES ASSUME At(t, frac) = "e"
                 PROVE  /\ Sign(u, 1) = sign - d /\ At(u, sign - d) \in Decimal
                        /\ Exp(u, 1) = exp - d
      OBVIOUS
    <2>1. frac + 1 \in d + 1..e /\ frac + 1 < e /\ sign \in d + 1..e /\ sign < e
      BY <1>1, <1>8
    <2>2. At(u, (frac + 1) - d) \in {"+", "-"} <=> At(t, frac + 1) \in {"+", "-"}
      BY <1>0, <2>1, IsCut
    <2>3. sign = IF At(t, frac + 1) \in {"+", "-"} THEN frac + 2 ELSE frac + 1
      BY DEF sign, frac, Sign
    <2>4. Sign(u, 1) = IF At(u, (frac - d) + 1) \in {"+", "-"} THEN (frac - d) + 2 ELSE (frac - d) + 1
      BY <1>11 DEF Sign
    <2>5. (frac - d) + 1 = (frac + 1) - d
      BY <1>1, <1>8
    <2>6. Sign(u, 1) = sign - d
      BY <1>1, <1>8, <2>2, <2>3, <2>4, <2>5
    <2>7. At(u, sign - d) \in Decimal
      BY <1>0, <1>2, <2>1, IsCut
    <2>8. Exp(u, 1) = Span(u, sign - d, Decimal)
      BY <1>11, <1>12, <2>6 DEF Exp
    <2>9. Span(t, sign, Decimal) <= e
      BY <1>1, <1>6, <1>8
    <2>10. Span(u, sign - d, Decimal) = Span(t, sign, Decimal) - d
      BY <1>0, <2>1, <2>9, SpanCut
    <2> QED
      BY <1>6, <2>6, <2>7, <2>8, <2>10
  <1>14. At(t, frac) # "e" => Exp(u, 1) = exp - d
    BY <1>7, <1>11, <1>12 DEF Exp
  <1>15. Suffix(u, 1) = e - d
    <2>1. Exp(u, 1) = exp - d
      BY <1>13, <1>14
    <2>2. At(u, exp - d) \in {"f"} <=> At(t, exp) \in {"f"}
      BY <1>0, <1>7, <1>8, IsCut
    <2>3. Suffix(u, 1) = IF At(u, exp - d) = "f" THEN (exp - d) + 1 ELSE exp - d
      BY <2>1 DEF Suffix
    <2>4. last = IF At(t, exp) = "f" THEN exp + 1 ELSE exp
      BY DEF last, exp, Suffix
    <2> QED
      BY <1>1, <1>2, <1>8, <2>2, <2>3, <2>4
  <1>16. ~(At(u, Frac(u, 1)) = "e" /\ At(u, Sign(u, 1)) \notin Decimal)
    BY <1>11, <1>12, <1>13
  <1>17. ScanFloat(u, 1) = Ends(e - d)
    BY <1>15, <1>16, FloatParts
  <1> QED
    <2>1. frac <= e
      BY <1>1, <1>8
    <2> QED
      BY <1>1, <1>8, <1>17, <2>1 DEF whole, frac
-----------------------------------------------------------------------------
\* The second character of a number that begins with a zero
Second(t, p) == IF t[p] = "0" THEN At(t, p + 1) ELSE "NUL"

LEMMA IntegerIs ==
    ASSUME NEW t, NEW p
    PROVE  /\ Second(t, p) = "x" => ScanInteger(t, p) = Ends(Span(t, p + 2, DigitsOf(16)))
           /\ Second(t, p) = "b" => ScanInteger(t, p) = Ends(Span(t, p + 2, DigitsOf(2)))
           /\ Second(t, p) \in Decimal => ScanInteger(t, p) = Ends(Span(t, p + 2, DigitsOf(8)))
           /\ Second(t, p) \notin {"x", "b"} \cup Decimal =>
                 ScanInteger(t, p) = Ends(Span(t, p, DigitsOf(10)))
  <1>1. "x" \notin Decimal /\ "b" \notin Decimal
    BY Zenon DEF Decimal
  <1> QED
    BY <1>1 DEF ScanInteger, Second

LEMMA NoPoint ==
    /\ "." \notin Decimal /\ "." \notin {"x", "b"}
    /\ \A base \in {2, 8, 10, 16} : "." \notin DigitsOf(base) /\ "NUL" \notin DigitsOf(base)
  BY Zenon DEF DigitsOf, Decimal

LEMMA IntegerCut ==
    ASSUME NEW t, NEW d, NEW e, NEW u, Cut(t, d, e, u),
           At(t, d + 1) \in Decimal, ScanInteger(t, d + 1) = Ends(e)
    PROVE  /\ ScanInteger(u, 1) = Ends(Eof(u))
           /\ \A i \in d + 1..e - 1 : At(t, i) # "."
  <1> DEFINE second == Second(t, d + 1)
             digits(base) == Span(t, (d + 1) + 2, DigitsOf(base))
  <1>1. /\ d \in Nat /\ e \in Nat /\ e >= d + 2 /\ e <= Eof(t) /\ Eof(t) \in Nat
        /\ Eof(u) = e - d /\ t \in Seq(STRING) /\ u \in Seq(STRING)
        /\ \A i \in d + 1..e - 1 : At(u, i - d) = At(t, i) /\ u[i - d] = t[i] /\ At(t, i) = t[i]
        /\ \A i \in Int : i >= e - d => At(u, i) = "NUL"
    BY AtCut
  <1>2. u[1] = t[d + 1] /\ At(t, d + 1) # "."
    <2>1. d + 1 \in d + 1..e - 1 /\ (d + 1) - d = 1
      BY <1>1
    <2> QED
      BY <1>1, <2>1, NoPoint
  <1>3. \A k : Ends(k) = Ends(e) => k = e
    BY DEF Ends
  <1>4. Second(u, 1) = second \/ (Second(u, 1) = "NUL" /\ e = d + 2)
    <2>1. Second(u, 1) = (IF t[d + 1] = "0" THEN At(u, 2) ELSE "NUL")
      BY <1>2 DEF Second
    <2>2. second = IF t[d + 1] = "0" THEN At(t, d + 2) ELSE "NUL"
      BY <1>1 DEF Second
    <2>3. CASE e > d + 2
      <3>1. d + 2 \in d + 1..e - 1 /\ (d + 2) - d = 2
        BY <1>1, <2>3
      <3> QED
        BY <1>1, <2>1, <2>2, <3>1
    <2>4. CASE e = d + 2
      <3>1. At(u, 2) = "NUL"
        BY <1>1, <2>4
      <3> QED
        BY <2>1, <2>4, <3>1
    <2> QED
      BY <1>1, <2>3, <2>4
  <1>5. ASSUME NEW base \in {2, 8, 16}, second # "NUL", second # ".", e = digits(base)
        PROVE  /\ Second(u, 1) = second /\ Span(u, 3, DigitsOf(base)) = Eof(u)
               /\ \A i \in d + 1..e - 1 : At(t, i) # "."
    <2>1. t[d + 1] = "0" /\ second = At(t, (d + 1) + 1)
      BY <1>5 DEF Second
    <2>2. (d + 1) + 2 \in 1..Eof(t)
      BY <1>1, <1>5, <2>1 DEF At, Eof
    <2>3. /\ digits(base) \in (d + 1) + 2..Eof(t)
          /\ \A i \in (d + 1) + 2..digits(base) - 1 : At(t, i) \in DigitsOf(base)
      BY <1>1, <2>2, NoPoint, SpanIs
    <2>4. e > d + 2 /\ Second(u, 1) = second
      BY <1>1, <1>4, <1>5, <2>3
    <2>5. Span(u, 3, DigitsOf(base)) = Eof(u)
      <3>1. (d + 1) + 2 \in d + 1..e /\ ((d + 1) + 2) - d = 3 /\ digits(base) <= e
        BY <1>1, <1>5, <2>3
      <3>2. Span(u, ((d + 1) + 2) - d, DigitsOf(base)) = digits(base) - d
        BY <3>1, NoPoint, SpanCut
      <3> QED
        BY <1>1, <1>5, <3>1, <3>2
    <2>6. ASSUME NEW i \in d + 1..e - 1 PROVE At(t, i) # "."
      <3>1. i = d + 1 \/ i = (d + 1) + 1 \/ i \in (d + 1) + 2..digits(base) - 1
        BY <1>1, <1>5
      <3> QED
        BY <1>2, <1>5, <2>1, <2>3, <3>1, NoPoint
    <2> QED
      BY <2>4, <2>5, <2>6
  <1>6. CASE second \in {"x", "b"} \cup Decimal
    <2>1. second # "NUL" /\ second # "."
      BY <1>6, NoPoint, Apart
    <2>2. \/ second = "x" /\ e = digits(16)
          \/ second = "b" /\ e = digits(2)
          \/ second \in Decimal /\ e = digits(8)
      BY <1>3, <1>6, IntegerIs
    <2> HIDE DEF second, digits
    <2>3. PICK base \in {2, 8, 16} : /\ e = digits(base)
                                     /\ \/ second = "x" /\ base = 16
                                        \/ second = "b" /\ base = 2
                                        \/ second \in Decimal /\ base = 8
      BY <2>2
    <2>4. /\ Second(u, 1) = second /\ Span(u, 3, DigitsOf(base)) = Eof(u)
          /\ \A i \in d + 1..e - 1 : At(t, i) # "."
      BY <1>5, <2>1, <2>3
    <2>5. ScanInteger(u, 1) = Ends(Span(u, 1 + 2, DigitsOf(base)))
      BY <2>3, <2>4, IntegerIs
    <2> QED
      BY <2>4, <2>5
  <1>7. CASE second \notin {"x", "b"} \cup Decimal
    <2>1. e = Span(t, d + 1, DigitsOf(10))
      BY <1>3, <1>7, IntegerIs
    <2>2. Second(u, 1) \notin {"x", "b"} \cup Decimal
      BY <1>4, <1>7, Apart
    <2>3. ScanInteger(u, 1) = Ends(Span(u, 1, DigitsOf(10)))
      BY <2>2, IntegerIs
    <2>4. d + 1 \in d + 1..e /\ (d + 1) - d = 1 /\ d + 1 \in 1..Eof(t)
          /\ Span(t, d + 1, DigitsOf(10)) <= e
      BY <1>1, <2>1
    <2>5. "NUL" \notin DigitsOf(10) /\ "." \notin DigitsOf(10)
      BY NoPoint
    <2>6. Span(u, (d + 1) - d, DigitsOf(10)) = Span(t, d + 1, DigitsOf(10)) - d
      BY <2>4, <2>5, SpanCut
    <2>7. \A i \in d + 1..Span(t, d + 1, DigitsOf(10)) - 1 : At(t, i) \in DigitsOf(10)
      BY <1>1, <2>4, <2>5, SpanIs
    <2> QED
      BY <1>1, <2>1, <2>3, <2>4, <2>5, <2>6, <2>7
  <1> QED
    BY <1>6, <1>7
-----------------------------------------------------------------------------
(***************************************************************************)
(* The string goes on from the same characters in both, up to the          *)
(* delimiter that closes it.                                               *)
(***************************************************************************)
LEMMA StringCut ==
    ASSUME NEW t, NEW d, NEW e, NEW u, Cut(t, d, e, u), ScanString(t, d + 1) = Ends(e)
    PROVE  ScanString(u, 1) = Ends(Eof(u))
  <1>1. /\ d \in Nat /\ e \in Nat /\ e >= d + 2 /\ e <= Eof(t) /\ Eof(t) \in Nat
        /\ Eof(u) = e - d /\ t \in Seq(STRING) /\ u \in Seq(STRING)
        /\ Len(u) = e - d - 1 /\ Len(t) = Eof(t) - 1
        /\ \A i \in d + 1..e - 1 : At(u, i - d) = At(t, i) /\ u[i - d] = t[i]
    BY AtCut
  <1>2. PICK f : Scans(t, d + 1, f)
    <2>1. d + 1 \in 1..Len(t)
      BY <1>1
    <2> QED
      BY <1>1, <2>1, ScanStringRuns
  <1>3. PICK g : Scans(u, 1, g)
    <2>1. 1 \in 1..Len(u)
      BY <1>1
    <2> QED
      BY <1>1, <2>1, ScanStringRuns
  <1>4. \A q \in d + 1..Eof(t) + 1 : f[q] = StringStep(t, d + 1, f, q)
    BY <1>2 DEF Scans
  <1>5. \A q \in 1..Eof(u) + 1 : g[q] = StringStep(u, 1, g, q)
    BY <1>3 DEF Scans
  <1>6. /\ \A k : Ends(k) = Ends(e) => k = e
        /\ \A k : Exits(k) # Ends(e)
        /\ RanOver(t) # Ends(e)
    BY DEF Ends, Exits, RanOver
  <1>7. u[1] = t[d + 1]
    <2>1. d + 1 \in d + 1..e - 1 /\ (d + 1) - d = 1
      BY <1>1
    <2> QED
      BY <1>1, <2>1
  <1> DEFINE N == Eof(t) + 1
             Same(q) == f[q] = Ends(e) => q < e /\ g[q - d] = Ends(e - d)
             S == {q \in d + 2..N : Same(q)}
  <1>8. ASSUME NEW q \in d + 2..N, \A r \in q + 1..N : Same(r) PROVE Same(q)
    <2> SUFFICES ASSUME f[q] = Ends(e) PROVE q < e /\ g[q - d] = Ends(e - d)
      OBVIOUS
    <2>1. StringStep(t, d + 1, f, q) = Ends(e)
      BY <1>1, <1>4
    <2>2. q <= Len(t) /\ q \in Nat
      BY <1>1, <1>6, <2>1 DEF StringStep
    <2>3. q < e => /\ g[q - d] = StringStep(u, 1, g, q - d) /\ u[q - d] = t[q]
                   /\ q - d <= Len(u)
      <3> SUFFICES ASSUME q < e PROVE /\ g[q - d] = StringStep(u, 1, g, q - d) /\ u[q - d] = t[q]
                                      /\ q - d <= Len(u)
        OBVIOUS
      <3>1. q \in d + 1..e - 1 /\ q - d \in 1..Eof(u) + 1 /\ q - d <= Len(u)
        BY <1>1, <2>2
      <3> QED
        BY <1>1, <1>5, <3>1
    <2>4. CASE t[q] = t[d + 1]
      <3>1. e = q + 1
        BY <1>6, <2>1, <2>2, <2>4 DEF StringStep
      <3>2. g[q - d] = Ends((q - d) + 1)
        BY <1>7, <2>2, <2>3, <2>4, <3>1, <1>1 DEF StringStep
      <3>3. (q - d) + 1 = e - d
        BY <1>1, <2>2, <3>1
      <3> QED
        BY <2>2, <3>1, <3>2, <3>3
    <2>5. CASE t[q] # t[d + 1] /\ t[q] # "\\"
      <3>1. f[q + 1] = Ends(e)
        BY <2>1, <2>2, <2>5, <1>1 DEF StringStep
      <3>2. q + 1 \in q + 1..N
        BY <1>1, <2>2
      <3>3. q + 1 < e /\ g[(q + 1) - d] = Ends(e - d)
        BY <1>8, <3>1, <3>2
      <3>4. q < e /\ (q + 1) - d = (q - d) + 1
        BY <1>1, <2>2, <3>3
      <3>5. g[q - d] = g[(q - d) + 1]
        BY <1>1, <1>7, <2>2, <2>3, <2>5, <3>4 DEF StringStep
      <3> QED
        BY <3>3, <3>4, <3>5
    <2>6. CASE t[q] # t[d + 1] /\ t[q] = "\\"
      <3>1. f[q + 2] = Ends(e) /\ At(t, q + 1) \in Escapes
        BY <1>6, <2>1, <2>2, <2>6, <1>1 DEF StringStep
      <3>2. q + 2 \in q + 1..N
        BY <1>1, <2>2
      <3>3. q + 2 < e /\ g[(q + 2) - d] = Ends(e - d)
        BY <1>8, <3>1, <3>2
      <3>4. q < e /\ (q + 2) - d = (q - d) + 2 /\ (q + 1) - d = (q - d) + 1
            /\ q + 1 \in d + 1..e - 1
        BY <1>1, <2>2, <3>3
      <3>5. At(u, (q - d) + 1) \in Escapes
        BY <1>1, <3>1, <3>4
      <3>6. g[q - d] = g[(q - d) + 2]
        <4>1. /\ g[q - d] = StringStep(u, 1, g, q - d) /\ u[q - d] = "\\" /\ u[q - d] # u[1]
              /\ ~(q - d > Len(u))
          BY <1>1, <1>7, <2>2, <2>3, <2>6, <3>4
        <4> QED
          BY <3>5, <4>1 DEF StringStep
      <3> QED
        BY <3>3, <3>4, <3>6
    <2> QED
      BY <2>4, <2>5, <2>6
  <1>9. d + 2..N \subseteq S
    <2> HIDE DEF Same
    <2>1. \A q \in d + 2..N : (\A r \in q + 1..N : r \in S) => q \in S
      BY <1>1, <1>8
    <2>2. d + 2 \in Nat /\ N \in Nat
      BY <1>1
    <2> HIDE DEF S, N
    <2> QED
      BY <2>1, <2>2, CountDown
  <1>10. f[(d + 1) + 1] = Ends(e) /\ g[1 + 1] = ScanString(u, 1)
    BY <1>2, <1>3 DEF Scans
  <1>11. (d + 1) + 1 \in d + 2..N /\ ((d + 1) + 1) - d = 1 + 1
    BY <1>1
  <1>12. Same((d + 1) + 1)
    BY <1>9, <1>11
  <1> QED
    BY <1>1, <1>10, <1>11, <1>12
-----------------------------------------------------------------------------
\* One of the tests of a punctuation token: of the kind k so far, before n.
Rec(k, n) == [kind |-> k, to |-> n]

Fires(t, tests, k, n, i) ==
    i <= Len(tests) /\ At(t, n) = tests[i].on /\ tests[i].if \in {"", k}

Tried(t, tests, k, n, i) ==
    IF Fires(t, tests, k, n, i) THEN Rec(tests[i].kind, n + tests[i].by) ELSE Rec(k, n)

Dots(t, p) == t[p] = "." /\ At(t, p + 1) = "." /\ At(t, p + 2) = "."

LEMMA PunctuationSteps ==
    ASSUME NEW t, NEW p, NEW flag, NEW k1, NEW n1, NEW k2, NEW n2, NEW k3, NEW n3,
           Tried(t, Tests(t[p], flag), t[p], p + 1, 1) = Rec(k1, n1),
           Tried(t, Tests(t[p], flag), k1, n1, 2) = Rec(k2, n2),
           Tried(t, Tests(t[p], flag), k2, n2, 3) = Rec(k3, n3)
    PROVE  Punctuation(t, p, flag) = IF Dots(t, p) THEN Rec("...", p + 3) ELSE Rec(k3, n3)
  <1> DEFINE tests == Tests(t[p], flag)
             Go(acc, i) ==
               IF i <= Len(tests) /\ At(t, acc.to) = tests[i].on /\ tests[i].if \in {"", acc.kind}
               THEN [kind |-> tests[i].kind, to |-> acc.to + tests[i].by]
               ELSE acc
  <1>1. Punctuation(t, p, flag) =
          IF Dots(t, p) THEN Rec("...", p + 3) ELSE Go(Go(Go(Rec(t[p], p + 1), 1), 2), 3)
    BY DEF Punctuation, Rec, Dots
  <1>2. \A k, n, i : Go(Rec(k, n), i) = Tried(t, tests, k, n, i)
    BY DEF Rec, Tried, Fires
  <1> HIDE DEF Go
  <1>3. Go(Rec(t[p], p + 1), 1) = Rec(k1, n1) /\ Go(Rec(k1, n1), 2) = Rec(k2, n2)
        /\ Go(Rec(k2, n2), 3) = Rec(k3, n3)
    BY <1>2
  <1> QED
    BY <1>1, <1>3

\* All the tests step over their character.
StepOver(tests) == \A i \in 1..Len(tests) : tests[i].by = 1

LEMMA TestsStepOver ==
    ASSUME NEW c, NEW flag \in BOOLEAN, c # "-"
    PROVE  StepOver(Tests(c, flag))
  <1> DEFINE Over(x) == x.by = 1
  <1>1. \A on, kind : Over(Test(on, kind))
    BY DEF Test
  <1>2. \A k, on, kind : Over(After(k, on, kind))
    BY DEF After
  <1>3. StepOver(<<>>)
    BY DEF StepOver
  <1>4. \A x : Over(x) => StepOver(<<x>>)
    BY DEF StepOver
  <1>5. \A x, y : Over(x) /\ Over(y) => StepOver(<<x, y>>)
    BY DEF StepOver
  <1>6. \A x, y, z : Over(x) /\ Over(y) /\ Over(z) => StepOver(<<x, y, z>>)
    BY DEF StepOver
  <1> HIDE DEF Over
  <1>7. c = ">" => StepOver(Tests(c, flag))
    BY <1>1, <1>2, <1>4, <1>6 DEF Tests
  <1> QED
    BY <1>1, <1>2, <1>3, <1>4, <1>5, <1>6, <1>7 DEF Tests

LEMMA MinusIs ==
    ASSUME NEW flag
    PROVE  LET tests == Tests("-", flag)
           IN  /\ Len(tests) = 3 /\ tests[2].by = 1 /\ tests[3].by = 1
               /\ tests[1].kind = "--" /\ tests[1].on = "-" /\ tests[1].by = 0
               /\ tests[2].on = "=" /\ tests[3].on = ">"
  <1>1. Tests("-", flag) = <<Peek("-", "--"), Test("=", "-="), Test(">", "->")>>
    BY DEF Tests
  <1> DEFINE tests == Tests("-", flag)
  <1>2. /\ Len(tests) = 3 /\ tests[1] = Peek("-", "--") /\ tests[2] = Test("=", "-=")
        /\ tests[3] = Test(">", "->")
    BY <1>1
  <1>3. Peek("-", "--").kind = "--" /\ Peek("-", "--").on = "-" /\ Peek("-", "--").by = 0
    BY DEF Peek
  <1>4. \A on, kind : Test(on, kind).on = on /\ Test(on, kind).by = 1
    BY DEF Test
  <1> HIDE DEF tests
  <1>5. /\ Len(tests) = 3 /\ tests[2].by = 1 /\ tests[3].by = 1
        /\ tests[1].kind = "--" /\ tests[1].on = "-" /\ tests[1].by = 0
        /\ tests[2].on = "=" /\ tests[3].on = ">"
    BY <1>2, <1>3, <1>4
  <1> QED
    BY <1>5 DEF tests

LEMMA TriedIs ==
    ASSUME NEW t, NEW tests, NEW k, NEW n \in Nat, NEW i \in 1..3, Fit(tests)
    PROVE  \E l, m : Tried(t, tests, k, n, i) = Rec(l, m) /\ m \in Nat /\ m >= n
  <1>1. CASE Fires(t, tests, k, n, i)
    <2>1. i \in 1..Len(tests)
      <3>1. Len(tests) \in Nat
        BY DEF Fit
      <3>2. i <= Len(tests)
        BY <1>1 DEF Fires
      <3> QED
        BY <3>1, <3>2
    <2>2. tests[i].by \in {0, 1}
      BY <2>1 DEF Fit
    <2>3. Tried(t, tests, k, n, i) = Rec(tests[i].kind, n + tests[i].by)
      BY <1>1 DEF Tried
    <2>4. n + tests[i].by \in Nat /\ n + tests[i].by >= n
      BY <2>2
    <2> QED
      BY <2>3, <2>4
  <1>2. CASE ~Fires(t, tests, k, n, i)
    BY <1>2 DEF Tried
  <1> QED
    BY <1>1, <1>2

LEMMA RecIs == \A k, n, l, m : Rec(k, n) = Rec(l, m) => k = l /\ n = m
  BY DEF Rec

LEMMA TriedCut ==
    ASSUME NEW t, NEW d, NEW e, NEW u, Cut(t, d, e, u),
           NEW tests, Fit(tests), NEW i \in 1..3, NEW k, NEW n \in d + 1..e,
           NEW l, NEW m, Tried(t, tests, k, n, i) = Rec(l, m), m <= e,
           Fires(t, tests, k, n, i) => tests[i].by = 1
    PROVE  Tried(u, tests, k, n - d, i) = Rec(l, m - d)
  <1>1. /\ d \in Nat /\ e \in Nat /\ \A j \in d + 1..e - 1 : At(u, j - d) = At(t, j)
        /\ At(u, e - d) = "NUL"
    BY AtCut
  <1>2. CASE Fires(t, tests, k, n, i)
    <2>1. l = tests[i].kind /\ m = n + 1
      BY <1>2, RecIs DEF Tried
    <2>2. n \in d + 1..e - 1
      BY <1>1, <2>1
    <2>3. Fires(u, tests, k, n - d, i)
      BY <1>1, <1>2, <2>2 DEF Fires
    <2>4. Tried(u, tests, k, n - d, i) = Rec(tests[i].kind, (n - d) + 1)
      BY <1>2, <2>3 DEF Tried
    <2>5. (n - d) + 1 = m - d
      BY <1>1, <2>1
    <2> QED
      BY <2>1, <2>4, <2>5
  <1>3. CASE ~Fires(t, tests, k, n, i)
    <2>1. l = k /\ m = n
      BY <1>3, RecIs DEF Tried
    <2>2. ~Fires(u, tests, k, n - d, i)
      <3>1. CASE n < e
        <4>1. n \in d + 1..e - 1
          BY <1>1, <3>1
        <4> QED
          BY <1>1, <1>3, <4>1 DEF Fires
      <3>2. CASE n = e
        <4>1. i <= Len(tests) => tests[i].on # "NUL"
          BY DEF Fit
        <4> QED
          BY <1>1, <3>2, <4>1 DEF Fires
      <3> QED
        BY <1>1, <3>1, <3>2
    <2> QED
      BY <2>1, <2>2 DEF Tried
  <1> QED
    BY <1>2, <1>3

LEMMA DotsCut ==
    ASSUME NEW t, NEW d, NEW e, NEW u, Cut(t, d, e, u)
    PROVE  /\ Dots(u, 1) => Dots(t, d + 1)
           /\ Dots(t, d + 1) /\ e >= d + 4 => Dots(u, 1)
  <1>1. /\ d \in Nat /\ e \in Nat /\ e >= d + 2
        /\ \A j \in d + 1..e - 1 : At(u, j - d) = At(t, j) /\ u[j - d] = t[j]
        /\ \A j \in Int : j >= e - d => At(u, j) = "NUL"
    BY AtCut
  <1>2. u[1] = t[d + 1]
    <2>1. d + 1 \in d + 1..e - 1 /\ (d + 1) - d = 1
      BY <1>1
    <2> QED
      BY <1>1, <2>1
  <1>3. ASSUME NEW j \in {2, 3} PROVE At(u, j) = At(t, d + j) \/ (j >= e - d /\ At(u, j) = "NUL")
    <2>1. j < e - d => d + j \in d + 1..e - 1 /\ (d + j) - d = j
      BY <1>1
    <2> QED
      BY <1>1, <2>1
  <1>4. At(u, 1 + 1) = At(t, (d + 1) + 1) \/ (e = d + 2 /\ At(u, 1 + 1) = "NUL")
    <2>1. 1 + 1 = 2 /\ (d + 1) + 1 = d + 2
      BY <1>1
    <2> QED
      BY <1>1, <1>3, <2>1
  <1>5. At(u, 1 + 2) = At(t, (d + 1) + 2) \/ (e <= d + 3 /\ At(u, 1 + 2) = "NUL")
    <2>1. 1 + 2 = 3 /\ (d + 1) + 2 = d + 3
      BY <1>1
    <2> QED
      BY <1>1, <1>3, <2>1
  <1> QED
    BY <1>1, <1>2, <1>4, <1>5 DEF Dots

(***************************************************************************)
(* The tests of a token that step over their character fire alone as they  *)
(* do in the text: what they look at is in the token, or they do not fire. *)
(* The one that looks without a step makes a --.                           *)
(***************************************************************************)
LEMMA PunctuationCut ==
    ASSUME NEW t, NEW d, NEW e, NEW u, Cut(t, d, e, u), NEW flag \in BOOLEAN,
           NEW kind, kind # "--", Punctuation(t, d + 1, flag).kind = kind,
           Punctuation(t, d + 1, flag).to = e
    PROVE  Punctuation(u, 1, flag).kind = kind /\ Punctuation(u, 1, flag).to = Eof(u)
  <1> DEFINE c     == t[d + 1]
             tests == Tests(c, flag)
  <1>1. /\ d \in Nat /\ e \in Nat /\ e >= d + 2 /\ Eof(u) = e - d
        /\ \A j \in d + 1..e - 1 : u[j - d] = t[j]
    BY AtCut
  <1>2. u[1] = c
    <2>1. d + 1 \in d + 1..e - 1 /\ (d + 1) - d = 1
      BY <1>1
    <2> QED
      BY <1>1, <2>1
  <1>3. Fit(tests)
    BY TestsFit
  <1> HIDE DEF c, tests
  <1>4. PICK k1, n1 : Tried(t, tests, c, (d + 1) + 1, 1) = Rec(k1, n1) /\ n1 \in Nat /\ n1 >= d + 2
    BY <1>1, <1>3, TriedIs
  <1>5. PICK k2, n2 : Tried(t, tests, k1, n1, 2) = Rec(k2, n2) /\ n2 \in Nat /\ n2 >= n1
    BY <1>3, <1>4, TriedIs
  <1>6. PICK k3, n3 : Tried(t, tests, k2, n2, 3) = Rec(k3, n3) /\ n3 \in Nat /\ n3 >= n2
    BY <1>3, <1>5, TriedIs
  <1>7. Punctuation(t, d + 1, flag) =
          IF Dots(t, d + 1) THEN Rec("...", (d + 1) + 3) ELSE Rec(k3, n3)
    BY <1>4, <1>5, <1>6, PunctuationSteps DEF tests, c
  <1>8. CASE Dots(t, d + 1)
    <2>1. kind = "..." /\ e = d + 4
      BY <1>1, <1>7, <1>8 DEF Rec
    <2>2. Dots(u, 1)
      BY <1>1, <1>8, <2>1, DotsCut
    <2>3. Punctuation(u, 1, flag) = [kind |-> "...", to |-> 1 + 3]
      BY <2>2 DEF Punctuation, Dots
    <2> QED
      BY <1>1, <2>1, <2>3
  <1>9. CASE ~Dots(t, d + 1)
    <2>1. k3 = kind /\ n3 = e
      BY <1>7, <1>9 DEF Rec
    <2>2. /\ Fires(t, tests, c, (d + 1) + 1, 1) => tests[1].by = 1
          /\ Fires(t, tests, k1, n1, 2) => tests[2].by = 1
          /\ Fires(t, tests, k2, n2, 3) => tests[3].by = 1
      <3>1. CASE c # "-"
        <4>1. StepOver(tests)
          BY <3>1, TestsStepOver DEF tests
        <4>2. Len(tests) \in Nat
          BY <1>3 DEF Fit
        <4>3. ASSUME NEW k, NEW n, NEW i \in 1..3, Fires(t, tests, k, n, i) PROVE tests[i].by = 1
          <5>1. i <= Len(tests)
            BY <4>3 DEF Fires
          <5>2. i \in 1..Len(tests)
            BY <4>2, <5>1
          <5> QED
            BY <4>1, <5>2 DEF StepOver
        <4> QED
          BY <4>3
      <3>2. CASE c = "-"
        <4>1. /\ Len(tests) = 3 /\ tests[2].by = 1 /\ tests[3].by = 1
              /\ tests[1].kind = "--" /\ tests[1].on = "-" /\ tests[1].by = 0
              /\ tests[2].on = "=" /\ tests[3].on = ">"
          BY <3>2, MinusIs DEF tests
        <4>2. ~Fires(t, tests, c, (d + 1) + 1, 1)
          <5> SUFFICES ASSUME Fires(t, tests, c, (d + 1) + 1, 1) PROVE FALSE
            OBVIOUS
          <5>1. At(t, (d + 1) + 1) = "-"
            BY <4>1 DEF Fires
          <5>2. k1 = "--" /\ n1 = ((d + 1) + 1) + 0
            BY <1>4, <4>1, RecIs DEF Tried
          <5>3. n1 = (d + 1) + 1
            BY <1>1, <5>2
          <5>4. ~Fires(t, tests, k1, n1, 2)
            BY <4>1, <5>1, <5>3 DEF Fires
          <5>5. k2 = k1 /\ n2 = n1
            BY <1>5, <5>4, RecIs DEF Tried
          <5>6. ~Fires(t, tests, k2, n2, 3)
            BY <4>1, <5>1, <5>3, <5>5 DEF Fires
          <5>7. k3 = k2
            BY <1>6, <5>6, RecIs DEF Tried
          <5> QED
            BY <2>1, <5>2, <5>5, <5>7
        <4> QED
          BY <4>1, <4>2
      <3> QED
        BY <3>1, <3>2
    <2>3. /\ (d + 1) + 1 \in d + 1..e /\ n1 \in d + 1..e /\ n2 \in d + 1..e
          /\ n1 <= e /\ n2 <= e /\ n3 <= e /\ ((d + 1) + 1) - d = 1 + 1
      BY <1>1, <1>4, <1>5, <1>6, <2>1
    <2>4. Tried(u, tests, c, 1 + 1, 1) = Rec(k1, n1 - d)
      <3>1. Tried(u, tests, c, ((d + 1) + 1) - d, 1) = Rec(k1, n1 - d)
        BY <1>3, <1>4, <2>2, <2>3, TriedCut
      <3> QED
        BY <2>3, <3>1
    <2>5. Tried(u, tests, k1, n1 - d, 2) = Rec(k2, n2 - d)
      BY <1>3, <1>5, <2>2, <2>3, TriedCut
    <2>6. Tried(u, tests, k2, n2 - d, 3) = Rec(k3, n3 - d)
      BY <1>3, <1>6, <2>2, <2>3, TriedCut
    <2>7. ~Dots(u, 1)
      BY <1>9, DotsCut
    <2>8. Punctuation(u, 1, flag) = Rec(k3, n3 - d)
      <3>1. tests = Tests(u[1], flag)
        BY <1>2 DEF tests
      <3>2. /\ Tried(u, Tests(u[1], flag), u[1], 1 + 1, 1) = Rec(k1, n1 - d)
            /\ Tried(u, Tests(u[1], flag), k1, n1 - d, 2) = Rec(k2, n2 - d)
            /\ Tried(u, Tests(u[1], flag), k2, n2 - d, 3) = Rec(k3, n3 - d)
        BY <1>2, <2>4, <2>5, <2>6, <3>1
      <3>3. Punctuation(u, 1, flag) = IF Dots(u, 1) THEN Rec("...", 1 + 3) ELSE Rec(k3, n3 - d)
        BY <3>2, PunctuationSteps
      <3> QED
        BY <2>7, <3>3
    <2> QED
      BY <1>1, <2>1, <2>8 DEF Rec
  <1> QED
    BY <1>8, <1>9
-----------------------------------------------------------------------------
\* The token tok that lexNextToken reads at b, where there is nothing to skip
LexedAs(t, b, flag, tok) ==
    LET c     == At(t, b)
        point == c = "." /\ At(t, b + 1) \in Decimal
        op    == Punctuation(t, b, flag)
    IN  /\ c \in Letters => tok = Token("name", b, Ends(Span(t, b, Letters \cup Decimal)), 0)
        /\ c = DoubleQuote => tok = Token("dqstring", b, ScanString(t, b), 0)
        /\ c = "'" => tok = Token("sqstring", b, ScanString(t, b), 0)
        /\ c \in Decimal /\ At(t, Whole(t, b)) = "." =>
             tok = Token("float", b, ScanFloat(t, b), Whole(t, b) - b)
        /\ c \in Decimal /\ At(t, Whole(t, b)) # "." =>
             tok = Token("int", b, ScanInteger(t, b), Whole(t, b) - b)
        /\ point => tok = Token("float", b, ScanFloat(t, b), 1)
        /\ c \in Alone \cup Longer /\ ~point => tok = Token(op.kind, b, Ends(op.to), 0)
        /\ c = "NUL" \/ c \notin Letters \cup Decimal \cup {DoubleQuote, "'"} \cup Alone \cup Longer
             => tok.kind = "eof"

LEMMA LexIs ==
    ASSUME NEW t, NEW p, NEW flag
    PROVE  LexedAs(t, SkipWhiteSpaces(t, p), flag, LexNextToken(t, p, flag))
  <1> DEFINE b     == SkipWhiteSpaces(t, p)
             c     == At(t, b)
             tok   == LexNextToken(t, p, flag)
             point == c = "." /\ At(t, b + 1) \in Decimal
             op    == Punctuation(t, b, flag)
             digits == Span(t, b, Decimal)
  <1>1. tok = CASE c = "NUL"      -> Token("eof", b, Ends(b), 0)
                [] c \in Letters  -> Token("name", b, Ends(Span(t, b, Letters \cup Decimal)), 0)
                [] c = DoubleQuote -> Token("dqstring", b, ScanString(t, b), 0)
                [] c = "'"        -> Token("sqstring", b, ScanString(t, b), 0)
                [] c \in Decimal  -> IF At(t, digits) = "."
                                     THEN Token("float", b, ScanFloat(t, b), digits - b)
                                     ELSE Token("int", b, ScanInteger(t, b), digits - b)
                [] point          -> Token("float", b, ScanFloat(t, b), 1)
                [] c \in Alone \cup Longer /\ ~point -> Token(op.kind, b, Ends(op.to), 0)
                [] OTHER          -> Token("eof", b, Exits(b), 0)
    BY DEF LexNextToken
  <1>2. digits = Whole(t, b)
    BY DEF Whole
  <1>3. \A scan : Token("eof", b, scan, 0).kind = "eof"
    BY DEF Token
  <1> HIDE DEF b, c, tok, op, digits, point
  <1>4. /\ c \in Letters => tok = Token("name", b, Ends(Span(t, b, Letters \cup Decimal)), 0)
        /\ c = DoubleQuote => tok = Token("dqstring", b, ScanString(t, b), 0)
        /\ c = "'" => tok = Token("sqstring", b, ScanString(t, b), 0)
    BY <1>1, Kinds DEF point
  <1>5. /\ c \in Decimal /\ At(t, Whole(t, b)) = "." =>
             tok = Token("float", b, ScanFloat(t, b), Whole(t, b) - b)
        /\ c \in Decimal /\ At(t, Whole(t, b)) # "." =>
             tok = Token("int", b, ScanInteger(t, b), Whole(t, b) - b)
    BY <1>1, <1>2, Kinds DEF point
  <1>6. point => tok = Token("float", b, ScanFloat(t, b), 1)
    BY <1>1, Kinds DEF point
  <1>7. c \in Alone \cup Longer /\ ~point => tok = Token(op.kind, b, Ends(op.to), 0)
    BY <1>1, Kinds
  <1>8. c = "NUL" \/ c \notin Letters \cup Decimal \cup {DoubleQuote, "'"} \cup Alone \cup Longer
             => tok.kind = "eof"
    BY <1>1, <1>3, Kinds DEF point
  <1> QED
    BY <1>4, <1>5, <1>6, <1>7, <1>8 DEF LexedAs, b, c, tok, op, point

\* A token begins where there is neither a blank nor a comment.
Clean(t, b) == At(t, b) \notin White /\ ~Comment(t, b)

LEMMA StartCut ==
    ASSUME NEW t, NEW d, NEW e, NEW u, Cut(t, d, e, u), Clean(t, d + 1), NEW flag
    PROVE  /\ LexedAs(u, 1, flag, LexNextToken(u, 1, flag))
           /\ At(u, 1) = At(t, d + 1)
           /\ d + 2 < e => At(u, 1 + 1) = At(t, (d + 1) + 1)
           /\ d + 2 >= e => At(u, 1 + 1) = "NUL"
  <1>1. SkipWhiteSpaces(u, 1) = 1
    BY SkipCut DEF Clean
  <1>2. LexedAs(u, 1, flag, LexNextToken(u, 1, flag))
    <2>1. LexedAs(u, SkipWhiteSpaces(u, 1), flag, LexNextToken(u, 1, flag))
      BY LexIs
    <2> QED
      BY <1>1, <2>1
  <1>3. /\ d \in Nat /\ e \in Nat /\ e >= d + 2
        /\ \A i \in d + 1..e - 1 : At(u, i - d) = At(t, i)
        /\ \A i \in Int : i >= e - d => At(u, i) = "NUL"
    BY AtCut
  <1>4. At(u, 1) = At(t, d + 1)
    <2>1. d + 1 \in d + 1..e - 1 /\ (d + 1) - d = 1
      BY <1>3
    <2> QED
      BY <1>3, <2>1
  <1>5. d + 2 < e => At(u, 1 + 1) = At(t, (d + 1) + 1)
    <2>1. d + 2 < e => (d + 1) + 1 \in d + 1..e - 1 /\ ((d + 1) + 1) - d = 1 + 1
      BY <1>3
    <2> QED
      BY <1>3, <2>1
  <1>6. d + 2 >= e => At(u, 1 + 1) = "NUL"
    <2>1. d + 2 >= e => 1 + 1 \in Int /\ 1 + 1 >= e - d
      BY <1>3
    <2> QED
      BY <1>3, <2>1
  <1> QED
    BY <1>2, <1>4, <1>5, <1>6

\* A scan that does not end the program ends at its `to`.
LEMMA ScanEnds ==
    ASSUME NEW t, NEW b, NEW scan \in Scanned(t, b) \cup {RanOver(t)}, scan.status = "lexing"
    PROVE  scan = Ends(scan.to) /\ scan.to \in b + 1..Eof(t)
  BY DEF Scanned, RanOver, Ends, Exits

LEMMA TokenHas ==
    \A kind, from, scan, again :
       LET tok == Token(kind, from, scan, again)
       IN  tok.kind = kind /\ tok.from = from /\ tok.to = scan.to /\ tok.status = scan.status
  BY DEF Token

(***************************************************************************)
(* Each kind of token, read alone.                                         *)
(***************************************************************************)
ReadAs(u, flag, kind) ==
    LexNextToken(u, 1, flag).kind = kind /\ LexNextToken(u, 1, flag).to = Eof(u)

LEMMA IsReadAs ==
    ASSUME NEW u, NEW flag, NEW kind, NEW scan, NEW again, scan = Ends(Eof(u)),
           LexNextToken(u, 1, flag) = Token(kind, 1, scan, again)
    PROVE  ReadAs(u, flag, kind)
  BY DEF ReadAs, Token, Ends

LEMMA NameAlone ==
    ASSUME NEW t, NEW d, NEW e, NEW u, Cut(t, d, e, u), Clean(t, d + 1), NEW flag,
           At(t, d + 1) \in Letters, Span(t, d + 1, Letters \cup Decimal) = e
    PROVE  ReadAs(u, flag, "name")
  <1> DEFINE S == Letters \cup Decimal
  <1>1. "NUL" \notin S
    BY Apart
  <1>2. LexNextToken(u, 1, flag) = Token("name", 1, Ends(Span(u, 1, S)), 0)
    BY StartCut DEF LexedAs
  <1> HIDE DEF S
  <1>3. d \in Nat /\ e \in Nat /\ e >= d + 2 /\ Eof(u) = e - d
    BY AtCut
  <1>4. d + 1 \in d + 1..e /\ (d + 1) - d = 1 /\ Span(t, d + 1, S) <= e /\ Span(t, d + 1, S) = e
    BY <1>3 DEF S
  <1>5. Span(u, (d + 1) - d, S) = Span(t, d + 1, S) - d
    BY <1>1, <1>4, SpanCut
  <1>6. Ends(Span(u, 1, S)) = Ends(Eof(u))
    BY <1>3, <1>4, <1>5
  <1> QED
    BY <1>2, <1>6, IsReadAs

LEMMA StringAlone ==
    ASSUME NEW t, NEW d, NEW e, NEW u, Cut(t, d, e, u), Clean(t, d + 1), NEW flag,
           ScanString(t, d + 1) = Ends(e)
    PROVE  /\ At(t, d + 1) = DoubleQuote => ReadAs(u, flag, "dqstring")
           /\ At(t, d + 1) = "'" => ReadAs(u, flag, "sqstring")
  <1>1. ScanString(u, 1) = Ends(Eof(u))
    BY StringCut
  <1>2. /\ At(t, d + 1) = DoubleQuote =>
             LexNextToken(u, 1, flag) = Token("dqstring", 1, ScanString(u, 1), 0)
        /\ At(t, d + 1) = "'" =>
             LexNextToken(u, 1, flag) = Token("sqstring", 1, ScanString(u, 1), 0)
    <2>1. LexedAs(u, 1, flag, LexNextToken(u, 1, flag)) /\ At(u, 1) = At(t, d + 1)
      BY StartCut
    <2> QED
      BY <2>1, Zenon DEF LexedAs
  <1> QED
    BY <1>1, <1>2, IsReadAs

LEMMA FloatAlone ==
    ASSUME NEW t, NEW d, NEW e, NEW u, Cut(t, d, e, u), Clean(t, d + 1), NEW flag,
           ScanFloat(t, d + 1) = Ends(e),
           \/ At(t, d + 1) \in Decimal /\ At(t, Whole(t, d + 1)) = "."
           \/ At(t, d + 1) = "." /\ At(t, (d + 1) + 1) \in Decimal
    PROVE  ReadAs(u, flag, "float")
  <1>1. /\ ScanFloat(u, 1) = Ends(Eof(u)) /\ Frac(t, d + 1) <= e
        /\ At(t, Whole(t, d + 1)) = "." => Whole(t, d + 1) < e
    BY FloatCut
  <1>2. /\ d \in Nat /\ e \in Nat /\ e >= d + 2 /\ e <= Eof(t) /\ Eof(t) \in Nat
        /\ t \in Seq(STRING) /\ \A i \in d + 1..e - 1 : At(u, i - d) = At(t, i)
    BY AtCut
  <1>3. LexedAs(u, 1, flag, LexNextToken(u, 1, flag)) /\ At(u, 1) = At(t, d + 1)
    BY StartCut
  <1>4. d + 1 \in 1..Eof(t) /\ d + 1 \in d + 1..e /\ (d + 1) - d = 1
    BY <1>2
  <1>5. CASE At(t, d + 1) \in Decimal /\ At(t, Whole(t, d + 1)) = "."
    <2>1. Whole(t, d + 1) \in d + 1..Eof(t)
      BY <1>2, <1>4, SpanFrom DEF Whole
    <2>2. Whole(t, d + 1) \in d + 1..e - 1 /\ Whole(t, d + 1) <= e
      BY <1>1, <1>2, <1>5, <2>1
    <2>3. Span(u, (d + 1) - d, Decimal) = Span(t, d + 1, Decimal) - d
      BY <1>4, <2>2, Apart, SpanCut DEF Whole
    <2>4. Whole(u, 1) = Whole(t, d + 1) - d
      BY <1>4, <2>3 DEF Whole
    <2>5. At(u, Whole(u, 1)) = "."
      BY <1>2, <1>5, <2>2, <2>4
    <2>6. LexNextToken(u, 1, flag) = Token("float", 1, ScanFloat(u, 1), Whole(u, 1) - 1)
      BY <1>3, <1>5, <2>5 DEF LexedAs
    <2> QED
      BY <1>1, <2>6, IsReadAs
  <1>6. CASE At(t, d + 1) = "." /\ At(t, (d + 1) + 1) \in Decimal
    <2>1. Whole(t, d + 1) = d + 1
      <3>1. /\ Whole(t, d + 1) \in d + 1..Eof(t)
            /\ \A i \in d + 1..Whole(t, d + 1) - 1 : At(t, i) \in Decimal
        BY <1>2, <1>4, Apart, SpanIs DEF Whole
      <3> QED
        BY <1>2, <1>6, <3>1, NoPoint
    <2>2. Point(t, d + 1) = (d + 1) + 1
      BY <1>6, <2>1 DEF Point
    <2>3. (d + 1) + 1 \in 1..Eof(t)
      BY <1>2
    <2>4. Frac(t, d + 1) \in (d + 1) + 1..Eof(t) /\ Frac(t, d + 1) > (d + 1) + 1
      BY <1>2, <1>6, <2>2, <2>3, SpanFrom DEF Frac
    <2>5. d + 2 < e
      BY <1>1, <1>2, <2>4
    <2>6. At(u, 1) = "." /\ At(u, 1 + 1) \in Decimal
      BY <1>3, <1>6, <2>5, StartCut
    <2>7. LexNextToken(u, 1, flag) = Token("float", 1, ScanFloat(u, 1), 1)
      BY <1>3, <2>6 DEF LexedAs
    <2> QED
      BY <1>1, <2>7, IsReadAs
  <1> QED
    BY <1>5, <1>6

LEMMA IntegerAlone ==
    ASSUME NEW t, NEW d, NEW e, NEW u, Cut(t, d, e, u), Clean(t, d + 1), NEW flag,
           At(t, d + 1) \in Decimal, ScanInteger(t, d + 1) = Ends(e)
    PROVE  ReadAs(u, flag, "int")
  <1>1. ScanInteger(u, 1) = Ends(Eof(u)) /\ \A i \in d + 1..e - 1 : At(t, i) # "."
    BY IntegerCut
  <1>2. /\ d \in Nat /\ e \in Nat /\ e >= d + 2 /\ Eof(u) = e - d /\ u \in Seq(STRING)
        /\ \A i \in d + 1..e - 1 : At(u, i - d) = At(t, i)
        /\ At(u, e - d) = "NUL"
    BY AtCut
  <1>3. At(u, Whole(u, 1)) # "."
    <2> DEFINE w == Whole(u, 1)
    <2>1. 1 \in 1..Eof(u)
      BY <1>2
    <2>2. w \in 1..Eof(u)
      BY <1>2, <2>1, SpanFrom DEF Whole
    <2> HIDE DEF w
    <2>3. w = e - d \/ (w + d \in d + 1..e - 1 /\ (w + d) - d = w)
      BY <1>2, <2>2
    <2>4. At(u, w) # "."
      BY <1>1, <1>2, <2>3
    <2> QED
      BY <2>4 DEF w
  <1>4. LexedAs(u, 1, flag, LexNextToken(u, 1, flag)) /\ At(u, 1) = At(t, d + 1)
    BY StartCut
  <1>5. LexNextToken(u, 1, flag) = Token("int", 1, ScanInteger(u, 1), Whole(u, 1) - 1)
    BY <1>3, <1>4 DEF LexedAs
  <1> QED
    BY <1>1, <1>5, IsReadAs

LEMMA PunctuationAlone ==
    ASSUME NEW t, NEW d, NEW e, NEW u, Cut(t, d, e, u), Clean(t, d + 1), NEW flag \in BOOLEAN,
           At(t, d + 1) \in Alone \cup Longer,
           ~(At(t, d + 1) = "." /\ At(t, (d + 1) + 1) \in Decimal),
           NEW kind, kind # "--", Punctuation(t, d + 1, flag).kind = kind,
           Punctuation(t, d + 1, flag).to = e
    PROVE  ReadAs(u, flag, kind)
  <1> DEFINE op == Punctuation(u, 1, flag)
  <1>1. op.kind = kind /\ op.to = Eof(u)
    BY PunctuationCut
  <1>2. LexedAs(u, 1, flag, LexNextToken(u, 1, flag)) /\ At(u, 1) = At(t, d + 1)
    BY StartCut
  <1>3. At(u, 1 + 1) = At(t, (d + 1) + 1) \/ At(u, 1 + 1) = "NUL"
    <2>1. d \in Nat /\ e \in Nat
      BY AtCut
    <2>2. d + 2 < e \/ d + 2 >= e
      BY <2>1
    <2> QED
      BY <2>2, StartCut
  <1>4. ~(At(u, 1) = "." /\ At(u, 1 + 1) \in Decimal)
    BY <1>2, <1>3, Apart
  <1>5. LexNextToken(u, 1, flag) = Token(op.kind, 1, Ends(op.to), 0)
    BY <1>2, <1>4 DEF LexedAs
  <1> HIDE DEF op
  <1>6. Ends(op.to) = Ends(Eof(u)) /\ LexNextToken(u, 1, flag) = Token(kind, 1, Ends(op.to), 0)
    BY <1>1, <1>5
  <1> QED
    BY <1>6, IsReadAs

(***************************************************************************)
(* A token of any text, lexed from any place.                              *)
(***************************************************************************)
LEMMA LexedAlone ==
    ASSUME NEW t \in Seq(STRING), NEW p \in 1..Eof(t), NEW flag \in BOOLEAN, NEW tok,
           tok = LexNextToken(t, p, flag), tok.status = "lexing", tok.kind \notin {"eof", "--"}
    PROVE  ReadAs(SubSeq(t, tok.from, tok.to - 1), flag, tok.kind)
  <1> DEFINE b == SkipWhiteSpaces(t, p)
             e == tok.to
  <1>1. b \in p..Eof(t) /\ Clean(t, b)
    BY SkipIs DEF Clean
  <1>2. b \in 1..Eof(t)
    BY <1>1 DEF Eof
  <1>3. LexedAs(t, b, flag, tok)
    BY LexIs
  <1> HIDE DEF b, e
  <1>4. /\ At(t, b) # "NUL"
        /\ At(t, b) \in Letters \cup Decimal \cup {DoubleQuote, "'"} \cup Alone \cup Longer
    BY <1>3, Zenon DEF LexedAs
  <1>5. b \in 1..Len(t)
    BY <1>2, <1>4, Within
  <1>6. PICK d \in Nat : b = d + 1
    <2>1. b - 1 \in Nat /\ b = (b - 1) + 1
      BY <1>5
    <2> QED
      BY <2>1
  <1>7. ASSUME NEW kind, NEW scan \in Scanned(t, b) \cup {RanOver(t)}, NEW again,
               tok = Token(kind, b, scan, again)
        PROVE  /\ scan = Ends(e) /\ tok.from = b /\ tok.kind = kind
               /\ Cut(t, d, e, SubSeq(t, tok.from, tok.to - 1))
    <2>1. tok.kind = kind /\ tok.from = b /\ tok.to = scan.to /\ tok.status = scan.status
      BY <1>7, TokenHas
    <2>2. scan = Ends(scan.to) /\ scan.to \in b + 1..Eof(t)
      BY <2>1, ScanEnds
    <2>3. Cut(t, b - 1, tok.to, SubSeq(t, b, tok.to - 1))
      BY <1>5, <2>1, <2>2, CutIs
    <2>4. b - 1 = d
      BY <1>6
    <2> QED
      BY <2>1, <2>2, <2>3, <2>4 DEF e
  <1> DEFINE u == SubSeq(t, tok.from, tok.to - 1)
  <1> HIDE DEF u
  <1> SUFFICES ReadAs(u, flag, tok.kind)
    BY DEF u
  <1>8. Clean(t, d + 1)
    BY <1>1, <1>6
  <1>9. CASE At(t, b) \in Letters
    <2> DEFINE s == Span(t, b, Letters \cup Decimal)
    <2>1. tok = Token("name", b, Ends(s), 0)
      BY <1>3, <1>9 DEF LexedAs
    <2>2. s \in b..Eof(t) /\ At(t, s) \notin Letters \cup Decimal
      BY <1>2, Apart, SpanIs
    <2> HIDE DEF s
    <2>3. s \in b + 1..Eof(t)
      BY <1>5, <1>9, <2>2 DEF Eof
    <2>4. Ends(s) \in Scanned(t, b)
      BY <2>3 DEF Scanned
    <2>5. Ends(s) = Ends(e) /\ tok.kind = "name" /\ Cut(t, d, e, u)
      BY <1>7, <2>1, <2>4 DEF u
    <2>6. s = e
      BY <2>5 DEF Ends
    <2> QED
      BY <1>6, <1>8, <1>9, <2>5, <2>6, NameAlone DEF s
  <1>10. CASE At(t, b) = DoubleQuote \/ At(t, b) = "'"
    <2>1. \/ At(t, b) = DoubleQuote /\ tok = Token("dqstring", b, ScanString(t, b), 0)
          \/ At(t, b) = "'" /\ tok = Token("sqstring", b, ScanString(t, b), 0)
      BY <1>3, <1>10, Zenon DEF LexedAs
    <2>2. ScanString(t, b) \in Scanned(t, b) \cup {RanOver(t)}
      BY <1>5, ScanStringIs
    <2>3. /\ ScanString(t, b) = Ends(e) /\ Cut(t, d, e, u)
          /\ \/ At(t, b) = DoubleQuote /\ tok.kind = "dqstring"
             \/ At(t, b) = "'" /\ tok.kind = "sqstring"
      BY <1>7, <2>1, <2>2 DEF u
    <2> QED
      BY <1>6, <1>8, <2>3, StringAlone
  <1>11. CASE \/ At(t, b) \in Decimal /\ At(t, Whole(t, b)) = "."
              \/ At(t, b) = "." /\ At(t, b + 1) \in Decimal
    <2>1. \E again : tok = Token("float", b, ScanFloat(t, b), again)
      BY <1>3, <1>11 DEF LexedAs
    <2>2. ScanFloat(t, b) \in Scanned(t, b)
      BY <1>5, <1>11, ScanFloatIs
    <2>3. ScanFloat(t, b) = Ends(e) /\ tok.kind = "float" /\ Cut(t, d, e, u)
      BY <1>7, <2>1, <2>2 DEF u
    <2> QED
      BY <1>6, <1>8, <1>11, <2>3, FloatAlone
  <1>12. CASE At(t, b) \in Decimal /\ At(t, Whole(t, b)) # "."
    <2>1. \E again : tok = Token("int", b, ScanInteger(t, b), again)
      BY <1>3, <1>12 DEF LexedAs
    <2>2. ScanInteger(t, b) \in Scanned(t, b)
      BY <1>5, <1>12, ScanIntegerIs
    <2>3. ScanInteger(t, b) = Ends(e) /\ tok.kind = "int" /\ Cut(t, d, e, u)
      BY <1>7, <2>1, <2>2 DEF u
    <2> QED
      BY <1>6, <1>8, <1>12, <2>3, IntegerAlone
  <1>13. CASE At(t, b) \in Alone \cup Longer /\ ~(At(t, b) = "." /\ At(t, b + 1) \in Decimal)
    <2> DEFINE op == Punctuation(t, b, flag)
    <2>1. tok = Token(op.kind, b, Ends(op.to), 0)
      BY <1>3, <1>13 DEF LexedAs
    <2>2. op.to \in b + 1..Eof(t)
      BY <1>5, PunctuationIs
    <2> HIDE DEF op
    <2>3. Ends(op.to) \in Scanned(t, b)
      BY <2>2 DEF Scanned
    <2>4. Ends(op.to) = Ends(e) /\ tok.kind = op.kind /\ Cut(t, d, e, u)
      BY <1>7, <2>1, <2>3 DEF u
    <2>5. op.to = e /\ op.kind # "--"
      BY <2>4 DEF Ends
    <2>6. ReadAs(u, flag, op.kind)
      BY <1>6, <1>8, <1>13, <2>4, <2>5, PunctuationAlone DEF op
    <2> QED
      BY <2>4, <2>6
  <1> QED
    BY <1>4, <1>9, <1>10, <1>11, <1>12, <1>13, Zenon

\* The current token was read from some place of the text, under some flag.
Current ==
    /\ token.status = status
    /\ \E p \in 1..Eof(text), flag \in BOOLEAN : token = LexNextToken(text, p, flag)

LEMMA CurrentInit == Init => Current
  <1> SUFFICES ASSUME Init PROVE Current
    OBVIOUS
  <1>1. 1 \in 1..Eof(text)
    BY TextsAssumption DEF Init, Eof
  <1> QED
    BY <1>1 DEF Init, Current

LEMMA CurrentStep == ASSUME IInv, Current, [Next]_vars PROVE Current'
  <1>1. ASSUME status = "lexing", Lexed(LexNextToken(text, pos, template)), text' = text
        PROVE  Current'
    <2>1. pos \in 1..Eof(text) /\ template \in BOOLEAN
      BY <1>1 DEF IInv, TypeOK, StaysInside, Placed, Eof
    <2>2. token' = LexNextToken(text, pos, template) /\ status' = token'.status
      BY <1>1 DEF Lexed
    <2> QED
      BY <1>1, <2>1, <2>2 DEF Current, Eof
  <1>2. CASE NextToken \/ ParsingTemplateContext
    BY <1>1, <1>2 DEF NextToken, ParsingTemplateContext
  <1>3. CASE SetContextPath \/ EndOfParsingTemplateContext \/ AtEnd \/ UNCHANGED vars
    <2>1. UNCHANGED <<token, status, text>>
      BY <1>3 DEF SetContextPath, EndOfParsingTemplateContext, AtEnd, vars
    <2> QED
      BY <2>1 DEF Current, Eof
  <1> QED
    BY <1>2, <1>3 DEF Next

(***************************************************************************)
(* What a token is depends on its own characters only: lexNextToken looks  *)
(* at up to three characters ahead, and a scan at all that follow, but     *)
(* read alone each token is the same, but for the single - before another. *)
(***************************************************************************)
THEOREM TokensReadAlone == Spec => []ReadAlone
  <1>1. IInv /\ Current => ReadAlone
    <2> SUFFICES ASSUME IInv, Current PROVE ReadAlone
      OBVIOUS
    <2>1. text \in Seq(STRING)
      BY DEF IInv, TypeOK
    <2>2. PICK p \in 1..Eof(text), flag \in BOOLEAN : token = LexNextToken(text, p, flag)
      BY DEF Current
    <2>3. token.status = status
      BY DEF Current
    <2> QED
      BY <2>1, <2>2, <2>3, LexedAlone DEF ReadAlone, ReadAs
  <1>2. IInv /\ Current /\ [Next]_vars => Current'
    BY CurrentStep
  <1> QED
    BY IInvHolds, CurrentInit, <1>1, <1>2, PTL DEF Spec
-----------------------------------------------------------------------------
(***************************************************************************)
(* A step of the parser of types is a call of the lexer or leaves it       *)
(* alone.                                                                  *)
(***************************************************************************)
LEMMA ParserStep == ASSUME PNext PROVE [Next]_vars
  <1>1. CASE Begin
    BY <1>1 DEF Begin, Next
  <1>2. CASE ParsePtrspec \/ ParseNamespec \/ CloseTemplate
    BY <1>2 DEF ParsePtrspec, ParseNamespec, CloseTemplate, Next
  <1>3. CASE MoreTypes
    BY <1>3, Zenon DEF MoreTypes, Next
  <1>4. CASE ParseTemplatespec
    BY <1>4 DEF ParseTemplatespec, Next
  <1>5. CASE LowerFlag
    BY <1>5 DEF LowerFlag, Next
  <1>6. CASE NoMoreTypes
    BY <1>6, Zenon DEF NoMoreTypes, vars
  <1>7. CASE ParseBasespec \/ SyntaxError \/ Return \/ Ended
    BY <1>7 DEF ParseBasespec, SyntaxError, Return, Ended, vars
  <1> QED
    BY <1>1, <1>2, <1>3, <1>4, <1>5, <1>6, <1>7, Zenon DEF PNext

(***************************************************************************)
(* The parser of types over the lexer implements the lexer: all of the     *)
(* above holds of the texts it reads.                                      *)
(***************************************************************************)
THEOREM ParserDrivesLexer == PSpec => Spec
  <1>1. PInit => Init
    BY DEF PInit
  <1>2. [PNext]_<<vars, pvars>> => [Next]_vars
    BY ParserStep
  <1> QED
    BY <1>1, <1>2, PTL DEF PSpec, Spec

\* What is left to do, and the flag, which is up only while there is a list
\* left to be closed.
Left == [do : {"typespec", "template", "more", "lower", "close"}, at : Nat]

FlagToLower == template => \E i \in 1..Len(stack) : stack[i].do = "lower"

FlagInv == stack \in Seq(Left) /\ FlagToLower

(***************************************************************************)
(* What is put in the place of the top of the stack, and what stays.       *)
(***************************************************************************)
LEMMA ThenIs ==
    ASSUME stack \in Seq(Left), stack # <<>>, NEW s \in Seq(Left), Then(s)
    PROVE  /\ stack' \in Seq(Left)
           /\ \A i \in 1..Len(s) : i \in 1..Len(stack') /\ stack'[i] = s[i]
           /\ \A i \in 2..Len(stack) : /\ Len(s) + i - 1 \in 1..Len(stack')
                                       /\ stack'[Len(s) + i - 1] = stack[i]
  BY DEF Then

LEMMA OthersStay ==
    ASSUME FlagInv, stack # <<>>, Top.do # "lower", NEW s \in Seq(Left), Then(s),
           template' => template \/ \E i \in 1..Len(s) : s[i].do = "lower"
    PROVE  FlagInv'
  <1>1. /\ stack \in Seq(Left) /\ Top = stack[1] /\ Len(s) \in Nat
        /\ template => \E i \in 1..Len(stack) : stack[i].do = "lower"
    BY DEF FlagInv, FlagToLower, Top
  <1>2. /\ stack' \in Seq(Left)
        /\ \A i \in 1..Len(s) : i \in 1..Len(stack') /\ stack'[i] = s[i]
        /\ \A i \in 2..Len(stack) : /\ Len(s) + i - 1 \in 1..Len(stack')
                                    /\ stack'[Len(s) + i - 1] = stack[i]
    BY <1>1, ThenIs
  <1>3. CASE template /\ ~ \E i \in 1..Len(s) : s[i].do = "lower"
    <2>1. PICK i \in 1..Len(stack) : stack[i].do = "lower"
      BY <1>1, <1>3
    <2>2. i \in 2..Len(stack)
      BY <1>1, <2>1
    <2> QED
      BY <1>2, <2>1, <2>2 DEF FlagInv, FlagToLower
  <1>4. CASE \E i \in 1..Len(s) : s[i].do = "lower"
    BY <1>2, <1>4 DEF FlagInv, FlagToLower
  <1>5. CASE ~template'
    BY <1>2, <1>5 DEF FlagInv, FlagToLower
  <1> QED
    BY <1>3, <1>4, <1>5

LEMMA Joined ==
    ASSUME NEW s1 \in Seq(Left), NEW s2 \in Seq(Left)
    PROVE  /\ s1 \o s2 \in Seq(Left)
           /\ \A i \in 1..Len(s1) : i \in 1..Len(s1 \o s2) /\ (s1 \o s2)[i] = s1[i]
  OBVIOUS

LEMMA TopDone ==
    ASSUME FlagInv, stack # <<>>, Top.do # "lower", Then(<<>>), template' = template
    PROVE  FlagInv'
  <1>1. <<>> \in Seq(Left)
    OBVIOUS
  <1> QED
    BY <1>1, OthersStay

(***************************************************************************)
(* Whoever raises the flag leaves the lowering of it to be done.           *)
(***************************************************************************)
LEMMA FlagStep == ASSUME FlagInv, IInv, IInv', [PNext]_<<vars, pvars>> PROVE FlagInv'
  <1>1. CASE Begin \/ ParsePtrspec \/ SyntaxError \/ Return \/ Ended \/ UNCHANGED <<vars, pvars>>
    BY <1>1 DEF Begin, ParsePtrspec, SyntaxError, Return, Ended, SetContextPath, NextToken, vars,
                pvars, FlagInv, FlagToLower
  <1>2. CASE ParseNamespec
    <2>1. <<Do("template", 0)>> \in Seq(Left)
      BY DEF Do, Left
    <2> QED
      BY <1>2, <2>1, OthersStay DEF ParseNamespec, NextToken, Busy
  <1>3. CASE ParseBasespec
    BY <1>3, TopDone DEF ParseBasespec, Busy, vars
  <1>4. CASE ParseTemplatespec
    <2>1. token.from \in Nat
      BY DEF IInv, TypeOK, Eof
    <2> DEFINE s == Lists(token.from, token'.kind = ">")
    <2> DEFINE list == <<Do("typespec", 0), Do("more", token.from), Do("lower", token.from)>>
               last == <<Do("close", token.from)>>
    <2>a. /\ Do("typespec", 0) \in Left /\ Do("more", token.from) \in Left
          /\ Do("lower", token.from) \in Left /\ Do("close", token.from) \in Left
          /\ Do("lower", token.from).do = "lower"
      BY <2>1 DEF Do, Left
    <2>b. /\ list \in Seq(Left) /\ Len(list) = 3 /\ list[3] = Do("lower", token.from)
          /\ last \in Seq(Left)
      BY <2>a
    <2>c. s = (IF token'.kind = ">" THEN <<>> ELSE list) \o last
      BY DEF Lists
    <2>3. /\ stack # <<>> /\ Top.do # "lower" /\ Then(s)
          /\ template' = (template \/ token'.kind # ">")
      BY <1>4 DEF ParseTemplatespec, ParsingTemplateContext, Busy
    <2> HIDE DEF list, last, s
    <2>2. /\ s \in Seq(Left)
          /\ token'.kind # ">" => \E i \in 1..Len(s) : s[i].do = "lower"
      <3>1. CASE token'.kind = ">"
        BY <2>b, <2>c, <3>1
      <3>2. CASE token'.kind # ">"
        <4>1. s = list \o last
          BY <2>c, <3>2
        <4>2. 3 \in 1..Len(list)
          BY <2>b
        <4> QED
          <5>1. s \in Seq(Left) /\ 3 \in 1..Len(s) /\ s[3] = list[3]
            BY <2>b, <4>1, <4>2, Joined
          <5> QED
            BY <2>a, <2>b, <5>1
      <3> QED
        BY <3>1, <3>2
    <2> QED
      BY <2>2, <2>3, OthersStay
  <1>5. CASE MoreTypes
    <2>1. Busy("more") /\ NextToken /\ Then(<<Do("typespec", 0), Top>>)
      BY <1>5, Zenon DEF MoreTypes
    <2>2. <<Do("typespec", 0), Top>> \in Seq(Left)
      <3>1. Top \in Left
        BY <2>1 DEF Top, Busy, FlagInv
      <3>2. Do("typespec", 0) \in Left
        BY DEF Do, Left
      <3> QED
        BY <3>1, <3>2
    <2> QED
      BY <2>1, <2>2, OthersStay DEF NextToken, Busy
  <1>6. CASE NoMoreTypes
    <2>1. Busy("more") /\ Then(<<>>) /\ template' = template
      BY <1>6, Zenon DEF NoMoreTypes, vars
    <2> QED
      BY <2>1, TopDone DEF Busy
  <1>7. CASE LowerFlag
    <2>1. stack # <<>> /\ Then(<<>>) /\ template' = FALSE /\ stack \in Seq(Left)
      BY <1>7 DEF LowerFlag, EndOfParsingTemplateContext, Busy, FlagInv
    <2>2. <<>> \in Seq(Left)
      OBVIOUS
    <2> QED
      BY <2>1, <2>2, ThenIs DEF FlagInv, FlagToLower
  <1>8. CASE CloseTemplate
    BY <1>8, TopDone DEF CloseTemplate, NextToken, Busy
  <1> QED
    BY <1>1, <1>2, <1>3, <1>4, <1>5, <1>6, <1>7, <1>8, Zenon DEF PNext

(***************************************************************************)
(* After a type, of any text and any number of lists inside one another,   *)
(* the template flag is down: the lexer reads >> as a shift again.         *)
(***************************************************************************)
THEOREM FlagIsLowered == PSpec => [](outcome = "accepted" => ~template)
  <1> DEFINE Ok == outcome = "accepted" => ~template
             Done == outcome = "accepted" => stack = <<>>
  <1>1. PInit => FlagInv /\ Done
    BY DEF PInit, Init, FlagInv, FlagToLower, Do, Left
  <1>2. Done /\ [PNext]_<<vars, pvars>> => Done'
    <2>1. CASE MoreTypes \/ NoMoreTypes
      BY <2>1, Zenon DEF MoreTypes, NoMoreTypes, Busy
    <2> QED
      BY <2>1 DEF PNext, Begin, ParsePtrspec, ParseNamespec, ParseBasespec, ParseTemplatespec,
              LowerFlag, CloseTemplate, SyntaxError, Return, Ended, Busy, vars, pvars
  <1>3. FlagInv /\ Done => Ok
    BY DEF FlagInv, FlagToLower
  <1>4. FlagInv /\ IInv /\ IInv' /\ [PNext]_<<vars, pvars>> => FlagInv'
    BY FlagStep
  <1>5. PSpec => []IInv
    BY ParserDrivesLexer, IInvHolds, PTL
  <1> QED
    BY <1>1, <1>2, <1>3, <1>4, <1>5, PTL DEF PSpec
-----------------------------------------------------------------------------
\* The kinds of the tokens that a type is made of, and no test changes a kind to.
Plain == {"*", ",", "<", ">", "name"}

NotPlain(tests) == \A i \in 1..Len(tests) : tests[i].kind \notin Plain

LEMMA TestsNotPlain ==
    ASSUME NEW c, NEW flag \in BOOLEAN
    PROVE  NotPlain(Tests(c, flag))
  <1> DEFINE Other(x) == x.kind \notin Plain
  <1>0. /\ "++" \notin Plain /\ "+=" \notin Plain /\ "--" \notin Plain /\ "-=" \notin Plain
        /\ "->" \notin Plain /\ "&&" \notin Plain /\ "&=" \notin Plain /\ "||" \notin Plain
        /\ "|=" \notin Plain /\ "=>" \notin Plain /\ "!=" \notin Plain /\ "^=" \notin Plain
        /\ "%=" \notin Plain /\ "*=" \notin Plain /\ "/=" \notin Plain /\ "::" \notin Plain
        /\ "<=" \notin Plain /\ "<<" \notin Plain /\ "<<=" \notin Plain /\ ">=" \notin Plain
        /\ ">>" \notin Plain /\ ">>=" \notin Plain
    BY Zenon DEF Plain
  <1>1. \A on, kind : kind \notin Plain => Other(Peek(on, kind)) /\ Other(Test(on, kind))
    BY DEF Peek, Test
  <1>2. \A k, on, kind : kind \notin Plain => Other(After(k, on, kind))
    BY DEF After
  <1>3. NotPlain(<<>>)
    BY DEF NotPlain
  <1>4. \A x : Other(x) => NotPlain(<<x>>)
    BY DEF NotPlain
  <1>5. \A x, y : Other(x) /\ Other(y) => NotPlain(<<x, y>>)
    BY DEF NotPlain
  <1>6. \A x, y, z : Other(x) /\ Other(y) /\ Other(z) => NotPlain(<<x, y, z>>)
    BY DEF NotPlain
  <1> HIDE DEF Other
  <1>7. c = ">" => NotPlain(Tests(c, flag))
    BY <1>0, <1>1, <1>2, <1>4, <1>6 DEF Tests
  <1> QED
    BY <1>0, <1>1, <1>2, <1>3, <1>4, <1>5, <1>6, <1>7 DEF Tests

\* No test has changed the kind, or it is not a plain one any more.
Alike(k, n, c, m) == (k = c /\ n = m) \/ k \notin Plain

LEMMA TriedPlain ==
    ASSUME NEW t, NEW tests, NEW k, NEW n, NEW i \in 1..3, Len(tests) \in Nat, NotPlain(tests),
           NEW c, NEW m, Alike(k, n, c, m), NEW l, NEW o, Tried(t, tests, k, n, i) = Rec(l, o)
    PROVE  Alike(l, o, c, m)
  <1>1. CASE Fires(t, tests, k, n, i)
    <2>1. i \in 1..Len(tests)
      <3>1. i <= Len(tests)
        BY <1>1 DEF Fires
      <3> QED
        BY <3>1
    <2>2. Rec(l, o) = Rec(tests[i].kind, n + tests[i].by)
      BY <1>1 DEF Tried
    <2>3. l = tests[i].kind
      BY <2>2, RecIs
    <2> QED
      BY <2>1, <2>3 DEF NotPlain, Alike
  <1>2. CASE ~Fires(t, tests, k, n, i)
    <2>1. Rec(l, o) = Rec(k, n)
      BY <1>2 DEF Tried
    <2>2. l = k /\ o = n
      BY <2>1, RecIs
    <2> QED
      BY <2>2
  <1> QED
    BY <1>1, <1>2

LEMMA PunctuationPlain ==
    ASSUME NEW t, NEW p \in Nat, NEW flag \in BOOLEAN
    PROVE  Alike(Punctuation(t, p, flag).kind, Punctuation(t, p, flag).to, t[p], p + 1)
  <1> DEFINE tests == Tests(t[p], flag)
  <1>1. Fit(tests) /\ Len(tests) \in Nat /\ NotPlain(tests)
    BY TestsFit, TestsNotPlain DEF Fit
  <1> HIDE DEF tests
  <1>2. PICK k1, n1 : Tried(t, tests, t[p], p + 1, 1) = Rec(k1, n1) /\ n1 \in Nat
    BY <1>1, TriedIs
  <1>3. PICK k2, n2 : Tried(t, tests, k1, n1, 2) = Rec(k2, n2) /\ n2 \in Nat
    BY <1>1, <1>2, TriedIs
  <1>4. PICK k3, n3 : Tried(t, tests, k2, n2, 3) = Rec(k3, n3) /\ n3 \in Nat
    BY <1>1, <1>3, TriedIs
  <1>5. Punctuation(t, p, flag) = IF Dots(t, p) THEN Rec("...", p + 3) ELSE Rec(k3, n3)
    BY <1>2, <1>3, <1>4, PunctuationSteps DEF tests
  <1>6. Alike(k1, n1, t[p], p + 1)
    BY <1>1, <1>2, TriedPlain DEF Alike
  <1>7. Alike(k2, n2, t[p], p + 1)
    BY <1>1, <1>3, <1>6, TriedPlain
  <1>8. Alike(k3, n3, t[p], p + 1)
    BY <1>1, <1>4, <1>7, TriedPlain
  <1>9. "..." \notin Plain
    BY Zenon DEF Plain
  <1>10. \A k, n : Rec(k, n).kind = k /\ Rec(k, n).to = n
    BY DEF Rec
  <1>11. CASE Dots(t, p)
    BY <1>5, <1>9, <1>10, <1>11 DEF Alike
  <1>12. CASE ~Dots(t, p)
    <2>1. Punctuation(t, p, flag) = Rec(k3, n3)
      BY <1>5, <1>12
    <2>2. Punctuation(t, p, flag).kind = k3 /\ Punctuation(t, p, flag).to = n3
      BY <2>1, <1>10
    <2> QED
      BY <1>8, <2>2
  <1> QED
    BY <1>11, <1>12

\* The characters of a token of a type.
Spelled(t, tok) ==
    \/ tok.kind = "name" /\ \A i \in tok.from..tok.to - 1 : At(t, i) \in Letters \cup Decimal
    \/ tok.kind \in Plain /\ tok.to = tok.from + 1 /\ At(t, tok.from) = tok.kind

(***************************************************************************)
(* A token begins where the blanks and the comments end, and one that a    *)
(* type is made of is a name or a single character.                        *)
(***************************************************************************)
LEMMA PlainToken ==
    ASSUME NEW t \in Seq(STRING), NEW p \in 1..Eof(t), NEW flag \in BOOLEAN, NEW tok,
           tok = LexNextToken(t, p, flag)
    PROVE  /\ tok.from = SkipWhiteSpaces(t, p)
           /\ tok.kind # "eof" => At(t, tok.from) # "NUL"
           /\ tok.kind \in Plain => Spelled(t, tok)
  <1> DEFINE b     == SkipWhiteSpaces(t, p)
             c     == At(t, b)
             point == c = "." /\ At(t, b + 1) \in Decimal
             op    == Punctuation(t, b, flag)
  <1>1. LexedAs(t, b, flag, tok)
    BY LexIs
  <1>2. b \in 1..Eof(t) /\ Eof(t) \in Nat
    <2>1. b \in p..Eof(t) /\ Eof(t) \in Nat
      BY SkipIs DEF Eof
    <2> QED
      BY <2>1
  <1>3. tok.from = b
    <2>1. \A kind, from, scan, again : Token(kind, from, scan, again).from = from
      BY DEF Token
    <2> DEFINE digits == Span(t, b, Decimal)
    <2>2. tok = CASE c = "NUL"      -> Token("eof", b, Ends(b), 0)
                  [] c \in Letters  -> Token("name", b, Ends(Span(t, b, Letters \cup Decimal)), 0)
                  [] c = DoubleQuote -> Token("dqstring", b, ScanString(t, b), 0)
                  [] c = "'"        -> Token("sqstring", b, ScanString(t, b), 0)
                  [] c \in Decimal  -> IF At(t, digits) = "."
                                       THEN Token("float", b, ScanFloat(t, b), digits - b)
                                       ELSE Token("int", b, ScanInteger(t, b), digits - b)
                  [] point          -> Token("float", b, ScanFloat(t, b), 1)
                  [] c \in Alone \cup Longer /\ ~point -> Token(op.kind, b, Ends(op.to), 0)
                  [] OTHER          -> Token("eof", b, Exits(b), 0)
      BY DEF LexNextToken
    <2> HIDE DEF b, c, point, op, digits
    <2> QED
      BY <2>1, <2>2
  <1>4. c = "NUL" => tok.kind = "eof"
    BY <1>1 DEF LexedAs
  <1>5. ASSUME c \in Letters PROVE Spelled(t, tok)
    <2>1. tok = Token("name", b, Ends(Span(t, b, Letters \cup Decimal)), 0)
      BY <1>1, <1>5 DEF LexedAs
    <2>2. tok.kind = "name" /\ tok.to = Span(t, b, Letters \cup Decimal)
      BY <2>1 DEF Token, Ends
    <2>3. \A i \in b..Span(t, b, Letters \cup Decimal) - 1 : At(t, i) \in Letters \cup Decimal
      BY <1>2, Apart, SpanIs
    <2> QED
      BY <1>3, <2>2, <2>3 DEF Spelled
  <1>6. ASSUME c \in Alone \cup Longer, ~point, tok.kind \in Plain PROVE Spelled(t, tok)
    <2>1. tok = Token(op.kind, b, Ends(op.to), 0)
      BY <1>1, <1>6 DEF LexedAs
    <2>2. tok.kind = op.kind /\ tok.to = op.to
      BY <2>1 DEF Token, Ends
    <2>3. Alike(op.kind, op.to, t[b], b + 1)
      BY <1>2, PunctuationPlain
    <2>4. op.kind = t[b] /\ op.to = b + 1
      BY <1>6, <2>2, <2>3 DEF Alike
    <2>5. c # "NUL"
      BY <1>6, Kinds
    <2>6. c = t[b]
      BY <1>2, <2>5 DEF At
    <2> QED
      BY <1>3, <1>6, <2>2, <2>4, <2>6 DEF Spelled
  <1>7. /\ "dqstring" \notin Plain /\ "sqstring" \notin Plain /\ "float" \notin Plain
        /\ "int" \notin Plain /\ "eof" \notin Plain
    BY Zenon DEF Plain
  <1>8. \A scan, again :
           /\ Token("dqstring", b, scan, again).kind \notin Plain
           /\ Token("sqstring", b, scan, again).kind \notin Plain
           /\ Token("float", b, scan, again).kind \notin Plain
           /\ Token("int", b, scan, again).kind \notin Plain
    BY <1>7 DEF Token
  <1>9. ASSUME tok.kind \in Plain PROVE Spelled(t, tok)
    <2>1. c # DoubleQuote /\ c # "'" /\ c \notin Decimal /\ ~point
      BY <1>1, <1>8, <1>9 DEF LexedAs
    <2>2. c \in Letters \cup Alone \cup Longer
      <3> SUFFICES ASSUME c \notin Letters \cup Alone \cup Longer PROVE FALSE
        OBVIOUS
      <3>1. c \notin Letters \cup Decimal \cup {DoubleQuote, "'"} \cup Alone \cup Longer
        BY <2>1
      <3>2. tok.kind = "eof"
        BY <1>1, <3>1 DEF LexedAs
      <3> QED
        BY <1>7, <1>9, <3>2
    <2> QED
      BY <1>5, <1>6, <1>9, <2>1, <2>2
  <1> QED
    BY <1>3, <1>4, <1>9

\* What it is to be among the brackets before a place.
LEMMA BracketsAre ==
    ASSUME NEW t \in Seq(STRING), NEW b \in {"<", ">"}, NEW p \in 1..Eof(t), NEW i
    PROVE  i \in Brackets(t, b, p) <=> i \in 1..p - 1 /\ At(t, i) = b /\ ~Blank(t, i)
  <1>1. i \in 1..p - 1 => At(t, i) = t[i]
    BY DEF At, Eof
  <1> QED
    BY <1>1 DEF Brackets

(***************************************************************************)
(* A character that begins a token is in no comment, when the comments     *)
(* before it have ended.                                                   *)
(***************************************************************************)
LEMMA TokenNotBlank ==
    ASSUME NEW t \in Seq(STRING), NEW p \in 1..Eof(t), At(t, p) \in {"<", ">"}, CommentsEnd(t, 1, p)
    PROVE  ~Blank(t, p)
  <1>1. p \in 1..Len(t) /\ At(t, p) = t[p]
    <2>1. "NUL" \notin {"<", ">"}
      BY Zenon
    <2>2. p \in 1..Len(t)
      BY <2>1, Within
    <2> QED
      BY <2>2 DEF At
  <1>2. At(t, p) \notin White /\ At(t, p) # "/" /\ At(t, p) # "NUL"
    BY Zenon DEF White
  <1> SUFFICES ASSUME NEW j \in 1..p, t[j] = "/", \A k \in j..p : t[k] \notin {"\r", "\n"}
               PROVE  FALSE
    BY <1>1, <1>2 DEF Blank
  <1>3. j \in 1..p - 1 /\ At(t, j) = "/"
    BY <1>1, <1>2 DEF At
  <1>4. PICK k \in j..p - 1 : At(t, k) \in {"\r", "\n"}
    BY <1>2, <1>3 DEF CommentsEnd
  <1>5. k \in j..p /\ At(t, k) = t[k]
    BY <1>1, <1>3, <1>4 DEF At
  <1> QED
    BY <1>4, <1>5

(***************************************************************************)
(* Reading on past a token of a type adds it to the brackets read, when it *)
(* is one, and nothing else.                                               *)
(***************************************************************************)
\* The token nxt was read on past tok.
Onward(t, tok, nxt) ==
    /\ CommentsEnd(t, 1, nxt.from)
    /\ tok.from \in Nat /\ nxt.from \in Nat /\ tok.from < nxt.from
    /\ \A b \in {"<", ">"} :
         Brackets(t, b, nxt.from) =
           Brackets(t, b, tok.from) \cup (IF tok.kind = b THEN {tok.from} ELSE {})

LEMMA TokenOn ==
    ASSUME NEW t \in Seq(STRING), NEW q \in 1..Eof(t), NEW f1 \in BOOLEAN, NEW tok,
           tok = LexNextToken(t, q, f1), tok.kind \in Plain, tok.to \in 1..Eof(t),
           CommentsEnd(t, 1, tok.from), NEW f2 \in BOOLEAN, NEW nxt,
           nxt = LexNextToken(t, tok.to, f2)
    PROVE  Onward(t, tok, nxt)
  <1>0. Eof(t) \in Nat
    BY DEF Eof
  <1>1. Read(t, q, tok) /\ Read(t, tok.to, nxt)
    BY LexNextTokenIs
  <1>2. "eof" \notin Plain
    BY Zenon DEF Plain
  <1>3. /\ tok.from \in 1..Eof(t) /\ tok.to > tok.from
        /\ nxt.from \in tok.to..Eof(t)
        /\ \A i \in tok.to..nxt.from - 1 : Blank(t, i)
    BY <1>0, <1>1, <1>2 DEF Read
  <1>4. Spelled(t, tok) /\ At(t, tok.from) # "NUL"
    BY <1>2, PlainToken
  <1>5. /\ nxt.from = SkipWhiteSpaces(t, tok.to)
        /\ CommentsEnd(t, tok.to, nxt.from)
    BY SkipIs, PlainToken
  <1>6. \A c \in Letters \cup Decimal : c # "/" /\ c # "<" /\ c # ">"
    BY Zenon DEF Letters, Decimal
  <1>7. \A c \in Plain : c # "/"
    BY Zenon DEF Plain
  <1>8. \A i \in tok.from..tok.to - 1 : At(t, i) # "/"
    BY <1>3, <1>4, <1>6, <1>7 DEF Spelled
  <1>9. CommentsEnd(t, 1, nxt.from)
    <2> SUFFICES ASSUME At(t, nxt.from) # "NUL", NEW j \in 1..nxt.from - 1, At(t, j) = "/"
                 PROVE  \E k \in j..nxt.from - 1 : At(t, k) \in {"\r", "\n"}
      BY DEF CommentsEnd
    <2>1. CASE j \in 1..tok.from - 1
      <3>1. PICK k \in j..tok.from - 1 : At(t, k) \in {"\r", "\n"}
        BY <1>4, <2>1 DEF CommentsEnd
      <3> QED
        BY <1>3, <3>1
    <2>2. CASE j \in tok.from..tok.to - 1
      BY <1>8, <2>2
    <2>3. CASE j \in tok.to..nxt.from - 1
      BY <1>5, <2>3 DEF CommentsEnd
    <2> QED
      BY <1>0, <1>3, <2>1, <2>2, <2>3
  <1>10. ASSUME NEW b \in {"<", ">"}, NEW i
         PROVE  i \in Brackets(t, b, nxt.from) <=>
                  i \in Brackets(t, b, tok.from) \/ (i = tok.from /\ tok.kind = b)
    <2>1. /\ i \in Brackets(t, b, nxt.from) <=> i \in 1..nxt.from - 1 /\ At(t, i) = b /\ ~Blank(t, i)
          /\ i \in Brackets(t, b, tok.from) <=> i \in 1..tok.from - 1 /\ At(t, i) = b /\ ~Blank(t, i)
      BY <1>0, <1>3, BracketsAre
    <2>2. i \in 1..nxt.from - 1 <=>
            i \in 1..tok.from - 1 \/ i \in tok.from..tok.to - 1 \/ i \in tok.to..nxt.from - 1
      BY <1>0, <1>3
    <2>3. i \in tok.to..nxt.from - 1 => Blank(t, i)
      BY <1>3
    <2>4. i \in tok.from..tok.to - 1 /\ At(t, i) = b => i = tok.from /\ tok.kind = b
      BY <1>0, <1>3, <1>4, <1>6 DEF Spelled
    <2>5. i = tok.from /\ tok.kind = b => /\ At(t, i) = b /\ ~Blank(t, i)
                                          /\ i \in tok.from..tok.to - 1
      <3> SUFFICES ASSUME i = tok.from, tok.kind = b
                   PROVE  At(t, i) = b /\ ~Blank(t, i) /\ i \in tok.from..tok.to - 1
        OBVIOUS
      <3>1. b # "name"
        BY Zenon
      <3>2. At(t, i) = b
        BY <1>4, <3>1 DEF Spelled
      <3> QED
        BY <1>0, <1>3, <3>2, TokenNotBlank
    <2> QED
      BY <2>1, <2>2, <2>3, <2>4, <2>5
  <1>11. tok.from \in Nat /\ nxt.from \in Nat /\ tok.from < nxt.from
    BY <1>0, <1>3
  <1>12. \A b \in {"<", ">"} :
           Brackets(t, b, nxt.from) =
             Brackets(t, b, tok.from) \cup (IF tok.kind = b THEN {tok.from} ELSE {})
    BY <1>10
  <1> QED
    BY <1>9, <1>11, <1>12 DEF Onward

\* The < whose lists are not closed yet: the innermost is the first on the stack.
Opens(s) == {s[i].at : i \in {j \in 1..Len(s) : s[j].do = "close"}}

Descends(s) ==
    \A i, j \in 1..Len(s) : i < j /\ s[i].do = "close" /\ s[j].do = "close" => s[i].at > s[j].at

\* The templates N, and the lists C to be closed, are those of the < at A and
\* the > at B, and no template built has an open list inside.
Matches(N, C, A, B) ==
    /\ {n[1] : n \in N} \cup C = A /\ {n[2] : n \in N} = B
    /\ \A n \in N : n[1] < n[2]
    /\ \A m, n \in N : m = n \/ Precedes(m, n) \/ Precedes(n, m) \/ Inside(m, n) \/ Inside(n, m)
    /\ \A n \in N, c \in C : n[2] < c \/ c < n[1]

\* What it is to be an open list of the stack.
LEMMA OpensAre ==
    ASSUME NEW s, NEW a
    PROVE  a \in Opens(s) <=> \E i \in 1..Len(s) : s[i].do = "close" /\ s[i].at = a
  BY DEF Opens

(***************************************************************************)
(* What is open on a stack put together from two.                          *)
(***************************************************************************)
LEMMA OpensJoined ==
    ASSUME NEW s \in Seq(Left), NEW r \in Seq(Left)
    PROVE  /\ Opens(s \o r) = Opens(s) \cup Opens(r)
           /\ Descends(s) /\ Descends(r) /\ (\A a \in Opens(s), b \in Opens(r) : a > b)
                => Descends(s \o r)
  <1> DEFINE q == s \o r
  <1>1. /\ Len(q) = Len(s) + Len(r) /\ Len(s) \in Nat /\ Len(r) \in Nat
        /\ \A i \in 1..Len(q) : q[i] = IF i <= Len(s) THEN s[i] ELSE r[i - Len(s)]
    OBVIOUS
  <1> HIDE DEF q
  <1>2. ASSUME NEW i \in 1..Len(s) PROVE i \in 1..Len(q) /\ q[i] = s[i]
    BY <1>1
  <1>3. ASSUME NEW i \in 1..Len(r)
        PROVE  i + Len(s) \in 1..Len(q) /\ q[i + Len(s)] = r[i]
    <2>1. i + Len(s) \in 1..Len(q) /\ ~(i + Len(s) <= Len(s)) /\ (i + Len(s)) - Len(s) = i
      BY <1>1
    <2> QED
      BY <1>1, <2>1
  <1>4. ASSUME NEW i \in 1..Len(q)
        PROVE  \/ i \in 1..Len(s) /\ q[i] = s[i]
               \/ i - Len(s) \in 1..Len(r) /\ q[i] = r[i - Len(s)]
    BY <1>1
  <1>5. ASSUME NEW a PROVE a \in Opens(q) <=> a \in Opens(s) \cup Opens(r)
    <2>1. a \in Opens(s) => a \in Opens(q)
      BY <1>2, OpensAre
    <2>2. ASSUME a \in Opens(r) PROVE a \in Opens(q)
      <3>1. PICK i \in 1..Len(r) : r[i].do = "close" /\ r[i].at = a
        BY <2>2, OpensAre
      <3>2. i + Len(s) \in 1..Len(q) /\ q[i + Len(s)] = r[i]
        BY <1>3
      <3> QED
        BY <3>1, <3>2, OpensAre
    <2>3. a \in Opens(q) => a \in Opens(s) \cup Opens(r)
      BY <1>4, OpensAre
    <2> QED
      BY <2>1, <2>2, <2>3
  <1>6. ASSUME Descends(s), Descends(r), \A a \in Opens(s), b \in Opens(r) : a > b
        PROVE  Descends(q)
    <2> SUFFICES ASSUME NEW i \in 1..Len(q), NEW j \in 1..Len(q), i < j,
                        q[i].do = "close", q[j].do = "close"
                 PROVE  q[i].at > q[j].at
      BY DEF Descends
    <2>1. CASE i \in 1..Len(s) /\ j \in 1..Len(s)
      BY <1>2, <1>6, <2>1 DEF Descends
    <2>2. CASE i \in 1..Len(s) /\ j \notin 1..Len(s)
      <3>1. q[i].at \in Opens(s)
        BY <1>2, <2>2, OpensAre
      <3>2. q[j].at \in Opens(r)
        BY <1>4, <2>2, OpensAre
      <3> QED
        BY <1>6, <3>1, <3>2
    <2>3. CASE i \notin 1..Len(s)
      <3>1. j \notin 1..Len(s)
        BY <1>1, <2>3
      <3>2. /\ i - Len(s) \in 1..Len(r) /\ q[i] = r[i - Len(s)]
            /\ j - Len(s) \in 1..Len(r) /\ q[j] = r[j - Len(s)]
        BY <1>4, <2>3, <3>1
      <3>3. i - Len(s) < j - Len(s)
        BY <1>1
      <3> QED
        BY <1>6, <3>2, <3>3 DEF Descends
    <2> QED
      BY <2>1, <2>2, <2>3
  <1> QED
    BY <1>5, <1>6 DEF q

(***************************************************************************)
(* What is open on a stack is open below its top, but for the list that    *)
(* the top is to close: it is the innermost.                               *)
(***************************************************************************)
LEMMA OpensBelow ==
    ASSUME NEW s \in Seq(Left), s # <<>>, Descends(s)
    PROVE  /\ Tail(s) \in Seq(Left) /\ Descends(Tail(s))
           /\ Head(s).do # "close" => Opens(s) = Opens(Tail(s))
           /\ Head(s).do = "close" => /\ Opens(s) = Opens(Tail(s)) \cup {Head(s).at}
                                      /\ \A a \in Opens(Tail(s)) : Head(s).at > a
  <1> DEFINE r == Tail(s)
  <1>1. /\ r \in Seq(Left) /\ Len(s) \in Nat /\ Len(s) >= 1 /\ Len(r) = Len(s) - 1
        /\ \A i \in 1..Len(r) : r[i] = s[i + 1]
        /\ Head(s) = s[1]
    OBVIOUS
  <1> HIDE DEF r
  <1>2. ASSUME NEW i \in 1..Len(r) PROVE i + 1 \in 1..Len(s) /\ r[i] = s[i + 1] /\ 1 < i + 1
    BY <1>1
  <1>3. ASSUME NEW i \in 1..Len(s)
        PROVE  i = 1 \/ (i - 1 \in 1..Len(r) /\ s[i] = r[i - 1])
    <2>1. i # 1 => i - 1 \in 1..Len(r) /\ (i - 1) + 1 = i
      BY <1>1
    <2> QED
      BY <1>1, <2>1
  <1>4. Descends(r)
    <2> SUFFICES ASSUME NEW i \in 1..Len(r), NEW j \in 1..Len(r), i < j,
                        r[i].do = "close", r[j].do = "close"
                 PROVE  r[i].at > r[j].at
      BY DEF Descends
    <2>1. /\ i + 1 \in 1..Len(s) /\ r[i] = s[i + 1] /\ j + 1 \in 1..Len(s) /\ r[j] = s[j + 1]
          /\ i + 1 < j + 1
      BY <1>2
    <2> QED
      BY <2>1 DEF Descends
  <1>5. 1 \in 1..Len(s)
    BY <1>1
  <1>6. ASSUME NEW a
        PROVE  a \in Opens(s) <=> a \in Opens(r) \/ (s[1].do = "close" /\ a = s[1].at)
    <2>1. a \in Opens(r) => a \in Opens(s)
      BY <1>2, OpensAre
    <2>2. a \in Opens(s) => a \in Opens(r) \/ (s[1].do = "close" /\ a = s[1].at)
      BY <1>3, OpensAre
    <2> QED
      BY <1>5, <2>1, <2>2, OpensAre
  <1>7. ASSUME s[1].do = "close", NEW a \in Opens(r) PROVE s[1].at > a
    <2>1. PICK i \in 1..Len(r) : r[i].do = "close" /\ r[i].at = a
      BY OpensAre
    <2>2. i + 1 \in 1..Len(s) /\ r[i] = s[i + 1] /\ 1 < i + 1
      BY <1>2
    <2> QED
      BY <1>5, <1>7, <2>1, <2>2 DEF Descends
  <1> QED
    BY <1>1, <1>4, <1>6, <1>7 DEF r

(***************************************************************************)
(* A list begun after all that was read is inside what is open.            *)
(***************************************************************************)
LEMMA MatchOpen ==
    ASSUME NEW N, NEW C, NEW A \in SUBSET Nat, NEW B \in SUBSET Nat, Matches(N, C, A, B),
           NEW p \in Nat, \A x \in A \cup B : x < p
    PROVE  Matches(N, C \cup {p}, A \cup {p}, B)
  <1>1. \A n \in N : n[2] < p
    BY DEF Matches
  <1> QED
    BY <1>1 DEF Matches

(***************************************************************************)
(* The innermost open list, closed after all that was read, has no open    *)
(* list inside.                                                            *)
(***************************************************************************)
LEMMA MatchClose ==
    ASSUME NEW N, NEW C, NEW A \in SUBSET Nat, NEW B \in SUBSET Nat, NEW c,
           Matches(N, C \cup {c}, A, B), \A a \in C : c > a,
           NEW p \in Nat, \A x \in A \cup B : x < p
    PROVE  Matches(N \cup {<<c, p>>}, C, A, B \cup {p})
  <1> DEFINE new == <<c, p>>
  <1>1. new[1] = c /\ new[2] = p /\ c < p /\ c \in Nat /\ C \subseteq Nat
    BY DEF Matches
  <1>2. \A n \in N : /\ n[1] \in Nat /\ n[2] \in Nat /\ n[1] < n[2] /\ n[2] < p
                     /\ n[2] < c \/ c < n[1]
    BY DEF Matches
  <1> HIDE DEF new
  <1>3. {n[1] : n \in N \cup {new}} \cup C = A /\ {n[2] : n \in N \cup {new}} = B \cup {p}
    <2>1. {n[1] : n \in N} \cup C \cup {c} = A /\ {n[2] : n \in N} = B
      BY DEF Matches
    <2>2. /\ {n[1] : n \in N \cup {new}} = {n[1] : n \in N} \cup {c}
          /\ {n[2] : n \in N \cup {new}} = {n[2] : n \in N} \cup {p}
      BY <1>1
    <2> QED
      BY <2>1, <2>2
  <1>4. \A n \in N : Precedes(n, new) \/ Inside(n, new)
    BY <1>1, <1>2 DEF Precedes, Inside
  <1>5. \A m, n \in N \cup {new} :
          m = n \/ Precedes(m, n) \/ Precedes(n, m) \/ Inside(m, n) \/ Inside(n, m)
    BY <1>4 DEF Matches
  <1>6. \A n \in N \cup {new}, a \in C : n[2] < a \/ a < n[1]
    BY <1>1 DEF Matches
  <1>7. \A n \in N \cup {new} : n[1] < n[2]
    BY <1>1, <1>2
  <1>8. Matches(N \cup {new}, C, A, B \cup {p})
    BY <1>3, <1>5, <1>6, <1>7 DEF Matches
  <1> QED
    BY <1>8 DEF new

\* The parser of types so far: the lists left to be closed and the templates
\* built account for the < and the > before the current token.
Matched ==
    /\ Matches(nodes, Opens(stack), Brackets(text, "<", token.from),
               Brackets(text, ">", token.from))
    /\ Descends(stack)
    /\ CommentsEnd(text, 1, token.from)

\* The brackets before a place are before it.
LEMMA BracketsBelow ==
    ASSUME NEW t, NEW b, NEW p \in Nat
    PROVE  Brackets(t, b, p) \in SUBSET Nat /\ \A x \in Brackets(t, b, p) : x < p
  BY DEF Brackets

(***************************************************************************)
(* What was read of the type when the lexer goes on to its next token.     *)
(***************************************************************************)
LEMMA ReadOn ==
    ASSUME IInv, Current, Matched, token.kind \in Plain, status = "lexing",
           Lexed(LexNextToken(text, pos, template)), text' = text
    PROVE  /\ CommentsEnd(text', 1, token'.from)
           /\ token.from \in Nat
           /\ \A b \in {"<", ">"} :
                Brackets(text', b, token'.from) =
                  Brackets(text, b, token.from) \cup (IF token.kind = b THEN {token.from} ELSE {})
  <1>1. text \in Seq(STRING) /\ template \in BOOLEAN /\ pos \in 1..Eof(text) /\ token.to = pos
    BY DEF IInv, TypeOK, StaysInside, Placed, Eof
  <1>2. PICK q \in 1..Eof(text), f \in BOOLEAN : token = LexNextToken(text, q, f)
    BY DEF Current
  <1>3. token' = LexNextToken(text, pos, template)
    BY DEF Lexed
  <1>4. CommentsEnd(text, 1, token.from)
    BY DEF Matched
  <1>5. token.to \in 1..Eof(text) /\ token' = LexNextToken(text, token.to, template)
    BY <1>1, <1>3
  <1>6. Onward(text, token, token')
    BY <1>1, <1>2, <1>4, <1>5, TokenOn
  <1> QED
    BY <1>6 DEF Onward

\* The stack changed, the lists that are open did not.
Kept == Opens(stack') = Opens(stack) /\ Descends(stack')

\* Something without a list to close, in the place of the top, keeps the open lists.
LEMMA ThenKeeps ==
    ASSUME stack \in Seq(Left), stack # <<>>, Descends(stack), Top.do # "close",
           NEW s \in Seq(Left), Opens(s) = {}, Then(s)
    PROVE  Kept
  <1>1. /\ Tail(stack) \in Seq(Left) /\ Descends(Tail(stack))
        /\ Opens(stack) = Opens(Tail(stack))
    BY OpensBelow DEF Top
  <1>2. stack' = s \o Tail(stack)
    BY DEF Then
  <1>3. Descends(s)
    <2> SUFFICES ASSUME NEW i \in 1..Len(s), s[i].do = "close" PROVE FALSE
      BY DEF Descends
    <2> QED
      BY OpensAre
  <1>4. \A a \in Opens(s), b \in Opens(Tail(stack)) : a > b
    OBVIOUS
  <1>5. Opens(s \o Tail(stack)) = Opens(s) \cup Opens(Tail(stack)) /\ Descends(s \o Tail(stack))
    BY <1>1, <1>3, <1>4, OpensJoined
  <1> QED
    BY <1>1, <1>2, <1>5 DEF Kept

(***************************************************************************)
(* A step that reads no bracket changes nothing.                           *)
(***************************************************************************)
LEMMA StepKeeps ==
    ASSUME Matched, Kept, nodes' = nodes, UNCHANGED <<text, token>>
    PROVE  Matched'
  BY DEF Matched, Kept

\* A token that is no bracket is read, and the open lists stay.
LEMMA ReadKeeps ==
    ASSUME IInv, Current, Matched, Kept, nodes' = nodes, NextToken,
           token.kind \in Plain \ {"<", ">"}
    PROVE  Matched'
  <1>1. status = "lexing" /\ Lexed(LexNextToken(text, pos, template)) /\ text' = text
    BY DEF NextToken
  <1>2. /\ CommentsEnd(text', 1, token'.from)
        /\ Brackets(text', "<", token'.from) = Brackets(text, "<", token.from)
        /\ Brackets(text', ">", token'.from) = Brackets(text, ">", token.from)
    BY <1>1, ReadOn
  <1> QED
    BY <1>2 DEF Matched, Kept

\* The entries put on the stack that close no list
LEMMA NoneClose ==
    /\ Opens(<<>>) = {}
    /\ \A x : x.do # "close" => Opens(<<x>>) = {}
    /\ \A x, y : x.do # "close" /\ y.do # "close" => Opens(<<x, y>>) = {}
    /\ \A x, y, z : x.do # "close" /\ y.do # "close" /\ z.do # "close" => Opens(<<x, y, z>>) = {}
  BY OpensAre

\* The end of one list, alone on a stack.
LEMMA OneCloses ==
    ASSUME NEW x \in Left, x.do = "close"
    PROVE  Opens(<<x>>) = {x.at} /\ Descends(<<x>>)
  <1>1. \A a : a \in Opens(<<x>>) <=> a = x.at
    BY OpensAre
  <1> QED
    BY <1>1 DEF Descends

(***************************************************************************)
(* The list of a template is the innermost one that is open.               *)
(***************************************************************************)
LEMMA ListsAre ==
    ASSUME NEW at \in Nat, NEW empty \in BOOLEAN
    PROVE  /\ Lists(at, empty) \in Seq(Left)
           /\ Opens(Lists(at, empty)) = {at} /\ Descends(Lists(at, empty))
  <1> DEFINE list == <<Do("typespec", 0), Do("more", at), Do("lower", at)>>
             last == <<Do("close", at)>>
             head == IF empty THEN <<>> ELSE list
  <1>1. /\ Do("typespec", 0) \in Left /\ Do("more", at) \in Left
        /\ Do("lower", at) \in Left /\ Do("close", at) \in Left
        /\ Do("typespec", 0).do # "close" /\ Do("more", at).do # "close"
        /\ Do("lower", at).do # "close" /\ Do("close", at).do = "close" /\ Do("close", at).at = at
    BY DEF Do, Left
  <1>2. list \in Seq(Left) /\ last \in Seq(Left) /\ <<>> \in Seq(Left)
    BY <1>1
  <1>3. Opens(list) = {} /\ Opens(<<>>) = {} /\ Opens(last) = {at} /\ Descends(last)
    BY <1>1, NoneClose, OneCloses
  <1>4. Lists(at, empty) = head \o last
    BY DEF Lists
  <1> HIDE DEF list, last
  <1>5. head \in Seq(Left) /\ Opens(head) = {}
    BY <1>2, <1>3
  <1> HIDE DEF head
  <1>6. Descends(head)
    <2> SUFFICES ASSUME NEW i \in 1..Len(head), head[i].do = "close" PROVE FALSE
      BY DEF Descends
    <2> QED
      BY <1>5, OpensAre
  <1>7. Opens(head \o last) = {at} /\ Descends(head \o last) /\ head \o last \in Seq(Left)
    BY <1>2, <1>3, <1>5, <1>6, OpensJoined, Joined
  <1> QED
    BY <1>4, <1>7

(***************************************************************************)
(* Every step of the parser keeps account of what it read.                 *)
(***************************************************************************)
LEMMA MatchedStep ==
    ASSUME IInv, Current, FlagInv, Matched, [PNext]_<<vars, pvars>>
    PROVE  Matched'
  <1>0. stack \in Seq(Left) /\ Descends(stack)
    BY DEF FlagInv, Matched
  <1>1. CASE Begin \/ SyntaxError \/ Return \/ Ended \/ UNCHANGED <<vars, pvars>>
    <2>1. UNCHANGED <<text, token, stack, nodes>>
      BY <1>1 DEF Begin, SetContextPath, SyntaxError, Return, Ended, vars, pvars
    <2> QED
      BY <1>0, <2>1, StepKeeps DEF Kept
  <1>2. CASE ParsePtrspec
    <2>1. NextToken /\ token.kind \in Plain \ {"<", ">"} /\ UNCHANGED <<stack, nodes>>
      <3>1. NextToken /\ token.kind = "*" /\ UNCHANGED <<stack, nodes>>
        BY <1>2 DEF ParsePtrspec, pvars
      <3>2. "*" \in Plain \ {"<", ">"}
        BY Zenon DEF Plain
      <3> QED
        BY <3>1, <3>2
    <2> QED
      BY <1>0, <2>1, ReadKeeps DEF Kept
  <1>3. CASE ParseNamespec
    <2>1. /\ NextToken /\ token.kind = "name" /\ Then(<<Do("template", 0)>>) /\ nodes' = nodes
          /\ stack # <<>> /\ Top.do # "close"
      BY <1>3 DEF ParseNamespec, Busy
    <2>2. "name" \in Plain \ {"<", ">"}
      BY Zenon DEF Plain
    <2>3. <<Do("template", 0)>> \in Seq(Left) /\ Do("template", 0).do # "close"
      BY DEF Do, Left
    <2>4. Kept
      BY <1>0, <2>1, <2>3, NoneClose, ThenKeeps
    <2> QED
      BY <2>1, <2>2, <2>4, ReadKeeps
  <1>4. CASE ParseBasespec \/ NoMoreTypes \/ LowerFlag
    <2>1. /\ stack # <<>> /\ Top.do # "close" /\ Then(<<>>)
          /\ UNCHANGED <<text, token, nodes>>
      <3>1. CASE ParseBasespec
        BY <3>1 DEF ParseBasespec, Busy, vars
      <3>2. CASE NoMoreTypes
        <4>1. Busy("more") /\ Then(<<>>) /\ UNCHANGED <<vars, nodes>>
          BY <3>2, Zenon DEF NoMoreTypes
        <4> QED
          BY <4>1 DEF Busy, vars
      <3>3. CASE LowerFlag
        BY <3>3 DEF LowerFlag, EndOfParsingTemplateContext, Busy
      <3> QED
        BY <1>4, <3>1, <3>2, <3>3
    <2>2. <<>> \in Seq(Left)
      OBVIOUS
    <2>3. Kept
      BY <1>0, <2>1, <2>2, NoneClose, ThenKeeps
    <2> QED
      BY <2>1, <2>3, StepKeeps
  <1>5. CASE MoreTypes
    <2>1. /\ Busy("more") /\ NextToken /\ Then(<<Do("typespec", 0), Top>>) /\ nodes' = nodes
          /\ token.kind \in Plain \ {"<", ">"}
      BY <1>5, Zenon DEF MoreTypes, Plain
    <2>2. stack # <<>> /\ Top.do = "more" /\ Top \in Left
      BY <1>0, <2>1 DEF Busy, Top
    <2>3. Do("typespec", 0) \in Left /\ Do("typespec", 0).do # "close"
      BY DEF Do, Left
    <2>4. <<Do("typespec", 0), Top>> \in Seq(Left) /\ Opens(<<Do("typespec", 0), Top>>) = {}
      BY <2>2, <2>3, NoneClose
    <2>5. Kept
      BY <1>0, <2>1, <2>2, <2>4, ThenKeeps
    <2> QED
      BY <2>1, <2>5, ReadKeeps
  <1>6. CASE ParseTemplatespec
    <2>1. /\ stack # <<>> /\ Top.do = "template" /\ token.kind = "<" /\ status = "lexing"
          /\ Lexed(LexNextToken(text, pos, template)) /\ text' = text /\ nodes' = nodes
          /\ Then(Lists(token.from, token'.kind = ">"))
      BY <1>6 DEF ParseTemplatespec, ParsingTemplateContext, Busy, CheckTemplate
    <2>2. "<" \in Plain /\ "<" # ">"
      BY Zenon DEF Plain
    <2> DEFINE p == token.from
               A == Brackets(text, "<", p)
               B == Brackets(text, ">", p)
               s == Lists(p, token'.kind = ">")
    <2>3. /\ CommentsEnd(text', 1, token'.from) /\ p \in Nat
          /\ Brackets(text', "<", token'.from) = A \cup {p}
          /\ Brackets(text', ">", token'.from) = B
      BY <2>1, <2>2, ReadOn
    <2>4. A \in SUBSET Nat /\ B \in SUBSET Nat /\ \A x \in A \cup B : x < p
      BY <2>3, BracketsBelow
    <2>5. Matches(nodes, Opens(stack), A, B)
      BY DEF Matched
    <2>6. Opens(stack) \subseteq A
      BY <2>5 DEF Matches
    <2>7. s \in Seq(Left) /\ Opens(s) = {p} /\ Descends(s)
      BY <2>3, ListsAre
    <2>8. /\ Tail(stack) \in Seq(Left) /\ Descends(Tail(stack))
          /\ Opens(stack) = Opens(Tail(stack))
      BY <1>0, <2>1, OpensBelow DEF Top
    <2> HIDE DEF A, B, s, p
    <2>9. \A a \in Opens(s), b \in Opens(Tail(stack)) : a > b
      BY <2>3, <2>4, <2>6, <2>7, <2>8
    <2>10. Opens(stack') = Opens(stack) \cup {p} /\ Descends(stack')
      <3>1. stack' = s \o Tail(stack)
        BY <2>1 DEF Then, s, p
      <3>2. Opens(s \o Tail(stack)) = Opens(s) \cup Opens(Tail(stack)) /\ Descends(s \o Tail(stack))
        BY <2>7, <2>8, <2>9, OpensJoined
      <3> QED
        BY <2>7, <2>8, <3>1, <3>2
    <2>11. Matches(nodes, Opens(stack) \cup {p}, A \cup {p}, B)
      BY <2>3, <2>4, <2>5, MatchOpen
    <2> QED
      BY <2>1, <2>3, <2>10, <2>11 DEF Matched
  <1>7. CASE CloseTemplate
    <2>1. /\ stack # <<>> /\ Top.do = "close" /\ token.kind = ">" /\ NextToken /\ Then(<<>>)
          /\ nodes' = nodes \cup {<<Top.at, token.from>>}
      BY <1>7 DEF CloseTemplate, Busy
    <2>2. ">" \in Plain /\ "<" # ">"
      BY Zenon DEF Plain
    <2> DEFINE p == token.from
               c == Top.at
               A == Brackets(text, "<", p)
               B == Brackets(text, ">", p)
               C == Opens(Tail(stack))
    <2>3. /\ CommentsEnd(text', 1, token'.from) /\ p \in Nat
          /\ Brackets(text', "<", token'.from) = A
          /\ Brackets(text', ">", token'.from) = B \cup {p}
      BY <2>1, <2>2, ReadOn DEF NextToken
    <2>4. A \in SUBSET Nat /\ B \in SUBSET Nat /\ \A x \in A \cup B : x < p
      BY <2>3, BracketsBelow
    <2>5. Matches(nodes, Opens(stack), A, B)
      BY DEF Matched
    <2>6. /\ Tail(stack) \in Seq(Left) /\ Descends(Tail(stack))
          /\ Opens(stack) = C \cup {c} /\ \A a \in C : c > a
      BY <1>0, <2>1, OpensBelow DEF Top
    <2>7. stack' = Tail(stack)
      BY <1>0, <2>1, <2>6 DEF Then
    <2> HIDE DEF A, B, C, p, c
    <2>m. Matches(nodes, C \cup {c}, A, B)
      BY <2>5, <2>6
    <2>8. Matches(nodes \cup {<<c, p>>}, C, A, B \cup {p})
      BY <2>3, <2>4, <2>6, <2>m, MatchClose
    <2>9. nodes' = nodes \cup {<<c, p>>} /\ Opens(stack') = C /\ Descends(stack')
      BY <2>1, <2>6, <2>7 DEF C, c, p
    <2> QED
      BY <2>3, <2>8, <2>9 DEF Matched
  <1> QED
    BY <1>1, <1>2, <1>3, <1>4, <1>5, <1>6, <1>7, Zenon DEF PNext

(***************************************************************************)
(* Before the first token there is no bracket.                             *)
(***************************************************************************)
LEMMA MatchedInit == ASSUME PInit PROVE Matched
  <1>1. /\ text \in Seq(STRING) /\ token = LexNextToken(text, 1, FALSE) /\ nodes = {}
        /\ stack = <<Do("typespec", 0)>>
    BY TextsAssumption DEF PInit, Init
  <1>2. 1 \in 1..Eof(text) /\ Eof(text) \in Nat
    BY <1>1 DEF Eof
  <1>3. token.from = SkipWhiteSpaces(text, 1)
    BY <1>1, <1>2, PlainToken
  <1>4. /\ token.from \in 1..Eof(text) /\ \A i \in 1..token.from - 1 : Blank(text, i)
        /\ CommentsEnd(text, 1, token.from)
    BY <1>1, <1>2, <1>3, SkipIs
  <1>5. Brackets(text, "<", token.from) = {} /\ Brackets(text, ">", token.from) = {}
    BY <1>4 DEF Brackets
  <1>6. Do("typespec", 0).do # "close"
    BY DEF Do
  <1>7. Opens(stack) = {}
    BY <1>1, <1>6, NoneClose
  <1>8. Descends(stack)
    <2> SUFFICES ASSUME NEW i \in 1..Len(stack), stack[i].do = "close" PROVE FALSE
      BY DEF Descends
    <2> QED
      BY <1>7, OpensAre
  <1>9. Matches({}, {}, {}, {})
    BY DEF Matches
  <1> QED
    BY <1>1, <1>4, <1>5, <1>7, <1>8, <1>9 DEF Matched

(***************************************************************************)
(* The templates of an accepted type are the ones that were written,       *)
(* whatever the text and however deep the lists: each < that was read has  *)
(* its own >, and the flag is down again.                                  *)
(***************************************************************************)
THEOREM TemplatesReadAsWritten == PSpec => []ReadAsWritten
  <1> DEFINE Done == outcome = "accepted" => stack = <<>>
             Down == outcome = "accepted" => ~template
  <1>0. PInit => Matched
    BY MatchedInit
  <1>1. PInit => FlagInv /\ Done
    BY DEF PInit, Init, FlagInv, FlagToLower, Do, Left
  <1>2. Done /\ [PNext]_<<vars, pvars>> => Done'
    <2>1. CASE MoreTypes \/ NoMoreTypes
      BY <2>1, Zenon DEF MoreTypes, NoMoreTypes, Busy
    <2> QED
      BY <2>1 DEF PNext, Begin, ParsePtrspec, ParseNamespec, ParseBasespec, ParseTemplatespec,
              LowerFlag, CloseTemplate, SyntaxError, Return, Ended, Busy, vars, pvars
  <1>3. FlagInv /\ IInv /\ IInv' /\ [PNext]_<<vars, pvars>> => FlagInv'
    BY FlagStep
  <1>4. IInv /\ Current /\ FlagInv /\ Matched /\ [PNext]_<<vars, pvars>> => Matched'
    BY MatchedStep
  <1>5. PSpec => []IInv /\ []Current
    <2>1. IInv /\ Current /\ [Next]_vars => Current'
      BY CurrentStep
    <2> QED
      BY <2>1, ParserDrivesLexer, IInvHolds, CurrentInit, PTL DEF Spec
  <1>6. Matched /\ Done /\ Down => ReadAsWritten
    <2> SUFFICES ASSUME Matched, outcome = "accepted", stack = <<>>, ~template
                 PROVE  ReadAsWritten
      BY DEF ReadAsWritten
    <2>1. Opens(stack) = {}
      BY NoneClose
    <2>2. Matches(nodes, {}, Brackets(text, "<", token.from), Brackets(text, ">", token.from))
      BY <2>1 DEF Matched
    <2> QED
      BY <2>2 DEF Matches, ReadAsWritten
  <1> QED
    BY <1>0, <1>1, <1>2, <1>3, <1>4, <1>5, <1>6, FlagIsLowered, PTL DEF PSpec

(***************************************************************************)
(* What a well-written type is made of: its characters, and the characters *)
(* that may come after each.                                               *)
(***************************************************************************)

\* The characters of types, and what may come after a name, or after a template.
Comma == ","
Semicolon == ";"
Space == " "
AfterType == {">", Comma, Semicolon}
AfterName == AfterType \cup {"<"}
Signs == {"*", "<"} \cup AfterType

\* Two characters of a well-written type, one after the other.
Adjacent(c, d) ==
    \/ c \in {"*", "<", Comma} /\ d \in {"A", "*"}
    \/ c = "A" /\ d \in AfterName
    \/ c = ">" /\ d \in AfterType \cup {Space}
    \/ c = Space /\ d \in AfterType

\* The parts of WellWritten, by Adjacent.
LEMMA WellWrittenIs ==
    ASSUME NEW t \in Seq(STRING), WellWritten(t)
    PROVE  /\ Len(t) \in Nat /\ Len(t) >= 1 /\ t[1] \in {"A", "*"} /\ t[Len(t)] = Semicolon
           /\ \A i \in 1..Len(t) - 1 : Adjacent(t[i], t[i + 1])
           /\ \A i \in 1..Len(t) : Nesting(t, i) >= IF t[i] = Comma THEN 1 ELSE 0
           /\ Nesting(t, Len(t)) = 0
  <1>1. /\ t # <<>> /\ t[1] \in {"A", "*"} /\ t[Len(t)] = Semicolon
        /\ \A i \in 1..Len(t) : Nesting(t, i) >= IF t[i] = Comma THEN 1 ELSE 0
        /\ Nesting(t, Len(t)) = 0
    BY Zenon DEF WellWritten, Comma, Semicolon
  <1>2. ASSUME NEW i \in 1..Len(t) - 1 PROVE Adjacent(t[i], t[i + 1])
    BY Zenon DEF WellWritten, Adjacent, AfterName, AfterType, Comma, Semicolon, Space
  <1>3. Len(t) \in Nat /\ Len(t) >= 1
    BY <1>1
  <1> QED
    BY <1>1, <1>2, <1>3

\* The signs are different from each other, from a name and from a blank.
LEMMA SignsApart ==
    /\ Comma \notin {"A", "*", "<", ">", ">>", "name", Semicolon, Space}
    /\ Semicolon \notin {"A", "*", "<", ">", ">>", "name", Comma, Space}
    /\ Space \notin {"A", "*", "<", ">", ">>", "name", Comma, Semicolon}
  BY Zenon DEF Comma, Semicolon, Space

\* The classes of characters, one within another.
LEMMA SignClasses ==
    /\ Space \in White /\ "A" \in Letters
    /\ \A c \in Signs : /\ c \in Alone \cup Longer /\ c \notin White \cup Letters \cup Decimal
                        /\ c \notin {"NUL", "/", ".", "="}
    /\ "A" \notin White \cup {"NUL", "/"}
    /\ Space \notin {"NUL", "/"} \cup Letters \cup Decimal
  BY Zenon DEF Signs, AfterType, Comma, Semicolon, Space, White, Letters, Decimal, Alone, Longer

\* A well-written type has no other characters, and so no comments.
LEMMA CharactersAre ==
    ASSUME NEW t \in Seq(STRING), WellWritten(t), NEW i \in 1..Len(t)
    PROVE  /\ t[i] \in Signs \cup {"A", Space} /\ t[i] # "/" /\ t[i] # "NUL"
           /\ t[i] \in White => t[i] = Space
  <1>1. t[i] \in Signs \cup {"A", Space}
    <2>1. CASE i = 1
      BY <2>1, WellWrittenIs DEF Signs
    <2>2. CASE i # 1
      <3>1. i - 1 \in 1..Len(t) - 1 /\ (i - 1) + 1 = i
        BY <2>2, WellWrittenIs
      <3>2. Adjacent(t[i - 1], t[i])
        BY <3>1, WellWrittenIs
      <3> QED
        BY <3>2 DEF Adjacent, Signs, AfterName
    <2> QED
      BY <2>1, <2>2
  <1> QED
    BY <1>1, SignClasses

\* What is blank in a well-written type is a blank.
LEMMA NoComment ==
    ASSUME NEW t \in Seq(STRING), WellWritten(t), NEW i \in 1..Len(t), Blank(t, i)
    PROVE  t[i] = Space
  <1>1. \A j \in 1..i : t[j] # "/"
    BY CharactersAre
  <1>2. t[i] \in White
    BY <1>1 DEF Blank
  <1> QED
    BY <1>2, CharactersAre

\* Of a blank only the next character begins a token.
LEMMA SkipBlank ==
    ASSUME NEW t \in Seq(STRING), WellWritten(t), NEW p \in 1..Len(t)
    PROVE  IF t[p] = Space
           THEN /\ SkipWhiteSpaces(t, p) = p + 1 /\ p + 1 \in 1..Len(t) /\ t[p + 1] \in AfterType
           ELSE SkipWhiteSpaces(t, p) = p
  <1> DEFINE b == SkipWhiteSpaces(t, p)
  <1>0. Len(t) \in Nat /\ Eof(t) = Len(t) + 1 /\ p \in 1..Eof(t)
    BY DEF Eof
  <1>1. b \in p..Eof(t) /\ At(t, b) \notin White /\ \A i \in p..b - 1 : Blank(t, i)
    BY <1>0, SkipIs
  <1> HIDE DEF b
  <1>2. CASE t[p] # Space
    <2>1. ~Blank(t, p)
      BY <1>2, NoComment
    <2> QED
      BY <1>0, <1>1, <1>2, <2>1 DEF b
  <1>3. CASE t[p] = Space
    <2>1. p # Len(t)
      BY <1>3, WellWrittenIs, SignsApart
    <2>2. p + 1 \in 1..Len(t) /\ p \in 1..Len(t) - 1
      BY <1>0, <2>1
    <2>3. Adjacent(t[p], t[p + 1])
      BY <2>2, WellWrittenIs
    <2>4. t[p + 1] \in AfterType
      BY <1>3, <2>3, SignsApart DEF Adjacent
    <2>5. t[p + 1] # Space
      BY <2>4, SignsApart DEF AfterType
    <2>6. ~Blank(t, p + 1)
      BY <2>2, <2>5, NoComment
    <2>7. b # p
      BY <1>1, <1>3, SignClasses DEF At
    <2> QED
      BY <1>0, <1>1, <1>3, <2>2, <2>4, <2>6, <2>7 DEF b
  <1> QED
    BY <1>2, <1>3

(***************************************************************************)
(* What lexNextToken reads in a well-written type: names and signs, with   *)
(* no comment between them, and a blank only before a sign.                *)
(***************************************************************************)

\* The tests for the signs of a type look for an =, the second one also for
\* another < or, when the flag is down, another >.
Expects(tests, c, flag) ==
    \A i \in 1..Len(tests) :
      \/ tests[i].on = "="
      \/ i = 2 /\ tests[i].on = c /\ c = "<"
      \/ i = 2 /\ tests[i].on = c /\ c = ">" /\ ~flag /\ tests[i].kind = ">>" /\ tests[i].by = 1

\* What the tests say of one sign.
LEMMA TestsExpect ==
    ASSUME NEW c \in Signs, NEW flag \in BOOLEAN
    PROVE  Expects(Tests(c, flag), c, flag)
  <1>1. \A on, kind : Test(on, kind).on = on /\ Test(on, kind).kind = kind /\ Test(on, kind).by = 1
    BY DEF Test
  <1>2. \A k, kind : After(k, "=", kind).on = "="
    BY DEF After
  <1>3. CASE c = "*"
    <2>1. Tests(c, flag) = <<Test("=", "*=")>>
      BY <1>3 DEF Tests
    <2> QED
      BY <1>1, <2>1 DEF Expects
  <1>4. CASE c = "<"
    <2>1. Tests(c, flag) = <<Test("=", "<="), Test("<", "<<"), After("<<", "=", "<<=")>>
      BY <1>4 DEF Tests
    <2> QED
      BY <1>1, <1>2, <1>4, <2>1 DEF Expects
  <1>5. CASE c = ">" /\ flag
    <2>1. Tests(c, flag) = <<Test("=", ">=")>>
      BY <1>5 DEF Tests
    <2> QED
      BY <1>1, <2>1 DEF Expects
  <1>6. CASE c = ">" /\ ~flag
    <2>1. Tests(c, flag) = <<Test("=", ">="), Test(">", ">>"), After(">>", "=", ">>=")>>
      BY <1>6 DEF Tests
    <2> QED
      BY <1>1, <1>2, <1>6, <2>1 DEF Expects
  <1>7. CASE c \in {Comma, Semicolon}
    <2>1. c \notin {"+", "-", "&", "|", "=", "!", "^", "%", "*", "/", ":", "<", ">"}
      BY <1>7, Zenon DEF Comma, Semicolon
    <2>2. Tests(c, flag) = <<>>
      BY <2>1 DEF Tests
    <2> QED
      BY <2>2 DEF Expects
  <1> QED
    BY <1>3, <1>4, <1>5, <1>6, <1>7 DEF Signs, AfterType

\* No character of a type is an =.
LEMMA NoEquals ==
    ASSUME NEW t \in Seq(STRING), WellWritten(t), NEW n \in Nat, n >= 1
    PROVE  At(t, n) # "="
  <1>1. CASE n <= Len(t)
    <2>1. n \in 1..Len(t) /\ At(t, n) = t[n]
      BY <1>1 DEF At
    <2>2. "A" # "=" /\ Space # "="
      BY Zenon DEF Space
    <2> QED
      BY <2>1, <2>2, CharactersAre, SignClasses
  <1>2. CASE ~(n <= Len(t))
    BY <1>2 DEF At
  <1> QED
    BY <1>1, <1>2

\* The token tok of a well-written type, read with the flag.
Lexeme(t, flag, tok) ==
    /\ tok.from \in 1..Len(t)
    /\ \/ t[tok.from] = "A" /\ tok.kind = "name" /\ tok.to = tok.from + 1
       \/ t[tok.from] \in Signs /\ tok.kind = t[tok.from] /\ tok.to = tok.from + 1
       \/ /\ t[tok.from] = ">" /\ tok.kind = ">>" /\ ~flag
          /\ tok.from + 1 \in 1..Len(t) /\ t[tok.from + 1] = ">"

\* A sign is read as a token of its own, but for a >> while the flag is down.
LEMMA SignLexed ==
    ASSUME NEW t \in Seq(STRING), WellWritten(t), NEW p \in 1..Len(t), t[p] \in Signs,
           NEW flag \in BOOLEAN, NEW op, op = Punctuation(t, p, flag)
    PROVE  \/ op.kind = t[p] /\ op.to = p + 1
           \/ t[p] = ">" /\ op.kind = ">>" /\ ~flag /\ p + 1 \in 1..Len(t) /\ t[p + 1] = ">"
  <1> DEFINE c == t[p]
             tests == Tests(c, flag)
             twice == c = ">" /\ ~flag /\ p + 1 \in 1..Len(t) /\ t[p + 1] = ">"
  <1>0. Len(t) \in Nat /\ p \in Nat /\ p + 1 \in Nat /\ p + 2 \in Nat
    OBVIOUS
  <1>1. Expects(tests, c, flag) /\ Len(tests) \in Nat /\ Fit(tests)
    BY TestsExpect, TestsFit DEF Fit
  <1>2. At(t, p + 1) # "=" /\ At(t, p + 2) # "="
    BY <1>0, NoEquals
  <1>3. ~Dots(t, p)
    BY SignClasses DEF Dots
  <1>4. ASSUME NEW k, NEW n \in Nat, n >= 1, NEW i \in {1, 3}
        PROVE  Tried(t, tests, k, n, i) = Rec(k, n)
    <2> SUFFICES ASSUME Fires(t, tests, k, n, i) PROVE FALSE
      BY DEF Tried
    <2>1. i <= Len(tests) /\ At(t, n) = tests[i].on
      BY <1>4 DEF Fires
    <2>2. i \in 1..Len(tests)
      BY <1>1, <1>4, <2>1
    <2>3. tests[i].on = "="
      BY <1>1, <1>4, <2>2 DEF Expects
    <2> QED
      BY <1>4, <2>1, <2>3, NoEquals
  <1>5. \/ Tried(t, tests, c, p + 1, 2) = Rec(c, p + 1)
        \/ Tried(t, tests, c, p + 1, 2) = Rec(">>", p + 2) /\ twice
    <2>1. CASE ~Fires(t, tests, c, p + 1, 2)
      BY <2>1 DEF Tried
    <2>2. CASE Fires(t, tests, c, p + 1, 2)
      <3>0. 2 <= Len(tests) /\ At(t, p + 1) = tests[2].on
        BY <2>2 DEF Fires
      <3>1. 2 \in 1..Len(tests) /\ At(t, p + 1) = tests[2].on
        BY <1>1, <3>0
      <3>2. tests[2].on # "NUL"
        BY <1>1, <3>1 DEF Fit
      <3>3. p + 1 \in 1..Len(t) /\ At(t, p + 1) = t[p + 1]
        BY <1>0, <3>1, <3>2 DEF At
      <3>4. \/ tests[2].on = c /\ c = "<"
            \/ tests[2].on = c /\ c = ">" /\ ~flag /\ tests[2].kind = ">>" /\ tests[2].by = 1
        BY <1>1, <1>2, <3>1 DEF Expects
      <3>5. c # "<" \/ t[p + 1] # "<"
        <4>1. p \in 1..Len(t) - 1
          BY <1>0, <3>3
        <4>2. Adjacent(t[p], t[p + 1])
          BY <4>1, WellWrittenIs
        <4> QED
          BY <4>2, SignsApart DEF Adjacent
      <3>6. Tried(t, tests, c, p + 1, 2) = Rec(tests[2].kind, (p + 1) + tests[2].by)
        BY <2>2 DEF Tried
      <3>7. (p + 1) + 1 = p + 2
        BY <1>0
      <3> HIDE DEF c, tests
      <3>8. c = ">" /\ ~flag /\ tests[2].kind = ">>" /\ tests[2].by = 1 /\ t[p + 1] = ">"
        BY <3>1, <3>3, <3>4, <3>5
      <3>9. Tried(t, tests, c, p + 1, 2) = Rec(">>", p + 2)
        BY <3>6, <3>7, <3>8
      <3> QED
        BY <3>3, <3>8, <3>9
    <2> QED
      BY <2>1, <2>2
  <1>6. \A k, n : Rec(k, n).kind = k /\ Rec(k, n).to = n
    BY DEF Rec
  <1>7. Tried(t, tests, c, p + 1, 1) = Rec(c, p + 1)
    BY <1>0, <1>4
  <1>8. CASE Tried(t, tests, c, p + 1, 2) = Rec(c, p + 1)
    <2>1. Tried(t, tests, c, p + 1, 3) = Rec(c, p + 1)
      BY <1>0, <1>4
    <2>2. op = Rec(c, p + 1)
      BY <1>3, <1>7, <1>8, <2>1, PunctuationSteps
    <2> QED
      BY <1>6, <2>2
  <1>9. CASE Tried(t, tests, c, p + 1, 2) = Rec(">>", p + 2) /\ twice
    <2>1. Tried(t, tests, ">>", p + 2, 3) = Rec(">>", p + 2)
      BY <1>0, <1>4
    <2>2. op = Rec(">>", p + 2)
      BY <1>3, <1>7, <1>9, <2>1, PunctuationSteps
    <2> QED
      BY <1>6, <1>9, <2>2
  <1> QED
    BY <1>5, <1>8, <1>9

\* A token that begins a place after p, or at it, is a name or a sign.
LEMMA LexemeAt ==
    ASSUME NEW t \in Seq(STRING), WellWritten(t), NEW p \in 1..Len(t), NEW flag \in BOOLEAN, NEW tok,
           tok = LexNextToken(t, p, flag)
    PROVE  /\ Lexeme(t, flag, tok) /\ t[tok.from] # Space
           /\ tok.from = IF t[p] = Space THEN p + 1 ELSE p
           /\ t[p] = Space => t[tok.from] \in AfterType
  <1> DEFINE b == SkipWhiteSpaces(t, p)
             op == Punctuation(t, b, flag)
  <1>1. /\ b = (IF t[p] = Space THEN p + 1 ELSE p) /\ b \in 1..Len(t)
        /\ t[p] = Space => t[b] \in AfterType
    BY SkipBlank
  <1>2. t[b] # Space
    BY <1>1, SignsApart DEF AfterType
  <1>3. t[b] \in Signs \/ t[b] = "A"
    BY <1>1, <1>2, CharactersAre
  <1>4. LexedAs(t, b, flag, tok)
    BY LexIs
  <1> HIDE DEF b
  <1>5. At(t, b) = t[b] /\ b \in 1..Eof(t) /\ Len(t) \in Nat /\ Eof(t) = Len(t) + 1
    BY <1>1 DEF At, Eof
  <1>6. CASE t[b] \in Signs
    <2>1. t[b] \in Alone \cup Longer /\ t[b] # "."
      BY <1>6, SignClasses
    <2>2. tok = Token(op.kind, b, Ends(op.to), 0)
      BY <1>4, <1>5, <2>1 DEF LexedAs
    <2>3. tok.kind = op.kind /\ tok.to = op.to /\ tok.from = b
      BY <2>2 DEF Token, Ends
    <2>4. \/ op.kind = t[b] /\ op.to = b + 1
          \/ t[b] = ">" /\ op.kind = ">>" /\ ~flag /\ b + 1 \in 1..Len(t) /\ t[b + 1] = ">"
      BY <1>1, <1>6, SignLexed
    <2>5. Lexeme(t, flag, tok)
      BY <1>1, <1>6, <2>3, <2>4 DEF Lexeme
    <2> QED
      BY <1>1, <1>2, <2>3, <2>5
  <1>7. CASE t[b] = "A"
    <2> DEFINE e == Span(t, b, Letters \cup Decimal)
    <2>1. tok = Token("name", b, Ends(e), 0)
      BY <1>4, <1>5, <1>7, SignClasses DEF LexedAs
    <2>2. tok.kind = "name" /\ tok.to = e /\ tok.from = b
      BY <2>1 DEF Token, Ends
    <2>3. e \in b..Eof(t) /\ At(t, e) \notin Letters \cup Decimal
          /\ \A i \in b..e - 1 : At(t, i) \in Letters \cup Decimal
      BY <1>5, SpanIs, Apart
    <2>4. e # b
      BY <1>5, <1>7, <2>3, SignClasses
    <2>5. b # Len(t)
      BY <1>7, WellWrittenIs, SignsApart
    <2>6. b \in 1..Len(t) - 1 /\ b + 1 \in 1..Len(t)
      BY <1>1, <1>5, <2>5
    <2>7. Adjacent(t[b], t[b + 1])
      BY <2>6, WellWrittenIs
    <2>8. t[b + 1] \in Signs
      BY <1>7, <2>7, SignsApart DEF Adjacent, AfterName, Signs
    <2>9. At(t, b + 1) \notin Letters \cup Decimal
      BY <2>6, <2>8, SignClasses DEF At
    <2> HIDE DEF e
    <2>10. e = b + 1
      BY <1>1, <1>5, <2>3, <2>4, <2>6, <2>9
    <2>11. Lexeme(t, flag, tok)
      BY <1>1, <1>7, <2>2, <2>10 DEF Lexeme
    <2> QED
      BY <1>1, <1>2, <2>2, <2>11
  <1> QED
    BY <1>3, <1>6, <1>7

(***************************************************************************)
(* The lists that are open at a place, by counting: a list that is open is *)
(* closed later, at the first place where as many lists are open as before it. *)
(***************************************************************************)

\* How often b is in t before p.
Count(t, b, p) == Cardinality({i \in 1..p - 1 : t[i] = b})

\* Counting on from p to q.
LEMMA CountOn ==
    ASSUME NEW t, NEW b, NEW p \in Nat, NEW q \in Nat, 1 <= p, p <= q
    PROVE  /\ Count(t, b, p) \in Nat /\ Count(t, b, q) \in Nat
           /\ IsFiniteSet({i \in p..q - 1 : t[i] = b})
           /\ Cardinality({i \in p..q - 1 : t[i] = b}) = Count(t, b, q) - Count(t, b, p)
  <1> DEFINE P == {i \in 1..p - 1 : t[i] = b}
             Q == {i \in 1..q - 1 : t[i] = b}
             D == {i \in p..q - 1 : t[i] = b}
  <1>1. IsFiniteSet(1..q - 1)
    BY FS_Interval
  <1>2. P \subseteq 1..q - 1 /\ Q \subseteq 1..q - 1 /\ D \subseteq 1..q - 1
    OBVIOUS
  <1>3. Q = P \cup D /\ P \cap D = {}
    OBVIOUS
  <1>4. Count(t, b, p) = Cardinality(P) /\ Count(t, b, q) = Cardinality(Q)
    BY DEF Count
  <1> HIDE DEF P, Q, D
  <1>5. IsFiniteSet(P) /\ IsFiniteSet(Q) /\ IsFiniteSet(D)
    BY <1>1, <1>2, FS_Subset
  <1>6. Cardinality(P) \in Nat /\ Cardinality(Q) \in Nat /\ Cardinality(D) \in Nat
    BY <1>5, FS_CardinalityType
  <1>7. Cardinality(P \cup D) = Cardinality(P) + Cardinality(D) - Cardinality(P \cap D)
    BY <1>5, FS_Union
  <1>8. Cardinality(P \cap D) = 0
    BY <1>3, FS_EmptySet
  <1>9. Cardinality(D) = Cardinality(Q) - Cardinality(P)
    BY <1>3, <1>6, <1>7, <1>8
  <1> QED
    BY <1>4, <1>5, <1>6, <1>9 DEF D

\* The lists that are open, by Count.
LEMMA NestingCounts ==
    ASSUME NEW t, NEW p
    PROVE  Nesting(t, p) = Count(t, "<", p) - Count(t, ">", p)
  BY DEF Nesting, Count

\* What a character adds to the lists that are open.
LEMMA NestingNext ==
    ASSUME NEW t, NEW p \in Nat, 1 <= p
    PROVE  /\ Nesting(t, p) \in Int
           /\ t[p] = "<" => Nesting(t, p + 1) = Nesting(t, p) + 1
           /\ t[p] = ">" => Nesting(t, p + 1) = Nesting(t, p) - 1
           /\ t[p] \notin {"<", ">"} => Nesting(t, p + 1) = Nesting(t, p)
  <1>1. ASSUME NEW b
        PROVE  /\ Count(t, b, p) \in Nat
               /\ Count(t, b, p + 1) = Count(t, b, p) + IF t[p] = b THEN 1 ELSE 0
    <2> DEFINE D == {i \in p..(p + 1) - 1 : t[i] = b}
    <2>1. p + 1 \in Nat /\ p <= p + 1
      OBVIOUS
    <2>2. /\ Count(t, b, p) \in Nat /\ Count(t, b, p + 1) \in Nat
          /\ Cardinality(D) = Count(t, b, p + 1) - Count(t, b, p)
      BY <2>1, CountOn
    <2>3. D = IF t[p] = b THEN {p} ELSE {}
      OBVIOUS
    <2> HIDE DEF D
    <2>4. Cardinality(D) = IF t[p] = b THEN 1 ELSE 0
      BY <2>3, FS_EmptySet, FS_Singleton
    <2> QED
      BY <2>2, <2>4
  <1> QED
    BY <1>1, NestingCounts

\* Where a list is closed or has another argument, it is open.
LEMMA InsideList ==
    ASSUME NEW t \in Seq(STRING), WellWritten(t), NEW p \in 1..Len(t)
    PROVE  /\ Nesting(t, p) \in Nat
           /\ t[p] \in {">", Comma} => Nesting(t, p) >= 1
           /\ p + 1 \in 1..Len(t) /\ t[p] = ">" /\ t[p + 1] = ">" => Nesting(t, p) >= 2
           /\ t[p] = Semicolon => Nesting(t, p) = 0
           /\ t[p] # Semicolon => p + 1 \in 1..Len(t)
  <1>1. ASSUME NEW q \in 1..Len(t)
        PROVE  /\ Nesting(t, q) \in Nat
               /\ t[q] = Comma => Nesting(t, q) >= 1
    BY NestingNext, WellWrittenIs
  <1>2. ASSUME NEW q \in 1..Len(t) - 1
        PROVE  q + 1 \in 1..Len(t) /\ t[q] # Semicolon
    <2>1. Adjacent(t[q], t[q + 1])
      BY WellWrittenIs
    <2> QED
      BY <2>1, SignsApart DEF Adjacent
  <1>3. Len(t) \in Nat /\ t[Len(t)] = Semicolon /\ Nesting(t, Len(t)) = 0
    BY WellWrittenIs
  <1>4. ASSUME NEW q \in 1..Len(t), t[q] = ">"
        PROVE  q + 1 \in 1..Len(t) /\ Nesting(t, q) = Nesting(t, q + 1) + 1
    <2>1. q \in 1..Len(t) - 1
      BY <1>3, <1>4, SignsApart
    <2>2. Nesting(t, q + 1) = Nesting(t, q) - 1 /\ Nesting(t, q) \in Int
      BY <1>4, NestingNext
    <2>3. q + 1 \in 1..Len(t)
      BY <1>2, <2>1
    <2> QED
      BY <2>2, <2>3
  <1>5. t[p] = ">" => Nesting(t, p) >= 1
    BY <1>1, <1>4
  <1>6. p + 1 \in 1..Len(t) /\ t[p] = ">" /\ t[p + 1] = ">" => Nesting(t, p) >= 2
    BY <1>1, <1>4
  <1>7. p \in 1..Len(t) - 1 \/ p = Len(t)
    BY <1>3
  <1> QED
    BY <1>1, <1>2, <1>3, <1>5, <1>6, <1>7

\* A list of a well-written type has its closing > before the end of the line.
LEMMA ListIsClosed ==
    ASSUME NEW t \in Seq(STRING), WellWritten(t), NEW p \in 1..Len(t), t[p] = "<"
    PROVE  CheckTemplate(t, p + 1, "<")
  <1> DEFINE Q == {q \in p + 1..Len(t) : Nesting(t, q) <= Nesting(t, p)}
  <1>0. Len(t) \in Nat /\ Nesting(t, Len(t)) = 0 /\ t[Len(t)] = Semicolon
    BY WellWrittenIs
  <1>1. p + 1 \in 1..Len(t)
    BY SignsApart, InsideList
  <1>2. Len(t) \in Q /\ Q \subseteq Nat
    BY <1>0, <1>1, InsideList
  <1>3. PICK m \in Q : \A k \in Q : m <= k
    BY <1>2, LeastNat
  <1>4. Nesting(t, p + 1) = Nesting(t, p) + 1 /\ Nesting(t, p) \in Nat
    BY NestingNext, InsideList
  <1>5. m \in p + 1..Len(t) /\ Nesting(t, m) <= Nesting(t, p) /\ m # p + 1
    BY <1>3, <1>4
  <1> DEFINE q == m - 1
  <1>6. q \in p + 1..Len(t) /\ q + 1 = m /\ q \notin Q
    BY <1>3, <1>5
  <1>7. q \in 1..Len(t) /\ m \in 1..Len(t) /\ q < m
    BY <1>1, <1>5, <1>6
  <1>8. Nesting(t, q) > Nesting(t, p)
    BY <1>4, <1>6, <1>7, InsideList
  <1> HIDE DEF Q, q
  <1>9. Nesting(t, q + 1) >= Nesting(t, q) - 1 /\ Nesting(t, q) \in Int
    <2>1. q \in Nat /\ 1 <= q
      BY <1>7
    <2>2. /\ Nesting(t, q) \in Int
          /\ t[q] = "<" => Nesting(t, q + 1) = Nesting(t, q) + 1
          /\ t[q] = ">" => Nesting(t, q + 1) = Nesting(t, q) - 1
          /\ t[q] \notin {"<", ">"} => Nesting(t, q + 1) = Nesting(t, q)
      BY <2>1, NestingNext
    <2> QED
      BY <2>2
  <1>10. Nesting(t, m) = Nesting(t, p + 1) - 1
    <2>1. Nesting(t, m) \in Int
      BY <1>7, NestingNext
    <2> QED
      BY <1>4, <1>5, <1>6, <1>8, <1>9, <2>1
  <1>11. \A b : /\ Count(t, b, p + 1) \in Nat /\ Count(t, b, m) \in Nat
                /\ Cardinality({i \in p + 1..m - 1 : t[i] = b}) = Count(t, b, m) - Count(t, b, p + 1)
    <2>1. p + 1 \in Nat /\ m \in Nat /\ 1 <= p + 1 /\ p + 1 <= m
      BY <1>5
    <2> QED
      BY <2>1, CountOn
  <1>12. Cardinality({i \in p + 1..q : t[i] = ">"}) = 1 + Cardinality({i \in p + 1..q : t[i] = "<"})
    <2> DEFINE C(b) == Cardinality({i \in p + 1..q : t[i] = b})
    <2>1. \A b : /\ Count(t, b, p + 1) \in Nat /\ Count(t, b, m) \in Nat
                 /\ C(b) = Count(t, b, m) - Count(t, b, p + 1)
      BY <1>11 DEF q
    <2>2. Count(t, "<", m) - Count(t, ">", m) = Count(t, "<", p + 1) - Count(t, ">", p + 1) - 1
      BY <1>10, NestingCounts
    <2> HIDE DEF C
    <2>3. C(">") = 1 + C("<")
      BY <2>1, <2>2
    <2> QED
      BY <2>3 DEF C
  <1>13. Newlines(t, p + 1, q + 1) = {}
    <2> SUFFICES ASSUME NEW i \in p + 1..(q + 1) - 1, At(t, i) = "\n" PROVE FALSE
      BY DEF Newlines
    <2>1. i \in 1..Len(t) /\ At(t, i) = t[i]
      BY <1>1, <1>6, <1>7 DEF At
    <2>2. t[i] \in White
      BY <2>1, Zenon DEF White
    <2>3. Space # "\n"
      BY Zenon DEF Space
    <2> QED
      BY <2>1, <2>2, <2>3, CharactersAre
  <1> QED
    BY <1>6, <1>12, <1>13 DEF CheckTemplate

\* As many lists are open on the stack as are open in the text.
LEMMA MatchedCount ==
    ASSUME NEW N, NEW C, NEW A \in SUBSET Nat, NEW B \in SUBSET Nat, Matches(N, C, A, B),
           IsFiniteSet(A), IsFiniteSet(B)
    PROVE  IsFiniteSet(C) /\ Cardinality(C) = Cardinality(A) - Cardinality(B)
  <1> DEFINE F == {n[1] : n \in N}
             S == {n[2] : n \in N}
             f == [n \in N |-> n[1]]
             g == [n \in N |-> n[2]]
  <1>0. \A n \in N : n[1] \in Nat /\ n[2] \in Nat
    BY DEF Matches
  <1>1. F \cup C = A /\ S = B
    BY DEF Matches
  <1>2. F \cap C = {}
    BY <1>0 DEF Matches
  <1>3. \A m, n \in N : m = n \/ (m[1] # n[1] /\ m[2] # n[2])
    BY <1>0 DEF Matches, Precedes, Inside
  <1>4. f \in Bijection(N, F) /\ g \in Bijection(N, S)
    <2>1. f \in Injection(N, F) /\ g \in Injection(N, S)
      BY <1>3 DEF Injection, IsInjective
    <2>2. f \in Surjection(N, F) /\ g \in Surjection(N, S)
      BY DEF Surjection
    <2> QED
      BY <2>1, <2>2 DEF Bijection
  <1> HIDE DEF F, S, f, g
  <1>5. IsFiniteSet(F) /\ IsFiniteSet(C) /\ IsFiniteSet(S)
    BY <1>1, FS_Subset
  <1>6. IsFiniteSet(N) /\ Cardinality(N) = Cardinality(S)
    <2>1. g \in Injection(N, S) /\ g \in Surjection(N, S)
      BY <1>4 DEF Bijection
    <2> QED
      BY <1>5, <2>1, FS_Injection
  <1>7. Cardinality(N) = Cardinality(F)
    <2>1. f \in Injection(N, F) /\ f \in Surjection(N, F)
      BY <1>4 DEF Bijection
    <2> QED
      BY <1>5, <2>1, FS_Injection
  <1>8. Cardinality(F \cup C) = Cardinality(F) + Cardinality(C) - Cardinality(F \cap C)
    BY <1>5, FS_Union
  <1>9. Cardinality(F \cap C) = 0
    BY <1>2, FS_EmptySet
  <1>10. Cardinality(F) \in Nat /\ Cardinality(C) \in Nat
    BY <1>5, FS_CardinalityType
  <1> QED
    BY <1>1, <1>5, <1>6, <1>7, <1>8, <1>9, <1>10

\* The < of the stack are as many as the lists open at the current token.
LEMMA OpensCount ==
    ASSUME Matched, text \in Seq(STRING), WellWritten(text), token.from \in 1..Len(text)
    PROVE  IsFiniteSet(Opens(stack)) /\ Cardinality(Opens(stack)) = Nesting(text, token.from)
  <1> DEFINE p == token.from
             A == Brackets(text, "<", p)
             B == Brackets(text, ">", p)
  <1>1. ASSUME NEW b \in {"<", ">"}
        PROVE  /\ Brackets(text, b, p) = {i \in 1..p - 1 : text[i] = b}
               /\ Brackets(text, b, p) \in SUBSET Nat /\ IsFiniteSet(Brackets(text, b, p))
    <2>1. ASSUME NEW i \in 1..p - 1, text[i] = b PROVE ~Blank(text, i)
      <3>1. i \in 1..Len(text)
        OBVIOUS
      <3>2. b # Space
        BY SignsApart
      <3> QED
        BY <2>1, <3>1, <3>2, NoComment
    <2>2. Brackets(text, b, p) = {i \in 1..p - 1 : text[i] = b}
      BY <2>1 DEF Brackets
    <2>3. p \in Nat /\ 1 \in Nat /\ p - 1 \in Int
      OBVIOUS
    <2>4. IsFiniteSet(1..p - 1)
      BY <2>3, FS_Interval
    <2>5. Brackets(text, b, p) \subseteq 1..p - 1
      BY DEF Brackets
    <2>6. IsFiniteSet(Brackets(text, b, p))
      BY <2>4, <2>5, FS_Subset
    <2> QED
      BY <2>2, <2>5, <2>6
  <1>2. Matches(nodes, Opens(stack), A, B)
    BY DEF Matched
  <1>3. Nesting(text, p) = Cardinality(A) - Cardinality(B)
    BY <1>1 DEF Nesting
  <1>4. A \in SUBSET Nat /\ B \in SUBSET Nat /\ IsFiniteSet(A) /\ IsFiniteSet(B)
    BY <1>1
  <1> HIDE DEF A, B, p
  <1>5. IsFiniteSet(Opens(stack)) /\ Cardinality(Opens(stack)) = Cardinality(A) - Cardinality(B)
    BY <1>2, <1>4, MatchedCount
  <1> QED
    BY <1>3, <1>5 DEF p

(***************************************************************************)
(* The stack: every list left to do stands on the list around it, and what *)
(* is to be done next says what the current token can begin with.          *)
(***************************************************************************)

\* What is done next, over what is done after it.
Over(d, e) ==
    \/ d = "more" /\ e = "lower"
    \/ d = "lower" /\ e = "close"
    \/ d \notin {"more", "lower"} /\ e = "more"

Fits(d, r) == IF r = <<>> THEN d \notin {"more", "lower"} ELSE Over(d, r[1].do)

\* Every list left to do stands on the list around it.
Lined(s) ==
    \A i \in 1..Len(s) :
      \/ i = Len(s) /\ s[i].do \notin {"more", "lower"}
      \/ i + 1 \in 1..Len(s) /\ Over(s[i].do, s[i + 1].do)

\* What is below the top of the stack is lined up as well.
LEMMA LinedBelow ==
    ASSUME NEW s \in Seq(Left), s # <<>>, Lined(s)
    PROVE  Tail(s) \in Seq(Left) /\ Lined(Tail(s)) /\ Fits(s[1].do, Tail(s))
  <1> DEFINE r == Tail(s)
  <1>1. /\ r \in Seq(Left) /\ Len(s) \in Nat /\ Len(s) >= 1 /\ Len(r) = Len(s) - 1
        /\ \A i \in 1..Len(r) : r[i] = s[i + 1]
    OBVIOUS
  <1> HIDE DEF r
  <1>a. r = <<>> <=> Len(r) = 0
    BY <1>1
  <1>2. ASSUME NEW i \in 1..Len(r)
        PROVE  \/ i = Len(r) /\ r[i].do \notin {"more", "lower"}
               \/ i + 1 \in 1..Len(r) /\ Over(r[i].do, r[i + 1].do)
    <2>1. i + 1 \in 1..Len(s) /\ r[i] = s[i + 1]
      BY <1>1
    <2>2. \/ i + 1 = Len(s) /\ s[i + 1].do \notin {"more", "lower"}
          \/ (i + 1) + 1 \in 1..Len(s) /\ Over(s[i + 1].do, s[(i + 1) + 1].do)
      BY <2>1 DEF Lined
    <2>3. (i + 1) + 1 \in 1..Len(s) => i + 1 \in 1..Len(r) /\ r[i + 1] = s[(i + 1) + 1]
      BY <1>1
    <2> QED
      BY <1>1, <2>1, <2>2, <2>3
  <1>3. Fits(s[1].do, r)
    <2>1. 1 \in 1..Len(s)
      BY <1>1
    <2>2. \/ 1 = Len(s) /\ s[1].do \notin {"more", "lower"}
          \/ 1 + 1 \in 1..Len(s) /\ Over(s[1].do, s[1 + 1].do)
      BY <2>1 DEF Lined
    <2>3. 1 + 1 \in 1..Len(s) => r # <<>> /\ r[1] = s[1 + 1]
      BY <1>1
    <2> QED
      BY <1>1, <1>a, <2>2, <2>3 DEF Fits
  <1> QED
    BY <1>1, <1>2, <1>3 DEF r, Lined

\* What is lined up, put on what it fits.
LEMMA LinedJoin ==
    ASSUME NEW s \in Seq(Left), NEW r \in Seq(Left), s # <<>>, Lined(r),
           \A i \in 1..Len(s) - 1 : Over(s[i].do, s[i + 1].do), Fits(s[Len(s)].do, r)
    PROVE  /\ Lined(s \o r) /\ s \o r \in Seq(Left) /\ s \o r # <<>> /\ (s \o r)[1] = s[1]
  <1> DEFINE q == s \o r
  <1>1. /\ q \in Seq(Left) /\ Len(q) = Len(s) + Len(r) /\ Len(s) \in Nat /\ Len(r) \in Nat
        /\ Len(s) >= 1
        /\ \A i \in 1..Len(q) : q[i] = IF i <= Len(s) THEN s[i] ELSE r[i - Len(s)]
        /\ r = <<>> <=> Len(r) = 0
    OBVIOUS
  <1> HIDE DEF q
  <1>2. ASSUME NEW i \in 1..Len(q)
        PROVE  \/ i = Len(q) /\ q[i].do \notin {"more", "lower"}
               \/ i + 1 \in 1..Len(q) /\ Over(q[i].do, q[i + 1].do)
    <2>1. CASE i \in 1..Len(s) - 1
      <3>1. i + 1 \in 1..Len(q) /\ q[i] = s[i] /\ q[i + 1] = s[i + 1]
        BY <1>1, <2>1
      <3> QED
        BY <2>1, <3>1
    <2>2. CASE i = Len(s) /\ r = <<>>
      BY <1>1, <2>2 DEF Fits
    <2>3. CASE i = Len(s) /\ r # <<>>
      <3>1. i + 1 \in 1..Len(q) /\ q[i] = s[i] /\ q[i + 1] = r[1]
        BY <1>1, <2>3
      <3> QED
        BY <2>3, <3>1 DEF Fits
    <2>4. CASE i > Len(s)
      <3> DEFINE j == i - Len(s)
      <3>1. j \in 1..Len(r) /\ q[i] = r[j] /\ (j = Len(r) => i = Len(q))
        BY <1>1, <2>4
      <3>2. j + 1 \in 1..Len(r) => i + 1 \in 1..Len(q) /\ q[i + 1] = r[j + 1]
        <4>1. j + 1 \in 1..Len(r) => i + 1 \in 1..Len(q) /\ ~(i + 1 <= Len(s)) /\ (i + 1) - Len(s) = j + 1
          BY <1>1, <2>4
        <4> QED
          BY <1>1, <4>1
      <3> HIDE DEF j
      <3>3. \/ j = Len(r) /\ r[j].do \notin {"more", "lower"}
            \/ j + 1 \in 1..Len(r) /\ Over(r[j].do, r[j + 1].do)
        BY <3>1 DEF Lined
      <3> QED
        BY <3>1, <3>2, <3>3
    <2> QED
      BY <1>1, <2>1, <2>2, <2>3, <2>4
  <1>3. q # <<>> /\ q[1] = s[1]
    BY <1>1
  <1> QED
    BY <1>1, <1>2, <1>3 DEF q, Lined

\* Whoever is in the middle of a list has left the end of it to be done.
LEMMA ListOpen ==
    ASSUME NEW s \in Seq(Left), s # <<>>, Lined(s), s[1].do \in {"more", "lower", "close"}
    PROVE  Opens(s) # {}
  <1>1. Len(s) \in Nat /\ 1 \in 1..Len(s)
    OBVIOUS
  <1>2. ASSUME NEW i \in 1..Len(s), s[i].do = "close" PROVE Opens(s) # {}
    BY <1>2, OpensAre
  <1>3. ASSUME NEW i \in 1..Len(s), s[i].do = "lower" PROVE Opens(s) # {}
    <2>1. i + 1 \in 1..Len(s) /\ s[i + 1].do = "close"
      BY <1>3 DEF Lined, Over
    <2> QED
      BY <1>2, <2>1
  <1>4. ASSUME s[1].do = "more" PROVE Opens(s) # {}
    <2>1. 1 + 1 \in 1..Len(s) /\ s[1 + 1].do = "lower"
      BY <1>1, <1>4 DEF Lined, Over
    <2> QED
      BY <1>3, <2>1
  <1> QED
    BY <1>1, <1>2, <1>3, <1>4

\* What the current token begins with, by what is to be done.
Stands(s, c) ==
    IF s = <<>> THEN c \in AfterType
    ELSE /\ s[1].do = "typespec" => c \in {"A", "*"}
         /\ s[1].do = "template" => c \in AfterName
         /\ s[1].do = "more" => c \in AfterType
         /\ s[1].do \in {"lower", "close"} => c \in {">", Semicolon}

\* Somewhere in the text n lists are open.
Deep(t, n) == \E i \in DOMAIN t : Nesting(t, i) >= n

\* The kind of a token, by its first character.
LEMMA LexemeKind ==
    ASSUME NEW t, NEW f, NEW tok, Lexeme(t, f, tok)
    PROVE  /\ t[tok.from] = "A" <=> tok.kind = "name"
           /\ \A c \in Signs \ {">"} : t[tok.from] = c <=> tok.kind = c
           /\ t[tok.from] = ">" <=> tok.kind \in {">", ">>"}
           /\ tok.kind # ">>" => tok.to = tok.from + 1
           /\ tok.kind = ">>" => /\ t[tok.from + 1] = ">" /\ ~f
                                 /\ tok.from + 1 \in 1..Len(t)
           /\ t[tok.from] \in Signs \cup {"A"}
  BY SignsApart DEF Lexeme, Signs, AfterType

(***************************************************************************)
(* The invariant of the parser on a well-written type.                     *)
(***************************************************************************)

\* The flag is down inside a list only after another one was closed there, and
\* >> is read as one token only then.
Ahead ==
    /\ token.kind = ">>" => Deep(text, 3)
    /\ Nesting(text, token.from) >= 1 /\ ~template /\ (stack = <<>> \/ Top.do # "close") =>
         Deep(text, Nesting(text, token.from) + 1)

\* The parser of types on a well-written type.
WellRead ==
    /\ \E f \in BOOLEAN : Lexeme(text, f, token)
    /\ Lined(stack) /\ Stands(stack, text[token.from]) /\ Ahead
    /\ outcome = "failed" => token.kind = ">>"
    /\ outcome = "accepted" => token.kind = Semicolon

Typed == IInv /\ FlagInv /\ Matched /\ WellWritten(text)

\* The types of the parser on a well-written type.
LEMMA TypedIs ==
    ASSUME Typed, WellRead
    PROVE  /\ text \in Seq(STRING) /\ Len(text) \in Nat /\ token.to = pos /\ template \in BOOLEAN
           /\ stack \in Seq(Left) /\ token.from \in 1..Len(text)
           /\ Nesting(text, token.from) \in Nat
  <1>1. /\ text \in Seq(STRING) /\ token.to = pos /\ template \in BOOLEAN /\ stack \in Seq(Left)
    BY DEF Typed, IInv, TypeOK, FlagInv
  <1>2. token.from \in 1..Len(text)
    BY DEF WellRead, Lexeme
  <1>3. Nesting(text, token.from) \in Nat
    BY <1>1, <1>2, InsideList DEF Typed
  <1> QED
    BY <1>1, <1>2, <1>3

\* The next token of a well-written type, after one that is not its last.
LEMMA NextLexeme ==
    ASSUME Typed, WellRead, Lexed(LexNextToken(text, pos, template)),
           token.kind \notin {">>", Semicolon}
    PROVE  /\ Lexeme(text, template, token') /\ token'.from \in 1..Len(text)
           /\ Adjacent(text[token.from], text[token'.from]) /\ text[token'.from] # Space
           /\ Nesting(text, token'.from) = Nesting(text, token.from + 1)
           /\ token'.kind = ">>" => ~template /\ Nesting(text, token'.from) >= 2
  <1> DEFINE p == token.from
             q == token'.from
  <1>0. /\ text \in Seq(STRING) /\ Len(text) \in Nat /\ token.to = pos /\ template \in BOOLEAN
        /\ p \in 1..Len(text) /\ WellWritten(text)
    BY TypedIs DEF Typed
  <1>1. PICK f \in BOOLEAN : Lexeme(text, f, token)
    BY DEF WellRead
  <1>2. pos = p + 1 /\ text[p] # Semicolon /\ text[p] \in Signs \cup {"A"}
    <2>1. Semicolon \in Signs \ {">"}
      BY SignsApart DEF Signs, AfterType
    <2> QED
      BY <1>0, <1>1, <2>1, LexemeKind
  <1>3. p + 1 \in 1..Len(text)
    BY <1>0, <1>2, InsideList
  <1>4. token' = LexNextToken(text, p + 1, template)
    BY <1>2 DEF Lexed
  <1>5. /\ Lexeme(text, template, token') /\ text[q] # Space
        /\ q = IF text[p + 1] = Space THEN (p + 1) + 1 ELSE p + 1
        /\ text[p + 1] = Space => text[q] \in AfterType
    BY <1>0, <1>3, <1>4, LexemeAt
  <1>6. q \in 1..Len(text)
    BY <1>5 DEF Lexeme
  <1> HIDE DEF q
  <1>7. Adjacent(text[p], text[p + 1])
    <2>1. p \in 1..Len(text) - 1
      BY <1>0, <1>3
    <2> QED
      BY <1>0, <2>1, WellWrittenIs
  <1>8. Adjacent(text[p], text[q]) /\ Nesting(text, q) = Nesting(text, p + 1)
    <2>1. CASE text[p + 1] # Space
      BY <1>5, <1>7, <2>1
    <2>2. CASE text[p + 1] = Space
      <3>1. text[p] = ">"
        BY <1>7, <2>2, SignsApart DEF Adjacent, AfterName, AfterType
      <3>2. Adjacent(text[p], text[q])
        BY <1>5, <2>2, <3>1 DEF Adjacent
      <3>3. text[p + 1] \notin {"<", ">"}
        BY <2>2, SignsApart
      <3>4. p + 1 \in Nat /\ 1 <= p + 1
        BY <1>0
      <3>5. Nesting(text, (p + 1) + 1) = Nesting(text, p + 1)
        BY <3>3, <3>4, NestingNext
      <3> QED
        BY <1>5, <2>2, <3>2, <3>5
    <2> QED
      BY <2>1, <2>2
  <1>9. token'.kind = ">>" => ~template /\ Nesting(text, q) >= 2
    <2> SUFFICES ASSUME token'.kind = ">>" PROVE ~template /\ Nesting(text, q) >= 2
      OBVIOUS
    <2>1. text[q] = ">" /\ text[q + 1] = ">" /\ ~template /\ q + 1 \in 1..Len(text)
      BY <1>5, LexemeKind DEF q
    <2> QED
      BY <1>0, <1>6, <2>1, InsideList
  <1> QED
    BY <1>5, <1>6, <1>8, <1>9 DEF q

\* What the lists of the stack say of the place of the current token.
LEMMA PlaceIs ==
    ASSUME Typed, WellRead
    PROVE  /\ stack = <<>> => Nesting(text, token.from) = 0
           /\ stack # <<>> /\ Top.do \in {"more", "lower", "close"} => Nesting(text, token.from) >= 1
  <1>1. /\ text \in Seq(STRING) /\ stack \in Seq(Left) /\ token.from \in 1..Len(text)
        /\ Lined(stack) /\ Matched /\ WellWritten(text) /\ Nesting(text, token.from) \in Nat
    BY TypedIs DEF Typed, WellRead
  <1>2. IsFiniteSet(Opens(stack)) /\ Cardinality(Opens(stack)) = Nesting(text, token.from)
    BY <1>1, OpensCount
  <1>3. stack = <<>> => Opens(stack) = {}
    BY NoneClose
  <1>4. stack # <<>> /\ Top.do \in {"more", "lower", "close"} => Opens(stack) # {}
    BY <1>1, ListOpen DEF Top
  <1> QED
    BY <1>1, <1>2, <1>3, <1>4, FS_EmptySet

\* What is put in the place of the top of the stack.
LEMMA ThenLined ==
    ASSUME Typed, WellRead, stack # <<>>, NEW s \in Seq(Left), Then(s),
           \A i \in 1..Len(s) - 1 : Over(s[i].do, s[i + 1].do),
           s # <<>> => \A r : Fits(stack[1].do, r) => Fits(s[Len(s)].do, r)
    PROVE  /\ Lined(stack')
           /\ s # <<>> => stack' # <<>> /\ stack'[1] = s[1]
           /\ s = <<>> => stack' = Tail(stack) /\ Fits(stack[1].do, stack')
  <1>1. stack \in Seq(Left) /\ Lined(stack)
    BY TypedIs DEF WellRead
  <1>2. Tail(stack) \in Seq(Left) /\ Lined(Tail(stack)) /\ Fits(stack[1].do, Tail(stack))
    BY <1>1, LinedBelow
  <1>3. stack' = s \o Tail(stack)
    BY DEF Then
  <1>4. CASE s = <<>>
    <2>1. stack' = Tail(stack)
      BY <1>2, <1>3, <1>4
    <2> QED
      BY <1>2, <1>4, <2>1
  <1>5. CASE s # <<>>
    <2>1. Fits(s[Len(s)].do, Tail(stack))
      BY <1>2, <1>5
    <2> HIDE DEF Fits
    <2>2. Lined(s \o Tail(stack)) /\ s \o Tail(stack) # <<>> /\ (s \o Tail(stack))[1] = s[1]
      BY <1>2, <1>5, <2>1, LinedJoin
    <2> QED
      BY <1>3, <1>5, <2>2
  <1> QED
    BY <1>4, <1>5

\* Nothing put in the place of the top: what follows stands for what it fits.
LEMMA Popped ==
    ASSUME Typed, WellRead, stack # <<>>, Then(<<>>)
    PROVE  /\ Lined(stack') /\ Fits(stack[1].do, stack')
           /\ stack' = Tail(stack)
  <1>1. <<>> \in Seq(Left) /\ \A i \in 1..Len(<<>>) - 1 : Over(<<>>[i].do, <<>>[i + 1].do)
    OBVIOUS
  <1> QED
    BY <1>1, ThenLined

(***************************************************************************)
(* Each step keeps the invariant.                                          *)
(***************************************************************************)

\* The flag and the stack as they were: Ahead holds on.
LEMMA AheadKept ==
    ASSUME Typed, WellRead, text' = text, template' = template, stack # <<>>, Top.do # "close",
           Nesting(text, token'.from) = Nesting(text, token.from),
           \/ token' = token
           \/ token'.kind = ">>" => ~template /\ Nesting(text, token'.from) >= 2
    PROVE  Ahead'
  <1> DEFINE n == Nesting(text, token.from)
  <1>1. n \in Nat /\ Ahead
    BY TypedIs DEF WellRead
  <1>2. n >= 1 /\ ~template => Deep(text, n + 1)
    BY <1>1 DEF Ahead
  <1> HIDE DEF n
  <1>3. ASSUME n >= 2, ~template PROVE Deep(text, 3)
    <2>1. PICK i \in DOMAIN text : Nesting(text, i) >= n + 1
      BY <1>1, <1>2, <1>3 DEF Deep
    <2>2. text \in Seq(STRING) /\ i \in 1..Len(text) /\ WellWritten(text)
      BY TypedIs DEF Typed
    <2>3. Nesting(text, i) \in Nat
      BY <2>2, InsideList
    <2>4. Nesting(text, i) >= 3
      BY <1>1, <1>3, <2>1, <2>3
    <2> QED
      BY <2>4 DEF Deep
  <1>4. token'.kind = ">>" => Deep(text', 3)
    BY <1>1, <1>3 DEF Ahead, n
  <1>5. Nesting(text', token'.from) = n
    BY DEF n
  <1> QED
    BY <1>1, <1>2, <1>4, <1>5 DEF Ahead

\* After a * stands a type.
LEMMA StepPtrspec ==
    ASSUME Typed, WellRead, ParsePtrspec
    PROVE  WellRead'
  <1>1. /\ stack # <<>> /\ Top.do = "typespec" /\ token.kind = "*" /\ outcome = "parsing"
        /\ Lexed(LexNextToken(text, pos, template)) /\ UNCHANGED <<text, template, stack, outcome>>
    BY DEF ParsePtrspec, Busy, NextToken, pvars
  <1>2. PICK f \in BOOLEAN : Lexeme(text, f, token)
    BY DEF WellRead
  <1>3. text[token.from] = "*" /\ token.kind \notin {">>", Semicolon}
    <2>1. "*" \in Signs \ {">"}
      BY DEF Signs
    <2> QED
      BY <1>1, <1>2, <2>1, LexemeKind, SignsApart
  <1>4. /\ Lexeme(text, template, token') /\ token'.from \in 1..Len(text)
        /\ Adjacent(text[token.from], text[token'.from])
        /\ Nesting(text, token'.from) = Nesting(text, token.from + 1)
        /\ token'.kind = ">>" => ~template /\ Nesting(text, token'.from) >= 2
    BY <1>1, <1>3, NextLexeme
  <1>5. Nesting(text, token'.from) = Nesting(text, token.from)
    <2>1. token.from \in Nat /\ 1 <= token.from
      BY TypedIs
    <2> QED
      BY <1>3, <1>4, <2>1, NestingNext
  <1>6. text[token'.from] \in {"A", "*"}
    BY <1>3, <1>4, SignsApart DEF Adjacent
  <1>7. Ahead'
    BY <1>1, <1>4, <1>5, AheadKept
  <1>8. Lined(stack') /\ Stands(stack', text'[token'.from])
    BY <1>1, <1>6 DEF WellRead, Stands, Top
  <1>9. \E g \in BOOLEAN : Lexeme(text', g, token')
    BY <1>1, <1>4, TypedIs
  <1> QED
    BY <1>1, <1>7, <1>8, <1>9 DEF WellRead

\* After a name stands what ends a type, or a list of types.
LEMMA StepNamespec ==
    ASSUME Typed, WellRead, ParseNamespec
    PROVE  WellRead'
  <1>1. /\ stack # <<>> /\ Top.do = "typespec" /\ token.kind = "name" /\ outcome = "parsing"
        /\ Lexed(LexNextToken(text, pos, template)) /\ UNCHANGED <<text, template, outcome>>
        /\ Then(<<Do("template", 0)>>)
    BY DEF ParseNamespec, Busy, NextToken
  <1>2. PICK f \in BOOLEAN : Lexeme(text, f, token)
    BY DEF WellRead
  <1>3. text[token.from] = "A" /\ token.kind \notin {">>", Semicolon}
    BY <1>1, <1>2, LexemeKind, SignsApart
  <1>4. /\ Lexeme(text, template, token') /\ token'.from \in 1..Len(text)
        /\ Adjacent(text[token.from], text[token'.from])
        /\ Nesting(text, token'.from) = Nesting(text, token.from + 1)
        /\ token'.kind = ">>" => ~template /\ Nesting(text, token'.from) >= 2
    BY <1>1, <1>3, NextLexeme
  <1>5. Nesting(text, token'.from) = Nesting(text, token.from)
    <2>1. token.from \in Nat /\ 1 <= token.from
      BY TypedIs
    <2> QED
      BY <1>3, <1>4, <2>1, NestingNext
  <1>6. text[token'.from] \in AfterName
    BY <1>3, <1>4, SignsApart DEF Adjacent
  <1>7. Ahead'
    BY <1>1, <1>4, <1>5, AheadKept
  <1>8. Lined(stack') /\ stack' # <<>> /\ stack'[1].do = "template"
    <2> DEFINE s == <<Do("template", 0)>>
    <2>1. s \in Seq(Left) /\ s # <<>> /\ Len(s) = 1 /\ s[1].do = "template"
      BY DEF Do, Left
    <2>2. Then(s)
      BY <1>1
    <2> HIDE DEF s
    <2>3. \A r : Fits(stack[1].do, r) => Fits(s[Len(s)].do, r)
      BY <1>1, <2>1 DEF Fits, Over, Top
    <2>4. \A i \in 1..Len(s) - 1 : Over(s[i].do, s[i + 1].do)
      BY <2>1
    <2> QED
      BY <1>1, <2>1, <2>2, <2>3, <2>4, ThenLined
  <1>9. Stands(stack', text'[token'.from])
    BY <1>1, <1>6, <1>8 DEF Stands
  <1>10. \E g \in BOOLEAN : Lexeme(text', g, token')
    BY <1>1, <1>4, TypedIs
  <1> QED
    BY <1>1, <1>7, <1>8, <1>9, <1>10 DEF WellRead

\* A type without a list is done where its name is followed by no <.
LEMMA StepBasespec ==
    ASSUME Typed, WellRead, ParseBasespec
    PROVE  WellRead'
  <1>1. /\ stack # <<>> /\ Top.do = "template" /\ ~CheckTemplate(text, pos, token.kind)
        /\ UNCHANGED <<text, pos, token, template, outcome>> /\ Then(<<>>) /\ outcome = "parsing"
    BY DEF ParseBasespec, Busy, vars
  <1>2. PICK f \in BOOLEAN : Lexeme(text, f, token)
    BY DEF WellRead
  <1>3. text[token.from] # "<"
    <2> SUFFICES ASSUME text[token.from] = "<" PROVE FALSE
      OBVIOUS
    <2>1. "<" \in Signs \ {">"}
      BY DEF Signs
    <2>2. token.kind = "<" /\ token.to = token.from + 1
      BY <1>2, <2>1, LexemeKind
    <2>3. CheckTemplate(text, token.from + 1, "<")
      BY TypedIs, ListIsClosed DEF Typed
    <2> QED
      BY <1>1, <2>2, <2>3, TypedIs
  <1>4. text[token.from] \in AfterType
    BY <1>1, <1>3 DEF WellRead, Stands, Top, AfterName
  <1>5. Lined(stack') /\ Fits("template", stack')
    BY <1>1, Popped DEF Top
  <1>6. Stands(stack', text'[token'.from])
    BY <1>1, <1>4, <1>5 DEF Stands, Fits, Over
  <1>7. Ahead'
    BY <1>1, AheadKept
  <1> QED
    BY <1>1, <1>2, <1>5, <1>6, <1>7 DEF WellRead

\* What is no comma ends the list.
LEMMA StepNoMore ==
    ASSUME Typed, WellRead, NoMoreTypes
    PROVE  WellRead'
  <1>1. /\ stack # <<>> /\ Top.do = "more" /\ ~(pos # Eof(text) /\ token.kind = Comma)
        /\ UNCHANGED <<text, pos, token, template, outcome>> /\ Then(<<>>) /\ outcome = "parsing"
    <2>1. /\ Busy("more") /\ ~(pos # Eof(text) /\ token.kind = Comma) /\ Then(<<>>)
          /\ UNCHANGED <<vars, outcome>>
      BY Zenon DEF NoMoreTypes, Comma
    <2> QED
      BY <2>1 DEF Busy, vars
  <1>2. PICK f \in BOOLEAN : Lexeme(text, f, token)
    BY DEF WellRead
  <1>3. text[token.from] # Comma
    <2> SUFFICES ASSUME text[token.from] = Comma PROVE FALSE
      OBVIOUS
    <2>1. Comma \in Signs \ {">"} /\ Comma # Semicolon
      BY SignsApart DEF Signs, AfterType
    <2>2. token.kind = Comma /\ token.to = token.from + 1
      BY <1>2, <2>1, LexemeKind, SignsApart
    <2>3. token.from + 1 \in 1..Len(text)
      BY <2>1, TypedIs, InsideList DEF Typed
    <2>4. pos # Eof(text)
      BY <2>2, <2>3, TypedIs DEF Eof
    <2> QED
      BY <1>1, <2>2, <2>4
  <1>4. text[token.from] \in {">", Semicolon}
    BY <1>1, <1>3 DEF WellRead, Stands, Top, AfterType
  <1>5. Lined(stack') /\ Fits("more", stack')
    BY <1>1, Popped DEF Top
  <1>6. Stands(stack', text'[token'.from])
    BY <1>1, <1>4, <1>5 DEF Stands, Fits, Over
  <1>7. Ahead'
    BY <1>1, AheadKept
  <1> QED
    BY <1>1, <1>2, <1>5, <1>6, <1>7 DEF WellRead

\* The < has its closing >, so the flag is up: a first argument follows.
LEMMA StepTemplatespec ==
    ASSUME Typed, WellRead, ParseTemplatespec
    PROVE  WellRead'
  <1>1. /\ stack # <<>> /\ Top.do = "template" /\ token.kind = "<" /\ outcome = "parsing"
        /\ Lexed(LexNextToken(text, pos, template)) /\ UNCHANGED <<text, outcome>>
        /\ template' = (template \/ token'.kind # ">")
        /\ Then(Lists(token.from, token'.kind = ">"))
    BY DEF ParseTemplatespec, ParsingTemplateContext, Busy, CheckTemplate
  <1>2. PICK f \in BOOLEAN : Lexeme(text, f, token)
    BY DEF WellRead
  <1>3. text[token.from] = "<" /\ token.kind \notin {">>", Semicolon}
    <2>1. "<" \in Signs \ {">"}
      BY DEF Signs
    <2> QED
      BY <1>1, <1>2, <2>1, LexemeKind, SignsApart
  <1>4. /\ Lexeme(text, template, token') /\ Adjacent(text[token.from], text[token'.from])
        /\ token.from \in Nat
    BY <1>1, <1>3, NextLexeme, TypedIs
  <1>5. text[token'.from] \in {"A", "*"}
    BY <1>3, <1>4, SignsApart DEF Adjacent
  <1>6. token'.kind \notin {">", ">>"} /\ template'
    <2>1. text[token'.from] # ">"
      BY <1>5
    <2>2. token'.kind \notin {">", ">>"}
      BY <1>4, <2>1, LexemeKind
    <2> QED
      BY <1>1, <2>2
  <1>7. Ahead'
    BY <1>6 DEF Ahead
  <1>8. Lined(stack') /\ stack' # <<>> /\ stack'[1].do = "typespec"
    <2> DEFINE p == token.from
               list == <<Do("typespec", 0), Do("more", p), Do("lower", p)>>
               last == <<Do("close", p)>>
               s == list \o last
    <2>1. /\ Do("typespec", 0) \in Left /\ Do("more", p) \in Left
          /\ Do("lower", p) \in Left /\ Do("close", p) \in Left
          /\ Do("typespec", 0).do = "typespec" /\ Do("more", p).do = "more"
          /\ Do("lower", p).do = "lower" /\ Do("close", p).do = "close"
      BY <1>4 DEF Do, Left
    <2>2. Then(s)
      BY <1>1, <1>6 DEF Lists
    <2>3. /\ s \in Seq(Left) /\ Len(s) = 4 /\ s # <<>> /\ s[1] = Do("typespec", 0)
          /\ s[2] = Do("more", p) /\ s[3] = Do("lower", p) /\ s[4] = Do("close", p)
      BY <2>1
    <2> HIDE DEF s
    <2>4. \A i \in 1..Len(s) - 1 : Over(s[i].do, s[i + 1].do)
      <3> SUFFICES ASSUME NEW i \in 1..3 PROVE Over(s[i].do, s[i + 1].do)
        BY <2>3
      <3>1. Over(s[1].do, s[2].do) /\ Over(s[2].do, s[3].do) /\ Over(s[3].do, s[4].do)
        BY <2>1, <2>3 DEF Over
      <3>2. i = 1 \/ i = 2 \/ i = 3
        OBVIOUS
      <3>3. 1 + 1 = 2 /\ 2 + 1 = 3 /\ 3 + 1 = 4
        OBVIOUS
      <3> QED
        BY <3>1, <3>2, <3>3
    <2>5. \A r : Fits(stack[1].do, r) => Fits(s[Len(s)].do, r)
      BY <1>1, <2>1, <2>3 DEF Fits, Over, Top
    <2> QED
      BY <1>1, <2>1, <2>2, <2>3, <2>4, <2>5, ThenLined
  <1>9. Stands(stack', text'[token'.from])
    BY <1>1, <1>5, <1>8 DEF Stands
  <1>10. \E g \in BOOLEAN : Lexeme(text', g, token')
    BY <1>1, <1>4, TypedIs
  <1> QED
    BY <1>1, <1>7, <1>8, <1>9, <1>10 DEF WellRead

\* After a comma stands another argument.
LEMMA StepMore ==
    ASSUME Typed, WellRead, MoreTypes
    PROVE  WellRead'
  <1>1. /\ stack # <<>> /\ Top.do = "more" /\ token.kind = Comma /\ outcome = "parsing"
        /\ Lexed(LexNextToken(text, pos, template)) /\ UNCHANGED <<text, template, outcome>>
        /\ Then(<<Do("typespec", 0), Top>>)
    <2>1. /\ Busy("more") /\ token.kind = Comma /\ NextToken /\ UNCHANGED outcome
          /\ Then(<<Do("typespec", 0), Top>>)
      BY Zenon DEF MoreTypes, Comma
    <2> QED
      BY <2>1 DEF Busy, NextToken
  <1>2. PICK f \in BOOLEAN : Lexeme(text, f, token)
    BY DEF WellRead
  <1>3. text[token.from] = Comma /\ token.kind \notin {">>", Semicolon}
    <2>1. Comma \in Signs \ {">"}
      BY SignsApart DEF Signs, AfterType
    <2> QED
      BY <1>1, <1>2, <2>1, LexemeKind, SignsApart
  <1>4. /\ Lexeme(text, template, token') /\ token'.from \in 1..Len(text)
        /\ Adjacent(text[token.from], text[token'.from])
        /\ Nesting(text, token'.from) = Nesting(text, token.from + 1)
        /\ token'.kind = ">>" => ~template /\ Nesting(text, token'.from) >= 2
    BY <1>1, <1>3, NextLexeme
  <1>5. Nesting(text, token'.from) = Nesting(text, token.from)
    <2>1. token.from \in Nat /\ 1 <= token.from /\ text[token.from] \notin {"<", ">"}
      BY <1>3, TypedIs, SignsApart
    <2> QED
      BY <1>4, <2>1, NestingNext
  <1>6. text[token'.from] \in {"A", "*"}
    BY <1>3, <1>4, SignsApart DEF Adjacent
  <1>7. Ahead'
    BY <1>1, <1>4, <1>5, AheadKept
  <1>8. Lined(stack') /\ stack' # <<>> /\ stack'[1].do = "typespec"
    <2> DEFINE s == <<Do("typespec", 0), Top>>
    <2>1. Do("typespec", 0) \in Left /\ Do("typespec", 0).do = "typespec" /\ Top \in Left
      <3>1. Top \in Left
        BY <1>1, TypedIs DEF Top
      <3>2. Do("typespec", 0) \in Left /\ Do("typespec", 0).do = "typespec"
        BY DEF Do, Left
      <3> QED
        BY <3>1, <3>2
    <2>2. s \in Seq(Left) /\ s # <<>> /\ Len(s) = 2 /\ s[1] = Do("typespec", 0) /\ s[2] = Top
      BY <2>1
    <2>3. Then(s)
      BY <1>1
    <2> HIDE DEF s
    <2>4. \A i \in 1..Len(s) - 1 : Over(s[i].do, s[i + 1].do)
      <3>1. Over(s[1].do, s[2].do) /\ 1 + 1 = 2
        BY <1>1, <2>1, <2>2 DEF Over
      <3>2. \A i \in 1..Len(s) - 1 : i = 1
        BY <2>2
      <3> QED
        BY <3>1, <3>2
    <2>5. \A r : Fits(stack[1].do, r) => Fits(s[Len(s)].do, r)
      BY <1>1, <2>2 DEF Top
    <2> QED
      BY <1>1, <2>1, <2>2, <2>3, <2>4, <2>5, ThenLined
  <1>9. Stands(stack', text'[token'.from])
    BY <1>1, <1>6, <1>8 DEF Stands
  <1>10. \E g \in BOOLEAN : Lexeme(text', g, token')
    BY <1>1, <1>4, TypedIs
  <1> QED
    BY <1>1, <1>7, <1>8, <1>9, <1>10 DEF WellRead

\* The flag goes down only where the list ends.
LEMMA StepLower ==
    ASSUME Typed, WellRead, LowerFlag
    PROVE  WellRead'
  <1>1. /\ stack # <<>> /\ Top.do = "lower" /\ Then(<<>>) /\ outcome = "parsing"
        /\ UNCHANGED <<text, pos, token, outcome>>
    BY DEF LowerFlag, EndOfParsingTemplateContext, Busy
  <1>2. Lined(stack') /\ Fits("lower", stack')
    BY <1>1, Popped DEF Top
  <1>3. stack' # <<>> /\ stack'[1].do = "close"
    BY <1>2 DEF Fits, Over
  <1>4. Stands(stack', text'[token'.from])
    BY <1>1, <1>3 DEF WellRead, Stands, Top
  <1>5. Ahead'
    BY <1>1, <1>3 DEF WellRead, Ahead, Top
  <1> QED
    BY <1>1, <1>2, <1>4, <1>5 DEF WellRead

\* The list that is closed was the deepest so far of those around it.
LEMMA StepClose ==
    ASSUME Typed, WellRead, CloseTemplate
    PROVE  WellRead'
  <1>1. /\ stack # <<>> /\ Top.do = "close" /\ token.kind = ">" /\ outcome = "parsing"
        /\ Lexed(LexNextToken(text, pos, template)) /\ UNCHANGED <<text, template, outcome>>
        /\ Then(<<>>)
    BY DEF CloseTemplate, Busy, NextToken
  <1>2. PICK f \in BOOLEAN : Lexeme(text, f, token)
    BY DEF WellRead
  <1>3. text[token.from] = ">" /\ token.kind \notin {">>", Semicolon}
    BY <1>1, <1>2, LexemeKind, SignsApart
  <1>4. /\ Lexeme(text, template, token') /\ token'.from \in 1..Len(text)
        /\ Adjacent(text[token.from], text[token'.from]) /\ text[token'.from] # Space
        /\ Nesting(text, token'.from) = Nesting(text, token.from + 1)
        /\ token'.kind = ">>" => Nesting(text, token'.from) >= 2
    BY <1>1, <1>3, NextLexeme
  <1>5. /\ Nesting(text, token.from) = Nesting(text, token'.from) + 1
        /\ token.from \in DOMAIN text /\ Nesting(text, token'.from) \in Nat
    <2>1. token.from \in Nat /\ 1 <= token.from /\ token.from \in DOMAIN text
          /\ Nesting(text, token.from) \in Nat
      BY TypedIs
    <2>2. Nesting(text, token.from + 1) = Nesting(text, token.from) - 1
      BY <1>3, <2>1, NestingNext
    <2>3. Nesting(text, token'.from) \in Nat
      BY <1>4, TypedIs, InsideList DEF Typed
    <2> QED
      BY <1>4, <2>1, <2>2, <2>3
  <1>6. text[token'.from] \in AfterType
    BY <1>3, <1>4, SignsApart DEF Adjacent
  <1>7. Ahead'
    <2>1. Deep(text', Nesting(text', token'.from) + 1)
      BY <1>1, <1>5 DEF Deep
    <2>2. token'.kind = ">>" => Deep(text', 3)
      BY <1>1, <1>4, <1>5 DEF Deep
    <2> QED
      BY <2>1, <2>2 DEF Ahead
  <1>8. Lined(stack') /\ Fits("close", stack')
    BY <1>1, Popped DEF Top
  <1>9. Stands(stack', text'[token'.from])
    BY <1>1, <1>6, <1>8 DEF Stands, Fits, Over
  <1>10. \E g \in BOOLEAN : Lexeme(text', g, token')
    BY <1>1, <1>4, TypedIs
  <1> QED
    BY <1>1, <1>7, <1>8, <1>9, <1>10 DEF WellRead

\* Only a >> is rejected: it stands where a list is to be closed.
LEMMA StepError ==
    ASSUME Typed, WellRead, SyntaxError
    PROVE  WellRead'
  <1>1. /\ stack # <<>>
        /\ \/ Top.do = "typespec" /\ token.kind \notin {"*", "name"}
           \/ Top.do = "close" /\ token.kind # ">"
        /\ UNCHANGED <<text, token, template, stack>> /\ outcome' = "failed"
    BY DEF SyntaxError, Busy, vars
  <1>2. PICK f \in BOOLEAN : Lexeme(text, f, token)
    BY DEF WellRead
  <1>3. CASE Top.do = "typespec" /\ token.kind \notin {"*", "name"}
    <2>1. text[token.from] \in {"A", "*"} /\ "*" \in Signs \ {">"}
      BY <1>1, <1>3 DEF WellRead, Stands, Top, Signs
    <2> QED
      BY <1>2, <1>3, <2>1, LexemeKind
  <1>4. CASE Top.do = "close" /\ token.kind # ">"
    <2>1. text[token.from] \in {">", Semicolon}
      BY <1>1, <1>4 DEF WellRead, Stands, Top
    <2>2. Nesting(text, token.from) >= 1
      BY <1>1, <1>4, PlaceIs
    <2>3. text[token.from] # Semicolon
      BY <2>2, TypedIs, InsideList DEF Typed
    <2>4. token.kind = ">>"
      BY <1>2, <1>4, <2>1, <2>3, LexemeKind
    <2> QED
      BY <1>1, <2>4 DEF WellRead, Ahead, Top
  <1> QED
    BY <1>1, <1>3, <1>4

\* A type that is accepted has been read to its end.
LEMMA StepReturn ==
    ASSUME Typed, WellRead, Return
    PROVE  WellRead'
  <1>1. stack = <<>> /\ UNCHANGED <<text, token, template, stack>> /\ outcome' = "accepted"
    BY DEF Return, vars
  <1>2. PICK f \in BOOLEAN : Lexeme(text, f, token)
    BY DEF WellRead
  <1>3. Nesting(text, token.from) = 0 /\ text[token.from] \in {">", Comma, Semicolon}
    BY <1>1, PlaceIs DEF WellRead, Stands, AfterType
  <1>4. text[token.from] = Semicolon
    BY <1>3, TypedIs, InsideList DEF Typed
  <1>5. token.kind = Semicolon
    <2>1. Semicolon \in Signs \ {">"}
      BY SignsApart DEF Signs, AfterType
    <2> QED
      BY <1>2, <1>4, <2>1, LexemeKind
  <1> QED
    BY <1>1, <1>5 DEF WellRead, Ahead, Top

\* Every step of the parser, and of the lexer under it.
LEMMA WellReadStep ==
    ASSUME Typed, WellRead, [PNext]_<<vars, pvars>>
    PROVE  WellRead'
  <1>1. CASE Begin \/ Ended \/ UNCHANGED <<vars, pvars>>
    <2>1. UNCHANGED <<text, token, template, stack, outcome>>
      BY <1>1 DEF Begin, SetContextPath, Ended, vars, pvars
    <2> QED
      BY <2>1 DEF WellRead, Ahead, Top
  <1> QED
    BY <1>1, StepPtrspec, StepNamespec, StepBasespec, StepTemplatespec, StepMore, StepNoMore,
       StepLower, StepClose, StepError, StepReturn, Zenon DEF PNext

\* The first token begins at the start of the type.
LEMMA WellReadInit ==
    ASSUME PInit, WellWritten(text)
    PROVE  WellRead
  <1>1. /\ text \in Seq(STRING) /\ token = LexNextToken(text, 1, FALSE)
        /\ stack = <<Do("typespec", 0)>> /\ outcome = "parsing"
    BY TextsAssumption DEF PInit, Init
  <1>2. Len(text) \in Nat /\ 1 \in 1..Len(text) /\ text[1] \in {"A", "*"}
    BY <1>1, WellWrittenIs
  <1>3. Lexeme(text, FALSE, token) /\ token.from = 1
    BY <1>1, <1>2, LexemeAt, SignsApart
  <1>4. Nesting(text, 1) = 0
    <2>1. {i \in 1..1 - 1 : text[i] = "<"} = {} /\ {i \in 1..1 - 1 : text[i] = ">"} = {}
      OBVIOUS
    <2> QED
      BY <2>1, FS_EmptySet DEF Nesting
  <1>5. token.kind # ">>"
    BY <1>2, <1>3, LexemeKind
  <1>6. Ahead
    BY <1>3, <1>4, <1>5 DEF Ahead
  <1>7. stack \in Seq(Left) /\ Len(stack) = 1 /\ stack # <<>> /\ stack[1].do = "typespec"
    BY <1>1 DEF Do, Left
  <1>8. Lined(stack) /\ Stands(stack, text[token.from])
    BY <1>2, <1>3, <1>7 DEF Lined, Stands
  <1> QED
    BY <1>1, <1>3, <1>6, <1>8 DEF WellRead

(***************************************************************************)
(* A well-written type, of any length and with any number of lists inside  *)
(* one another, is read to its end, but when three lists are inside one    *)
(* another and two closing > stand without a blank between them.           *)
(***************************************************************************)
THEOREM OnlyDeepTypesRejected == PSpec => []RejectedOnlyIfDeep
  <1> DEFINE Good == WellWritten(text) => WellRead
             All  == IInv /\ Current /\ FlagInv /\ Matched
  <1>1. PInit => FlagInv /\ Matched /\ Good
    <2>1. PInit => FlagInv
      BY DEF PInit, Init, FlagInv, FlagToLower, Do, Left
    <2> QED
      BY <2>1, MatchedInit, WellReadInit
  <1>2. FlagInv /\ IInv /\ IInv' /\ [PNext]_<<vars, pvars>> => FlagInv'
    BY FlagStep
  <1>3. IInv /\ Current /\ FlagInv /\ Matched /\ [PNext]_<<vars, pvars>> => Matched'
    BY MatchedStep
  <1>4. All /\ Good /\ [PNext]_<<vars, pvars>> => Good'
    <2> SUFFICES ASSUME All, Good, [PNext]_<<vars, pvars>>, WellWritten(text)' PROVE WellRead'
      OBVIOUS
    <2>1. text' = text
      BY ParserStep DEF Next, SetContextPath, NextToken, ParsingTemplateContext,
         EndOfParsingTemplateContext, AtEnd, vars
    <2>2. Typed /\ WellRead
      BY <2>1 DEF Typed
    <2> QED
      BY <2>2, WellReadStep
  <1>5. PSpec => []IInv /\ []Current
    <2>1. IInv /\ Current /\ [Next]_vars => Current'
      BY CurrentStep
    <2> QED
      BY <2>1, ParserDrivesLexer, IInvHolds, CurrentInit, PTL DEF Spec
  <1>6. All /\ Good => RejectedOnlyIfDeep
    <2> SUFFICES ASSUME Typed, WellRead,
                        outcome = "failed" \/ (outcome = "accepted" /\ token.kind # Semicolon)
                 PROVE  /\ \E i \in DOMAIN text : Nesting(text, i) >= 3
                        /\ \E i \in 1..Len(text) - 1 : text[i] = ">" /\ text[i + 1] = ">"
      BY Zenon DEF RejectedOnlyIfDeep, Typed, Semicolon
    <2>1. token.kind = ">>" /\ Deep(text, 3)
      BY DEF WellRead, Ahead
    <2>2. PICK f \in BOOLEAN : Lexeme(text, f, token)
      BY DEF WellRead
    <2>3. /\ token.from \in 1..Len(text) /\ text[token.from] = ">"
          /\ token.from + 1 \in 1..Len(text) /\ text[token.from + 1] = ">"
      BY <2>1, <2>2, LexemeKind, TypedIs
    <2>4. token.from \in 1..Len(text) - 1
      BY <2>3, TypedIs
    <2> QED
      BY <2>1, <2>3, <2>4 DEF Deep
  <1> QED
    BY <1>1, <1>2, <1>3, <1>4, <1>5, <1>6, PTL DEF PSpec
=============================================================================
