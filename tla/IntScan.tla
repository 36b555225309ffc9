------------------------------ MODULE IntScan ------------------------------
(***************************************************************************)
(* Lexer::scanInteger (lexer.cpp): the value of an integer literal, read   *)
(* one character at a time into a signed long, with the test for overflow  *)
(* made in unsigned arithmetic before each digit is taken in.              *)
(*                                                                         *)
(* A character is the value charToInt gives it: 0..9 for the decimal       *)
(* digits, 10..15 for the letters a to f; the letter x and every other     *)
(* character, which are no digits, are numbers above.  The letter b is 11  *)
(* both as a digit and as the prefix of base 2.  A character is chosen     *)
(* when the parse point reaches it; MaxRead bounds a literal's length.     *)
(***************************************************************************)
EXTENDS Integers

CONSTANTS
    LongMax,   \* the largest value of a long
    UMax,      \* UINT64_MAX
    MaxRead    \* the bound on the characters of a literal

ASSUME WidthAssumption ==
    LongMax \in Nat /\ UMax \in Nat /\ 2 * LongMax + 1 <= UMax

VARIABLES
    stage,     \* "start", "prefix", "digits", "skip" or "done"
    char,      \* *parsePoint
    base, val, \* the locals of scanInteger
    said,      \* the messages printed
    exact,     \* history: the value of the literal so far, TooLarge above LongMax
    read       \* the number of characters advanced over

vars == <<stage, char, base, val, said, exact, read>>

Decimal == 0..9
Digits  == 0..15
X       == 16
Other   == 17
Chars   == Digits \cup {X, Other}
Long    == (-LongMax - 1)..LongMax

TooLarge     == LongMax + 1
Saturated(x) == IF x <= LongMax THEN x ELSE TooLarge

Advance == /\ read' = read + 1
           /\ char' \in IF read < MaxRead THEN Chars ELSE {Other}
Stay    == UNCHANGED <<char, read>>

(***************************************************************************)
(* The conversion of a long to the unsigned type of the comparison, the    *)
(* test itself, and the values `val * base + digit` can leave in a long:   *)
(* signed overflow is undefined, so any long can come out of it.           *)
(***************************************************************************)
Signed(v)       == v                       \* mutant: compared as a signed value
Unsigned(v)     == IF v >= 0 THEN v ELSE v + UMax + 1
TooEarly(v, d)  == v >= LongMax \div base  \* mutant: the digit is not looked at
Overflows(v, d) == Unsigned(v) > (UMax - d) \div base
Unbounded(x)    == {x}                     \* mutant: the result is not of the width of a long
SignedResult(x) == IF x \in Long THEN {x} ELSE Long
-----------------------------------------------------------------------------
\* assert(isNumber())
Init ==
    /\ stage = "start" /\ char \in Decimal /\ read = 0
    /\ base = 10 /\ val = 0 /\ said = {} /\ exact = 0

\* The test for a leading zero.
Start ==
    /\ stage = "start"
    /\ IF char = 0 THEN stage' = "prefix" /\ Advance
                   ELSE stage' = "digits" /\ Stay
    /\ UNCHANGED <<base, val, said, exact>>

\* After the zero: x, b, or a digit, which makes the literal octal and is
\* stepped over like the letters.
Prefix ==
    /\ stage = "prefix"
    /\ stage' = "digits"
    /\ base' = CASE char = X         -> 16
                 [] char = 11        -> 2
                 [] char \in Decimal -> 8
                 [] OTHER            -> 10
    /\ IF base' = 10 THEN Stay ELSE Advance
    /\ exact' = IF base' = 8 THEN Saturated(char) ELSE 0
    /\ UNCHANGED <<val, said>>

\* The turns of the loop: the literal ends, a digit is out of the base, a
\* digit would overflow, a digit is taken in.
LiteralEnds ==
    /\ stage = "digits" /\ char \in {X, Other}
    /\ stage' = "done"
    /\ Stay /\ UNCHANGED <<base, val, said, exact>>

OutOfRange ==
    /\ stage = "digits" /\ char \in Digits /\ char >= base
    /\ stage' = "done" /\ said' = said \cup {"range"}
    /\ Stay /\ UNCHANGED <<base, val, exact>>

ReadDigit(d) ==
    /\ stage = "digits" /\ char = d /\ d < base
    /\ exact' = Saturated(exact * base + d)
    /\ UNCHANGED base

Overflow(d) ==
    /\ ReadDigit(d) /\ Overflows(val, d)
    /\ stage' = "skip" /\ val' = 0 /\ said' = said \cup {"overflow"}
    /\ Stay

TakeIn(d) ==
    /\ ReadDigit(d) /\ ~Overflows(val, d)
    /\ val' \in SignedResult(val * base + d)
    /\ Advance
    /\ UNCHANGED <<stage, said>>

\* After an overflow the decimal digits that follow are stepped over; a
\* letter of a hexadecimal literal stays and starts the next token.
Skip ==
    /\ stage = "skip"
    /\ IF char \in Decimal THEN stage' = stage  /\ Advance
                           ELSE stage' = "done" /\ Stay
    /\ UNCHANGED <<base, val, said, exact>>

Finished == stage = "done" /\ UNCHANGED vars

Next ==
    \/ Start \/ Prefix \/ LiteralEnds \/ OutOfRange
    \/ \E d \in Digits : Overflow(d) \/ TakeIn(d)
    \/ Skip \/ Finished

Spec == Init /\ [][Next]_vars
-----------------------------------------------------------------------------
\* Types of the state of scanInteger.
TypeOK ==
    /\ stage \in {"start", "prefix", "digits", "skip", "done"}
    /\ char \in Chars /\ read \in Nat
    /\ base \in {2, 8, 10, 16} /\ val \in Long
    /\ said \subseteq {"range", "overflow"}
    /\ exact \in 0..TooLarge

\* A literal whose value fits in a long is read as that value and never draws
\* the message of an overflow: the test in unsigned arithmetic refuses no
\* digit too early.  An octal literal loses the digit stepped over after its
\* zero, and is only known to be no larger than written.
ExactWhenItFits ==
    exact <= LongMax => /\ "overflow" \notin said
                        /\ val \in 0..exact
                        /\ base # 8 => val = exact

\* A value that has already wrapped to a negative one is not scaled again:
\* seen as unsigned it fails the test of the next digit, which reports the
\* overflow.
NegativeIsCaught ==
    [][val < 0 /\ val' # val => val' = 0 /\ "overflow" \in said']_vars
=============================================================================
