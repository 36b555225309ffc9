--------------------------- MODULE IntScanProofs ---------------------------
(***************************************************************************)
(* The theorems of IntScan, for longs and unsigned integers of any width.  *)
(***************************************************************************)
EXTENDS IntScan, TLAPS

\* The division of the test cannot round a digit away that still fits: a value
\* that fits once scaled and added to fits the quotient.
LEMMA NoEarlyOverflow ==
    ASSUME TypeOK, NEW d \in Digits, 0 <= val, val * base + d <= LongMax
    PROVE  ~Overflows(val, d)
<1>1. UMax - d \in Int /\ val * base <= UMax - d
    BY WidthAssumption DEF TypeOK, Digits, Long
<1>2. CASE base = 2   BY <1>1, <1>2, WidthAssumption DEF TypeOK, Overflows, Unsigned, Long, Digits
<1>3. CASE base = 8   BY <1>1, <1>3, WidthAssumption DEF TypeOK, Overflows, Unsigned, Long, Digits
<1>4. CASE base = 10  BY <1>1, <1>4, WidthAssumption DEF TypeOK, Overflows, Unsigned, Long, Digits
<1>5. CASE base = 16  BY <1>1, <1>5, WidthAssumption DEF TypeOK, Overflows, Unsigned, Long, Digits
<1> QED BY <1>2, <1>3, <1>4, <1>5 DEF TypeOK

\* A negative long, seen as unsigned, is above every quotient of the test.
LEMMA NegativeOverflows ==
    ASSUME TypeOK, NEW d \in Digits, val < 0
    PROVE  Overflows(val, d)
<1>1. Unsigned(val) = val + UMax + 1 /\ 2 * Unsigned(val) > UMax
    BY WidthAssumption DEF TypeOK, Unsigned, Long
<1>2. CASE base = 2   BY <1>1, <1>2, WidthAssumption DEF TypeOK, Overflows, Long, Digits
<1>3. CASE base = 8   BY <1>1, <1>3, WidthAssumption DEF TypeOK, Overflows, Long, Digits
<1>4. CASE base = 10  BY <1>1, <1>4, WidthAssumption DEF TypeOK, Overflows, Long, Digits
<1>5. CASE base = 16  BY <1>1, <1>5, WidthAssumption DEF TypeOK, Overflows, Long, Digits
<1> QED BY <1>2, <1>3, <1>4, <1>5 DEF TypeOK

\* What SignedResult leaves is a long.
LEMMA SignedResultType == ASSUME NEW x \in Int PROVE SignedResult(x) \subseteq Long
  BY DEF SignedResult, Long

LEMMA SaturatedType ==
    ASSUME NEW x \in Nat
    PROVE  /\ Saturated(x) \in 0..TooLarge
           /\ Saturated(x) <= LongMax => x <= LongMax /\ Saturated(x) = x
  BY WidthAssumption DEF Saturated, TooLarge
-----------------------------------------------------------------------------
\* What holds besides the types: the start of the scan has read nothing, and
\* the loop is left for "skip" only with the overflow said.
ScanInv ==
    /\ TypeOK
    /\ stage \in {"start", "prefix"} => base = 10 /\ val = 0 /\ exact = 0 /\ said = {}
    /\ stage = "digits" => "overflow" \notin said
    /\ ExactWhenItFits

LEMMA InitScan == Init => ScanInv
  BY WidthAssumption DEF Init, ScanInv, TypeOK, ExactWhenItFits, Chars, Decimal, Digits, Long, TooLarge

LEMMA AdvanceType == ASSUME TypeOK, Advance \/ Stay PROVE char' \in Chars /\ read' \in Nat
  BY DEF TypeOK, Advance, Stay, Chars

LEMMA NextScan == ScanInv /\ [Next]_vars => ScanInv'
<1> SUFFICES ASSUME ScanInv, [Next]_vars PROVE ScanInv'  OBVIOUS
<1> USE DEF ScanInv
<1>1. CASE Start
    <2>1. char' \in Chars /\ read' \in Nat  BY <1>1, AdvanceType DEF Start
    <2> QED BY <1>1, <2>1 DEF Start, TypeOK, ExactWhenItFits
<1>2. CASE Prefix
    <2>1. char' \in Chars /\ read' \in Nat  BY <1>2, AdvanceType DEF Prefix
    <2>2. base' \in {2, 8, 10, 16}  BY <1>2 DEF Prefix
    <2>3. base' = 8 => char \in Nat
        BY <1>2, Z3 DEF Prefix, X, Decimal
    <2>4. exact' \in 0..TooLarge /\ (base' # 8 => exact' = 0)
        BY <1>2, <2>3, SaturatedType, WidthAssumption DEF Prefix, TooLarge
    <2>5. val' = 0 /\ said' = {} /\ stage' = "digits"
        BY <1>2 DEF Prefix
    <2> QED BY <2>1, <2>2, <2>4, <2>5, WidthAssumption DEF TypeOK, ExactWhenItFits, Long, TooLarge
<1>3. CASE LiteralEnds
    BY <1>3, AdvanceType DEF LiteralEnds, TypeOK, ExactWhenItFits
<1>4. CASE OutOfRange
    BY <1>4, AdvanceType DEF OutOfRange, TypeOK, ExactWhenItFits
<1>5. ASSUME NEW d \in Digits, ReadDigit(d)
      PROVE  /\ val * base + d \in Int /\ exact * base + d \in Nat
             /\ exact' \in 0..TooLarge /\ base' = base
             /\ exact' <= LongMax =>
                  /\ exact <= LongMax /\ exact' = exact * base + d
                  /\ val * base + d \in 0..exact'
                  /\ base # 8 => val * base + d = exact'
    <2>1. exact * base + d \in Nat /\ val * base + d \in Int
        BY WidthAssumption DEF TypeOK, Digits, Long, TooLarge
    <2>2. exact' = Saturated(exact * base + d) /\ UNCHANGED base
        BY <1>5 DEF ReadDigit
    <2>3. exact' \in 0..TooLarge
        BY <2>1, <2>2, SaturatedType
    <2>4. ASSUME exact' <= LongMax
          PROVE  /\ exact <= LongMax /\ exact' = exact * base + d
                 /\ val * base + d \in 0..exact'
                 /\ base # 8 => val * base + d = exact'
        <3>1. exact' = exact * base + d /\ exact * base + d <= LongMax
            BY <2>1, <2>2, <2>4, SaturatedType
        <3>2. exact <= exact * base + d
            BY WidthAssumption DEF TypeOK, Digits, TooLarge
        <3>3. exact <= LongMax /\ val \in 0..exact /\ (base # 8 => val = exact)
            BY <3>1, <3>2, WidthAssumption DEF TypeOK, ExactWhenItFits, TooLarge, Digits
        <3>4. val * base + d \in 0..(exact * base + d)
            BY <3>3, WidthAssumption DEF TypeOK, Digits, TooLarge
        <3> QED BY <3>1, <3>3, <3>4
    <2> QED BY <2>1, <2>2, <2>3, <2>4 DEF TypeOK
<1>6. ASSUME NEW d \in Digits, Overflow(d) PROVE ScanInv'
    <2>1. ReadDigit(d) /\ Overflows(val, d)  BY <1>6 DEF Overflow
    <2>2. ~ (exact' <= LongMax)
        <3> SUFFICES ASSUME exact' <= LongMax PROVE FALSE  OBVIOUS
        <3>1. val * base + d \in 0..exact' /\ exact <= LongMax  BY <1>5, <2>1
        <3>2. 0 <= val  BY <3>1 DEF ExactWhenItFits
        <3>3. val * base + d <= LongMax
            BY <1>5, <2>1, <3>1, WidthAssumption DEF TooLarge
        <3> QED BY <2>1, <3>2, <3>3, NoEarlyOverflow
    <2>3. char' \in Chars /\ read' \in Nat  BY <1>6, AdvanceType DEF Overflow
    <2> QED BY <1>5, <1>6, <2>1, <2>2, <2>3, WidthAssumption
            DEF Overflow, TypeOK, ExactWhenItFits, Long
<1>7. ASSUME NEW d \in Digits, TakeIn(d) PROVE ScanInv'
    <2>1. ReadDigit(d)  BY <1>7 DEF TakeIn
    <2>2. stage = "digits" /\ stage' = stage /\ said' = said
        BY <1>7, <2>1 DEF TakeIn, ReadDigit
    <2>3. val' \in SignedResult(val * base + d)  BY <1>7 DEF TakeIn
    <2>4. val' \in Long  BY <1>5, <2>1, <2>3, SignedResultType
    <2>5. exact' <= LongMax => val' = val * base + d
        <3> SUFFICES ASSUME exact' <= LongMax PROVE val' = val * base + d  OBVIOUS
        <3>1. val * base + d \in Long
            BY <1>5, <2>1, WidthAssumption DEF Long, TooLarge
        <3> QED BY <2>3, <3>1 DEF SignedResult
    <2>6. char' \in Chars /\ read' \in Nat  BY <1>7, AdvanceType DEF TakeIn
    <2> QED BY <1>5, <2>1, <2>2, <2>4, <2>5, <2>6 DEF TypeOK, ExactWhenItFits
<1>8. CASE Skip
    <2>1. char' \in Chars /\ read' \in Nat  BY <1>8, AdvanceType DEF Skip
    <2> QED BY <1>8, <2>1 DEF Skip, TypeOK, ExactWhenItFits
<1>9. CASE UNCHANGED vars
    BY <1>9 DEF vars, TypeOK, ExactWhenItFits
<1> QED BY <1>1, <1>2, <1>3, <1>4, <1>6, <1>7, <1>8, <1>9 DEF Next, Finished

\* The state of the scan keeps its types.
THEOREM ScanTypeCorrect == Spec => []TypeOK
<1>1. ScanInv => TypeOK  BY DEF ScanInv
<1> QED BY <1>1, InitScan, NextScan, PTL DEF Spec

\* ExactWhenItFits for every width of the long and of the unsigned test.
THEOREM ScanExact == Spec => []ExactWhenItFits
<1>1. ScanInv => ExactWhenItFits  BY DEF ScanInv
<1> QED BY <1>1, InitScan, NextScan, PTL DEF Spec

\* NegativeIsCaught for every width of the long and of the unsigned test.
THEOREM ScanNegative == Spec => NegativeIsCaught
<1>1. ScanInv /\ [Next]_vars =>
        [val < 0 /\ val' # val => val' = 0 /\ "overflow" \in said']_vars
    <2> SUFFICES ASSUME ScanInv, Next, val < 0, val' # val
                 PROVE  val' = 0 /\ "overflow" \in said'
        BY DEF vars
    <2>1. PICK d \in Digits : Overflow(d) \/ TakeIn(d)
        BY DEF Next, Start, Prefix, LiteralEnds, OutOfRange, Skip, Finished, vars
    <2>2. ~TakeIn(d)
        BY NegativeOverflows DEF TakeIn, ScanInv
    <2> QED BY <2>1, <2>2 DEF Overflow
<1> QED BY <1>1, InitScan, NextScan, PTL DEF Spec, NegativeIsCaught
=============================================================================
