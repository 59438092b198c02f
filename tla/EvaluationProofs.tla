--------------------------- MODULE EvaluationProofs --------------------------
(***************************************************************************)
(* Proof, for every width of the integers, that the values an expression   *)
(* computes are the ones its source stands for.                            *)
(***************************************************************************)
EXTENDS Evaluation, TLAPS

Integral == {"char", "int"}

(* A width is an even number above one, so that it has a half.             *)
LEMMA Widths ==
    ASSUME NEW t \in Integral
    PROVE  \E h \in Nat : h > 0 /\ Width[t] = 2 * h /\ Width[t] \div 2 = h
<1>1. PICK n \in 1..Range8 : Range8 = 2 * n
  BY EvaluationAssumption
<1>2. PICK m \in Range8..Range32 : Range32 = 2 * m
  BY EvaluationAssumption
<1>3. Range8 \in Int /\ Range32 \in Int
  BY <1>1, <1>2
<1>4. CASE t = "char"
  <2>1. n \in Nat /\ n > 0 /\ Width[t] = 2 * n
    BY <1>1, <1>3, <1>4 DEF Width
  <2> QED
    BY <2>1
<1>5. CASE t = "int"
  <2>1. m \in Nat /\ m > 0 /\ Width[t] = 2 * m
    BY <1>1, <1>2, <1>3, <1>5 DEF Width
  <2> QED
    BY <2>1
<1> QED
  BY <1>4, <1>5 DEF Integral

LEMMA CharsAreInts == Width["char"] <= Width["int"] \div 2
<1>1. PICK n \in 1..Range8 : Range8 = 2 * n
  BY EvaluationAssumption
<1>2. PICK m \in Range8..Range32 : Range32 = 2 * m
  BY EvaluationAssumption
<1>3. m \in Int /\ Range8 <= m
  BY <1>1, <1>2
<1> QED
  BY <1>2, <1>3 DEF Width

-----------------------------------------------------------------------------
(* The remainder by a width, of a number that a type of that width holds.  *)
LEMMA Remainder ==
    ASSUME NEW w \in Nat, w > 0, NEW n \in Int
    PROVE  /\ n % w \in 0..(w - 1)
           /\ 0 <= n /\ n < w => n % w = n
           /\ -w <= n /\ n < 0 => n % w = n + w
  OBVIOUS

Half(t) == Width[t] \div 2

(* What Fit gives is in the range of the type, and Fit changes nothing     *)
(* that is there already.                                                  *)
LEMMA FitFits ==
    ASSUME NEW t \in Integral, NEW n \in Int
    PROVE  /\ Half(t) \in Nat
           /\ Fit(t, n) \in Int
           /\ -Half(t) <= Fit(t, n) /\ Fit(t, n) < Half(t)
           /\ -Half(t) <= n /\ n < Half(t) => Fit(t, n) = n
<1>1. PICK h \in Nat : h > 0 /\ Width[t] = 2 * h /\ Width[t] \div 2 = h
  BY Widths
<1> DEFINE w == 2 * h
           r == n % w
<1>2. /\ r \in 0..(w - 1)
      /\ 0 <= n /\ n < w => r = n
      /\ -w <= n /\ n < 0 => r = n + w
  BY <1>1, Remainder
<1>3. t \in DOMAIN Width
  BY DEF Width, Integral
<1>4. Fit(t, n) = IF r >= h THEN r - w ELSE r
  BY <1>1, <1>3 DEF Fit
<1> HIDE DEF r
<1> QED
  BY <1>1, <1>2, <1>4 DEF Half

LEMMA ValuesFit ==
    ASSUME NEW t \in Integral, NEW v \in Int, -Half(t) <= v, v < Half(t)
    PROVE  v \in Values(t)
<1>1. PICK h \in Nat : h > 0 /\ Width[t] = 2 * h /\ Half(t) = h
  BY Widths DEF Half
<1> DEFINE n == v % (2 * h)
<1>2. /\ n \in 0..(2 * h - 1)
      /\ 0 <= v => n = v
      /\ v < 0 => n = v + 2 * h
  BY <1>1, Remainder
<1>3. -h <= v /\ v < h
  BY <1>1
<1>4. n % (2 * h) = n
  BY <1>1, <1>2, Remainder
<1>5. t \in DOMAIN Width /\ t # "double"
  BY DEF Width, Integral
<1> HIDE DEF n
<1>6. Fit(t, n) = v
  BY <1>1, <1>2, <1>3, <1>4, <1>5 DEF Fit, Half
<1> QED
  BY <1>1, <1>2, <1>5, <1>6 DEF Values

-----------------------------------------------------------------------------
(* The inductive invariant: values have their types, and what the source   *)
(* stands for is the value, for an entry in doubt by definition.           *)
Types == Numbers \cup {"boolean"}

InRange(t, v) == /\ t \in Integral => v \in Int /\ -Half(t) <= v /\ v < Half(t)
                 /\ t = "double" => v \in Int
                 /\ t = "boolean" => v \in BOOLEAN

Entries == {e \in [type : Types, value : Int \cup BOOLEAN, meant : Int \cup BOOLEAN,
                   spoilt : BOOLEAN, traps : BOOLEAN] :
              InRange(e.type, e.value) /\ e.meant = e.value}

IInv == stack \in Seq(Entries)

LEMMA EntryIsGood ==
    ASSUME NEW t \in Types, NEW v, NEW m, NEW s \in BOOLEAN, NEW r \in BOOLEAN,
           InRange(t, v), ~s /\ ~r => m = v
    PROVE  Entry(t, v, m, s, r) \in Entries
<1>1. v \in Int \cup BOOLEAN
  BY DEF InRange, Types, Numbers, Integral
<1>2. (IF s \/ r THEN v ELSE m) = v
  OBVIOUS
<1> QED
  BY <1>1, <1>2 DEF Entry, Entries

LEMMA TopIsGood ==
    ASSUME IInv, NEW k \in Nat, k < Len(stack)
    PROVE  /\ Top(k) \in Entries
           /\ Top(k).type \in Types
           /\ Top(k).spoilt \in BOOLEAN
           /\ Top(k).traps \in BOOLEAN
           /\ InRange(Top(k).type, Top(k).value)
           /\ Top(k).meant = Top(k).value
<1>1. Len(stack) \in Nat /\ Len(stack) - k \in 1..Len(stack)
  BY DEF IInv
<1>2. Top(k) \in Entries
  BY <1>1 DEF Top, IInv
<1> QED
  BY <1>2 DEF Entries

LEMMA ReplaceKeeps ==
    ASSUME IInv, NEW k \in Nat, k <= Len(stack), NEW e \in Entries, Replace(k, e)
    PROVE  IInv'
<1>1. Len(stack) \in Nat /\ Len(stack) - k \in 0..Len(stack)
  BY DEF IInv
<1>2. SubSeq(stack, 1, Len(stack) - k) \in Seq(Entries)
  BY <1>1 DEF IInv
<1>3. Append(SubSeq(stack, 1, Len(stack) - k), e) \in Seq(Entries)
  BY <1>2
<1> QED
  BY <1>3 DEF IInv, Replace

-----------------------------------------------------------------------------
(* The operators on numbers.                                               *)
LEMMA FitInRange ==
    ASSUME NEW t \in Numbers, NEW n \in Int
    PROVE  InRange(t, Fit(t, n))
<1>1. CASE t \in Integral
  BY <1>1, FitFits DEF InRange, Integral
<1>2. CASE t = "double"
  <2>1. Fit(t, n) = n
    BY <1>2 DEF Fit, Width
  <2> QED
    BY <1>2, <2>1 DEF InRange, Integral
<1> QED
  BY <1>1, <1>2 DEF Numbers, Integral

LEMMA ValuesInRange ==
    ASSUME NEW t \in Numbers, NEW v \in Values(t)
    PROVE  InRange(t, v)
<1>1. CASE t = "double"
  BY <1>1, EvaluationAssumption DEF Values, InRange, Integral
<1>2. CASE t # "double"
  <2>1. PICK n \in 0..(Width[t] - 1) : v = Fit(t, n)
    BY <1>2 DEF Values
  <2> QED
    BY <2>1, FitInRange
<1> QED
  BY <1>1, <1>2

(* A cast gives a number, and the same one unless it is a negative number  *)
(* cast to double.                                                         *)
LEMMA CastKeeps ==
    ASSUME NEW s \in Numbers, NEW t \in Numbers, NEW v, InRange(s, v)
    PROVE  /\ v \in Int
           /\ Cast(v, s, t) \in Int
           /\ ~(t = "double" /\ s # "double" /\ v < 0) => Cast(v, s, t) = v
<1>1. CASE t = "double" /\ s # "double"
  <2>1. s \in Integral
    BY <1>1 DEF Numbers, Integral
  <2>2. PICK h \in Nat : h > 0 /\ Width[s] = 2 * h /\ Half(s) = h
    BY <2>1, Widths DEF Half
  <2>3. v \in Int /\ v < h
    BY <2>1, <2>2 DEF InRange
  <2>4. v % (2 * h) \in Int /\ (0 <= v => v % (2 * h) = v)
    BY <2>2, <2>3, Remainder
  <2>5. Cast(v, s, t) = v % (2 * h)
    BY <1>1, <2>2 DEF Cast
  <2> QED
    BY <1>1, <2>3, <2>4, <2>5
<1>2. CASE ~(t = "double" /\ s # "double")
  BY <1>2 DEF Cast, InRange, Numbers, Integral
<1> QED
  BY <1>1, <1>2

LEMMA QuotientIsInt ==
    ASSUME NEW l \in Int, NEW r \in Int, r # 0
    PROVE  Quotient(l, r) \in Int
<1>1. Magnitude(l) \in Nat /\ Magnitude(r) \in Nat \ {0}
  BY DEF Magnitude
<1> DEFINE q == Magnitude(l) \div Magnitude(r)
<1>2. q \in Int
  BY <1>1
<1> HIDE DEF q
<1>3. Sign(l) \in {1, -1} /\ Sign(r) \in {1, -1}
  BY DEF Sign
<1>4. Sign(l) * Sign(r) * q \in Int
  BY <1>2, <1>3
<1> QED
  BY <1>4 DEF Quotient, q

Operations == {"PLUS", "SUB", "MUL", "DIV", "MOD"}

LEMMA ComputeIsInt ==
    ASSUME NEW op \in Operations, NEW t, NEW l \in Int, NEW r \in Int, Defined(op, t, l, r)
    PROVE  Compute(op, l, r) \in Int
<1>1. CASE op \in {"DIV", "MOD"}
  <2>1. Quotient(l, r) \in Int
    BY <1>1, QuotientIsInt DEF Defined
  <2>2. r * Quotient(l, r) \in Int
    BY <2>1
  <2> QED
    BY <1>1, <2>1, <2>2 DEF Compute
<1>2. CASE op \in {"PLUS", "SUB", "MUL"}
  BY <1>2 DEF Compute
<1> QED
  BY <1>1, <1>2 DEF Operations

LEMMA CompareIsBoolean ==
    ASSUME NEW op \in {"EQ", "NEQ", "LT", "GT", "LEQ", "GEQ"}, NEW l \in Int, NEW r \in Int
    PROVE  Compare(op, l, r) \in BOOLEAN
<1>1. (l = r) \in BOOLEAN /\ (l # r) \in BOOLEAN /\ (l < r) \in BOOLEAN
        /\ (l > r) \in BOOLEAN /\ (l <= r) \in BOOLEAN /\ (l >= r) \in BOOLEAN
  OBVIOUS
<1> QED
  BY <1>1, Zenon DEF Compare

LEMMA MeetIsNumber ==
    ASSUME NEW s \in Numbers, NEW t \in Numbers
    PROVE  Meet(s, t) \in Numbers
  BY DEF Meet, Numbers

-----------------------------------------------------------------------------
(* What the operators on two numbers share.                                *)
LEMMA TwoNumbersAreGood ==
    ASSUME IInv, TwoNumbers
    PROVE  /\ 2 \in Nat /\ 2 <= Len(stack) /\ 0 < Len(stack) /\ 1 < Len(stack)
           /\ \A k \in {0, 1} : /\ Top(k).type \in Numbers
                                /\ Top(k).spoilt \in BOOLEAN
                                /\ Top(k).traps \in BOOLEAN
                                /\ InRange(Top(k).type, Top(k).value)
                                /\ Top(k).meant = Top(k).value
<1>1. Len(stack) \in Nat /\ Len(stack) >= 2
  BY DEF IInv, TwoNumbers
<1>2. Top(1).type \in Numbers /\ Top(0).type \in Numbers
  BY DEF TwoNumbers
<1> QED
  BY <1>1, <1>2, TopIsGood

(* An operand that is not spoilt enters the operation as it is meant.      *)
LEMMA UnspoiltIsMeant ==
    ASSUME NEW k, NEW t \in Numbers,
           Top(k).type \in Numbers, Top(k).spoilt \in BOOLEAN,
           InRange(Top(k).type, Top(k).value), Top(k).meant = Top(k).value
    PROVE  /\ Spoils(Top(k), t) \in BOOLEAN
           /\ Cast(Top(k).value, Top(k).type, t) \in Int
           /\ ~Spoils(Top(k), t) => Cast(Top(k).value, Top(k).type, t) = Top(k).meant
<1>1. /\ Top(k).value \in Int
      /\ Cast(Top(k).value, Top(k).type, t) \in Int
      /\ ~(t = "double" /\ Top(k).type # "double" /\ Top(k).value < 0)
           => Cast(Top(k).value, Top(k).type, t) = Top(k).value
  BY CastKeeps
<1>2. (Top(k).meant < 0) \in BOOLEAN
  BY <1>1
<1> QED
  BY <1>1, <1>2 DEF Spoils

LEMMA ArithmeticKeeps ==
    ASSUME IInv, NEW op \in Operations, Arithmetic(op)
    PROVE  IInv'
<1> DEFINE t == Meet(Top(1).type, Top(0).type)
           l == Cast(Top(1).value, Top(1).type, t)
           r == Cast(Top(0).value, Top(0).type, t)
           s == Spoils(Top(1), t) \/ Spoils(Top(0), t)
           q == Top(1).traps \/ Top(0).traps
           v == Fit(t, Compute(op, l, r))
           m == Fit(t, Compute(op, Top(1).meant, Top(0).meant))
<1>1. TwoNumbers /\ Defined(op, t, l, r) /\ Replace(2, Entry(t, v, m, s, q))
  BY Zenon DEF Arithmetic, Operate, Left, Right
<1>2. t \in Numbers
  BY <1>1, TwoNumbersAreGood, MeetIsNumber
<1>3. /\ l \in Int /\ r \in Int /\ s \in BOOLEAN /\ q \in BOOLEAN
      /\ ~s => l = Top(1).meant /\ r = Top(0).meant
  BY <1>1, <1>2, TwoNumbersAreGood, UnspoiltIsMeant
<1>4. InRange(t, v)
  BY <1>1, <1>2, <1>3, ComputeIsInt, FitInRange
<1>5. ~s /\ ~q => m = v
  BY <1>3
<1>6. t \in Types
  BY <1>2 DEF Types
<1>7. Entry(t, v, m, s, q) \in Entries
  BY <1>3, <1>4, <1>5, <1>6, EntryIsGood
<1> QED
  BY <1>1, <1>7, TwoNumbersAreGood, ReplaceKeeps

LEMMA ComparisonKeeps ==
    ASSUME IInv, NEW op \in {"EQ", "NEQ", "LT", "GT", "LEQ", "GEQ"}, Comparison(op)
    PROVE  IInv'
<1> DEFINE t == Meet(Top(1).type, Top(0).type)
           l == Cast(Top(1).value, Top(1).type, t)
           r == Cast(Top(0).value, Top(0).type, t)
           s == Spoils(Top(1), t) \/ Spoils(Top(0), t)
           q == Top(1).traps \/ Top(0).traps
           v == Compare(op, l, r)
           m == Compare(op, Top(1).meant, Top(0).meant)
<1>1. TwoNumbers /\ Replace(2, Entry("boolean", v, m, s, q))
  BY Zenon DEF Comparison, Operate, Left, Right
<1>2. t \in Numbers
  BY <1>1, TwoNumbersAreGood, MeetIsNumber
<1>3. /\ l \in Int /\ r \in Int /\ s \in BOOLEAN /\ q \in BOOLEAN
      /\ ~s => l = Top(1).meant /\ r = Top(0).meant
  BY <1>1, <1>2, TwoNumbersAreGood, UnspoiltIsMeant
<1>4. InRange("boolean", v)
  BY <1>3, CompareIsBoolean DEF InRange, Integral
<1>5. ~s /\ ~q => m = v
  BY <1>3
<1>6. "boolean" \in Types
  BY DEF Types
<1>7. Entry("boolean", v, m, s, q) \in Entries
  BY <1>3, <1>4, <1>5, <1>6, EntryIsGood
<1> QED
  BY <1>1, <1>7, TwoNumbersAreGood, ReplaceKeeps

LEMMA ReferencesKeeps ==
    ASSUME IInv, NEW op \in {"EQ", "NEQ"}, NEW a, NEW b, References(op, a, b)
    PROVE  IInv'
<1> DEFINE v == Compare(op, AsReference(a), AsReference(b))
           m == Compare(op, a, b)
           s == a # b /\ AsReference(a) = AsReference(b)
<1>1. Replace(0, Entry("boolean", v, m, s, FALSE))
  BY DEF References
<1>2. v \in BOOLEAN /\ s \in BOOLEAN
  BY Zenon DEF Compare
<1>3. ~s => m = v
  BY DEF Compare
<1>4. "boolean" \in Types /\ InRange("boolean", v)
  BY <1>2 DEF Types, InRange, Integral
<1>5. Entry("boolean", v, m, s, FALSE) \in Entries
  BY <1>2, <1>3, <1>4, EntryIsGood
<1>6. 0 \in Nat /\ 0 <= Len(stack)
  BY DEF IInv
<1> QED
  BY <1>1, <1>5, <1>6, ReplaceKeeps

-----------------------------------------------------------------------------
(* The operators on one value, and the logical ones.                       *)
LEMMA TopOne ==
    ASSUME IInv, stack # <<>>
    PROVE  /\ 1 \in Nat /\ 1 <= Len(stack) /\ 0 \in Nat /\ 0 < Len(stack)
           /\ Top(0).type \in Types
           /\ Top(0).spoilt \in BOOLEAN
           /\ Top(0).traps \in BOOLEAN
           /\ InRange(Top(0).type, Top(0).value)
           /\ Top(0).meant = Top(0).value
<1>1. Len(stack) \in Nat /\ Len(stack) > 0
  BY DEF IInv
<1> QED
  BY <1>1, TopIsGood

(* The value on top is replaced by one of a type t, that is meant if the   *)
(* value on top is.                                                        *)
LEMMA OneValueKeeps ==
    ASSUME IInv, stack # <<>>, NEW t \in Types, NEW v, NEW m, NEW s \in BOOLEAN,
           InRange(t, v), ~s => m = v,
           Replace(1, Entry(t, v, m, s, Top(0).traps))
    PROVE  IInv'
<1>1. Entry(t, v, m, s, Top(0).traps) \in Entries
  BY TopOne, EntryIsGood
<1> QED
  BY <1>1, TopOne, ReplaceKeeps

LEMMA NegationKeeps ==
    ASSUME IInv, Negation
    PROVE  IInv'
<1> DEFINE t == Top(0).type
           v == Fit(t, 0 - Top(0).value)
<1>1. /\ stack # <<>> /\ t \in {"int", "double"}
      /\ Replace(1, Entry(t, v, Fit(t, 0 - Top(0).meant), Top(0).spoilt, Top(0).traps))
  BY Zenon DEF Negation, Unary
<1>2. t \in Types /\ Top(0).meant = Top(0).value /\ Top(0).spoilt \in BOOLEAN
  BY <1>1, TopOne
<1>3. Top(0).value \in Int /\ t \in Numbers
  BY <1>1, TopOne DEF InRange, Integral, Numbers
<1>4. InRange(t, v)
  BY <1>3, FitInRange
<1>5. v = Fit(t, 0 - Top(0).meant)
  BY <1>2
<1> QED
  BY <1>1, <1>2, <1>4, <1>5, OneValueKeeps

LEMMA ComplementKeeps ==
    ASSUME IInv, Complement
    PROVE  IInv'
<1> DEFINE t == Top(0).type
           v == Fit(t, -1 - Top(0).value)
<1>1. /\ stack # <<>> /\ t \in {"char", "int"}
      /\ Replace(1, Entry(t, v, Fit(t, -1 - Top(0).meant), Top(0).spoilt, Top(0).traps))
  BY Zenon DEF Complement, Unary
<1>2. t \in Types /\ Top(0).meant = Top(0).value /\ Top(0).spoilt \in BOOLEAN
  BY <1>1, TopOne
<1>3. Top(0).value \in Int /\ t \in Numbers
  BY <1>1, TopOne DEF InRange, Integral, Numbers
<1>4. InRange(t, v)
  BY <1>3, FitInRange
<1>5. v = Fit(t, -1 - Top(0).meant)
  BY <1>2
<1> QED
  BY <1>1, <1>2, <1>4, <1>5, OneValueKeeps

LEMMA NotKeeps ==
    ASSUME IInv, Not
    PROVE  IInv'
<1> DEFINE t == Top(0).type
           v == ~Top(0).value
<1>1. /\ stack # <<>> /\ t = "boolean"
      /\ Replace(1, Entry(t, v, ~Top(0).meant, Top(0).spoilt, Top(0).traps))
  BY Zenon DEF Not, Unary
<1>2. t \in Types /\ Top(0).meant = Top(0).value /\ Top(0).spoilt \in BOOLEAN
  BY <1>1, TopOne
<1>3. InRange(t, v)
  BY <1>1 DEF InRange, Integral
<1>4. v = ~Top(0).meant
  BY <1>2
<1> QED
  BY <1>1, <1>2, <1>3, <1>4, OneValueKeeps

LEMMA WideningKeeps ==
    ASSUME IInv, NEW t \in {"int", "double"}, Widening(t)
    PROVE  IInv'
<1> DEFINE f == Top(0).type
           v == Cast(Top(0).value, f, t)
<1>1. /\ stack # <<>> /\ f \in Numbers /\ f # t /\ Meet(f, t) = t
      /\ Replace(1, Entry(t, v, Top(0).meant, Spoils(Top(0), t), Top(0).traps))
  BY DEF Widening
<1>2. t \in Numbers /\ t \in Types
  BY DEF Types, Numbers
<1>3. /\ Top(0).spoilt \in BOOLEAN /\ InRange(f, Top(0).value)
      /\ Top(0).meant = Top(0).value
  BY <1>1, TopOne
<1>4. /\ Spoils(Top(0), t) \in BOOLEAN /\ v \in Int
      /\ ~Spoils(Top(0), t) => v = Top(0).meant
  BY <1>1, <1>2, <1>3, UnspoiltIsMeant
<1>5. InRange(t, v)
  <2>1. CASE t = "double"
    BY <1>4, <2>1 DEF InRange, Integral
  <2>2. CASE t = "int"
    <3>1. f = "char"
      BY <1>1, <2>2 DEF Meet, Numbers
    <3>2. v = Top(0).value
      BY <2>2 DEF Cast
    <3>3. PICK h \in Nat : Width["char"] = 2 * h /\ Half("char") = h
      BY Widths DEF Half, Integral
    <3>4. Half("int") \in Nat
      BY FitFits DEF Integral
    <3>5. -Half("int") <= v /\ v < Half("int")
      BY <1>3, <1>4, <3>1, <3>2, <3>3, <3>4, CharsAreInts DEF InRange, Integral, Half
    <3> QED
      BY <1>4, <2>2, <3>5 DEF InRange
  <2> QED
    BY <2>1, <2>2
<1> QED
  BY <1>1, <1>2, <1>4, <1>5, OneValueKeeps

LEMMA LogicalKeeps ==
    ASSUME IInv, NEW op, NEW decides \in BOOLEAN, Logical(op, decides)
    PROVE  IInv'
<1> DEFINE l == Top(1)
           r == Top(0)
           v == IF op = "LAND" THEN l.value /\ r.value ELSE l.value \/ r.value
           m == IF op = "LAND" THEN l.meant /\ r.meant ELSE l.meant \/ r.meant
           s == l.spoilt \/ r.spoilt
           q == l.traps \/ (l.meant # decides /\ r.traps)
<1>1. /\ Len(stack) >= 2 /\ l.type = "boolean" /\ r.type = "boolean"
      /\ Replace(2, Entry("boolean", v, m, s, q))
  BY Zenon DEF Logical
<1>2. Len(stack) \in Nat
  BY DEF IInv
<1>3. /\ l.spoilt \in BOOLEAN /\ l.traps \in BOOLEAN /\ l.meant = l.value
      /\ r.spoilt \in BOOLEAN /\ r.traps \in BOOLEAN /\ r.meant = r.value
  BY <1>1, <1>2, TopIsGood
<1>4. m = v
  BY <1>3
<1>5. "boolean" \in Types /\ v \in BOOLEAN /\ s \in BOOLEAN /\ q \in BOOLEAN
  BY <1>3 DEF Types
<1>6. InRange("boolean", v)
  BY <1>5 DEF InRange, Integral
<1>7. Entry("boolean", v, m, s, q) \in Entries
  BY <1>4, <1>5, <1>6, EntryIsGood
<1> QED
  BY <1>1, <1>2, <1>7, ReplaceKeeps

-----------------------------------------------------------------------------
(* Operands.                                                               *)
LEMMA OperandKeeps ==
    ASSUME IInv, NEW t \in Types, NEW v, NEW m, NEW s \in BOOLEAN, NEW q \in BOOLEAN,
           InRange(t, v), ~s => m = v, Replace(0, Entry(t, v, m, s, q))
    PROVE  IInv'
<1>1. Entry(t, v, m, s, q) \in Entries
  BY EntryIsGood
<1>2. 0 \in Nat /\ 0 <= Len(stack)
  BY DEF IInv
<1> QED
  BY <1>1, <1>2, ReplaceKeeps

LEMMA VariableKeeps ==
    ASSUME IInv, Variable
    PROVE  IInv'
<1>1. PICK t \in Numbers : \E v \in Values(t) : Replace(0, Entry(t, v, v, FALSE, FALSE))
  BY DEF Variable
<1>2. PICK v \in Values(t) : Replace(0, Entry(t, v, v, FALSE, FALSE))
  BY <1>1
<1>3. t \in Types
  BY DEF Types
<1> QED
  BY <1>2, <1>3, ValuesInRange, OperandKeeps

LEMMA IntegerLiteralKeeps ==
    ASSUME IInv, IntegerLiteral
    PROVE  IInv'
<1>1. PICK n \in Literals :
        Replace(0, Entry("int", Fit("int", n), n, n >= Range32 \div 2, FALSE))
  BY DEF IntegerLiteral
<1>2. n \in Nat
  BY EvaluationAssumption
<1>3. "int" \in Types /\ "int" \in Numbers /\ "int" \in Integral
  BY DEF Types, Numbers, Integral
<1>4. InRange("int", Fit("int", n))
  BY <1>2, <1>3, FitInRange
<1>5. Half("int") \in Nat /\ Half("int") = Range32 \div 2
  BY <1>2, <1>3, FitFits DEF Half, Width
<1>6. (n >= Range32 \div 2) \in BOOLEAN
  BY <1>2, <1>5
<1>7. ~(n >= Range32 \div 2) => n = Fit("int", n)
  BY <1>2, <1>3, <1>5, FitFits
<1> QED
  BY <1>1, <1>3, <1>4, <1>6, <1>7, OperandKeeps

LEMMA FieldAccessKeeps ==
    ASSUME IInv, NEW x, FieldAccess(x)
    PROVE  IInv'
<1>1. "int" \in Types /\ "int" \in Numbers
  BY DEF Types, Numbers
<1>2. CASE variable[x] = Null
  <2>1. Replace(0, Entry("int", 0, 0, FALSE, TRUE))
    BY <1>2 DEF FieldAccess
  <2>2. PICK h \in Nat : h > 0 /\ Half("int") = h
    BY Widths DEF Half, Integral
  <2>3. InRange("int", 0)
    BY <2>2 DEF InRange, Integral
  <2> QED
    BY <1>1, <2>1, <2>3, OperandKeeps
<1>3. CASE variable[x] # Null
  <2>1. PICK v \in Values("int") : Replace(0, Entry("int", v, v, FALSE, FALSE))
    BY <1>3 DEF FieldAccess
  <2> QED
    BY <1>1, <2>1, ValuesInRange, OperandKeeps
<1> QED
  BY <1>2, <1>3

-----------------------------------------------------------------------------
LEMMA NextKeeps == IInv /\ [Next]_vars => IInv'
<1> SUFFICES ASSUME IInv, [Next]_vars
             PROVE  IInv'
  OBVIOUS
<1>1. CASE Variable \/ IntegerLiteral
  BY <1>1, VariableKeeps, IntegerLiteralKeeps
<1>2. CASE Negation \/ Complement \/ Not
  BY <1>2, NegationKeeps, ComplementKeeps, NotKeeps
<1>3. ASSUME NEW x \in Variables, FieldAccess(x)
      PROVE  IInv'
  BY <1>3, FieldAccessKeeps
<1>4. ASSUME NEW op \in {"PLUS", "SUB", "MUL", "DIV", "MOD"}, Arithmetic(op)
      PROVE  IInv'
  BY <1>4, ArithmeticKeeps DEF Operations
<1>5. ASSUME NEW op \in {"EQ", "NEQ", "LT", "GT", "LEQ", "GEQ"}, Comparison(op)
      PROVE  IInv'
  BY <1>5, ComparisonKeeps
<1>6. ASSUME NEW op \in {"EQ", "NEQ"}, NEW a, NEW b, References(op, a, b)
      PROVE  IInv'
  BY <1>6, ReferencesKeeps
<1>7. CASE Logical("LAND", FALSE) \/ Logical("LOR", TRUE)
  BY <1>7, LogicalKeeps
<1>8. ASSUME NEW t \in {"int", "double"}, Widening(t)
      PROVE  IInv'
  BY <1>8, WideningKeeps
<1>9. CASE UNCHANGED vars
  BY <1>9 DEF IInv, vars
<1> QED
  BY <1>1, <1>2, <1>3, <1>4, <1>5, <1>6, <1>7, <1>8, <1>9 DEF Next

LEMMA InvariantMeans == IInv => ValuesAreMeant
<1> SUFFICES ASSUME IInv, NEW k \in DOMAIN stack
             PROVE  /\ stack[k].type \in DOMAIN Width => stack[k].value \in Values(stack[k].type)
                    /\ stack[k].value = stack[k].meant
  BY DEF ValuesAreMeant
<1>1. /\ InRange(stack[k].type, stack[k].value)
      /\ stack[k].value = stack[k].meant
  BY DEF IInv, Entries
<1>2. DOMAIN Width = Integral
  BY DEF Width, Integral
<1>3. ASSUME stack[k].type \in Integral
      PROVE  stack[k].value \in Values(stack[k].type)
  BY <1>1, <1>3, ValuesFit DEF InRange
<1> QED
  BY <1>1, <1>2, <1>3

(* The values computed are the ones the source stands for, for every width *)
(* of the integers, every set of literals, doubles and addresses, and      *)
(* expressions of every length (visitCast, visitBinaryOperator).           *)
THEOREM MeantValues == Spec => []ValuesAreMeant
<1>1. Init => IInv
  BY DEF Init, IInv
<1> QED
  BY <1>1, NextKeeps, InvariantMeans, PTL DEF Spec
=============================================================================
