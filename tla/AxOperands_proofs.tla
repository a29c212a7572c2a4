--------------------------- MODULE AxOperands_proofs ---------------------------
(***************************************************************************)
(* The operand encodings, the order CMP decides and the memory map of      *)
(* VM/altairx_v2, for words, fields and memories of every size: TLC checks *)
(* them on words of 8 bits, the machine has 64.                            *)
(***************************************************************************)
EXTENDS AxOperands, TLAPS

-----------------------------------------------------------------------------
(* Numbers.                                                                *)

\* A number is its quotient and its remainder.
LEMMA QuotientRemainder ==
  ASSUME NEW a \in Nat, NEW b \in Nat \ {0}
  PROVE  /\ a \div b \in Nat /\ a % b \in 0 .. b - 1
         /\ a = (a \div b) * b + (a % b)
OBVIOUS

\* The remainder of a number below the divisor, and of one that is negative.
LEMMA SmallRemainder ==
  ASSUME NEW a \in Int, NEW b \in Nat \ {0}
  PROVE  /\ 0 <= a /\ a < b => a % b = a
         /\ 0 - b <= a /\ a < 0 => a % b = a + b
OBVIOUS

\* A quotient is bounded by the factors of a bound.
LEMMA QuotientBound ==
  ASSUME NEW a \in Nat, NEW b \in Nat \ {0}, NEW c \in Nat
  PROVE  /\ a < c * b => a \div b < c
         /\ a >= c * b => a \div b >= c
OBVIOUS

\* The remainder of a number in the last of t blocks of length b.
LEMMA LastBlock ==
  ASSUME NEW b \in Nat \ {0}, NEW t \in Nat \ {0}, NEW a \in Nat,
         b * t - b <= a, a < b * t
  PROVE  a % b = a - (b * t - b)
<1> DEFINE c == a - (b * t - b)
           q == a \div b
           e == a % b
<1>1. c \in Nat /\ c < b /\ a = (t - 1) * b + c  OBVIOUS
<1>2. q \in Nat /\ e \in 0 .. b - 1 /\ a = q * b + e  BY QuotientRemainder
<1> HIDE DEF c, q, e
<1>3. CASE q < t - 1
  <2>1. PICK d \in Nat : t - 1 = q + 1 + d  BY <1>2, <1>3
  <2>2. (t - 1) * b = q * b + b + d * b /\ d * b \in Nat /\ q * b \in Nat  BY <1>2, <2>1
  <2> QED BY <1>1, <1>2, <2>2
<1>4. CASE q > t - 1
  <2>1. PICK d \in Nat : q = t - 1 + 1 + d  BY <1>2, <1>4
  <2>2. q * b = (t - 1) * b + b + d * b /\ d * b \in Nat /\ (t - 1) * b \in Nat  BY <1>2, <2>1
  <2> QED BY <1>1, <1>2, <2>2
<1>5. CASE q = t - 1
  <2>1. (t - 1) * b \in Nat  OBVIOUS
  <2>2. e = c  BY <1>1, <1>2, <1>5, <2>1
  <2> QED BY <2>2 DEF c, e
<1> QED BY <1>2, <1>3, <1>4, <1>5

-----------------------------------------------------------------------------
(* Words.                                                                  *)

\* The width of a word, in two parts.
LEMMA WordSplit ==
  ASSUME NEW m \in 0 .. Bits
  PROVE  2 ^ m \in Nat \ {0} /\ 2 ^ (Bits - m) \in Nat \ {0} /\ W = 2 ^ m * 2 ^ (Bits - m)
<1>1. Bits \in Nat  BY WidthAssumption DEF Bits
<1>2. Bits - m \in 0 .. Bits /\ m + (Bits - m) = Bits  BY <1>1
<1> QED BY <1>2, PowerAssumption DEF W

\* A word is even.
LEMMA WordEven == /\ W \in Nat \ {0} /\ W \div 2 \in Nat \ {0} /\ W = 2 * (W \div 2)
                  /\ 1 \in 0 .. Bits
<1>1. 1 \in 0 .. Bits  BY WidthAssumption DEF Bits
<1>2. 2 ^ 1 = 2  OBVIOUS
<1>3. PICK h \in Nat \ {0} : W = 2 * h  BY <1>1, <1>2, WordSplit
<1> QED BY <1>1, <1>3

-----------------------------------------------------------------------------
(* The moveix: its bits sit above the m low bits of a constant.            *)

\* Where a constant of m bits and a moveix lies among the words: at the bottom
\* or, if it is negative, at the top.
LEMMA RangeBounds ==
  ASSUME NEW m \in Nat, m + MoveixBits < Bits, NEW c \in 0 .. W - 1,
         InSignedRange(c, m + MoveixBits + 1)
  PROVE  /\ m \in 0 .. Bits - 1 /\ 2 ^ m \in Nat \ {0} /\ MoveixRadix \in Nat \ {0}
         /\ 2 ^ (Bits - m) \in Nat \ {0} /\ W = 2 ^ m * 2 ^ (Bits - m)
         /\ \E t \in Nat \ {0} : 2 ^ (Bits - m) = MoveixRadix * t
         /\ Signed(c) >= 0 => c < MoveixRadix * 2 ^ m
         /\ Signed(c) < 0 => c >= W - MoveixRadix * 2 ^ m
<1>1. MoveixBits \in Nat /\ Bits \in Nat  BY WidthAssumption, OperandAssumption DEF Bits
<1>2. m \in 0 .. Bits /\ MoveixBits \in 0 .. Bits /\ m + MoveixBits \in 0 .. Bits  BY <1>1
<1>3. 2 ^ (m + MoveixBits) = 2 ^ m * MoveixRadix /\ 2 ^ m \in Nat \ {0} /\ MoveixRadix \in Nat \ {0}
  BY <1>2, PowerAssumption DEF MoveixRadix
<1>4. 2 ^ (Bits - m) \in Nat \ {0} /\ W = 2 ^ m * 2 ^ (Bits - m)  BY <1>2, WordSplit
<1>5. \E t \in Nat \ {0} : 2 ^ (Bits - m) = MoveixRadix * t
  <2> DEFINE n == Bits - m - MoveixBits
  <2>1. n \in 0 .. Bits /\ MoveixBits + n = Bits - m /\ MoveixBits + n <= Bits  BY <1>1, <1>2
  <2> HIDE DEF n
  <2>2. 2 ^ (MoveixBits + n) = 2 ^ MoveixBits * 2 ^ n /\ 2 ^ n \in Nat \ {0}
    BY <1>2, <2>1, PowerAssumption
  <2> QED BY <2>1, <2>2 DEF MoveixRadix
<1>6. (m + MoveixBits + 1) - 1 = m + MoveixBits  BY <1>1
<1>7. Signed(c) \in -(2 ^ m * MoveixRadix) .. 2 ^ m * MoveixRadix - 1
  <2>1. 2 ^ ((m + MoveixBits + 1) - 1) = 2 ^ m * MoveixRadix  BY <1>3, <1>6, Zenon
  <2>2. Signed(c) \in -(2 ^ ((m + MoveixBits + 1) - 1)) .. 2 ^ ((m + MoveixBits + 1) - 1) - 1
    BY Zenon DEF InSignedRange
  <2> QED BY <2>1, <2>2
<1>8. Signed(c) = IF c >= W \div 2 THEN c - W ELSE c  BY DEF Signed
<1>9. 2 ^ m * MoveixRadix = MoveixRadix * 2 ^ m /\ MoveixRadix * 2 ^ m \in Nat  BY <1>3
<1>10. Signed(c) >= 0 => c < MoveixRadix * 2 ^ m  BY <1>7, <1>8, <1>9, WordEven
<1>11. Signed(c) < 0 => c >= W - MoveixRadix * 2 ^ m  BY <1>7, <1>8, <1>9, WordEven
<1> QED BY <1>1, <1>2, <1>3, <1>4, <1>5, <1>10, <1>11

\* The bits of a constant above bit m, moved to their place and joined with its
\* low bits, below zeros or ones, give it back.
LEMMA MoveixJoin ==
  ASSUME NEW m \in Nat, m + MoveixBits < Bits, NEW c \in 0 .. W - 1,
         InSignedRange(c, m + MoveixBits + 1)
  PROVE  LET high == Shl(MoveixPart(c, m), m)
         IN /\ Signed(c) >= 0 => Xor(c % 2 ^ m, high) = c /\ Or(c % 2 ^ m, high) = c
            /\ Signed(c) < 0 => Xor(W - 2 ^ m + (c % 2 ^ m), high) = c
<1> DEFINE P == 2 ^ m
           Q == 2 ^ (Bits - m)
           R == MoveixRadix
           h == c \div P
           low == c % P
<1>1. /\ m \in 0 .. Bits - 1 /\ P \in Nat \ {0} /\ R \in Nat \ {0} /\ Q \in Nat \ {0}
      /\ W = P * Q
      /\ Signed(c) >= 0 => c < R * P
      /\ Signed(c) < 0 => c >= W - R * P
  BY RangeBounds
<1>2. PICK t \in Nat \ {0} : Q = R * t  BY RangeBounds
<1>3. c \in Nat /\ c < W /\ W \in Nat \ {0} /\ Bits \in Nat \ {0}
  BY WordEven, WidthAssumption DEF Bits
<1>4. h \in Nat /\ low \in 0 .. P - 1 /\ c = h * P + low  BY <1>1, <1>3, QuotientRemainder
<1>5. h < Q
  <2>1. c < Q * P  BY <1>1, <1>3
  <2> QED BY <1>1, <1>3, <2>1, QuotientBound
<1>6. MoveixPart(c, m) = IF Signed(c) < 0 THEN R - 1 - (h % R) ELSE h % R
  BY DEF MoveixPart
<1>7. \A x : Shl(x, m) = (x * P) % W
  <2>1. m % Bits = m  BY <1>1, <1>3, SmallRemainder
  <2> QED BY <2>1 DEF Shl
<1> HIDE DEF P, Q, h, low, R
<1>8. \A x \in 0 .. Q - 1 : /\ x * P \in Nat /\ (x * P) % W = x * P
                            /\ Or(low, x * P) = low + x * P
                            /\ Xor(low, x * P) = low + x * P
                            /\ Xor(W - P + low, x * P) = W - P + low - x * P
  <2> TAKE x \in 0 .. Q - 1
  <2>1. x * P \in Nat /\ x * P < W
    <3>1. PICK d \in Nat \ {0} : Q = x + d  BY <1>1
    <3>2. W = x * P + d * P /\ d * P \in Nat \ {0} /\ x * P \in Nat  BY <1>1, <3>1
    <3> QED BY <3>2
  <2>2. (x * P) % W = x * P  BY <1>3, <2>1, SmallRemainder
  <2>3. /\ Or(low, x * P) = low + x * P /\ Xor(low, x * P) = low + x * P
        /\ Xor(W - P + low, x * P) = W - P + low - x * P
    BY <1>1, <1>4, BitAssumption DEF P, Q
  <2> QED BY <2>1, <2>2, <2>3
<1>9. CASE Signed(c) >= 0
  <2>1. h < R  BY <1>1, <1>3, <1>9, QuotientBound DEF h
  <2>2. h % R = h  BY <1>1, <1>4, <2>1, SmallRemainder
  <2>3. ~(Signed(c) < 0)  BY <1>3, <1>9 DEF Signed
  <2>4. Shl(MoveixPart(c, m), m) = h * P  BY <1>4, <1>5, <1>6, <1>7, <1>8, <2>2, <2>3, <1>1
  <2>5. Xor(low, h * P) = c /\ Or(low, h * P) = c  BY <1>1, <1>4, <1>5, <1>8
  <2> QED BY <2>3, <2>4, <2>5 DEF low, P
<1>10. CASE Signed(c) < 0
  <2> DEFINE x == Q - 1 - h
  <2>1. h >= Q - R
    <3>1. Q - R \in Nat
      <4>1. PICK d \in Nat : t = 1 + d  OBVIOUS
      <4>2. Q - R = R * d /\ R * d \in Nat  BY <1>1, <1>2, <4>1
      <4> QED BY <4>2
    <3>2. c >= (Q - R) * P  BY <1>1, <1>3, <1>10
    <3> QED BY <1>1, <1>3, <3>1, <3>2, QuotientBound DEF h
  <2>2. h % R = h - (Q - R)  BY <1>1, <1>2, <1>4, <1>5, <2>1, LastBlock
  <2>3. MoveixPart(c, m) = x  BY <1>1, <1>4, <1>6, <1>10, <2>2
  <2>4. x \in 0 .. Q - 1  BY <1>1, <1>4, <1>5
  <2>5. x * P = W - P - h * P  BY <1>1, <1>4
  <2> HIDE DEF x
  <2>6. Shl(MoveixPart(c, m), m) = x * P  BY <1>7, <1>8, <2>3, <2>4
  <2>7. Xor(W - P + low, x * P) = W - P + low - x * P  BY <1>8, <2>4
  <2>8. W - P + low - x * P = c
    <3>1. h * P \in Nat  BY <1>1, <1>4
    <3> QED BY <1>1, <1>3, <1>4, <2>5, <3>1
  <2>9. ~(Signed(c) >= 0)  BY <1>3, <1>10 DEF Signed
  <2> QED BY <2>6, <2>7, <2>8, <2>9 DEF low, P
<1> QED
  <2>1. Signed(c) \in Int  BY <1>3 DEF Signed
  <2> QED BY <1>9, <1>10, <2>1

-----------------------------------------------------------------------------
(* The properties, for all pairs of words.                                 *)

Words == u \in 0 .. W - 1 /\ v \in 0 .. W - 1

\* The pairs AxOperands runs through are words.
LEMMA WordsInv == Spec => []Words
<1>1. Init => Words  BY WordEven DEF Init, Words
<1>2. Words /\ [Next]_<<u, v>> => Words'  BY WordEven DEF Words, Next
<1> QED BY <1>1, <1>2, PTL DEF Spec

\* ALU and LSU operands: every constant of field plus moveix is reached.
THEOREM OperandsReach == Spec => []OperandReach
<1>1. Words => OperandReach
  <2> SUFFICES ASSUME Words, InSignedRange(u, ImmBits + MoveixBits)
               PROVE  LET k == (u % 2 ^ (ImmBits - 1)) + SignOf(u) * 2 ^ (ImmBits - 1)
                      IN Src2Value(TRUE, k, MoveixPart(u, ImmBits - 1), v) = u
    BY DEF OperandReach
  <2> DEFINE m == ImmBits - 1
             P == 2 ^ m
             low == u % P
             k == low + SignOf(u) * P
             high == Shl(MoveixPart(u, m), m)
  <2>1. /\ m \in Nat /\ m + MoveixBits < Bits /\ m + MoveixBits + 1 = ImmBits + MoveixBits
        /\ m \in 0 .. Bits /\ 1 \in 0 .. Bits /\ m + 1 = ImmBits /\ m + 1 <= Bits
    BY WidthAssumption, OperandAssumption DEF Bits
  <2>2. u \in 0 .. W - 1 /\ InSignedRange(u, m + MoveixBits + 1)  BY <2>1 DEF Words
  <2>3. /\ Signed(u) >= 0 => Xor(low, high) = u
        /\ Signed(u) < 0 => Xor(W - P + low, high) = u
    BY <2>1, <2>2, MoveixJoin
  <2>4. P \in Nat \ {0} /\ Radix = P * 2 /\ Radix <= W
    <3>1. 2 ^ (m + 1) = 2 ^ m * 2 ^ 1 /\ P \in Nat \ {0}  BY <2>1, PowerAssumption
    <3>2. 2 ^ 1 = 2  OBVIOUS
    <3>3. PICK d \in Nat \ {0} : W = Radix * d
      <4>1. ImmBits \in 0 .. Bits  BY <2>1
      <4> QED BY <4>1, WordSplit DEF Radix
    <3>4. Radix = P * 2  BY <2>1, <3>1, <3>2 DEF Radix
    <3>5. Radix \in Nat  BY <3>1, <3>4
    <3> HIDE DEF P
    <3>6. Radix <= Radix * d  BY <3>5
    <3> QED BY <3>1, <3>3, <3>4, <3>6
  <2>5. u \in Nat /\ low \in 0 .. P - 1
    <3>1. u \in Nat  BY <2>2, WordEven
    <3> HIDE DEF P
    <3>2. u % P \in 0 .. P - 1  BY <2>4, <3>1, QuotientRemainder
    <3> QED BY <3>1, <3>2 DEF low
  <2>6. Src2Value(TRUE, k, MoveixPart(u, m), v)
          = Xor(IF k >= Radix \div 2 THEN (k - Radix) % W ELSE k, high)
    BY DEF Src2Value, SignedImm
  <2>7. Radix \div 2 = P  BY <2>4
  <2> HIDE DEF P, low, high, k
  <2>8. CASE Signed(u) >= 0
    <3>1. SignOf(u) = 0  BY <2>2, <2>8, WordEven DEF SignOf, Signed
    <3>2. k = low /\ ~(k >= P)  BY <2>4, <2>5, <3>1 DEF k
    <3> QED BY <2>3, <2>6, <2>7, <2>8, <3>2 DEF k, low, high, P
  <2>9. CASE Signed(u) < 0
    <3>1. SignOf(u) = 1  BY <2>9 DEF SignOf
    <3>2. k = low + P  BY <2>4, <2>5, <3>1 DEF k
    <3>3. k >= P /\ 0 - W <= k - Radix /\ k - Radix < 0 /\ k - Radix + W = W - P + low
      BY <2>4, <2>5, <3>2, WordEven
    <3>4. (k - Radix) % W = W - P + low
      BY <2>4, <2>5, <3>2, <3>3, WordEven, SmallRemainder
    <3> QED BY <2>3, <2>6, <2>7, <2>9, <3>3, <3>4 DEF k, low, high, P
  <2>10. Signed(u) >= 0 \/ Signed(u) < 0  BY <2>2, WordEven DEF Signed
  <2> QED BY <2>8, <2>9, <2>10, Zenon
<1> QED BY <1>1, WordsInv, PTL

\* What MOVEI and MOVEN compute.
LEMMA MoveValues ==
  ASSUME NEW k, NEW x, NEW a, NEW b
  PROVE  /\ AluValue(4, 2, TRUE, k, 0, x, a, b) = Or(k, Shl(x, ImmBits)) % W
         /\ AluValue(5, 2, TRUE, k, 0, x, a, b) = MovenValue(k, x)
<1>1. ASSUME NEW op, op = 4
      PROVE  AluValue(op, 2, TRUE, k, 0, x, a, b) = Or(k, Shl(x, ImmBits)) % W
  <2>1. /\ op # 2 /\ op # 3 /\ op # 5 /\ op # 7 /\ op # 9 /\ op # 16 /\ op # 17 /\ op # 18
        /\ op # 19 /\ op # 20 /\ op # 21 /\ op # 22 /\ op # 23 /\ op # 24 /\ op # 25 /\ op # 26
        /\ op # 27 /\ op # 28 /\ op # 30 /\ op # 31
    BY <1>1
  <2> QED BY <1>1, <2>1, Zenon DEF AluValue
<1>2. ASSUME NEW op, op = 5
      PROVE  AluValue(op, 2, TRUE, k, 0, x, a, b) = MovenValue(k, x)
  <2>1. /\ op # 2 /\ op # 3 /\ op # 4 /\ op # 7 /\ op # 9 /\ op # 16 /\ op # 17 /\ op # 18
        /\ op # 19 /\ op # 20 /\ op # 21 /\ op # 22 /\ op # 23 /\ op # 24 /\ op # 25 /\ op # 26
        /\ op # 27 /\ op # 28 /\ op # 30 /\ op # 31
    BY <1>2
  <2> QED BY <1>2, <2>1, Zenon DEF AluValue
<1> QED BY <1>1, <1>2, Zenon

\* MOVEI and MOVEN reach one bit further.
THEOREM MovesReach == Spec => []MoveReach
<1>1. Words => MoveReach
  <2> DEFINE low == u % Radix
             x == MoveixPart(u, ImmBits)
             high == Shl(x, ImmBits)
  <2> SUFFICES ASSUME Words, InSignedRange(u, ImmBits + MoveixBits + 1)
               PROVE  AluValue(IF Signed(u) < 0 THEN 5 ELSE 4, 2, TRUE, low, 0, x, v, v) = u
    BY DEF MoveReach
  <2>1. /\ ImmBits \in Nat /\ ImmBits + MoveixBits < Bits
        /\ ImmBits \in 0 .. Bits
    BY WidthAssumption, OperandAssumption DEF Bits
  <2>2. u \in 0 .. W - 1 /\ InSignedRange(u, ImmBits + MoveixBits + 1)  BY <2>1 DEF Words
  <2>3. /\ Signed(u) >= 0 => Or(low, high) = u
        /\ Signed(u) < 0 => Xor(W - Radix + low, high) = u
    BY <2>1, <2>2, MoveixJoin DEF Radix
  <2>4. PICK d \in Nat \ {0} : W = Radix * d  BY <2>1, WordSplit DEF Radix
  <2>5. Radix \in Nat \ {0}  BY <2>1, PowerAssumption DEF Radix
  <2>6. u \in Nat /\ u < W /\ W \in Nat \ {0} /\ low \in 0 .. Radix - 1 /\ Radix <= W
    <3>1. Radix <= Radix * d  BY <2>5
    <3>2. u \in Nat /\ u < W  BY <2>2, WordEven
    <3> QED BY <2>4, <2>5, <3>1, <3>2, WordEven, QuotientRemainder
  <2> HIDE DEF low, x, high
  <2>7. CASE Signed(u) < 0
    <3>1. AluValue(IF Signed(u) < 0 THEN 5 ELSE 4, 2, TRUE, low, 0, x, v, v) = MovenValue(low, x)
      BY <2>7, MoveValues, Zenon
    <3>2. (low - Radix) % W = W - Radix + low
      <4>1. 0 - W <= low - Radix /\ low - Radix < 0 /\ low - Radix + W = W - Radix + low
        BY <2>5, <2>6
      <4> QED BY <2>5, <2>6, <4>1, SmallRemainder
    <3> QED BY <2>3, <2>7, <3>1, <3>2 DEF MovenValue, high
  <2>8. CASE ~(Signed(u) < 0)
    <3>1. AluValue(IF Signed(u) < 0 THEN 5 ELSE 4, 2, TRUE, low, 0, x, v, v) = Or(low, high) % W
      BY <2>8, MoveValues, Zenon DEF high
    <3>2. Signed(u) >= 0  BY <2>6, <2>8 DEF Signed
    <3>3. u % W = u  BY <2>6, SmallRemainder
    <3> QED BY <2>3, <3>1, <3>2, <3>3
  <2> QED BY <2>7, <2>8
<1> QED BY <1>1, WordsInv, PTL

\* CMP, BL and BLE on operands of one sign.
THEOREM ComparesOrder == Spec => []CompareOrders
<1>1. Words => CompareOrders
  <2> SUFFICES ASSUME Words, SameSign
               PROVE  /\ ISA!Taken(114, ISA!CmpFlags(u, v), 0) <=> u < v
                      /\ ISA!Taken(115, ISA!CmpFlags(u, v), 0) <=> u <= v
    BY DEF CompareOrders
  <2> DEFINE t == (u - v) % W
             f == ISA!CmpFlags(u, v)
  <2>1. ISA!WordMod = W
    <3>1. CellBits \in 0 .. Bits /\ CellBits + CellBits = Bits  BY WidthAssumption DEF Bits
    <3>2. 2 ^ (CellBits + CellBits) = 2 ^ CellBits * 2 ^ CellBits  BY <3>1, PowerAssumption
    <3> QED BY <3>1, <3>2 DEF ISA!WordMod, W
  <2>2. f = [z |-> t = 0, n |-> 2 * t >= W]  BY <2>1 DEF ISA!CmpFlags
  <2>3. (f.z <=> t = 0) /\ (f.n <=> 2 * t >= W)
    <3>1. ASSUME NEW p \in BOOLEAN, NEW q \in BOOLEAN
          PROVE  [z |-> p, n |-> q].z = p /\ [z |-> p, n |-> q].n = q
      OBVIOUS
    <3>2. (t = 0) \in BOOLEAN /\ (2 * t >= W) \in BOOLEAN  OBVIOUS
    <3> QED BY <2>2, <3>1, <3>2, Zenon
  <2>4. PICK h \in Nat \ {0} : h = W \div 2 /\ W = 2 * h  BY WordEven
  <2>5. u \in 0 .. W - 1 /\ v \in 0 .. W - 1 /\ W \in Nat \ {0}  BY WordEven DEF Words
  <2>6. t = IF u >= v THEN u - v ELSE u - v + W
    <3>1. u - v \in Int /\ 0 - W <= u - v /\ u - v < W  BY <2>5
    <3>2. CASE u >= v
      <4>1. 0 <= u - v  BY <2>5, <3>2
      <4> QED BY <2>5, <3>1, <3>2, <4>1, SmallRemainder
    <3>3. CASE ~(u >= v)
      <4>1. u - v < 0  BY <2>5, <3>3
      <4>2. (u - v) % W = u - v + W  BY <2>5, <3>1, <4>1, SmallRemainder
      <4> QED BY <3>3, <4>2
    <3> QED BY <3>2, <3>3
  <2>7. u < h <=> v < h  BY <2>4 DEF SameSign
  <2> HIDE DEF t, f
  <2>8. /\ 2 * t >= W <=> u < v
        /\ t = 0 <=> u = v
    BY <2>4, <2>5, <2>6, <2>7
  <2>9. (ISA!Taken(114, f, 0) <=> f.n) /\ (ISA!Taken(115, f, 0) <=> f.z \/ f.n)
    <3>1. ASSUME NEW op, op = 114 PROVE ISA!Taken(op, f, 0) = f.n
      <4>1. op # 112 /\ op # 113 /\ op # 115 /\ op # 116 /\ op # 117 /\ op # 122 /\ op # 123
            /\ op \notin 118 .. 121
        BY <3>1
      <4> QED BY <3>1, <4>1, Zenon DEF ISA!Taken
    <3>2. ASSUME NEW op, op = 115 PROVE ISA!Taken(op, f, 0) = (f.z \/ f.n)
      <4>1. op # 112 /\ op # 113 /\ op # 114 /\ op # 116 /\ op # 117 /\ op # 122 /\ op # 123
            /\ op \notin 118 .. 121
        BY <3>2
      <4> QED BY <3>2, <4>1, Zenon DEF ISA!Taken
    <3> QED BY <3>1, <3>2, Zenon
  <2>10. u <= v <=> u < v \/ u = v  BY <2>5
  <2> QED BY <2>3, <2>8, <2>9, <2>10, Zenon DEF f
<1> QED BY <1>1, WordsInv, PTL

-----------------------------------------------------------------------------
(* The memory map.                                                         *)

\* The test of a region bit, for addresses below twice its weight.
LEMMA BitTest ==
  ASSUME NEW a \in Nat, NEW bit \in Nat \ {0}
  PROVE  /\ bit <= a /\ a < 2 * bit => Has(a, bit)
         /\ a < bit => ~Has(a, bit)
<1>1. ASSUME bit <= a, a < 2 * bit PROVE a \div bit = 1
  <2>1. a >= 1 * bit /\ a < 2 * bit  BY <1>1
  <2>2. a \div bit \in Nat  BY QuotientRemainder
  <2> QED BY <2>1, <2>2, QuotientBound
<1>2. ASSUME a < bit PROVE a \div bit = 0
  <2>1. a < 1 * bit  BY <1>2
  <2>2. a \div bit \in Nat  BY QuotientRemainder
  <2> QED BY <2>1, <2>2, QuotientBound
<1> QED BY <1>1, <1>2 DEF Has

\* Where a region starts and how long it may be.
LEMMA RegionBounds ==
  ASSUME RegionsFit, NEW r \in Regions, NEW a \in Span(r)
  PROVE  /\ RegionSize[r] \in Nat \ {0} /\ Begin[r] \in Nat /\ IO_BEGIN \in Nat \ {0}
         /\ a \in Nat /\ Begin[r] <= a /\ a < Begin[r] + RegionSize[r]
         /\ a < 2 * (IF r = "spm" THEN IO_BEGIN ELSE Begin[r])
         /\ r = "spm" => a < IO_BEGIN
         /\ a \in 0 .. 2 * WRAM_BEGIN - 1
         /\ Begin[r] = IF r = "wram" THEN WRAM_BEGIN ELSE IF r = "spm2" THEN SPM2_BEGIN
                       ELSE IF r = "spmt" THEN SPMT_BEGIN ELSE IF r = "rom" THEN ROM_BEGIN
                       ELSE IF r = "io" THEN IO_BEGIN ELSE 0
<1>1. IO_BEGIN \in Nat \ {0} /\ RegionSize[r] \in Nat \ {0}  BY MapAssumption
<1>2. Begin[r] = IF r = "wram" THEN WRAM_BEGIN ELSE IF r = "spm2" THEN SPM2_BEGIN
                 ELSE IF r = "spmt" THEN SPMT_BEGIN ELSE IF r = "rom" THEN ROM_BEGIN
                 ELSE IF r = "io" THEN IO_BEGIN ELSE 0
  BY DEF Begin, Regions
<1>3. Begin[r] \in Nat /\ Begin[r] <= WRAM_BEGIN
  BY <1>1, <1>2 DEF WRAM_BEGIN, SPM2_BEGIN, SPMT_BEGIN, ROM_BEGIN
<1>4. a \in Nat /\ Begin[r] <= a /\ a < Begin[r] + RegionSize[r]  BY <1>1, <1>3 DEF Span
<1>5. RegionSize[r] <= IF r = "spm" THEN IO_BEGIN ELSE Begin[r]  BY DEF RegionsFit
<1>6. r = "spm" => Begin[r] = 0  BY <1>2
<1>7. r = "spm" => a < IO_BEGIN  BY <1>1, <1>4, <1>5, <1>6
<1>8. a < 2 * (IF r = "spm" THEN IO_BEGIN ELSE Begin[r])
  BY <1>1, <1>3, <1>4, <1>5, <1>7
<1>9. a \in 0 .. 2 * WRAM_BEGIN - 1  BY <1>1, <1>3, <1>4, <1>8 DEF WRAM_BEGIN
<1> QED BY <1>1, <1>2, <1>3, <1>4, <1>7, <1>8, <1>9

\* The order of the tests finds the region of an address.
LEMMA RegionFound ==
  ASSUME RegionsFit, NEW r \in Regions, NEW a \in Span(r)
  PROVE  RegionOf(a) = r
<1> DEFINE b == IO_BEGIN
<1>1. /\ b \in Nat \ {0} /\ a \in Nat /\ Begin[r] <= a
      /\ a < 2 * (IF r = "spm" THEN b ELSE Begin[r]) /\ (r = "spm" => a < b)
      /\ Begin[r] = IF r = "wram" THEN WRAM_BEGIN ELSE IF r = "spm2" THEN SPM2_BEGIN
                    ELSE IF r = "spmt" THEN SPMT_BEGIN ELSE IF r = "rom" THEN ROM_BEGIN
                    ELSE IF r = "io" THEN b ELSE 0
  BY RegionBounds
<1>2. /\ WRAM_BEGIN = 16 * b /\ SPM2_BEGIN = 8 * b /\ SPMT_BEGIN = 4 * b /\ ROM_BEGIN = 2 * b
      /\ IO_BEGIN = b
  BY DEF WRAM_BEGIN, SPM2_BEGIN, SPMT_BEGIN, ROM_BEGIN
<1> HIDE DEF b
<1>3. ASSUME NEW bit \in {16 * b, 8 * b, 4 * b, 2 * b, b}
      PROVE (bit <= a /\ a < 2 * bit => Has(a, bit)) /\ (a < bit => ~Has(a, bit))
  BY <1>1, BitTest
<1>4. CASE r = "wram"
  <2>1. Has(a, WRAM_BEGIN)  BY <1>1, <1>2, <1>3, <1>4
  <2> QED BY <1>4, <2>1 DEF RegionOf
<1>5. CASE r = "spm2"
  <2>1. ~Has(a, WRAM_BEGIN) /\ Has(a, SPM2_BEGIN)  BY <1>1, <1>2, <1>3, <1>5
  <2> QED BY <1>5, <2>1 DEF RegionOf
<1>6. CASE r = "spmt"
  <2>1. ~Has(a, WRAM_BEGIN) /\ ~Has(a, SPM2_BEGIN) /\ Has(a, SPMT_BEGIN)
    BY <1>1, <1>2, <1>3, <1>6
  <2> QED BY <1>6, <2>1 DEF RegionOf
<1>7. CASE r = "rom"
  <2>1. ~Has(a, WRAM_BEGIN) /\ ~Has(a, SPM2_BEGIN) /\ ~Has(a, SPMT_BEGIN) /\ Has(a, ROM_BEGIN)
    BY <1>1, <1>2, <1>3, <1>7
  <2> QED BY <1>7, <2>1 DEF RegionOf
<1>8. CASE r = "io"
  <2>1. /\ ~Has(a, WRAM_BEGIN) /\ ~Has(a, SPM2_BEGIN) /\ ~Has(a, SPMT_BEGIN)
        /\ ~Has(a, ROM_BEGIN) /\ Has(a, IO_BEGIN)
    BY <1>1, <1>2, <1>3, <1>8
  <2> QED BY <1>8, <2>1 DEF RegionOf
<1>9. CASE r = "spm"
  <2>1. /\ ~Has(a, WRAM_BEGIN) /\ ~Has(a, SPM2_BEGIN) /\ ~Has(a, SPMT_BEGIN)
        /\ ~Has(a, ROM_BEGIN) /\ ~Has(a, IO_BEGIN)
    BY <1>1, <1>2, <1>3, <1>9
  <2> QED BY <1>9, <2>1 DEF RegionOf
<1> QED BY <1>4, <1>5, <1>6, <1>7, <1>8, <1>9 DEF Regions

\* The mask leaves the offset in the region.
LEMMA OffsetFound ==
  ASSUME RegionsFit, NEW r \in Regions, NEW a \in Span(r)
  PROVE  /\ MapAddr(a) = <<r, a - Begin[r]>>
         /\ a \in Nat /\ Begin[r] \in Nat /\ a - Begin[r] \in 0 .. RegionSize[r] - 1
<1> DEFINE n == RegionSize[r]
           b == Begin[r]
<1>1. /\ n \in Nat \ {0} /\ b \in Nat /\ a \in Nat /\ b <= a /\ a < b + n
      /\ a \in 0 .. 2 * WRAM_BEGIN - 1
  BY RegionBounds
<1>2. Mask(a, n - 1) = a % n /\ b % n = 0  BY <1>1 DEF RegionsFit
<1> HIDE DEF n, b
<1>3. a % n = a - b
  <2>1. PICK q \in Nat : b = q * n
    <3>1. b \div n \in Nat /\ b = (b \div n) * n + (b % n)  BY <1>1, QuotientRemainder
    <3>2. (b \div n) * n \in Nat  BY <1>1, <3>1
    <3>3. b = (b \div n) * n  BY <1>2, <3>1, <3>2
    <3> QED BY <3>1, <3>3
  <2>2. q + 1 \in Nat \ {0} /\ n * (q + 1) = b + n  BY <1>1, <2>1
  <2>3. n * (q + 1) - n = b  BY <1>1, <2>2
  <2> QED BY <1>1, <2>2, <2>3, LastBlock
<1>4. MapAddr(a) = <<r, Mask(a, n - 1)>>  BY RegionFound DEF MapAddr, n
<1> QED BY <1>1, <1>2, <1>3, <1>4 DEF n, b

\* The memories are one flat address space.
THEOREM MemoryFlat == Spec => []FlatMemory
<1>1. FlatMemory
  <2> SUFFICES ASSUME RegionsFit, NEW r \in Regions, NEW s \in Regions,
                      u \in Span(r), v \in Span(s)
               PROVE  /\ MapAddr(u) \in MemCells /\ MapAddr(u)[1] = r
                      /\ MapAddr(u) = MapAddr(v) => u = v
                      /\ r = "wram" => MapAddr(u)[2] = u - WRAM_BEGIN
    BY DEF FlatMemory
  <2>1. /\ MapAddr(u) = <<r, u - Begin[r]>> /\ u \in Nat /\ Begin[r] \in Nat
        /\ u - Begin[r] \in 0 .. RegionSize[r] - 1
    BY OffsetFound
  <2>2. MapAddr(v) = <<s, v - Begin[s]>> /\ v \in Nat /\ Begin[s] \in Nat
    BY OffsetFound
  <2>3. MapAddr(u) \in MemCells  BY <2>1 DEF MemCells
  <2>4. MapAddr(u)[1] = r /\ MapAddr(u)[2] = u - Begin[r]  BY <2>1
  <2>5. MapAddr(u) = MapAddr(v) => u = v  BY <2>1, <2>2
  <2>6. r = "wram" => Begin[r] = WRAM_BEGIN  BY DEF Begin
  <2> QED BY <2>3, <2>4, <2>5, <2>6
<1> QED BY <1>1, PTL

=============================================================================
