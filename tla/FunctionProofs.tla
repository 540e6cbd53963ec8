--------------------------- MODULE FunctionProofs ---------------------------
(***************************************************************************)
(* What is said of strings, escapes and queries in Utf8 and UrlParser is   *)
(* so of every string, of any escapes and of every query; the calendar of  *)
(* GpsTime is so of every day, and weeks, leap seconds and angles of every *)
(* number.                                                                 *)
(***************************************************************************)
EXTENDS Calendar, GrowingTexts, TLAPS, FiniteSetTheorems, NaturalsInduction, SequenceTheorems,
        WellFoundedInduction

-----------------------------------------------------------------------------
(* Functions that follow a text to its end.                                *)

LEMMA Joined ==
  ASSUME NEW X, NEW a \in Seq(X), NEW b \in Seq(X), NEW c \in Seq(X)
  PROVE  a \o (b \o c) = (a \o b) \o c
OBVIOUS

(* A set that contains 0, and with a number the next, contains all.        *)
LEMMA Induct ==
  ASSUME NEW S, 0 \in S, \A n \in Nat : n \in S => n + 1 \in S
  PROVE  Nat \subseteq S
<1> SUFFICES ASSUME Nat \ S # {} PROVE FALSE
  OBVIOUS
<1>1. IsWellFoundedOn(OpToRel(<, Nat), Nat)
  BY NatLessThanWellFounded, Zenon
<1>2. \E x \in Nat \ S : \A y \in Nat \ S : ~ (<< y, x >> \in OpToRel(<, Nat))
  BY <1>1, WFMin, Zenon
<1>3. \A x, y \in Nat : << y, x >> \in OpToRel(<, Nat) <=> y < x
  BY Zenon DEF OpToRel
<1>4. PICK x \in Nat \ S : \A y \in Nat \ S : ~ (y < x)
  BY <1>2, <1>3, Zenon
<1>5. x # 0 /\ x - 1 \in Nat /\ x - 1 < x /\ (x - 1) + 1 = x
  BY <1>4
<1>6. x - 1 \in S
  BY <1>4, <1>5
<1>7. (x - 1) + 1 \in S
  BY <1>5, <1>6, Zenon
<1> QED
  BY <1>4, <1>5, <1>7

(* What is true past the end, and at a place if it is true at all later    *)
(* ones, is true everywhere.                                               *)
LEMMA Backwards ==
  ASSUME NEW L \in Nat, NEW G,
         \A i \in Nat : i > L => i \in G,
         \A i \in 0 .. L : (\A j \in Nat : j > i => j \in G) => i \in G
  PROVE  Nat \subseteq G
<1> DEFINE S == {n \in Nat : \A i \in Nat : i + n > L => i \in G}
<1>1. 0 \in S
  OBVIOUS
<1>2. ASSUME NEW n \in Nat, n \in S PROVE n + 1 \in S
  <2> SUFFICES ASSUME NEW i \in Nat, i + (n + 1) > L PROVE i \in G
    OBVIOUS
  <2>1. \A j \in Nat : j > i => j \in G
    BY <1>2
  <2> QED
    BY <2>1
<1>3. \A n \in Nat : n \in S => n + 1 \in S
  BY <1>2
<1> HIDE DEF S
<1>4. Nat \subseteq S
  BY <1>1, <1>3, Induct
<1>5. L + 1 \in S
  BY <1>4
<1> QED
  BY <1>5 DEF S

(* A place's value is made of the value at the next place.                 *)
Leads(D, L, V, comb, next) ==
  \A i \in D : i <= L => next[i] \in D /\ next[i] > i /\ \A v \in V : comb[i][v] \in V

Follows(f, D, L, base, comb, next) ==
  \A i \in D : f[i] = IF i > L THEN base ELSE comb[i][f[next[i]]]

(* There is a function that does at each place what it is said to do with  *)
(* its value at a later place.                                             *)
LEMMA Recursion ==
  ASSUME NEW D, \A i \in D : i \in Nat,
         NEW L \in Nat, NEW V, NEW base \in V, NEW comb, NEW next,
         Leads(D, L, V, comb, next)
  PROVE  \E f \in [D -> V] : Follows(f, D, L, base, comb, next)
<1> USE DEF Leads
<1> DEFINE Good(f, i) == f[i] = IF i > L THEN base ELSE comb[i][f[next[i]]]
           Late(f, n) == \A i \in D : i + n > L => Good(f, i)
           S == {n \in Nat : \E f \in [D -> V] : Late(f, n)}
<1>1. 0 \in S
  <2> DEFINE f == [i \in D |-> base]
  <2>1. f \in [D -> V]
    OBVIOUS
  <2>2. Late(f, 0)
    OBVIOUS
  <2> HIDE DEF f, Late
  <2> QED
    BY <2>1, <2>2
<1>2. ASSUME NEW n \in Nat, n \in S PROVE n + 1 \in S
  <2>1. PICK f \in [D -> V] : Late(f, n)
    BY <1>2
  <2> DEFINE k == L - n
             x == comb[k][f[next[k]]]
             g == [i \in D |-> IF i = k THEN x ELSE f[i]]
  <2>2. CASE k \in D
    <3>1. k \in Nat /\ k <= L /\ next[k] \in D /\ next[k] > k
      BY <2>2
    <3>2. x \in V
      <4> DEFINE v == f[next[k]]
      <4> HIDE DEF k
      <4>1. v \in V
        BY <3>1
      <4>2. \A w \in V : comb[k][w] \in V
        BY <2>2, <3>1
      <4> HIDE DEF v
      <4>3. comb[k][v] \in V
        BY <4>1, <4>2
      <4> QED
        BY <4>3 DEF v
    <3> HIDE DEF x
    <3>3. g \in [D -> V]
      BY <3>2
    <3>4. ASSUME NEW i \in D, i + (n + 1) > L PROVE Good(g, i)
      <4>1. i \in Nat /\ (i <= L => next[i] \in D /\ next[i] > i)
        OBVIOUS
      <4>2. i <= L => next[i] \in Nat /\ next[i] # k
        <5> SUFFICES ASSUME i <= L PROVE next[i] \in Nat /\ next[i] # k
          OBVIOUS
        <5>1. next[i] \in Nat /\ next[i] > i
          BY <4>1
        <5>2. i >= k
          BY <3>4, <4>1
        <5> QED
          BY <3>1, <4>1, <5>1, <5>2
      <4>3. i <= L => g[next[i]] = f[next[i]]
        BY <4>1, <4>2
      <4>4. CASE i = k
        <5>1. g[i] = x
          BY <4>4
        <5>2. x = comb[i][g[next[i]]] /\ ~ (i > L)
          BY <3>1, <4>3, <4>4 DEF x
        <5> QED
          BY <5>1, <5>2
      <4>5. CASE i # k
        <5>1. i + n > L
          BY <3>4, <4>1, <4>5
        <5>2. Good(f, i) /\ g[i] = f[i]
          BY <2>1, <4>5, <5>1
        <5>3. CASE i > L
          BY <5>2, <5>3
        <5>4. CASE i <= L
          BY <4>3, <5>2, <5>4
        <5> QED
          BY <4>1, <5>3, <5>4
      <4> QED
        BY <4>4, <4>5
    <3>5. Late(g, n + 1)
      BY <3>4
    <3> HIDE DEF g, Late
    <3> QED
      BY <3>3, <3>5
  <2>3. CASE k \notin D
    <3>1. ASSUME NEW i \in D, i + (n + 1) > L PROVE i + n > L
      <4>1. i \in Nat /\ i # k
        BY <2>3
      <4> QED
        BY <3>1, <4>1
    <3>2. Late(f, n + 1)
      BY <2>1, <3>1
    <3> HIDE DEF Late
    <3> QED
      BY <3>2
  <2> QED
    BY <2>2, <2>3
<1>3. \A n \in Nat : n \in S => n + 1 \in S
  BY <1>2
<1> HIDE DEF S
<1>4. Nat \subseteq S
  BY <1>1, <1>3, Induct
<1>5. L + 1 \in S
  BY <1>4
<1>6. PICK f \in [D -> V] : Late(f, L + 1)
  BY <1>5 DEF S
<1>7. ASSUME NEW i \in D PROVE i + (L + 1) > L
  <2>1. i \in Nat
    OBVIOUS
  <2> QED
    BY <2>1
<1> QED
  BY <1>6, <1>7 DEF Follows

-----------------------------------------------------------------------------
(* Bytes.                                                                  *)
BYTE == 1 .. 255

LEMMA SequenceLengths ==
  ASSUME NEW c
  PROVE  num_bytes_in_utf8_sequence(c) \in 0 .. 4
BY SMT DEF num_bytes_in_utf8_sequence

LEMMA VerifiedLengths ==
  ASSUME NEW s, NEW i
  PROVE  verify_utf8_sequence(s, i) \in 0 .. 4
<1> DEFINE n == num_bytes_in_utf8_sequence(s[i])
<1>1. n \in 0 .. 4
  BY SequenceLengths
<1>2. verify_utf8_sequence(s, i) \in {n, 0}
  BY DEF verify_utf8_sequence
<1> QED
  BY <1>1, <1>2

LEMMA ValidFromEquation ==
  ASSUME NEW s, Len(s) \in Nat, NEW i \in Nat
  PROVE  ValidFrom(s)[i] = IF i > Len(s) THEN 1
                           ELSE IF verify_utf8_sequence(s, i) = 0 THEN 0
                           ELSE ValidFrom(s)[i + verify_utf8_sequence(s, i)]
<1> DEFINE L == Len(s)
           V == {0, 1}
           len(j) == verify_utf8_sequence(s, j)
           Equation(f) ==
             f = [j \in Nat |-> IF j > L THEN 1 ELSE IF len(j) = 0 THEN 0 ELSE f[j + len(j)]]
           next == [j \in Nat |-> IF len(j) = 0 THEN j + 1 ELSE j + len(j)]
           comb == [j \in Nat |-> [v \in V |-> IF len(j) = 0 THEN 0 ELSE v]]
<1>1. ValidFrom(s) = CHOOSE f : Equation(f)
  BY DEF ValidFrom
<1>2. L \in Nat
  OBVIOUS
<1>3. \A j \in Nat : len(j) \in Nat
  BY VerifiedLengths
<1> HIDE DEF L, len
<1>4. \A j \in Nat : next[j] \in Nat /\ next[j] > j /\ \A v \in V : comb[j][v] \in V
  BY <1>3, SMTT(30)
<1>5. PICK f \in [Nat -> V] : \A j \in Nat : f[j] = IF j > L THEN 1 ELSE comb[j][f[next[j]]]
  <2>1. 1 \in V
    OBVIOUS
  <2> HIDE DEF next, comb, V
  <2>2. Leads(Nat, L, V, comb, next)
    BY <1>4 DEF Leads
  <2>3. \E f \in [Nat -> V] : Follows(f, Nat, L, 1, comb, next)
    BY <1>2, <2>1, <2>2, Recursion
  <2> QED
    BY <2>3 DEF Follows
<1>6. ASSUME NEW j \in Nat
      PROVE  f[j] = IF j > L THEN 1 ELSE IF len(j) = 0 THEN 0 ELSE f[j + len(j)]
  <2>1. f[next[j]] \in V
    BY <1>4
  <2>2. comb[j][f[next[j]]] = IF len(j) = 0 THEN 0 ELSE f[next[j]]
    BY <2>1
  <2>3. len(j) # 0 => next[j] = j + len(j)
    OBVIOUS
  <2> HIDE DEF next, comb
  <2> QED
    BY <1>5, <2>2, <2>3
<1>7. Equation(f)
  BY <1>6
<1> HIDE DEF Equation
<1>8. Equation(ValidFrom(s))
  BY <1>1, <1>7
<1> QED
  BY <1>8 DEF Equation, L, len

-----------------------------------------------------------------------------
(* Characters.  Table 3-7 by its rows: n bytes, the first four of them.    *)
CONT == 128 .. 191

Formed(n, a, b, c, d) ==
  \/ n = 1 /\ a \in 1 .. 127
  \/ n = 2 /\ a \in 194 .. 223 /\ b \in CONT
  \/ n = 3 /\ a \in {224} /\ b \in 160 .. 191 /\ c \in CONT
  \/ n = 3 /\ a \in 225 .. 236 /\ b \in CONT /\ c \in CONT
  \/ n = 3 /\ a \in {237} /\ b \in 128 .. 159 /\ c \in CONT
  \/ n = 3 /\ a \in 238 .. 239 /\ b \in CONT /\ c \in CONT
  \/ n = 4 /\ a \in {240} /\ b \in 144 .. 191 /\ c \in CONT /\ d \in CONT
  \/ n = 4 /\ a \in 241 .. 243 /\ b \in CONT /\ c \in CONT /\ d \in CONT
  \/ n = 4 /\ a \in {244} /\ b \in 128 .. 143 /\ c \in CONT /\ d \in CONT

IsRow(t, w) == Len(w) = Len(t) /\ \A i \in DOMAIN t : t[i] \in w[i]

LEMMA RowOfOne ==
  ASSUME NEW t \in Seq(BYTE), NEW A
  PROVE  IsRow(t, << A >>)
           <=> (Len(t) = 1 /\ t[1] \in A)
BY DEF IsRow

LEMMA RowOfTwo ==
  ASSUME NEW t \in Seq(BYTE), NEW A, NEW B
  PROVE  IsRow(t, << A, B >>)
           <=> (Len(t) = 2 /\ t[1] \in A /\ t[2] \in B)
BY DEF IsRow

LEMMA RowOfThree ==
  ASSUME NEW t \in Seq(BYTE), NEW A, NEW B, NEW C
  PROVE  IsRow(t, << A, B, C >>)
           <=> (Len(t) = 3 /\ t[1] \in A /\ t[2] \in B /\ t[3] \in C)
BY DEF IsRow

LEMMA RowOfFour ==
  ASSUME NEW t \in Seq(BYTE), NEW A, NEW B, NEW C, NEW D
  PROVE  IsRow(t, << A, B, C, D >>)
           <=> (Len(t) = 4 /\ t[1] \in A /\ t[2] \in B /\ t[3] \in C /\ t[4] \in D)
BY DEF IsRow

(* The bits a lead byte and the others hold. *)
LEMMA LeadBits ==
  ASSUME NEW a \in 0 .. 255
  PROVE  /\ a \div 64 = 2 <=> (a >= 128 /\ a < 192)
         /\ a \div 32 = 6 <=> (a >= 192 /\ a < 224)
         /\ a \div 16 = 14 <=> (a >= 224 /\ a < 240)
<1>1. a \div 64 = 2 <=> (a >= 128 /\ a < 192)
  OBVIOUS
<1>2. a \div 32 = 6 <=> (a >= 192 /\ a < 224)
  OBVIOUS
<1>3. a \div 16 = 14 <=> (a >= 224 /\ a < 240)
  OBVIOUS
<1> QED
  BY <1>1, <1>2, <1>3

LEMMA LeadBytes ==
  ASSUME NEW a \in 0 .. 255
  PROVE  /\ a < 128 => num_bytes_in_utf8_sequence(a) = 1
         /\ a \in 128 .. 193 => num_bytes_in_utf8_sequence(a) = 0
         /\ a \in 194 .. 223 => num_bytes_in_utf8_sequence(a) = 2
         /\ a \in 224 .. 239 => num_bytes_in_utf8_sequence(a) = 3
         /\ a \in 240 .. 244 => num_bytes_in_utf8_sequence(a) = 4
         /\ a > 244 => num_bytes_in_utf8_sequence(a) = 0
<1>1. a \in 0 .. 255
  OBVIOUS
<1>2. /\ IS_CONT(a) <=> (a >= 128 /\ a < 192)
      /\ a \div 32 = 6 <=> (a >= 192 /\ a < 224)
      /\ a \div 16 = 14 <=> (a >= 224 /\ a < 240)
  BY <1>1, LeadBits DEF IS_CONT
<1> DEFINE n == num_bytes_in_utf8_sequence(a)
<1>3. n = IF a \in {192, 193} \/ a > 244 \/ IS_CONT(a) THEN 0
          ELSE CASE a < 128         -> 1
            [] a \div 32 = 6  -> 2
            [] a \div 16 = 14 -> 3
            [] OTHER          -> 4
  BY SMT DEF num_bytes_in_utf8_sequence
<1> HIDE DEF n
<1>4. a < 128 => n = 1
  BY <1>1, <1>2, <1>3
<1>5. a \in 128 .. 193 => n = 0
  <2>1. a \in 128 .. 193 => a \in {192, 193} \/ IS_CONT(a)
    BY <1>1, <1>2
  <2> QED
    BY <1>3, <2>1
<1>6. a \in 194 .. 223 => n = 2
  BY <1>1, <1>2, <1>3
<1>7. a \in 224 .. 239 => n = 3
  BY <1>1, <1>2, <1>3
<1>8. a \in 240 .. 244 => n = 4
  BY <1>1, <1>2, <1>3
<1>9. a > 244 => n = 0
  BY <1>1, <1>2, <1>3
<1> QED
  BY <1>4, <1>5, <1>6, <1>7, <1>8, <1>9 DEF n

LEMMA ContinuationBytes ==
  ASSUME NEW b \in 0 .. 255
  PROVE  IS_CONT(b) <=> b \in CONT
BY DEF IS_CONT, CONT

(* IsCharacter by the rows of the table. *)
LEMMA CharacterIsFormed ==
  ASSUME NEW t \in Seq(BYTE)
  PROVE  IsCharacter(t) <=> Formed(Len(t), t[1], t[2], t[3], t[4])
<1> DEFINE r1 == << 1 .. 127 >>
           r2 == << 194 .. 223, CONT >>
           r3 == << {224}, 160 .. 191, CONT >>
           r4 == << 225 .. 236, CONT, CONT >>
           r5 == << {237}, 128 .. 159, CONT >>
           r6 == << 238 .. 239, CONT, CONT >>
           r7 == << {240}, 144 .. 191, CONT, CONT >>
           r8 == << 241 .. 243, CONT, CONT, CONT >>
           r9 == << {244}, 128 .. 143, CONT, CONT >>
           q1 == Len(t) = 1 /\ t[1] \in 1 .. 127
           q2 == Len(t) = 2 /\ t[1] \in 194 .. 223 /\ t[2] \in CONT
           q3 == Len(t) = 3 /\ t[1] \in {224} /\ t[2] \in 160 .. 191 /\ t[3] \in CONT
           q4 == Len(t) = 3 /\ t[1] \in 225 .. 236 /\ t[2] \in CONT /\ t[3] \in CONT
           q5 == Len(t) = 3 /\ t[1] \in {237} /\ t[2] \in 128 .. 159 /\ t[3] \in CONT
           q6 == Len(t) = 3 /\ t[1] \in 238 .. 239 /\ t[2] \in CONT /\ t[3] \in CONT
           q7 == Len(t) = 4 /\ t[1] \in {240} /\ t[2] \in 144 .. 191 /\ t[3] \in CONT /\ t[4] \in CONT
           q8 == Len(t) = 4 /\ t[1] \in 241 .. 243 /\ t[2] \in CONT /\ t[3] \in CONT /\ t[4] \in CONT
           q9 == Len(t) = 4 /\ t[1] \in {244} /\ t[2] \in 128 .. 143 /\ t[3] \in CONT /\ t[4] \in CONT
<1>1. IsCharacter(t) <=> \E w \in WellFormed : IsRow(t, w)
  BY Zenon DEF IsCharacter, IsRow
<1>2. WellFormed = {r1, r2, r3, r4, r5, r6, r7, r8, r9}
  BY Zenon DEF WellFormed, CONT
<1>3. IsRow(t, r1) <=> q1
  BY RowOfOne, Zenon
<1>4. IsRow(t, r2) <=> q2
  BY RowOfTwo, Zenon
<1>5. IsRow(t, r3) <=> q3
  BY RowOfThree, ZenonT(40)
<1>6. IsRow(t, r4) <=> q4
  BY RowOfThree, ZenonT(40)
<1>7. IsRow(t, r5) <=> q5
  BY RowOfThree, ZenonT(40)
<1>8. IsRow(t, r6) <=> q6
  BY RowOfThree, ZenonT(40)
<1>9. IsRow(t, r7) <=> q7
  <2> DEFINE A == {240}
             B == 144 .. 191
  <2> HIDE DEF A, B
  <2>1. IsRow(t, << A, B, CONT, CONT >>)
          <=> (Len(t) = 4 /\ t[1] \in A /\ t[2] \in B /\ t[3] \in CONT /\ t[4] \in CONT)
    BY RowOfFour
  <2> QED
    BY <2>1, Zenon DEF A, B
<1>10. IsRow(t, r8) <=> q8
  <2> DEFINE A == 241 .. 243
             B == CONT
  <2> HIDE DEF A, B
  <2>1. IsRow(t, << A, B, CONT, CONT >>)
          <=> (Len(t) = 4 /\ t[1] \in A /\ t[2] \in B /\ t[3] \in CONT /\ t[4] \in CONT)
    BY RowOfFour
  <2> QED
    BY <2>1, Zenon DEF A, B
<1>11. IsRow(t, r9) <=> q9
  <2> DEFINE A == {244}
             B == 128 .. 143
  <2> HIDE DEF A, B
  <2>1. IsRow(t, << A, B, CONT, CONT >>)
          <=> (Len(t) = 4 /\ t[1] \in A /\ t[2] \in B /\ t[3] \in CONT /\ t[4] \in CONT)
    BY RowOfFour
  <2> QED
    BY <2>1, Zenon DEF A, B
<1>12. Formed(Len(t), t[1], t[2], t[3], t[4])
        <=> q1 \/ q2 \/ q3 \/ q4 \/ q5 \/ q6 \/ q7 \/ q8 \/ q9
  BY Zenon DEF Formed
<1> HIDE DEF r1, r2, r3, r4, r5, r6, r7, r8, r9, q1, q2, q3, q4, q5, q6, q7, q8, q9
<1>13. IsCharacter(t) <=> \/ IsRow(t, r1) \/ IsRow(t, r2) \/ IsRow(t, r3) \/ IsRow(t, r4) \/ IsRow(t, r5)
                         \/ IsRow(t, r6) \/ IsRow(t, r7) \/ IsRow(t, r8) \/ IsRow(t, r9)
  BY <1>1, <1>2, Zenon
<1> QED
  BY <1>3, <1>4, <1>5, <1>6, <1>7, <1>8, <1>9, <1>10, <1>11, <1>12, <1>13

TwoSpell(a, b)        == (a % 32) * 64 + (b % 64)
ThreeSpell(a, b, c)   == ((a % 16) * 64 + (b % 64)) * 64 + (c % 64)
FourSpell(a, b, c, d) == (((a % 8) * 64 + (b % 64)) * 64 + (c % 64)) * 64 + (d % 64)

IsCodePoint(cp, n) == ~ IsOverlong(cp, n) /\ cp <= 1114111 /\ ~ (cp >= 55296 /\ cp <= 57343)

(* What the range checks leave of two, three and four bytes. *)
LEMMA TwoFit ==
  ASSUME NEW a \in 194 .. 223, NEW b \in CONT
  PROVE  IsCodePoint(TwoSpell(a, b), 2)
<1>1. a % 32 = a - 192
  OBVIOUS
<1>2. b \in 128 .. 191 /\ b % 64 = b - 128
  BY DEF CONT
<1> QED
  BY <1>1, <1>2 DEF TwoSpell, IsCodePoint, IsOverlong

LEMMA ThreeFit ==
  ASSUME NEW a \in 224 .. 239, NEW b \in CONT, NEW c \in CONT
  PROVE  IsCodePoint(ThreeSpell(a, b, c), 3)
              <=> ~ (a = 224 /\ b < 160) /\ ~ (a = 237 /\ b >= 160)
<1>1. a % 16 = a - 224
  OBVIOUS
<1>2. b \in 128 .. 191 /\ b % 64 = b - 128
  BY DEF CONT
<1>3. c \in 128 .. 191 /\ c % 64 = c - 128
  BY DEF CONT
<1> QED
  BY <1>1, <1>2, <1>3 DEF ThreeSpell, IsCodePoint, IsOverlong

LEMMA FourFit ==
  ASSUME NEW a \in 240 .. 244, NEW b \in CONT, NEW c \in CONT, NEW d \in CONT
  PROVE  IsCodePoint(FourSpell(a, b, c, d), 4)
              <=> ~ (a = 240 /\ b < 144) /\ ~ (a = 244 /\ b >= 144)
<1>1. a % 8 = a - 240
  OBVIOUS
<1>2. b \in 128 .. 191 /\ b % 64 = b - 128
  BY DEF CONT
<1>3. c \in 128 .. 191 /\ c % 64 = c - 128
  BY DEF CONT
<1>4. d \in 128 .. 191 /\ d % 64 = d - 128
  BY DEF CONT
<1> QED
  BY <1>1, <1>2, <1>3, <1>4 DEF FourSpell, IsCodePoint, IsOverlong

LEMMA ByteAtIsByte ==
  ASSUME NEW s \in Seq(BYTE), NEW i \in Nat
  PROVE  ByteAt(s, i) \in 0 .. 255 /\ (ByteAt(s, i) # 0 => i \in DOMAIN s /\ ByteAt(s, i) = s[i])
<1>1. CASE i \in DOMAIN s
  <2>1. s[i] \in BYTE
    BY <1>1
  <2>2. ByteAt(s, i) = s[i]
    BY <1>1 DEF ByteAt
  <2> QED
    BY <1>1, <2>1, <2>2 DEF BYTE
<1>2. CASE i \notin DOMAIN s
  <2>1. ByteAt(s, i) = 0
    BY <1>2 DEF ByteAt
  <2> QED
    BY <2>1
<1> QED
  BY <1>1, <1>2

(* Where the lead byte tells n bytes, it is they that are looked at. *)
LEMMA VerifiedIsFormed ==
  ASSUME NEW s \in Seq(BYTE), NEW i \in 1 .. Len(s)
  PROVE  LET n == verify_utf8_sequence(s, i) IN
         /\ n > 0 => Formed(n, s[i], ByteAt(s, i + 1), ByteAt(s, i + 2), ByteAt(s, i + 3))
         /\ \A m \in 1 .. 4 :
              Formed(m, s[i], ByteAt(s, i + 1), ByteAt(s, i + 2), ByteAt(s, i + 3)) => m = n
<1> DEFINE a == s[i]
           b == ByteAt(s, i + 1)
           c == ByteAt(s, i + 2)
           d == ByteAt(s, i + 3)
           len == num_bytes_in_utf8_sequence(a)
           cp == CodePoint(s, i, len)
           Conts == \A k \in 1 .. len - 1 : IS_CONT(ByteAt(s, i + k))
           fits == IsCodePoint(cp, len)
           v == verify_utf8_sequence(s, i)
           F(m) == Formed(m, a, b, c, d)
<1>1. v = IF len > 0 /\ Conts /\ fits THEN len ELSE 0
  BY DEF verify_utf8_sequence, IsCodePoint
<1>2. a \in BYTE /\ b \in 0 .. 255 /\ c \in 0 .. 255 /\ d \in 0 .. 255
  BY ByteAtIsByte, SMTT(30)
<1>3. (IS_CONT(b) <=> b \in CONT) /\ (IS_CONT(c) <=> c \in CONT) /\ (IS_CONT(d) <=> d \in CONT)
  BY <1>2, ContinuationBytes
<1>4. /\ b \in CONT => b = s[i + 1]
      /\ c \in CONT => c = s[i + 2]
      /\ d \in CONT => d = s[i + 3]
  <2>1. /\ b # 0 => b = s[i + 1]
        /\ c # 0 => c = s[i + 2]
        /\ d # 0 => d = s[i + 3]
    BY ByteAtIsByte
  <2>2. \A x \in CONT : x # 0
    BY DEF CONT
  <2> QED
    BY <2>1, <2>2, Zenon
<1>5. /\ len = 1 => Conts
      /\ len = 2 => (Conts <=> b \in CONT)
      /\ len = 3 => (Conts <=> b \in CONT /\ c \in CONT)
      /\ len = 4 => (Conts <=> b \in CONT /\ c \in CONT /\ d \in CONT)
  <2> HIDE DEF b, c, d
  <2>3. len = 1 => 1 .. len - 1 = {}
    OBVIOUS
  <2>4. len = 2 => 1 .. len - 1 = {1}
    OBVIOUS
  <2>5. len = 3 => 1 .. len - 1 = {1, 2}
    OBVIOUS
  <2>6. len = 4 => 1 .. len - 1 = {1, 2, 3}
    OBVIOUS
  <2> HIDE DEF len
  <2> QED
    BY <1>3, <2>3, <2>4, <2>5, <2>6 DEF b, c, d
<1>6. /\ len = 1 => cp = a
      /\ len = 2 => cp = (a % 32) * 64 + (s[i + 1] % 64)
      /\ len = 3 => cp = ((a % 16) * 64 + (s[i + 1] % 64)) * 64 + (s[i + 2] % 64)
      /\ len = 4 => cp = (((a % 8) * 64 + (s[i + 1] % 64)) * 64 + (s[i + 2] % 64)) * 64 + (s[i + 3] % 64)
  <2> HIDE DEF len
  <2> QED
    BY SMT DEF CodePoint
<1>7. /\ a < 128 => len = 1
      /\ a \in 128 .. 193 => len = 0
      /\ a \in 194 .. 223 => len = 2
      /\ a \in 224 .. 239 => len = 3
      /\ a \in 240 .. 244 => len = 4
      /\ a > 244 => len = 0
  <2>1. a \in 0 .. 255
    BY <1>2 DEF BYTE
  <2> HIDE DEF a
  <2> QED
    BY <2>1, LeadBytes
<1>8. /\ len = 1 <=> a \in 1 .. 127
      /\ len = 2 <=> a \in 194 .. 223
      /\ len = 3 <=> a \in 224 .. 239
      /\ len = 4 <=> a \in 240 .. 244
  <2> HIDE DEF a, len
  <2> QED
    BY <1>2, <1>7 DEF BYTE
<1>9. len \in 0 .. 4
  BY SequenceLengths
<1>10. /\ F(1) <=> a \in 1 .. 127
       /\ F(2) <=> a \in 194 .. 223 /\ b \in CONT
       /\ F(3) <=> a \in 224 .. 239 /\ b \in CONT /\ c \in CONT
                  /\ ~ (a = 224 /\ b < 160) /\ ~ (a = 237 /\ b >= 160)
       /\ F(4) <=> a \in 240 .. 244 /\ b \in CONT /\ c \in CONT /\ d \in CONT
                  /\ ~ (a = 240 /\ b < 144) /\ ~ (a = 244 /\ b >= 144)
  <2> HIDE DEF a, b, c, d
  <2>1. F(1) <=> a \in 1 .. 127
    BY DEF Formed
  <2>2. F(2) <=> a \in 194 .. 223 /\ b \in CONT
    BY DEF Formed
  <2>3. F(3) <=> a \in 224 .. 239 /\ b \in CONT /\ c \in CONT
                  /\ ~ (a = 224 /\ b < 160) /\ ~ (a = 237 /\ b >= 160)
    BY <1>2 DEF Formed, CONT, BYTE
  <2>4. F(4) <=> a \in 240 .. 244 /\ b \in CONT /\ c \in CONT /\ d \in CONT
                  /\ ~ (a = 240 /\ b < 144) /\ ~ (a = 244 /\ b >= 144)
    BY <1>2 DEF Formed, CONT, BYTE
  <2> HIDE DEF F
  <2> QED
    BY <2>1, <2>2, <2>3, <2>4
<1> DEFINE Goal == (v > 0 => F(v)) /\ \A m \in 1 .. 4 : F(m) => m = v
<1> HIDE DEF a, b, c, d, len, cp, Conts, v, fits, F
<1> SUFFICES Goal
  BY DEF v, F, a, b, c, d
<1>11. CASE len = 1
  <2>1. cp = a /\ Conts /\ a \in 1 .. 127
    BY <1>5, <1>6, <1>8, <1>11
  <2>2. fits
    BY <1>11, <2>1 DEF fits, IsCodePoint, IsOverlong
  <2>3. v = 1
    BY <1>1, <1>11, <2>1, <2>2
  <2>4. F(1) /\ ~ F(2) /\ ~ F(3) /\ ~ F(4)
    BY <1>10, <2>1
  <2> QED
    BY <2>3, <2>4
<1>12. CASE len = 2
  <2>1. a \in 194 .. 223
    BY <1>8, <1>12
  <2>2. ASSUME b \in CONT PROVE fits
    <3>1. cp = TwoSpell(a, b)
      BY <1>4, <1>6, <1>12, <2>2 DEF TwoSpell
    <3>2. IsCodePoint(TwoSpell(a, b), 2)
      BY <2>1, <2>2, TwoFit, Zenon
    <3> QED
      BY <1>12, <3>1, <3>2 DEF fits
  <2>3. (v = 2 <=> b \in CONT) /\ v \in {0, 2}
    BY <1>1, <1>5, <1>12, <2>2
  <2>4. (F(2) <=> b \in CONT) /\ ~ F(1) /\ ~ F(3) /\ ~ F(4)
    BY <1>10, <2>1
  <2> QED
    BY <2>3, <2>4
<1>13. CASE len = 3
  <2>1. a \in 224 .. 239
    BY <1>8, <1>13
  <2>2. ASSUME b \in CONT, c \in CONT
        PROVE  fits <=> ~ (a = 224 /\ b < 160) /\ ~ (a = 237 /\ b >= 160)
    <3>1. cp = ThreeSpell(a, b, c)
      BY <1>4, <1>6, <1>13, <2>2 DEF ThreeSpell
    <3>2. IsCodePoint(ThreeSpell(a, b, c), 3)
            <=> ~ (a = 224 /\ b < 160) /\ ~ (a = 237 /\ b >= 160)
      BY <2>1, <2>2, ThreeFit, Zenon
    <3> QED
      BY <1>13, <3>1, <3>2 DEF fits
  <2>3. /\ v = 3 <=> b \in CONT /\ c \in CONT /\ ~ (a = 224 /\ b < 160) /\ ~ (a = 237 /\ b >= 160)
        /\ v \in {0, 3}
    BY <1>1, <1>5, <1>13, <2>2
  <2>4. /\ F(3) <=> b \in CONT /\ c \in CONT /\ ~ (a = 224 /\ b < 160) /\ ~ (a = 237 /\ b >= 160)
        /\ ~ F(1) /\ ~ F(2) /\ ~ F(4)
    BY <1>10, <2>1
  <2> QED
    BY <2>3, <2>4
<1>14. CASE len = 4
  <2>1. a \in 240 .. 244
    BY <1>8, <1>14
  <2>2. ASSUME b \in CONT, c \in CONT, d \in CONT
        PROVE  fits <=> ~ (a = 240 /\ b < 144) /\ ~ (a = 244 /\ b >= 144)
    <3>1. cp = FourSpell(a, b, c, d)
      BY <1>4, <1>6, <1>14, <2>2 DEF FourSpell
    <3>2. IsCodePoint(FourSpell(a, b, c, d), 4)
            <=> ~ (a = 240 /\ b < 144) /\ ~ (a = 244 /\ b >= 144)
      BY <2>1, <2>2, FourFit, Zenon
    <3> QED
      BY <1>14, <3>1, <3>2 DEF fits
  <2>3. /\ v = 4 <=> /\ b \in CONT /\ c \in CONT /\ d \in CONT
                     /\ ~ (a = 240 /\ b < 144) /\ ~ (a = 244 /\ b >= 144)
        /\ v \in {0, 4}
    BY <1>1, <1>5, <1>14, <2>2
  <2>4. /\ F(4) <=> /\ b \in CONT /\ c \in CONT /\ d \in CONT
                    /\ ~ (a = 240 /\ b < 144) /\ ~ (a = 244 /\ b >= 144)
        /\ ~ F(1) /\ ~ F(2) /\ ~ F(3)
    BY <1>10, <2>1
  <2> QED
    BY <2>3, <2>4
<1>15. CASE len = 0
  <2>1. v = 0
    BY <1>1, <1>15
  <2>2. ~ F(1) /\ ~ F(2) /\ ~ F(3) /\ ~ F(4)
    BY <1>8, <1>10, <1>15
  <2> QED
    BY <2>1, <2>2
<1> HIDE DEF Goal
<1> QED
  BY <1>9, <1>11, <1>12, <1>13, <1>14, <1>15

(* Only the first n count. *)
LEMMA FormedLooks ==
  ASSUME NEW n \in 1 .. 4, NEW a, NEW b, NEW c, NEW d, NEW b1, NEW c1, NEW d1,
         n >= 2 => b = b1, n >= 3 => c = c1, n >= 4 => d = d1
  PROVE  Formed(n, a, b, c, d) <=> Formed(n, a, b1, c1, d1)
<1>1. CASE n = 1
  BY <1>1 DEF Formed
<1>2. CASE n = 2
  BY <1>2 DEF Formed
<1>3. CASE n = 3
  BY <1>3 DEF Formed
<1>4. CASE n = 4
  BY <1>4 DEF Formed
<1> QED
  BY <1>1, <1>2, <1>3, <1>4

LEMMA FormedLength ==
  ASSUME NEW n, NEW a, NEW b, NEW c, NEW d, Formed(n, a, b, c, d)
  PROVE  n \in 1 .. 4 /\ (n >= 2 => b # 0) /\ (n >= 3 => c # 0) /\ (n >= 4 => d # 0)
<1>1. ~ (0 \in CONT) /\ ~ (0 \in 160 .. 191) /\ ~ (0 \in 128 .. 159)
      /\ ~ (0 \in 144 .. 191) /\ ~ (0 \in 128 .. 143)
  BY DEF CONT
<1>2. n \in {1, 2, 3, 4}
  BY DEF Formed
<1> HIDE DEF CONT
<1>3. CASE n = 1
  BY <1>3
<1>4. CASE n = 2
  BY <1>1, <1>4 DEF Formed
<1>5. CASE n = 3
  BY <1>1, <1>5 DEF Formed
<1>6. CASE n = 4
  BY <1>1, <1>6 DEF Formed
<1> QED
  BY <1>2, <1>3, <1>4, <1>5, <1>6

(* A sequence of n bytes is verified just when they are a character. *)
LEMMA VerifiedIsCharacter ==
  ASSUME NEW s \in Seq(BYTE), NEW i \in 1 .. Len(s), NEW n \in 1 .. 4
  PROVE  verify_utf8_sequence(s, i) = n
           <=> i + n - 1 <= Len(s) /\ IsCharacter(SubSeq(s, i, i + n - 1))
<1> DEFINE a == s[i]
           b == ByteAt(s, i + 1)
           c == ByteAt(s, i + 2)
           d == ByteAt(s, i + 3)
           v == verify_utf8_sequence(s, i)
           t == SubSeq(s, i, i + n - 1)
<1>1. v = n <=> Formed(n, a, b, c, d)
  <2>1. (v > 0 => Formed(v, a, b, c, d)) /\ \A m \in 1 .. 4 : Formed(m, a, b, c, d) => m = v
    BY VerifiedIsFormed
  <2> HIDE DEF a, b, c, d, v
  <2> QED
    BY <2>1
<1>2. CASE i + n - 1 <= Len(s)
  <2>1. t \in Seq(BYTE) /\ Len(t) = n /\ \A k \in 1 .. n : t[k] = s[i + k - 1]
    BY <1>2, SMTT(30)
  <2>2. t[1] = a /\ (n >= 2 => t[2] = b) /\ (n >= 3 => t[3] = c) /\ (n >= 4 => t[4] = d)
    <3> HIDE DEF t
    <3>1. \A k \in 1 .. 4 : k <= n => i + k - 1 \in DOMAIN s /\ t[k] = s[i + k - 1]
      <4>1. \A k \in 1 .. 4 : k <= n => k \in 1 .. n
        OBVIOUS
      <4>2. \A k \in 1 .. n : i + k - 1 \in 1 .. Len(s)
        BY <1>2
      <4> QED
        BY <2>1, <4>1, <4>2
    <3>2. \A k \in 2 .. 4 : k <= n => t[k] = ByteAt(s, i + k - 1)
      BY <3>1 DEF ByteAt
    <3>3. n >= 2 => t[2] = ByteAt(s, i + 2 - 1)
      BY <3>2
    <3>4. n >= 3 => t[3] = ByteAt(s, i + 3 - 1)
      BY <3>2
    <3>5. n >= 4 => t[4] = ByteAt(s, i + 4 - 1)
      BY <3>2
    <3>6. t[1] = a
      BY <3>1
    <3> QED
      BY <3>3, <3>4, <3>5, <3>6
  <2> HIDE DEF t, v, a, b, c, d
  <2>3. IsCharacter(t) <=> Formed(n, t[1], t[2], t[3], t[4])
    BY <2>1, CharacterIsFormed
  <2>4. Formed(n, a, t[2], t[3], t[4]) <=> Formed(n, a, b, c, d)
    BY <2>2, FormedLooks
  <2>5. v = n <=> IsCharacter(t)
    BY <1>1, <2>2, <2>3, <2>4
  <2> QED
    BY <1>2, <2>5 DEF v, t
<1>3. CASE i + n - 1 > Len(s)
  <2>1. n >= 2 /\ ByteAt(s, i + n - 1) = 0
    BY <1>3 DEF ByteAt
  <2>2. \/ n = 2 /\ b = 0
        \/ n = 3 /\ c = 0
        \/ n = 4 /\ d = 0
    BY <2>1
  <2> HIDE DEF a, b, c, d
  <2>3. ~ Formed(n, a, b, c, d)
    BY <2>2, FormedLength
  <2>4. ~ (i + n - 1 <= Len(s))
    BY <1>3
  <2> HIDE DEF t, v
  <2>5. v # n
    BY <1>1, <2>3
  <2> QED
    BY <2>4, <2>5 DEF v
<1> QED
  BY <1>2, <1>3

(* A string of bytes is let in just when it can be cut into characters.    *)
THEOREM TextIsLetIn ==
  ASSUME NEW s \in Seq(BYTE)
  PROVE  OnlyTextIsLetIn(s)
<1> DEFINE L == Len(s)
           valid(i) == ValidFrom(s)[i]
           len(i) == verify_utf8_sequence(s, i)
<1>1. L \in Nat
  OBVIOUS
<1>2. ASSUME NEW i \in 1 .. L, valid(i) = 1
      PROVE  len(i) \in 1 .. 4 /\ i + len(i) - 1 <= L /\ IsCharacter(SubSeq(s, i, i + len(i) - 1))
             /\ valid(i + len(i)) = 1
  <2>1. i \in Nat /\ ~ (i > L)
    BY <1>1
  <2>2. valid(i) = IF len(i) = 0 THEN 0 ELSE valid(i + len(i))
    BY <2>1, ValidFromEquation
  <2>3. len(i) \in 1 .. 4
    <3>1. len(i) \in 0 .. 4
      BY VerifiedLengths
    <3> HIDE DEF len, valid
    <3> QED
      BY <1>2, <2>2, <3>1
  <2> QED
    BY <1>2, <2>2, <2>3, VerifiedIsCharacter
<1>3. ASSUME NEW i \in 1 .. L, NEW m \in i .. L, IsCharacter(SubSeq(s, i, m)), valid(m + 1) = 1
      PROVE  valid(i) = 1
  <2> DEFINE t == SubSeq(s, i, m)
             n == m - i + 1
  <2>1. t \in Seq(BYTE) /\ Len(t) = n
    BY <1>1
  <2>2. n \in 1 .. 4
    <3> HIDE DEF t, n
    <3>1. Formed(n, t[1], t[2], t[3], t[4])
      BY <1>3, <2>1, CharacterIsFormed DEF t
    <3> QED
      BY <3>1, FormedLength
  <2>3. i + n - 1 = m /\ i + n = m + 1 /\ i \in Nat /\ ~ (i > L)
    BY <1>1
  <2> HIDE DEF n
  <2>4. len(i) = n
    BY <1>3, <2>2, <2>3, VerifiedIsCharacter
  <2>5. valid(i) = IF len(i) = 0 THEN 0 ELSE valid(i + len(i))
    BY <2>3, ValidFromEquation
  <2>6. valid(i) = valid(m + 1)
    <3> HIDE DEF len, valid
    <3> QED
      BY <2>2, <2>3, <2>4, <2>5
  <2> QED
    BY <1>3, <2>6
<1>4. valid(L + 1) = 1
  BY <1>1, ValidFromEquation
<1> HIDE DEF valid, len
<1>5. ASSUME valid(1) = 1 PROVE IsText(s)
  <2> DEFINE cuts == {m \in 0 .. L : valid(m + 1) = 1}
  <2>1. cuts \in SUBSET (0 .. L) /\ 0 \in cuts
    BY <1>1, <1>5
  <2>2. ASSUME NEW m \in cuts, m # L
        PROVE  \E n \in cuts : m < n /\ IsCharacter(SubSeq(s, m + 1, n))
    <3> DEFINE i == m + 1
    <3>1. i \in 1 .. L /\ valid(i) = 1
      BY <1>1, <2>2
    <3>2. len(i) \in 1 .. 4 /\ i + len(i) - 1 <= L /\ valid(i + len(i)) = 1
          /\ IsCharacter(SubSeq(s, i, i + len(i) - 1))
      BY <1>2, <3>1
    <3> DEFINE n == i + len(i) - 1
    <3>3. n \in 0 .. L /\ n + 1 = i + len(i) /\ m < n
      BY <1>1, <3>1, <3>2
    <3>4. valid(n + 1) = 1 /\ IsCharacter(SubSeq(s, i, n))
      BY <3>2, <3>3
    <3> HIDE DEF n
    <3> QED
      BY <3>3, <3>4
  <2> HIDE DEF cuts
  <2>3. \E c \in SUBSET (0 .. Len(s)) :
          /\ 0 \in c
          /\ \A m \in c : m = Len(s) \/ \E n \in c : m < n /\ IsCharacter(SubSeq(s, m + 1, n))
    BY <2>1, <2>2, Zenon DEF L
  <2> QED
    BY <2>3, Zenon DEF IsText
<1>6. ASSUME IsText(s) PROVE valid(1) = 1
  <2>1. PICK cuts \in SUBSET (0 .. L) :
          /\ 0 \in cuts
          /\ \A m \in cuts : m = L \/ \E n \in cuts : m < n /\ IsCharacter(SubSeq(s, m + 1, n))
    BY <1>6, Zenon DEF IsText, L
  <2> DEFINE G == {i \in Nat : i \in 1 .. L + 1 /\ i - 1 \in cuts => valid(i) = 1}
  <2>2. \A i \in Nat : i > L => i \in G
    <3>1. \A i \in Nat : i > L /\ i \in 1 .. L + 1 => i = L + 1
      BY <1>1
    <3> QED
      BY <1>4, <3>1
  <2>3. ASSUME NEW i \in 0 .. L, \A j \in Nat : j > i => j \in G PROVE i \in G
    <3>0. i \in Nat
      BY <1>1
    <3> SUFFICES ASSUME i \in 1 .. L + 1, i - 1 \in cuts PROVE valid(i) = 1
      BY <3>0
    <3> DEFINE m == i - 1
    <3>1. m # L /\ m \in cuts /\ m + 1 = i
      BY <1>1
    <3>2. PICK n \in cuts : m < n /\ IsCharacter(SubSeq(s, m + 1, n))
      BY <2>1, <3>1
    <3>3. n \in i .. L /\ IsCharacter(SubSeq(s, i, n))
      BY <1>1, <3>1, <3>2
    <3>4. n + 1 \in Nat /\ n + 1 > i /\ n + 1 \in 1 .. L + 1 /\ (n + 1) - 1 = n
      BY <1>1, <3>3
    <3>5. n + 1 \in G
      BY <2>3, <3>4
    <3>6. valid(n + 1) = 1
      BY <3>4, <3>5
    <3>7. i \in 1 .. L
      BY <1>1
    <3> QED
      BY <1>3, <3>3, <3>6, <3>7
  <2> HIDE DEF G
  <2>4. Nat \subseteq G
    BY <1>1, <2>2, <2>3, Backwards
  <2>5. 1 \in G /\ 1 \in 1 .. L + 1 /\ 1 - 1 = 0
    BY <1>1, <2>4
  <2> QED
    BY <2>1, <2>5 DEF G
<1> QED
  BY <1>5, <1>6 DEF OnlyTextIsLetIn, is_valid_utf8, valid

-----------------------------------------------------------------------------
(* Escapes.                                                                *)
UNIT   == {u \in Int : -1 <= u /\ u <= 65535}
OCTET  == 0 .. 255
SCALAR == {cp \in Nat : cp <= 1114111 /\ ~ (cp >= 55296 /\ cp <= 57343)}

(* The bytes of a code point, by their number. *)
LEMMA BytesByLength ==
  ASSUME NEW cp \in Nat, cp <= 1114111
  PROVE  /\ cp < 128 => Bytes(cp) = << cp >>
         /\ cp >= 128 /\ cp <= 2047 => Bytes(cp) = << 192 + cp \div 64, 128 + (cp % 64) >>
         /\ cp >= 2048 /\ cp <= 65535 =>
              Bytes(cp) = << 224 + cp \div 4096, 128 + ((cp \div 64) % 64), 128 + (cp % 64) >>
         /\ cp > 65535 =>
              Bytes(cp) = << 240 + cp \div 262144, 128 + ((cp \div 4096) % 64),
                             128 + ((cp \div 64) % 64), 128 + (cp % 64) >>
<1> DEFINE b1 == << cp >>
           b2 == << 192 + cp \div 64, 128 + (cp % 64) >>
           b3 == << 224 + cp \div 4096, 128 + ((cp \div 64) % 64), 128 + (cp % 64) >>
           b4 == << 240 + cp \div 262144, 128 + ((cp \div 4096) % 64),
                    128 + ((cp \div 64) % 64), 128 + (cp % 64) >>
<1>1. Bytes(cp) = CASE cp < 128           -> b1
                    [] cp >= 128 /\ cp < 2048   -> b2
                    [] cp >= 2048 /\ cp < 65536 -> b3
                    [] OTHER              -> b4
  BY SMT DEF Bytes
<1> HIDE DEF b1, b2, b3, b4
<1>2. cp < 128 => Bytes(cp) = b1
  BY <1>1, SMT
<1>3. cp >= 128 /\ cp <= 2047 => Bytes(cp) = b2
  BY <1>1, SMT
<1>4. cp >= 2048 /\ cp <= 65535 => Bytes(cp) = b3
  BY <1>1, SMT
<1>5. cp > 65535 => Bytes(cp) = b4
  BY <1>1, SMT
<1> QED
  BY <1>2, <1>3, <1>4, <1>5, SMT DEF b1, b2, b3, b4

LEMMA ContinuationOf ==
  ASSUME NEW n \in Nat
  PROVE  LET b == 128 + (n % 64) IN b \in 128 .. 191 /\ IS_CONT(b) /\ b % 64 = n % 64
<1> DEFINE r == n % 64
<1>1. r \in 0 .. 63
  OBVIOUS
<1> HIDE DEF r
<1>2. 128 + r \in 128 .. 191 /\ (128 + r) \div 64 = 2
  BY <1>1
<1>3. (128 + r) % 64 = r
  BY <1>1
<1> QED
  BY <1>2, <1>3 DEF r, IS_CONT

(* A code point is put together again from its parts. *)
LEMMA PartsOfTwo ==
  ASSUME NEW cp \in Nat, cp >= 128, cp <= 2047
  PROVE  LET a == 192 + cp \div 64
         IN a \in 194 .. 223 /\ (a % 32) * 64 + (cp % 64) = cp
<1> DEFINE q == cp \div 64
<1>1. q \in 2 .. 31 /\ cp = q * 64 + (cp % 64)
  OBVIOUS
<1> HIDE DEF q
<1>2. (192 + q) % 32 = q
  BY <1>1
<1> QED
  BY <1>1, <1>2 DEF q

LEMMA PartsOfThree ==
  ASSUME NEW cp \in Nat, cp >= 2048, cp <= 65535
  PROVE  LET a == 224 + cp \div 4096
         IN a \in 224 .. 239 /\ ((a % 16) * 64 + ((cp \div 64) % 64)) * 64 + (cp % 64) = cp
<1> DEFINE q == cp \div 64
           p == cp \div 4096
<1>1. q \in Nat /\ cp = q * 64 + (cp % 64)
  OBVIOUS
<1>2. p \in 0 .. 15
  OBVIOUS
<1>3. p = q \div 64
  OBVIOUS
<1>4. q = p * 64 + (q % 64)
  <2> HIDE DEF q, p
  <2> QED
    BY <1>1, <1>3
<1> HIDE DEF q, p
<1>5. (224 + p) % 16 = p
  BY <1>2
<1> QED
  BY <1>1, <1>2, <1>4, <1>5 DEF q, p

LEMMA PartsOfFour ==
  ASSUME NEW cp \in Nat, cp >= 65536, cp <= 1114111
  PROVE  LET a == 240 + cp \div 262144
         IN /\ a \in 240 .. 244
            /\ (((a % 8) * 64 + ((cp \div 4096) % 64)) * 64 + ((cp \div 64) % 64)) * 64 + (cp % 64) = cp
<1> DEFINE q == cp \div 64
           p == cp \div 4096
           o == cp \div 262144
<1>1. q \in Nat /\ cp = q * 64 + (cp % 64)
  OBVIOUS
<1>2. o \in 0 .. 4
  OBVIOUS
<1>3. p = q \div 64 /\ p \in Nat
  OBVIOUS
<1>4. o = p \div 64
  OBVIOUS
<1>5. q = p * 64 + (q % 64)
  <2> HIDE DEF q, p
  <2> QED
    BY <1>1, <1>3
<1>6. p = o * 64 + (p % 64)
  <2> HIDE DEF p, o
  <2> QED
    BY <1>3, <1>4
<1> HIDE DEF q, p, o
<1>7. (240 + o) % 8 = o
  BY <1>2
<1> QED
  BY <1>1, <1>2, <1>5, <1>6, <1>7 DEF q, p, o

(* The bytes of a code point are a sequence that spells it. *)
Spells(b, cp) ==
  /\ b \in Seq(OCTET) /\ Len(b) \in 1 .. 4
  /\ num_bytes_in_utf8_sequence(b[1]) = Len(b)
  /\ CodePoint(b, 1, Len(b)) = cp
  /\ \A k \in 2 .. Len(b) : IS_CONT(b[k])
  /\ ~ IsOverlong(cp, Len(b))

LEMMA BytesSpell ==
  ASSUME NEW cp \in SCALAR
  PROVE  Spells(Bytes(cp), cp)
<1> DEFINE b == Bytes(cp)
<1>1. cp \in Nat /\ cp <= 1114111
  BY DEF SCALAR
<1>2. CASE cp < 128
  <2>1. b = << cp >>
    BY <1>1, <1>2, BytesByLength
  <2>2. cp \in 0 .. 255 /\ num_bytes_in_utf8_sequence(cp) = 1
    BY <1>1, <1>2, LeadBytes
  <2> HIDE DEF b
  <2>3. b \in Seq(OCTET) /\ Len(b) = 1 /\ b[1] = cp
    BY <2>1, <2>2 DEF OCTET
  <2>4. CodePoint(b, 1, 1) = cp
    BY <2>3, SMT DEF CodePoint
  <2>5. ~ IsOverlong(cp, 1)
    BY <1>1, <1>2 DEF IsOverlong
  <2>6. Spells(b, cp)
    BY <2>2, <2>3, <2>4, <2>5 DEF Spells
  <2> QED
    BY <2>6 DEF b
<1>3. CASE cp >= 128 /\ cp <= 2047
  <2> DEFINE x == 192 + cp \div 64
             y == 128 + (cp % 64)
  <2>1. b = << x, y >>
    BY <1>1, <1>3, BytesByLength
  <2>2. x \in 194 .. 223 /\ (x % 32) * 64 + (cp % 64) = cp
    BY <1>1, <1>3, PartsOfTwo
  <2>3. y \in 128 .. 191 /\ IS_CONT(y) /\ y % 64 = cp % 64
    BY <1>1, ContinuationOf
  <2> HIDE DEF b, x, y
  <2>4. num_bytes_in_utf8_sequence(x) = 2 /\ x \in OCTET /\ y \in OCTET
    BY <2>2, <2>3, LeadBytes DEF OCTET
  <2>5. b \in Seq(OCTET) /\ Len(b) = 2 /\ b[1] = x /\ b[2] = y
    BY <2>1, <2>4
  <2>6. CodePoint(b, 1, 2) = (x % 32) * 64 + (y % 64)
    BY <2>5, SMT DEF CodePoint
  <2>7. ~ IsOverlong(cp, 2)
    BY <1>1, <1>3 DEF IsOverlong
  <2>8. \A k \in 2 .. 2 : IS_CONT(b[k])
    BY <2>3, <2>5
  <2>9. Spells(b, cp)
    BY <2>2, <2>3, <2>4, <2>5, <2>6, <2>7, <2>8 DEF Spells
  <2> QED
    BY <2>9 DEF b
<1>4. CASE cp >= 2048 /\ cp <= 65535
  <2> DEFINE x == 224 + cp \div 4096
             y == 128 + ((cp \div 64) % 64)
             z == 128 + (cp % 64)
  <2>1. b = << x, y, z >>
    BY <1>1, <1>4, BytesByLength
  <2>2. x \in 224 .. 239 /\ ((x % 16) * 64 + ((cp \div 64) % 64)) * 64 + (cp % 64) = cp
    BY <1>1, <1>4, PartsOfThree
  <2>3. y \in 128 .. 191 /\ IS_CONT(y) /\ y % 64 = (cp \div 64) % 64
    <3>1. cp \div 64 \in Nat
      BY <1>1
    <3> QED
      BY <3>1, ContinuationOf
  <2>4. z \in 128 .. 191 /\ IS_CONT(z) /\ z % 64 = cp % 64
    BY <1>1, ContinuationOf
  <2> HIDE DEF b, x, y, z
  <2>5. num_bytes_in_utf8_sequence(x) = 3 /\ x \in OCTET /\ y \in OCTET /\ z \in OCTET
    BY <2>2, <2>3, <2>4, LeadBytes DEF OCTET
  <2>6. b \in Seq(OCTET) /\ Len(b) = 3 /\ b[1] = x /\ b[2] = y /\ b[3] = z
    BY <2>1, <2>5
  <2>7. CodePoint(b, 1, 3) = ((x % 16) * 64 + (y % 64)) * 64 + (z % 64)
    BY <2>6, SMT DEF CodePoint
  <2>8. ~ IsOverlong(cp, 3)
    BY <1>1, <1>4 DEF IsOverlong
  <2>9. \A k \in 2 .. 3 : IS_CONT(b[k])
    <3>1. \A k \in 2 .. 3 : k = 2 \/ k = 3
      OBVIOUS
    <3> QED
      BY <2>3, <2>4, <2>6, <3>1
  <2>10. Spells(b, cp)
    BY <2>2, <2>3, <2>4, <2>5, <2>6, <2>7, <2>8, <2>9 DEF Spells
  <2> QED
    BY <2>10 DEF b
<1>5. CASE cp > 65535
  <2> DEFINE w == 240 + cp \div 262144
             x == 128 + ((cp \div 4096) % 64)
             y == 128 + ((cp \div 64) % 64)
             z == 128 + (cp % 64)
  <2>1. b = << w, x, y, z >>
    BY <1>1, <1>5, BytesByLength
  <2>2. /\ w \in 240 .. 244
        /\ (((w % 8) * 64 + ((cp \div 4096) % 64)) * 64 + ((cp \div 64) % 64)) * 64 + (cp % 64) = cp
    <3>1. cp >= 65536 /\ cp <= 1114111
      BY <1>1, <1>5
    <3> QED
      BY <1>1, <3>1, PartsOfFour
  <2>3. x \in 128 .. 191 /\ IS_CONT(x) /\ x % 64 = (cp \div 4096) % 64
    <3>1. cp \div 4096 \in Nat
      BY <1>1
    <3> QED
      BY <3>1, ContinuationOf
  <2>4. y \in 128 .. 191 /\ IS_CONT(y) /\ y % 64 = (cp \div 64) % 64
    <3>1. cp \div 64 \in Nat
      BY <1>1
    <3> QED
      BY <3>1, ContinuationOf
  <2>5. z \in 128 .. 191 /\ IS_CONT(z) /\ z % 64 = cp % 64
    BY <1>1, ContinuationOf
  <2> HIDE DEF b, w, x, y, z
  <2>6. num_bytes_in_utf8_sequence(w) = 4 /\ w \in OCTET /\ x \in OCTET /\ y \in OCTET /\ z \in OCTET
    BY <2>2, <2>3, <2>4, <2>5, LeadBytes DEF OCTET
  <2>7. b \in Seq(OCTET) /\ Len(b) = 4 /\ b[1] = w /\ b[2] = x /\ b[3] = y /\ b[4] = z
    BY <2>1, <2>6
  <2>8. CodePoint(b, 1, 4) = (((w % 8) * 64 + (x % 64)) * 64 + (y % 64)) * 64 + (z % 64)
    BY <2>7, SMT DEF CodePoint
  <2>9. ~ IsOverlong(cp, 4)
    BY <1>1, <1>5 DEF IsOverlong
  <2>10. \A k \in 2 .. 4 : IS_CONT(b[k])
    <3>1. \A k \in 2 .. 4 : k = 2 \/ k = 3 \/ k = 4
      OBVIOUS
    <3> QED
      BY <2>3, <2>4, <2>5, <2>7, <3>1
  <2>11. Spells(b, cp)
    BY <2>2, <2>3, <2>4, <2>5, <2>6, <2>7, <2>8, <2>9, <2>10 DEF Spells
  <2> QED
    BY <2>11 DEF b
<1> QED
  BY <1>1, <1>2, <1>3, <1>4, <1>5

(* Wherever in a string the bytes of a code point stand.                   *)
StandsAt(s, q, n, cp) ==
  /\ num_bytes_in_utf8_sequence(s[q]) = n
  /\ CodePoint(s, q, n) = cp
  /\ verify_utf8_sequence(s, q) = n

LEMMA SpelledInside ==
  ASSUME NEW p \in Seq(OCTET), NEW b, NEW rest \in Seq(OCTET), NEW cp \in SCALAR, Spells(b, cp)
  PROVE  StandsAt(p \o b \o rest, Len(p) + 1, Len(b), cp)
<1> DEFINE s == p \o b \o rest
           q == Len(p) + 1
           n == Len(b)
<1>1. b \in Seq(OCTET) /\ n \in 1 .. 4
  BY DEF Spells
<1>2. s \in Seq(OCTET) /\ Len(s) = Len(p) + n + Len(rest) /\ q \in Nat
  BY <1>1
<1>3. \A k \in 0 .. n - 1 : q + k \in DOMAIN s /\ s[q + k] = b[1 + k]
  BY <1>1
<1>4. s[q] = b[1]
  BY <1>1
<1> HIDE DEF s, q
<1>5. num_bytes_in_utf8_sequence(s[q]) = n
  BY <1>4 DEF Spells
<1>6. CodePoint(s, q, n) = CodePoint(b, 1, n)
  <2>1. CASE n = 1
    BY <1>4, <2>1, SMT DEF CodePoint
  <2>2. CASE n = 2
    <3>1. s[q + 1] = b[1 + 1]
      BY <1>3, <2>2
    <3> QED
      BY <1>4, <2>2, <3>1, SMT DEF CodePoint
  <2>3. CASE n = 3
    <3>1. s[q + 1] = b[1 + 1] /\ s[q + 2] = b[1 + 2]
      BY <1>3, <2>3
    <3> QED
      BY <1>4, <2>3, <3>1, SMT DEF CodePoint
  <2>4. CASE n = 4
    <3>1. s[q + 1] = b[1 + 1] /\ s[q + 2] = b[1 + 2] /\ s[q + 3] = b[1 + 3]
      BY <1>3, <2>4
    <3> QED
      BY <1>4, <2>4, <3>1, SMT DEF CodePoint
  <2> HIDE DEF n
  <2> QED
    BY <1>1, <2>1, <2>2, <2>3, <2>4
<1>7. CodePoint(s, q, n) = cp
  BY <1>6 DEF Spells
<1>8. \A k \in 1 .. n - 1 : IS_CONT(ByteAt(s, q + k))
  <2> SUFFICES ASSUME NEW k \in 1 .. n - 1 PROVE IS_CONT(ByteAt(s, q + k))
    OBVIOUS
  <2>1. ByteAt(s, q + k) = b[1 + k]
    BY <1>1, <1>3 DEF ByteAt
  <2>2. 1 + k \in 2 .. n
    BY <1>1
  <2> QED
    BY <2>1, <2>2 DEF Spells
<1>9. ~ IsOverlong(cp, n) /\ cp <= 1114111 /\ ~ (cp >= 55296 /\ cp <= 57343)
  BY DEF Spells, SCALAR
<1> HIDE DEF n
<1>10. verify_utf8_sequence(s, q) = n
  BY <1>1, <1>5, <1>7, <1>8, <1>9 DEF verify_utf8_sequence
<1> QED
  BY <1>5, <1>7, <1>10 DEF StandsAt, s, q, n

(* A half of a pair stands alone there. *)
HalfAlone(us, i) == IsTrail(us[i]) \/ (IsLead(us[i]) /\ ~ IsTrail(Unit(us, i + 1)))

LEMMA HalvesOfPair ==
  ASSUME NEW u \in Int, NEW w \in Int, IsLead(u), IsTrail(w)
  PROVE  /\ PairOf(u, w) = 65536 + 1024 * (u % 1024) + (w % 1024)
         /\ PairOf(u, w) \in SCALAR
<1>1. u >= 55296 /\ u <= 56319 /\ w >= 56320 /\ w <= 57343
  BY DEF IsLead, IsTrail
<1>2. u % 1024 = u - 55296
  BY <1>1
<1>3. w % 1024 = w - 56320
  BY <1>1
<1> QED
  BY <1>1, <1>2, <1>3 DEF PairOf, SCALAR

LEMMA PutMeans ==
  ASSUME NEW us \in Seq(UNIT), NEW i \in 1 .. Len(us)
  PROVE  /\ HalfAlone(us, i) => Put(us, i).takes = 0
         /\ ~ HalfAlone(us, i) =>
              /\ Put(us, i).takes = Takes(us, i) /\ Put(us, i).bytes = Bytes(Meaning(us, i))
              /\ Meaning(us, i) \in SCALAR
              /\ i + Takes(us, i) - 1 <= Len(us)
<1> DEFINE u == us[i]
           w == Unit(us, i + 1)
           x == Put(us, i)
<1>1. u \in Int /\ -1 <= u /\ u <= 65535
  <2>1. u \in UNIT
    OBVIOUS
  <2> HIDE DEF u
  <2> QED
    BY <2>1 DEF UNIT
<1>2. w \in Int /\ (IsTrail(w) => i + 1 <= Len(us) /\ w = us[i + 1])
  <2>1. CASE i + 1 \in DOMAIN us
    <3>1. us[i + 1] \in UNIT /\ w = us[i + 1] /\ i + 1 <= Len(us)
      BY <2>1 DEF Unit
    <3> QED
      BY <3>1 DEF UNIT
  <2>2. CASE i + 1 \notin DOMAIN us
    <3>1. w = -1
      BY <2>2 DEF Unit, NoEscape
    <3> QED
      BY <3>1 DEF IsTrail
  <2> QED
    BY <2>1, <2>2
<1>3. x = IF u = -1 THEN [bytes |-> << 65 >>, takes |-> 1] ELSE parse_utf_16(us, i)
  BY DEF Put, NoEscape
<1>4. CASE u = -1
  <2>1. ~ IsLead(u) /\ ~ IsTrail(u)
    BY <1>4 DEF IsLead, IsTrail
  <2>2. Meaning(us, i) = 65 /\ Takes(us, i) = 1 /\ ~ HalfAlone(us, i)
    BY <1>4, <2>1 DEF Meaning, Takes, HalfAlone, NoEscape
  <2>3. Bytes(65) = << 65 >>
    BY BytesByLength
  <2>4. x = [bytes |-> << 65 >>, takes |-> 1] /\ 65 \in SCALAR /\ i + 1 - 1 <= Len(us)
    BY <1>3, <1>4 DEF SCALAR
  <2> HIDE DEF x
  <2>5. x.takes = 1 /\ x.bytes = << 65 >>
    BY <2>4
  <2> QED
    BY <2>2, <2>3, <2>4, <2>5 DEF x
<1>5. CASE u # -1 /\ HalfAlone(us, i)
  <2>1. IsTrail(u) \/ (IsLead(u) /\ ~ IsTrail(w))
    BY <1>5 DEF HalfAlone
  <2>2. parse_utf_16(us, i) = [bytes |-> Malformed, takes |-> 0]
    BY <1>1, <2>1 DEF parse_utf_16, IsTrail, IsLead
  <2>3. x = [bytes |-> Malformed, takes |-> 0]
    BY <1>3, <1>5, <2>2
  <2>4. x.takes = 0
    BY <2>3
  <2> QED
    BY <1>5, <2>4
<1>6. CASE u # -1 /\ ~ HalfAlone(us, i) /\ IsLead(u)
  <2>1. IsTrail(w) /\ ~ IsTrail(u) /\ i + 1 <= Len(us) /\ w = us[i + 1]
    BY <1>2, <1>6 DEF HalfAlone
  <2>2. parse_utf_16(us, i) = [bytes |-> Bytes(PairOf(us[i], us[i + 1])), takes |-> 2]
    BY <1>6, <2>1 DEF parse_utf_16
  <2>3. Meaning(us, i) = 65536 + 1024 * (us[i] % 1024) + (us[i + 1] % 1024) /\ Takes(us, i) = 2
    BY <1>6 DEF Meaning, Takes
  <2>4. PairOf(us[i], us[i + 1]) = 65536 + 1024 * (us[i] % 1024) + (us[i + 1] % 1024)
        /\ PairOf(us[i], us[i + 1]) \in SCALAR
    BY <1>1, <1>2, <1>6, <2>1, HalvesOfPair
  <2>5. x = [bytes |-> Bytes(Meaning(us, i)), takes |-> 2]
    BY <1>3, <1>6, <2>2, <2>3, <2>4
  <2> HIDE DEF x
  <2>6. x.takes = 2 /\ x.bytes = Bytes(Meaning(us, i))
    BY <2>5
  <2>7. i + 2 - 1 <= Len(us)
    BY <2>1
  <2> QED
    BY <1>6, <2>3, <2>4, <2>6, <2>7 DEF x
<1>7. CASE u # -1 /\ ~ HalfAlone(us, i) /\ ~ IsLead(u)
  <2>1. ~ IsTrail(u)
    BY <1>7 DEF HalfAlone
  <2>2. parse_utf_16(us, i) = [bytes |-> Bytes(us[i]), takes |-> 1]
    BY <1>7, <2>1 DEF parse_utf_16
  <2>3. Meaning(us, i) = us[i] /\ Takes(us, i) = 1
    BY <1>7 DEF Meaning, Takes, NoEscape
  <2>4. us[i] \in SCALAR
    BY <1>1, <1>7, <2>1 DEF SCALAR, IsLead, IsTrail
  <2>5. x = [bytes |-> Bytes(us[i]), takes |-> 1]
    BY <1>3, <1>7, <2>2
  <2> HIDE DEF x
  <2>6. x.takes = 1 /\ x.bytes = Bytes(us[i])
    BY <2>5
  <2>7. i + 1 - 1 <= Len(us)
    OBVIOUS
  <2> QED
    BY <1>7, <2>3, <2>4, <2>6, <2>7 DEF x
<1> QED
  BY <1>4, <1>5, <1>6, <1>7

PLACE == Nat \ {0}

LEMMA Widened ==
  ASSUME NEW S, NEW T, \A x \in S : x \in T, NEW q \in Seq(S)
  PROVE  q \in Seq(T)
OBVIOUS

LEMMA Concatenated ==
  ASSUME NEW S, NEW q \in Seq(S), NEW r \in Seq(S)
  PROVE  q \o r \in Seq(S)
OBVIOUS

LEMMA EscapedFromEquation ==
  ASSUME NEW us \in Seq(UNIT), NEW i \in PLACE
  PROVE  EscapedFrom(us)[i] =
           IF i > Len(us) THEN << >>
           ELSE IF Put(us, i).takes = 0 \/ EscapedFrom(us)[i + Put(us, i).takes] = Malformed THEN Malformed
           ELSE Put(us, i).bytes \o EscapedFrom(us)[i + Put(us, i).takes]
<1> DEFINE L == Len(us)
           V == Seq(Int)
           k(j) == Put(us, j).takes
           b(j) == Put(us, j).bytes
           Equation(f) ==
             f = [j \in PLACE |-> IF j > L THEN << >>
                                  ELSE IF k(j) = 0 THEN Malformed
                                  ELSE LET rest == f[j + k(j)]
                                       IN IF rest = Malformed THEN Malformed ELSE b(j) \o rest]
           next == [j \in PLACE |-> IF k(j) = 0 THEN j + 1 ELSE j + k(j)]
           comb == [j \in PLACE |-> [v \in V |->
                      IF k(j) = 0 \/ v = Malformed THEN Malformed ELSE b(j) \o v]]
<1>1. EscapedFrom(us) = CHOOSE f : Equation(f)
  BY DEF EscapedFrom, PLACE
<1>2. L \in Nat /\ Malformed \in V /\ << >> \in V
  BY DEF Malformed, NoEscape
<1>3. \A j \in 1 .. L : k(j) \in Nat /\ (k(j) # 0 => b(j) \in V)
  <2> SUFFICES ASSUME NEW j \in 1 .. L PROVE k(j) \in Nat /\ (k(j) # 0 => b(j) \in V)
    OBVIOUS
  <2>1. CASE HalfAlone(us, j)
    <3>1. k(j) = 0
      BY <2>1, PutMeans
    <3> QED
      BY <3>1
  <2>2. CASE ~ HalfAlone(us, j)
    <3>1. k(j) = Takes(us, j) /\ b(j) = Bytes(Meaning(us, j)) /\ Meaning(us, j) \in SCALAR
      BY <2>2, PutMeans
    <3>2. Spells(Bytes(Meaning(us, j)), Meaning(us, j))
      BY <3>1, BytesSpell
    <3>3. Takes(us, j) \in Nat
      BY DEF Takes
    <3> HIDE DEF k, b
    <3>4. b(j) \in Seq(OCTET)
      BY <3>1, <3>2 DEF Spells
    <3>5. \A x \in OCTET : x \in Int
      BY DEF OCTET
    <3>6. b(j) \in V
      BY <3>4, <3>5, Widened, Zenon
    <3> QED
      BY <3>1, <3>3, <3>6
  <2> QED
    BY <2>1, <2>2
<1> HIDE DEF L, k, b
<1>4. Leads(PLACE, L, V, comb, next)
  <2> SUFFICES ASSUME NEW j \in PLACE, j <= L
               PROVE  next[j] \in PLACE /\ next[j] > j /\ \A v \in V : comb[j][v] \in V
    BY Zenon DEF Leads
  <2>1. j \in 1 .. L
    BY <1>2 DEF PLACE
  <2>2. k(j) \in Nat /\ (k(j) # 0 => b(j) \in V)
    BY <1>3, <2>1
  <2>3. next[j] = IF k(j) = 0 THEN j + 1 ELSE j + k(j)
    OBVIOUS
  <2>4. \A v \in V : comb[j][v] = IF k(j) = 0 \/ v = Malformed THEN Malformed ELSE b(j) \o v
    OBVIOUS
  <2> HIDE DEF next, comb
  <2>5. next[j] \in PLACE /\ next[j] > j
    BY <2>1, <2>2, <2>3 DEF PLACE
  <2>6. ASSUME NEW v \in V PROVE comb[j][v] \in V
    <3>1. k(j) # 0 => b(j) \o v \in V
      BY <2>2, Concatenated
    <3> HIDE DEF V
    <3> QED
      BY <1>2, <2>4, <3>1
  <2> QED
    BY <2>5, <2>6
<1>5. PICK f \in [PLACE -> V] : Follows(f, PLACE, L, << >>, comb, next)
  <2> HIDE DEF next, comb, V
  <2>1. \A j \in PLACE : j \in Nat
    BY DEF PLACE
  <2> QED
    BY <1>2, <1>4, <2>1, Recursion
<1>6. ASSUME NEW j \in PLACE
      PROVE  f[j] = IF j > L THEN << >>
                    ELSE IF k(j) = 0 THEN Malformed
                    ELSE IF f[j + k(j)] = Malformed THEN Malformed ELSE b(j) \o f[j + k(j)]
  <2>1. f[j] = IF j > L THEN << >> ELSE comb[j][f[next[j]]]
    BY <1>5 DEF Follows
  <2>2. CASE j > L
    BY <2>1, <2>2
  <2>3. CASE ~ (j > L)
    <3>1. j <= L
      BY <1>2, <2>3 DEF PLACE
    <3>2. f[next[j]] \in V
      BY <1>4, <3>1 DEF Leads
    <3>3. comb[j][f[next[j]]] =
            IF k(j) = 0 \/ f[next[j]] = Malformed THEN Malformed ELSE b(j) \o f[next[j]]
      BY <3>2
    <3>4. k(j) # 0 => next[j] = j + k(j)
      OBVIOUS
    <3> HIDE DEF next, comb, V
    <3> QED
      BY <2>1, <2>3, <3>3, <3>4
  <2> QED
    BY <2>2, <2>3
<1>7. Equation(f)
  <2>1. f = [j \in PLACE |-> f[j]]
    BY <1>5
  <2> QED
    BY <1>6, <2>1
<1> HIDE DEF Equation
<1>8. Equation(EscapedFrom(us))
  BY <1>1, <1>7
<1> QED
  BY <1>8 DEF Equation, L, k, b

LEMMA NamedFromEquation ==
  ASSUME NEW us, Len(us) \in Nat, NEW i \in PLACE
  PROVE  NamedFrom(us)[i] = IF i > Len(us) THEN << >>
                            ELSE << Meaning(us, i) >> \o NamedFrom(us)[i + Takes(us, i)]
<1> DEFINE L == Len(us)
           X == {Meaning(us, j) : j \in PLACE}
           V == Seq(X)
           k(j) == Takes(us, j)
           x(j) == Meaning(us, j)
           Equation(f) == f = [j \in PLACE |-> IF j > L THEN << >> ELSE << x(j) >> \o f[j + k(j)]]
           next == [j \in PLACE |-> j + k(j)]
           comb == [j \in PLACE |-> [v \in V |-> << x(j) >> \o v]]
<1>1. NamedFrom(us) = CHOOSE f : Equation(f)
  BY DEF NamedFrom, PLACE
<1>3. L \in Nat /\ << >> \in V /\ \A j \in PLACE : k(j) \in {1, 2} /\ x(j) \in X
  BY DEF Takes
<1> HIDE DEF L, k, x, X
<1>4. Leads(PLACE, L, V, comb, next)
  <2> SUFFICES ASSUME NEW j \in PLACE, j <= L
               PROVE  next[j] \in PLACE /\ next[j] > j /\ \A v \in V : comb[j][v] \in V
    BY Zenon DEF Leads
  <2>1. next[j] \in PLACE /\ next[j] > j
    BY <1>3 DEF PLACE
  <2>2. \A v \in V : << x(j) >> \o v \in V
    BY <1>3
  <2> QED
    BY <2>1, <2>2
<1>5. PICK f \in [PLACE -> V] : Follows(f, PLACE, L, << >>, comb, next)
  <2> HIDE DEF next, comb, V
  <2>1. \A j \in PLACE : j \in Nat
    BY DEF PLACE
  <2> QED
    BY <1>3, <1>4, <2>1, Recursion
<1>6. ASSUME NEW j \in PLACE
      PROVE  f[j] = IF j > L THEN << >> ELSE << x(j) >> \o f[j + k(j)]
  <2>1. f[j] = IF j > L THEN << >> ELSE comb[j][f[next[j]]]
    BY <1>5 DEF Follows
  <2>0. j + k(j) \in PLACE
    <3> DEFINE h == k(j)
    <3>1. h \in Nat
      BY <1>3
    <3> HIDE DEF h
    <3>2. j + h \in PLACE
      BY <3>1 DEF PLACE
    <3> QED
      BY <3>2 DEF h
  <2>2. next[j] \in PLACE /\ next[j] = j + k(j)
    BY <2>0
  <2>3. comb[j][f[next[j]]] = << x(j) >> \o f[next[j]]
    BY <2>2
  <2> HIDE DEF next, comb, V
  <2> QED
    BY <2>1, <2>2, <2>3
<1>7. Equation(f)
  <2>1. f = [j \in PLACE |-> f[j]]
    BY <1>5
  <2> QED
    BY <1>6, <2>1
<1> HIDE DEF Equation
<1>9. Equation(NamedFrom(us))
  BY <1>1, <1>7
<1> QED
  BY <1>9 DEF Equation, L, k, x

(* How far a lead byte takes the one who reads what bytes spell. *)
Reads(s, i) ==
  LET len == num_bytes_in_utf8_sequence(s[i]) IN IF len = 0 THEN 1 ELSE len

LEMMA SpelledFromEquation ==
  ASSUME NEW s, Len(s) \in Nat, NEW i \in PLACE
  PROVE  SpelledFrom(s)[i] =
           IF i > Len(s) THEN << >>
           ELSE << CodePoint(s, i, num_bytes_in_utf8_sequence(s[i])) >> \o SpelledFrom(s)[i + Reads(s, i)]
<1> DEFINE L == Len(s)
           x(j) == CodePoint(s, j, num_bytes_in_utf8_sequence(s[j]))
           k(j) == Reads(s, j)
           X == {x(j) : j \in PLACE}
           V == Seq(X)
           Equation(f) ==
             f = [j \in PLACE |->
                    IF j > L THEN << >>
                    ELSE LET len == num_bytes_in_utf8_sequence(s[j])
                         IN << CodePoint(s, j, len) >> \o f[j + (IF len = 0 THEN 1 ELSE len)]]
           Folded(f) == f = [j \in PLACE |-> IF j > L THEN << >> ELSE << x(j) >> \o f[j + k(j)]]
           next == [j \in PLACE |-> j + k(j)]
           comb == [j \in PLACE |-> [v \in V |-> << x(j) >> \o v]]
<1>1. SpelledFrom(s) = CHOOSE f : Equation(f)
  BY DEF SpelledFrom, PLACE
<1>2. \A g : Folded(g) <=> Equation(g)
  BY Zenon DEF Reads
<1>3. L \in Nat /\ << >> \in V /\ \A j \in PLACE : k(j) \in Nat /\ k(j) > 0 /\ x(j) \in X
  <2>1. ASSUME NEW j \in PLACE PROVE k(j) \in Nat /\ k(j) > 0
    <3> DEFINE len == num_bytes_in_utf8_sequence(s[j])
    <3>1. len \in 0 .. 4
      BY SequenceLengths
    <3> HIDE DEF len
    <3>2. (IF len = 0 THEN 1 ELSE len) \in 1 .. 4
      BY <3>1
    <3> QED
      BY <3>2 DEF Reads, len
  <2> QED
    BY <2>1
<1> HIDE DEF L, k, x, X
<1>4. Leads(PLACE, L, V, comb, next)
  <2> SUFFICES ASSUME NEW j \in PLACE, j <= L
               PROVE  next[j] \in PLACE /\ next[j] > j /\ \A v \in V : comb[j][v] \in V
    BY Zenon DEF Leads
  <2>1. next[j] \in PLACE /\ next[j] > j
    BY <1>3 DEF PLACE
  <2>2. \A v \in V : << x(j) >> \o v \in V
    BY <1>3
  <2> QED
    BY <2>1, <2>2
<1>5. PICK f \in [PLACE -> V] : Follows(f, PLACE, L, << >>, comb, next)
  <2> HIDE DEF next, comb, V
  <2>1. \A j \in PLACE : j \in Nat
    BY DEF PLACE
  <2> QED
    BY <1>3, <1>4, <2>1, Recursion
<1>6. ASSUME NEW j \in PLACE
      PROVE  f[j] = IF j > L THEN << >> ELSE << x(j) >> \o f[j + k(j)]
  <2>1. f[j] = IF j > L THEN << >> ELSE comb[j][f[next[j]]]
    BY <1>5 DEF Follows
  <2>0. j + k(j) \in PLACE
    <3> DEFINE h == k(j)
    <3>1. h \in Nat
      BY <1>3
    <3> HIDE DEF h
    <3>2. j + h \in PLACE
      BY <3>1 DEF PLACE
    <3> QED
      BY <3>2 DEF h
  <2>2. next[j] \in PLACE /\ next[j] = j + k(j)
    BY <2>0
  <2>3. comb[j][f[next[j]]] = << x(j) >> \o f[next[j]]
    BY <2>2
  <2> HIDE DEF next, comb, V
  <2> QED
    BY <2>1, <2>2, <2>3
<1>7. Folded(f)
  <2>1. f = [j \in PLACE |-> f[j]]
    BY <1>5
  <2> QED
    BY <1>6, <2>1
<1> HIDE DEF Equation, Folded
<1>8. Folded(SpelledFrom(s))
  BY <1>1, <1>2, <1>7
<1> QED
  BY <1>8 DEF Folded, L, k, x

(* What follows from one escape to the next: after the bytes p, those of   *)
(* the escapes from i on spell what these name, and are valid.             *)
SpellsFrom(us, i) ==
  LET e == EscapedFrom(us)[i] IN
  /\ e \in Seq(OCTET)
  /\ \A p \in Seq(OCTET) : /\ SpelledFrom(p \o e)[Len(p) + 1] = NamedFrom(us)[i]
                           /\ ValidFrom(p \o e)[Len(p) + 1] = 1

LEMMA SpellsAtTheEnd ==
  ASSUME NEW us \in Seq(UNIT)
  PROVE  SpellsFrom(us, Len(us) + 1)
<1> DEFINE i == Len(us) + 1
           e == EscapedFrom(us)[i]
<1>1. i \in PLACE /\ i > Len(us) /\ Len(us) \in Nat
  BY DEF PLACE
<1>2. e = << >> /\ NamedFrom(us)[i] = << >>
  BY <1>1, EscapedFromEquation, NamedFromEquation
<1> HIDE DEF i, e
<1>3. ASSUME NEW p \in Seq(OCTET)
      PROVE  /\ SpelledFrom(p \o e)[Len(p) + 1] = NamedFrom(us)[i]
             /\ ValidFrom(p \o e)[Len(p) + 1] = 1
  <2> DEFINE s == p \o e
             q == Len(p) + 1
  <2>1. Len(s) = Len(p) /\ Len(s) \in Nat /\ q \in PLACE /\ q \in Nat /\ q > Len(s)
    BY <1>2 DEF PLACE
  <2> HIDE DEF s, q
  <2>2. SpelledFrom(s)[q] = << >>
    BY <2>1, SpelledFromEquation
  <2>3. ValidFrom(s)[q] = 1
    BY <2>1, ValidFromEquation
  <2> QED
    BY <1>2, <2>2, <2>3 DEF s, q
<1>4. e \in Seq(OCTET)
  BY <1>2
<1> QED
  BY <1>3, <1>4, Zenon DEF SpellsFrom, e, i

LEMMA SpellsOn ==
  ASSUME NEW us \in Seq(UNIT), NEW i \in 1 .. Len(us), ~ HalfAlone(us, i),
         SpellsFrom(us, i + Takes(us, i))
  PROVE  SpellsFrom(us, i)
<1> DEFINE j == i + Takes(us, i)
           cp == Meaning(us, i)
           b == Bytes(cp)
           e == EscapedFrom(us)[j]
           d == EscapedFrom(us)[i]
<1>1. /\ Put(us, i).takes = Takes(us, i) /\ Put(us, i).bytes = b
      /\ cp \in SCALAR
      /\ Takes(us, i) \in {1, 2}
  BY PutMeans DEF Takes
<1>2. e \in Seq(OCTET)
      /\ \A p \in Seq(OCTET) : /\ SpelledFrom(p \o e)[Len(p) + 1] = NamedFrom(us)[j]
                               /\ ValidFrom(p \o e)[Len(p) + 1] = 1
  BY Zenon DEF SpellsFrom
<1>3. e # Malformed
  <2> HIDE DEF e
  <2> SUFFICES ASSUME e = Malformed PROVE FALSE
    OBVIOUS
  <2>1. Len(e) = 1 /\ e[1] = -1
    BY DEF Malformed, NoEscape
  <2>2. e[1] \in OCTET
    BY <1>2, <2>1, SMTT(30)
  <2> QED
    BY <2>1, <2>2 DEF OCTET
<1>4. i \in PLACE /\ ~ (i > Len(us)) /\ Len(us) \in Nat
  BY DEF PLACE
<1>5. d = b \o e
  <2>1. Put(us, i).takes # 0 /\ i + Put(us, i).takes = j
    BY <1>1
  <2>2. d = IF i > Len(us) THEN << >>
            ELSE IF Put(us, i).takes = 0 \/ EscapedFrom(us)[i + Put(us, i).takes] = Malformed THEN Malformed
            ELSE Put(us, i).bytes \o EscapedFrom(us)[i + Put(us, i).takes]
    BY <1>4, EscapedFromEquation
  <2> HIDE DEF b, d, j
  <2> QED
    BY <1>1, <1>3, <1>4, <2>1, <2>2
<1>6. NamedFrom(us)[i] = << cp >> \o NamedFrom(us)[j]
  BY <1>4, NamedFromEquation
<1>7. Spells(b, cp)
  BY <1>1, BytesSpell
<1>8. b \in Seq(OCTET) /\ Len(b) \in 1 .. 4
  BY <1>7 DEF Spells
<1> HIDE DEF b, cp, e, d, j
<1>9. ASSUME NEW p \in Seq(OCTET)
      PROVE  /\ SpelledFrom(p \o d)[Len(p) + 1] = NamedFrom(us)[i]
             /\ ValidFrom(p \o d)[Len(p) + 1] = 1
  <2> DEFINE s == p \o b \o e
             q == Len(p) + 1
             r == p \o b
  <2>1. p \o d = s /\ s = r \o e
    <3>1. e \in Seq(OCTET) /\ b \in Seq(OCTET)
      BY <1>2, <1>8
    <3>2. p \o (b \o e) = (p \o b) \o e
      BY <3>1, Joined
    <3> QED
      BY <1>5, <3>2, Zenon
  <2>2. /\ r \in Seq(OCTET) /\ Len(r) + 1 = q + Len(b)
        /\ q \in PLACE /\ q \in Nat /\ ~ (q > Len(s)) /\ Len(s) \in Nat
    <3>1. r \in Seq(OCTET)
      BY <1>8, Concatenated
    <3>2. Len(r) = Len(p) + Len(b) /\ Len(p) \in Nat
      BY <1>8
    <3>3. Len(s) = Len(r) + Len(e) /\ Len(e) \in Nat
      <4> HIDE DEF r
      <4> QED
        BY <1>2, <2>1, <3>1
    <3> HIDE DEF r, s
    <3>4. q \in Nat /\ q > 0 /\ q = Len(p) + 1
      BY <3>2
    <3> HIDE DEF q
    <3>5. q \in PLACE
      BY <3>4 DEF PLACE
    <3>6. Len(b) \in Nat /\ Len(b) > 0
      <4>1. \A n \in 1 .. 4 : n \in Nat /\ n > 0
        OBVIOUS
      <4> QED
        BY <1>8, <4>1, Zenon
    <3> QED
      BY <3>1, <3>2, <3>3, <3>4, <3>5, <3>6
  <2>3. /\ num_bytes_in_utf8_sequence(s[q]) = Len(b)
        /\ CodePoint(s, q, Len(b)) = cp
        /\ verify_utf8_sequence(s, q) = Len(b)
    <3>1. StandsAt(s, q, Len(b), cp)
      BY <1>1, <1>2, <1>7, SpelledInside
    <3> QED
      BY <3>1, Zenon DEF StandsAt
  <2>4. /\ SpelledFrom(r \o e)[Len(r) + 1] = NamedFrom(us)[j]
        /\ ValidFrom(r \o e)[Len(r) + 1] = 1
    BY <1>2, <2>2
  <2> HIDE DEF s, q, r
  <2>5. Reads(s, q) = Len(b)
    BY <1>8, <2>3 DEF Reads
  <2>6. SpelledFrom(s)[q] = << cp >> \o SpelledFrom(s)[q + Len(b)]
    BY <2>2, <2>3, <2>5, SpelledFromEquation
  <2>7. ValidFrom(s)[q] = ValidFrom(s)[q + Len(b)]
    <3>1. ValidFrom(s)[q] = IF q > Len(s) THEN 1
                            ELSE IF verify_utf8_sequence(s, q) = 0 THEN 0
                            ELSE ValidFrom(s)[q + verify_utf8_sequence(s, q)]
      BY <2>2, ValidFromEquation
    <3> QED
      BY <1>8, <2>2, <2>3, <3>1
  <2>8. SpelledFrom(s)[q] = NamedFrom(us)[i] /\ ValidFrom(s)[q] = 1
    BY <1>6, <2>1, <2>2, <2>4, <2>6, <2>7
  <2> QED
    BY <2>1, <2>8 DEF q
<1>10. d \in Seq(OCTET)
  BY <1>2, <1>5, <1>8
<1> QED
  BY <1>9, <1>10, Zenon DEF SpellsFrom, d

(* Escapes that are well paired spell what they name. *)
LEMMA WellPairedSpells ==
  ASSUME NEW us \in Seq(UNIT), IsWellPaired(us)
  PROVE  SpellsFrom(us, 1)
<1> DEFINE L == Len(us)
           Starts(i) == i \in 1 .. L + 1 /\ (i <= L => ~ IsTrail(us[i]))
           G == {i \in Nat : Starts(i) => SpellsFrom(us, i)}
<1>1. L \in Nat
  OBVIOUS
<1>2. \A i \in Nat : i > L => i \in G
  <2> SUFFICES ASSUME NEW i \in Nat, i > L, Starts(i) PROVE SpellsFrom(us, i)
    OBVIOUS
  <2>1. i = Len(us) + 1
    BY <1>1
  <2> QED
    BY <2>1, SpellsAtTheEnd
<1>3. ASSUME NEW i \in 0 .. L, \A j \in Nat : j > i => j \in G PROVE i \in G
  <2>1. i \in Nat
    BY <1>1
  <2> SUFFICES ASSUME Starts(i) PROVE SpellsFrom(us, i)
    BY <2>1
  <2>2. i \in 1 .. Len(us) /\ i \in DOMAIN us /\ ~ IsTrail(us[i])
    BY <1>1
  <2>3. ~ HalfAlone(us, i)
    BY <2>2 DEF HalfAlone, IsWellPaired
  <2> DEFINE j == i + Takes(us, i)
  <2>4. j - 1 <= L /\ Takes(us, i) \in {1, 2}
    BY <2>2, <2>3, PutMeans DEF Takes
  <2>5. j \in Nat /\ j > i /\ j \in 1 .. L + 1
    BY <1>1, <2>1, <2>2, <2>4
  <2>6. j <= L => ~ IsTrail(us[j])
    <3> SUFFICES ASSUME j <= L, IsTrail(us[j]) PROVE FALSE
      OBVIOUS
    <3>1. j \in DOMAIN us
      BY <2>5
    <3>2. IsLead(us[j - 1])
      BY <3>1 DEF IsWellPaired
    <3>3. CASE IsLead(us[i])
      <4>1. j - 1 = i + 1 /\ i + 1 \in DOMAIN us
        BY <1>1, <2>1, <2>2, <2>5, <3>3 DEF Takes
      <4>2. IsTrail(us[i + 1])
        BY <2>3, <3>3, <4>1 DEF HalfAlone, Unit
      <4>3. us[i + 1] \in Int
        BY <4>1 DEF UNIT
      <4> QED
        BY <3>2, <4>1, <4>2, <4>3 DEF IsLead, IsTrail
    <3>4. CASE ~ IsLead(us[i])
      <4>1. j - 1 = i
        BY <2>1, <3>4 DEF Takes
      <4> QED
        BY <3>2, <3>4, <4>1
    <3> QED
      BY <3>3, <3>4
  <2>7. SpellsFrom(us, j)
    BY <1>3, <2>5, <2>6
  <2> QED
    BY <2>2, <2>3, <2>7, SpellsOn
<1> HIDE DEF G
<1>4. Nat \subseteq G
  BY <1>1, <1>2, <1>3, Backwards
<1>5. Starts(1)
  <2>1. 1 \in 1 .. L + 1
    BY <1>1
  <2>2. 1 <= L => ~ IsTrail(us[1])
    BY <1>1 DEF IsWellPaired
  <2> QED
    BY <2>1, <2>2
<1> QED
  BY <1>4, <1>5 DEF G

(* And where a half stands alone, nothing comes of them.                   *)
LEMMA HalvesAreRefused ==
  ASSUME NEW us \in Seq(UNIT), EscapedFrom(us)[1] # Malformed
  PROVE  IsWellPaired(us)
<1> DEFINE L == Len(us)
           esc(i) == EscapedFrom(us)[i]
           Paired(i) == \A j \in i .. L : /\ IsLead(us[j]) => IsTrail(Unit(us, j + 1))
                                          /\ IsTrail(us[j]) => j > i /\ IsLead(us[j - 1])
           G == {i \in Nat : i \in PLACE /\ esc(i) # Malformed => Paired(i)}
<1>1. L \in Nat
  OBVIOUS
<1>2. \A i \in Nat : i > L => i \in G
  BY <1>1
<1>3. ASSUME NEW i \in 0 .. L, \A j \in Nat : j > i => j \in G PROVE i \in G
  <2>1. i \in Nat
    BY <1>1
  <2> SUFFICES ASSUME i \in PLACE, esc(i) # Malformed PROVE Paired(i)
    BY <2>1
  <2>2. i \in 1 .. Len(us) /\ ~ (i > Len(us))
    BY <1>1 DEF PLACE
  <2>3. esc(i) = IF i > Len(us) THEN << >>
                 ELSE IF Put(us, i).takes = 0 \/ esc(i + Put(us, i).takes) = Malformed THEN Malformed
                 ELSE Put(us, i).bytes \o esc(i + Put(us, i).takes)
    BY EscapedFromEquation
  <2>4. Put(us, i).takes # 0 /\ esc(i + Put(us, i).takes) # Malformed
    <3> HIDE DEF esc
    <3> QED
      BY <2>2, <2>3
  <2>5. ~ HalfAlone(us, i)
    BY <2>2, <2>4, PutMeans
  <2> DEFINE k == Takes(us, i)
             m == i + k
  <2>6. Put(us, i).takes = k /\ k \in {1, 2}
    BY <2>2, <2>5, PutMeans DEF Takes
  <2>7. m \in Nat /\ m > i /\ m \in PLACE /\ esc(m) # Malformed
    <3> HIDE DEF esc, k
    <3> QED
      BY <2>1, <2>4, <2>6 DEF PLACE
  <2>8. Paired(m)
    BY <1>3, <2>7
  <2>9. ~ IsTrail(us[i]) /\ (IsLead(us[i]) => IsTrail(Unit(us, i + 1)))
    BY <2>5 DEF HalfAlone
  <2> SUFFICES ASSUME NEW j \in i .. L
               PROVE  /\ IsLead(us[j]) => IsTrail(Unit(us, j + 1))
                      /\ IsTrail(us[j]) => j > i /\ IsLead(us[j - 1])
    OBVIOUS
  <2>10. CASE j = i
    BY <2>9, <2>10
  <2>11. CASE j >= m
    <3>1. j \in m .. L
      BY <1>1, <2>1, <2>7, <2>11
    <3>2. /\ IsLead(us[j]) => IsTrail(Unit(us, j + 1))
          /\ IsTrail(us[j]) => j > m /\ IsLead(us[j - 1])
      BY <2>8, <3>1
    <3>3. j > m => j > i
      BY <1>1, <2>1, <2>7
    <3> QED
      BY <3>2, <3>3
  <2>12. CASE j # i /\ ~ (j >= m)
    <3>1. j = i + 1 /\ IsLead(us[i]) /\ j - 1 = i /\ j > i /\ j \in DOMAIN us
      BY <1>1, <2>1, <2>2, <2>6, <2>12 DEF Takes
    <3>2. IsTrail(us[j])
      BY <2>9, <3>1 DEF Unit
    <3>3. us[j] \in Int
      BY <3>1 DEF UNIT
    <3>4. ~ IsLead(us[j])
      BY <3>2, <3>3 DEF IsLead, IsTrail
    <3> QED
      BY <3>1, <3>4
  <2>13. j = i \/ j >= m \/ (j # i /\ ~ (j >= m))
    OBVIOUS
  <2> QED
    BY <2>10, <2>11, <2>12, <2>13
<1> HIDE DEF G
<1>4. Nat \subseteq G
  BY <1>1, <1>2, <1>3, Backwards
<1>5. Paired(1)
  BY <1>4 DEF G, PLACE
<1> QED
  BY <1>5 DEF IsWellPaired

(* Escapes are refused just when a half of a pair stands alone; otherwise  *)
(* the bytes that come of them are valid and spell what they name.         *)
THEOREM EscapesBecome ==
  ASSUME NEW us \in Seq(UNIT)
  PROVE  EscapesAreText(us)
<1>1. CASE IsWellPaired(us)
  <2> DEFINE e == EscapedFrom(us)[1]
  <2>1. SpellsFrom(us, 1)
    BY <1>1, WellPairedSpells
  <2>2. e \in Seq(OCTET) /\ SpelledFrom(<< >> \o e)[Len(<< >>) + 1] = NamedFrom(us)[1]
        /\ ValidFrom(<< >> \o e)[Len(<< >>) + 1] = 1
    <3>1. << >> \in Seq(OCTET)
      OBVIOUS
    <3> QED
      BY <2>1, <3>1, Zenon DEF SpellsFrom
  <2>3. << >> \o e = e /\ Len(<< >>) + 1 = 1
    BY <2>2
  <2>4. SpelledFrom(e)[1] = NamedFrom(us)[1] /\ ValidFrom(e)[1] = 1
    BY <2>2, <2>3
  <2> QED
    BY <1>1, <2>4 DEF EscapesAreText, Escaped, Spelled, Named, is_valid_utf8
<1>2. CASE ~ IsWellPaired(us)
  BY <1>2, HalvesAreRefused DEF EscapesAreText, Escaped
<1> QED
  BY <1>1, <1>2

-----------------------------------------------------------------------------
(* Functions that gather a sequence, place by place, until an end.         *)
Gathers(f, E, b, next) ==
  f = [i \in PLACE |-> IF i \in E THEN << >> ELSE b[i] \o f[next[i]]]

Advances(L, X, E, b, next) ==
  /\ \A i \in PLACE : i > L => i \in E
  /\ \A i \in PLACE : i \notin E => b[i] \in Seq(X) /\ next[i] \in PLACE /\ next[i] > i

LEMMA GatheringExists ==
  ASSUME NEW L \in Nat, NEW X, NEW E, NEW b, NEW next, Advances(L, X, E, b, next)
  PROVE  \E f : Gathers(f, E, b, next)
<1> DEFINE V == Seq(X)
           step == [i \in PLACE |-> IF i \in E THEN i + 1 ELSE next[i]]
           comb == [i \in PLACE |-> [v \in V |-> IF i \in E THEN << >> ELSE b[i] \o v]]
<1>1. << >> \in V
  OBVIOUS
<1>2. \A i \in PLACE : i \in Nat
  BY DEF PLACE
<1>3. Leads(PLACE, L, V, comb, step)
  <2> SUFFICES ASSUME NEW i \in PLACE
               PROVE  step[i] \in PLACE /\ step[i] > i /\ \A v \in V : comb[i][v] \in V
    BY Zenon DEF Leads
  <2>1. step[i] \in PLACE /\ step[i] > i
    <3>1. CASE i \in E
      <4>1. i + 1 \in PLACE /\ i + 1 > i
        BY DEF PLACE
      <4> QED
        BY <3>1, <4>1
    <3>2. CASE i \notin E
      BY <3>2 DEF Advances
    <3> QED
      BY <3>1, <3>2
  <2>2. ASSUME NEW v \in V PROVE comb[i][v] \in V
    <3>1. comb[i][v] = IF i \in E THEN << >> ELSE b[i] \o v
      OBVIOUS
    <3>2. i \notin E => b[i] \in V
      BY DEF Advances
    <3>3. i \notin E => b[i] \o v \in V
      BY <3>2, Concatenated
    <3> HIDE DEF comb, V
    <3> QED
      BY <1>1, <3>1, <3>3
  <2> QED
    BY <2>1, <2>2
<1>4. PICK f \in [PLACE -> V] : Follows(f, PLACE, L, << >>, comb, step)
  <2> HIDE DEF step, comb, V
  <2> QED
    BY <1>1, <1>2, <1>3, Recursion
<1>5. ASSUME NEW i \in PLACE
      PROVE  f[i] = IF i \in E THEN << >> ELSE b[i] \o f[next[i]]
  <2>1. f[i] = IF i > L THEN << >> ELSE comb[i][f[step[i]]]
    BY <1>4 DEF Follows
  <2>2. CASE i > L
    <3>1. i \in E
      BY <2>2 DEF Advances
    <3> QED
      BY <2>1, <2>2, <3>1
  <2>3. CASE ~ (i > L)
    <3>1. i <= L
      BY <1>2, <2>3
    <3>2. step[i] \in PLACE
      BY <1>3, <3>1 DEF Leads
    <3>3. f[step[i]] \in V
      BY <1>4, <3>2
    <3>4. comb[i][f[step[i]]] = IF i \in E THEN << >> ELSE b[i] \o f[step[i]]
      BY <3>3
    <3>5. i \notin E => step[i] = next[i]
      OBVIOUS
    <3> HIDE DEF comb, step, V
    <3> QED
      BY <2>1, <2>3, <3>4, <3>5
  <2> QED
    BY <2>2, <2>3
<1>6. f = [i \in PLACE |-> f[i]]
  BY <1>4
<1>7. Gathers(f, E, b, next)
  BY <1>5, <1>6 DEF Gathers
<1> QED
  BY <1>7

LEMMA GatheringIs ==
  ASSUME NEW L \in Nat, NEW X, NEW E, NEW b, NEW next, Advances(L, X, E, b, next),
         NEW f, Gathers(f, E, b, next), NEW i \in PLACE
  PROVE  /\ f[i] \in Seq(X)
         /\ f[i] = IF i \in E THEN << >> ELSE b[i] \o f[next[i]]
<1> DEFINE V == Seq(X)
           G == {j \in Nat : j \in PLACE => f[j] \in V}
<1>1. \A j \in PLACE : f[j] = IF j \in E THEN << >> ELSE b[j] \o f[next[j]]
  BY DEF Gathers
<1>2. << >> \in V /\ \A j \in PLACE : j \in Nat
  BY DEF PLACE
<1>3. \A j \in Nat : j > L => j \in G
  BY <1>1, <1>2 DEF Advances
<1>4. ASSUME NEW j \in 0 .. L, \A k \in Nat : k > j => k \in G PROVE j \in G
  <2>1. j \in Nat
    OBVIOUS
  <2> SUFFICES ASSUME j \in PLACE PROVE f[j] \in V
    BY <2>1
  <2>2. f[j] = IF j \in E THEN << >> ELSE b[j] \o f[next[j]]
    BY <1>1
  <2>3. CASE j \in E
    BY <1>2, <2>2, <2>3
  <2>4. CASE j \notin E
    <3>1. b[j] \in V /\ next[j] \in PLACE /\ next[j] > j
      BY <2>4 DEF Advances
    <3>2. next[j] \in G
      BY <1>2, <1>4, <3>1
    <3>3. f[next[j]] \in V
      BY <3>1, <3>2
    <3>4. b[j] \o f[next[j]] \in V
      BY <3>1, <3>3, Concatenated
    <3> QED
      BY <2>2, <2>4, <3>4
  <2> QED
    BY <2>3, <2>4
<1> HIDE DEF G
<1>5. Nat \subseteq G
  BY <1>3, <1>4, Backwards
<1>6. i \in G
  BY <1>2, <1>5
<1> QED
  BY <1>1, <1>6 DEF G

(* The first of a set of numbers. *)
LEMMA FirstIs ==
  ASSUME NEW S, \A n \in S : n \in Nat, S # {}
  PROVE  First(S) \in S /\ \A n \in S : First(S) <= n
<1>1. IsWellFoundedOn(OpToRel(<, Nat), Nat)
  BY NatLessThanWellFounded, Zenon
<1>2. S \subseteq Nat
  OBVIOUS
<1>3. \E x \in S : \A y \in S : ~ (<< y, x >> \in OpToRel(<, Nat))
  BY <1>1, <1>2, WFMin, Zenon
<1>4. \A x, y \in Nat : << y, x >> \in OpToRel(<, Nat) <=> y < x
  BY Zenon DEF OpToRel
<1>5. PICK x \in S : \A y \in S : ~ (y < x)
  BY <1>2, <1>3, <1>4, Zenon
<1>6. \A y \in S : x <= y
  BY <1>5
<1> QED
  BY <1>6, Zenon DEF First

(* The set before is not empty if what is first in it is known. *)
LEMMA FirstAt ==
  ASSUME NEW S, \A n \in S : n \in Nat, NEW x \in S, \A n \in S : x <= n
  PROVE  First(S) = x
<1>1. First(S) \in S /\ \A n \in S : First(S) <= n
  BY FirstIs
<1>2. First(S) <= x /\ x <= First(S) /\ x \in Nat /\ First(S) \in Nat
  BY <1>1
<1> QED
  BY <1>2

-----------------------------------------------------------------------------
(* Queries.  C is any set of characters.                                   *)
Chars(C) == C \cup {NUL, " ", "z", "%", "&", "+", "="} \cup Digits

LEMMA CharsHas ==
  ASSUME NEW C
  PROVE  /\ \A c \in C : c \in Chars(C)
         /\ \A c \in {NUL, " ", "z", "%", "&", "+", "="} : c \in Chars(C)
         /\ \A c \in Digits : c \in Chars(C)
BY DEF Chars

LEMMA Widths ==
  ASSUME NEW s, NEW i
  PROVE  Width(s, i) \in {1, 3}
BY DEF Width

LEMMA EscapeStandsFor ==
  ASSUME NEW d
  PROVE  url_htoi(d) \in {NUL, "z", "%", "&", "+", "="}
BY DEF url_htoi

LEMMA DecodedCharacters ==
  ASSUME NEW C, NEW s \in Seq(C), NEW i \in 1 .. Len(s)
  PROVE  Decoded(s, i) \in Chars(C)
<1>1. s[i] \in C
  OBVIOUS
<1>2. Character(s[i]) \in Chars(C)
  BY <1>1 DEF Character, Chars
<1>3. url_htoi(<< s[i + 1], s[i + 2] >>) \in Chars(C)
  BY EscapeStandsFor DEF Chars
<1> QED
  BY <1>2, <1>3, Zenon DEF Decoded

LEMMA HexCharacters ==
  ASSUME NEW c \in {"&", "=", "%", "+"}
  PROVE  hexchars(c) \in Digits \X Digits /\ url_htoi(hexchars(c)) = c
<1>1. \E d \in Digits \X Digits : url_htoi(d) = c
  <2>1. << "2", "6" >> \in Digits \X Digits /\ url_htoi(<< "2", "6" >>) = "&"
    BY DEF Digits, url_htoi
  <2>2. << "3", "D" >> \in Digits \X Digits /\ url_htoi(<< "3", "D" >>) = "="
    BY DEF Digits, url_htoi
  <2>3. << "2", "5" >> \in Digits \X Digits /\ url_htoi(<< "2", "5" >>) = "%"
    BY DEF Digits, url_htoi
  <2>4. << "2", "B" >> \in Digits \X Digits /\ url_htoi(<< "2", "B" >>) = "+"
    BY DEF Digits, url_htoi
  <2> QED
    BY <2>1, <2>2, <2>3, <2>4, Zenon
<1> QED
  BY <1>1, Zenon DEF hexchars

LEMMA DecodedFromEquation ==
  ASSUME NEW C, NEW s \in Seq(C), NEW i \in PLACE
  PROVE  /\ DecodedFrom(s)[i] \in Seq(Chars(C))
         /\ DecodedFrom(s)[i] = IF i > Len(s) THEN << >>
                                ELSE << Decoded(s, i) >> \o DecodedFrom(s)[i + Width(s, i)]
<1> DEFINE L == Len(s)
           X == Chars(C)
           E == {j \in PLACE : j > L}
           b == [j \in PLACE |-> << Decoded(s, j) >>]
           next == [j \in PLACE |-> j + Width(s, j)]
           Equation(f) ==
             f = [j \in PLACE |-> IF j > Len(s) THEN << >>
                                  ELSE << Decoded(s, j) >> \o f[j + Width(s, j)]]
<1>1. DecodedFrom(s) = CHOOSE f : Equation(f)
  BY DEF DecodedFrom, PLACE
<1>2. L \in Nat
  OBVIOUS
<1>3. Advances(L, X, E, b, next)
  <2>1. ASSUME NEW j \in PLACE, j \notin E
        PROVE  b[j] \in Seq(X) /\ next[j] \in PLACE /\ next[j] > j
    <3>1. j \in 1 .. Len(s)
      BY <2>1 DEF PLACE
    <3>2. Decoded(s, j) \in X
      BY <3>1, DecodedCharacters
    <3> HIDE DEF X
    <3>3. b[j] \in Seq(X)
      BY <3>2
    <3>4. j + Width(s, j) \in PLACE /\ j + Width(s, j) > j
      BY Widths DEF PLACE
    <3> QED
      BY <3>3, <3>4
  <2>2. \A j \in PLACE : j > L => j \in E
    OBVIOUS
  <2> HIDE DEF E, b, next, X
  <2> QED
    BY <2>1, <2>2, Zenon DEF Advances
<1>4. \A f : Gathers(f, E, b, next) <=> Equation(f)
  BY DEF Gathers
<1> HIDE DEF L, X, E, b, next, Equation
<1>5. \E f : Gathers(f, E, b, next)
  BY <1>2, <1>3, GatheringExists
<1>6. Equation(DecodedFrom(s))
  BY <1>1, <1>4, <1>5
<1>7. DecodedFrom(s)[i] \in Seq(X)
  BY <1>2, <1>3, <1>4, <1>6, GatheringIs
<1> QED
  BY <1>6, <1>7 DEF Equation, X

(* The signs of a text: only escapes stand for what is not in it.          *)
BLANK == " "

SIGN(C) == {x \in [char : Chars(C), escape : BOOLEAN] : x.escape \/ x.char \in C \cup {BLANK}}

LEMMA SignIs ==
  ASSUME NEW C, NEW e \in Chars(C), NEW c \in C \cup {BLANK}
  PROVE  [char |-> e, escape |-> TRUE] \in SIGN(C) /\ [char |-> c, escape |-> FALSE] \in SIGN(C)
<1>1. BLANK \in Chars(C) /\ \A x \in C : x \in Chars(C)
  BY Zenon DEF BLANK, Chars
<1>2. c \in Chars(C)
  BY <1>1
<1> QED
  BY <1>2 DEF SIGN

LEMMA SignAtIs ==
  ASSUME NEW C, NEW w, NEW k, w[k] \in C
  PROVE  SignAt(w, k) \in SIGN(C)
<1> DEFINE e == url_htoi(<< w[k + 1], w[k + 2] >>)
           c == IF w[k] = "+" THEN BLANK ELSE w[k]
<1>1. SignAt(w, k) = IF IsEscape(w, k) THEN [char |-> e, escape |-> TRUE]
                     ELSE [char |-> c, escape |-> FALSE]
  BY Zenon DEF SignAt, BLANK
<1>2. e \in Chars(C)
  BY EscapeStandsFor, CharsHas
<1>3. c \in C \cup {BLANK}
  BY Zenon
<1> HIDE DEF e, c
<1> QED
  BY <1>1, <1>2, <1>3, SignIs, Zenon

LEMMA SignsFromEquation ==
  ASSUME NEW C, NEW w \in Seq(C), NEW i \in PLACE
  PROVE  /\ SignsFrom(w)[i] \in Seq(SIGN(C))
         /\ SignsFrom(w)[i] = IF i > Len(w) THEN << >>
                              ELSE << SignAt(w, i) >> \o SignsFrom(w)[i + Width(w, i)]
<1> DEFINE L == Len(w)
           X == SIGN(C)
           E == {j \in PLACE : j > L}
           b == [j \in PLACE |-> << SignAt(w, j) >>]
           next == [j \in PLACE |-> j + Width(w, j)]
           Equation(f) ==
             f = [j \in PLACE |-> IF j > Len(w) THEN << >>
                                  ELSE << SignAt(w, j) >> \o f[j + Width(w, j)]]
<1>1. SignsFrom(w) = CHOOSE f : Equation(f)
  BY DEF SignsFrom, PLACE
<1>2. L \in Nat
  OBVIOUS
<1>3. Advances(L, X, E, b, next)
  <2>1. ASSUME NEW j \in PLACE, j \notin E
        PROVE  b[j] \in Seq(X) /\ next[j] \in PLACE /\ next[j] > j
    <3>1. j \in 1 .. Len(w)
      BY <2>1 DEF PLACE
    <3>2. w[j] \in C
      BY <3>1
    <3>3. SignAt(w, j) \in X
      BY <3>2, SignAtIs, Zenon
    <3> HIDE DEF X
    <3>4. b[j] \in Seq(X)
      BY <3>3
    <3>5. j + Width(w, j) \in PLACE /\ j + Width(w, j) > j
      BY Widths DEF PLACE
    <3> QED
      BY <3>4, <3>5
  <2>2. \A j \in PLACE : j > L => j \in E
    OBVIOUS
  <2> HIDE DEF E, b, next, X
  <2> QED
    BY <2>1, <2>2, Zenon DEF Advances
<1>4. \A f : Gathers(f, E, b, next) <=> Equation(f)
  BY DEF Gathers
<1> HIDE DEF L, X, E, b, next, Equation
<1>5. \E f : Gathers(f, E, b, next)
  BY <1>2, <1>3, GatheringExists
<1>6. Equation(SignsFrom(w))
  BY <1>1, <1>4, <1>5
<1>7. SignsFrom(w)[i] \in Seq(X)
  BY <1>2, <1>3, <1>4, <1>6, GatheringIs
<1> QED
  BY <1>6, <1>7 DEF Equation, X

LEMMA EncodedFromEquation ==
  ASSUME NEW C, NEW s \in Seq(C), NEW i \in PLACE
  PROVE  /\ EncodedFrom(s)[i] \in Seq(Chars(C))
         /\ EncodedFrom(s)[i] = IF i > Len(s) THEN << >>
                                ELSE Encoded(s[i]) \o EncodedFrom(s)[i + 1]
<1> DEFINE L == Len(s)
           X == Chars(C)
           E == {j \in PLACE : j > L}
           b == [j \in PLACE |-> Encoded(s[j])]
           next == [j \in PLACE |-> j + 1]
           Equation(f) ==
             f = [j \in PLACE |-> IF j > Len(s) THEN << >> ELSE Encoded(s[j]) \o f[j + 1]]
<1>1. EncodedFrom(s) = CHOOSE f : Equation(f)
  BY DEF EncodedFrom, PLACE
<1>2. L \in Nat
  OBVIOUS
<1>3. Advances(L, X, E, b, next)
  <2>1. ASSUME NEW j \in PLACE, j \notin E
        PROVE  b[j] \in Seq(X) /\ next[j] \in PLACE /\ next[j] > j
    <3>1. j \in 1 .. Len(s)
      BY <2>1 DEF PLACE
    <3>2. s[j] \in X /\ "+" \in X /\ "%" \in X
      <4>1. s[j] \in C
        BY <3>1
      <4> QED
        BY <4>1, CharsHas
    <3>3. s[j] \in {"&", "=", "%", "+"} => hexchars(s[j])[1] \in X /\ hexchars(s[j])[2] \in X
      <4> SUFFICES ASSUME s[j] \in {"&", "=", "%", "+"}
                   PROVE  hexchars(s[j]) \in Digits \X Digits
        BY CharsHas
      <4> QED
        BY HexCharacters
    <3> DEFINE e == Encoded(s[j])
    <3>4. e = << "+" >> \/ e = << s[j] >>
          \/ (s[j] \in {"&", "=", "%", "+"} /\ e = << "%", hexchars(s[j])[1], hexchars(s[j])[2] >>)
      BY Zenon DEF Encoded
    <3> HIDE DEF X, e
    <3>5. e \in Seq(X)
      <4>1. CASE e = << "+" >>
        BY <3>2, <4>1
      <4>2. CASE e = << s[j] >>
        BY <3>2, <4>2
      <4>3. CASE s[j] \in {"&", "=", "%", "+"} /\ e = << "%", hexchars(s[j])[1], hexchars(s[j])[2] >>
        <5> DEFINE x == hexchars(s[j])[1]
                   y == hexchars(s[j])[2]
        <5>1. x \in X /\ y \in X /\ e = << "%", x, y >>
          BY <3>3, <4>3
        <5> HIDE DEF x, y
        <5> QED
          BY <3>2, <5>1
      <4> QED
        BY <3>4, <4>1, <4>2, <4>3
    <3>6. j + 1 \in PLACE /\ j + 1 > j
      BY DEF PLACE
    <3> QED
      BY <3>5, <3>6 DEF e
  <2>2. \A j \in PLACE : j > L => j \in E
    OBVIOUS
  <2> HIDE DEF E, b, next, X
  <2> QED
    BY <2>1, <2>2, Zenon DEF Advances
<1>4. \A f : Gathers(f, E, b, next) <=> Equation(f)
  BY DEF Gathers
<1> HIDE DEF L, X, E, b, next, Equation
<1>5. \E f : Gathers(f, E, b, next)
  BY <1>2, <1>3, GatheringExists
<1>6. Equation(EncodedFrom(s))
  BY <1>1, <1>4, <1>5
<1>7. EncodedFrom(s)[i] \in Seq(X)
  BY <1>2, <1>3, <1>4, <1>6, GatheringIs
<1> QED
  BY <1>6, <1>7 DEF Equation, X

(* The signs of a query, named. *)
AMP == "&"
EQUALS == "="

LEMMA SignsDiffer ==
  /\ AMP # NUL /\ EQUALS # NUL /\ BLANK # NUL
  /\ AMP \notin Digits /\ Character(AMP) = NUL
  /\ \A c : c # AMP => Character(c) = IF c = "+" THEN " " ELSE c
  /\ AMP # "%"
<1>1. AMP # NUL /\ EQUALS # NUL /\ BLANK # NUL /\ AMP # "%" /\ AMP # "+"
  BY Zenon DEF AMP, EQUALS, BLANK, NUL
<1>2. AMP \notin Digits
  BY Zenon DEF AMP, Digits
<1>3. Character(AMP) = NUL
  BY Zenon DEF AMP, Character
<1>4. ASSUME NEW c, c # AMP PROVE Character(c) = IF c = "+" THEN " " ELSE c
  BY <1>4, Zenon DEF AMP, Character
<1> QED
  BY <1>1, <1>2, <1>3, <1>4, Zenon

(* From p on a piece goes up to the next '&', or to the end.               *)
IsPiece(s, p, w) ==
  /\ p + Len(w) <= Len(s) + 1
  /\ \A k \in 1 .. Len(w) : w[k] = s[p + k - 1] /\ w[k] # AMP
  /\ p + Len(w) <= Len(s) => s[p + Len(w)] = AMP

LEMMA PieceIs ==
  ASSUME NEW C, NEW s \in Seq(C), NEW p \in 1 .. Len(s)
  PROVE  PieceFrom(s, p) \in Seq(C) /\ IsPiece(s, p, PieceFrom(s, p))
<1> DEFINE ends == {q \in p .. Len(s) : s[q] = AMP}
           e == IF ends = {} THEN Len(s) ELSE First(ends) - 1
           w == SubSeq(s, p, e)
<1>1. PieceFrom(s, p) = w
  BY Zenon DEF PieceFrom, AMP
<1>2. Len(s) \in Nat /\ p \in Nat /\ p >= 1 /\ p <= Len(s)
  OBVIOUS
<1>3. /\ e \in Int /\ e >= p - 1 /\ e <= Len(s)
      /\ \A q \in p .. e : s[q] # AMP
      /\ e < Len(s) => s[e + 1] = AMP
  <2>1. CASE ends = {}
    BY <1>2, <2>1
  <2>2. CASE ends # {}
    <3>1. \A q \in ends : q \in Nat
      BY <1>2
    <3> HIDE DEF ends
    <3>2. First(ends) \in ends /\ \A q \in ends : First(ends) <= q
      BY <2>2, <3>1, FirstIs
    <3> DEFINE f == First(ends)
    <3>3. e = f - 1
      BY <2>2
    <3>4. f \in p .. Len(s) /\ s[f] = AMP
      BY <3>2 DEF ends
    <3>5. ASSUME NEW q \in p .. Len(s), s[q] = AMP PROVE f <= q
      BY <3>2, <3>5 DEF ends
    <3> HIDE DEF e, f
    <3> QED
      BY <1>2, <3>3, <3>4, <3>5
  <2> QED
    BY <2>1, <2>2
<1> HIDE DEF ends, e
<1>4. w \in Seq(C) /\ Len(w) = e - p + 1 /\ \A k \in 1 .. Len(w) : w[k] = s[p + k - 1]
  BY <1>2, <1>3
<1> HIDE DEF w
<1>5. \A k \in 1 .. Len(w) : p + k - 1 \in p .. e
  BY <1>2, <1>3, <1>4
<1>6. p + Len(w) = e + 1
  BY <1>2, <1>3, <1>4
<1> QED
  BY <1>1, <1>2, <1>3, <1>4, <1>5, <1>6 DEF IsPiece

LEMMA StringsOfEquation ==
  ASSUME NEW X, NEW buf \in Seq(X), NEW i \in PLACE
  PROVE  /\ StringsOf(buf)[i] \in Seq(X)
         /\ StringsOf(buf)[i] = IF Byte(buf, i) = NUL THEN << >>
                                ELSE << Byte(buf, i) >> \o StringsOf(buf)[i + 1]
<1> DEFINE L == Len(buf)
           E == {j \in PLACE : Byte(buf, j) = NUL}
           b == [j \in PLACE |-> << Byte(buf, j) >>]
           next == [j \in PLACE |-> j + 1]
           Equation(f) ==
             f = [j \in PLACE |-> IF Byte(buf, j) = NUL THEN << >>
                                  ELSE << Byte(buf, j) >> \o f[j + 1]]
<1>1. StringsOf(buf) = CHOOSE f : Equation(f)
  BY DEF StringsOf, PLACE
<1>2. L \in Nat
  OBVIOUS
<1>3. Advances(L, X, E, b, next)
  <2>1. ASSUME NEW j \in PLACE, j \notin E
        PROVE  b[j] \in Seq(X) /\ next[j] \in PLACE /\ next[j] > j
    <3>1. j <= Len(buf) /\ Byte(buf, j) = buf[j]
      BY <2>1 DEF Byte
    <3>2. buf[j] \in X
      BY <3>1 DEF PLACE
    <3> QED
      BY <3>1, <3>2 DEF PLACE
  <2>2. \A j \in PLACE : j > L => j \in E
    BY DEF Byte, PLACE
  <2> HIDE DEF E, b, next
  <2> QED
    BY <2>1, <2>2, Zenon DEF Advances
<1>4. \A f : Gathers(f, E, b, next) <=> Equation(f)
  BY DEF Gathers
<1> HIDE DEF L, E, b, next, Equation
<1>5. \E f : Gathers(f, E, b, next)
  BY <1>2, <1>3, GatheringExists
<1>6. Equation(StringsOf(buf))
  BY <1>1, <1>4, <1>5
<1>7. StringsOf(buf)[i] \in Seq(X)
  BY <1>2, <1>3, <1>4, <1>6, GatheringIs
<1> QED
  BY <1>6, <1>7 DEF Equation

LEMMA ShortSequences ==
  ASSUME NEW S, NEW a \in S, NEW b \in S, NEW c \in S
  PROVE  << >> \in Seq(S) /\ << a >> \in Seq(S) /\ << a, b, c >> \in Seq(S)
OBVIOUS

LEMMA ValuesFromEquation ==
  ASSUME NEW C, NEW s \in Seq(C), NEW name, NEW i \in PLACE
  PROVE  /\ \E X : ValuesFrom(s, name)[i] \in Seq(X)
         /\ ValuesFrom(s, name)[i] =
              IF i > Len(s) THEN << >>
              ELSE ValueIn(Signs(PieceFrom(s, i)), name)
                   \o ValuesFrom(s, name)[i + Len(PieceFrom(s, i)) + 1]
<1> DEFINE L == Len(s)
           X == {ParamValue(Signs(PieceFrom(s, j))) : j \in PLACE}
           E == {j \in PLACE : j > L}
           b == [j \in PLACE |-> ValueIn(Signs(PieceFrom(s, j)), name)]
           next == [j \in PLACE |-> j + Len(PieceFrom(s, j)) + 1]
           Equation(f) ==
             f = [j \in PLACE |-> IF j > Len(s) THEN << >>
                                  ELSE ValueIn(Signs(PieceFrom(s, j)), name)
                                       \o f[j + Len(PieceFrom(s, j)) + 1]]
<1>1. ValuesFrom(s, name) = CHOOSE f : Equation(f)
  BY DEF ValuesFrom, PLACE
<1>2. L \in Nat
  OBVIOUS
<1>3. Advances(L, X, E, b, next)
  <2>1. ASSUME NEW j \in PLACE, j \notin E
        PROVE  b[j] \in Seq(X) /\ next[j] \in PLACE /\ next[j] > j
    <3>1. j \in 1 .. Len(s)
      BY <2>1 DEF PLACE
    <3>2. Len(PieceFrom(s, j)) \in Nat
      BY <3>1, PieceIs
    <3>3. j + Len(PieceFrom(s, j)) + 1 \in PLACE /\ j + Len(PieceFrom(s, j)) + 1 > j
      BY <3>2 DEF PLACE
    <3> DEFINE v == ParamValue(Signs(PieceFrom(s, j)))
               vs == ValueIn(Signs(PieceFrom(s, j)), name)
    <3>4. v \in X
      OBVIOUS
    <3>5. vs = << v >> \/ vs = << >>
      BY Zenon DEF ValueIn
    <3> HIDE DEF v, vs, X
    <3>6. vs \in Seq(X)
      BY <3>4, <3>5, ShortSequences, Zenon
    <3> QED
      BY <3>3, <3>6 DEF vs
  <2>2. \A j \in PLACE : j > L => j \in E
    OBVIOUS
  <2> HIDE DEF E, b, next, X
  <2> QED
    BY <2>1, <2>2, Zenon DEF Advances
<1>4. \A f : Gathers(f, E, b, next) <=> Equation(f)
  BY DEF Gathers
<1> HIDE DEF L, X, E, b, next, Equation
<1>5. \E f : Gathers(f, E, b, next)
  BY <1>2, <1>3, GatheringExists
<1>6. Equation(ValuesFrom(s, name))
  BY <1>1, <1>4, <1>5
<1>7. ValuesFrom(s, name)[i] \in Seq(X)
  BY <1>2, <1>3, <1>4, <1>6, GatheringIs
<1> QED
  BY <1>6, <1>7 DEF Equation

(* Where a name stands, '=' is behind it, before the end.                  *)
LEMMA NameAtIs ==
  ASSUME NEW X, NEW buf \in Seq(X), NEW p \in PLACE, NEW name \in Seq(X)
  PROVE  /\ NameAt(buf, p, name) <=> /\ \A i \in 1 .. Len(name) : Byte(buf, p + i - 1) = name[i]
                                     /\ Byte(buf, p + Len(name)) = EQUALS
         /\ NameAt(buf, p, name) => p + Len(name) <= Len(buf)
<1>1. DOMAIN name = 1 .. Len(name)
  OBVIOUS
<1>2. NameAt(buf, p, name) <=> /\ \A i \in 1 .. Len(name) : Byte(buf, p + i - 1) = name[i]
                               /\ Byte(buf, p + Len(name)) = EQUALS
  BY <1>1, Zenon DEF NameAt, EQUALS
<1>3. Byte(buf, p + Len(name)) = EQUALS => p + Len(name) <= Len(buf)
  BY SignsDiffer, Zenon DEF Byte
<1> QED
  BY <1>2, <1>3, Zenon

(* Where get_param_array says that a value begins.                         *)
LEMMA ArrayFinds ==
  ASSUME NEW X, NEW buf \in Seq(X), NEW name \in Seq(X), NEW x \in PLACE,
         NEW len \in Nat,
         NEW found, found = {p \in x .. x + len - 1 : NameAt(buf, p, name)},
         NEW g, g = get_param_array(buf, x, name, len)
  PROVE  /\ found = {} => g = 0
         /\ found # {} => /\ g = First(found) + Len(name) + 1
                          /\ First(found) \in found
                          /\ \A p \in found : First(found) <= p
                          /\ g \in PLACE /\ g > x /\ g <= Len(buf) + 1
<1>1. g = IF found = {} THEN 0 ELSE First(found) + Len(name) + 1
  BY Zenon DEF get_param_array
<1>2. CASE found = {}
  BY <1>1, <1>2
<1>3. CASE found # {}
  <2>1. \A p \in found : p \in Nat
    BY DEF PLACE
  <2>2. First(found) \in found /\ \A p \in found : First(found) <= p
    BY <1>3, <2>1, FirstIs
  <2> DEFINE f == First(found)
  <2>3. f \in x .. x + len - 1 /\ NameAt(buf, f, name)
    BY <2>2
  <2>4. f \in PLACE /\ f >= x
    BY <2>3 DEF PLACE
  <2>5. f + Len(name) <= Len(buf)
    BY <2>3, <2>4, NameAtIs
  <2>6. g = f + Len(name) + 1
    BY <1>1, <1>3
  <2> HIDE DEF f
  <2>7. Len(name) \in Nat /\ Len(buf) \in Nat /\ x \in Nat /\ x > 0 /\ f \in Nat /\ f >= x
    BY <2>4 DEF PLACE
  <2>8. g \in PLACE /\ g > x /\ g <= Len(buf) + 1
    BY <2>5, <2>6, <2>7 DEF PLACE
  <2> QED
    BY <1>3, <2>2, <2>6, <2>8 DEF f
<1> QED
  BY <1>2, <1>3

LEMMA ArrayFromEquation ==
  ASSUME NEW X, NEW buf \in Seq(X), NEW name \in Seq(X), NEW len \in Nat, NEW i \in PLACE
  PROVE  /\ ArrayFrom(buf, name, len)[i] \in Seq(1 .. Len(buf) + 1)
         /\ ArrayFrom(buf, name, len)[i] =
              IF get_param_array(buf, i, name, len) = 0 THEN << >>
              ELSE << get_param_array(buf, i, name, len) >>
                   \o ArrayFrom(buf, name, len)[get_param_array(buf, i, name, len)]
<1> DEFINE L == Len(buf)
           Y == 1 .. Len(buf) + 1
           g(j) == get_param_array(buf, j, name, len)
           E == {j \in PLACE : g(j) = 0}
           b == [j \in PLACE |-> << g(j) >>]
           next == [j \in PLACE |-> g(j)]
           Equation(f) ==
             f = [j \in PLACE |-> IF g(j) = 0 THEN << >> ELSE << g(j) >> \o f[g(j)]]
<1>1. ArrayFrom(buf, name, len) = CHOOSE f : Equation(f)
  BY DEF ArrayFrom, PLACE
<1>2. L \in Nat
  OBVIOUS
<1>3. Advances(L, Y, E, b, next)
  <2>1. ASSUME NEW j \in PLACE, g(j) # 0
        PROVE  g(j) \in PLACE /\ g(j) > j /\ g(j) <= Len(buf) + 1
    <3> DEFINE found == {p \in j .. j + len - 1 : NameAt(buf, p, name)}
               h == get_param_array(buf, j, name, len)
    <3>1. found = {} \/ (h \in PLACE /\ h > j /\ h <= Len(buf) + 1)
      BY ArrayFinds
    <3>2. found = {} => h = 0
      BY Zenon DEF get_param_array
    <3>3. g(j) = h
      OBVIOUS
    <3> HIDE DEF found, h, g
    <3> QED
      BY <2>1, <3>1, <3>2, <3>3
  <2> HIDE DEF g
  <2>2. \A j \in PLACE : j \notin E => b[j] \in Seq(Y) /\ next[j] \in PLACE /\ next[j] > j
    <3> SUFFICES ASSUME NEW j \in PLACE, j \notin E
                 PROVE  b[j] \in Seq(Y) /\ next[j] \in PLACE /\ next[j] > j
      OBVIOUS
    <3>1. g(j) \in PLACE /\ g(j) > j /\ g(j) <= Len(buf) + 1
      BY <2>1
    <3>2. g(j) \in Y
      BY <3>1 DEF PLACE
    <3> HIDE DEF Y
    <3> QED
      BY <3>1, <3>2
  <2>3. \A j \in PLACE : j > L => j \in E
    <3> SUFFICES ASSUME NEW j \in PLACE, j > L, g(j) # 0 PROVE FALSE
      OBVIOUS
    <3>1. g(j) > j /\ g(j) \in PLACE /\ g(j) <= Len(buf) + 1
      BY <2>1
    <3> QED
      BY <3>1 DEF PLACE
  <2> HIDE DEF E, b, next, Y
  <2> QED
    BY <2>2, <2>3, Zenon DEF Advances
<1>4. \A f : Gathers(f, E, b, next) <=> Equation(f)
  BY DEF Gathers
<1> HIDE DEF L, Y, E, b, next, Equation
<1>5. \E f : Gathers(f, E, b, next)
  BY <1>2, <1>3, GatheringExists
<1>6. Equation(ArrayFrom(buf, name, len))
  BY <1>1, <1>4, <1>5
<1>7. ArrayFrom(buf, name, len)[i] \in Seq(Y)
  BY <1>2, <1>3, <1>4, <1>6, GatheringIs
<1> QED
  BY <1>6, <1>7 DEF Equation, Y

(* From a on the buffer is t. *)
EndsIn(buf, a, t) ==
  /\ a \in PLACE
  /\ Len(buf) = a - 1 + Len(t)
  /\ \A k \in 1 .. Len(t) : buf[a + k - 1] = t[k]

LEMMA EndsInItself ==
  ASSUME NEW X, NEW t \in Seq(X)
  PROVE  EndsIn(t, 1, t)
BY DEF EndsIn, PLACE

LEMMA EndsInRest ==
  ASSUME NEW X, NEW buf \in Seq(X), NEW u \in Seq(X), NEW t \in Seq(X), NEW a,
         EndsIn(buf, a, u \o t)
  PROVE  /\ EndsIn(buf, a + Len(u), t)
         /\ \A k \in 1 .. Len(u) : buf[a + k - 1] = u[k]
<1> DEFINE c == u \o t
<1>1. /\ Len(c) = Len(u) + Len(t) /\ Len(u) \in Nat /\ Len(t) \in Nat
      /\ \A k \in 1 .. Len(u) : c[k] = u[k]
      /\ \A k \in 1 .. Len(t) : c[Len(u) + k] = t[k]
  OBVIOUS
<1> HIDE DEF c
<1>2. /\ a \in PLACE /\ Len(buf) = a - 1 + Len(c)
      /\ \A k \in 1 .. Len(c) : buf[a + k - 1] = c[k]
  BY DEF EndsIn, c
<1>3. ASSUME NEW k \in 1 .. Len(u) PROVE buf[a + k - 1] = u[k]
  <2>1. k \in 1 .. Len(c)
    BY <1>1
  <2> QED
    BY <1>1, <1>2, <2>1
<1>4. ASSUME NEW k \in 1 .. Len(t) PROVE buf[(a + Len(u)) + k - 1] = t[k]
  <2>1. Len(u) + k \in 1 .. Len(c) /\ a + (Len(u) + k) - 1 = (a + Len(u)) + k - 1
    BY <1>1, <1>2 DEF PLACE
  <2> QED
    BY <1>1, <1>2, <2>1
<1>5. a + Len(u) \in PLACE /\ Len(buf) = (a + Len(u)) - 1 + Len(t)
  BY <1>1, <1>2 DEF PLACE
<1> QED
  BY <1>3, <1>4, <1>5 DEF EndsIn

(* What the signs of a sequence mean. *)
LEMMA MeantIs ==
  ASSUME NEW C, NEW t \in Seq(SIGN(C))
  PROVE  /\ Meant(t) \in Seq(Chars(C))
         /\ Len(Meant(t)) = Len(t)
         /\ \A k \in 1 .. Len(t) : Meant(t)[k] = t[k].char /\ t[k] \in SIGN(C)
<1>1. DOMAIN t = 1 .. Len(t) /\ Len(t) \in Nat /\ \A k \in 1 .. Len(t) : t[k] \in SIGN(C)
  OBVIOUS
<1>2. \A x \in SIGN(C) : x.char \in Chars(C)
  BY DEF SIGN
<1>3. Meant(t) = [k \in 1 .. Len(t) |-> t[k].char]
  BY <1>1, Zenon DEF Meant
<1> QED
  BY <1>1, <1>2, <1>3

LEMMA MeantOfMore ==
  ASSUME NEW C, NEW x \in SIGN(C), NEW t \in Seq(SIGN(C))
  PROVE  Meant(<< x >> \o t) = << x.char >> \o Meant(t)
<1> DEFINE u == << x >> \o t
           m == << x.char >> \o Meant(t)
<1>1. u \in Seq(SIGN(C)) /\ Len(u) = 1 + Len(t) /\ u[1] = x
      /\ \A k \in 1 .. Len(t) : u[1 + k] = t[k]
  OBVIOUS
<1>2. Meant(t) \in Seq(Chars(C)) /\ Len(Meant(t)) = Len(t)
      /\ \A k \in 1 .. Len(t) : Meant(t)[k] = t[k].char
  BY MeantIs
<1>3. x.char \in Chars(C)
  BY DEF SIGN
<1>4. m \in Seq(Chars(C)) /\ Len(m) = 1 + Len(t) /\ m[1] = x.char
      /\ \A k \in 1 .. Len(t) : m[1 + k] = t[k].char
  BY <1>2, <1>3
<1> HIDE DEF u, m
<1>5. Meant(u) \in Seq(Chars(C)) /\ Len(Meant(u)) = Len(u)
      /\ \A k \in 1 .. Len(u) : Meant(u)[k] = u[k].char
  BY <1>1, MeantIs
<1>6. ASSUME NEW k \in 1 .. Len(m) PROVE Meant(u)[k] = m[k]
  <2>1. CASE k = 1
    BY <1>1, <1>4, <1>5, <2>1
  <2>2. CASE k # 1
    <3>1. k - 1 \in 1 .. Len(t) /\ 1 + (k - 1) = k /\ k \in 1 .. Len(u)
      BY <1>1, <1>4, <2>2
    <3>2. u[k] = t[k - 1] /\ m[k] = t[k - 1].char
      BY <1>1, <1>4, <3>1
    <3> QED
      BY <1>5, <3>1, <3>2
  <2> QED
    BY <2>1, <2>2
<1>7. Meant(u) = m
  BY <1>1, <1>4, <1>5, <1>6
<1> QED
  BY <1>7 DEF u, m

(* A piece is decoded to what its signs mean: behind it come what the '&'  *)
(* is decoded to, and the other pieces.                                    *)
LEMMA EscapesOfPiece ==
  ASSUME NEW C, NEW s \in Seq(C), NEW w \in Seq(C), NEW p \in 1 .. Len(s), IsPiece(s, p, w),
         NEW k \in 1 .. Len(w)
  PROVE  /\ IsEscape(w, k) <=> IsEscape(s, p + k - 1)
         /\ w[k] = s[p + k - 1]
         /\ IsEscape(w, k) => w[k + 1] = s[p + k] /\ w[k + 2] = s[p + k + 1]
<1> DEFINE n == Len(w)
           L == Len(s)
           j == p + k - 1
<1>1. /\ n \in Nat /\ L \in Nat /\ p \in Nat /\ p >= 1 /\ p + n <= L + 1
      /\ \A i \in 1 .. n : w[i] = s[p + i - 1] /\ w[i] # AMP
      /\ p + n <= L => s[p + n] = AMP
      /\ k \in 1 .. n /\ j \in Nat /\ j + 1 = p + k /\ j + 2 = p + k + 1
  BY DEF IsPiece
<1>2. w[k] = s[j]
  BY <1>1
<1>3. k + 1 <= n => w[k + 1] = s[j + 1]
  <2> SUFFICES ASSUME k + 1 <= n PROVE w[k + 1] = s[j + 1]
    OBVIOUS
  <2>1. k + 1 \in 1 .. n /\ p + (k + 1) - 1 = j + 1
    BY <1>1
  <2> QED
    BY <1>1, <2>1
<1>4. k + 2 <= n => w[k + 2] = s[j + 2] /\ w[k + 1] = s[j + 1]
  <2> SUFFICES ASSUME k + 2 <= n PROVE w[k + 2] = s[j + 2] /\ w[k + 1] = s[j + 1]
    OBVIOUS
  <2>1. k + 2 \in 1 .. n /\ p + (k + 2) - 1 = j + 2 /\ k + 1 <= n
    BY <1>1
  <2> QED
    BY <1>1, <1>3, <2>1
<1>5. ASSUME j + 2 <= L, s[j + 1] \in Digits, s[j + 2] \in Digits PROVE k + 2 <= n
  <2>1. s[j + 1] # AMP /\ s[j + 2] # AMP
    BY <1>5, SignsDiffer
  <2>2. k + 1 # n + 1
    <3> SUFFICES ASSUME k + 1 = n + 1 PROVE FALSE
      OBVIOUS
    <3>1. p + n = j + 1 /\ p + n <= L
      BY <1>1, <1>5
    <3> QED
      BY <1>1, <2>1, <3>1
  <2>3. k + 2 # n + 1
    <3> SUFFICES ASSUME k + 2 = n + 1 PROVE FALSE
      OBVIOUS
    <3>1. p + n = j + 2 /\ p + n <= L
      BY <1>1, <1>5
    <3> QED
      BY <1>1, <2>1, <3>1
  <2> QED
    BY <1>1, <2>2, <2>3
<1>6. k + 2 <= n => j + 2 <= L
  BY <1>1
<1> HIDE DEF n, L, j
<1>7. IsEscape(w, k) <=> w[k] = "%" /\ k + 2 <= n /\ w[k + 1] \in Digits /\ w[k + 2] \in Digits
  BY Zenon DEF IsEscape, n
<1>8. IsEscape(s, j) <=> s[j] = "%" /\ j + 2 <= L /\ s[j + 1] \in Digits /\ s[j + 2] \in Digits
  BY Zenon DEF IsEscape, L
<1>9. IsEscape(w, k) <=> IsEscape(s, j)
  BY <1>2, <1>4, <1>5, <1>6, <1>7, <1>8, Zenon
<1>10. IsEscape(w, k) => w[k + 1] = s[j + 1] /\ w[k + 2] = s[j + 2]
  BY <1>4, <1>7, Zenon
<1>11. j + 1 = p + k /\ j + 2 = p + k + 1
  BY <1>1
<1> QED
  BY <1>2, <1>9, <1>10, <1>11 DEF j

LEMMA SignsOfPiece ==
  ASSUME NEW C, NEW s \in Seq(C), NEW w \in Seq(C), NEW p \in 1 .. Len(s), IsPiece(s, p, w),
         NEW k \in 1 .. Len(w)
  PROVE  /\ Decoded(s, p + k - 1) = SignAt(w, k).char
         /\ SignAt(w, k) \in SIGN(C)
         /\ Width(s, p + k - 1) = Width(w, k)
         /\ k + Width(w, k) <= Len(w) + 1
<1> DEFINE j == p + k - 1
           e == url_htoi(<< w[k + 1], w[k + 2] >>)
           c == IF w[k] = "+" THEN " " ELSE w[k]
<1>1. /\ IsEscape(w, k) <=> IsEscape(s, j)
      /\ w[k] = s[j]
      /\ IsEscape(w, k) => w[k + 1] = s[p + k] /\ w[k + 2] = s[p + k + 1]
  BY EscapesOfPiece
<1>2. j + 1 = p + k /\ j + 2 = p + k + 1
  OBVIOUS
<1>3. w[k] # AMP
  BY DEF IsPiece
<1>4. w[k] \in C
  OBVIOUS
<1> HIDE DEF j
<1>5. Character(w[k]) = c
  BY <1>3, SignsDiffer, Zenon
<1>6. Decoded(s, j) = IF IsEscape(w, k) THEN e ELSE c
  BY <1>1, <1>2, <1>5, Zenon DEF Decoded
<1>7. SignAt(w, k) = IF IsEscape(w, k) THEN [char |-> e, escape |-> TRUE]
                     ELSE [char |-> c, escape |-> FALSE]
  BY Zenon DEF SignAt
<1>8. SignAt(w, k) \in SIGN(C)
  BY <1>4, SignAtIs, Zenon
<1>9. Width(s, j) = Width(w, k)
  BY <1>1, Zenon DEF Width
<1>10. k + Width(w, k) <= Len(w) + 1
  <2>1. IsEscape(w, k) => k + 2 <= Len(w)
    BY Zenon DEF IsEscape
  <2>2. Width(w, k) = IF IsEscape(w, k) THEN 3 ELSE 1
    BY Zenon DEF Width
  <2> QED
    BY <2>1, <2>2
<1> HIDE DEF e, c
<1>11. Decoded(s, j) = SignAt(w, k).char
  BY <1>6, <1>7
<1> QED
  BY <1>8, <1>9, <1>10, <1>11 DEF j

LEMMA BackwardsTo ==
  ASSUME NEW L \in Nat, NEW P, \A k \in 1 .. L : (\A j \in 1 .. L : j > k => j \in P) => k \in P
  PROVE  \A k \in 1 .. L : k \in P
<1> DEFINE G == {k \in Nat : k \in 1 .. L => k \in P}
<1>1. \A i \in Nat : i > L => i \in G
  OBVIOUS
<1>2. ASSUME NEW i \in 0 .. L, \A j \in Nat : j > i => j \in G PROVE i \in G
  <2> SUFFICES ASSUME i \in 1 .. L PROVE i \in P
    OBVIOUS
  <2>1. \A j \in 1 .. L : j > i => j \in P
    BY <1>2
  <2> QED
    BY <2>1
<1>3. \A i \in 0 .. L : (\A j \in Nat : j > i => j \in G) => i \in G
  BY <1>2
<1> HIDE DEF G
<1>4. Nat \subseteq G
  BY <1>1, <1>3, Backwards
<1> QED
  BY <1>4 DEF G

LEMMA DecodedPiece ==
  ASSUME NEW C, NEW s \in Seq(C), NEW w \in Seq(C), NEW p \in 1 .. Len(s), IsPiece(s, p, w)
  PROVE  DecodedFrom(s)[p] = Meant(Signs(w)) \o DecodedFrom(s)[p + Len(w)]
<1> DEFINE n == Len(w)
           X == Chars(C)
           T == SIGN(C)
           D(j) == DecodedFrom(s)[j]
           S(k) == SignsFrom(w)[k]
           Tells(k) == D(p + k - 1) = Meant(S(k)) \o D(p + n)
           G == {k \in 1 .. n + 1 : Tells(k)}
<1>1. n \in Nat /\ p \in Nat /\ p >= 1 /\ p + n <= Len(s) + 1 /\ Len(s) \in Nat
  BY DEF IsPiece
<1>2. \A j \in PLACE : D(j) \in Seq(X)
  BY DecodedFromEquation
<1>3. \A k \in PLACE : S(k) \in Seq(T)
  BY SignsFromEquation
<1>4. S(n + 1) = << >>
  <2>1. n + 1 \in PLACE /\ n + 1 > Len(w)
    BY <1>1 DEF PLACE
  <2> QED
    BY <2>1, SignsFromEquation
<1>5. D(p + n) \in Seq(X)
  <2>1. p + n \in PLACE
    BY <1>1 DEF PLACE
  <2> QED
    BY <1>2, <2>1
<1>6. ASSUME NEW k \in 1 .. n + 1, \A j \in 1 .. n + 1 : j > k => j \in G PROVE Tells(k)
  <2>1. CASE k = n + 1
    <3>1. p + k - 1 = p + n
      BY <1>1, <2>1
    <3>2. Meant(S(k)) = << >>
      BY <1>4, <2>1 DEF Meant
    <3> HIDE DEF D, S, X
    <3>3. << >> \o D(p + n) = D(p + n)
      BY <1>5
    <3> QED
      BY <3>1, <3>2, <3>3
  <2>2. CASE k # n + 1
    <3> DEFINE x == SignAt(w, k)
               m == k + Width(w, k)
               j == p + k - 1
    <3>1. k \in 1 .. Len(w) /\ k \in PLACE /\ j \in PLACE /\ ~ (k > Len(w)) /\ ~ (j > Len(s))
      BY <1>1, <2>2 DEF PLACE
    <3>2. /\ Decoded(s, j) = x.char
          /\ x \in T
          /\ Width(s, j) = Width(w, k)
          /\ m <= n + 1
      BY <3>1, SignsOfPiece
    <3>3. m \in Nat /\ m > k /\ m \in 1 .. n + 1 /\ j + Width(s, j) = p + m - 1 /\ m \in PLACE
      <4>1. Width(w, k) \in {1, 3}
        BY Widths
      <4> QED
        BY <1>1, <3>1, <3>2, <4>1, SMTT(30) DEF PLACE
    <3>4. D(j) = << x.char >> \o D(p + m - 1)
      BY <3>1, <3>2, <3>3, DecodedFromEquation
    <3>5. S(k) = << x >> \o S(m)
      BY <3>1, SignsFromEquation
    <3>6. S(m) \in Seq(T)
      BY <1>3, <3>3
    <3>7. m \in G
      BY <1>6, <3>3
    <3>8. D(p + m - 1) = Meant(S(m)) \o D(p + n)
      BY <3>7
    <3> HIDE DEF D, S, G, x, m, j
    <3>9. Meant(S(k)) = << x.char >> \o Meant(S(m))
      BY <3>2, <3>5, <3>6, MeantOfMore
    <3>10. Meant(S(m)) \in Seq(X) /\ << x.char >> \in Seq(X)
      <4>1. Meant(S(m)) \in Seq(X)
        BY <3>6, MeantIs
      <4>2. x.char \in X
        BY <3>2 DEF SIGN
      <4> HIDE DEF X
      <4> QED
        BY <4>1, <4>2, ShortSequences, Zenon
    <3> HIDE DEF X
    <3>11. << x.char >> \o (Meant(S(m)) \o D(p + n)) = (<< x.char >> \o Meant(S(m))) \o D(p + n)
      BY <1>5, <3>10, Joined, SMTT(30)
    <3>12. D(j) = Meant(S(k)) \o D(p + n)
      BY <3>4, <3>8, <3>9, <3>11, Zenon
    <3> QED
      BY <3>12 DEF j
  <2> QED
    BY <2>1, <2>2
<1>7. \A k \in 1 .. n + 1 : (\A j \in 1 .. n + 1 : j > k => j \in G) => k \in G
  <2> HIDE DEF Tells
  <2> QED
    BY <1>6
<1> HIDE DEF G
<1>8. \A k \in 1 .. n + 1 : k \in G
  <2>1. n + 1 \in Nat
    BY <1>1
  <2> HIDE DEF n
  <2> QED
    BY <1>7, <2>1, BackwardsTo
<1>9. 1 \in G
  BY <1>1, <1>8
<1>10. Tells(1)
  <2> HIDE DEF Tells
  <2> QED
    BY <1>9 DEF G
<1>11. p + 1 - 1 = p
  BY <1>1
<1> QED
  BY <1>10, <1>11, Zenon DEF Signs

LEMMA DecodedAfterPiece ==
  ASSUME NEW C, NEW s \in Seq(C), NEW w \in Seq(C), NEW p \in 1 .. Len(s), IsPiece(s, p, w)
  PROVE  DecodedFrom(s)[p + Len(w)] =
           IF p + Len(w) > Len(s) THEN << >>
           ELSE << NUL >> \o DecodedFrom(s)[p + Len(w) + 1]
<1> DEFINE j == p + Len(w)
<1>1. j \in PLACE
  BY DEF PLACE
<1>2. DecodedFrom(s)[j] = IF j > Len(s) THEN << >>
                          ELSE << Decoded(s, j) >> \o DecodedFrom(s)[j + Width(s, j)]
  BY <1>1, DecodedFromEquation
<1>3. j <= Len(s) => s[j] = AMP
  BY DEF IsPiece
<1> HIDE DEF j
<1>4. s[j] = AMP => ~ IsEscape(s, j)
  BY SignsDiffer, Zenon DEF IsEscape
<1>5. s[j] = AMP => Decoded(s, j) = NUL /\ Width(s, j) = 1
  BY <1>4, SignsDiffer, Zenon DEF Decoded, Width
<1>6. ~ (j > Len(s)) => j <= Len(s)
  BY <1>1 DEF PLACE
<1>7. DecodedFrom(s)[j] = IF j > Len(s) THEN << >>
                          ELSE << NUL >> \o DecodedFrom(s)[j + 1]
  BY <1>2, <1>3, <1>5, <1>6, Zenon
<1> QED
  BY <1>7 DEF j

(* A piece whose escapes stand for no end of a string, and for no '='      *)
(* before its first.                                                       *)
SanePiece(t) ==
  \A i \in DOMAIN t :
    t[i].escape => /\ t[i].char # NUL
                   /\ t[i].char = EQUALS => \E q \in Equals(t) : q < i

LEMMA SaneMeaning ==
  ASSUME NEW C, NUL \notin C, NEW t \in Seq(SIGN(C)), SanePiece(t)
  PROVE  \A k \in 1 .. Len(Meant(t)) : Meant(t)[k] # NUL
<1> SUFFICES ASSUME NEW k \in 1 .. Len(t) PROVE Meant(t)[k] # NUL
  BY MeantIs
<1>1. Meant(t)[k] = t[k].char /\ t[k] \in SIGN(C)
  BY MeantIs
<1>2. k \in DOMAIN t
  OBVIOUS
<1>3. t[k].escape => t[k].char # NUL
  BY <1>2, Zenon DEF SanePiece
<1>4. t[k].escape \/ t[k].char \in C \/ t[k].char = BLANK
  BY <1>1, Zenon DEF SIGN
<1> QED
  BY <1>1, <1>3, <1>4, SignsDiffer, Zenon

LEMMA EqualsMean ==
  ASSUME NEW C, NEW t \in Seq(SIGN(C)), SanePiece(t)
  PROVE  /\ \A q \in Equals(t) : q \in 1 .. Len(t) /\ Meant(t)[q] = EQUALS
         /\ \A k \in 1 .. Len(t) : Meant(t)[k] = EQUALS => \E q \in Equals(t) : q <= k
<1>1. DOMAIN t = 1 .. Len(t)
  OBVIOUS
<1>2. \A k \in 1 .. Len(t) : Meant(t)[k] = t[k].char /\ t[k] \in SIGN(C)
  BY MeantIs
<1>3. \A q : q \in Equals(t) <=> q \in 1 .. Len(t) /\ t[q] = [char |-> EQUALS, escape |-> FALSE]
  BY <1>1, Zenon DEF Equals, EQUALS
<1>4. ASSUME NEW q \in Equals(t) PROVE q \in 1 .. Len(t) /\ Meant(t)[q] = EQUALS
  <2>1. q \in 1 .. Len(t) /\ t[q] = [char |-> EQUALS, escape |-> FALSE]
    BY <1>3, Zenon
  <2>2. t[q].char = EQUALS
    BY <2>1
  <2> QED
    BY <1>2, <2>1, <2>2, Zenon
<1>5. ASSUME NEW k \in 1 .. Len(t), Meant(t)[k] = EQUALS PROVE \E q \in Equals(t) : q <= k
  <2>1. t[k].char = EQUALS /\ t[k] \in SIGN(C)
    BY <1>2, <1>5
  <2>2. CASE t[k].escape
    <3>1. \E q \in Equals(t) : q < k
      BY <1>1, <2>1, <2>2, Zenon DEF SanePiece
    <3>2. PICK q \in Equals(t) : q < k
      BY <3>1
    <3>3. q \in 1 .. Len(t)
      BY <1>4
    <3>4. q <= k
      BY <3>2, <3>3
    <3> QED
      BY <3>4
  <2>3. CASE ~ t[k].escape
    <3>1. t[k] \in [char : Chars(C), escape : BOOLEAN]
      BY <2>1, Zenon DEF SIGN
    <3>2. t[k].escape \in BOOLEAN
      BY <3>1, Zenon
    <3>3. t[k].escape = FALSE
      BY <2>3, <3>2, Zenon
    <3>4. t[k] = [char |-> t[k].char, escape |-> t[k].escape]
      BY <3>1
    <3>5. k \in Equals(t)
      BY <1>3, <2>1, <3>3, <3>4, Zenon
    <3>6. k <= k
      OBVIOUS
    <3> QED
      BY <3>5, <3>6
  <2> QED
    BY <2>2, <2>3
<1> QED
  BY <1>4, <1>5

(* Where a text says name, '=', and more.                                  *)
SaysName(m, name) ==
  /\ Len(name) < Len(m)
  /\ m[Len(name) + 1] = EQUALS
  /\ \A i \in 1 .. Len(name) : m[i] = name[i]

LEMMA MeantOfPart ==
  ASSUME NEW C, NEW t \in Seq(SIGN(C)), NEW a \in PLACE, NEW b \in 0 .. Len(t)
  PROVE  Meant(SubSeq(t, a, b)) = SubSeq(Meant(t), a, b)
<1> DEFINE u == SubSeq(t, a, b)
           m == Meant(t)
           v == SubSeq(m, a, b)
           n == IF a <= b THEN b - a + 1 ELSE 0
<1>1. a \in Nat /\ a >= 1 /\ b \in Nat /\ b <= Len(t)
  BY DEF PLACE
<1>2. u \in Seq(SIGN(C)) /\ Len(u) = n /\ \A k \in 1 .. n : u[k] = t[a + k - 1]
  BY <1>1
<1>3. m \in Seq(Chars(C)) /\ Len(m) = Len(t) /\ \A k \in 1 .. Len(t) : m[k] = t[k].char
  BY MeantIs
<1> HIDE DEF m
<1>4. v \in Seq(Chars(C)) /\ Len(v) = n /\ \A k \in 1 .. n : v[k] = m[a + k - 1]
  BY <1>1, <1>3
<1>5. n \in Nat /\ \A k \in 1 .. n : a + k - 1 \in 1 .. Len(t)
  BY <1>1
<1> HIDE DEF u, v, n
<1>6. Meant(u) \in Seq(Chars(C)) /\ Len(Meant(u)) = n /\ \A k \in 1 .. n : Meant(u)[k] = u[k].char
  BY <1>2, MeantIs
<1>7. \A k \in 1 .. n : Meant(u)[k] = v[k]
  BY <1>2, <1>3, <1>4, <1>5, <1>6
<1>8. Meant(u) = v
  BY <1>4, <1>5, <1>6, <1>7
<1> QED
  BY <1>8 DEF u, v, m

LEMMA ConcatenationIs ==
  ASSUME NEW X, NEW a \in Seq(X), NEW b \in Seq(X)
  PROVE  /\ a \o b \in Seq(X) /\ Len(a \o b) = Len(a) + Len(b)
         /\ \A i \in 1 .. Len(a) : (a \o b)[i] = a[i]
         /\ \A i \in 1 .. Len(b) : (a \o b)[Len(a) + i] = b[i]
OBVIOUS

LEMMA PartIs ==
  ASSUME NEW X, NEW s \in Seq(X), NEW a \in PLACE, NEW b \in 0 .. Len(s), a <= b + 1
  PROVE  /\ SubSeq(s, a, b) \in Seq(X) /\ Len(SubSeq(s, a, b)) = b - a + 1
         /\ \A i \in 1 .. b - a + 1 : SubSeq(s, a, b)[i] = s[a + i - 1]
<1>1. a \in Nat /\ a >= 1 /\ b \in Nat /\ b <= Len(s)
  BY DEF PLACE
<1> QED
  BY <1>1

LEMMA SameSequence ==
  ASSUME NEW X, NEW Y, NEW a \in Seq(X), NEW b \in Seq(Y), Len(a) = Len(b),
         \A k \in 1 .. Len(a) : a[k] = b[k]
  PROVE  a = b
OBVIOUS

LEMMA HeadOfPart ==
  ASSUME NEW X, NEW s \in Seq(X), NEW k \in PLACE, NEW b \in 0 .. Len(s), k <= b
  PROVE  << s[k] >> \o SubSeq(s, k + 1, b) = SubSeq(s, k, b)
<1> DEFINE x == << s[k] >>
           y == SubSeq(s, k + 1, b)
           z == SubSeq(s, k, b)
           c == x \o y
<1>1. k \in Nat /\ k >= 1 /\ b \in Nat /\ k + 1 \in PLACE
  BY DEF PLACE
<1>2. y \in Seq(X) /\ Len(y) = b - k /\ \A i \in 1 .. b - k : y[i] = s[k + i]
  <2>1. k + 1 <= b + 1 /\ b - (k + 1) + 1 = b - k /\ \A i \in 1 .. b - k : (k + 1) + i - 1 = k + i
    BY <1>1
  <2>2. y \in Seq(X) /\ Len(y) = b - (k + 1) + 1
        /\ \A i \in 1 .. b - (k + 1) + 1 : y[i] = s[(k + 1) + i - 1]
    BY <1>1, <2>1, PartIs
  <2> HIDE DEF y
  <2> QED
    BY <2>1, <2>2
<1>3. z \in Seq(X) /\ Len(z) = b - k + 1 /\ \A i \in 1 .. b - k + 1 : z[i] = s[k + i - 1]
  <2>1. k <= b + 1
    BY <1>1
  <2> QED
    BY <2>1, PartIs
<1>4. x \in Seq(X) /\ Len(x) = 1 /\ x[1] = s[k]
  <2>1. s[k] \in X
    BY <1>1
  <2> QED
    BY <2>1
<1> HIDE DEF x, y, z
<1>5. /\ c \in Seq(X) /\ Len(c) = Len(x) + Len(y)
      /\ \A i \in 1 .. Len(x) : c[i] = x[i]
      /\ \A i \in 1 .. Len(y) : c[Len(x) + i] = y[i]
  <2>1. x \in Seq(X) /\ y \in Seq(X)
    BY <1>2, <1>4
  <2> QED
    BY <2>1, ConcatenationIs
<1> HIDE DEF c
<1>6. ASSUME NEW i \in 1 .. Len(z) PROVE c[i] = z[i]
  <2>1. CASE i = 1
    BY <1>1, <1>3, <1>4, <1>5, <2>1
  <2>2. CASE i # 1
    <3>1. i - 1 \in 1 .. Len(y) /\ 1 + (i - 1) = i /\ k + (i - 1) = k + i - 1
      BY <1>1, <1>2, <1>3, <2>2
    <3>2. c[i] = y[i - 1]
      BY <1>4, <1>5, <3>1
    <3>3. y[i - 1] = s[k + (i - 1)] /\ z[i] = s[k + i - 1]
      BY <1>2, <1>3, <3>1
    <3> QED
      BY <3>1, <3>2, <3>3
  <2> QED
    BY <2>1, <2>2
<1>7. Len(c) = Len(z)
  BY <1>1, <1>2, <1>3, <1>4, <1>5
<1>8. c = z
  BY <1>3, <1>5, <1>6, <1>7, SameSequence
<1> QED
  BY <1>8 DEF c, x, y, z

LEMMA ParamIs ==
  ASSUME NEW C, NEW name \in Seq(C), \A i \in 1 .. Len(name) : name[i] # EQUALS,
         NEW t \in Seq(SIGN(C)), SanePiece(t)
  PROVE  /\ IsParam(t, name) <=> SaysName(Meant(t), name)
         /\ IsParam(t, name) => ParamValue(t) = SubSeq(Meant(t), Len(name) + 2, Len(t))
<1> DEFINE m == Meant(t)
           n == Len(t)
           l == Len(name)
           eq == Equals(t)
           f == First(eq)
<1>1. m \in Seq(Chars(C)) /\ Len(m) = n /\ n \in Nat /\ l \in Nat
  BY MeantIs
<1>2. /\ \A q \in eq : q \in 1 .. n /\ m[q] = EQUALS
      /\ \A k \in 1 .. n : m[k] = EQUALS => \E q \in eq : q <= k
  BY EqualsMean
<1>3. \A q \in eq : q \in Nat
  BY <1>2
<1>4. IsParam(t, name) <=> eq # {} /\ Meant(SubSeq(t, 1, f - 1)) = name
  BY Zenon DEF IsParam
<1>5. ParamValue(t) = Meant(SubSeq(t, f + 1, n))
  BY Zenon DEF ParamValue
<1> HIDE DEF m, eq
<1>6. eq # {} => f \in eq /\ \A q \in eq : f <= q
  BY <1>3, FirstIs
<1>7. \A k \in 1 .. n : Meant(SubSeq(t, 1, k - 1)) = SubSeq(m, 1, k - 1)
  <2> TAKE k \in 1 .. n
  <2>1. 1 \in PLACE /\ k - 1 \in 0 .. Len(t)
    BY <1>1 DEF PLACE
  <2> QED
    BY <2>1, MeantOfPart DEF m
<1>8. \A k \in 1 .. n : SubSeq(m, 1, k - 1) = name <=> k = l + 1 /\ \A i \in 1 .. l : m[i] = name[i]
  <2> TAKE k \in 1 .. n
  <2> DEFINE v == SubSeq(m, 1, k - 1)
  <2>1. v \in Seq(Chars(C)) /\ Len(v) = k - 1 /\ \A i \in 1 .. k - 1 : v[i] = m[i]
    BY <1>1
  <2> HIDE DEF v
  <2>2. ASSUME v = name PROVE k = l + 1 /\ \A i \in 1 .. l : m[i] = name[i]
    <3>1. k = l + 1
      BY <2>1, <2>2
    <3> QED
      BY <2>1, <2>2, <3>1
  <2>3. ASSUME k = l + 1, \A i \in 1 .. l : m[i] = name[i] PROVE v = name
    <3>1. Len(v) = Len(name) /\ \A i \in 1 .. Len(v) : v[i] = name[i]
      BY <1>1, <2>1, <2>3
    <3> QED
      BY <2>1, <3>1, SameSequence
  <2> QED
    BY <2>2, <2>3 DEF v
<1>9. ASSUME IsParam(t, name) PROVE SaysName(m, name) /\ f = l + 1
  <2>1. f \in 1 .. n /\ m[f] = EQUALS /\ Meant(SubSeq(t, 1, f - 1)) = name
    BY <1>2, <1>4, <1>6, <1>9
  <2> HIDE DEF f
  <2>2. SubSeq(m, 1, f - 1) = name
    BY <1>7, <2>1
  <2>3. f = l + 1 /\ \A i \in 1 .. l : m[i] = name[i]
    BY <1>8, <2>1, <2>2
  <2>4. l < n
    BY <1>1, <2>1, <2>3
  <2> QED
    BY <1>1, <2>1, <2>3, <2>4 DEF SaysName
<1>10. ASSUME SaysName(m, name) PROVE IsParam(t, name)
  <2>1. l + 1 \in 1 .. n /\ m[l + 1] = EQUALS /\ \A i \in 1 .. l : m[i] = name[i]
    BY <1>1, <1>10 DEF SaysName
  <2>2. \A q \in eq : l + 1 <= q
    <3> SUFFICES ASSUME NEW q \in eq, ~ (l + 1 <= q) PROVE FALSE
      OBVIOUS
    <3>1. q \in 1 .. l /\ m[q] = EQUALS
      BY <1>1, <1>2
    <3> QED
      BY <2>1, <3>1
  <2>3. PICK q \in eq : q <= l + 1
    BY <1>2, <2>1
  <2>4. q = l + 1
    BY <1>1, <1>3, <2>2, <2>3
  <2>5. f = l + 1
    <3>1. l + 1 \in eq
      BY <2>3, <2>4
    <3> QED
      BY <1>3, <2>2, <3>1, FirstAt
  <2> HIDE DEF f
  <2>6. SubSeq(m, 1, f - 1) = name
    BY <1>8, <2>1, <2>5
  <2>7. Meant(SubSeq(t, 1, f - 1)) = name
    BY <1>7, <2>1, <2>5, <2>6
  <2>8. eq # {}
    BY <2>3
  <2> QED
    BY <1>4, <2>7, <2>8
<1>11. ASSUME IsParam(t, name) PROVE ParamValue(t) = SubSeq(m, l + 2, n)
  <2>1. f = l + 1
    BY <1>9, <1>11
  <2> HIDE DEF f
  <2>2. f + 1 \in PLACE /\ n \in 0 .. Len(t) /\ f + 1 = l + 2
    BY <1>1, <2>1 DEF PLACE
  <2>3. Meant(SubSeq(t, f + 1, n)) = SubSeq(m, f + 1, n)
    BY <2>2, MeantOfPart DEF m
  <2> QED
    BY <1>5, <2>2, <2>3
<1> QED
  BY <1>9, <1>10, <1>11 DEF m

(* The string at a place ends before the first 0. *)
LEMMA StringIs ==
  ASSUME NEW X, NEW buf \in Seq(X), NEW a \in PLACE, NEW b \in PLACE, a <= b, b <= Len(buf) + 1,
         \A q \in a .. b - 1 : buf[q] # NUL, Byte(buf, b) = NUL
  PROVE  StringAt(buf, a) = SubSeq(buf, a, b - 1)
<1> DEFINE S(i) == StringsOf(buf)[i]
           Tells(k) == k >= a => S(k) = SubSeq(buf, k, b - 1)
           G == {k \in 1 .. b : Tells(k)}
<1>1. a \in Nat /\ a >= 1 /\ b \in Nat /\ b >= 1 /\ Len(buf) \in Nat
  BY DEF PLACE
<1>2. ASSUME NEW k \in 1 .. b, \A j \in 1 .. b : j > k => j \in G PROVE Tells(k)
  <2> SUFFICES ASSUME k >= a PROVE S(k) = SubSeq(buf, k, b - 1)
    OBVIOUS
  <2>1. k \in PLACE
    BY DEF PLACE
  <2>2. CASE k = b
    <3>1. S(k) = << >>
      BY <2>1, <2>2, StringsOfEquation
    <3>2. SubSeq(buf, k, b - 1) = << >>
      BY <1>1, <2>2
    <3> QED
      BY <3>1, <3>2
  <2>3. CASE k # b
    <3>1. k \in a .. b - 1 /\ k <= Len(buf) /\ k + 1 \in 1 .. b /\ k + 1 > k /\ k + 1 >= a
      BY <1>1, <2>3
    <3>2. Byte(buf, k) = buf[k] /\ buf[k] # NUL /\ buf[k] \in X
      BY <1>1, <3>1 DEF Byte
    <3>3. S(k) = << buf[k] >> \o S(k + 1)
      BY <2>1, <3>2, StringsOfEquation
    <3>4. S(k + 1) = SubSeq(buf, k + 1, b - 1)
      BY <1>2, <3>1
    <3>5. k \in PLACE /\ b - 1 \in 0 .. Len(buf) /\ k <= b - 1
      BY <1>1, <3>1 DEF PLACE
    <3>6. << buf[k] >> \o SubSeq(buf, k + 1, b - 1) = SubSeq(buf, k, b - 1)
      BY <3>5, HeadOfPart
    <3> QED
      BY <3>3, <3>4, <3>6
  <2> QED
    BY <2>2, <2>3
<1>3. \A k \in 1 .. b : (\A j \in 1 .. b : j > k => j \in G) => k \in G
  <2> HIDE DEF Tells
  <2> QED
    BY <1>2
<1> HIDE DEF G
<1>4. \A k \in 1 .. b : k \in G
  BY <1>1, <1>3, BackwardsTo
<1>5. a \in G
  BY <1>1, <1>4
<1>6. Tells(a)
  <2> HIDE DEF Tells
  <2> QED
    BY <1>5 DEF G
<1> QED
  BY <1>1, <1>6 DEF StringAt

(* Where a text without an end stands in the buffer, and a string ends     *)
(* behind it, a name stands just if the text says so, and the string       *)
(* behind the name is the rest of the text.                                *)
Holds(buf, a, m) ==
  /\ a \in PLACE
  /\ a + Len(m) <= Len(buf) + 1
  /\ \A k \in 1 .. Len(m) : buf[a + k - 1] = m[k] /\ m[k] # NUL
  /\ Byte(buf, a + Len(m)) = NUL

LEMMA NameWhereItHolds ==
  ASSUME NEW X, NEW buf \in Seq(X), NEW name \in Seq(X), \A i \in 1 .. Len(name) : name[i] # NUL,
         NEW m \in Seq(X), NEW a, Holds(buf, a, m)
  PROVE  NameAt(buf, a, name) <=> SaysName(m, name)
<1> DEFINE l == Len(name)
           n == Len(m)
<1>1. /\ a \in PLACE /\ a \in Nat /\ a >= 1 /\ a + n <= Len(buf) + 1
      /\ l \in Nat /\ n \in Nat /\ Len(buf) \in Nat
      /\ \A k \in 1 .. n : buf[a + k - 1] = m[k] /\ m[k] # NUL
      /\ Byte(buf, a + n) = NUL
  BY DEF Holds, PLACE
<1>2. NameAt(buf, a, name) <=> /\ \A i \in 1 .. l : Byte(buf, a + i - 1) = name[i]
                               /\ Byte(buf, a + l) = EQUALS
  BY <1>1, NameAtIs
<1>3. ASSUME NEW k \in 1 .. n PROVE Byte(buf, a + k - 1) = m[k]
  <2>1. a + k - 1 <= Len(buf)
    BY <1>1
  <2> QED
    BY <1>1, <2>1 DEF Byte
<1>4. ASSUME NameAt(buf, a, name) PROVE SaysName(m, name)
  <2>1. l < n
    <3> SUFFICES ASSUME n <= l PROVE FALSE
      BY <1>1
    <3>1. CASE l = n
      BY <1>1, <1>2, <1>4, <3>1, SignsDiffer
    <3>2. CASE n < l
      <4>1. n + 1 \in 1 .. l /\ a + (n + 1) - 1 = a + n
        BY <1>1, <3>2
      <4>2. Byte(buf, a + (n + 1) - 1) = name[n + 1] /\ name[n + 1] # NUL
        BY <1>2, <1>4, <4>1
      <4> QED
        BY <1>1, <4>1, <4>2
    <3> QED
      BY <1>1, <3>1, <3>2
  <2>2. ASSUME NEW i \in 1 .. l PROVE m[i] = name[i]
    <3>1. i \in 1 .. n
      BY <1>1, <2>1
    <3> QED
      BY <1>2, <1>3, <1>4, <3>1
  <2>3. m[l + 1] = EQUALS
    <3>1. l + 1 \in 1 .. n /\ a + (l + 1) - 1 = a + l
      BY <1>1, <2>1
    <3>2. Byte(buf, a + (l + 1) - 1) = m[l + 1]
      BY <1>3, <3>1
    <3> QED
      BY <1>2, <1>4, <3>1, <3>2
  <2> QED
    BY <2>1, <2>2, <2>3 DEF SaysName
<1>5. ASSUME SaysName(m, name) PROVE NameAt(buf, a, name)
  <2>1. l < n /\ m[l + 1] = EQUALS /\ \A i \in 1 .. l : m[i] = name[i]
    BY <1>5 DEF SaysName
  <2>2. ASSUME NEW i \in 1 .. l PROVE Byte(buf, a + i - 1) = name[i]
    <3>1. i \in 1 .. n
      BY <1>1, <2>1
    <3> QED
      BY <1>3, <2>1, <3>1
  <2>3. Byte(buf, a + l) = EQUALS
    <3>1. l + 1 \in 1 .. n /\ a + (l + 1) - 1 = a + l
      BY <1>1, <2>1
    <3>2. Byte(buf, a + (l + 1) - 1) = m[l + 1]
      BY <1>3, <3>1
    <3> QED
      BY <2>1, <3>1, <3>2
  <2> QED
    BY <1>2, <2>2, <2>3
<1> QED
  BY <1>4, <1>5

LEMMA StringWhereItHolds ==
  ASSUME NEW X, NEW buf \in Seq(X), NEW m \in Seq(X), NEW a, Holds(buf, a, m),
         NEW i \in 1 .. Len(m) + 1
  PROVE  StringAt(buf, a + i - 1) = SubSeq(m, i, Len(m))
<1> DEFINE n == Len(m)
           c == a + i - 1
           b == a + n
<1>1. /\ a \in Nat /\ a >= 1 /\ a + n <= Len(buf) + 1 /\ n \in Nat /\ Len(buf) \in Nat
      /\ \A k \in 1 .. n : buf[a + k - 1] = m[k] /\ m[k] # NUL
      /\ Byte(buf, a + n) = NUL
  BY DEF Holds, PLACE
<1>2. c \in PLACE /\ b \in PLACE /\ c <= b /\ b <= Len(buf) + 1
  BY <1>1 DEF PLACE
<1>3. ASSUME NEW q \in c .. b - 1 PROVE buf[q] # NUL
  <2>1. q - a + 1 \in 1 .. n /\ a + (q - a + 1) - 1 = q
    BY <1>1
  <2> QED
    BY <1>1, <2>1
<1>4. StringAt(buf, c) = SubSeq(buf, c, b - 1)
  BY <1>1, <1>2, <1>3, StringIs
<1> DEFINE u == SubSeq(buf, c, b - 1)
           v == SubSeq(m, i, n)
<1>5. u \in Seq(X) /\ Len(u) = b - c /\ \A k \in 1 .. Len(u) : u[k] = buf[c + k - 1]
  <2>1. b - 1 \in 0 .. Len(buf) /\ c <= (b - 1) + 1 /\ (b - 1) - c + 1 = b - c
    BY <1>1, <1>2
  <2> HIDE DEF b, c
  <2> QED
    BY <1>2, <2>1, PartIs
<1>6. v \in Seq(X) /\ Len(v) = n - i + 1 /\ \A k \in 1 .. Len(v) : v[k] = m[i + k - 1]
  <2>1. i \in PLACE /\ n \in 0 .. Len(m) /\ i <= n + 1
    BY <1>1 DEF PLACE
  <2> HIDE DEF n
  <2> QED
    BY <2>1, PartIs
<1>7. b - c = n - i + 1
  BY <1>1
<1> HIDE DEF u, v
<1>8. ASSUME NEW k \in 1 .. Len(u) PROVE u[k] = v[k]
  <2>1. i + k - 1 \in 1 .. n /\ a + (i + k - 1) - 1 = c + k - 1
    BY <1>1, <1>5, <1>7
  <2>2. buf[a + (i + k - 1) - 1] = m[i + k - 1]
    BY <1>1, <2>1
  <2> QED
    BY <1>5, <1>6, <1>7, <2>1, <2>2
<1>9. u = v
  BY <1>5, <1>6, <1>7, <1>8, SameSequence
<1> QED
  BY <1>4, <1>9 DEF u, v

(* A piece of a query, decoded, in the buffer from a on.                   *)
StartsAt(s, p) == p = 1 \/ s[p - 1] = AMP

LEMMA PieceInBuffer ==
  ASSUME NEW C, NUL \notin C, NEW s \in Seq(C), Sane(s),
         NEW p \in 1 .. Len(s), StartsAt(s, p),
         NEW w, w = PieceFrom(s, p),
         NEW buf \in Seq(Chars(C)), NEW a, EndsIn(buf, a, DecodedFrom(s)[p])
  PROVE  /\ w \in Seq(C) /\ Signs(w) \in Seq(SIGN(C)) /\ SanePiece(Signs(w))
         /\ Holds(buf, a, Meant(Signs(w)))
         /\ p + Len(w) > Len(s) => a + Len(Signs(w)) = Len(buf) + 1
         /\ p + Len(w) <= Len(s) =>
              /\ StartsAt(s, p + Len(w) + 1)
              /\ buf[a + Len(Signs(w))] = NUL
              /\ a + Len(Signs(w)) <= Len(buf)
              /\ EndsIn(buf, a + Len(Signs(w)) + 1, DecodedFrom(s)[p + Len(w) + 1])
<1> DEFINE X == Chars(C)
           t == Signs(w)
           m == Meant(t)
           n == p + Len(w)
           D(j) == DecodedFrom(s)[j]
           b == a + Len(t)
<1>1. w \in Seq(C) /\ IsPiece(s, p, w)
  BY PieceIs
<1>2. t \in Seq(SIGN(C))
  <2>1. 1 \in PLACE
    BY DEF PLACE
  <2> QED
    BY <1>1, <2>1, SignsFromEquation DEF Signs
<1>3. SanePiece(t)
  <2>1. p \in {q \in DOMAIN s : q = 1 \/ s[q - 1] = AMP}
    BY DEF StartsAt
  <2> QED
    BY <2>1, Zenon DEF Sane, SanePiece, AMP, EQUALS
<1> HIDE DEF t
<1>4. m \in Seq(X) /\ Len(m) = Len(t) /\ \A k \in 1 .. Len(m) : m[k] # NUL
  BY <1>2, <1>3, MeantIs, SaneMeaning
<1>5. D(p) = m \o D(n)
  BY <1>1, DecodedPiece DEF t
<1>6. D(n) = IF n > Len(s) THEN << >> ELSE << NUL >> \o D(n + 1)
  BY <1>1, DecodedAfterPiece
<1>7. n \in PLACE /\ n + 1 \in PLACE
  BY <1>1 DEF PLACE
<1>8. D(n) \in Seq(X) /\ D(n + 1) \in Seq(X)
  BY <1>7, DecodedFromEquation
<1> HIDE DEF X, m, D, n
<1>9. EndsIn(buf, a, m \o D(n))
  BY <1>5 DEF D
<1>10. EndsIn(buf, a + Len(m), D(n)) /\ \A k \in 1 .. Len(m) : buf[a + k - 1] = m[k]
  BY <1>4, <1>8, <1>9, EndsInRest DEF X
<1>11. a \in PLACE
  BY DEF EndsIn
<1>12. b = a + Len(m) /\ b \in PLACE /\ Len(buf) = b - 1 + Len(D(n)) /\ EndsIn(buf, b, D(n))
  BY <1>4, <1>10, <1>11 DEF EndsIn, PLACE
<1> HIDE DEF b
<1>13. CASE n > Len(s)
  <2>1. Len(D(n)) = 0
    BY <1>6, <1>13
  <2>2. b = Len(buf) + 1 /\ Byte(buf, b) = NUL
    BY <1>12, <2>1 DEF Byte, PLACE
  <2>3. Holds(buf, a, m)
    BY <1>4, <1>10, <1>11, <1>12, <2>2 DEF Holds
  <2>4. ~ (n <= Len(s))
    BY <1>7, <1>13 DEF PLACE
  <2> QED
    BY <1>1, <1>2, <1>3, <2>2, <2>3, <2>4 DEF b, n, m, t
<1>14. CASE ~ (n > Len(s))
  <2> DEFINE z == << NUL >>
  <2>1. NUL \in X
    BY CharsHas DEF X
  <2>2. z \in Seq(X) /\ Len(z) = 1 /\ z[1] = NUL
    BY <2>1
  <2>3. D(n) = z \o D(n + 1)
    BY <1>6, <1>14
  <2> HIDE DEF z
  <2>4. EndsIn(buf, b + Len(z), D(n + 1)) /\ \A k \in 1 .. Len(z) : buf[b + k - 1] = z[k]
    <3> DEFINE rest == D(n + 1)
    <3>1. EndsIn(buf, b, z \o rest) /\ buf \in Seq(X)
      BY <1>12, <2>3 DEF X
    <3>2. rest \in Seq(X) /\ z \in Seq(X)
      BY <1>8, <2>2
    <3> HIDE DEF rest
    <3>3. EndsIn(buf, b + Len(z), rest) /\ \A k \in 1 .. Len(z) : buf[b + k - 1] = z[k]
      BY <3>1, <3>2, EndsInRest
    <3> QED
      BY <3>3 DEF rest
  <2>5. EndsIn(buf, b + 1, D(n + 1))
    BY <2>2, <2>4
  <2>6. buf[b] = NUL
    <3>1. buf[b + 1 - 1] = z[1]
      BY <2>2, <2>4
    <3>2. b + 1 - 1 = b
      BY <1>12 DEF PLACE
    <3> QED
      BY <2>2, <3>1, <3>2
  <2>7. Len(buf) = (b + 1) - 1 + Len(D(n + 1))
    BY <2>5 DEF EndsIn
  <2>8. b <= Len(buf)
    BY <1>8, <1>12, <2>7 DEF PLACE
  <2>9. Byte(buf, b) = NUL
    BY <2>6, Zenon DEF Byte
  <2>10. b <= Len(buf) + 1
    BY <1>12, <2>8 DEF PLACE
  <2>11. Holds(buf, a, m)
    BY <1>4, <1>10, <1>11, <1>12, <2>9, <2>10 DEF Holds
  <2>12. n <= Len(s) /\ (n + 1) - 1 = n
    BY <1>7, <1>14 DEF PLACE
  <2>13. s[n] = AMP
    BY <1>1, <2>12 DEF IsPiece, n
  <2>14. StartsAt(s, n + 1)
    BY <2>12, <2>13 DEF StartsAt
  <2> QED
    BY <1>1, <1>2, <1>3, <1>14, <2>5, <2>6, <2>8, <2>11, <2>14 DEF b, n, m, t, D
<1> QED
  BY <1>13, <1>14

(* Where a name is found from a on, and that it is the right place.        *)
Found(buf, a, name) == {q \in a .. Len(buf) : (q = a \/ buf[q - 1] = NUL) /\ NameAt(buf, q, name)}

Right(buf, a, name, values) ==
  IF values = << >> THEN Found(buf, a, name) = {}
  ELSE /\ Found(buf, a, name) # {}
       /\ StringAt(buf, First(Found(buf, a, name)) + Len(name) + 1) = values[1]

LEMMA NoEndWithin ==
  ASSUME NEW buf, NEW a, NEW m, Len(m) \in Nat, Holds(buf, a, m), NEW q \in Nat, q > a, q <= a + Len(m)
  PROVE  buf[q - 1] # NUL
<1>1. a \in Nat /\ \A k \in 1 .. Len(m) : buf[a + k - 1] = m[k] /\ m[k] # NUL
  BY DEF Holds, PLACE
<1>2. q - a \in 1 .. Len(m) /\ a + (q - a) - 1 = q - 1
  BY <1>1
<1> QED
  BY <1>1, <1>2

(* What is known of a name and a piece.                                    *)
LEMMA ParamInBuffer ==
  ASSUME NEW C, NUL \notin C, NEW name \in Seq(C), \A i \in 1 .. Len(name) : name[i] # EQUALS,
         NEW t \in Seq(SIGN(C)), SanePiece(t),
         NEW buf \in Seq(Chars(C)), NEW a, Holds(buf, a, Meant(t))
  PROVE  /\ NameAt(buf, a, name) <=> IsParam(t, name)
         /\ IsParam(t, name) => /\ Len(name) < Len(t)
                                /\ StringAt(buf, a + Len(name) + 1) = ParamValue(t)
<1> DEFINE X == Chars(C)
           m == Meant(t)
           l == Len(name)
<1>1. m \in Seq(X) /\ Len(m) = Len(t)
  BY MeantIs
<1>2. name \in Seq(X) /\ \A i \in 1 .. l : name[i] # NUL
  <2>1. \A c \in C : c \in X /\ c # NUL
    BY CharsHas
  <2> HIDE DEF X
  <2> QED
    BY <2>1
<1>3. /\ IsParam(t, name) <=> SaysName(m, name)
      /\ IsParam(t, name) => ParamValue(t) = SubSeq(m, l + 2, Len(t))
  BY ParamIs
<1> HIDE DEF X, m
<1>4. NameAt(buf, a, name) <=> SaysName(m, name)
  BY <1>1, <1>2, NameWhereItHolds DEF X, m
<1>5. ASSUME IsParam(t, name)
      PROVE  l < Len(t) /\ StringAt(buf, a + l + 1) = ParamValue(t)
  <2>1. l < Len(m)
    BY <1>3, <1>5 DEF SaysName
  <2>2. l + 2 \in 1 .. Len(m) + 1
    BY <2>1
  <2>3. a \in Nat
    BY DEF Holds, PLACE
  <2>4. StringAt(buf, a + (l + 2) - 1) = SubSeq(m, l + 2, Len(m))
    BY <1>1, <2>2, StringWhereItHolds DEF X, m
  <2>5. a + (l + 2) - 1 = a + l + 1
    BY <2>3
  <2> QED
    BY <1>1, <1>3, <1>5, <2>1, <2>4, <2>5
<1> QED
  BY <1>3, <1>4, <1>5

LEMMA FindsTheFirst ==
  ASSUME NEW C, NUL \notin C, NEW s \in Seq(C), Sane(s),
         NEW name \in Seq(C), \A i \in 1 .. Len(name) : name[i] # EQUALS,
         NEW buf \in Seq(Chars(C))
  PROVE  \A p \in 1 .. Len(s) + 1 :
           StartsAt(s, p) =>
             \A a \in PLACE : EndsIn(buf, a, DecodedFrom(s)[p])
                                => Right(buf, a, name, ValuesFrom(s, name)[p])
<1> DEFINE V(p) == ValuesFrom(s, name)[p]
           D(p) == DecodedFrom(s)[p]
           l == Len(name)
           Tells(p) == StartsAt(s, p) =>
                         \A a \in PLACE : EndsIn(buf, a, D(p)) => Right(buf, a, name, V(p))
           G == {p \in 1 .. Len(s) + 1 : Tells(p)}
<1>1. ASSUME NEW p \in 1 .. Len(s) + 1, \A j \in 1 .. Len(s) + 1 : j > p => j \in G
      PROVE  Tells(p)
  <2> SUFFICES ASSUME StartsAt(s, p), NEW a \in PLACE, EndsIn(buf, a, D(p))
               PROVE  Right(buf, a, name, V(p))
    OBVIOUS
  <2>1. p \in PLACE /\ a \in Nat /\ a >= 1 /\ Len(buf) \in Nat
    BY DEF PLACE
  <2>2. CASE p > Len(s)
    <3>1. V(p) = << >> /\ D(p) = << >>
      BY <2>1, <2>2, ValuesFromEquation, DecodedFromEquation
    <3>2. Len(buf) = a - 1
      BY <2>1, <3>1 DEF EndsIn
    <3>3. Found(buf, a, name) = {}
      BY <2>1, <3>2 DEF Found
    <3> QED
      BY <3>1, <3>3 DEF Right
  <2>3. CASE ~ (p > Len(s))
    <3> DEFINE w == PieceFrom(s, p)
               t == Signs(w)
               n == Len(t)
               m == Meant(t)
               j == p + Len(w) + 1
               b == a + n + 1
    <3>1. p \in 1 .. Len(s)
      BY <2>3
    <3>2. /\ w \in Seq(C) /\ t \in Seq(SIGN(C)) /\ SanePiece(t)
          /\ Holds(buf, a, m)
          /\ p + Len(w) > Len(s) => a + n = Len(buf) + 1
          /\ p + Len(w) <= Len(s) =>
               /\ StartsAt(s, j)
               /\ buf[a + n] = NUL
               /\ a + n <= Len(buf)
               /\ EndsIn(buf, b, D(j))
      BY <3>1, PieceInBuffer
    <3>3. V(p) = ValueIn(t, name) \o V(j)
      BY <2>1, <2>3, ValuesFromEquation
    <3>4. Len(w) \in Nat /\ n \in Nat /\ j \in PLACE /\ j > p /\ b \in PLACE
      BY <2>1, <3>2 DEF PLACE
    <3>5. PICK X : V(j) \in Seq(X)
      BY <3>4, ValuesFromEquation, Zenon
    <3>6. /\ NameAt(buf, a, name) <=> IsParam(t, name)
          /\ IsParam(t, name) => l < n /\ StringAt(buf, a + l + 1) = ParamValue(t)
      BY <3>2, ParamInBuffer
    <3>7. Len(m) = n
      BY <3>2, MeantIs
    <3>8. \A q \in Nat : q > a /\ q <= a + n => buf[q - 1] # NUL
      <4> HIDE DEF n, m
      <4> QED
        BY <3>2, <3>4, <3>7, NoEndWithin
    <3> HIDE DEF V, D, w, t, m, n, j
    <3>9. CASE IsParam(t, name)
      <4>1. ValueIn(t, name) = << ParamValue(t) >>
        BY <3>9 DEF ValueIn
      <4>2. V(p) # << >> /\ V(p)[1] = ParamValue(t)
        <5> DEFINE v == ParamValue(t)
                   r == V(j)
        <5> HIDE DEF v, r
        <5>1. r \in Seq(X) /\ V(p) = << v >> \o r
          BY <3>3, <3>5, <4>1 DEF v, r
        <5>2. << v >> \o r # << >> /\ (<< v >> \o r)[1] = v
          BY <5>1
        <5> QED
          BY <5>1, <5>2 DEF v
      <4>3. a <= Len(buf)
        <5>1. a + n <= Len(buf) + 1
          BY <3>2, <3>7 DEF Holds
        <5> QED
          BY <2>1, <3>4, <3>6, <3>9, <5>1
      <4> DEFINE F == Found(buf, a, name)
      <4>4. a \in F /\ \A q \in F : q \in Nat /\ a <= q
        BY <2>1, <3>6, <3>9, <4>3 DEF Found
      <4> HIDE DEF F
      <4>5. First(F) = a
        BY <4>4, FirstAt
      <4>6. F # {}
        BY <4>4
      <4> QED
        BY <3>6, <3>9, <4>2, <4>5, <4>6 DEF Right, F
    <3>10. CASE ~ IsParam(t, name)
      <4>1. V(p) = V(j)
        <5>1. ValueIn(t, name) = << >>
          BY <3>10 DEF ValueIn
        <5> DEFINE r == V(j)
        <5> HIDE DEF r
        <5>2. r \in Seq(X) /\ V(p) = << >> \o r
          BY <3>3, <3>5, <5>1 DEF r
        <5> QED
          BY <5>2 DEF r
      <4>2. CASE p + Len(w) > Len(s)
        <5>1. j > Len(s)
          BY <2>1, <3>4, <4>2 DEF j
        <5>2. V(j) = << >>
          BY <3>4, <5>1, ValuesFromEquation DEF V
        <5>3. ASSUME NEW q \in Found(buf, a, name) PROVE FALSE
          <6>1. q \in a .. Len(buf) /\ (q = a \/ buf[q - 1] = NUL) /\ NameAt(buf, q, name)
            BY DEF Found
          <6>2. q # a
            BY <3>6, <3>10, <6>1
          <6>3. q \in Nat /\ q > a /\ q <= a + n
            BY <2>1, <3>2, <3>4, <4>2, <6>1, <6>2
          <6> QED
            BY <3>8, <6>1, <6>2, <6>3
        <5> QED
          BY <4>1, <5>2, <5>3 DEF Right
      <4>3. CASE ~ (p + Len(w) > Len(s))
        <5>1. p + Len(w) <= Len(s) /\ j \in 1 .. Len(s) + 1
          BY <2>1, <3>4, <4>3 DEF j, PLACE
        <5>2. j \in G
          BY <1>1, <3>4, <5>1
        <5>3. Tells(j)
          <6> HIDE DEF Tells
          <6> QED
            BY <5>2 DEF G
        <5>4. Right(buf, b, name, V(j))
          BY <3>2, <3>4, <5>1, <5>3 DEF V, D
        <5>5. b \in Nat /\ b = a + n + 1 /\ b - 1 = a + n
          BY <2>1, <3>4
        <5> HIDE DEF b
        <5>6. ASSUME NEW q \in Found(buf, a, name) PROVE q \in Found(buf, b, name)
          <6>1. q \in a .. Len(buf) /\ (q = a \/ buf[q - 1] = NUL) /\ NameAt(buf, q, name)
            BY DEF Found
          <6>2. q # a
            BY <3>6, <3>10, <6>1
          <6>3. ~ (q > a /\ q <= a + n)
            BY <2>1, <3>8, <6>1, <6>2
          <6>4. q \in b .. Len(buf)
            BY <2>1, <3>4, <5>5, <6>1, <6>2, <6>3
          <6> QED
            BY <6>1, <6>2, <6>4 DEF Found
        <5>7. ASSUME NEW q \in Found(buf, b, name) PROVE q \in Found(buf, a, name)
          <6>1. q \in b .. Len(buf) /\ (q = b \/ buf[q - 1] = NUL) /\ NameAt(buf, q, name)
            BY DEF Found
          <6>2. buf[b - 1] = NUL
            BY <3>2, <5>1, <5>5
          <6>3. q \in a .. Len(buf)
            BY <2>1, <3>4, <5>5, <6>1
          <6> QED
            BY <6>1, <6>2, <6>3 DEF Found
        <5>8. Found(buf, a, name) = Found(buf, b, name)
          BY <5>6, <5>7
        <5> QED
          BY <4>1, <5>4, <5>8 DEF Right
      <4> QED
        BY <4>2, <4>3
    <3> QED
      BY <3>9, <3>10
  <2> QED
    BY <2>2, <2>3
<1>2. \A p \in 1 .. Len(s) + 1 : (\A j \in 1 .. Len(s) + 1 : j > p => j \in G) => p \in G
  <2> HIDE DEF Tells
  <2> QED
    BY <1>1
<1> HIDE DEF G
<1>3. \A p \in 1 .. Len(s) + 1 : p \in G
  <2> DEFINE L == Len(s) + 1
  <2>1. L \in Nat
    OBVIOUS
  <2> HIDE DEF L
  <2> QED
    BY <1>2, <2>1, BackwardsTo DEF L
<1>4. \A p \in 1 .. Len(s) + 1 : Tells(p)
  <2> HIDE DEF Tells
  <2> QED
    BY <1>3 DEF G
<1> QED
  BY <1>4

(* The loops over get_param_array.                                         *)

(* Nothing is passed over where the name does not stand. *)
LEMMA ArraySkips ==
  ASSUME NEW X, NEW buf \in Seq(X), NEW name \in Seq(X), NEW x \in PLACE, NEW y \in PLACE, x <= y,
         \A q \in x .. y - 1 : ~ NameAt(buf, q, name)
  PROVE  ArrayFrom(buf, name, Len(buf))[x] = ArrayFrom(buf, name, Len(buf))[y]
<1> DEFINE L == Len(buf)
           Fx == {q \in x .. x + L - 1 : NameAt(buf, q, name)}
           Fy == {q \in y .. y + L - 1 : NameAt(buf, q, name)}
<1>1. x \in Nat /\ x >= 1 /\ y \in Nat /\ y >= 1 /\ L \in Nat
  BY DEF PLACE
<1>2. ASSUME NEW q \in Nat, q >= 1, NameAt(buf, q, name) PROVE q <= L
  <2>1. q \in PLACE
    BY <1>2 DEF PLACE
  <2>2. q + Len(name) <= L /\ Len(name) \in Nat
    BY <1>2, <2>1, NameAtIs
  <2> QED
    BY <1>1, <2>2
<1>3. ASSUME NEW q PROVE q \in Fx <=> q \in Fy
  <2>1. ASSUME q \in Fx PROVE q \in Fy
    <3>1. q \in Nat /\ q >= x /\ NameAt(buf, q, name)
      BY <1>1, <2>1
    <3>2. q <= L
      BY <1>1, <1>2, <3>1
    <3>3. ~ (q \in x .. y - 1)
      BY <3>1
    <3>4. q \in y .. y + L - 1
      BY <1>1, <3>1, <3>2, <3>3
    <3> QED
      BY <3>1, <3>4
  <2>2. ASSUME q \in Fy PROVE q \in Fx
    <3>1. q \in Nat /\ q >= y /\ NameAt(buf, q, name)
      BY <1>1, <2>2
    <3>2. q <= L
      BY <1>1, <1>2, <3>1
    <3>3. q \in x .. x + L - 1
      BY <1>1, <3>1, <3>2
    <3> QED
      BY <3>1, <3>3
  <2> QED
    BY <2>1, <2>2
<1>4. Fx = Fy
  BY <1>3
<1>5. get_param_array(buf, x, name, L) = get_param_array(buf, y, name, L)
  BY <1>4, Zenon DEF get_param_array
<1> HIDE DEF Fx, Fy, L
<1> DEFINE g == get_param_array(buf, x, name, L)
           A(i) == ArrayFrom(buf, name, Len(buf))[i]
           h == get_param_array(buf, y, name, L)
<1>6. A(x) = IF g = 0 THEN << >> ELSE << g >> \o A(g)
  BY ArrayFromEquation DEF L
<1>7. A(y) = IF h = 0 THEN << >> ELSE << h >> \o A(h)
  BY ArrayFromEquation DEF L
<1>8. g = h
  BY <1>5
<1> HIDE DEF g, h, A
<1>9. A(x) = A(y)
  <2>1. CASE g = 0
    BY <1>6, <1>7, <1>8, <2>1
  <2>2. CASE g # 0
    BY <1>6, <1>7, <1>8, <2>2
  <2> QED
    BY <2>1, <2>2
<1> QED
  BY <1>9 DEF A

LEMMA ArrayEnds ==
  ASSUME NEW X, NEW buf \in Seq(X), NEW name \in Seq(X), NEW x \in PLACE, x > Len(buf)
  PROVE  ArrayFrom(buf, name, Len(buf))[x] = << >>
<1> DEFINE g == get_param_array(buf, x, name, Len(buf))
           F == {q \in x .. x + Len(buf) - 1 : NameAt(buf, q, name)}
<1>1. g = 0
  <2>1. \A q \in F : q \in PLACE /\ q >= x /\ NameAt(buf, q, name)
    BY DEF PLACE
  <2>2. \A q \in F : q + Len(name) <= Len(buf)
    BY <2>1, NameAtIs
  <2>3. F = {}
    <3> SUFFICES ASSUME NEW q \in F PROVE FALSE
      OBVIOUS
    <3>1. q \in Nat /\ q >= x /\ q + Len(name) <= Len(buf) /\ Len(name) \in Nat /\ x \in Nat
      BY <2>1, <2>2 DEF PLACE
    <3> QED
      BY <3>1
  <2> QED
    BY <2>3, Zenon DEF get_param_array
<1> HIDE DEF g
<1>2. ArrayFrom(buf, name, Len(buf))[x] =
        IF g = 0 THEN << >> ELSE << g >> \o ArrayFrom(buf, name, Len(buf))[g]
  BY ArrayFromEquation DEF g
<1> QED
  BY <1>1, <1>2

(* The strings at the places found. *)
Texts(buf, found) == [k \in DOMAIN found |-> StringAt(buf, found[k])]

LEMMA TextsOfMore ==
  ASSUME NEW buf, NEW Y, NEW g \in Y, NEW r \in Seq(Y), NEW X, Texts(buf, r) \in Seq(X)
  PROVE  Texts(buf, << g >> \o r) = << StringAt(buf, g) >> \o Texts(buf, r)
<1> DEFINE v == Texts(buf, r)
           u == << g >> \o r
           T == [k \in 1 .. Len(u) |-> StringAt(buf, u[k])]
           x == StringAt(buf, g)
           Z == X \cup {x} \cup {StringAt(buf, u[k]) : k \in 1 .. Len(u)}
           c == << x >> \o v
<1>0. v \in Seq(X) /\ Texts(buf, r) = v
  OBVIOUS
<1> HIDE DEF v
<1>1. /\ u \in Seq(Y) /\ DOMAIN u = 1 .. Len(u) /\ Len(u) = 1 + Len(r) /\ u[1] = g
      /\ \A k \in 1 .. Len(r) : u[1 + k] = r[k]
      /\ Len(r) \in Nat
  OBVIOUS
<1>2. Texts(buf, u) = T
  BY <1>1, Zenon DEF Texts
<1>3. \A k \in 1 .. Len(r) : v[k] = StringAt(buf, r[k])
  <2>1. DOMAIN r = 1 .. Len(r)
    OBVIOUS
  <2> QED
    BY <1>0, <2>1 DEF Texts
<1>4. Len(v) = Len(r)
  <2>1. DOMAIN v = DOMAIN r
    BY <1>0 DEF Texts
  <2>2. DOMAIN v = 1 .. Len(v) /\ DOMAIN r = 1 .. Len(r) /\ Len(v) \in Nat /\ Len(r) \in Nat
    BY <1>0
  <2>3. \A a, b \in Nat : 1 .. a = 1 .. b => ~ (a < b)
    <3> SUFFICES ASSUME NEW a \in Nat, NEW b \in Nat, 1 .. a = 1 .. b, a < b PROVE FALSE
      OBVIOUS
    <3>1. b \in 1 .. b /\ ~ (b \in 1 .. a)
      OBVIOUS
    <3> QED
      BY <3>1, Zenon
  <2>4. ~ (Len(v) < Len(r)) /\ ~ (Len(r) < Len(v))
    BY <2>1, <2>2, <2>3
  <2> DEFINE i == Len(v)
             k == Len(r)
  <2>5. i \in Nat /\ k \in Nat /\ ~ (i < k) /\ ~ (k < i)
    BY <2>2, <2>4
  <2> HIDE DEF i, k
  <2>6. i = k
    BY <2>5
  <2> QED
    BY <2>6 DEF i, k
<1>5. x \in Z /\ v \in Seq(Z)
  <2>1. \A y \in X : y \in Z
    OBVIOUS
  <2> HIDE DEF Z
  <2>2. v \in Seq(Z)
    BY <1>0, <2>1
  <2> QED
    BY <2>2 DEF Z
<1>6. \A k \in 1 .. Len(u) : StringAt(buf, u[k]) \in Z
  OBVIOUS
<1> HIDE DEF u, x, Z
<1>7. T \in Seq(Z) /\ Len(T) = Len(u) /\ \A k \in 1 .. Len(u) : T[k] = StringAt(buf, u[k])
  BY <1>1, <1>6
<1>8. c \in Seq(Z) /\ Len(c) = 1 + Len(v) /\ c[1] = x /\ \A k \in 1 .. Len(v) : c[1 + k] = v[k]
  BY <1>5
<1> HIDE DEF T, c
<1>9. ASSUME NEW k \in 1 .. Len(T) PROVE T[k] = c[k]
  <2>1. CASE k = 1
    BY <1>1, <1>7, <1>8, <2>1 DEF x
  <2>2. CASE k # 1
    <3>1. k - 1 \in 1 .. Len(r) /\ 1 + (k - 1) = k /\ k \in 1 .. Len(u)
      BY <1>1, <1>7, <2>2
    <3>2. u[k] = r[k - 1] /\ c[k] = v[k - 1] /\ T[k] = StringAt(buf, u[k])
      BY <1>1, <1>4, <1>7, <1>8, <3>1
    <3> QED
      BY <1>3, <3>1, <3>2
  <2> QED
    BY <2>1, <2>2
<1>10. T = c
  BY <1>1, <1>4, <1>7, <1>8, <1>9, SameSequence
<1> QED
  BY <1>0, <1>2, <1>10 DEF u, c, x

LEMMA CollectsAll ==
  ASSUME NEW C, NUL \notin C, NEW s \in Seq(C), Sane(s),
         NEW name \in Seq(C), \A i \in 1 .. Len(name) : name[i] # EQUALS,
         NEW buf \in Seq(Chars(C)),
         \A q \in 1 .. Len(buf) : NameAt(buf, q, name) => q = 1 \/ buf[q - 1] = NUL
  PROVE  \A p \in 1 .. Len(s) + 1 :
           StartsAt(s, p) =>
             \A a \in PLACE : EndsIn(buf, a, DecodedFrom(s)[p])
                => Texts(buf, ArrayFrom(buf, name, Len(buf))[a]) = ValuesFrom(s, name)[p]
<1> DEFINE X == Chars(C)
           V(p) == ValuesFrom(s, name)[p]
           D(p) == DecodedFrom(s)[p]
           A(x) == ArrayFrom(buf, name, Len(buf))[x]
           l == Len(name)
           Tells(p) == StartsAt(s, p) =>
                         \A a \in PLACE : EndsIn(buf, a, D(p)) => Texts(buf, A(a)) = V(p)
           G == {p \in 1 .. Len(s) + 1 : Tells(p)}
<1>1. name \in Seq(X)
  <2>1. \A c \in C : c \in X
    BY CharsHas
  <2> HIDE DEF X
  <2> QED
    BY <2>1
<1>2. Texts(buf, << >>) = << >>
  BY DEF Texts
<1>3. \A x \in PLACE : x > Len(buf) => A(x) = << >>
  BY <1>1, ArrayEnds
<1>4. \A q \in PLACE : NameAt(buf, q, name) => q <= Len(buf)
  <2> TAKE q \in PLACE
  <2>1. NameAt(buf, q, name) => q + l <= Len(buf)
    BY <1>1, NameAtIs
  <2> QED
    BY <2>1 DEF PLACE
<1>5. ASSUME NEW p \in 1 .. Len(s) + 1, \A j \in 1 .. Len(s) + 1 : j > p => j \in G
      PROVE  Tells(p)
  <2> SUFFICES ASSUME StartsAt(s, p), NEW a \in PLACE, EndsIn(buf, a, D(p))
               PROVE  Texts(buf, A(a)) = V(p)
    OBVIOUS
  <2>1. p \in PLACE /\ a \in Nat /\ a >= 1 /\ Len(buf) \in Nat /\ l \in Nat
    BY DEF PLACE
  <2>2. CASE p > Len(s)
    <3>1. V(p) = << >> /\ D(p) = << >>
      BY <2>1, <2>2, ValuesFromEquation, DecodedFromEquation
    <3>2. a > Len(buf)
      BY <2>1, <3>1 DEF EndsIn
    <3> QED
      BY <1>2, <1>3, <3>1, <3>2
  <2>3. CASE ~ (p > Len(s))
    <3> DEFINE w == PieceFrom(s, p)
               t == Signs(w)
               n == Len(t)
               m == Meant(t)
               j == p + Len(w) + 1
               b == a + n + 1
    <3>1. p \in 1 .. Len(s)
      BY <2>3
    <3>2. /\ w \in Seq(C) /\ t \in Seq(SIGN(C)) /\ SanePiece(t)
          /\ Holds(buf, a, m)
          /\ p + Len(w) > Len(s) => a + n = Len(buf) + 1
          /\ p + Len(w) <= Len(s) =>
               /\ StartsAt(s, j)
               /\ buf[a + n] = NUL
               /\ a + n <= Len(buf)
               /\ EndsIn(buf, b, D(j))
      BY <3>1, PieceInBuffer
    <3>3. V(p) = ValueIn(t, name) \o V(j)
      BY <2>1, <2>3, ValuesFromEquation
    <3>4. Len(w) \in Nat /\ n \in Nat /\ j \in PLACE /\ j > p /\ b \in PLACE
      BY <2>1, <3>2 DEF PLACE
    <3>5. PICK Y : V(j) \in Seq(Y)
      BY <3>4, ValuesFromEquation, Zenon
    <3>6. /\ NameAt(buf, a, name) <=> IsParam(t, name)
          /\ IsParam(t, name) => l < n /\ StringAt(buf, a + l + 1) = ParamValue(t)
      BY <3>2, ParamInBuffer
    <3>7. Len(m) = n
      BY <3>2, MeantIs
    <3>8. \A q \in Nat : q > a /\ q <= a + n => ~ NameAt(buf, q, name)
      <4> SUFFICES ASSUME NEW q \in Nat, q > a, q <= a + n, NameAt(buf, q, name) PROVE FALSE
        OBVIOUS
      <4> HIDE DEF n, m
      <4>1. buf[q - 1] # NUL
        BY <3>2, <3>4, <3>7, NoEndWithin
      <4>2. q \in PLACE /\ q # 1
        BY <2>1 DEF PLACE
      <4>3. q \in 1 .. Len(buf)
        BY <1>4, <2>1, <4>2
      <4> QED
        BY <4>1, <4>2, <4>3
    <3> HIDE DEF V, D, A, w, t, m, n, j
    <3>9. Texts(buf, A(b)) = V(j)
      <4>1. CASE p + Len(w) > Len(s)
        <5>1. j > Len(s) /\ b > Len(buf)
          BY <2>1, <3>2, <3>4, <4>1 DEF j
        <5>2. V(j) = << >>
          BY <3>4, <5>1, ValuesFromEquation DEF V
        <5> QED
          BY <1>2, <1>3, <3>4, <5>1, <5>2 DEF A
      <4>2. CASE ~ (p + Len(w) > Len(s))
        <5>1. p + Len(w) <= Len(s) /\ j \in 1 .. Len(s) + 1
          BY <2>1, <3>4, <4>2 DEF j, PLACE
        <5>2. j \in G
          BY <1>5, <3>4, <5>1
        <5>3. Tells(j)
          <6> HIDE DEF Tells
          <6> QED
            BY <5>2 DEF G
        <5> QED
          BY <3>2, <3>4, <5>1, <5>3 DEF V, D, A
      <4> QED
        BY <4>1, <4>2
    <3>10. b \in Nat /\ b = a + n + 1 /\ b >= a
      BY <2>1, <3>4
    <3> HIDE DEF b
    <3>11. CASE IsParam(t, name)
      <4> DEFINE g == a + l + 1
                 F == {q \in a .. a + Len(buf) - 1 : NameAt(buf, q, name)}
      <4>1. l < n /\ StringAt(buf, g) = ParamValue(t) /\ NameAt(buf, a, name)
        BY <3>6, <3>11
      <4>2. a \in F /\ \A q \in F : q \in Nat /\ a <= q
        <5>1. a <= Len(buf)
          BY <1>4, <4>1
        <5> QED
          BY <2>1, <4>1, <5>1
      <4> HIDE DEF F
      <4>3. First(F) = a /\ F # {}
        BY <4>2, FirstAt
      <4>4. get_param_array(buf, a, name, Len(buf)) = g /\ g \in PLACE
        <5>1. get_param_array(buf, a, name, Len(buf)) = First(F) + Len(name) + 1
          BY <4>3, Zenon DEF F, get_param_array
        <5> QED
          BY <2>1, <4>3, <5>1 DEF PLACE
      <4>5. g # 0 /\ g <= b /\ g \in Nat
        BY <2>1, <3>4, <3>10, <4>1
      <4> HIDE DEF g
      <4>6. A(a) = << g >> \o A(g)
        <5> DEFINE h == get_param_array(buf, a, name, Len(buf))
        <5>1. A(a) = IF h = 0 THEN << >> ELSE << h >> \o A(h)
          BY <1>1, <2>1, ArrayFromEquation DEF A
        <5> HIDE DEF h
        <5>2. h = g /\ h # 0
          BY <4>4, <4>5 DEF h
        <5> QED
          BY <5>1, <5>2
      <4>7. A(g) = A(b)
        <5>1. \A q \in g .. b - 1 : ~ NameAt(buf, q, name)
          <6> TAKE q \in g .. b - 1
          <6>1. q \in Nat /\ q > a /\ q <= a + n
            BY <2>1, <3>4, <3>10, <4>5 DEF g
          <6> QED
            BY <3>8, <6>1
        <5> QED
          BY <1>1, <3>4, <4>4, <4>5, <5>1, ArraySkips DEF A
      <4>8. ValueIn(t, name) = << ParamValue(t) >>
        BY <3>11, Zenon DEF ValueIn
      <4> DEFINE r == A(b)
                 v == V(j)
                 x == StringAt(buf, g)
                 Z == 1 .. Len(buf) + 1
      <4>9. r \in Seq(Z)
        BY <1>1, <2>1, <3>4, ArrayFromEquation DEF A
      <4>10. g \in Z
        <5>1. a + l <= Len(buf)
          BY <1>1, <4>1, NameAtIs
        <5> QED
          BY <2>1, <5>1 DEF g
      <4> HIDE DEF r, v, Z, x
      <4>11. Texts(buf, r) = v /\ v \in Seq(Y)
        BY <3>5, <3>9 DEF r, v
      <4>12. Texts(buf, << g >> \o r) = << x >> \o v
        <5>1. Texts(buf, r) \in Seq(Y)
          BY <4>11
        <5>2. Texts(buf, << g >> \o r) = << x >> \o Texts(buf, r)
          BY <4>9, <4>10, <5>1, TextsOfMore DEF x
        <5> QED
          BY <4>11, <5>2
      <4>13. A(a) = << g >> \o r
        BY <4>6, <4>7, Zenon DEF r
      <4>14. x = ParamValue(t)
        BY <4>1 DEF x, g
      <4>15. V(p) = << x >> \o v
        BY <3>3, <4>8, <4>14, Zenon DEF v
      <4> QED
        BY <4>12, <4>13, <4>15, Zenon
    <3>12. CASE ~ IsParam(t, name)
      <4>1. V(p) = V(j)
        <5>1. ValueIn(t, name) = << >>
          BY <3>12, Zenon DEF ValueIn
        <5> DEFINE r == V(j)
        <5> HIDE DEF r
        <5>2. r \in Seq(Y) /\ V(p) = << >> \o r
          BY <3>3, <3>5, <5>1 DEF r
        <5> QED
          BY <5>2 DEF r
      <4>2. A(a) = A(b)
        <5>1. \A q \in a .. b - 1 : ~ NameAt(buf, q, name)
          <6> TAKE q \in a .. b - 1
          <6>1. q = a \/ (q \in Nat /\ q > a /\ q <= a + n)
            BY <2>1, <3>4, <3>10
          <6> QED
            BY <3>6, <3>8, <3>12, <6>1
        <5> QED
          BY <1>1, <3>4, <3>10, <5>1, ArraySkips DEF A
      <4> QED
        BY <3>9, <4>1, <4>2
    <3> QED
      BY <3>11, <3>12 DEF A, V
  <2> QED
    BY <2>2, <2>3
<1>6. \A p \in 1 .. Len(s) + 1 : (\A j \in 1 .. Len(s) + 1 : j > p => j \in G) => p \in G
  <2> HIDE DEF Tells
  <2> QED
    BY <1>5
<1> HIDE DEF G
<1>7. \A p \in 1 .. Len(s) + 1 : p \in G
  <2> DEFINE L == Len(s) + 1
  <2>1. L \in Nat
    OBVIOUS
  <2> HIDE DEF L
  <2> QED
    BY <1>6, <2>1, BackwardsTo DEF L
<1>8. \A p \in 1 .. Len(s) + 1 : Tells(p)
  <2> HIDE DEF Tells
  <2> QED
    BY <1>7 DEF G
<1> QED
  BY <1>8

(* Whatever the length given, the loop only goes forward.                  *)
LEMMA ArrayGoesOn ==
  ASSUME NEW X, NEW buf \in Seq(X), NEW name \in Seq(X), NEW len \in Nat
  PROVE  \A x \in 1 .. Len(buf) + 1 :
           ArrayFrom(buf, name, len)[x] \in Seq(x + 1 .. Len(buf) + 1)
<1> DEFINE N == Len(buf)
           A(x) == ArrayFrom(buf, name, len)[x]
           P == {x \in 1 .. N + 1 : A(x) \in Seq(x + 1 .. N + 1)}
<1>1. N \in Nat /\ N + 1 \in Nat
  OBVIOUS
<1>2. ASSUME NEW x \in 1 .. N + 1, \A y \in 1 .. N + 1 : y > x => y \in P
      PROVE  x \in P
  <2> DEFINE g == get_param_array(buf, x, name, len)
             F == {p \in x .. x + len - 1 : NameAt(buf, p, name)}
  <2>1. x \in PLACE
    BY DEF PLACE
  <2>2. F = {} \/ (g \in PLACE /\ g > x /\ g <= N + 1)
    BY <2>1, ArrayFinds
  <2>3. F = {} => g = 0
    BY Zenon DEF get_param_array
  <2>4. A(x) = IF g = 0 THEN << >> ELSE << g >> \o A(g)
    BY <2>1, ArrayFromEquation
  <2> HIDE DEF g, F, A
  <2>5. CASE F = {}
    <3>1. A(x) = << >>
      BY <2>3, <2>4, <2>5
    <3> QED
      BY <3>1
  <2>6. CASE F # {}
    <3>1. g \in Nat /\ g > x /\ g <= N + 1
      BY <2>2, <2>6 DEF PLACE
    <3>2. g \in 1 .. N + 1 /\ g # 0
      BY <1>1, <3>1
    <3>3. A(g) \in Seq(g + 1 .. N + 1)
      BY <1>2, <3>1, <3>2
    <3> DEFINE Y == x + 1 .. N + 1
               Z == g + 1 .. N + 1
               r == A(g)
    <3>4. g \in Y /\ \A z \in Z : z \in Y
      BY <1>1, <3>1
    <3>5. r \in Seq(Z)
      BY <3>3
    <3> HIDE DEF Y, Z, r
    <3>6. r \in Seq(Y)
      BY <3>4, <3>5
    <3>7. << g >> \o r \in Seq(Y)
      BY <3>4, <3>6
    <3> QED
      BY <2>4, <3>2, <3>7 DEF Y, r
  <2> QED
    BY <2>5, <2>6
<1> HIDE DEF P
<1>3. \A x \in 1 .. N + 1 : x \in P
  <2> DEFINE L == N + 1
  <2>1. L \in Nat
    BY <1>1
  <2> HIDE DEF L, N
  <2> QED
    BY <1>2, <2>1, BackwardsTo DEF L
<1> QED
  BY <1>3 DEF P

(* A query in a longer buffer, which a 0 ends. *)
Ends(buf, dec) ==
  /\ Len(dec) < Len(buf)
  /\ \A q \in 1 .. Len(dec) : buf[q] = dec[q]
  /\ buf[Len(dec) + 1] = NUL

LEMMA SameByte ==
  ASSUME NEW X, NEW buf \in Seq(X), NEW dec \in Seq(X), Ends(buf, dec),
         NEW p \in PLACE, p <= Len(dec) + 1
  PROVE  Byte(buf, p) = Byte(dec, p) /\ (p = Len(dec) + 1 => Byte(buf, p) = NUL)
<1>1. p \in Nat /\ p >= 1 /\ Len(dec) \in Nat /\ Len(buf) \in Nat /\ Len(dec) < Len(buf)
  BY DEF PLACE, Ends
<1>2. CASE p = Len(dec) + 1
  BY <1>1, <1>2 DEF Byte, Ends
<1>3. CASE p # Len(dec) + 1
  BY <1>1, <1>3 DEF Byte, Ends
<1> QED
  BY <1>2, <1>3

(* The same names stand in it, and none over the 0. *)
LEMMA SameNames ==
  ASSUME NEW X, NEW buf \in Seq(X), NEW dec \in Seq(X), Ends(buf, dec),
         NEW name \in Seq(X), \A i \in 1 .. Len(name) : name[i] # NUL,
         NEW p \in PLACE, p <= Len(dec) + 1
  PROVE  /\ NameAt(buf, p, name) <=> NameAt(dec, p, name)
         /\ NameAt(buf, p, name) => p + Len(name) <= Len(dec)
<1> DEFINE l == Len(name)
           L == Len(dec)
<1>1. p \in Nat /\ p >= 1 /\ l \in Nat /\ L \in Nat
  BY DEF PLACE
<1>2. ASSUME NEW q \in Nat, q >= p, q <= L + 1
      PROVE  Byte(buf, q) = Byte(dec, q) /\ (q = L + 1 => Byte(buf, q) = NUL)
  <2>1. q \in PLACE
    BY <1>1, <1>2 DEF PLACE
  <2> QED
    BY <1>2, <2>1, SameByte
<1>3. /\ NameAt(buf, p, name) <=> /\ \A i \in 1 .. l : Byte(buf, p + i - 1) = name[i]
                                  /\ Byte(buf, p + l) = EQUALS
      /\ NameAt(dec, p, name) <=> /\ \A i \in 1 .. l : Byte(dec, p + i - 1) = name[i]
                                  /\ Byte(dec, p + l) = EQUALS
      /\ NameAt(dec, p, name) => p + l <= L
  BY NameAtIs
<1>4. ASSUME NameAt(buf, p, name), p + l > L PROVE FALSE
  <2>1. CASE p + l = L + 1
    <3>1. Byte(buf, p + l) = NUL
      BY <1>1, <1>2, <2>1
    <3> QED
      BY <1>3, <1>4, <3>1, SignsDiffer, Zenon
  <2>2. CASE p + l # L + 1
    <3> DEFINE i == L + 2 - p
    <3>1. i \in 1 .. l /\ p + i - 1 = L + 1
      BY <1>1, <1>4, <2>2
    <3> HIDE DEF i
    <3>2. Byte(buf, p + i - 1) = NUL
      BY <1>1, <1>2, <3>1
    <3>3. Byte(buf, p + i - 1) = name[i] /\ name[i] # NUL
      BY <1>3, <1>4, <3>1
    <3> QED
      BY <3>2, <3>3
  <2> QED
    BY <2>1, <2>2
<1>5. NameAt(buf, p, name) => p + l <= L
  BY <1>1, <1>4
<1>6. p + l <= L => (NameAt(buf, p, name) <=> NameAt(dec, p, name))
  <2> SUFFICES ASSUME p + l <= L PROVE NameAt(buf, p, name) <=> NameAt(dec, p, name)
    OBVIOUS
  <2>1. Byte(buf, p + l) = Byte(dec, p + l)
    BY <1>1, <1>2
  <2>2. \A i \in 1 .. l : Byte(buf, p + i - 1) = Byte(dec, p + i - 1)
    <3> TAKE i \in 1 .. l
    <3>1. p + i - 1 \in Nat /\ p + i - 1 >= p /\ p + i - 1 <= L + 1
      BY <1>1
    <3> QED
      BY <1>2, <3>1
  <2> HIDE DEF l, L
  <2> QED
    BY <1>3, <2>1, <2>2, Zenon
<1> QED
  BY <1>3, <1>5, <1>6

(* And the same strings begin in it. *)
LEMMA SameString ==
  ASSUME NEW X, NEW buf \in Seq(X), NEW dec \in Seq(X), Ends(buf, dec)
  PROVE  \A p \in 1 .. Len(dec) + 1 : StringAt(buf, p) = StringAt(dec, p)
<1> DEFINE L == Len(dec) + 1
           P == {p \in 1 .. L : StringAt(buf, p) = StringAt(dec, p)}
<1>1. L \in Nat
  OBVIOUS
<1>2. ASSUME NEW p \in 1 .. L, \A q \in 1 .. L : q > p => q \in P
      PROVE  p \in P
  <2>1. p \in PLACE
    BY DEF PLACE
  <2>2. Byte(buf, p) = Byte(dec, p) /\ (p = L => Byte(buf, p) = NUL)
    BY <2>1, SameByte
  <2>3. /\ StringAt(buf, p) = IF Byte(buf, p) = NUL THEN << >>
                              ELSE << Byte(buf, p) >> \o StringAt(buf, p + 1)
        /\ StringAt(dec, p) = IF Byte(dec, p) = NUL THEN << >>
                              ELSE << Byte(dec, p) >> \o StringAt(dec, p + 1)
    BY <2>1, StringsOfEquation, Zenon DEF StringAt
  <2>4. p # L => StringAt(buf, p + 1) = StringAt(dec, p + 1)
    <3>1. p # L => p + 1 \in 1 .. L /\ p + 1 > p
      BY <1>1
    <3>2. p # L => p + 1 \in P
      BY <1>2, <3>1
    <3> QED
      BY <3>2
  <2>5. StringAt(buf, p) = StringAt(dec, p)
    <3> HIDE DEF L
    <3> QED
      BY <2>2, <2>3, <2>4, Zenon
  <2> QED
    BY <2>5
<1> HIDE DEF P
<1>3. \A p \in 1 .. L : p \in P
  <2> HIDE DEF L
  <2> QED
    BY <1>1, <1>2, BackwardsTo
<1> QED
  BY <1>3 DEF P

(* What the loop finds in the longer buffer: what it finds in the query,   *)
(* and then only what stands behind the 0.                                 *)
FindsBehind(buf, dec, name, x) ==
  \E r \in Seq(Len(dec) + 3 .. Len(buf) + 1) :
    ArrayFrom(buf, name, Len(dec))[x] = ArrayFrom(dec, name, Len(dec))[x] \o r

LEMMA ArrayBehind ==
  ASSUME NEW X, NEW buf \in Seq(X), NEW dec \in Seq(X), Ends(buf, dec),
         NEW name \in Seq(X), \A i \in 1 .. Len(name) : name[i] # NUL
  PROVE  \A x \in 1 .. Len(dec) + 1 : FindsBehind(buf, dec, name, x)
<1> DEFINE L == Len(dec)
           N == Len(buf)
           M == Len(dec) + 1
           T == L + 3 .. N + 1
           B(x) == ArrayFrom(buf, name, L)[x]
           D(x) == ArrayFrom(dec, name, L)[x]
           P == {x \in 1 .. M : \E r \in Seq(T) : B(x) = D(x) \o r}
<1>1. L \in Nat /\ N \in Nat /\ L < N /\ M \in Nat /\ M = L + 1 /\ Len(name) \in Nat
  BY DEF Ends
<1>2. ASSUME NEW x \in 1 .. M, \A y \in 1 .. M : y > x => y \in P
      PROVE  x \in P
  <2> DEFINE g == get_param_array(buf, x, name, L)
             h == get_param_array(dec, x, name, L)
             F == {p \in x .. x + L - 1 : NameAt(buf, p, name)}
             H == {p \in x .. x + L - 1 : NameAt(dec, p, name)}
  <2>1. x \in PLACE /\ x \in Nat /\ x >= 1
    BY DEF PLACE
  <2>2. /\ F = {} => g = 0
        /\ F # {} => /\ g = First(F) + Len(name) + 1
                     /\ First(F) \in F
                     /\ \A p \in F : First(F) <= p
                     /\ g \in PLACE /\ g > x /\ g <= N + 1
    BY <1>1, <2>1, ArrayFinds
  <2>3. /\ H = {} => h = 0
        /\ H # {} => /\ h = First(H) + Len(name) + 1
                     /\ First(H) \in H
                     /\ \A p \in H : First(H) <= p
                     /\ h \in PLACE /\ h > x /\ h <= L + 1
    BY <1>1, <2>1, ArrayFinds
  <2>4. B(x) = IF g = 0 THEN << >> ELSE << g >> \o B(g)
    BY <1>1, <2>1, ArrayFromEquation
  <2>5. D(x) = IF h = 0 THEN << >> ELSE << h >> \o D(h)
    BY <1>1, <2>1, ArrayFromEquation
  <2>6. ASSUME NEW p \in Nat, p >= x, p <= M
        PROVE  /\ NameAt(buf, p, name) <=> NameAt(dec, p, name)
               /\ NameAt(buf, p, name) => p + Len(name) <= L
    <3>1. p \in PLACE
      BY <2>1, <2>6 DEF PLACE
    <3> QED
      BY <2>6, <3>1, SameNames
  <2>7. ASSUME NEW p \in H PROVE p \in F /\ p <= L
    <3>1. p \in PLACE /\ p \in Nat /\ p >= x /\ NameAt(dec, p, name)
      BY <2>1, <2>7 DEF PLACE
    <3>2. p + Len(name) <= L
      BY <3>1, NameAtIs
    <3>3. p <= L /\ p <= M
      BY <1>1, <3>1, <3>2
    <3> QED
      BY <2>6, <2>7, <3>1, <3>3
  <2>8. \A p \in F : p \in Nat /\ p >= x /\ p \in x .. x + L - 1 /\ NameAt(buf, p, name)
    BY <2>1
  <2>9. ASSUME NEW p \in F, p <= M PROVE p \in H
    BY <2>6, <2>8, <2>9
  <2> HIDE DEF g, h, F, H, B, D
  <2>10. CASE H # {}
    <3> DEFINE f == First(H)
    <3>1. f \in F /\ f <= L /\ f \in Nat
      BY <2>3, <2>7, <2>8, <2>10
    <3>2. ASSUME NEW p \in F PROVE f <= p
      <4>1. CASE p <= M
        BY <2>3, <2>9, <2>10, <4>1
      <4>2. CASE ~ (p <= M)
        BY <1>1, <2>8, <3>1, <4>2
      <4> QED
        BY <4>1, <4>2
    <3>3. First(F) = f
      <4> HIDE DEF f
      <4> QED
        BY <2>8, <3>1, <3>2, FirstAt
    <3>4. g = h /\ h # 0 /\ h \in 1 .. M /\ h > x
      BY <1>1, <2>2, <2>3, <2>10, <3>1, <3>3 DEF PLACE
    <3>5. PICK r \in Seq(T) : B(h) = D(h) \o r
      BY <1>2, <3>4
    <3>6. D(h) \in Seq(1 .. L + 1)
      BY <1>1, <2>3, <2>10, ArrayFromEquation DEF D
    <3> DEFINE d == D(h)
               W == 1 .. L + 1
               Z == W \cup T
    <3>7. d \in Seq(Z) /\ r \in Seq(Z) /\ h \in Z
      <4>1. (\A z \in W : z \in Z) /\ (\A z \in T : z \in Z) /\ h \in W
        BY <1>1, <3>4
      <4>2. d \in Seq(W)
        BY <3>6
      <4> HIDE DEF T, Z, W, d
      <4> QED
        BY <3>5, <4>1, <4>2
    <3> HIDE DEF d, Z, T
    <3>8. << h >> \o (d \o r) = (<< h >> \o d) \o r
      BY <3>7
    <3>9. B(x) = << h >> \o (d \o r) /\ D(x) = << h >> \o d
      BY <2>4, <2>5, <3>4, <3>5, Zenon DEF d
    <3>10. B(x) = D(x) \o r
      BY <3>8, <3>9, Zenon
    <3> QED
      BY <3>10
  <2>11. CASE H = {}
    <3>1. D(x) = << >>
      BY <2>3, <2>5, <2>11
    <3>2. CASE F = {}
      <4>1. B(x) = << >>
        BY <2>2, <2>4, <3>2
      <4>2. << >> \in Seq(T) /\ B(x) = D(x) \o << >>
        BY <3>1, <4>1
      <4> QED
        BY <4>2
    <3>3. CASE F # {}
      <4>1. First(F) > M /\ First(F) \in Nat
        BY <1>1, <2>2, <2>8, <2>9, <2>11, <3>3
      <4>2. g >= L + 3 /\ g <= N + 1 /\ g \in Nat /\ g # 0
        BY <1>1, <2>2, <3>3, <4>1
      <4>3. B(g) \in Seq(g + 1 .. N + 1)
        <5>1. g \in 1 .. N + 1
          BY <1>1, <4>2
        <5> QED
          BY <1>1, <5>1, ArrayGoesOn DEF B
      <4> DEFINE r == << g >> \o B(g)
                 b == B(g)
                 Y == g + 1 .. N + 1
      <4>4. g \in T /\ \A z \in Y : z \in T
        BY <1>1, <4>2
      <4>5. b \in Seq(Y)
        BY <4>3
      <4> HIDE DEF b, Y, T
      <4>6. b \in Seq(T)
        BY <4>4, <4>5
      <4>7. << g >> \o b \in Seq(T)
        BY <4>4, <4>6
      <4>8. B(x) = r /\ r \in Seq(T)
        BY <2>4, <4>2, <4>7 DEF b
      <4> HIDE DEF r
      <4>9. r = << >> \o r
        BY <4>8
      <4> QED
        BY <3>1, <4>8, <4>9, Zenon
    <3> QED
      BY <3>2, <3>3
  <2> QED
    BY <2>10, <2>11
<1> HIDE DEF P
<1>3. \A x \in 1 .. M : x \in P
  <2> HIDE DEF M
  <2> QED
    BY <1>1, <1>2, BackwardsTo
<1> QED
  BY <1>3 DEF P, FindsBehind

(* No text becomes longer when it is decoded. *)
LEMMA DecodedIsShorter ==
  ASSUME NEW C, NEW s \in Seq(C)
  PROVE  \A i \in 1 .. Len(s) + 1 : Len(DecodedFrom(s)[i]) + i <= Len(s) + 1
<1> DEFINE M == Len(s) + 1
           D(i) == DecodedFrom(s)[i]
           P == {i \in 1 .. M : Len(D(i)) + i <= M}
<1>1. M \in Nat
  OBVIOUS
<1>2. ASSUME NEW i \in 1 .. M, \A j \in 1 .. M : j > i => j \in P
      PROVE  i \in P
  <2> DEFINE j == i + Width(s, i)
  <2>1. i \in PLACE
    BY DEF PLACE
  <2>2. D(i) = IF i > Len(s) THEN << >> ELSE << Decoded(s, i) >> \o D(j)
    BY <2>1, DecodedFromEquation
  <2>3. CASE i > Len(s)
    BY <2>2, <2>3
  <2>4. CASE ~ (i > Len(s))
    <3>1. j > i /\ j \in PLACE /\ j \in 1 .. M
      <4>1. Width(s, i) = 3 => i + 2 <= Len(s)
        BY DEF Width, IsEscape
      <4> QED
        BY <2>4, <4>1, Widths DEF PLACE
    <3> HIDE DEF j, D
    <3>2. Len(D(j)) + j <= M
      BY <1>2, <3>1
    <3> DEFINE d == D(j)
               c == Decoded(s, i)
               X == Chars(C)
    <3>3. d \in Seq(X) /\ c \in X
      <4>1. d \in Seq(X)
        BY <3>1, DecodedFromEquation DEF D
      <4>2. i \in 1 .. Len(s)
        BY <2>4
      <4>3. c \in X
        BY <4>2, DecodedCharacters
      <4> QED
        BY <4>1, <4>3
    <3> HIDE DEF d, c, X
    <3>4. Len(<< c >> \o d) = 1 + Len(d) /\ Len(d) \in Nat
      BY <3>3
    <3>5. Len(D(i)) = 1 + Len(d)
      BY <2>2, <2>4, <3>4 DEF c, d
    <3>6. Len(d) + j <= M
      BY <3>2 DEF d
    <3> QED
      BY <1>1, <3>1, <3>4, <3>5, <3>6
  <2> QED
    BY <2>3, <2>4
<1> HIDE DEF P
<1>3. \A i \in 1 .. M : i \in P
  <2> HIDE DEF M
  <2> QED
    BY <1>1, <1>2, BackwardsTo
<1> QED
  BY <1>3 DEF P

(* The buffer: the decoded query, a 0, and the end of the query as it was. *)
LEMMA BufferIs ==
  ASSUME NEW C, NEW s \in Seq(C), NEW dec, dec = url_decode(s), NEW buf, buf = url_parse(s)
  PROVE  /\ dec \in Seq(Chars(C)) /\ buf \in Seq(Chars(C))
         /\ Ends(buf, dec)
         /\ Len(dec) <= Len(s)
         /\ Len(dec) = Len(s) => Len(buf) = Len(dec) + 1
         /\ Len(dec) < Len(s) => Len(buf) = Len(s)
<1> DEFINE X == Chars(C)
           L == Len(dec)
           t == SubSeq(s, L + 2, Len(s))
<1>1. dec \in Seq(X)
  <2>1. 1 \in PLACE
    BY DEF PLACE
  <2> QED
    BY <2>1, DecodedFromEquation DEF url_decode
<1>2. L <= Len(s) /\ L \in Nat
  <2>1. Len(DecodedFrom(s)[1]) + 1 <= Len(s) + 1
    BY DecodedIsShorter
  <2> QED
    BY <1>1, <2>1 DEF url_decode
<1>3. (\A c \in C : c \in X) /\ NUL \in X
  BY CharsHas
<1> HIDE DEF X
<1>4. s \in Seq(X)
  BY <1>3
<1>5. t \in Seq(X) /\ Len(t) = IF L + 2 <= Len(s) THEN Len(s) - (L + 2) + 1 ELSE 0
  BY <1>2, <1>4
<1>6. buf = dec \o << NUL >> \o t
  BY Zenon DEF url_parse
<1> HIDE DEF t
<1>7. dec \o << NUL >> \in Seq(X) /\ Len(dec \o << NUL >>) = L + 1
  BY <1>1, <1>3
<1>8. /\ \A q \in 1 .. L : (dec \o << NUL >>)[q] = dec[q]
      /\ (dec \o << NUL >>)[L + 1] = NUL
  BY <1>1, <1>3
<1> DEFINE u == dec \o << NUL >>
<1> HIDE DEF u
<1>9. /\ u \in Seq(X) /\ Len(u) = L + 1 /\ u[L + 1] = NUL
      /\ \A q \in 1 .. L : u[q] = dec[q]
      /\ buf = u \o t
  BY <1>6, <1>7, <1>8 DEF u
<1>10. /\ buf \in Seq(X) /\ Len(buf) = L + 1 + Len(t)
       /\ \A q \in 1 .. L + 1 : buf[q] = u[q]
  <2>1. buf \in Seq(X) /\ Len(buf) = Len(u) + Len(t) /\ \A q \in 1 .. Len(u) : buf[q] = u[q]
    <3>1. u \in Seq(X) /\ t \in Seq(X) /\ buf = u \o t
      BY <1>5, <1>9, Zenon
    <3> QED
      BY <3>1
  <2> HIDE DEF L
  <2> QED
    BY <1>9, <2>1
<1>11. Len(t) \in Nat /\ Len(buf) \in Nat /\ Len(s) \in Nat
  <2>1. t \in Seq(X) /\ buf \in Seq(X)
    BY <1>5, <1>10, Zenon
  <2> QED
    BY <2>1
<1>12. Ends(buf, dec)
  <2> HIDE DEF L
  <2>1. L < Len(buf) /\ L + 1 \in 1 .. L + 1 /\ \A q \in 1 .. L : q \in 1 .. L + 1
    BY <1>2, <1>10, <1>11
  <2>2. buf[L + 1] = NUL /\ \A q \in 1 .. L : buf[q] = dec[q]
    BY <1>9, <1>10, <2>1
  <2> QED
    BY <2>1, <2>2 DEF Ends, L
<1>13. (L = Len(s) => Len(buf) = L + 1) /\ (L < Len(s) => Len(buf) = Len(s))
  <2> HIDE DEF L
  <2>1. Len(t) = (IF L + 2 <= Len(s) THEN Len(s) - (L + 2) + 1 ELSE 0) /\ Len(buf) = L + 1 + Len(t)
    BY <1>5, <1>10, Zenon
  <2> DEFINE m == Len(s)
             n == Len(buf)
             k == Len(t)
  <2>2. /\ L \in Nat /\ m \in Nat /\ n \in Nat /\ k \in Nat /\ L <= m
        /\ k = (IF L + 2 <= m THEN m - (L + 2) + 1 ELSE 0)
        /\ n = L + 1 + k
    BY <1>2, <1>11, <2>1, Zenon
  <2> HIDE DEF m, n, k
  <2>3. (L = m => n = L + 1) /\ (L < m => n = m)
    BY <2>2
  <2> QED
    BY <2>3, Zenon DEF m, n
<1> QED
  BY <1>1, <1>2, <1>10, <1>12, <1>13, Zenon DEF X

(* Sequences of one domain are of one length. *)
LEMMA SameLength ==
  ASSUME NEW X, NEW a \in Seq(X), NEW Y, NEW b \in Seq(Y), DOMAIN a = DOMAIN b
  PROVE  Len(a) = Len(b)
<1> DEFINE i == Len(a)
           k == Len(b)
<1>1. i \in Nat /\ k \in Nat /\ 1 .. i = 1 .. k
  OBVIOUS
<1> HIDE DEF i, k
<1>2. i \in 1 .. i => i \in 1 .. k
  BY <1>1
<1>3. k \in 1 .. k => k \in 1 .. i
  BY <1>1
<1>4. i = k
  BY <1>1, <1>2, <1>3
<1> QED
  BY <1>4 DEF i, k

(* The loops over get_param_array collect the values of a name first, all  *)
(* and in order, then what decoding left behind the query, nothing if it   *)
(* left nothing, and stay in a buffer with room for both, for any query    *)
(* and name.                                                               *)
THEOREM EveryListIsCollected ==
  ASSUME NEW C, NUL \notin C, NEW s \in Seq(C),
         NEW name \in Seq(C), \A i \in 1 .. Len(name) : name[i] # EQUALS
  PROVE  ListIsCollected(s, name)
<1> DEFINE dec == url_decode(s)
           buf == url_parse(s)
           L == Len(dec)
           found == Array(buf, name, L)
           values == ValuesOf(s, name)
           first == ArrayFrom(dec, name, L)[1]
           T == L + 3 .. Len(buf) + 1
<1> SUFFICES ASSUME Sane(s), \A p \in DOMAIN dec : NameAt(dec, p, name) => p = 1 \/ dec[p - 1] = NUL
             PROVE  /\ Len(values) <= Len(found)
                    /\ \A k \in DOMAIN values : StringAt(buf, found[k]) = values[k]
                    /\ \A k \in DOMAIN found : found[k] <= L + 1 <=> k <= Len(values)
                    /\ L = Len(s) => Len(found) = Len(values)
                    /\ Len(s) + L <= URL_BUF_MAX_LEN => Reach(buf, name, L) <= URL_BUF_MAX_LEN
  BY Zenon DEF ListIsCollected
<1>1. 1 \in PLACE
  BY DEF PLACE
<1>2. /\ dec \in Seq(Chars(C)) /\ buf \in Seq(Chars(C))
      /\ Ends(buf, dec)
      /\ L <= Len(s)
      /\ L = Len(s) => Len(buf) = L + 1
      /\ L < Len(s) => Len(buf) = Len(s)
      /\ dec = DecodedFrom(s)[1]
  BY BufferIs DEF url_decode
<1>3. name \in Seq(Chars(C)) /\ \A i \in 1 .. Len(name) : name[i] # NUL
  <2> DEFINE X == Chars(C)
  <2>1. \A c \in C : c \in X
    BY CharsHas
  <2> HIDE DEF X
  <2>2. name \in Seq(X)
    BY <2>1
  <2> QED
    BY <2>2 DEF X
<1> HIDE DEF dec, buf
<1>4. L \in Nat /\ Len(s) \in Nat /\ Len(buf) \in Nat
  BY <1>2
<1>5. Texts(dec, first) = values
  <2>1. \A q \in 1 .. Len(dec) : NameAt(dec, q, name) => q = 1 \/ dec[q - 1] = NUL
    BY <1>2
  <2>2. 1 \in 1 .. Len(s) + 1 /\ StartsAt(s, 1)
    BY DEF StartsAt
  <2>3. EndsIn(dec, 1, DecodedFrom(s)[1])
    BY <1>2, EndsInItself
  <2>4. dec \in Seq(Chars(C))
    BY <1>2
  <2>5. \A p \in 1 .. Len(s) + 1 :
          StartsAt(s, p) =>
            \A a \in PLACE : EndsIn(dec, a, DecodedFrom(s)[p])
              => Texts(dec, ArrayFrom(dec, name, Len(dec))[a]) = ValuesFrom(s, name)[p]
    BY <2>1, <2>4, CollectsAll
  <2>6. Texts(dec, ArrayFrom(dec, name, Len(dec))[1]) = ValuesFrom(s, name)[1]
    BY <1>1, <2>2, <2>3, <2>5
  <2> QED
    BY <2>6 DEF ValuesOf
<1> DEFINE W == 1 .. L + 1
<1>6. first \in Seq(W)
  BY <1>1, <1>2, <1>3, <1>4, ArrayFromEquation
<1>7. PICK r \in Seq(T) : found = first \o r
  <2>1. 1 \in 1 .. L + 1
    BY <1>4
  <2>2. FindsBehind(buf, dec, name, 1)
    BY <1>2, <1>3, <2>1, ArrayBehind
  <2> QED
    BY <2>2, Zenon DEF FindsBehind, Array
<1>8. \E Y : values \in Seq(Y)
  BY <1>1, ValuesFromEquation, Zenon DEF ValuesOf
<1>9. Reach(buf, name, L) = L + (IF found = << >> THEN 0 ELSE found[Len(found)] - 1)
  BY Zenon DEF Reach, Last
<1> HIDE DEF found, values, first
<1>10. DOMAIN values = DOMAIN first /\ Len(values) = Len(first)
       /\ \A k \in DOMAIN values : values[k] = StringAt(dec, first[k])
  <2>1. DOMAIN values = DOMAIN first /\ \A k \in DOMAIN values : values[k] = StringAt(dec, first[k])
    BY <1>5, Zenon DEF Texts
  <2>2. PICK Y : values \in Seq(Y)
    BY <1>8, Zenon
  <2>3. Len(values) = Len(first)
    BY <1>6, <2>1, <2>2, SameLength, Zenon
  <2> QED
    BY <2>1, <2>3
<1>11. /\ Len(first) \in Nat /\ Len(r) \in Nat /\ Len(found) = Len(first) + Len(r)
       /\ DOMAIN found = 1 .. Len(found) /\ DOMAIN first = 1 .. Len(first)
       /\ \A k \in 1 .. Len(first) : found[k] = first[k] /\ first[k] \in 1 .. L + 1
       /\ \A k \in 1 .. Len(r) : found[Len(first) + k] = r[k] /\ r[k] \in T
  <2> HIDE DEF T, W
  <2>1. /\ Len(first) \in Nat /\ Len(r) \in Nat /\ Len(found) = Len(first) + Len(r)
        /\ DOMAIN found = 1 .. Len(found) /\ DOMAIN first = 1 .. Len(first)
        /\ \A k \in 1 .. Len(first) : found[k] = first[k] /\ first[k] \in W
        /\ \A k \in 1 .. Len(r) : found[Len(first) + k] = r[k] /\ r[k] \in T
    BY <1>6, <1>7
  <2> QED
    BY <2>1, Zenon DEF W
<1>12. ASSUME NEW k \in DOMAIN found
       PROVE  \/ k \in 1 .. Len(first) /\ found[k] \in 1 .. L + 1
              \/ ~ (k <= Len(first)) /\ found[k] \in T
  <2>1. CASE k <= Len(first)
    BY <1>11, <2>1
  <2>2. CASE ~ (k <= Len(first))
    <3>1. k - Len(first) \in 1 .. Len(r) /\ Len(first) + (k - Len(first)) = k
      BY <1>11, <2>2
    <3> QED
      BY <1>11, <2>2, <3>1
  <2> QED
    BY <2>1, <2>2
<1>13. \A k \in DOMAIN found : found[k] <= L + 1 <=> k <= Len(values)
  <2> TAKE k \in DOMAIN found
  <2>1. CASE k \in 1 .. Len(first) /\ found[k] \in 1 .. L + 1
    BY <1>4, <1>10, <1>11, <2>1
  <2>2. CASE ~ (k <= Len(first)) /\ found[k] \in T
    BY <1>4, <1>10, <1>11, <2>2
  <2> QED
    BY <1>12, <2>1, <2>2
<1>14. \A k \in DOMAIN values : StringAt(buf, found[k]) = values[k]
  <2> TAKE k \in DOMAIN values
  <2>1. found[k] = first[k] /\ first[k] \in 1 .. L + 1
    BY <1>10, <1>11
  <2>2. StringAt(buf, first[k]) = StringAt(dec, first[k])
    BY <1>2, <2>1, SameString
  <2> QED
    BY <1>10, <2>1, <2>2
<1>15. ASSUME L = Len(s) PROVE Len(found) = Len(values)
  <2>1. T = {}
    BY <1>2, <1>4, <1>15
  <2>2. ~ (Len(r) >= 1)
    <3> HIDE DEF T
    <3> QED
      BY <1>11, <2>1
  <2>3. Len(r) = 0
    BY <1>11, <2>2
  <2>4. Len(found) = Len(first) /\ Len(values) = Len(first)
    BY <1>10, <1>11, <2>3
  <2> QED
    BY <2>4, Zenon
<1>16. ASSUME Len(s) + L <= URL_BUF_MAX_LEN PROVE Reach(buf, name, L) <= URL_BUF_MAX_LEN
  <2>1. CASE found = << >>
    BY <1>4, <1>9, <1>16, <2>1, UrlAssumption
  <2>2. CASE found # << >>
    <3> DEFINE z == found[Len(found)]
    <3>1. Len(found) \in DOMAIN found
      <4>1. found \in Seq(W \cup T)
        <5> DEFINE Z == W \cup T
        <5>1. (\A y \in W : y \in Z) /\ (\A y \in T : y \in Z)
          OBVIOUS
        <5> HIDE DEF Z, T, W
        <5>2. first \in Seq(Z) /\ r \in Seq(Z)
          BY <1>6, <5>1
        <5> QED
          BY <1>7, <5>2 DEF Z
      <4> HIDE DEF T, W
      <4> QED
        BY <2>2, <4>1
    <3>2. z \in 1 .. L + 1 \/ z \in T
      BY <1>12, <3>1
    <3> HIDE DEF z
    <3>3. z \in Nat /\ z <= Len(s) + 1
      <4>1. z \in T => z <= Len(buf) + 1 /\ z >= L + 3 /\ z \in Nat
        BY <1>4
      <4>2. z \in T => L < Len(s)
        BY <1>2, <1>4, <4>1
      <4> QED
        BY <1>2, <1>4, <3>2, <4>1, <4>2
    <3>4. Reach(buf, name, L) = L + (z - 1)
      BY <1>9, <2>2 DEF z
    <3> QED
      BY <1>4, <1>16, <3>3, <3>4, UrlAssumption
  <2> QED
    BY <2>1, <2>2
<1>17. Len(values) <= Len(found)
  BY <1>10, <1>11
<1> QED
  BY <1>13, <1>14, <1>15, <1>16, <1>17, Zenon

-----------------------------------------------------------------------------
(* What url_encode makes of a text.                                        *)

(* One character of it, in the query from a on. *)
LEMMA EncodedIsDecoded ==
  ASSUME NEW t, NEW a \in PLACE, Len(t) \in Nat, NEW c, NEW e, e = Encoded(c),
         a + Len(e) <= Len(t) + 1, \A k \in 1 .. Len(e) : t[a + k - 1] = e[k]
  PROVE  Decoded(t, a) = c /\ Width(t, a) = Len(e)
<1>1. a \in Nat /\ a >= 1
  BY DEF PLACE
<1>2. CASE c \in {"&", "=", "%", "+"}
  <2> DEFINE d == hexchars(c)
  <2>1. c # " "
    BY <1>2, Zenon
  <2>2. e = << "%", d[1], d[2] >>
    BY <1>2, <2>1, Zenon DEF Encoded
  <2>3. d \in Digits \X Digits /\ url_htoi(d) = c
    BY <1>2, HexCharacters, Zenon
  <2> DEFINE percent == "%"
             x == d[1]
             y == d[2]
  <2>4. e = << percent, x, y >>
    BY <2>2
  <2>5. x \in Digits /\ y \in Digits /\ d = << x, y >>
    BY <2>3
  <2> HIDE DEF percent, d, x, y
  <2>6. /\ Len(e) = 3 /\ 1 \in 1 .. Len(e) /\ 2 \in 1 .. Len(e) /\ 3 \in 1 .. Len(e)
        /\ e[1] = percent /\ e[2] = x /\ e[3] = y
    BY <2>4
  <2>7. a + 1 - 1 = a /\ a + 2 - 1 = a + 1 /\ a + 3 - 1 = a + 2
    BY <1>1
  <2>8. t[a] = percent /\ t[a + 1] = x /\ t[a + 2] = y /\ a + 2 <= Len(t)
    BY <1>1, <2>6, <2>7
  <2>9. IsEscape(t, a)
    BY <2>5, <2>8, Zenon DEF IsEscape, percent
  <2>10. Decoded(t, a) = url_htoi(<< x, y >>) /\ Width(t, a) = 3
    BY <2>8, <2>9, Zenon DEF Decoded, Width
  <2> QED
    BY <2>3, <2>5, <2>6, <2>10, Zenon
<1>3. CASE c \notin {"&", "=", "%", "+"}
  <2> DEFINE plus == "+"
             x == IF c = " " THEN plus ELSE c
  <2>1. e = << x >>
    BY <1>3, Zenon DEF Encoded
  <2> HIDE DEF x
  <2>2. Len(e) = 1 /\ 1 \in 1 .. Len(e) /\ e[1] = x
    BY <2>1
  <2>3. a + 1 - 1 = a
    BY <1>1
  <2>4. t[a] = x
    BY <2>2, <2>3
  <2>5. x # "%"
    BY <1>3, Zenon DEF x
  <2>6. ~ IsEscape(t, a)
    BY <2>4, <2>5, Zenon DEF IsEscape
  <2>7. Character(x) = c
    BY <1>3, Zenon DEF x, Character
  <2>8. Decoded(t, a) = c /\ Width(t, a) = 1
    BY <2>4, <2>6, <2>7, Zenon DEF Decoded, Width
  <2> QED
    BY <2>2, <2>8
<1> QED
  BY <1>2, <1>3

(* Characters that stand for themselves, in the query from a on. *)
Plain(c) == c \notin {"&", "%", "+"}

LEMMA PlainIsDecoded ==
  ASSUME NEW t, NEW a, Plain(t[a])
  PROVE  Decoded(t, a) = t[a] /\ Width(t, a) = 1
<1>1. ~ IsEscape(t, a)
  BY Zenon DEF IsEscape, Plain
<1>2. Character(t[a]) = t[a]
  BY Zenon DEF Character, Plain
<1> QED
  BY <1>1, <1>2, Zenon DEF Decoded, Width

LEMMA EncodedIs ==
  ASSUME NEW C, NEW c \in C
  PROVE  Encoded(c) \in Seq(Chars(C)) /\ Len(Encoded(c)) \in {1, 3}
<1> DEFINE X == Chars(C)
           e == Encoded(c)
<1>1. c \in X /\ "+" \in X /\ "%" \in X
  BY CharsHas, Zenon
<1>2. CASE c \in {"&", "=", "%", "+"}
  <2> DEFINE percent == "%"
             d == hexchars(c)
             x == d[1]
             y == d[2]
  <2>1. c # " "
    BY <1>2, Zenon
  <2>2. e = << percent, x, y >>
    BY <1>2, <2>1, Zenon DEF Encoded
  <2>3. d \in Digits \X Digits
    BY <1>2, HexCharacters, Zenon
  <2>4. x \in Digits /\ y \in Digits
    <3> HIDE DEF d
    <3> QED
      BY <2>3
  <2>5. x \in X /\ y \in X /\ percent \in X
    BY <1>1, <2>4, CharsHas, Zenon
  <2> HIDE DEF percent, x, y, e, X
  <2>6. e \in Seq(X) /\ Len(e) = 3
    BY <2>2, <2>5
  <2> QED
    BY <2>6 DEF X, e
<1>3. CASE c \notin {"&", "=", "%", "+"}
  <2> DEFINE plus == "+"
             x == IF c = " " THEN plus ELSE c
  <2>1. e = << x >>
    BY <1>3, Zenon DEF Encoded
  <2>2. x \in X
    BY <1>1, Zenon
  <2> HIDE DEF x, e, X
  <2>3. e \in Seq(X) /\ Len(e) = 1
    BY <2>1, <2>2
  <2> QED
    BY <2>3 DEF X, e
<1> QED
  BY <1>2, <1>3

(* An encoded text at the end of a query is decoded to the text. *)
LEMMA DecodesTheEncoded ==
  ASSUME NEW C, NEW s \in Seq(C), NEW t \in Seq(Chars(C))
  PROVE  \A i \in 1 .. Len(s) + 1 : \A a \in PLACE :
           EndsIn(t, a, EncodedFrom(s)[i]) => DecodedFrom(t)[a] = SubSeq(s, i, Len(s))
<1> DEFINE X == Chars(C)
           E(i) == EncodedFrom(s)[i]
           D(a) == DecodedFrom(t)[a]
           n == Len(s)
           Tells(i) == \A a \in PLACE : EndsIn(t, a, E(i)) => D(a) = SubSeq(s, i, n)
           G == {i \in 1 .. n + 1 : Tells(i)}
<1>1. ASSUME NEW i \in 1 .. n + 1, \A j \in 1 .. n + 1 : j > i => j \in G PROVE Tells(i)
  <2> SUFFICES ASSUME NEW a \in PLACE, EndsIn(t, a, E(i)) PROVE D(a) = SubSeq(s, i, n)
    OBVIOUS
  <2>1. i \in PLACE /\ i \in Nat /\ a \in Nat /\ a >= 1 /\ n \in Nat /\ Len(t) \in Nat
    BY DEF PLACE
  <2>2. CASE i > n
    <3>1. E(i) = << >>
      BY <2>1, <2>2, EncodedFromEquation
    <3>2. a > Len(t)
      BY <2>1, <3>1 DEF EndsIn
    <3>3. D(a) = << >>
      BY <3>2, DecodedFromEquation
    <3>4. SubSeq(s, i, n) = << >>
      BY <2>1, <2>2
    <3> QED
      BY <3>3, <3>4
  <2>3. CASE ~ (i > n)
    <3> DEFINE e == Encoded(s[i])
               b == a + Len(e)
               r == E(i + 1)
    <3>1. i \in 1 .. n /\ i + 1 \in 1 .. n + 1 /\ i + 1 > i /\ i + 1 \in PLACE
      BY <2>1, <2>3 DEF PLACE
    <3>2. s[i] \in C
      BY <3>1
    <3>3. e \in Seq(X) /\ Len(e) \in {1, 3}
      BY <3>2, EncodedIs
    <3>4. E(i) = e \o r
      BY <2>1, <2>3, EncodedFromEquation
    <3>5. r \in Seq(X)
      BY <3>1, EncodedFromEquation
    <3> HIDE DEF e, r, X
    <3>6. EndsIn(t, a, e \o r)
      BY <3>4
    <3>7. EndsIn(t, b, r) /\ \A k \in 1 .. Len(e) : t[a + k - 1] = e[k]
      BY <3>3, <3>5, <3>6, EndsInRest DEF X
    <3>8. b \in PLACE /\ b \in Nat /\ b <= Len(t) + 1
      <4>1. Len(r) \in Nat
        BY <3>5
      <4>2. Len(t) = b - 1 + Len(r)
        BY <3>7 DEF EndsIn
      <4> QED
        BY <2>1, <3>3, <4>1, <4>2 DEF PLACE
    <3>9. Decoded(t, a) = s[i] /\ Width(t, a) = Len(e)
      BY <2>1, <3>7, <3>8, EncodedIsDecoded DEF e
    <3>10. ~ (a > Len(t))
      <4> DEFINE h == Len(e)
      <4>1. h = 1 \/ h = 3
        BY <3>3
      <4>2. b = a + h
        OBVIOUS
      <4> HIDE DEF h, b
      <4> QED
        BY <2>1, <3>8, <4>1, <4>2
    <3>11. D(a) = << s[i] >> \o D(b)
      BY <3>9, <3>10, DecodedFromEquation DEF b
    <3>12. i + 1 \in G
      BY <1>1, <3>1
    <3>13. Tells(i + 1)
      <4> HIDE DEF Tells
      <4> QED
        BY <3>12 DEF G
    <3>14. D(b) = SubSeq(s, i + 1, n)
      BY <3>7, <3>8, <3>13 DEF r
    <3>15. << s[i] >> \o SubSeq(s, i + 1, n) = SubSeq(s, i, n)
      <4>1. n \in 0 .. Len(s) /\ i <= n
        BY <2>1, <3>1
      <4> QED
        BY <2>1, <4>1, HeadOfPart
    <3> QED
      BY <3>11, <3>14, <3>15
  <2> QED
    BY <2>2, <2>3
<1>2. \A i \in 1 .. n + 1 : (\A j \in 1 .. n + 1 : j > i => j \in G) => i \in G
  <2> HIDE DEF Tells
  <2> QED
    BY <1>1
<1> HIDE DEF G
<1>3. \A i \in 1 .. n + 1 : i \in G
  <2> DEFINE L == n + 1
  <2>1. L \in Nat
    OBVIOUS
  <2> HIDE DEF L
  <2> QED
    BY <1>2, <2>1, BackwardsTo DEF L
<1>4. \A i \in 1 .. n + 1 : Tells(i)
  <2> HIDE DEF Tells
  <2> QED
    BY <1>3 DEF G
<1> QED
  BY <1>4

(* Characters that stand for themselves are decoded to themselves. *)
LEMMA DecodesThePlain ==
  ASSUME NEW C, NEW t \in Seq(C), NEW u \in Seq(C), NEW a \in PLACE, a + Len(u) <= Len(t) + 1,
         \A k \in 1 .. Len(u) : t[a + k - 1] = u[k] /\ Plain(u[k])
  PROVE  DecodedFrom(t)[a] = u \o DecodedFrom(t)[a + Len(u)]
<1> DEFINE X == Chars(C)
           n == Len(u)
           D(i) == DecodedFrom(t)[i]
           rest == D(a + n)
           Tells(k) == D(a + k - 1) = SubSeq(u, k, n) \o rest
           G == {k \in 1 .. n + 1 : Tells(k)}
<1>1. a \in Nat /\ a >= 1 /\ n \in Nat /\ Len(t) \in Nat /\ a + n \in PLACE
  BY DEF PLACE
<1>2. rest \in Seq(X)
  BY <1>1, DecodedFromEquation
<1>3. u \in Seq(X)
  <2>1. \A c \in C : c \in X
    BY CharsHas
  <2> HIDE DEF X
  <2> QED
    BY <2>1
<1> HIDE DEF X, rest
<1>4. ASSUME NEW k \in 1 .. n + 1, \A j \in 1 .. n + 1 : j > k => j \in G PROVE Tells(k)
  <2>1. CASE k = n + 1
    <3>1. a + k - 1 = a + n
      BY <1>1, <2>1
    <3>2. SubSeq(u, k, n) = << >>
      BY <1>1, <2>1
    <3>3. << >> \o rest = rest
      BY <1>2
    <3> QED
      BY <3>1, <3>2, <3>3 DEF rest
  <2>2. CASE k # n + 1
    <3> DEFINE j == a + k - 1
    <3>1. /\ k \in 1 .. n /\ k + 1 \in 1 .. n + 1 /\ k + 1 > k /\ k \in PLACE /\ k + 1 \in PLACE
          /\ j \in PLACE /\ ~ (j > Len(t)) /\ j + 1 = a + (k + 1) - 1
      BY <1>1, <2>2, SMTT(30) DEF PLACE
    <3>2. t[j] = u[k] /\ Plain(u[k])
      <4> HIDE DEF n
      <4> QED
        BY <3>1, Zenon DEF n
    <3>3. Decoded(t, j) = u[k] /\ Width(t, j) = 1
      BY <3>2, PlainIsDecoded, Zenon
    <3>4. D(j) = << u[k] >> \o D(j + 1)
      BY <3>1, <3>3, DecodedFromEquation
    <3>5. k + 1 \in G
      BY <1>4, <3>1
    <3>6. Tells(k + 1)
      <4> HIDE DEF Tells
      <4> QED
        BY <3>5 DEF G
    <3> DEFINE x == << u[k] >>
               y == SubSeq(u, k + 1, n)
    <3>7. D(j) = x \o (y \o rest)
      BY <3>1, <3>4, <3>6
    <3>8. x \in Seq(X) /\ y \in Seq(X)
      <4>1. u[k] \in X
        BY <1>3, <3>1
      <4>2. x \in Seq(X)
        BY <4>1
      <4>3. y \in Seq(X)
        <5>1. n \in 0 .. Len(u) /\ k + 1 <= n + 1
          BY <1>1, <3>1
        <5> QED
          BY <1>3, <3>1, <5>1, PartIs
      <4> QED
        BY <4>2, <4>3
    <3>9. x \o y = SubSeq(u, k, n)
      <4>1. n \in 0 .. Len(u) /\ k <= n
        BY <1>1, <3>1
      <4> QED
        BY <3>1, <4>1, HeadOfPart
    <3> HIDE DEF x, y, D
    <3>10. x \o (y \o rest) = (x \o y) \o rest
      BY <1>2, <3>8, Joined, SMTT(30)
    <3> QED
      BY <3>7, <3>9, <3>10
  <2> QED
    BY <2>1, <2>2
<1>5. \A k \in 1 .. n + 1 : (\A j \in 1 .. n + 1 : j > k => j \in G) => k \in G
  <2> HIDE DEF Tells
  <2> QED
    BY <1>4
<1> HIDE DEF G
<1>6. \A k \in 1 .. n + 1 : k \in G
  <2> DEFINE L == n + 1
  <2>1. L \in Nat
    OBVIOUS
  <2> HIDE DEF L
  <2> QED
    BY <1>5, <2>1, BackwardsTo DEF L
<1>7. Tells(1)
  <2>1. 1 \in G
    BY <1>1, <1>6
  <2> HIDE DEF Tells
  <2> QED
    BY <2>1 DEF G
<1>8. SubSeq(u, 1, n) = u
  OBVIOUS
<1>9. a + 1 - 1 = a
  BY <1>1
<1> QED
  BY <1>7, <1>8, <1>9 DEF rest

(* A query whose last parameter begins with u, and a string behind a zero. *)
QueryOf(u, enc) == << AMP >> \o (u \o enc)
BehindZero(m) == << NUL >> \o m

(* Behind a '&', plain characters and a text that url_encode made are      *)
(* decoded to a zero, the characters and the text.                         *)
LEMMA DecodedBehindAnAmp ==
  ASSUME NEW C, NEW X, X = Chars(C), NEW s \in Seq(C), NEW enc, enc = EncodedFrom(s)[1],
         NEW u \in Seq(X), \A k \in 1 .. Len(u) : Plain(u[k]),
         NEW t, t = QueryOf(u, enc)
  PROVE  DecodedFrom(t)[1] = BehindZero(u \o s)
<1> DEFINE l == Len(u)
           amp == << AMP >>
           rest == u \o enc
<1>1. 1 \in PLACE /\ 2 \in PLACE /\ l \in Nat
  BY DEF PLACE
<1>2. AMP \in X
  BY CharsHas, Zenon DEF AMP
<1>3. enc \in Seq(X)
  BY <1>1, EncodedFromEquation
<1>4. amp \in Seq(X) /\ Len(amp) = 1 /\ amp[1] = AMP
  BY <1>2
<1>5. rest \in Seq(X)
  BY <1>3, Concatenated
<1>6. t = amp \o rest
  BY Zenon DEF QueryOf
<1> HIDE DEF amp, rest
<1>7. t \in Seq(X)
  BY <1>4, <1>5, <1>6, Concatenated
<1>8. EndsIn(t, 1, amp \o rest)
  BY <1>6, <1>7, EndsInItself
<1>9. EndsIn(t, 1 + Len(amp), rest) /\ \A k \in 1 .. Len(amp) : t[1 + k - 1] = amp[k]
  <2>1. amp \in Seq(X)
    BY <1>4
  <2> QED
    BY <1>5, <1>7, <1>8, <2>1, EndsInRest
<1>10. EndsIn(t, 2, u \o enc) /\ t[1] = AMP
  <2>1. 1 \in 1 .. Len(amp) /\ 1 + 1 - 1 = 1 /\ 1 + Len(amp) = 2
    BY <1>4
  <2>2. t[1 + 1 - 1] = amp[1]
    BY <1>9, <2>1
  <2> QED
    BY <1>4, <1>9, <2>1, <2>2 DEF rest
<1>11. EndsIn(t, 2 + l, enc) /\ \A k \in 1 .. l : t[2 + k - 1] = u[k]
  <2>1. EndsIn(t, 2, u \o enc)
    BY <1>10
  <2> QED
    BY <1>3, <1>7, <2>1, EndsInRest
<1>12. Len(t) = (2 + l) - 1 + Len(enc) /\ Len(enc) \in Nat /\ Len(t) \in Nat /\ 2 + l \in PLACE
  <2>1. Len(t) = (2 + l) - 1 + Len(enc) /\ 2 + l \in PLACE
    BY <1>11, Zenon DEF EndsIn
  <2>2. Len(enc) \in Nat
    BY <1>3
  <2>3. Len(t) \in Nat
    BY <1>7
  <2> QED
    BY <2>1, <2>2, <2>3
<1>12b. 2 + l <= Len(t) + 1 /\ ~ (1 > Len(t))
  <2> DEFINE w == Len(t)
             h == Len(enc)
  <2>1. w = (2 + l) - 1 + h /\ h \in Nat /\ w \in Nat
    BY <1>12
  <2> HIDE DEF w, h, l
  <2>2. 2 + l <= w + 1 /\ ~ (1 > w)
    BY <1>1, <2>1
  <2> QED
    BY <2>2 DEF w
<1> HIDE DEF l
<1>13. DecodedFrom(t)[2 + l] = s
  <2>1. 1 \in 1 .. Len(s) + 1
    OBVIOUS
  <2>2. t \in Seq(Chars(C)) /\ EndsIn(t, 2 + l, EncodedFrom(s)[1])
    BY <1>7, <1>11
  <2>3. DecodedFrom(t)[2 + l] = SubSeq(s, 1, Len(s))
    BY <1>12, <2>1, <2>2, DecodesTheEncoded
  <2>4. SubSeq(s, 1, Len(s)) = s
    OBVIOUS
  <2> QED
    BY <2>3, <2>4, Zenon
<1>14. DecodedFrom(t)[2] = u \o s
  <2>1. 2 + Len(u) <= Len(t) + 1
    BY <1>12b DEF l
  <2>2. \A k \in 1 .. Len(u) : t[2 + k - 1] = u[k] /\ Plain(u[k])
    BY <1>11 DEF l
  <2>3. DecodedFrom(t)[2] = u \o DecodedFrom(t)[2 + Len(u)]
    BY <1>1, <1>7, <2>1, <2>2, DecodesThePlain
  <2> QED
    BY <1>13, <2>3 DEF l
<1>15. Decoded(t, 1) = NUL /\ Width(t, 1) = 1
  <2>1. ~ IsEscape(t, 1)
    BY <1>10, SignsDiffer, Zenon DEF IsEscape
  <2>2. Character(AMP) = NUL
    BY SignsDiffer, Zenon
  <2>3. Decoded(t, 1) = Character(t[1]) /\ Width(t, 1) = 1
    BY <2>1, Zenon DEF Decoded, Width
  <2> QED
    BY <1>10, <2>2, <2>3, Zenon
<1>16. DecodedFrom(t)[1] = << Decoded(t, 1) >> \o DecodedFrom(t)[1 + Width(t, 1)]
  <2>1. ~ (1 > Len(t))
    BY <1>12b
  <2> QED
    BY <1>1, <1>7, <2>1, DecodedFromEquation
<1>17. 1 + Width(t, 1) = 2
  BY <1>15
<1> QED
  BY <1>14, <1>15, <1>16, <1>17, Zenon DEF BehindZero

(* Where a zero and then a string that says the name is all there is, the  *)
(* value is found behind the '='.                                          *)
LEMMA FoundBehindAZero ==
  ASSUME NEW X, NUL \in X, NEW m \in Seq(X), \A k \in 1 .. Len(m) : m[k] # NUL,
         NEW name \in Seq(X), \A i \in 1 .. Len(name) : name[i] # NUL, SaysName(m, name),
         NEW buf, buf = BehindZero(m)
  PROVE  /\ get_param_value(buf, name) = Len(name) + 3
         /\ StringAt(buf, Len(name) + 3) = SubSeq(m, Len(name) + 2, Len(m))
<1> DEFINE l == Len(name)
           n == Len(m)
           z == << NUL >>
<1>1. l \in Nat /\ n \in Nat /\ 1 \in PLACE /\ 2 \in PLACE
  BY DEF PLACE
<1>2. z \in Seq(X) /\ Len(z) = 1 /\ z[1] = NUL
  OBVIOUS
<1>2b. buf = z \o m
  BY Zenon DEF BehindZero
<1> HIDE DEF z
<1>3. /\ buf \in Seq(X) /\ Len(buf) = 1 + n
      /\ \A k \in 1 .. 1 : buf[k] = z[k]
      /\ \A k \in 1 .. n : buf[1 + k] = m[k]
  <2>1. /\ z \o m \in Seq(X) /\ Len(z \o m) = Len(z) + Len(m)
        /\ \A i \in 1 .. Len(z) : (z \o m)[i] = z[i]
        /\ \A i \in 1 .. Len(m) : (z \o m)[Len(z) + i] = m[i]
    <3>1. z \in Seq(X)
      BY <1>2
    <3> QED
      BY <3>1, ConcatenationIs
  <2>2. Len(z) = 1
    BY <1>2
  <2> QED
    BY <1>2b, <2>1, <2>2, Zenon
<1>4. buf[1] = NUL
  BY <1>2, <1>3
<1>5. l < n
  BY DEF SaysName
<1>6. Holds(buf, 2, m)
  <2>1. ASSUME NEW k \in 1 .. n PROVE buf[2 + k - 1] = m[k] /\ m[k] # NUL
    <3>1. 2 + k - 1 = 1 + k
      OBVIOUS
    <3> QED
      BY <1>3, <3>1
  <2>2. Byte(buf, 2 + n) = NUL
    <3>1. ~ (2 + n <= Len(buf))
      BY <1>1, <1>3
    <3> QED
      BY <3>1, Zenon DEF Byte
  <2>3. 2 + n <= Len(buf) + 1
    BY <1>1, <1>3
  <2> QED
    BY <1>1, <2>1, <2>2, <2>3 DEF Holds
<1>7. NameAt(buf, 2, name)
  BY <1>3, <1>6, NameWhereItHolds
<1>8. ASSUME NameAt(buf, 1, name) PROVE FALSE
  <2>1. /\ \A i \in 1 .. l : Byte(buf, 1 + i - 1) = name[i]
        /\ Byte(buf, 1 + l) = EQUALS
    <3>1. buf \in Seq(X)
      BY <1>3
    <3> QED
      BY <1>1, <1>8, <3>1, NameAtIs
  <2>2. Byte(buf, 1) = NUL
    <3>1. 1 <= Len(buf)
      BY <1>1, <1>3
    <3> QED
      BY <1>4, <3>1, Zenon DEF Byte
  <2>3. CASE l = 0
    <3>1. 1 + l = 1
      BY <2>3
    <3>2. EQUALS # NUL
      BY Zenon, SignsDiffer
    <3> QED
      BY <2>1, <2>2, <3>1, <3>2, Zenon
  <2>4. CASE l # 0
    <3>1. 1 \in 1 .. l /\ 1 + 1 - 1 = 1
      BY <1>1, <2>4
    <3>2. Byte(buf, 1 + 1 - 1) = name[1]
      BY <2>1, <3>1
    <3> QED
      BY <2>2, <3>1, <3>2
  <2> QED
    BY <2>3, <2>4
<1> DEFINE F == {p \in DOMAIN buf : (p = 1 \/ buf[p - 1] = NUL) /\ NameAt(buf, p, name)}
<1>9. DOMAIN buf = 1 .. 1 + n
  BY <1>3
<1>10. 2 \in F
  <2>1. 2 \in 1 .. 1 + n /\ 2 - 1 = 1
    BY <1>1, <1>5
  <2> QED
    BY <1>4, <1>7, <1>9, <2>1
<1>11. ASSUME NEW p \in F PROVE p \in Nat /\ 2 <= p
  <2>1. p \in 1 .. 1 + n /\ p # 1
    BY <1>8, <1>9
  <2> QED
    BY <2>1
<1> HIDE DEF F
<1>12. First(F) = 2 /\ F # {}
  BY <1>10, <1>11, FirstAt
<1>13. get_param_value(buf, name) = 2 + l + 1
  <2>1. get_param_value(buf, name) = IF F = {} THEN 0 ELSE First(F) + l + 1
    BY Zenon DEF get_param_value, F
  <2> QED
    BY <1>12, <2>1
<1>14. StringAt(buf, 2 + (l + 2) - 1) = SubSeq(m, l + 2, n)
  <2>1. l + 2 \in 1 .. n + 1
    BY <1>1, <1>5
  <2>2. buf \in Seq(X)
    BY <1>3
  <2> QED
    BY <1>6, <2>1, <2>2, StringWhereItHolds
<1>15. 2 + (l + 2) - 1 = l + 3 /\ 2 + l + 1 = l + 3
  BY <1>1
<1> QED
  BY <1>13, <1>14, <1>15

(* Behind a '&', a plain name and '=', a text that url_encode made is      *)
(* found as it was.                                                        *)
LEMMA EncodedIsFound ==
  ASSUME NEW C, NUL \notin C, NEW s \in Seq(C),
         NEW name \in Seq(C), \A i \in 1 .. Len(name) : Plain(name[i]),
         NEW buf, buf = url_decode(<< AMP >> \o name \o << EQUALS >> \o url_encode(s))
  PROVE  StringAt(buf, get_param_value(buf, name)) = s
<1> DEFINE X == Chars(C)
           l == Len(name)
           n == Len(s)
           enc == url_encode(s)
           eq == << EQUALS >>
           amp == << AMP >>
           u == name \o eq
           m == u \o s
<1>1. NUL \in X /\ AMP \in X /\ EQUALS \in X /\ \A c \in C : c \in X
  BY CharsHas, Zenon DEF AMP, EQUALS
<1>2. \A c \in C : c # NUL
  OBVIOUS
<1>3. 1 \in PLACE /\ l \in Nat /\ n \in Nat
  BY DEF PLACE
<1>4. enc = EncodedFrom(s)[1]
  BY Zenon DEF url_encode
<1>5. X = Chars(C)
  OBVIOUS
<1>6. enc \in Seq(X)
  BY <1>3, <1>4, EncodedFromEquation
<1> HIDE DEF X, enc, l, n
<1>7. name \in Seq(X)
  BY <1>1
<1>8. s \in Seq(X)
  BY <1>1
<1>9. eq \in Seq(X) /\ Len(eq) = 1 /\ eq[1] = EQUALS
  BY <1>1
<1>10. amp \in Seq(X)
  BY <1>1
<1>11. buf = url_decode(amp \o name \o eq \o enc)
  BY Zenon DEF enc
<1> HIDE DEF eq, amp
<1>12. /\ u \in Seq(X) /\ Len(u) = l + 1
       /\ \A k \in 1 .. l : u[k] = name[k]
       /\ u[l + 1] = EQUALS
  <2>1. /\ u \in Seq(X) /\ Len(u) = Len(name) + Len(eq)
        /\ \A i \in 1 .. Len(name) : u[i] = name[i]
        /\ \A i \in 1 .. Len(eq) : u[Len(name) + i] = eq[i]
    BY <1>7, <1>9, ConcatenationIs, SMTT(30)
  <2>2. 1 \in 1 .. Len(eq)
    BY <1>9
  <2> QED
    BY <1>9, <2>1, <2>2 DEF l
<1>13. amp \o name \o eq \o enc = amp \o (u \o enc)
  <2>1. amp \o name \o eq = amp \o u
    BY <1>7, <1>9, <1>10, Joined
  <2> HIDE DEF u
  <2>2. (amp \o u) \o enc = amp \o (u \o enc)
    BY <1>6, <1>10, <1>12, Joined, SMTT(30)
  <2> QED
    BY <2>1, <2>2
<1> HIDE DEF u
<1>14. ASSUME NEW k \in 1 .. l + 1 PROVE Plain(u[k]) /\ u[k] # NUL
  <2>1. CASE k = l + 1
    <3>1. Plain(EQUALS) /\ EQUALS # NUL
      <4>1. Plain(EQUALS)
        BY Zenon DEF EQUALS, Plain
      <4> QED
        BY <4>1, SignsDiffer, Zenon
    <3> QED
      BY <1>12, <2>1, <3>1, Zenon
  <2>2. CASE k # l + 1
    <3>1. k \in 1 .. l
      BY <1>3, <2>2
    <3>2. u[k] = name[k]
      BY <1>12, <3>1
    <3>3. name[k] \in C /\ Plain(name[k])
      BY <3>1 DEF l
    <3> QED
      BY <1>2, <3>2, <3>3, Zenon
  <2> QED
    BY <2>1, <2>2
<1>15. buf = BehindZero(m)
  <2> DEFINE t == QueryOf(u, enc)
  <2>1. buf = DecodedFrom(t)[1]
    BY <1>11, <1>13, Zenon DEF url_decode, amp, QueryOf
  <2>2. \A k \in 1 .. Len(u) : Plain(u[k])
    BY <1>12, <1>14
  <2>2b. t = QueryOf(u, enc)
    OBVIOUS
  <2> HIDE DEF t
  <2>3. DecodedFrom(t)[1] = BehindZero(u \o s)
    <3>1. u \in Seq(X)
      BY <1>12
    <3> QED
      BY <1>4, <1>5, <2>2, <2>2b, <3>1, DecodedBehindAnAmp
  <2> QED
    BY <2>1, <2>3
<1>16. /\ m \in Seq(X) /\ Len(m) = l + 1 + n
       /\ \A k \in 1 .. l + 1 : m[k] = u[k]
       /\ \A k \in 1 .. n : m[l + 1 + k] = s[k]
  <2>1. /\ m \in Seq(X) /\ Len(m) = Len(u) + Len(s)
        /\ \A k \in 1 .. Len(u) : m[k] = u[k]
        /\ \A k \in 1 .. Len(s) : m[Len(u) + k] = s[k]
    <3>1. u \in Seq(X)
      BY <1>12
    <3> QED
      BY <1>8, <3>1, ConcatenationIs
  <2> HIDE DEF m
  <2> QED
    BY <1>12, <2>1 DEF n
<1> HIDE DEF m
<1>17. ASSUME NEW k \in 1 .. Len(m) PROVE m[k] # NUL
  <2>1. CASE k \in 1 .. l + 1
    BY <1>14, <1>16, <2>1
  <2>2. CASE ~ (k \in 1 .. l + 1)
    <3> DEFINE j == k - (l + 1)
    <3>1. j \in 1 .. n /\ l + 1 + j = k
      BY <1>3, <1>16, <2>2
    <3> HIDE DEF j
    <3>2. m[k] = s[j]
      BY <1>16, <3>1
    <3>3. s[j] \in C
      BY <3>1 DEF n
    <3> QED
      BY <1>2, <3>2, <3>3
  <2> QED
    BY <2>1, <2>2
<1>18. SaysName(m, name)
  <2>1. Len(name) < Len(m)
    BY <1>3, <1>16 DEF l
  <2>2. m[Len(name) + 1] = EQUALS
    <3>1. l + 1 \in 1 .. l + 1
      BY <1>3
    <3> QED
      BY <1>12, <1>16, <3>1 DEF l
  <2>3. ASSUME NEW i \in 1 .. Len(name) PROVE m[i] = name[i]
    <3>1. i \in 1 .. l /\ i \in 1 .. l + 1
      BY <1>3, <2>3 DEF l
    <3> QED
      BY <1>12, <1>16, <3>1
  <2> QED
    BY <2>1, <2>2, <2>3 DEF SaysName
<1>19. \A i \in 1 .. Len(name) : name[i] # NUL
  BY <1>2
<1>20. /\ get_param_value(buf, name) = Len(name) + 3
       /\ StringAt(buf, Len(name) + 3) = SubSeq(m, Len(name) + 2, Len(m))
  BY <1>1, <1>7, <1>15, <1>16, <1>17, <1>18, <1>19, FoundBehindAZero
<1>21. SubSeq(m, l + 2, Len(m)) = s
  <2> DEFINE v == SubSeq(m, l + 2, Len(m))
             b == Len(m)
  <2>1. l + 2 \in PLACE /\ b \in 0 .. Len(m) /\ l + 2 <= b + 1 /\ b - (l + 2) + 1 = n
    BY <1>3, <1>16 DEF PLACE
  <2>2. v \in Seq(X) /\ Len(v) = n /\ \A i \in 1 .. n : v[i] = m[(l + 2) + i - 1]
    BY <1>16, <2>1, PartIs
  <2> HIDE DEF v, b
  <2>3. ASSUME NEW i \in 1 .. n PROVE v[i] = s[i]
    <3>1. (l + 2) + i - 1 = l + 1 + i
      BY <1>3
    <3> QED
      BY <1>16, <2>2, <3>1
  <2>4. v = s
    BY <1>8, <2>2, <2>3, SameSequence DEF n
  <2> QED
    BY <2>4 DEF v, b
<1> QED
  BY <1>20, <1>21 DEF l

(* The value of the first parameter of a name is found, whatever escapes   *)
(* are in it, and none if there is none; what url_encode made of a text is *)
(* found as the text (get_param_value).                                    *)
THEOREM EveryParameterIsFound ==
  ASSUME NEW C, NUL \notin C, NEW s \in Seq(C),
         NEW name \in Seq(C), \A i \in 1 .. Len(name) : Plain(name[i]) /\ name[i] # EQUALS
  PROVE  ParameterIsFound(s, name)
<1> DEFINE buf == url_decode(s)
           p == get_param_value(buf, name)
           values == ValuesOf(s, name)
<1>1. 1 \in PLACE
  BY DEF PLACE
<1>2. ASSUME Sane(s)
      PROVE  IF values = << >> THEN p = 0 ELSE p # 0 /\ StringAt(buf, p) = values[1]
  <2>1. buf \in Seq(Chars(C)) /\ buf = DecodedFrom(s)[1]
    BY <1>1, DecodedFromEquation DEF url_decode
  <2> HIDE DEF buf
  <2>2. EndsIn(buf, 1, DecodedFrom(s)[1])
    BY <2>1, EndsInItself
  <2>3. 1 \in 1 .. Len(s) + 1 /\ StartsAt(s, 1)
    BY DEF StartsAt
  <2>4. Right(buf, 1, name, ValuesFrom(s, name)[1])
    BY <1>1, <1>2, <2>1, <2>2, <2>3, FindsTheFirst
  <2>5. values = ValuesFrom(s, name)[1]
    BY Zenon DEF ValuesOf
  <2> HIDE DEF values
  <2> DEFINE F == Found(buf, 1, name)
             at == First(F)
  <2>6. DOMAIN buf = 1 .. Len(buf)
    BY <2>1
  <2>7. p = IF F = {} THEN 0 ELSE at + Len(name) + 1
    BY <2>6, Zenon DEF get_param_value, Found
  <2>8. IF values = << >> THEN F = {}
        ELSE F # {} /\ StringAt(buf, at + Len(name) + 1) = values[1]
    BY <2>4, <2>5, Zenon DEF Right
  <2>9. ASSUME F # {} PROVE at \in Nat
    <3>1. \A q \in F : q \in Nat
      BY DEF Found
    <3> HIDE DEF F
    <3> QED
      BY <2>9, <3>1, FirstIs
  <2> HIDE DEF F, at, p
  <2>10. CASE F = {}
    BY <2>7, <2>8, <2>10
  <2>11. CASE F # {}
    <3>1. p = at + Len(name) + 1 /\ values # << >>
      BY <2>7, <2>8, <2>11
    <3>2. p # 0
      BY <2>9, <2>11, <3>1
    <3> QED
      BY <2>8, <3>1, <3>2
  <2> QED
    BY <2>10, <2>11
<1>3. StringAt(url_decode(<< AMP >> \o name \o << EQUALS >> \o url_encode(s)),
               get_param_value(url_decode(<< AMP >> \o name \o << EQUALS >> \o url_encode(s)), name)) = s
  BY EncodedIsFound
<1> QED
  BY <1>2, <1>3, Zenon DEF ParameterIsFound, AMP, EQUALS

-----------------------------------------------------------------------------
(* Texts that grow.                                                        *)

(* The characters a query is made of. *)
CHARS == {"x", "y", "=", "&", "%", "2", "+", " ", "6", "3", "D", "0", "B"}

TextsTyped ==
  /\ kind \in {"none", "query", "bytes", "units"}
  /\ kind = "query" => text \in Seq(CHARS)
  /\ kind = "bytes" => text \in Seq(BYTE)
  /\ kind = "units" => text \in Seq(UNIT)

(* A query stays one of characters, a string one of bytes, and the numbers *)
(* of escapes are of 16 bits.                                              *)
THEOREM TextsAreTyped == TextSpec => []TextsTyped
<1>1. TextInit => TextsTyped
  BY DEF TextInit, TextsTyped
<1>2. TextsTyped /\ [TextGrows]_texts => TextsTyped'
  <2> SUFFICES ASSUME TextsTyped, [TextGrows]_texts PROVE TextsTyped'
    OBVIOUS
  <2>1. CASE Begin("query", QuerySeeds)
    <3>1. << >> \in Seq(CHARS)
      OBVIOUS
    <3>2. << "x", "=", "y", "&" >> = << "x" >> \o << "=", "y", "&" >>
      OBVIOUS
    <3>3. << "x" >> \in Seq(CHARS) /\ << "=", "y", "&" >> \in Seq(CHARS)
      BY ShortSequences DEF CHARS
    <3>4. << "x", "=", "y", "&" >> \in Seq(CHARS)
      BY <3>2, <3>3, Concatenated
    <3>5. \A a, b, c \in CHARS : << a, b, c >> \in Seq(CHARS)
      BY ShortSequences
    <3>6. /\ << "x", "=", "%" >> \in Seq(CHARS) /\ << "2", "6", "%" >> \in Seq(CHARS)
          /\ << "2", "6", "&" >> \in Seq(CHARS)
      <4>1. \A c \in {"x", "=", "%", "2", "6", "&"} : c \in CHARS
        BY DEF CHARS
      <4> QED
        BY <3>5, <4>1
    <3>7. << "x", "=", "%", "2", "6", "%", "2", "6", "&" >>
            = (<< "x", "=", "%" >> \o << "2", "6", "%" >>) \o << "2", "6", "&" >>
      OBVIOUS
    <3>8. << "x", "=", "%", "2", "6", "%", "2", "6", "&" >> \in Seq(CHARS)
      BY <3>6, <3>7, Concatenated
    <3> QED
      BY <2>1, <3>1, <3>4, <3>8 DEF TextsTyped, Begin, QuerySeeds
  <2>2. CASE Begin("bytes", {<< >>})
    BY <2>2 DEF TextsTyped, Begin
  <2>3. CASE Begin("units", {<< >>})
    BY <2>3 DEF TextsTyped, Begin
  <2>4. CASE QueryGrows
    <3>1. PICK piece \in QueryTokens : text' = text \o piece
      BY <2>4, Zenon DEF QueryGrows, GrowBy
    <3>2. kind = "query" /\ kind' = "query"
      BY <2>4 DEF QueryGrows, GrowBy
    <3>3. piece \in Seq(CHARS)
      <4>1. \A a, b, c \in CHARS : << a >> \in Seq(CHARS) /\ << a, b, c >> \in Seq(CHARS)
        BY ShortSequences
      <4>2. \A p \in QueryTokens :
              \/ \E a \in CHARS : p = << a >>
              \/ \E a, b, c \in CHARS : p = << a, b, c >>
        <5> TAKE p \in QueryTokens
        <5>1. \/ \E a \in {"x", "y", "=", "&", "%", "2", "+", " "} : p = << a >>
              \/ \E a, b, c \in CHARS : p = << a, b, c >>
          <6>1. ASSUME p \in {<< "%", "2", "6" >>, << "%", "3", "D" >>, << "%", "0", "0" >>, << "%", "2", "B" >>}
                PROVE  \E a, b, c \in CHARS : p = << a, b, c >>
            <7>1. \A c \in {"%", "2", "6", "3", "D", "0", "B"} : c \in CHARS
              BY DEF CHARS
            <7> QED
              BY <6>1, <7>1
          <6> QED
            BY <6>1, Zenon DEF QueryTokens
        <5>2. \A c \in {"x", "y", "=", "&", "%", "2", "+", " "} : c \in CHARS
          BY DEF CHARS
        <5> QED
          BY <5>1, <5>2
      <4>3. piece \in QueryTokens
        BY <3>1
      <4>4. CASE \E a \in CHARS : piece = << a >>
        BY <4>1, <4>4
      <4>5. CASE \E a, b, c \in CHARS : piece = << a, b, c >>
        BY <4>1, <4>5
      <4> QED
        BY <4>2, <4>3, <4>4, <4>5, Zenon
    <3>4. text \in Seq(CHARS)
      BY <3>2 DEF TextsTyped
    <3>5. text' \in Seq(CHARS)
      BY <3>1, <3>3, <3>4, Concatenated
    <3> QED
      BY <3>2, <3>5 DEF TextsTyped
  <2>5. CASE BytesGrow
    <3>1. PICK piece \in {<< b >> : b \in ByteTokens} : text' = text \o piece
      BY <2>5, Zenon DEF BytesGrow, GrowBy
    <3>2. kind = "bytes" /\ kind' = "bytes"
      BY <2>5 DEF BytesGrow, GrowBy
    <3>3. piece \in Seq(BYTE)
      <4>1. \A b \in ByteTokens : b \in BYTE
        BY DEF ByteTokens, BYTE
      <4>2. \A b \in BYTE : << b >> \in Seq(BYTE)
        BY ShortSequences
      <4> QED
        BY <3>1, <4>1, <4>2
    <3>4. text \in Seq(BYTE)
      BY <3>2 DEF TextsTyped
    <3>5. text' \in Seq(BYTE)
      BY <3>1, <3>3, <3>4, Concatenated
    <3> QED
      BY <3>2, <3>5 DEF TextsTyped
  <2>6. CASE UnitsGrow
    <3>1. PICK piece \in {<< u >> : u \in UnitTokens} : text' = text \o piece
      BY <2>6, Zenon DEF UnitsGrow, GrowBy
    <3>2. kind = "units" /\ kind' = "units"
      BY <2>6 DEF UnitsGrow, GrowBy
    <3>3. piece \in Seq(UNIT)
      <4>1. \A u \in UnitTokens : u \in UNIT
        BY DEF UnitTokens, UNIT
      <4>2. \A u \in UNIT : << u >> \in Seq(UNIT)
        BY ShortSequences
      <4> QED
        BY <3>1, <4>1, <4>2
    <3>4. text \in Seq(UNIT)
      BY <3>2 DEF TextsTyped
    <3>5. text' \in Seq(UNIT)
      BY <3>1, <3>3, <3>4, Concatenated
    <3> QED
      BY <3>2, <3>5 DEF TextsTyped
  <2>7. CASE UNCHANGED texts
    BY <2>7, Zenon DEF TextsTyped, texts
  <2> QED
    BY <2>1, <2>2, <2>3, <2>4, <2>5, <2>6, <2>7, Zenon DEF TextGrows, TextBegins
<1> QED
  BY <1>1, <1>2, PTL DEF TextSpec

(* is_valid_utf8 accepts what Unicode calls well formed.                   *)
THEOREM LetsInWellFormedAlways == TextSpec => []LetsInWellFormed
<1>1. TextsTyped => LetsInWellFormed
  BY TextIsLetIn DEF TextsTyped, LetsInWellFormed
<1> QED
  BY <1>1, TextsAreTyped, PTL

(* parse_utf_16 turns escapes into the code points they name.              *)
THEOREM EscapesBecomeTextAlways == TextSpec => []EscapesBecomeText
<1>1. TextsTyped => EscapesBecomeText
  BY EscapesBecome DEF TextsTyped, EscapesBecomeText
<1> QED
  BY <1>1, TextsAreTyped, PTL

(* The names looked for are of plain characters, and no character of a     *)
(* query is the zero.                                                      *)
LEMMA NamesAreText ==
  /\ NUL \notin CHARS
  /\ \A name \in QueryNames :
       name \in Seq(CHARS) /\ \A i \in 1 .. Len(name) : Plain(name[i]) /\ name[i] # EQUALS
<1>1. NUL \notin CHARS
  BY Zenon DEF NUL, CHARS
<1>2. \A c \in {"x", "y"} : c \in CHARS /\ Plain(c) /\ c # EQUALS
  BY Zenon DEF CHARS, Plain, EQUALS
<1>3. ASSUME NEW name \in QueryNames
      PROVE  name \in Seq({"x", "y"})
  <2>1. name = << "x" >> \/ name = << "y", "x" >>
    BY DEF QueryNames
  <2>2. \A W, a, b : a \in W /\ b \in W => << a >> \in Seq(W) /\ << b, a >> \in Seq(W)
    OBVIOUS
  <2>3. << "x" >> \in Seq({"x", "y"}) /\ << "y", "x" >> \in Seq({"x", "y"})
    <3>1. "x" \in {"x", "y"} /\ "y" \in {"x", "y"}
      OBVIOUS
    <3> QED
      BY <2>2, <3>1, Zenon
  <2> QED
    BY <2>1, <2>3, Zenon
<1>4. ASSUME NEW name \in QueryNames
      PROVE  name \in Seq(CHARS) /\ \A i \in 1 .. Len(name) : Plain(name[i]) /\ name[i] # EQUALS
  <2> DEFINE W == {"x", "y"}
  <2>1. name \in Seq(W) /\ \A c \in W : c \in CHARS /\ Plain(c) /\ c # EQUALS
    BY <1>2, <1>3
  <2> HIDE DEF W
  <2> QED
    BY <2>1
<1> QED
  BY <1>1, <1>4

(* The value found for a name is that of its first parameter.              *)
THEOREM FindsTheParameterAlways == TextSpec => []FindsTheParameter
<1>1. TextsTyped => FindsTheParameter
  BY NamesAreText, EveryParameterIsFound DEF TextsTyped, FindsTheParameter
<1> QED
  BY <1>1, TextsAreTyped, PTL

(* The loops over get_param_array find all values of a name in order, then *)
(* what decoding left behind the query, and stay in the buffer.            *)
THEOREM CollectsTheListAlways == TextSpec => []CollectsTheList
<1>1. TextsTyped => CollectsTheList
  BY NamesAreText, EveryListIsCollected DEF TextsTyped, CollectsTheList
<1> QED
  BY <1>1, TextsAreTyped, PTL

-----------------------------------------------------------------------------
(* Angles. *)
LEMMA Magnitudes ==
  ASSUME NEW n \in Int
  PROVE  Magnitude(n) \in Nat /\ Magnitude(- n) = Magnitude(n)
BY DEF Magnitude

(* An angle of any number of seconds is shown as degrees, minutes and      *)
(* seconds that are that angle, with its sign if it has a degree.          *)
THEOREM EveryAngleIsShown == \A angle \in Int : AngleIsShown(angle)
<1> TAKE angle \in Int
<1> DEFINE a    == Magnitude(angle)
           sign == IF angle < 0 THEN -1 ELSE 1
           deg  == a \div 3600
           min  == (a % 3600) \div 60
           sec  == a % 60
           d    == sign * deg
<1>1. a \in Nat
  BY Magnitudes
<1>2. deg2dms(angle) = << d, min, sec >>
  BY DEF deg2dms
<1> HIDE DEF a
<1>3. /\ deg \in Nat /\ min \in 0..59 /\ sec \in 0..59
      /\ a = deg * 3600 + min * 60 + sec /\ (a >= 3600 => deg > 0)
  BY <1>1
<1> HIDE DEF deg, min, sec
<1>4. d \in Int /\ Magnitude(d) = deg /\ (deg > 0 => (angle < 0 <=> d < 0))
  BY <1>3 DEF Magnitude
<1> HIDE DEF d
<1>5. /\ deg2dms(angle)[1] = d /\ deg2dms(angle)[2] = min /\ deg2dms(angle)[3] = sec
  BY <1>2
<1>6. Magnitude(angle) = a
  BY DEF a
<1> QED
  BY <1>1, <1>3, <1>4, <1>5, <1>6 DEF AngleIsShown

-----------------------------------------------------------------------------
(* Weeks. *)
LEMMA TruncatedIs ==
  ASSUME NEW a \in Nat, NEW b \in Nat \ {0}
  PROVE  Truncated(a, b) = a \div b
BY DEF Truncated

(* A week of the receiver, in full or modulo 1024, is brought near. *)
LEMMA WeekNear ==
  ASSUME NEW base \in Nat, base >= 1560, NEW week \in Nat, week - base \in -511 .. 511
  PROVE  /\ (week % 1024) + Truncated(base - (week % 1024) + 512, 1024) * 1024 = week
         /\ week + Truncated(base - week + 512, 1024) * 1024 = week
<1> DEFINE off == week - base
           low == week % 1024
           q   == week \div 1024
           n   == 1024 * q + (512 - off)
<1>1. low \in Nat /\ low < 1024 /\ q \in Nat /\ week = 1024 * q + low /\ off \in -511 .. 511
  OBVIOUS
<1>2. base - low + 512 = n /\ base - week + 512 = 512 - off
  BY <1>1
<1> HIDE DEF low, q, off
<1>3. n \in Nat /\ 512 - off \in Nat /\ n \div 1024 = q /\ (512 - off) \div 1024 = 0
  BY <1>1
<1> HIDE DEF n
<1>4. Truncated(base - low + 512, 1024) = q /\ Truncated(base - week + 512, 1024) = 0
  <2>1. Truncated(n, 1024) = n \div 1024
    BY <1>3, TruncatedIs
  <2>2. Truncated(512 - off, 1024) = (512 - off) \div 1024
    BY <1>3, TruncatedIs
  <2> QED
    BY <1>2, <1>3, <2>1, <2>2
<1>5. /\ low + Truncated(base - low + 512, 1024) * 1024 = week
      /\ week + Truncated(base - week + 512, 1024) * 1024 = week
  BY <1>1, <1>4
<1> QED
  BY <1>5 DEF low

LEMMA WeekInFull ==
  ASSUME NEW base \in Nat, NEW week \in Nat, week - base \in 512 .. 1535
  PROVE  week + Truncated(base - week + 512, 1024) * 1024 = week
<1> DEFINE a == base - week + 512
           b == - a
<1>1. a \in Int /\ a <= 0 /\ b \in Nat /\ b < 1024 /\ (a = 0 => b = 0)
  OBVIOUS
<1> HIDE DEF a, b
<1>2. b \div 1024 = 0 /\ 0 \div 1024 = 0
  BY <1>1
<1>3. Truncated(a, 1024) = 0
  <2>1. CASE a = 0
    BY <1>2, <2>1 DEF Truncated
  <2>2. CASE a # 0
    <3>1. Truncated(a, 1024) = - (b \div 1024)
      BY <1>1, <2>2 DEF Truncated, b
    <3> QED
      BY <1>2, <3>1
  <2> QED
    BY <2>1, <2>2
<1> QED
  BY <1>3 DEF a

(* A time of any day, with its second of the day. *)
Times == {t \in [day : Int, sec : Nat] : t.sec < DAY}

Count(t) == t.day * 86400 + t.sec

LEMMA Parts ==
  ASSUME NEW t \in Times
  PROVE  t.day \in Int /\ t.sec \in Nat /\ t.sec < 86400 /\ t = [day |-> t.day, sec |-> t.sec]
BY DEF Times, DAY

LEMMA SecondsOfDay ==
  ASSUME NEW n \in Int
  PROVE  /\ n \div 86400 \in Int /\ n % 86400 \in Nat /\ n % 86400 < 86400
         /\ n = (n \div 86400) * 86400 + (n % 86400)
OBVIOUS

LEMMA Added ==
  ASSUME NEW t \in Times, NEW s \in Int
  PROVE  timeadd(t, s) \in Times /\ Count(timeadd(t, s)) = Count(t) + s
<1> DEFINE n == t.sec + s
           d == n \div 86400
           r == n % 86400
           u == [day |-> t.day + d, sec |-> r]
<1>1. t.day \in Int /\ t.sec \in Nat /\ n \in Int
  BY Parts
<1>2. timeadd(t, s) = u
  BY DEF timeadd, Time, DAY
<1> HIDE DEF n
<1>3. d \in Int /\ r \in Nat /\ r < 86400 /\ n = d * 86400 + r
  BY <1>1, SecondsOfDay
<1> HIDE DEF d, r
<1>4. u.day = t.day + d /\ u.sec = r /\ u \in [day : Int, sec : Nat]
  BY <1>1, <1>3
<1>5. u \in Times
  BY <1>3, <1>4 DEF Times, DAY
<1>6. Count(u) = Count(t) + s
  <2>1. Count(u) = (t.day + d) * 86400 + r
    BY <1>4 DEF Count
  <2>2. Count(t) = t.day * 86400 + t.sec /\ t.sec = n - s
    BY <1>1 DEF Count, n
  <2> QED
    BY <1>1, <1>3, <2>1, <2>2
<1> QED
  BY <1>2, <1>5, <1>6

LEMMA FirstWeek == gpst0 = [day |-> 3657, sec |-> 0]
BY DEF gpst0, epoch2time, Time, doy, LeapDay, DAY

LEMMA WeekOfTime ==
  ASSUME NEW week \in Nat, NEW sec \in Nat, sec < 7 * 86400
  PROVE  time2gpst(gpst2time(week, sec)) = week
<1> DEFINE d == 3657 + 7 * week
           t == [day |-> d, sec |-> 0]
           u == timeadd(t, sec)
           k == u.day - 3657
<1>1. gpst2time(week, sec) = u
  <2>1. 0 \div 86400 = 0 /\ 0 % 86400 = 0
    OBVIOUS
  <2>2. Time(d, 0) = t
    BY <2>1 DEF Time, DAY
  <2> QED
    BY <2>2, FirstWeek DEF gpst2time
<1>2. t \in Times /\ Count(t) = d * 86400
  BY DEF Times, DAY, Count
<1> HIDE DEF t
<1>3. u \in Times /\ Count(u) = d * 86400 + sec
  <2>1. sec \in Int
    OBVIOUS
  <2>2. u \in Times /\ Count(u) = Count(t) + sec
    BY <1>2, <2>1, Added
  <2> QED
    BY <1>2, <2>2
<1> HIDE DEF u
<1>4. k \in Int /\ k >= 7 * week /\ k < 7 * week + 7
  BY <1>3, Parts DEF Count
<1>5. time2gpst(gpst2time(week, sec)) = Truncated(k, 7)
  BY <1>1, FirstWeek DEF time2gpst
<1> HIDE DEF k
<1>6. k \in Nat /\ k \div 7 = week
  BY <1>4
<1> QED
  BY <1>5, <1>6, TruncatedIs

-----------------------------------------------------------------------------
(* Leap seconds. *)
LEMMA InOrder ==
  ASSUME NEW t \in Times, NEW u \in Times
  PROVE  /\ NotBefore(t, u) <=> Count(t) >= Count(u)
         /\ Count(t) \in Int
         /\ t = u <=> Count(t) = Count(u)
<1>1. /\ t.day \in Int /\ t.sec \in Nat /\ t.sec < 86400
      /\ u.day \in Int /\ u.sec \in Nat /\ u.sec < 86400
      /\ t = [day |-> t.day, sec |-> t.sec] /\ u = [day |-> u.day, sec |-> u.sec]
  BY Parts
<1>2. NotBefore(t, u) <=> Count(t) >= Count(u)
  BY <1>1 DEF NotBefore, Count
<1>3. Count(t) = Count(u) => t.day = u.day /\ t.sec = u.sec
  BY <1>1 DEF Count
<1>4. Count(t) = Count(u) => t = u
  BY <1>1, <1>3
<1> QED
  BY <1>1, <1>2, <1>4 DEF Count

(* The leap seconds, the last one first, each days before the next. *)
Midnight(d) == [day |-> d, sec |-> 0]

LEMMA MidnightIs ==
  ASSUME NEW d \in Nat
  PROVE  Midnight(d) \in Times /\ Count(Midnight(d)) = d * 86400
BY DEF Midnight, Times, DAY, Count

LEMMA FirstOfMonth ==
  ASSUME NEW y \in 1970 .. 2099
  PROVE  /\ epoch2time(<< y, 1, 1 >>) = Midnight((y - 1970) * 365 + (y - 1969) \div 4)
         /\ epoch2time(<< y, 7, 1 >>)
              = Midnight((y - 1970) * 365 + (y - 1969) \div 4 + (IF y % 4 = 0 THEN 182 ELSE 181))
<1> DEFINE k == (y - 1970) * 365 + (y - 1969) \div 4
<1>1. k \in Int
  OBVIOUS
<1>2. /\ epoch2time(<< y, 1, 1 >>) = Time(k + doy[1] + 1 - 2 + LeapDay(y, 1), 0)
      /\ epoch2time(<< y, 7, 1 >>) = Time(k + doy[7] + 1 - 2 + LeapDay(y, 7), 0)
  BY DEF epoch2time
<1> HIDE DEF k
<1>3. k + doy[1] + 1 - 2 + LeapDay(y, 1) = k
  BY <1>1 DEF doy, LeapDay
<1>4. k + doy[7] + 1 - 2 + LeapDay(y, 7) = k + (IF y % 4 = 0 THEN 182 ELSE 181)
  BY <1>1 DEF doy, LeapDay
<1>5. \A d \in Int : Time(d, 0) = Midnight(d)
  BY DEF Time, DAY, Midnight
<1>6. k + (IF y % 4 = 0 THEN 182 ELSE 181) \in Int
  BY <1>1
<1> QED
  BY <1>1, <1>2, <1>3, <1>4, <1>5, <1>6 DEF k

LEMMA LeapTimes ==
  /\ Leap[1] = Midnight(15522)
  /\ Leap[2] = Midnight(14245)
  /\ Leap[3] = Midnight(13149)
  /\ Leap[4] = Midnight(10592)
  /\ Leap[5] = Midnight(10043)
  /\ Leap[6] = Midnight(9496)
  /\ Leap[7] = Midnight(8947)
  /\ Leap[8] = Midnight(8582)
  /\ Leap[9] = Midnight(8217)
  /\ Leap[10] = Midnight(7670)
  /\ Leap[11] = Midnight(7305)
  /\ Leap[12] = Midnight(6574)
  /\ Leap[13] = Midnight(5660)
  /\ Leap[14] = Midnight(4929)
  /\ Leap[15] = Midnight(4564)
  /\ Leap[16] = Midnight(4199)
<1>1. \A i \in 1..16 : Leap[i] = epoch2time(leaps[i])
  BY DEF Leap, leaps
<1>2. Leap[1] = Midnight(15522)
  BY <1>1, FirstOfMonth DEF leaps
<1>3. Leap[2] = Midnight(14245)
  BY <1>1, FirstOfMonth DEF leaps
<1>4. Leap[3] = Midnight(13149)
  BY <1>1, FirstOfMonth DEF leaps
<1>5. Leap[4] = Midnight(10592)
  BY <1>1, FirstOfMonth DEF leaps
<1>6. Leap[5] = Midnight(10043)
  BY <1>1, FirstOfMonth DEF leaps
<1>7. Leap[6] = Midnight(9496)
  BY <1>1, FirstOfMonth DEF leaps
<1>8. Leap[7] = Midnight(8947)
  BY <1>1, FirstOfMonth DEF leaps
<1>9. Leap[8] = Midnight(8582)
  BY <1>1, FirstOfMonth DEF leaps
<1>10. Leap[9] = Midnight(8217)
  BY <1>1, FirstOfMonth DEF leaps
<1>11. Leap[10] = Midnight(7670)
  BY <1>1, FirstOfMonth DEF leaps
<1>12. Leap[11] = Midnight(7305)
  BY <1>1, FirstOfMonth DEF leaps
<1>13. Leap[12] = Midnight(6574)
  BY <1>1, FirstOfMonth DEF leaps
<1>14. Leap[13] = Midnight(5660)
  BY <1>1, FirstOfMonth DEF leaps
<1>15. Leap[14] = Midnight(4929)
  BY <1>1, FirstOfMonth DEF leaps
<1>16. Leap[15] = Midnight(4564)
  BY <1>1, FirstOfMonth DEF leaps
<1>17. Leap[16] = Midnight(4199)
  BY <1>1, FirstOfMonth DEF leaps
<1> QED
  BY <1>2, <1>3, <1>4, <1>5, <1>6, <1>7, <1>8, <1>9, <1>10, <1>11, <1>12, <1>13, <1>14, <1>15, <1>16, <1>17

(* The seconds at which a leap second had passed. *)
L(i) == Count(Leap[i])

LEMMA LeapOrder ==
  /\ DOMAIN leaps = 1..16
  /\ \A i \in 1..16 : Leap[i] \in Times /\ L(i) \in Int
  /\ \A i \in 1..16 : \A j \in 1..16 : i < j => L(j) + 100 < L(i)
<1>1. DOMAIN leaps = 1..16
  BY DEF leaps
<1>2. ASSUME NEW i \in 1..16
      PROVE  Leap[i] \in Times /\ L(i) \in Int
  <2>1. \E d \in Nat : Leap[i] = Midnight(d)
    BY LeapTimes
  <2> QED
    BY <2>1, MidnightIs DEF L
<1>3. /\ L(1) = 15522 * 86400 /\ L(2) = 14245 * 86400 /\ L(3) = 13149 * 86400
      /\ L(4) = 10592 * 86400 /\ L(5) = 10043 * 86400 /\ L(6) = 9496 * 86400
      /\ L(7) = 8947 * 86400 /\ L(8) = 8582 * 86400 /\ L(9) = 8217 * 86400
      /\ L(10) = 7670 * 86400 /\ L(11) = 7305 * 86400 /\ L(12) = 6574 * 86400
      /\ L(13) = 5660 * 86400 /\ L(14) = 4929 * 86400 /\ L(15) = 4564 * 86400
      /\ L(16) = 4199 * 86400
  BY LeapTimes, MidnightIs DEF L
<1>4. ASSUME NEW i \in 1..16, NEW j \in 1..16, i < j
      PROVE  L(j) + 100 < L(i)
  <2> HIDE DEF L
  <2> QED
    BY <1>3, <1>4
<1> QED
  BY <1>1, <1>2, <1>4

(* The leap seconds that have passed are the first to have and all before. *)
Past(t) == {i \in DOMAIN leaps : NotBefore(t, Leap[i])}

LEMMA PastIs ==
  ASSUME NEW t \in Times
  PROVE  Past(t) = {i \in 1..16 : Count(t) >= L(i)}
BY LeapOrder, InOrder DEF Past, L

LEMMA FirstOfIs ==
  ASSUME NEW S \in SUBSET (1..16), S # {}
  PROVE  FirstOf(S) \in S /\ \A j \in S : FirstOf(S) <= j
<1>1. IsWellFoundedOn(OpToRel(<, Nat), Nat)
  BY NatLessThanWellFounded, Zenon
<1>2. S \subseteq Nat
  OBVIOUS
<1>3. \E i \in S : \A j \in S : ~ (<< j, i >> \in OpToRel(<, Nat))
  BY <1>1, <1>2, WFMin, Zenon
<1>4. \A i, j \in Nat : << j, i >> \in OpToRel(<, Nat) <=> j < i
  BY Zenon DEF OpToRel
<1>5. \E i \in S : \A j \in S : ~ (j < i)
  BY <1>2, <1>3, <1>4, Zenon
<1>6. \E i \in S : \A j \in S : i <= j
  BY <1>2, <1>5
<1> QED
  BY <1>6 DEF FirstOf

(* Which leap second was the last, if so many were at all: in UTC it has   *)
(* passed, the one after it not; in GPS as many seconds later.             *)
LastIs(c, k) == k \in 1..16 /\ c >= L(k) /\ \A j \in 1..16 : j < k => c < L(j)

ToGps(c, u) ==
  \/ u = c /\ \A j \in 1..16 : c < L(j)
  \/ \E k \in 1..16 : LastIs(c, k) /\ u = c + (17 - k)

ToUtc(c, u) ==
  \/ u = c /\ \A j \in 1..16 : c - (17 - j) < L(j)
  \/ \E k \in 1..16 : /\ u = c - (17 - k) /\ u >= L(k)
                      /\ \A j \in 1..16 : j < k => c - (17 - j) < L(j)

LEMMA UtcToGps ==
  ASSUME NEW t \in Times
  PROVE  utc2gpst(t) \in Times /\ ToGps(Count(t), Count(utc2gpst(t)))
<1> DEFINE P == Past(t)
           k == FirstOf(P)
<1>1. utc2gpst(t) = IF P = {} THEN t ELSE timeadd(t, 17 - k)
  BY DEF utc2gpst, Past, Ahead
<1>2. P = {i \in 1..16 : Count(t) >= L(i)} /\ Count(t) \in Int
  BY PastIs, InOrder
<1>3. \A i \in 1..16 : L(i) \in Int
  BY LeapOrder
<1>4. P # {} => k \in P /\ \A j \in P : k <= j
  <2>1. P \in SUBSET (1..16)
    BY <1>2
  <2> HIDE DEF P
  <2> QED
    BY <2>1, FirstOfIs
<1> HIDE DEF P, k
<1>5. CASE P = {}
  <2>1. \A j \in 1..16 : Count(t) < L(j)
    BY <1>2, <1>3, <1>5
  <2> QED
    BY <1>1, <1>5, <2>1 DEF ToGps
<1>6. CASE P # {}
  <2>1. k \in 1..16 /\ Count(t) >= L(k)
    BY <1>2, <1>4, <1>6
  <2>2. \A j \in 1..16 : j < k => Count(t) < L(j)
    BY <1>2, <1>3, <1>4, <1>6, <2>1
  <2>3. 17 - k \in Int
    BY <2>1
  <2>4. timeadd(t, 17 - k) \in Times /\ Count(timeadd(t, 17 - k)) = Count(t) + (17 - k)
    BY <2>3, Added
  <2>5. utc2gpst(t) = timeadd(t, 17 - k)
    BY <1>1, <1>6
  <2> QED
    BY <2>1, <2>2, <2>4, <2>5 DEF ToGps, LastIs
<1> QED
  BY <1>5, <1>6

LEMMA GpsToUtc ==
  ASSUME NEW t \in Times
  PROVE  gpst2utc(t) \in Times /\ ToUtc(Count(t), Count(gpst2utc(t)))
<1> DEFINE P == {i \in DOMAIN leaps : NotBefore(timeadd(t, - Ahead(i)), Leap[i])}
           k == FirstOf(P)
<1>1. gpst2utc(t) = IF P = {} THEN t ELSE timeadd(t, - Ahead(k))
  BY DEF gpst2utc
<1>2. ASSUME NEW i \in 1..16
      PROVE  /\ timeadd(t, - Ahead(i)) \in Times
             /\ Count(timeadd(t, - Ahead(i))) = Count(t) - (17 - i)
             /\ NotBefore(timeadd(t, - Ahead(i)), Leap[i]) <=> Count(t) - (17 - i) >= L(i)
  <2>1. - Ahead(i) \in Int /\ Count(t) \in Int /\ Count(t) + (- Ahead(i)) = Count(t) - (17 - i)
    BY InOrder DEF Ahead
  <2>2. timeadd(t, - Ahead(i)) \in Times /\ Count(timeadd(t, - Ahead(i))) = Count(t) - (17 - i)
    BY <2>1, Added
  <2>3. Leap[i] \in Times
    BY LeapOrder
  <2> QED
    BY <2>2, <2>3, InOrder DEF L
<1>3. P = {i \in 1..16 : Count(t) - (17 - i) >= L(i)}
  BY <1>2, LeapOrder
<1>4. Count(t) \in Int /\ \A i \in 1..16 : L(i) \in Int
  BY LeapOrder, InOrder
<1>5. P # {} => k \in P /\ \A j \in P : k <= j
  <2>1. P \in SUBSET (1..16)
    BY <1>3
  <2> HIDE DEF P
  <2> QED
    BY <2>1, FirstOfIs
<1> HIDE DEF P, k
<1>6. CASE P = {}
  <2>1. \A j \in 1..16 : Count(t) - (17 - j) < L(j)
    BY <1>3, <1>4, <1>6
  <2> QED
    BY <1>1, <1>6, <2>1 DEF ToUtc
<1>7. CASE P # {}
  <2>1. k \in 1..16 /\ Count(t) - (17 - k) >= L(k)
    BY <1>3, <1>5, <1>7
  <2>2. \A j \in 1..16 : j < k => Count(t) - (17 - j) < L(j)
    BY <1>3, <1>4, <1>5, <1>7, <2>1
  <2>3. gpst2utc(t) \in Times /\ Count(gpst2utc(t)) = Count(t) - (17 - k)
    BY <1>1, <1>2, <1>7, <2>1
  <2> QED
    BY <2>1, <2>2, <2>3 DEF ToUtc
<1> QED
  BY <1>6, <1>7

(* Numbers: back and forth. *)
LEMMA BackToUtc ==
  ASSUME NEW c \in Int, NEW u \in Int, NEW d \in Int, ToGps(c, u), ToUtc(u, d)
  PROVE  d = c
<1>1. /\ \A i \in 1..16 : L(i) \in Int
      /\ \A i \in 1..16 : \A j \in 1..16 : i < j => L(j) + 100 < L(i)
  BY LeapOrder
<1> HIDE DEF L
<1>2. CASE u = c /\ \A j \in 1..16 : c < L(j)
  BY <1>1, <1>2 DEF ToUtc
<1>3. ASSUME NEW k \in 1..16, LastIs(c, k), u = c + (17 - k)
      PROVE  d = c
  <2>1. c >= L(k) /\ \A j \in 1..16 : j < k => c < L(j)
    BY <1>3 DEF LastIs
  <2>2. u - (17 - k) >= L(k)
    BY <1>1, <1>3, <2>1
  <2>3. PICK m \in 1..16 : /\ d = u - (17 - m) /\ d >= L(m)
                           /\ \A j \in 1..16 : j < m => u - (17 - j) < L(j)
    BY <1>1, <2>2 DEF ToUtc
  <2>4. m <= k
    BY <1>1, <1>3, <2>2, <2>3
  <2>5. ~ (m < k)
    BY <1>1, <1>3, <2>1, <2>3
  <2> QED
    BY <1>3, <2>3, <2>4, <2>5
<1> QED
  BY <1>2, <1>3 DEF ToGps

LEMMA BackToGps ==
  ASSUME NEW c \in Int, NEW u \in Int, NEW d \in Int, ToUtc(c, u), ToGps(u, d)
  PROVE  d = c \/ (d = c + 1 /\ \E i \in 1..16 : u = L(i))
<1>1. /\ \A i \in 1..16 : L(i) \in Int
      /\ \A i \in 1..16 : \A j \in 1..16 : i < j => L(j) + 100 < L(i)
  BY LeapOrder
<1> HIDE DEF L
<1>2. CASE u = c /\ \A j \in 1..16 : c - (17 - j) < L(j)
  <2>1. CASE d = u
    BY <1>2, <2>1
  <2>2. ASSUME NEW k \in 1..16, LastIs(u, k), d = u + (17 - k)
        PROVE  d = c + 1 /\ u = L(k)
    <3>1. u >= L(k) /\ c - (17 - 16) < L(16)
      BY <1>2, <2>2 DEF LastIs
    <3>2. k = 16
      BY <1>1, <1>2, <2>2, <3>1
    <3> QED
      BY <1>1, <1>2, <2>2, <3>1, <3>2
  <2> QED
    BY <2>1, <2>2 DEF ToGps
<1>3. ASSUME NEW k \in 1..16, u = c - (17 - k), u >= L(k),
             \A j \in 1..16 : j < k => c - (17 - j) < L(j)
      PROVE  d = c \/ (d = c + 1 /\ \E i \in 1..16 : u = L(i))
  <2>1. PICK m \in 1..16 : LastIs(u, m) /\ d = u + (17 - m)
    BY <1>1, <1>3 DEF ToGps
  <2>2. u >= L(m) /\ \A j \in 1..16 : j < m => u < L(j)
    BY <2>1 DEF LastIs
  <2>3. m <= k
    BY <1>1, <1>3, <2>1, <2>2
  <2>4. CASE m = k
    BY <1>3, <2>1, <2>4
  <2>5. CASE m < k
    <3>1. c - (17 - m) < L(m)
      BY <1>3, <2>5
    <3>2. k - 1 \in 1..16 /\ c - (17 - (k - 1)) < L(k - 1)
      BY <1>3, <2>5
    <3>3. m = k - 1
      BY <1>1, <1>3, <2>1, <2>2, <2>5, <3>2
    <3> QED
      BY <1>1, <1>3, <2>1, <2>2, <3>2, <3>3
  <2> QED
    BY <2>3, <2>4, <2>5
<1> QED
  BY <1>2, <1>3 DEF ToUtc

LEMMA PassedIs ==
  ASSUME NEW t \in Times, NEW u \in Int, ToGps(Count(t), u)
  PROVE  SecondsPassed(t) \in Int /\ u = Count(t) + SecondsPassed(t)
<1> DEFINE c == Count(t)
<1>1. /\ \A i \in 1..16 : L(i) \in Int
      /\ \A i \in 1..16 : \A j \in 1..16 : i < j => L(j) + 100 < L(i)
  BY LeapOrder
<1>2. c \in Int /\ SecondsPassed(t) = Cardinality({i \in 1..16 : c >= L(i)})
  BY PastIs, InOrder DEF SecondsPassed, Past
<1> HIDE DEF c, L
<1>3. CASE u = c /\ \A j \in 1..16 : c < L(j)
  <2>1. {i \in 1..16 : c >= L(i)} = {}
    BY <1>1, <1>2, <1>3
  <2>2. SecondsPassed(t) = 0
    BY <1>2, <2>1, FS_EmptySet
  <2> QED
    BY <1>2, <1>3, <2>2 DEF c
<1>4. ASSUME NEW k \in 1..16, LastIs(c, k), u = c + (17 - k)
      PROVE  SecondsPassed(t) \in Int /\ u = c + SecondsPassed(t)
  <2>1. c >= L(k) /\ \A j \in 1..16 : j < k => c < L(j)
    BY <1>4 DEF LastIs
  <2>2. \A i \in 1..16 : c >= L(i) <=> k <= i
    BY <1>1, <1>2, <2>1
  <2>3. {i \in 1..16 : c >= L(i)} = k..16
    BY <2>2
  <2>4. Cardinality(k..16) = 17 - k
    <3>1. k \in Int /\ 16 \in Int /\ ~ (k > 16) /\ 16 - k + 1 = 17 - k
      OBVIOUS
    <3>2. Cardinality(k..16) = IF k > 16 THEN 0 ELSE 16 - k + 1
      BY <3>1, FS_Interval
    <3> QED
      BY <3>1, <3>2
  <2>5. SecondsPassed(t) = Cardinality(k..16)
    BY <1>2, <2>3
  <2>6. SecondsPassed(t) = 17 - k
    BY <2>4, <2>5
  <2> QED
    BY <1>4, <2>6
<1> QED
  BY <1>3, <1>4 DEF ToGps, c

(* At any second GPS is ahead of UTC by the leap seconds that have passed; *)
(* gpst2utc undoes utc2gpst, and utc2gpst gpst2utc but in a leap second    *)
(* itself.                                                                 *)
THEOREM EveryLeapSecondCounts == \A t \in Times : LeapSecondsCount(t)
<1> TAKE t \in Times
<1> DEFINE g == utc2gpst(t)
           u == gpst2utc(t)
           back == utc2gpst(u)
<1>1. g \in Times /\ ToGps(Count(t), Count(g)) /\ Count(t) \in Int /\ Count(g) \in Int
  BY UtcToGps, InOrder
<1>2. utc2gpst(t) = timeadd(t, SecondsPassed(t))
  <2> DEFINE a == timeadd(t, SecondsPassed(t))
  <2>1. SecondsPassed(t) \in Int /\ Count(g) = Count(t) + SecondsPassed(t)
    BY <1>1, PassedIs
  <2>2. a \in Times /\ Count(a) = Count(t) + SecondsPassed(t)
    BY <2>1, Added
  <2> HIDE DEF a, g
  <2>3. g = a
    BY <1>1, <2>1, <2>2, InOrder
  <2> QED
    BY <2>3 DEF g, a
<1>3. gpst2utc(utc2gpst(t)) = t
  <2> DEFINE b == gpst2utc(g)
  <2>1. b \in Times /\ ToUtc(Count(g), Count(b)) /\ Count(b) \in Int
    BY <1>1, GpsToUtc, InOrder
  <2> HIDE DEF b, g
  <2>2. Count(b) = Count(t)
    BY <1>1, <2>1, BackToUtc
  <2>3. b = t
    BY <2>1, <2>2, InOrder
  <2> QED
    BY <2>3 DEF b, g
<1>4. back = t \/ (back = timeadd(t, 1) /\ u \in {Leap[i] : i \in DOMAIN leaps})
  <2>1. u \in Times /\ ToUtc(Count(t), Count(u)) /\ Count(u) \in Int
    BY GpsToUtc, InOrder
  <2>2. back \in Times /\ ToGps(Count(u), Count(back)) /\ Count(back) \in Int
    BY <2>1, UtcToGps, InOrder
  <2>3. timeadd(t, 1) \in Times /\ Count(timeadd(t, 1)) = Count(t) + 1
    BY Added
  <2> HIDE DEF u, back
  <2>4. \/ Count(back) = Count(t)
        \/ Count(back) = Count(t) + 1 /\ \E i \in 1..16 : Count(u) = L(i)
    BY <1>1, <2>1, <2>2, BackToGps
  <2>5. CASE Count(back) = Count(t)
    BY <2>2, <2>5, InOrder
  <2>6. ASSUME Count(back) = Count(t) + 1, NEW i \in 1..16, Count(u) = L(i)
        PROVE  back = timeadd(t, 1) /\ u \in {Leap[j] : j \in DOMAIN leaps}
    <3>1. back = timeadd(t, 1)
      BY <2>2, <2>3, <2>6, InOrder
    <3>2. Leap[i] \in Times /\ i \in DOMAIN leaps
      BY LeapOrder
    <3>3. u = Leap[i]
      BY <2>1, <2>6, <3>2, InOrder DEF L
    <3> QED
      BY <3>1, <3>2, <3>3
  <2> QED
    BY <2>4, <2>5, <2>6
<1> QED
  BY <1>2, <1>3, <1>4 DEF LeapSecondsCount

-----------------------------------------------------------------------------
(* Whatever the clock shows, a week of the receiver, counted in full or    *)
(* modulo 1024, that is less than 512 weeks from it (or from week 1560, if *)
(* the clock is behind that) is found; one counted in full that is later,  *)
(* as when the clock was never set, stays as it is.                        *)
THEOREM EveryWeekIsFound == \A now \in Times, off \in -511 .. 1535 : WeekIsFound(now, off)
<1> TAKE now \in Times, off \in -511 .. 1535
<1> DEFINE clock == time2gpst(utc2gpst(now))
           base  == IF clock < OLDEST THEN OLDEST ELSE clock
           week  == base + off
<1>1. clock \in Int
  <2>1. utc2gpst(now) \in Times
    BY UtcToGps
  <2>2. utc2gpst(now).day - gpst0.day \in Int
    BY <2>1, Parts, FirstWeek
  <2>3. \A a \in Int : Truncated(a, 7) \in Int
    BY DEF Truncated
  <2> QED
    BY <2>2, <2>3 DEF time2gpst
<1>2. \A w : adjgpsweek(w, now) = w + Truncated(base - w + 512, 1024) * 1024
  BY DEF adjgpsweek
<1> HIDE DEF clock
<1>3. base \in Nat /\ base >= 1560
  BY <1>1 DEF OLDEST
<1> HIDE DEF base
<1>4. week \in Nat
  BY <1>3
<1>5. off \in -511 .. 511 => adjgpsweek(week % 1024, now) = week /\ adjgpsweek(week, now) = week
  <2> SUFFICES ASSUME off \in -511 .. 511
               PROVE  adjgpsweek(week % 1024, now) = week /\ adjgpsweek(week, now) = week
    OBVIOUS
  <2>1. /\ (week % 1024) + Truncated(base - (week % 1024) + 512, 1024) * 1024 = week
        /\ week + Truncated(base - week + 512, 1024) * 1024 = week
    <3>1. base \in Nat /\ base >= 1560 /\ week \in Nat /\ week - base \in -511 .. 511
      BY <1>3, <1>4
    <3> HIDE DEF week
    <3> QED
      BY <3>1, WeekNear
  <2> HIDE DEF week
  <2> QED
    BY <1>2, <2>1
<1>6. off \in 512 .. 1535 => adjgpsweek(week, now) = week
  <2> SUFFICES ASSUME off \in 512 .. 1535 PROVE adjgpsweek(week, now) = week
    OBVIOUS
  <2>1. week + Truncated(base - week + 512, 1024) * 1024 = week
    <3>1. base \in Nat /\ week \in Nat /\ week - base \in 512 .. 1535
      BY <1>3, <1>4
    <3> HIDE DEF week
    <3> QED
      BY <3>1, WeekInFull
  <2> HIDE DEF week
  <2> QED
    BY <1>2, <2>1
<1>7. adjgpsweek(week, now) = week
  BY <1>5, <1>6
<1>8. \A sec \in {0, DAY - 1, 7 * DAY - 1} : time2gpst(gpst2time(adjgpsweek(week, now), sec)) = week
  <2> TAKE sec \in {0, DAY - 1, 7 * DAY - 1}
  <2>1. sec \in Nat /\ sec < 7 * 86400
    BY DEF DAY
  <2> HIDE DEF week
  <2> QED
    BY <1>4, <1>7, <2>1, WeekOfTime
<1>9. (off \in -512 + 1 .. 512 - 1) <=> (off \in -511 .. 511)
  OBVIOUS
<1> HIDE DEF week
<1> QED
  BY <1>5, <1>6, <1>8, <1>9 DEF WeekIsFound, clock, base, week

-----------------------------------------------------------------------------
(* The calendar.                                                           *)

(* Days from the beginning of a cycle of four years to that of a month.    *)
DaysTo(mon) ==
  << 0, 31, 59, 90, 120, 151, 181, 212, 243, 273, 304, 334,
     365, 396, 424, 455, 485, 516, 546, 577, 608, 638, 669, 699,
     730, 761, 790, 821, 851, 882, 912, 943, 974, 1004, 1035, 1065,
     1096, 1127, 1155, 1186, 1216, 1247, 1277, 1308, 1339, 1369, 1400, 1430,
     1461 >>[mon + 1]

LEMMA MonthByMonth ==
  \A mon \in 0 .. 47 : /\ DaysTo(mon) \in Nat
                       /\ mday[mon + 1] \in Nat
                       /\ DaysTo(mon + 1) = DaysTo(mon) + mday[mon + 1]
BY DEF DaysTo, mday

LEMMA CycleLength == DaysTo(0) = 0 /\ DaysTo(48) = 1461
BY DEF DaysTo

(* Months come one after another. *)
LEMMA MonthsInOrder ==
  \A k \in 0 .. 48 : /\ DaysTo(k) \in Nat
                     /\ \A mon \in 0 .. k : DaysTo(mon) <= DaysTo(k)
<1> DEFINE Good == {n \in Nat : n <= 48 => /\ DaysTo(n) \in Nat
                                           /\ \A mon \in 0 .. n : DaysTo(mon) <= DaysTo(n)}
<1>1. 0 \in Good
  BY CycleLength
<1>2. ASSUME NEW n \in Nat, n \in Good PROVE n + 1 \in Good
  <2> SUFFICES ASSUME n + 1 <= 48
               PROVE  /\ DaysTo(n + 1) \in Nat
                      /\ \A mon \in 0 .. n + 1 : DaysTo(mon) <= DaysTo(n + 1)
    OBVIOUS
  <2>1. n \in 0 .. 47 /\ 0 .. n \subseteq 0 .. 47
    BY <1>2
  <2>2. /\ DaysTo(n) \in Nat /\ mday[n + 1] \in Nat
        /\ DaysTo(n + 1) = DaysTo(n) + mday[n + 1]
    BY <2>1, MonthByMonth
  <2>3. \A mon \in 0 .. n : DaysTo(mon) <= DaysTo(n)
    BY <1>2
  <2>4. ASSUME NEW mon \in 0 .. n PROVE DaysTo(mon) \in Nat
    BY <2>1, MonthByMonth
  <2>5. DaysTo(n + 1) \in Nat
    BY <2>2
  <2>6. ASSUME NEW mon \in 0 .. n + 1 PROVE DaysTo(mon) <= DaysTo(n + 1)
    <3>1. CASE mon = n + 1
      BY <2>5, <3>1
    <3>2. CASE mon \in 0 .. n
      BY <2>2, <2>3, <2>4, <3>2
    <3> QED
      BY <3>1, <3>2
  <2> QED
    BY <2>5, <2>6
<1>3. \A n \in Nat : n \in Good => n + 1 \in Good
  BY <1>2
<1> HIDE DEF Good
<1>4. Nat \subseteq Good
  BY <1>1, <1>3, Induct
<1> QED
  BY <1>4 DEF Good

LEMMA MonthsGoneEquation ==
  ASSUME NEW days
  PROVE  /\ MonthsGone(days)[0] = << 0, days >>
         /\ \A n \in Nat : MonthsGone(days)[n + 1] =
              IF /\ MonthsGone(days)[n][1] = n
                 /\ MonthsGone(days)[n][2] >= mday[n + 1]
              THEN << n + 1, MonthsGone(days)[n][2] - mday[n + 1] >>
              ELSE MonthsGone(days)[n]
<1> DEFINE left == MonthsGone(days)
           Step(l, mon) == IF l[1] = mon - 1 /\ l[2] >= mday[mon]
                           THEN << mon, l[2] - mday[mon] >> ELSE l
<1>1. NatInductiveDefHypothesis(left, << 0, days >>, Step)
  BY DEF NatInductiveDefHypothesis, MonthsGone
<1>2. NatInductiveDefConclusion(left, << 0, days >>, Step)
  BY <1>1, NatInductiveDef
<1>3. left = [mon \in Nat |-> IF mon = 0 THEN << 0, days >> ELSE Step(left[mon - 1], mon)]
  BY <1>2 DEF NatInductiveDefConclusion
<1> HIDE DEF left
<1>4. left[0] = << 0, days >>
  BY <1>3
<1>5. ASSUME NEW n \in Nat
      PROVE  left[n + 1] = IF left[n][1] = n /\ left[n][2] >= mday[n + 1]
                           THEN << n + 1, left[n][2] - mday[n + 1] >> ELSE left[n]
  <2>1. n + 1 \in Nat /\ n + 1 # 0 /\ (n + 1) - 1 = n
    OBVIOUS
  <2>2. left[n + 1] = Step(left[n], n + 1)
    BY <1>3, <2>1, Zenon
  <2> QED
    BY <2>1, <2>2
<1> QED
  BY <1>4, <1>5 DEF left

(* A day of a cycle lies in the month that begins last before it. *)
LEMMA MonthFound ==
  ASSUME NEW k \in 0 .. 47, NEW days \in Nat,
         days >= DaysTo(k), days < DaysTo(k + 1)
  PROVE  MonthsGone(days)[48] = << k, days - DaysTo(k) >>
<1> DEFINE left == MonthsGone(days)
           Good == {n \in Nat : n <= 48 =>
                      left[n] = IF n <= k THEN << n, days - DaysTo(n) >>
                                ELSE << k, days - DaysTo(k) >>}
<1>1. left[0] = << 0, days >>
  BY MonthsGoneEquation
<1>2. \A n \in Nat : left[n + 1] =
        IF left[n][1] = n /\ left[n][2] >= mday[n + 1]
        THEN << n + 1, left[n][2] - mday[n + 1] >> ELSE left[n]
  BY MonthsGoneEquation
<1> HIDE DEF left
<1>3. 0 \in Good
  BY <1>1, CycleLength
<1>4. ASSUME NEW n \in Nat, n \in Good PROVE n + 1 \in Good
  <2> SUFFICES ASSUME n + 1 <= 48
               PROVE  left[n + 1] = IF n + 1 <= k THEN << n + 1, days - DaysTo(n + 1) >>
                                    ELSE << k, days - DaysTo(k) >>
    OBVIOUS
  <2>1. /\ DaysTo(n) \in Nat /\ mday[n + 1] \in Nat
        /\ DaysTo(n + 1) = DaysTo(n) + mday[n + 1]
    BY MonthByMonth, SMTT(30)
  <2>2. DaysTo(k) \in Nat /\ mday[k + 1] \in Nat /\ DaysTo(k + 1) = DaysTo(k) + mday[k + 1]
    BY MonthByMonth
  <2>3. left[n] = IF n <= k THEN << n, days - DaysTo(n) >> ELSE << k, days - DaysTo(k) >>
    BY <1>4
  <2>4. CASE n + 1 <= k
    <3>1. DaysTo(n + 1) <= DaysTo(k)
      BY <2>4, MonthsInOrder
    <3>2. left[n][1] = n /\ left[n][2] = days - DaysTo(n)
      BY <2>3, <2>4
    <3>3. days - DaysTo(n) >= mday[n + 1]
      BY <2>1, <2>2, <3>1
    <3>4. left[n + 1] = << n + 1, (days - DaysTo(n)) - mday[n + 1] >>
      BY <1>2, <3>2, <3>3
    <3>5. (days - DaysTo(n)) - mday[n + 1] = days - DaysTo(n + 1)
      BY <2>1
    <3> QED
      BY <2>4, <3>4, <3>5
  <2>5. CASE n = k
    <3>1. left[n] = << k, days - DaysTo(k) >>
      BY <2>3, <2>5
    <3>2. ~ (left[n][2] >= mday[n + 1])
      BY <2>2, <2>5, <3>1
    <3>3. left[n + 1] = << k, days - DaysTo(k) >>
      BY <1>2, <3>1, <3>2
    <3> QED
      BY <2>5, <3>3
  <2>6. CASE n > k
    <3>1. left[n] = << k, days - DaysTo(k) >>
      BY <2>3, <2>6
    <3>2. left[n][1] # n
      BY <2>6, <3>1
    <3>3. left[n + 1] = << k, days - DaysTo(k) >>
      BY <1>2, <3>1, <3>2
    <3> QED
      BY <2>6, <3>3
  <2> QED
    BY <2>4, <2>5, <2>6
<1>5. \A n \in Nat : n \in Good => n + 1 \in Good
  BY <1>4
<1> HIDE DEF Good
<1>6. Nat \subseteq Good
  BY <1>3, <1>5, Induct
<1>7. 48 \in Good
  BY <1>6
<1>8. left[48] = IF 48 <= k THEN << 48, days - DaysTo(48) >> ELSE << k, days - DaysTo(k) >>
  BY <1>7 DEF Good
<1>9. ~ (48 <= k)
  OBVIOUS
<1> QED
  BY <1>8, <1>9, Zenon DEF left

Years  == 1970 .. 2099
Months == 1 .. 12

LEMMA YearsAre == \A y \in Int : y \in Years <=> y >= 1970 /\ y <= 2099
BY DEF Years

LEMMA MonthsAre == \A m \in Int : m \in Months <=> m >= 1 /\ m <= 12
BY DEF Months

(* The first day of a month, as epoch2time counts it. *)
FirstDay(y, m) == (y - 1970) * 365 + (y - 1969) \div 4 + doy[m] - 1 + LeapDay(y, m)

(* The day lies so many days behind the first one of the month.            *)
OnDate(day, date) ==
  \E y \in Years, m \in Months : \E d \in Nat :
    d >= 1 /\ d <= DaysOf(y, m) /\ date = << y, m, d >> /\ day = FirstDay(y, m) + d - 1

(* The code's rule for leap years is that of the calendar until 2099.      *)
LEMMA EveryFourthYear ==
  ASSUME NEW y \in Years
  PROVE  IsLeapYear(y) <=> y % 4 = 0
<1>1. (y % 100) = 0 => y = 2000
  BY DEF Years
<1>2. (2000 % 400) = 0
  OBVIOUS
<1> QED
  BY <1>1, <1>2 DEF IsLeapYear

LEMMA MonthLength ==
  ASSUME NEW y \in Years, NEW m \in Months
  PROVE  /\ DaysOf(y, m) \in Nat /\ DaysOf(y, m) >= 28 /\ DaysOf(y, m) <= 31
         /\ DaysOf(y, m) = IF m = 2 /\ y % 4 = 0 THEN 29 ELSE mday[m]
<1>1. m \in {1, 2, 3, 4, 5, 6, 7, 8, 9, 10, 11, 12}
  BY DEF Months
<1>2. IsLeapYear(y) <=> y % 4 = 0
  BY EveryFourthYear
<1> QED
  BY <1>1, <1>2 DEF DaysOf, mday

LEMMA FirstDayIs ==
  ASSUME NEW y \in Int, NEW m \in Months
  PROVE  /\ doy[m] \in Nat /\ LeapDay(y, m) \in {0, 1} /\ FirstDay(y, m) \in Int
<1>1. doy[m] \in Nat
  BY DEF doy, Months
<1>2. LeapDay(y, m) \in {0, 1}
  BY DEF LeapDay
<1> QED
  BY <1>1, <1>2 DEF FirstDay

(* A month begins when the one before it is over. *)
LEMMA NextMonth ==
  ASSUME NEW y \in Years, NEW m \in Months, m < 12
  PROVE  FirstDay(y, m + 1) = FirstDay(y, m) + DaysOf(y, m)
<1>1. DaysOf(y, m) = IF m = 2 /\ y % 4 = 0 THEN 29 ELSE mday[m]
  BY MonthLength
<1>2. m \in {1, 2, 3, 4, 5, 6, 7, 8, 9, 10, 11}
  BY DEF Months
<1>3. doy[m + 1] - doy[m] = mday[m]
  BY <1>2 DEF doy, mday
<1>4. doy[m + 1] \in Nat /\ doy[m] \in Nat /\ mday[m] \in Nat
  BY <1>2 DEF doy, mday
<1>5. LeapDay(y, m + 1) = LeapDay(y, m) + (IF m = 2 /\ y % 4 = 0 THEN 1 ELSE 0)
  BY <1>2 DEF LeapDay
<1>6. m = 2 => mday[m] = 28
  BY DEF mday
<1>7. LeapDay(y, m) \in {0, 1}
  BY DEF LeapDay
<1>8. (y - 1970) * 365 + (y - 1969) \div 4 \in Int
  BY YearsAre DEF Years
<1> QED
  BY <1>1, <1>3, <1>4, <1>5, <1>6, <1>7, <1>8 DEF FirstDay

LEMMA NextYear ==
  ASSUME NEW y \in Years
  PROVE  FirstDay(y + 1, 1) = FirstDay(y, 12) + DaysOf(y, 12)
<1>1. DaysOf(y, 12) = 31 /\ doy[1] = 1 /\ doy[12] = 335
  BY MonthLength DEF mday, doy, Months
<1>2. LeapDay(y + 1, 1) = 0 /\ LeapDay(y, 12) = IF y % 4 = 0 THEN 1 ELSE 0
  BY DEF LeapDay
<1>3. ((y + 1) - 1969) \div 4 = (y - 1969) \div 4 + (IF y % 4 = 0 THEN 1 ELSE 0)
  BY DEF Years
<1>4. y \in Int /\ (y - 1969) \div 4 \in Int
  BY DEF Years
<1>5. FirstDay(y + 1, 1) = (y - 1969) * 365 + ((y + 1) - 1969) \div 4
  BY <1>1, <1>2, <1>4 DEF FirstDay
<1>6. FirstDay(y, 12) = (y - 1970) * 365 + (y - 1969) \div 4 + 334 + (IF y % 4 = 0 THEN 1 ELSE 0)
  BY <1>1, <1>2, <1>4 DEF FirstDay
<1> DEFINE q == (y - 1969) \div 4
<1> HIDE DEF q
<1>7. q \in Int
  BY <1>4 DEF q
<1>8. /\ FirstDay(y + 1, 1) = (y - 1969) * 365 + (q + (IF y % 4 = 0 THEN 1 ELSE 0))
      /\ FirstDay(y, 12) = (y - 1970) * 365 + q + 334 + (IF y % 4 = 0 THEN 1 ELSE 0)
  BY <1>3, <1>5, <1>6 DEF q
<1> QED
  BY <1>1, <1>4, <1>7, <1>8

(* From one day to the next, the date stays that of the day. *)
LEMMA DateFollows ==
  ASSUME NEW day \in Int, day < 24854, NEW date, OnDate(day, date)
  PROVE  OnDate(day + 1, NextDate(date))
<1>1. PICK y \in Years, m \in Months : \E d \in Nat :
             d >= 1 /\ d <= DaysOf(y, m) /\ date = << y, m, d >> /\ day = FirstDay(y, m) + d - 1
  BY DEF OnDate
<1>2. PICK d \in Nat :
             d >= 1 /\ d <= DaysOf(y, m) /\ date = << y, m, d >> /\ day = FirstDay(y, m) + d - 1
  BY <1>1
<1>3. DaysOf(y, m) \in Nat /\ y \in Int /\ m \in Int /\ m >= 1 /\ m <= 12
  <2>1. DaysOf(y, m) \in Nat
    BY MonthLength
  <2> QED
    BY <2>1 DEF Years, Months
<1>4. FirstDay(y, m) \in Int
  BY <1>3, FirstDayIs
<1>5. date[1] = y /\ date[2] = m /\ date[3] = d
  BY <1>2
<1>6. CASE d < DaysOf(y, m)
  <2>1. NextDate(date) = << y, m, d + 1 >>
    BY <1>5, <1>6 DEF NextDate
  <2>2. /\ d + 1 \in Nat /\ d + 1 >= 1 /\ d + 1 <= DaysOf(y, m)
        /\ day + 1 = FirstDay(y, m) + (d + 1) - 1
    BY <1>2, <1>3, <1>4, <1>6
  <2> QED
    BY <2>1, <2>2 DEF OnDate
<1>7. CASE d = DaysOf(y, m) /\ m < 12
  <2>1. NextDate(date) = << y, m + 1, 1 >>
    BY <1>3, <1>5, <1>7 DEF NextDate
  <2>2. m + 1 \in Months
    BY <1>3, <1>7, MonthsAre
  <2>3. 1 \in Nat /\ 1 >= 1 /\ 1 <= DaysOf(y, m + 1)
    BY <2>2, MonthLength
  <2>4. FirstDay(y, m + 1) = FirstDay(y, m) + DaysOf(y, m)
    BY <1>7, NextMonth
  <2>5. day + 1 = FirstDay(y, m + 1) + 1 - 1
    BY <1>2, <1>3, <1>4, <1>7, <2>4
  <2> QED
    BY <2>1, <2>2, <2>3, <2>5 DEF OnDate
<1>8. CASE d = DaysOf(y, m) /\ m = 12
  <2>1. NextDate(date) = << y + 1, 1, 1 >>
    BY <1>3, <1>5, <1>8 DEF NextDate
  <2>2. FirstDay(y + 1, 1) = FirstDay(y, 12) + DaysOf(y, 12)
    BY NextYear
  <2>3. day + 1 = FirstDay(y + 1, 1) + 1 - 1
    BY <1>2, <1>3, <1>4, <1>8, <2>2
  <2>4. y + 1 # 2100
    <3>1. FirstDay(2100, 1) = 47482
      BY DEF FirstDay, doy, LeapDay
    <3> QED
      BY <2>3, <3>1
  <2>5. y + 1 \in Years
    BY <1>3, <2>4, YearsAre
  <2>6. 1 \in Months
    BY MonthsAre
  <2>7. 1 \in Nat /\ 1 >= 1 /\ 1 <= DaysOf(y + 1, 1)
    BY <2>5, <2>6, MonthLength
  <2> QED
    BY <2>1, <2>3, <2>5, <2>6, <2>7 DEF OnDate
<1> QED
  BY <1>2, <1>3, <1>6, <1>7, <1>8

(* In a cycle of four years that begins with 1970, the months are those of *)
(* the code's table.                                                       *)
LEMMA MonthOfCycle ==
  ASSUME NEW r \in {0, 1, 2, 3}, NEW m \in Months
  PROVE  /\ DaysTo(12 * r + m - 1)
              = 365 * r + (IF r = 3 THEN 1 ELSE 0) + doy[m] - 1 + (IF r = 2 /\ m >= 3 THEN 1 ELSE 0)
         /\ mday[12 * r + m] = IF m = 2 /\ r = 2 THEN 29 ELSE mday[m]
<1>1. m \in {1, 2, 3, 4, 5, 6, 7, 8, 9, 10, 11, 12}
  BY DEF Months
<1> QED
  BY <1>1 DEF DaysTo, doy, mday

(* The year is the one numbered r, from 0, of the cycle numbered c.        *)
InCycle(y, m, c, r) ==
  /\ r <= 3 /\ y = 1970 + 4 * c + r
  /\ FirstDay(y, m) = 1461 * c + DaysTo(12 * r + m - 1)
  /\ DaysOf(y, m) = mday[12 * r + m]

LEMMA YearOfCycle ==
  ASSUME NEW y \in Years, NEW m \in Months
  PROVE  \E c, r \in Nat : InCycle(y, m, c, r)
<1> DEFINE c == (y - 1970) \div 4
           r == (y - 1970) % 4
<1>1. y \in Int /\ y >= 1970 /\ m \in Int
  BY DEF Years, Months
<1>2. c \in Nat /\ r \in {0, 1, 2, 3} /\ y = 1970 + 4 * c + r
  BY <1>1
<1>3. (y - 1969) \div 4 = c + (IF r = 3 THEN 1 ELSE 0)
  BY <1>1
<1>4. y % 4 = 0 <=> r = 2
  BY <1>1
<1> HIDE DEF c, r
<1>5. doy[m] \in Nat
  BY FirstDayIs, <1>1
<1>6. LeapDay(y, m) = IF r = 2 /\ m >= 3 THEN 1 ELSE 0
  BY <1>4, Zenon DEF LeapDay
<1>7. FirstDay(y, m) = (y - 1970) * 365 + (c + (IF r = 3 THEN 1 ELSE 0)) + doy[m] - 1
                         + (IF r = 2 /\ m >= 3 THEN 1 ELSE 0)
  BY <1>3, <1>6 DEF FirstDay
<1>8. DaysTo(12 * r + m - 1) = 365 * r + (IF r = 3 THEN 1 ELSE 0) + doy[m] - 1
                                 + (IF r = 2 /\ m >= 3 THEN 1 ELSE 0)
  BY <1>2, MonthOfCycle
<1>9. FirstDay(y, m) = 1461 * c + DaysTo(12 * r + m - 1)
  BY <1>2, <1>5, <1>7, <1>8
<1>10. DaysOf(y, m) = mday[12 * r + m]
  <2>1. DaysOf(y, m) = IF m = 2 /\ y % 4 = 0 THEN 29 ELSE mday[m]
    BY MonthLength
  <2>2. mday[12 * r + m] = IF m = 2 /\ r = 2 THEN 29 ELSE mday[m]
    BY <1>2, MonthOfCycle
  <2> QED
    BY <1>4, <2>1, <2>2
<1>11. c \in Nat /\ r \in Nat /\ r <= 3
  BY <1>2
<1>12. InCycle(y, m, c, r)
  BY <1>2, <1>9, <1>10, <1>11 DEF InCycle
<1> QED
  BY <1>11, <1>12, Zenon

(* A date and its day are found from each other. *)
LEMMA DateKept ==
  ASSUME NEW day \in Nat, NEW date, OnDate(day, date)
  PROVE  DateIsKept(day, date)
<1>1. PICK y \in Years, m \in Months : \E d \in Nat :
             d >= 1 /\ d <= DaysOf(y, m) /\ date = << y, m, d >> /\ day = FirstDay(y, m) + d - 1
  BY DEF OnDate
<1>2. PICK d \in Nat :
             d >= 1 /\ d <= DaysOf(y, m) /\ date = << y, m, d >> /\ day = FirstDay(y, m) + d - 1
  BY <1>1
<1>3. y \in Int /\ y >= 1970 /\ y <= 2099 /\ m \in Int /\ m >= 1 /\ m <= 12
  BY DEF Years, Months
<1>4. Time(day, 0) = [day |-> day, sec |-> 0]
  BY DEF Time, DAY
<1>5. epoch2time(date) = Time(day, 0)
  <2>1. epoch2time(<< y, m, d >>) = Time((y - 1970) * 365 + (y - 1969) \div 4 + doy[m] + d - 2
                                          + LeapDay(y, m), 0)
    BY DEF epoch2time, Years, Months
  <2>2. (y - 1970) * 365 + (y - 1969) \div 4 + doy[m] + d - 2 + LeapDay(y, m) = FirstDay(y, m) + d - 1
    <3>1. doy[m] \in Nat /\ LeapDay(y, m) \in Int
      BY <1>3, FirstDayIs
    <3> DEFINE q == (y - 1970) * 365 + (y - 1969) \div 4
               a == doy[m]
               l == LeapDay(y, m)
    <3>2. q \in Int /\ a \in Int /\ l \in Int
      BY <1>3, <3>1
    <3> HIDE DEF q, a, l
    <3>3. q + a + d - 2 + l = (q + a - 1 + l) + d - 1
      BY <3>2
    <3>4. FirstDay(y, m) = q + a - 1 + l
      BY DEF FirstDay, q, a, l
    <3>5. q + a + d - 2 + l = FirstDay(y, m) + d - 1
      BY <3>3, <3>4
    <3> QED
      BY <3>5 DEF q, a, l
  <2> QED
    BY <1>2, <2>1, <2>2
<1>6. PICK c, r \in Nat : InCycle(y, m, c, r)
  BY YearOfCycle, Zenon
<1>7. /\ r <= 3 /\ y = 1970 + 4 * c + r
      /\ FirstDay(y, m) = 1461 * c + DaysTo(12 * r + m - 1)
      /\ DaysOf(y, m) = mday[12 * r + m]
  BY <1>6 DEF InCycle
<1> DEFINE k == 12 * r + m - 1
           n == DaysTo(k) + d - 1
<1>8. k \in 0 .. 47 /\ k + 1 = 12 * r + m
  BY <1>3, <1>7
<1>9. /\ DaysTo(k) \in Nat /\ mday[k + 1] \in Nat
      /\ DaysTo(k + 1) = DaysTo(k) + mday[k + 1]
  BY <1>8, MonthByMonth
<1>10. DaysTo(k + 1) <= 1461
  <2>1. k + 1 \in 0 .. 48
    BY <1>8
  <2> HIDE DEF k
  <2>2. DaysTo(k + 1) <= DaysTo(48)
    BY <2>1, MonthsInOrder
  <2> QED
    BY <2>2, CycleLength
<1>11. DaysOf(y, m) = mday[k + 1] /\ FirstDay(y, m) = 1461 * c + DaysTo(k)
  BY <1>7, <1>8
<1>12. k \div 12 = r /\ k % 12 = m - 1
  BY <1>3, <1>7
<1> HIDE DEF k
<1>13. /\ n \in Nat /\ n >= DaysTo(k) /\ n < DaysTo(k + 1) /\ n < 1461
       /\ day = 1461 * c + n /\ n - DaysTo(k) = d - 1
  BY <1>2, <1>9, <1>10, <1>11
<1> HIDE DEF n
<1>14. day % 1461 = n /\ day \div 1461 = c
  BY <1>13
<1>15. MonthsGone(n)[48] = << k, d - 1 >>
  BY <1>8, <1>13, MonthFound
<1>16. time2epoch(Time(day, 0)) = << 1970 + c * 4 + k \div 12, (k % 12) + 1, (d - 1) + 1 >>
  BY <1>4, <1>14, <1>15 DEF time2epoch
<1>17. 1970 + c * 4 + k \div 12 = y /\ (k % 12) + 1 = m /\ (d - 1) + 1 = d
  BY <1>2, <1>3, <1>7, <1>12
<1>18. time2epoch(Time(day, 0)) = date
  BY <1>2, <1>16, <1>17
<1> QED
  BY <1>5, <1>18 DEF DateIsKept

-----------------------------------------------------------------------------
(* The days of Calendar. *)

(* The date is that of the day.  It is said by the place of the date in    *)
(* its month, since that is what the next date follows from; what the code *)
(* makes of day and date follows then.                                     *)
CalendarInv ==
  /\ today = [day |-> today.day, date |-> today.date]
  /\ today.day \in Int /\ today.day >= -1 /\ today.day <= LASTDAY
  /\ IF today.day = -1 THEN today.date = << 1969, 12, 31 >> ELSE OnDate(today.day, today.date)

LEMMA LastDayIs == LASTDAY \in Nat /\ LASTDAY <= 24854
BY LastDayAssumption

LEMMA CalendarInitInv ==
  ASSUME DaysInit
  PROVE  CalendarInv
BY LastDayIs DEF DaysInit, CalendarInv

LEMMA CalendarStepInv ==
  ASSUME CalendarInv, [NextDay]_today
  PROVE  CalendarInv'
<1>1. CASE UNCHANGED today
  BY <1>1 DEF CalendarInv
<1>2. CASE NextDay
  <2> DEFINE day  == today.day
             date == today.date
  <2>1. day \in Int /\ day >= -1 /\ day < LASTDAY /\ LASTDAY \in Int /\ LASTDAY <= 24854
    BY <1>2, LastDayIs DEF CalendarInv, NextDay
  <2>2. today' = [day |-> day + 1, date |-> NextDate(date)]
    BY <1>2 DEF NextDay
  <2>3. OnDate(day + 1, NextDate(date))
    <3>1. CASE day = -1
      <4>1. date = << 1969, 12, 31 >>
        BY <3>1 DEF CalendarInv
      <4>2. NextDate(date) = << 1970, 1, 1 >>
        BY <4>1 DEF NextDate, DaysOf
      <4>3. 1970 \in Years /\ 1 \in Months
        BY DEF Years, Months
      <4>4. FirstDay(1970, 1) = 0
        BY DEF FirstDay, doy, LeapDay
      <4>5. 1 <= DaysOf(1970, 1)
        BY DEF DaysOf
      <4>6. day + 1 = FirstDay(1970, 1) + 1 - 1
        BY <3>1, <4>4
      <4> QED
        BY <4>2, <4>3, <4>5, <4>6 DEF OnDate
    <3>2. CASE day # -1
      <4>1. OnDate(day, date)
        BY <3>2 DEF CalendarInv
      <4> QED
        BY <2>1, <4>1, DateFollows
    <3> QED
      BY <3>1, <3>2
  <2>4. day + 1 \in Int /\ day + 1 >= -1 /\ day + 1 <= LASTDAY /\ day + 1 # -1
    BY <2>1
  <2> QED
    BY <2>2, <2>3, <2>4 DEF CalendarInv
<1> QED
  BY <1>1, <1>2

(* Every day has the date that the code gives it, and is the day that the  *)
(* code makes of that date.                                                *)
THEOREM DatesAreKept == DaysSpec => []KeepsTheCalendar
<1>1. CalendarInv => KeepsTheCalendar
  <2> SUFFICES ASSUME CalendarInv, Begun PROVE DateIsKept(today.day, today.date)
    BY DEF KeepsTheCalendar
  <2>1. today.day \in Nat /\ OnDate(today.day, today.date)
    BY DEF CalendarInv, Begun
  <2> QED
    BY <2>1, DateKept
<1> QED
  BY <1>1, CalendarInitInv, CalendarStepInv, PTL DEF DaysSpec

LEMMA DayIsTime ==
  ASSUME NEW day \in Int, NEW sec \in Nat, sec < 86400
  PROVE  Time(day, sec) \in Times
<1>1. sec \div 86400 = 0 /\ sec % 86400 = sec
  OBVIOUS
<1>2. Time(day, sec) = [day |-> day, sec |-> sec]
  BY <1>1 DEF Time, DAY
<1> QED
  BY <1>2 DEF Times, DAY

(* Leap seconds are counted on both sides of midnight of every day. *)
THEOREM LeapSecondsAreCounted == DaysSpec => []CountsLeapSeconds
<1>1. CalendarInv => CountsLeapSeconds
  <2> SUFFICES ASSUME CalendarInv,
                      NEW sec \in {0, 1, 14, 15, 16, 86383, 86384, 86385, 86399}
               PROVE  LeapSecondsCount(Time(today.day, sec))
    BY DEF CountsLeapSeconds
  <2>1. today.day \in Int /\ sec \in Nat /\ sec < 86400
    BY DEF CalendarInv
  <2>2. Time(today.day, sec) \in Times
    BY <2>1, DayIsTime
  <2> QED
    BY <2>2, EveryLeapSecondCounts
<1> QED
  BY <1>1, CalendarInitInv, CalendarStepInv, PTL DEF DaysSpec

(* The week is found from the clock on every Sunday. *)
THEOREM WeeksAreFound == DaysSpec => []FindsTheWeek
<1>1. CalendarInv => FindsTheWeek
  <2> SUFFICES ASSUME CalendarInv, NEW off \in {-511, -1, 0, 1, 511, 512, 1535}
               PROVE  WeekIsFound(Time(today.day, 0), off)
    BY DEF FindsTheWeek
  <2>1. today.day \in Int
    BY DEF CalendarInv
  <2>2. Time(today.day, 0) \in Times
    BY <2>1, DayIsTime
  <2>3. off \in -511 .. 1535
    OBVIOUS
  <2> QED
    BY <2>2, <2>3, EveryWeekIsFound
<1> QED
  BY <1>1, CalendarInitInv, CalendarStepInv, PTL DEF DaysSpec

(* An angle of as many seconds as days have gone by is shown as it is. *)
THEOREM AnglesAreShown == DaysSpec => []ShowsTheAngle
<1>1. CalendarInv => ShowsTheAngle
  <2> SUFFICES ASSUME CalendarInv PROVE AngleIsShown(today.day - LASTDAY \div 2)
    BY DEF ShowsTheAngle
  <2>1. today.day - LASTDAY \div 2 \in Int
    <3>1. today.day \in Int
      BY DEF CalendarInv
    <3>2. LASTDAY \div 2 \in Int
      BY LastDayIs
    <3> QED
      BY <3>1, <3>2
  <2> QED
    BY <2>1, EveryAngleIsShown
<1> QED
  BY <1>1, CalendarInitInv, CalendarStepInv, PTL DEF DaysSpec

=============================================================================
