----------------------------- MODULE FilterProofs -----------------------------
(***************************************************************************)
(* Proofs about Filter, for filters of any number of rules, any addresses, *)
(* prefixes and ports, words of any width, and packets of any length.      *)
(*                                                                         *)
(* Every block a builder emits has the same parts: it puts the base behind *)
(* one tag, checks how far it reaches, and tests fields one after the      *)
(* other.  So the position in a block says what the packet has passed, a   *)
(* packet that reaches so far and has passed all tests meets the block's   *)
(* rule, and one that is too short or failed a test does not: a block      *)
(* reaches exactly as far as the last field its rule asks about.           *)
(***************************************************************************)
EXTENDS Filter, SequenceTheorems, WellFoundedInduction, TLAPS

(***************************************************************************)
(* Numbers.                                                                *)
(***************************************************************************)
LEMMA Induction ==
    ASSUME NEW S, 0 \in S, \A n \in Nat : n \in S => n + 1 \in S
    PROVE  Nat \subseteq S
<1> SUFFICES ASSUME Nat \ S # {} PROVE FALSE
    OBVIOUS
<1> DEFINE R == OpToRel(<, Nat)
<1>1. IsWellFoundedOn(R, Nat)
    BY NatLessThanWellFounded
<1>2. \A x, y \in Nat : <<x, y>> \in R <=> x < y
    BY DEF OpToRel
<1> HIDE DEF R
<1>3. PICK m \in Nat \ S : \A k \in Nat \ S : ~(<<k, m>> \in R)
    BY <1>1, WFMin, Zenon
<1>4. m # 0 /\ m - 1 \in Nat /\ m - 1 < m
    OBVIOUS
<1>5. m - 1 \notin S
    BY <1>4
<1> QED BY <1>2, <1>3, <1>4, <1>5

LEMMA DivMod ==
    ASSUME NEW n \in Nat \ {0}, NEW a \in Int
    PROVE  a \div n \in Int /\ a % n \in 0..(n - 1) /\ a = n * (a \div n) + (a % n)
OBVIOUS

LEMMA AtLeastOnce ==
    ASSUME NEW n \in Nat \ {0}, NEW k \in Int, k >= 1
    PROVE  n * k >= n
OBVIOUS

LEMMA Distributes ==
    ASSUME NEW n \in Int, NEW a \in Int, NEW b \in Int
    PROVE  n * (a - b) = n * a - n * b
OBVIOUS

\* Quotient and remainder are unique.
LEMMA DivModUnique ==
    ASSUME NEW n \in Nat \ {0}, NEW q \in Int, NEW r \in 0..(n - 1)
    PROVE  (n * q + r) \div n = q /\ (n * q + r) % n = r
<1> DEFINE a == n * q + r
<1>1. a \in Int
    OBVIOUS
<1>2. a \div n \in Int /\ a % n \in 0..(n - 1) /\ a = n * (a \div n) + (a % n)
    BY <1>1, DivMod
<1> DEFINE k == q - (a \div n)
<1>3. k \in Int /\ n * k = (a % n) - r
    <2>1. n * k = n * q - n * (a \div n)
        BY <1>2, Distributes
    <2> QED BY <2>1, <1>2
<1> HIDE DEF k
<1>4. k = 0
    <2>1. CASE k >= 1
        BY <2>1, <1>2, <1>3, AtLeastOnce
    <2>2. CASE k <= -1
        <3>1. n * (0 - k) = 0 - n * k
            BY <1>3
        <3>2. n * (0 - k) >= n
            BY <2>2, <1>3, AtLeastOnce
        <3> QED BY <1>2, <1>3, <3>1, <3>2
    <2> QED BY <1>3, <2>1, <2>2
<1>5. a \div n = q /\ a % n = r
    <2> HIDE DEF a
    <2>1. q - (a \div n) = 0
        BY <1>4 DEF k
    <2>2. (a % n) - r = 0
        <3>1. n * k = 0
            BY <1>4
        <3> QED BY <1>3, <3>1
    <2>3. \A x, y \in Int : x - y = 0 => x = y
        OBVIOUS
    <2>4. a \div n \in Int /\ a % n \in Int
        BY <1>2
    <2>5. q = a \div n
        BY <2>1, <2>3, <2>4, Zenon
    <2>6. r \in Int
        OBVIOUS
    <2> QED BY <2>2, <2>3, <2>4, <2>5, <2>6, Zenon
<1> QED BY <1>5

\* Pow2 is what its definition says.
LEMMA Pow2ByNumber == Pow2[0] = 1 /\ \A n \in Nat : Pow2[n + 1] = 2 * Pow2[n]
<1> DEFINE Body(f, n) == [i \in 0..n |-> IF i = 0 THEN 1 ELSE 2 * f[i - 1]]
<1> DEFINE T == {n \in Nat : \E f : f = Body(f, n)}
<1>1. 0 \in T
    <2> DEFINE f == [i \in 0..0 |-> 1]
    <2>1. f = Body(f, 0)
        OBVIOUS
    <2> QED BY <2>1
<1>2. ASSUME NEW n \in Nat, n \in T PROVE n + 1 \in T
    <2>1. PICK f : f = Body(f, n)
        BY <1>2
    <2> DEFINE g == [i \in 0..(n + 1) |-> IF i = n + 1 THEN 2 * f[n] ELSE f[i]]
    <2>2. \A i \in 0..(n + 1) : g[i] = IF i = 0 THEN 1 ELSE 2 * g[i - 1]
        <3> SUFFICES ASSUME NEW i \in 0..(n + 1) PROVE g[i] = IF i = 0 THEN 1 ELSE 2 * g[i - 1]
            OBVIOUS
        <3>1. CASE i = n + 1
            <4>1. i # 0 /\ i - 1 = n /\ n \in 0..(n + 1) /\ n # n + 1
                BY <3>1
            <4>2. g[i] = 2 * f[n] /\ g[n] = f[n]
                BY <3>1, <4>1
            <4> QED BY <4>1, <4>2
        <3>2. CASE i # n + 1
            <4>1. i \in 0..n /\ g[i] = f[i]
                BY <3>2
            <4>2. f[i] = IF i = 0 THEN 1 ELSE 2 * f[i - 1]
                BY <2>1, <4>1
            <4>3. i # 0 => g[i - 1] = f[i - 1]
                BY <4>1
            <4> QED BY <4>1, <4>2, <4>3
        <3> QED BY <3>1, <3>2
    <2>3. g = Body(g, n + 1)
        BY <2>2
    <2> HIDE DEF g
    <2> HIDE DEF Body
    <2> QED BY <2>3
<1>3. Nat \subseteq T
    <2> HIDE DEF T
    <2> QED BY <1>1, <1>2, Induction
<1> DEFINE upTo(n) == CHOOSE f : f = Body(f, n)
<1>4. \A n \in Nat : upTo(n) = Body(upTo(n), n)
    <2> SUFFICES ASSUME NEW n \in Nat PROVE upTo(n) = Body(upTo(n), n)
        OBVIOUS
    <2>1. \E f : f = Body(f, n)
        BY <1>3
    <2> HIDE DEF Body
    <2> QED BY <2>1
<1>5. \A n \in Nat : \A i \in 0..n : upTo(n)[i] = IF i = 0 THEN 1 ELSE 2 * upTo(n)[i - 1]
    <2> SUFFICES ASSUME NEW n \in Nat, NEW i \in 0..n
                 PROVE  upTo(n)[i] = IF i = 0 THEN 1 ELSE 2 * upTo(n)[i - 1]
        OBVIOUS
    <2>1. upTo(n) = Body(upTo(n), n)
        BY <1>4
    <2> HIDE DEF upTo
    <2> QED BY <2>1
<1> HIDE DEF upTo
<1> DEFINE U == {i \in Nat : \A m, n \in Nat : i <= m /\ i <= n => upTo(m)[i] = upTo(n)[i]}
<1>6. Nat \subseteq U
    <2>1. 0 \in U
        <3>1. \A n \in Nat : upTo(n)[0] = 1
            BY <1>5
        <3> QED BY <3>1
    <2>2. ASSUME NEW i \in Nat, i \in U PROVE i + 1 \in U
        <3> SUFFICES ASSUME NEW m \in Nat, NEW n \in Nat, i + 1 <= m, i + 1 <= n
                     PROVE  upTo(m)[i + 1] = upTo(n)[i + 1]
            OBVIOUS
        <3>1. upTo(m)[i] = upTo(n)[i]
            BY <2>2
        <3>2. \A k \in {m, n} : i + 1 \in 0..k /\ i + 1 # 0 /\ (i + 1) - 1 = i
            OBVIOUS
        <3>3. \A k \in {m, n} : upTo(k)[i + 1] = 2 * upTo(k)[i]
            BY <1>5, <3>2
        <3> QED BY <3>1, <3>3
    <2> HIDE DEF U
    <2> QED BY <2>1, <2>2, Induction
<1> DEFINE p == [n \in Nat |-> upTo(n)[n]]
<1>7. p[0] = 1
    BY <1>5
<1>8. \A n \in Nat : p[n + 1] = 2 * p[n]
    <2> SUFFICES ASSUME NEW n \in Nat PROVE p[n + 1] = 2 * p[n]
        OBVIOUS
    <2>1. n + 1 \in Nat /\ n + 1 \in 0..(n + 1) /\ n + 1 # 0 /\ (n + 1) - 1 = n /\ n <= n /\ n <= n + 1
        OBVIOUS
    <2>2. upTo(n + 1)[n + 1] = 2 * upTo(n + 1)[n]
        BY <1>5, <2>1
    <2>3. upTo(n + 1)[n] = upTo(n)[n]
        BY <1>6, <2>1
    <2>4. p[n + 1] = upTo(n + 1)[n + 1] /\ p[n] = upTo(n)[n]
        BY <2>1
    <2> QED BY <2>2, <2>3, <2>4
<1>9. p = [n \in Nat |-> IF n = 0 THEN 1 ELSE 2 * p[n - 1]]
    <2>1. \A n \in Nat : p[n] = IF n = 0 THEN 1 ELSE 2 * p[n - 1]
        <3> SUFFICES ASSUME NEW n \in Nat, n # 0 PROVE p[n] = 2 * p[n - 1]
            BY <1>7
        <3>1. n - 1 \in Nat /\ (n - 1) + 1 = n
            OBVIOUS
        <3> HIDE DEF p
        <3> QED BY <1>8, <3>1
    <2> QED BY <2>1
<1> HIDE DEF p
<1>10. Pow2 = [n \in Nat |-> IF n = 0 THEN 1 ELSE 2 * Pow2[n - 1]]
    BY <1>9 DEF Pow2
<1>11. ASSUME NEW n \in Nat PROVE Pow2[n + 1] = 2 * Pow2[n]
    <2>1. n + 1 \in Nat /\ n + 1 # 0 /\ (n + 1) - 1 = n
        OBVIOUS
    <2> QED BY <1>10, <2>1
<1> QED BY <1>10, <1>11

LEMMA Pow2Positive == \A n \in Nat : Pow2[n] \in Nat \ {0}
<1> DEFINE T == {n \in Nat : Pow2[n] \in Nat \ {0}}
<1>1. 0 \in T
    BY Pow2ByNumber
<1>2. ASSUME NEW n \in Nat, n \in T PROVE n + 1 \in T
    BY <1>2, Pow2ByNumber
<1>3. Nat \subseteq T
    <2> HIDE DEF T
    <2> QED BY <1>1, <1>2, Induction
<1> QED BY <1>3

(***************************************************************************)
(* Words of an address and their leading bits.                             *)
(***************************************************************************)
LEMMA Halved ==
    ASSUME NEW a \in Nat, NEW d \in Nat \ {0}
    PROVE  a \div d = 2 * (a \div (2 * d)) + ((a \div d) % 2)
OBVIOUS

LEMMA BelowIsZero ==
    ASSUME NEW d \in Nat \ {0}, NEW a \in 0..(d - 1)
    PROVE  a \div d = 0
OBVIOUS

\* Two words agree on their first c bits exactly when they are equal without
\* the others.
LEMMA LeadingBits ==
    ASSUME NEW w \in Nat, NEW a \in 0..(Pow2[w] - 1), NEW b \in 0..(Pow2[w] - 1), NEW c \in 0..w
    PROVE  (\A j \in 0..(c - 1) : (a \div Pow2[(w - 1) - j]) % 2 = (b \div Pow2[(w - 1) - j]) % 2)
               <=> a \div Pow2[w - c] = b \div Pow2[w - c]
<1> DEFINE BitsOf(x, j) == (x \div Pow2[(w - 1) - j]) % 2
<1> DEFINE Leading(x, n) == x \div Pow2[w - n]
<1> DEFINE T == {n \in Nat : n <= w => ((\A j \in 0..(n - 1) : BitsOf(a, j) = BitsOf(b, j)) <=> Leading(a, n) = Leading(b, n))}
<1>1. Pow2[w] \in Nat \ {0} /\ a \in Nat /\ b \in Nat
    BY Pow2Positive
<1>2. 0 \in T
    <2>1. w - 0 = w
        OBVIOUS
    <2>2. Leading(a, 0) = 0 /\ Leading(b, 0) = 0
        BY <1>1, <2>1, BelowIsZero
    <2> QED BY <2>2
<1>3. ASSUME NEW n \in Nat, n \in T PROVE n + 1 \in T
    <2> SUFFICES ASSUME n + 1 <= w
                 PROVE  (\A j \in 0..((n + 1) - 1) : BitsOf(a, j) = BitsOf(b, j)) <=> Leading(a, n + 1) = Leading(b, n + 1)
        OBVIOUS
    <2> DEFINE d == Pow2[w - (n + 1)]
    <2>1. w - (n + 1) \in Nat /\ (w - (n + 1)) + 1 = w - n /\ (w - 1) - n = w - (n + 1)
        OBVIOUS
    <2>2. d \in Nat \ {0} /\ Pow2[w - n] = 2 * d
        BY <2>1, Pow2Positive, Pow2ByNumber
    <2>3. /\ Leading(a, n + 1) = a \div d /\ Leading(a, n) = a \div (2 * d) /\ BitsOf(a, n) = (a \div d) % 2
          /\ Leading(b, n + 1) = b \div d /\ Leading(b, n) = b \div (2 * d) /\ BitsOf(b, n) = (b \div d) % 2
        BY <2>1, <2>2
    <2>4. /\ Leading(a, n + 1) = 2 * Leading(a, n) + BitsOf(a, n)
          /\ Leading(b, n + 1) = 2 * Leading(b, n) + BitsOf(b, n)
        BY <1>1, <2>2, <2>3, Halved, ZenonT(60)
    <2>5. /\ Leading(a, n) \in Int /\ BitsOf(a, n) \in 0..1
          /\ Leading(b, n) \in Int /\ BitsOf(b, n) \in 0..1
        <3>1. \A x \in Nat : x \div (2 * d) \in Int /\ (x \div d) % 2 \in 0..1
            BY <2>2
        <3> QED BY <1>1, <2>3, <3>1
    <2>6. (\A j \in 0..(n - 1) : BitsOf(a, j) = BitsOf(b, j)) <=> Leading(a, n) = Leading(b, n)
        BY <1>3
    <2>7. (\A j \in 0..((n + 1) - 1) : BitsOf(a, j) = BitsOf(b, j))
              <=> (\A j \in 0..(n - 1) : BitsOf(a, j) = BitsOf(b, j)) /\ BitsOf(a, n) = BitsOf(b, n)
        <3>1. 0..((n + 1) - 1) = 0..(n - 1) \cup {n}
            OBVIOUS
        <3> HIDE DEF BitsOf
        <3> QED BY <3>1
    <2>8. Leading(a, n + 1) = Leading(b, n + 1) <=> Leading(a, n) = Leading(b, n) /\ BitsOf(a, n) = BitsOf(b, n)
        <3> HIDE DEF BitsOf, Leading
        <3> QED BY <2>4, <2>5
    <2> HIDE DEF BitsOf, Leading
    <2> QED BY <2>6, <2>7, <2>8
<1>4. c \in T
    <2>1. Nat \subseteq T
        <3> HIDE DEF T
        <3> QED BY <1>2, <1>3, Induction
    <2> QED BY <2>1
<1> QED BY <1>4

Covering(bits) == (bits + WordBits - 1) \div WordBits
Spared(bits, i) == Larger(0, i * WordBits - bits)

\* An address is in a prefix exactly when each word the prefix covers agrees
\* with it on the bits it covers.
LEMMA InsideByWords ==
    ASSUME NEW n \in Nat \ {0}, NEW addr \in [1..n -> Words], NEW net \in [1..n -> Words],
           NEW bits \in 0..(n * WordBits)
    PROVE  /\ Covering(bits) \in 0..n
           /\ \A i \in 1..Covering(bits) : Spared(bits, i) \in 0..(WordBits - 1)
           /\ (\A k \in 0..(bits - 1) : Bit(addr, k) = Bit(net, k))
                  <=> \A i \in 1..Covering(bits) :
                         addr[i] \div Pow2[Spared(bits, i)] = net[i] \div Pow2[Spared(bits, i)]
<1> DEFINE m == Covering(bits)
<1>1. WordBits \in Nat \ {0} /\ bits \in Nat /\ n * WordBits \in Nat
    BY FilterAssumption
<1>2. m \in Int /\ m * WordBits >= bits /\ (m - 1) * WordBits < bits
    <2> DEFINE a == bits + WordBits - 1
    <2>0. a \in Int
        BY <1>1
    <2>1. a \div WordBits \in Int /\ a % WordBits \in 0..(WordBits - 1)
          /\ a = WordBits * (a \div WordBits) + (a % WordBits)
        <3> HIDE DEF a
        <3> QED BY <1>1, <2>0, DivMod
    <2>2. m = a \div WordBits
        BY DEF Covering
    <2> DEFINE r == a % WordBits
    <2>3. m \in Int /\ r \in 0..(WordBits - 1) /\ bits + WordBits - 1 = WordBits * m + r
        BY <2>1, <2>2
    <2> HIDE DEF a, r, m
    <2>4. WordBits * m = m * WordBits /\ (m - 1) * WordBits = m * WordBits - WordBits
        BY <1>1, <2>3
    <2> QED BY <1>1, <2>3, <2>4
<1>3. m \in 0..n
    <2>1. m >= 0
        <3>1. ASSUME m <= -1 PROVE FALSE
            <4>1. (0 - m) * WordBits = 0 - m * WordBits /\ (0 - m) >= 1 /\ WordBits * (0 - m) >= WordBits
                BY <1>1, <1>2, <3>1, AtLeastOnce
            <4>2. WordBits * (0 - m) = (0 - m) * WordBits
                BY <1>1, <1>2
            <4> HIDE DEF m
            <4> QED BY <1>1, <1>2, <4>1, <4>2
        <3> QED BY <1>2, <3>1
    <2>2. m <= n
        <3>1. ASSUME m >= n + 1 PROVE FALSE
            <4>1. ((m - 1) - n) * WordBits = (m - 1) * WordBits - n * WordBits /\ ((m - 1) - n) * WordBits >= 0
                BY <1>1, <1>2, <3>1, SMTT(60)
            <4> HIDE DEF m
            <4> QED BY <1>1, <1>2, <4>1
        <3> QED BY <1>2, <3>1
    <2> QED BY <1>2, <2>1, <2>2
<1> HIDE DEF m
<1>4. ASSUME NEW i \in 1..m
      PROVE  /\ Spared(bits, i) \in 0..(WordBits - 1)
             /\ \A j \in 0..(WordBits - 1) : j < WordBits - Spared(bits, i) <=> (i - 1) * WordBits + j < bits
    <2>1. (i - 1) * WordBits = i * WordBits - WordBits /\ i * WordBits \in Int
        BY <1>1, <1>3
    <2>2. (i - 1) * WordBits <= (m - 1) * WordBits
        <3>1. ((m - 1) - (i - 1)) * WordBits = (m - 1) * WordBits - (i - 1) * WordBits
              /\ ((m - 1) - (i - 1)) * WordBits >= 0
            BY <1>1, <1>3
        <3>2. (m - 1) * WordBits \in Int /\ (i - 1) * WordBits \in Int
            BY <1>1, <1>3
        <3> QED BY <3>1, <3>2
    <2>3. (i - 1) * WordBits < bits
        BY <1>1, <1>2, <1>3, <2>1, <2>2
    <2> DEFINE z == i * WordBits
    <2>4. z \in Int /\ (i - 1) * WordBits = z - WordBits /\ z - WordBits < bits /\ Spared(bits, i) = IF 0 > z - bits THEN 0 ELSE z - bits
        BY <2>1, <2>3 DEF Spared, Larger
    <2> HIDE DEF z
    <2> QED BY <1>1, <2>4
<1> DEFINE Same(k) == Bit(addr, k) = Bit(net, k)
<1> DEFINE BitOf(x, j) == (x \div Pow2[(WordBits - 1) - j]) % 2
<1> DEFINE Agree(i) == addr[i] \div Pow2[Spared(bits, i)] = net[i] \div Pow2[Spared(bits, i)]
<1>5. ASSUME NEW i \in 1..m, NEW j \in 0..(WordBits - 1)
      PROVE  Same((i - 1) * WordBits + j) <=> BitOf(addr[i], j) = BitOf(net[i], j)
    <2> DEFINE k == (i - 1) * WordBits + j
    <2>1. k \div WordBits = i - 1 /\ k % WordBits = j
        <3>1. i - 1 \in Int /\ (i - 1) * WordBits = WordBits * (i - 1)
            BY <1>1, <1>3
        <3> QED BY <1>1, <3>1, DivModUnique
    <2>2. (i - 1) + 1 = i
        BY <1>3
    <2> HIDE DEF k
    <2>3. Bit(addr, k) = BitOf(addr[i], j) /\ Bit(net, k) = BitOf(net[i], j)
        BY <2>1, <2>2 DEF Bit
    <2> QED BY <2>3 DEF k
<1>6. ASSUME NEW i \in 1..m
      PROVE  Agree(i) <=> \A j \in 0..(WordBits - 1) : j < WordBits - Spared(bits, i) => BitOf(addr[i], j) = BitOf(net[i], j)
    <2> DEFINE c == WordBits - Spared(bits, i)
    <2>1. c \in 0..WordBits /\ WordBits - c = Spared(bits, i) /\ i \in 1..n
        BY <1>1, <1>3, <1>4
    <2>2. addr[i] \in 0..(Pow2[WordBits] - 1) /\ net[i] \in 0..(Pow2[WordBits] - 1)
        BY <2>1 DEF Words
    <2> HIDE DEF c
    <2>3. (\A j \in 0..(c - 1) : BitOf(addr[i], j) = BitOf(net[i], j)) <=> Agree(i)
        <3> DEFINE x == addr[i]
        <3> DEFINE y == net[i]
        <3> HIDE DEF x, y
        <3>1. (\A j \in 0..(c - 1) : (x \div Pow2[(WordBits - 1) - j]) % 2 = (y \div Pow2[(WordBits - 1) - j]) % 2)
                  <=> x \div Pow2[WordBits - c] = y \div Pow2[WordBits - c]
            <4>1. WordBits \in Nat /\ c \in 0..WordBits
                  /\ x \in 0..(Pow2[WordBits] - 1) /\ y \in 0..(Pow2[WordBits] - 1)
                BY <1>1, <2>1, <2>2 DEF x, y
            <4> QED BY <4>1, LeadingBits, Zenon
        <3> QED BY <2>1, <3>1, Zenon DEF x, y
    <2>4. 0..(c - 1) = {j \in 0..(WordBits - 1) : j < c}
        BY <1>1, <2>1
    <2> HIDE DEF BitOf, Agree
    <2>5. (\A j \in 0..(c - 1) : BitOf(addr[i], j) = BitOf(net[i], j))
              <=> \A j \in 0..(WordBits - 1) : j < c => BitOf(addr[i], j) = BitOf(net[i], j)
        BY <2>4
    <2> QED BY <2>3, <2>5 DEF c
<1>7. ASSUME \A k \in 0..(bits - 1) : Same(k), NEW i \in 1..m PROVE Agree(i)
    <2>1. ASSUME NEW j \in 0..(WordBits - 1), j < WordBits - Spared(bits, i) PROVE BitOf(addr[i], j) = BitOf(net[i], j)
        <3>1. (i - 1) * WordBits + j < bits
            BY <1>4, <2>1
        <3>2. (i - 1) * WordBits \in Nat
            BY <1>1, <1>3
        <3>3. (i - 1) * WordBits + j \in 0..(bits - 1)
            BY <1>1, <3>1, <3>2
        <3> HIDE DEF Same, BitOf
        <3>4. Same((i - 1) * WordBits + j)
            BY <1>7, <3>3
        <3> QED BY <1>5, <3>4
    <2> HIDE DEF Agree, BitOf
    <2> QED BY <1>6, <2>1
<1>8. ASSUME \A i \in 1..m : Agree(i), NEW k \in 0..(bits - 1) PROVE Same(k)
    <2> DEFINE q == k \div WordBits
    <2> DEFINE j == k % WordBits
    <2>0. k \in Int
        BY <1>1
    <2>1. q \in Int /\ j \in 0..(WordBits - 1) /\ k = WordBits * q + j
        BY <1>1, <2>0, DivMod, Zenon
    <2> HIDE DEF q, j
    <2>2. WordBits * q = q * WordBits /\ (q + 1) - 1 = q
        BY <1>1, <2>1
    <2>3. q >= 0
        <3>1. ASSUME q <= -1 PROVE FALSE
            <4>1. WordBits * (0 - q) >= WordBits /\ WordBits * (0 - q) = 0 - WordBits * q
                BY <1>1, <2>1, <3>1, AtLeastOnce
            <4>2. WordBits * q \in Int
                BY <1>1, <2>1
            <4> QED BY <1>1, <2>1, <4>1, <4>2
        <3> QED BY <2>1, <3>1
    <2>4. q + 1 <= m
        <3>1. ASSUME q >= m PROVE FALSE
            <4>1. (q - m) * WordBits = q * WordBits - m * WordBits /\ (q - m) * WordBits >= 0
                BY <1>1, <1>3, <2>1, <3>1
            <4>2. q * WordBits \in Int /\ m * WordBits \in Int
                BY <1>1, <1>3, <2>1
            <4> QED BY <1>1, <1>2, <2>1, <2>2, <4>1, <4>2
        <3> QED BY <1>3, <2>1, <3>1
    <2>5. q + 1 \in 1..m
        BY <1>3, <2>1, <2>3, <2>4
    <2>6. ((q + 1) - 1) * WordBits + j = k
        BY <1>1, <2>1, <2>2
    <2>7. j < WordBits - Spared(bits, q + 1)
        <3>1. k < bits
            BY <1>1
        <3> QED BY <1>4, <2>1, <2>5, <2>6, <3>1
    <2>8. BitOf(addr[q + 1], j) = BitOf(net[q + 1], j)
        <3> HIDE DEF BitOf, Agree
        <3> QED BY <1>6, <1>8, <2>1, <2>5, <2>7
    <2> HIDE DEF Same, BitOf
    <2>9. Same(((q + 1) - 1) * WordBits + j)
        BY <1>5, <2>1, <2>5, <2>8
    <2> QED BY <2>6, <2>9
<1> HIDE DEF Same, Agree
<1>9. (\A k \in 0..(bits - 1) : Same(k)) <=> \A i \in 1..m : Agree(i)
    BY <1>7, <1>8
<1> QED BY <1>3, <1>4, <1>9 DEF Same, Agree, m

(***************************************************************************)
(* What a test sees, with the base behind the first tag.                   *)
(***************************************************************************)
Skip == IF packet.tags = 0 THEN 0 ELSE 4

Reaches(n) == Skip + n <= packet.len

\* The offsets of a block count the Ethernet header.
LEMMA ReachesMeans ==
    ASSUME Sane(packet), NEW n \in Nat
    PROVE  Reaches(14 + n) <=> Carries(n)
BY DEF Reaches, Carries, Skip, Sane

LEMMA ReachesLess ==
    ASSUME Sane(packet), NEW n \in 14..64, Reaches(n)
    PROVE  Reaches(14)
BY DEF Reaches, Skip, Sane

LEMMA HeaderEnds ==
    ASSUME NEW v4 \in BOOLEAN, Type = EtherType(v4)
    PROVE  14 + IPHeader = AddrEnd(v4) /\ 14 + IPHeader = L4Off(v4) /\ IPHeader \in Nat
BY DEF IPHeader, EtherType, AddrEnd, L4Off, EtIPv4, EtIPv6

LEMMA PortEnds ==
    ASSUME Sane(packet), NEW v4 \in BOOLEAN, Type = EtherType(v4), NEW s \in BOOLEAN
    PROVE  HasPort(s) <=> L4Present /\ Reaches(PortOff(v4, s) + 2)
<1> DEFINE n == IPHeader + IF s THEN 2 ELSE 4
<1>1. n \in Nat /\ 14 + n = PortOff(v4, s) + 2
    BY HeaderEnds DEF PortOff
<1>2. HasPort(s) <=> L4Present /\ Carries(n)
    BY DEF HasPort
<1> HIDE DEF n
<1> QED BY <1>1, <1>2, ReachesMeans

Passes(t) == (Field(t.off) \div t.div) % t.mod \in t.vals

AllPass(tests)       == \A i \in 1..Len(tests) : Passes(tests[i])
Within(tests, reach) == \A i \in 1..Len(tests) : tests[i].off + tests[i].width <= reach

Tests == [op : {"test"}, off : Nat, width : Nat, div : Nat \ {0}, mod : Nat \ {0}, vals : SUBSET Int]

LEMMA FieldsByName ==
    ASSUME Sane(packet), base = Skip
    PROVE  /\ Field(12) = Type
           /\ Type = EtIPv4 =>
                  /\ Field(14) = 64 + packet.ihl /\ Field(20) = packet.frag /\ Field(23) = packet.proto
                  /\ Field(26) = packet.src[1] /\ Field(30) = packet.dst[1]
                  /\ L4Present => Field(34) = packet.l4[1] /\ Field(36) = packet.l4[2]
                  /\ Field(34) \in Halves /\ Field(36) \in Halves
           /\ Type = EtIPv6 =>
                  /\ Field(20) = packet.proto
                  /\ Field(22) = packet.src[1] /\ Field(26) = packet.src[2]
                  /\ Field(30) = packet.src[3] /\ Field(34) = packet.src[4]
                  /\ Field(38) = packet.dst[1] /\ Field(42) = packet.dst[2]
                  /\ Field(46) = packet.dst[3] /\ Field(50) = packet.dst[4]
                  /\ L4Present => Field(54) = packet.l4[1] /\ Field(56) = packet.l4[2]
                  /\ Field(54) \in Halves /\ Field(56) \in Halves
<1> DEFINE tags == packet.tags
<1>1. /\ tags \in Nat /\ packet.ether \in Halves /\ packet.ether # EtVLAN
      /\ packet.l4 \in [1..2 -> Halves] /\ packet.stray \in Halves
    BY DEF Sane
<1>2. base = IF tags = 0 THEN 0 ELSE 4
    BY DEF Skip
<1> HIDE DEF tags
<1>3. CASE tags <= 1
    <2>1. base = 4 * tags /\ Type = packet.ether
        BY <1>1, <1>2, <1>3 DEF Type, tags
    <2>2. Field(12) = packet.ether
        <3>1. ~(base < 4 * tags) /\ 12 = 12
            BY <1>1, <2>1
        <3> QED BY <2>1, <3>1, Zenon DEF Field, tags
    <2>3. ASSUME packet.ether = EtIPv4 PROVE \A off \in Nat \ {12} : Field(off) = V4Field(off)
        BY <2>1, <2>3 DEF Field, EtIPv4, EtIPv6, tags
    <2>4. ASSUME packet.ether = EtIPv6 PROVE \A off \in Nat \ {12} : Field(off) = V6Field(off)
        BY <2>1, <2>4 DEF Field, EtIPv4, EtIPv6, tags
    <2>5. ASSUME packet.ether = EtIPv4
          PROVE  /\ Field(14) = 64 + packet.ihl /\ Field(20) = packet.frag /\ Field(23) = packet.proto
                 /\ Field(26) = packet.src[1] /\ Field(30) = packet.dst[1]
                 /\ L4Present => Field(34) = packet.l4[1] /\ Field(36) = packet.l4[2]
                 /\ Field(34) \in Halves /\ Field(36) \in Halves
        <3>1. \A off \in {14, 20, 23, 26, 30, 34, 36} : Field(off) = V4Field(off)
            BY <2>3, <2>5
        <3>2. (34 - 32) \div 2 = 1 /\ (36 - 32) \div 2 = 2
            OBVIOUS
        <3>3. /\ V4Field(14) = 64 + packet.ihl /\ V4Field(20) = packet.frag /\ V4Field(23) = packet.proto
              /\ V4Field(26) = packet.src[1] /\ V4Field(30) = packet.dst[1]
            BY DEF V4Field
        <3>4. /\ V4Field(34) = IF L4Present THEN packet.l4[1] ELSE packet.stray
              /\ V4Field(36) = IF L4Present THEN packet.l4[2] ELSE packet.stray
            BY <3>2 DEF V4Field
        <3> QED BY <1>1, <3>1, <3>3, <3>4
    <2>6. ASSUME packet.ether = EtIPv6
          PROVE  /\ Field(20) = packet.proto
                 /\ Field(22) = packet.src[1] /\ Field(26) = packet.src[2]
                 /\ Field(30) = packet.src[3] /\ Field(34) = packet.src[4]
                 /\ Field(38) = packet.dst[1] /\ Field(42) = packet.dst[2]
                 /\ Field(46) = packet.dst[3] /\ Field(50) = packet.dst[4]
                 /\ L4Present => Field(54) = packet.l4[1] /\ Field(56) = packet.l4[2]
                 /\ Field(54) \in Halves /\ Field(56) \in Halves
        <3>1. \A off \in {20, 22, 26, 30, 34, 38, 42, 46, 50, 54, 56} : Field(off) = V6Field(off)
            BY <2>4, <2>6
        <3>2. /\ (22 - 18) \div 4 = 1 /\ (26 - 18) \div 4 = 2 /\ (30 - 18) \div 4 = 3 /\ (34 - 18) \div 4 = 4
              /\ (38 - 34) \div 4 = 1 /\ (42 - 34) \div 4 = 2 /\ (46 - 34) \div 4 = 3 /\ (50 - 34) \div 4 = 4
              /\ (54 - 52) \div 2 = 1 /\ (56 - 52) \div 2 = 2
            OBVIOUS
        <3>3. /\ V6Field(20) = packet.proto
              /\ V6Field(22) = packet.src[1] /\ V6Field(26) = packet.src[2]
              /\ V6Field(30) = packet.src[3] /\ V6Field(34) = packet.src[4]
              /\ V6Field(38) = packet.dst[1] /\ V6Field(42) = packet.dst[2]
              /\ V6Field(46) = packet.dst[3] /\ V6Field(50) = packet.dst[4]
            BY <3>2 DEF V6Field
        <3>4. /\ V6Field(54) = IF L4Present THEN packet.l4[1] ELSE packet.stray
              /\ V6Field(56) = IF L4Present THEN packet.l4[2] ELSE packet.stray
            BY <3>2 DEF V6Field
        <3> QED BY <1>1, <3>1, <3>3, <3>4
    <2> QED BY <2>1, <2>2, <2>5, <2>6
<1>4. CASE tags > 1
    <2>1. base = 4 /\ base < 4 * tags /\ base % 4 = 0 /\ base # 4 * tags
        BY <1>1, <1>2, <1>4
    <2>2. Field(12) = EtVLAN
        BY <2>1 DEF Field, tags
    <2>3. Type = EtVLAN
        BY <1>1, <1>4 DEF Type, tags
    <2> QED BY <2>2, <2>3 DEF EtVLAN, EtIPv4, EtIPv6
<1> QED BY <1>1, <1>3, <1>4

\* With the base at the start, the type is a tag's exactly when there is one.
LEMMA TagSeen ==
    ASSUME Sane(packet), base = 0
    PROVE  Field(12) = EtVLAN <=> packet.tags # 0
<1> DEFINE tags == packet.tags
<1>1. tags \in Nat /\ packet.ether # EtVLAN
    BY DEF Sane
<1> HIDE DEF tags
<1>2. CASE tags = 0
    <2>1. base = 4 * tags
        BY <1>2
    <2>2. ~(base < 4 * tags) /\ 12 = 12
        BY <1>1, <2>1
    <2>3. Field(12) = packet.ether
        BY <2>1, <2>2, Zenon DEF Field, tags
    <2> QED BY <1>1, <1>2, <2>3 DEF tags
<1>3. CASE tags # 0
    <2>1. base < 4 * tags /\ base % 4 = 0 /\ base # 4 * tags
        BY <1>1, <1>3
    <2>2. Field(12) = EtVLAN
        BY <2>1 DEF Field, tags
    <2> QED BY <1>3, <2>2 DEF tags
<1> QED BY <1>2, <1>3

(***************************************************************************)
(* Lists of tests.                                                         *)
(***************************************************************************)
\* A list of tests that reads no byte from reach on.
TestList(tests, reach) == tests \in Seq(Tests) /\ Within(tests, reach)

LEMMA TestsJoined ==
    ASSUME NEW s, NEW t, NEW reach, TestList(s, reach), TestList(t, reach)
    PROVE  TestList(s \o t, reach) /\ (AllPass(s \o t) <=> AllPass(s) /\ AllPass(t))
<1> DEFINE u == s \o t
<1>1. /\ u \in Seq(Tests) /\ Len(u) = Len(s) + Len(t) /\ Len(s) \in Nat /\ Len(t) \in Nat
      /\ \A i \in 1..Len(s) : u[i] = s[i]
      /\ \A i \in 1..Len(t) : u[Len(s) + i] = t[i]
    <2>1. s \in Seq(Tests) /\ t \in Seq(Tests)
        BY DEF TestList
    <2> QED BY <2>1, ConcatProperties
<1> HIDE DEF u
<1>2. \A i \in 1..Len(u) : i \in 1..Len(s) \/ \E j \in 1..Len(t) : i = Len(s) + j
    <2> SUFFICES ASSUME NEW i \in 1..Len(u), i \notin 1..Len(s) PROVE \E j \in 1..Len(t) : i = Len(s) + j
        OBVIOUS
    <2>1. i - Len(s) \in 1..Len(t) /\ i = Len(s) + (i - Len(s))
        BY <1>1
    <2> QED BY <2>1
<1>3. \A i \in 1..Len(s) : i \in 1..Len(u)
    BY <1>1
<1>4. \A j \in 1..Len(t) : Len(s) + j \in 1..Len(u)
    BY <1>1
<1>5. Within(u, reach)
    BY <1>1, <1>2 DEF Within, TestList
<1>6. AllPass(u) => AllPass(s) /\ AllPass(t)
    BY <1>1, <1>3, <1>4, Zenon DEF AllPass
<1>7. AllPass(s) /\ AllPass(t) => AllPass(u)
    BY <1>1, <1>2, Zenon DEF AllPass
<1> QED BY <1>1, <1>5, <1>6, <1>7 DEF TestList, u

LEMMA NoTests == \A reach : TestList(<<>>, reach) /\ AllPass(<<>>)
BY EmptySeq DEF TestList, AllPass, Within

LEMMA OneTest ==
    ASSUME NEW t \in Tests, NEW reach, t.off + t.width <= reach
    PROVE  TestList(<<t>>, reach) /\ (AllPass(<<t>>) <=> Passes(t))
<1>1. <<t>> \in Seq(Tests) /\ Len(<<t>>) = 1 /\ <<t>>[1] = t /\ \A i \in 1..1 : i = 1
    OBVIOUS
<1> QED BY <1>1 DEF TestList, AllPass, Within

LEMMA TwoTests ==
    ASSUME NEW t \in Tests, NEW u \in Tests, NEW reach, t.off + t.width <= reach, u.off + u.width <= reach
    PROVE  TestList(<<t, u>>, reach) /\ (AllPass(<<t, u>>) <=> Passes(t) /\ Passes(u))
<1>1. /\ <<t, u>> \in Seq(Tests) /\ Len(<<t, u>>) = 2 /\ <<t, u>>[1] = t /\ <<t, u>>[2] = u
      /\ \A i \in 1..2 : i = 1 \/ i = 2
      /\ 1 \in 1..2 /\ 2 \in 1..2
    OBVIOUS
<1>2. TestList(<<t, u>>, reach)
    BY <1>1 DEF TestList, Within
<1>3. AllPass(<<t, u>>) <=> Passes(t) /\ Passes(u)
    BY <1>1, Zenon DEF AllPass
<1> QED BY <1>2, <1>3

LEMMA PartTest ==
    ASSUME NEW off \in Nat, NEW width \in Nat, NEW div \in Nat \ {0}, NEW mod \in Nat \ {0}, NEW vals \in SUBSET Int
    PROVE  /\ Part(off, width, div, mod, vals) \in Tests
           /\ Part(off, width, div, mod, vals).off = off /\ Part(off, width, div, mod, vals).width = width
           /\ Passes(Part(off, width, div, mod, vals)) <=> (Field(off) \div div) % mod \in vals
<1> DEFINE t == Part(off, width, div, mod, vals)
<1>1. t = [op |-> "test", off |-> off, width |-> width, div |-> div, mod |-> mod, vals |-> vals]
    BY DEF Part
<1>2. t \in Tests /\ t.off = off /\ t.width = width /\ t.div = div /\ t.mod = mod /\ t.vals = vals
    BY <1>1 DEF Tests
<1> HIDE DEF t
<1>3. Passes(t) <=> (Field(off) \div div) % mod \in vals
    BY <1>2, Zenon DEF Passes
<1> QED BY <1>2, <1>3 DEF t

LEMMA IsTest ==
    ASSUME NEW off \in Nat, NEW width \in Nat, NEW vals \in SUBSET Int
    PROVE  /\ Is(off, width, vals) \in Tests
           /\ Is(off, width, vals).off = off /\ Is(off, width, vals).width = width
           /\ Field(off) \in Halves => (Passes(Is(off, width, vals)) <=> Field(off) \in vals)
<1> DEFINE div == 1
<1> DEFINE mod == 65536
<1>1. div \in Nat \ {0} /\ mod \in Nat \ {0} /\ \A v \in Halves : (v \div div) % mod = v
    BY DEF Halves
<1>2. Is(off, width, vals) = Part(off, width, div, mod, vals)
    BY DEF Is
<1> HIDE DEF div, mod
<1> DEFINE t == Part(off, width, div, mod, vals)
<1>3. /\ t \in Tests /\ t.off = off /\ t.width = width
      /\ Passes(t) <=> (Field(off) \div div) % mod \in vals
    BY <1>1, PartTest
<1> HIDE DEF t
<1>4. Field(off) \in Halves => (Passes(t) <=> Field(off) \in vals)
    BY <1>1, <1>3, Zenon
<1> QED BY <1>2, <1>3, <1>4, Zenon DEF t

LEMMA HalvesAreInts == Halves \subseteq Int
BY DEF Halves

LEMMA HalvesInclude == \A n \in Nat : n <= 40000 => n \in Halves
<1> DEFINE top == 65535
<1>1. Halves = 0..top
    BY DEF Halves
<1>2. top \in Nat /\ top >= 40000
    OBVIOUS
<1> HIDE DEF top
<1> QED BY <1>1, <1>2

\* The guard passes a whole packet or a first fragment without options.
LEMMA GuardMeans ==
    ASSUME NEW reach \in Nat, reach >= 22
    PROVE  /\ TestList(Guard, reach)
           /\ Sane(packet) /\ base = Skip /\ Type = EtIPv4 => (AllPass(Guard) <=> L4Present)
<1> DEFINE off == 20
<1> DEFINE width == 2
<1> DEFINE div == 1
<1> DEFINE mod == 8192
<1> DEFINE vals == {0}
<1> DEFINE first == Is(14, 1, {69})
<1> DEFINE second == Part(off, width, div, mod, vals)
<1>1. /\ first \in Tests /\ first.off = 14 /\ first.width = 1
      /\ Field(14) \in Halves => (Passes(first) <=> Field(14) \in {69})
    BY IsTest
<1>2. off \in Nat /\ width \in Nat /\ div \in Nat \ {0} /\ mod \in Nat \ {0} /\ vals \in SUBSET Int
    OBVIOUS
<1>3. off = 20 /\ width = 2 /\ \A n \in Halves : (n \div div) % mod \in vals <=> n % 8192 = 0
    BY DEF Halves
<1>4. Guard = <<first, second>>
    BY DEF Guard
<1> HIDE DEF first, off, width, div, mod, vals
<1>5. /\ second \in Tests /\ second.off = off /\ second.width = width
      /\ Passes(second) <=> (Field(off) \div div) % mod \in vals
    BY <1>2, PartTest
<1> HIDE DEF second
<1>6. TestList(Guard, reach) /\ (AllPass(Guard) <=> Passes(first) /\ Passes(second))
    <2>1. first.off + first.width <= reach /\ second.off + second.width <= reach
        BY <1>1, <1>3, <1>5
    <2>2. TestList(<<first, second>>, reach) /\ (AllPass(<<first, second>>) <=> Passes(first) /\ Passes(second))
        BY <1>1, <1>5, <2>1, TwoTests
    <2> QED BY <1>4, <2>2, Zenon
<1>7. ASSUME Sane(packet), base = Skip, Type = EtIPv4 PROVE AllPass(Guard) <=> L4Present
    <2>1. Field(14) = 64 + packet.ihl /\ Field(20) = packet.frag
        BY <1>7, FieldsByName
    <2>2. packet.ihl \in 0..15 /\ packet.frag \in Halves
        BY <1>7 DEF Sane
    <2>3. packet.ether = EtIPv4
        BY <1>7 DEF Type, EtIPv4, EtVLAN
    <2>4. Passes(first) <=> packet.ihl = 5
        <3> DEFINE n == packet.ihl
        <3>1. n \in 0..15 /\ Field(14) = 64 + n
            BY <2>1, <2>2
        <3> HIDE DEF n
        <3>2. Field(14) \in Halves
            <4>1. Field(14) \in Nat /\ Field(14) <= 40000
                BY <3>1
            <4> QED BY <4>1, HalvesInclude
        <3>3. Field(14) \in {69} <=> n = 5
            BY <3>1
        <3> QED BY <1>1, <3>2, <3>3, Zenon DEF n
    <2>5. Passes(second) <=> packet.frag % 8192 = 0
        <3>1. Field(off) = packet.frag
            BY <1>3, <2>1
        <3>2. Passes(second) <=> (packet.frag \div div) % mod \in vals
            BY <1>5, <3>1, Zenon
        <3>3. (packet.frag \div div) % mod \in vals <=> packet.frag % 8192 = 0
            BY <1>3, <2>2
        <3> QED BY <3>2, <3>3
    <2> QED BY <1>6, <2>3, <2>4, <2>5 DEF L4Present
<1> QED BY <1>6, <1>7

(***************************************************************************)
(* The tests of a prefix.                                                  *)
(***************************************************************************)
WordsOf(v4) == IF v4 THEN 1 ELSE 4

LEMMA CidrValues ==
    ASSUME NEW v4 \in BOOLEAN, NEW net \in Cidrs(v4)
    PROVE  /\ WordsOf(v4) \in {1, 4} /\ Addresses(v4) = [1..WordsOf(v4) -> Words]
           /\ net.addr \in Addresses(v4) /\ net.bits \in 0..(WordsOf(v4) * WordBits)
<1>1. WordBits \in Nat \ {0} /\ 1 * WordBits = WordBits
    BY FilterAssumption
<1>2. net.addr \in Addresses(v4) /\ net.bits \in 0..(IF v4 THEN WordBits ELSE 4 * WordBits)
    BY DEF Cidrs
<1>3. WordsOf(v4) * WordBits = IF v4 THEN WordBits ELSE 4 * WordBits
    BY <1>1 DEF WordsOf
<1>4. Addresses(v4) = [1..WordsOf(v4) -> Words]
    BY DEF Addresses, WordsOf
<1>5. WordsOf(v4) \in {1, 4}
    BY DEF WordsOf
<1> QED BY <1>2, <1>3, <1>4, <1>5

LEMMA CidrTests ==
    ASSUME NEW v4 \in BOOLEAN, NEW net \in Cidrs(v4), NEW off \in Nat, NEW reach \in Nat,
           off + 4 * WordsOf(v4) <= reach
    PROVE  /\ TestList(CidrTest(off, net), reach)
           /\ \A addr \in Addresses(v4) :
                  (\A i \in 1..WordsOf(v4) : Field(off + 4 * (i - 1)) = addr[i])
                      => (AllPass(CidrTest(off, net)) <=> Inside(addr, net))
<1> DEFINE n == WordsOf(v4)
<1> DEFINE bits == net.bits
<1> DEFINE m == Covering(bits)
<1> DEFINE full == Pow2[WordBits]
<1> DEFINE div(i) == Pow2[Spared(bits, i)]
<1> DEFINE rest(i) == net.addr[i] \div div(i)
<1> DEFINE t == CidrTest(off, net)
<1>1. /\ n \in {1, 4} /\ Addresses(v4) = [1..n -> Words]
      /\ net.addr \in [1..n -> Words] /\ bits \in 0..(n * WordBits)
    BY CidrValues
<1>2. \A addr \in [1..n -> Words] :
          /\ m \in 0..n
          /\ \A i \in 1..m : Spared(bits, i) \in 0..(WordBits - 1)
          /\ (\A k \in 0..(bits - 1) : Bit(addr, k) = Bit(net.addr, k))
                 <=> \A i \in 1..m : addr[i] \div div(i) = rest(i)
    <2> HIDE DEF n, bits
    <2>1. n \in Nat \ {0}
        BY <1>1
    <2> QED BY <1>1, <2>1, InsideByWords, Zenon
<1>3. m \in 0..n /\ \A i \in 1..m : Spared(bits, i) \in 0..(WordBits - 1)
    BY <1>1, <1>2, Zenon
<1>4. full \in Nat \ {0} /\ Words = 0..(full - 1)
    BY FilterAssumption, Pow2Positive DEF Words
<1>5. \A i \in 1..m : div(i) \in Nat \ {0}
    <2>1. \A i \in 1..m : Spared(bits, i) \in Nat
        BY <1>3
    <2> HIDE DEF m
    <2> QED BY <2>1, Pow2Positive
<1>6. t = [i \in 1..m |-> Part(off + 4 * (i - 1), 4, div(i), full, {rest(i)})]
    BY DEF CidrTest, Covering, Spared
<1>0. off + 4 * n <= reach
    OBVIOUS
<1> HIDE DEF n, bits, m, full, div, rest, t
<1>7. ASSUME NEW i \in 1..m
      PROVE  /\ t[i] \in Tests /\ t[i].off + t[i].width <= reach
             /\ \A v \in Words : Field(off + 4 * (i - 1)) = v => (Passes(t[i]) <=> v \div div(i) = rest(i))
    <2> DEFINE at == off + 4 * (i - 1)
    <2> DEFINE width == 4
    <2> DEFINE vals == {rest(i)}
    <2>1. at \in Nat /\ width \in Nat /\ at + width <= reach
        BY <1>0, <1>1, <1>3
    <2>2. net.addr[i] \in Words /\ rest(i) \in Int
        <3>1. i \in 1..n
            BY <1>1, <1>3
        <3>2. net.addr[i] \in Words
            BY <1>1, <3>1
        <3> QED BY <1>4, <1>5, <3>2 DEF rest
    <2>3. t[i] = Part(at, width, div(i), full, vals)
        BY <1>6
    <2>4. \A x : x \in vals <=> x = rest(i)
        OBVIOUS
    <2>5. div(i) \in Nat \ {0} /\ vals \in SUBSET Int
        BY <1>5, <2>2
    <2>9. at \in Nat /\ width \in Nat /\ full \in Nat \ {0}
        BY <1>4, <2>1
    <2> HIDE DEF at, width, vals
    <2>6. /\ t[i] \in Tests /\ t[i].off = at /\ t[i].width = width
          /\ Passes(t[i]) <=> (Field(at) \div div(i)) % full \in vals
        <3> DEFINE d == div(i)
        <3> DEFINE p == Part(at, width, d, full, vals)
        <3>1. d \in Nat \ {0} /\ vals \in SUBSET Int
            BY <2>5
        <3> HIDE DEF d
        <3>2. /\ p \in Tests
              /\ p.off = at /\ p.width = width
              /\ Passes(p) <=> (Field(at) \div d) % full \in vals
            <4>1. at \in Nat
                BY <2>9
            <4>2. width \in Nat
                BY <2>9
            <4>3. full \in Nat \ {0}
                BY <2>9
            <4>4. d \in Nat \ {0}
                BY <3>1
            <4>5. vals \in SUBSET Int
                BY <3>1
            <4> QED BY <4>1, <4>2, <4>3, <4>4, <4>5, PartTest, Zenon
        <3> HIDE DEF p
        <3> QED BY <2>3, <3>2 DEF p, d
    <2>7. ASSUME NEW v \in Words, Field(at) = v PROVE Passes(t[i]) <=> v \div div(i) = rest(i)
        <3>1. v \in 0..(full - 1) /\ div(i) \in Nat \ {0} /\ full \in Nat \ {0}
            BY <1>4, <2>5
        <3>2. v \div div(i) \in 0..(full - 1)
            BY <3>1
        <3>3. (v \div div(i)) % full = v \div div(i)
            BY <3>1, <3>2
        <3>4. Passes(t[i]) <=> (v \div div(i)) % full \in vals
            BY <2>6, <2>7, Zenon
        <3> QED BY <2>4, <3>3, <3>4, Zenon
    <2>8. t[i].off + t[i].width <= reach
        BY <2>1, <2>6
    <2> QED BY <2>6, <2>7, <2>8 DEF at
<1>8. Len(t) = m /\ t \in Seq(Tests)
    <2>1. m \in Nat /\ \A i \in 1..m : t[i] \in Tests
        BY <1>1, <1>3, <1>7
    <2>2. t \in [1..m -> Tests]
        BY <1>6, <2>1
    <2> QED BY <2>1, <2>2
<1>9. TestList(t, reach)
    BY <1>7, <1>8 DEF TestList, Within
<1>10. ASSUME NEW addr \in Addresses(v4), \A i \in 1..n : Field(off + 4 * (i - 1)) = addr[i]
       PROVE  AllPass(t) <=> Inside(addr, net)
    <2>1. \A i \in 1..m : i \in 1..n
        BY <1>1, <1>3
    <2>2. \A i \in 1..n : addr[i] \in Words
        BY <1>1
    <2>3. \A i \in 1..m : Passes(t[i]) <=> addr[i] \div div(i) = rest(i)
        BY <1>7, <1>10, <2>1, <2>2, Zenon
    <2>4. AllPass(t) <=> \A i \in 1..m : addr[i] \div div(i) = rest(i)
        BY <1>8, <2>3, Zenon DEF AllPass
    <2>5. Inside(addr, net) <=> \A k \in 0..(bits - 1) : Bit(addr, k) = Bit(net.addr, k)
        BY DEF Inside, bits
    <2> QED BY <1>1, <1>2, <2>4, <2>5, Zenon
<1> QED BY <1>9, <1>10 DEF t, n

(***************************************************************************)
(* The headers of a packet, as the tests of a rule see them.               *)
(***************************************************************************)
LEMMA HeaderFields ==
    ASSUME NEW v4 \in BOOLEAN, Sane(packet), base = Skip, Type = EtherType(v4)
    PROVE  /\ packet.src \in Addresses(v4) /\ packet.dst \in Addresses(v4)
           /\ Field(ProtoOff(v4)) = packet.proto /\ packet.proto \in Halves
           /\ \A i \in 1..WordsOf(v4) : Field(SrcOff(v4) + 4 * (i - 1)) = packet.src[i]
           /\ \A i \in 1..WordsOf(v4) : Field(DstOff(v4) + 4 * (i - 1)) = packet.dst[i]
           /\ \A s \in BOOLEAN : /\ Field(PortOff(v4, s)) \in Halves
                                 /\ L4Present => Field(PortOff(v4, s)) = SentTo(s)
           /\ v4 = FALSE => (L4Present <=> packet.proto # ExtHdr)
<1>1. packet.ether = Type /\ Type = EtherType(v4) /\ EtIPv4 # EtIPv6
    BY DEF Type, EtherType, EtVLAN, EtIPv4, EtIPv6
<1>2. packet.src \in Addresses(v4) /\ packet.dst \in Addresses(v4)
    BY <1>1 DEF Sane, EtherType
<1>3. packet.proto \in Halves
    <2>1. packet.proto \in 0..255
        BY DEF Sane, Bytes
    <2>2. packet.proto \in Nat /\ packet.proto <= 40000
        BY <2>1
    <2> QED BY <2>2, HalvesInclude
<1>4. v4 = FALSE => (L4Present <=> packet.proto # ExtHdr)
    BY <1>1 DEF L4Present, EtherType
<1> DEFINE Read(off, value) == \A i \in 1..WordsOf(v4) : Field(off + 4 * (i - 1)) = value[i]
<1> DEFINE PortsRead == \A s \in BOOLEAN : /\ Field(PortOff(v4, s)) \in Halves
                                           /\ L4Present => Field(PortOff(v4, s)) = SentTo(s)
<1> DEFINE AllRead ==
        /\ Field(ProtoOff(v4)) = packet.proto
        /\ Read(SrcOff(v4), packet.src) /\ Read(DstOff(v4), packet.dst) /\ PortsRead
<1>5. ASSUME v4 = TRUE PROVE AllRead
    <2>1. Type = EtIPv4
        BY <1>5 DEF EtherType
    <2>2. /\ Field(23) = packet.proto /\ Field(26) = packet.src[1] /\ Field(30) = packet.dst[1]
          /\ L4Present => Field(34) = packet.l4[1] /\ Field(36) = packet.l4[2]
          /\ Field(34) \in Halves /\ Field(36) \in Halves
        BY <2>1, FieldsByName
    <2>3. ProtoOff(v4) = 23
        BY <1>5 DEF ProtoOff
    <2>4. \A i \in 1..WordsOf(v4) : i = 1 /\ SrcOff(v4) + 4 * (i - 1) = 26 /\ DstOff(v4) + 4 * (i - 1) = 30
        BY <1>5 DEF WordsOf, SrcOff, DstOff
    <2>5. /\ PortOff(v4, TRUE) = 34 /\ PortOff(v4, FALSE) = 36
          /\ SentTo(TRUE) = packet.l4[1] /\ SentTo(FALSE) = packet.l4[2]
        BY <1>5 DEF PortOff, L4Off, SentTo
    <2>6. Read(SrcOff(v4), packet.src)
        BY <2>2, <2>4
    <2>7. Read(DstOff(v4), packet.dst)
        BY <2>2, <2>4
    <2>8. PortsRead
        BY <2>2, <2>5
    <2>9. Field(ProtoOff(v4)) = packet.proto
        BY <2>2, <2>3
    <2> QED BY <2>6, <2>7, <2>8, <2>9
<1>6. ASSUME v4 = FALSE PROVE AllRead
    <2>1. Type = EtIPv6
        BY <1>6 DEF EtherType
    <2>2. /\ Field(20) = packet.proto
          /\ Field(22) = packet.src[1] /\ Field(26) = packet.src[2]
          /\ Field(30) = packet.src[3] /\ Field(34) = packet.src[4]
          /\ Field(38) = packet.dst[1] /\ Field(42) = packet.dst[2]
          /\ Field(46) = packet.dst[3] /\ Field(50) = packet.dst[4]
          /\ L4Present => Field(54) = packet.l4[1] /\ Field(56) = packet.l4[2]
          /\ Field(54) \in Halves /\ Field(56) \in Halves
        BY <2>1, FieldsByName
    <2>3. ProtoOff(v4) = 20
        BY <1>6 DEF ProtoOff
    <2>4. \A i \in 1..WordsOf(v4) : i = 1 \/ i = 2 \/ i = 3 \/ i = 4
        BY <1>6 DEF WordsOf
    <2>5. /\ PortOff(v4, TRUE) = 54 /\ PortOff(v4, FALSE) = 56
          /\ SentTo(TRUE) = packet.l4[1] /\ SentTo(FALSE) = packet.l4[2]
        BY <1>6 DEF PortOff, L4Off, SentTo
    <2>6. Read(SrcOff(v4), packet.src)
        <3>1. SrcOff(v4) = 22 /\ 22 + 4 * (1 - 1) = 22 /\ 22 + 4 * (2 - 1) = 26 /\ 22 + 4 * (3 - 1) = 30 /\ 22 + 4 * (4 - 1) = 34
            BY <1>6 DEF SrcOff
        <3> QED BY <2>2, <2>4, <3>1
    <2>7. Read(DstOff(v4), packet.dst)
        <3>1. DstOff(v4) = 38 /\ 38 + 4 * (1 - 1) = 38 /\ 38 + 4 * (2 - 1) = 42 /\ 38 + 4 * (3 - 1) = 46 /\ 38 + 4 * (4 - 1) = 50
            BY <1>6 DEF DstOff
        <3> QED BY <2>2, <2>4, <3>1
    <2>8. PortsRead
        BY <2>2, <2>5
    <2>9. Field(ProtoOff(v4)) = packet.proto
        BY <2>2, <2>3
    <2> QED BY <2>6, <2>7, <2>8, <2>9
<1>7. AllRead
    <2> HIDE DEF AllRead
    <2> QED BY <1>5, <1>6
<1> QED BY <1>2, <1>3, <1>4, <1>7

LEMMA FieldTest ==
    ASSUME NEW off \in Nat, NEW width \in Nat, NEW vals \in SUBSET Int, NEW reach \in Nat, off + width <= reach
    PROVE  /\ TestList(<<Is(off, width, vals)>>, reach)
           /\ Field(off) \in Halves => (AllPass(<<Is(off, width, vals)>>) <=> Field(off) \in vals)
<1> DEFINE t == Is(off, width, vals)
<1>1. /\ t \in Tests /\ t.off = off /\ t.width = width
      /\ Field(off) \in Halves => (Passes(t) <=> Field(off) \in vals)
    BY IsTest
<1> HIDE DEF t
<1>2. t.off + t.width <= reach
    BY <1>1
<1>3. TestList(<<t>>, reach) /\ (AllPass(<<t>>) <=> Passes(t))
    BY <1>1, <1>2, OneTest
<1> QED BY <1>1, <1>3, Zenon DEF t

LEMMA TypeTest ==
    ASSUME NEW type \in Halves, NEW reach \in Nat, reach >= 14
    PROVE  /\ TestList(<<IsEther(type)>>, reach)
           /\ Sane(packet) /\ base = Skip => (AllPass(<<IsEther(type)>>) <=> Type = type)
<1> DEFINE off == 12
<1> DEFINE width == 2
<1> DEFINE vals == {type}
<1>1. off \in Nat /\ width \in Nat /\ off + width <= reach /\ IsEther(type) = Is(off, width, vals)
    BY DEF IsEther
<1>2. vals \in SUBSET Int /\ \A x : x \in vals <=> x = type
    BY HalvesAreInts
<1>3. Sane(packet) /\ base = Skip => Field(off) = Type
    BY FieldsByName
<1>4. Sane(packet) => Type \in Halves
    <2>1. EtVLAN \in Nat /\ EtVLAN <= 40000
        BY DEF EtVLAN
    <2>2. EtVLAN \in Halves
        BY <2>1, HalvesInclude
    <2> QED BY <2>2 DEF Sane, Type
<1> HIDE DEF off, width, vals
<1>5. /\ TestList(<<Is(off, width, vals)>>, reach)
      /\ Field(off) \in Halves => (AllPass(<<Is(off, width, vals)>>) <=> Field(off) \in vals)
    BY <1>1, <1>2, FieldTest
<1> QED BY <1>1, <1>2, <1>3, <1>4, <1>5, Zenon

LEMMA GuardIfMeans ==
    ASSUME NEW v4 \in BOOLEAN, NEW reach \in Nat, reach >= 22
    PROVE  /\ TestList(GuardIf(v4), reach)
           /\ Sane(packet) /\ base = Skip /\ Type = EtherType(v4) /\ packet.proto # ExtHdr
                  => (AllPass(GuardIf(v4)) <=> L4Present)
<1>1. CASE v4 = TRUE
    <2>1. GuardIf(v4) = Guard /\ EtherType(v4) = EtIPv4
        BY <1>1 DEF GuardIf, EtherType
    <2> QED BY <2>1, GuardMeans
<1>2. CASE v4 = FALSE
    <2>1. GuardIf(v4) = <<>>
        BY <1>2 DEF GuardIf
    <2>2. TestList(GuardIf(v4), reach) /\ AllPass(GuardIf(v4))
        BY <2>1, NoTests
    <2>3. Sane(packet) /\ base = Skip /\ Type = EtherType(v4) /\ packet.proto # ExtHdr => L4Present
        BY <1>2, HeaderFields
    <2> QED BY <2>2, <2>3
<1> QED BY <1>1, <1>2

\* The protocol's test, then those of the header behind it.
LEMMA ProtoTest ==
    ASSUME NEW v4 \in BOOLEAN, NEW proto \in Bytes, NEW reach \in Nat, reach >= ProtoOff(v4) + 1
    PROVE  /\ TestList(<<Is(ProtoOff(v4), 1, {proto})>>, reach)
           /\ Sane(packet) /\ base = Skip /\ Type = EtherType(v4)
                  => (AllPass(<<Is(ProtoOff(v4), 1, {proto})>>) <=> packet.proto = proto)
<1> DEFINE off == ProtoOff(v4)
<1> DEFINE width == 1
<1> DEFINE vals == {proto}
<1>1. off \in Nat /\ width \in Nat /\ off + width <= reach
    BY DEF ProtoOff
<1>2. vals \in SUBSET Int /\ \A x : x \in vals <=> x = proto
    BY DEF Bytes
<1>3. Sane(packet) /\ base = Skip /\ Type = EtherType(v4) => Field(off) = packet.proto /\ packet.proto \in Halves
    BY HeaderFields
<1> HIDE DEF width, vals
<1>4. /\ TestList(<<Is(off, width, vals)>>, reach)
      /\ Field(off) \in Halves => (AllPass(<<Is(off, width, vals)>>) <=> Field(off) \in vals)
    <2> HIDE DEF off
    <2> QED BY <1>1, <1>2, FieldTest
<1>5. <<Is(ProtoOff(v4), 1, {proto})>> = <<Is(off, width, vals)>>
    BY DEF width, vals
<1> HIDE DEF off
<1> QED BY <1>2, <1>3, <1>4, <1>5, Zenon

LEMMA TwoFieldTests ==
    ASSUME NEW off \in Nat, NEW width \in Nat, NEW vals \in SUBSET Int,
           NEW next \in Nat, NEW size \in Nat, NEW others \in SUBSET Int,
           NEW reach \in Nat, off + width <= reach, next + size <= reach
    PROVE  /\ TestList(<<Is(off, width, vals), Is(next, size, others)>>, reach)
           /\ Field(off) \in Halves /\ Field(next) \in Halves
                  => (AllPass(<<Is(off, width, vals), Is(next, size, others)>>)
                          <=> Field(off) \in vals /\ Field(next) \in others)
<1> DEFINE t == Is(off, width, vals)
<1> DEFINE u == Is(next, size, others)
<1>1. /\ t \in Tests /\ t.off = off /\ t.width = width
      /\ Field(off) \in Halves => (Passes(t) <=> Field(off) \in vals)
    BY IsTest
<1>2. /\ u \in Tests /\ u.off = next /\ u.width = size
      /\ Field(next) \in Halves => (Passes(u) <=> Field(next) \in others)
    BY IsTest
<1> HIDE DEF t, u
<1>3. t.off + t.width <= reach /\ u.off + u.width <= reach
    BY <1>1, <1>2
<1>4. TestList(<<t, u>>, reach) /\ (AllPass(<<t, u>>) <=> Passes(t) /\ Passes(u))
    BY <1>1, <1>2, <1>3, TwoTests
<1> QED BY <1>1, <1>2, <1>4, Zenon DEF t, u

\* The protocol's test and one of the first field of the header behind it,
\* or the second, with a test of the header's place before them.
LEMMA HeaderTests ==
    ASSUME NEW v4 \in BOOLEAN, NEW proto \in Bytes \ {ExtHdr}, NEW s \in BOOLEAN, NEW size \in 1..2,
           NEW vals \in SUBSET Int, NEW reach \in Nat, reach >= PortOff(v4, s) + size
    PROVE  LET guard == GuardIf(v4)
               tests == <<Is(ProtoOff(v4), 1, {proto}), Is(PortOff(v4, s), size, vals)>>
           IN  /\ TestList(guard, reach) /\ TestList(tests, reach)
               /\ Sane(packet) /\ base = Skip /\ Type = EtherType(v4)
                      => (AllPass(guard) /\ AllPass(tests)
                              <=> L4Present /\ packet.proto = proto /\ SentTo(s) \in vals)
<1> DEFINE off == ProtoOff(v4)
<1> DEFINE next == PortOff(v4, s)
<1> DEFINE width == 1
<1> DEFINE one == {proto}
<1> DEFINE guard == GuardIf(v4)
<1> DEFINE tests == <<Is(off, width, one), Is(next, size, vals)>>
<1> DEFINE Here == Sane(packet) /\ base = Skip /\ Type = EtherType(v4)
<1>1. /\ off \in Nat /\ width \in Nat /\ next \in Nat /\ size \in Nat /\ reach >= 22
      /\ off + width <= reach /\ next + size <= reach
    BY DEF ProtoOff, PortOff, L4Off
<1>2. one \in SUBSET Int /\ \A x : x \in one <=> x = proto
    BY DEF Bytes
<1>3. Here => Field(off) = packet.proto /\ packet.proto \in Halves
    BY HeaderFields
<1>4. Here => Field(next) \in Halves /\ (L4Present => Field(next) = SentTo(s))
    BY HeaderFields
<1>5. TestList(guard, reach) /\ (Here /\ packet.proto # ExtHdr => (AllPass(guard) <=> L4Present))
    BY <1>1, GuardIfMeans
<1> HIDE DEF off, next, width, one, guard, Here
<1>6. /\ TestList(tests, reach)
      /\ Field(off) \in Halves /\ Field(next) \in Halves
             => (AllPass(tests) <=> Field(off) \in one /\ Field(next) \in vals)
    BY <1>1, <1>2, TwoFieldTests
<1> HIDE DEF tests
<1>7. Here => (AllPass(tests) <=> packet.proto = proto /\ Field(next) \in vals)
    BY <1>2, <1>3, <1>4, <1>6, Zenon
<1>8. proto # ExtHdr
    OBVIOUS
<1>9. Here => (AllPass(guard) /\ AllPass(tests) <=> L4Present /\ packet.proto = proto /\ SentTo(s) \in vals)
    BY <1>4, <1>5, <1>7, <1>8, Zenon
<1> QED BY <1>5, <1>6, <1>9 DEF guard, tests, Here, off, next, width, one

(***************************************************************************)
(* What the arms of the builders mean.                                     *)
(***************************************************************************)
LEMMA LocalPortMeans ==
    ASSUME NEW v4 \in BOOLEAN, NEW proto \in {TCP, UDP}, NEW s \in BOOLEAN, NEW port \in Halves,
           NEW net \in Cidrs(v4), NEW reach \in Nat, reach >= AddrEnd(v4), reach >= PortOff(v4, s) + 2
    PROVE  LET tests == <<IsEther(EtherType(v4))>> \o GuardIf(v4)
                            \o <<Is(ProtoOff(v4), 1, {proto}), Is(PortOff(v4, s), 2, {port})>>
                            \o CidrTest(DstOff(v4), net)
           IN  /\ TestList(tests, reach)
               /\ Sane(packet) /\ base = Skip
                      => (AllPass(tests) <=> /\ Type = EtherType(v4) /\ L4Present
                                             /\ packet.proto = proto /\ SentTo(s) = port
                                             /\ Inside(packet.dst, net))
<1> DEFINE size == 2
<1> DEFINE vals == {port}
<1> DEFINE type == EtherType(v4)
<1> DEFINE t1 == <<IsEther(type)>>
<1> DEFINE t2 == GuardIf(v4)
<1> DEFINE t3 == <<Is(ProtoOff(v4), 1, {proto}), Is(PortOff(v4, s), size, vals)>>
<1> DEFINE t4 == CidrTest(DstOff(v4), net)
<1> DEFINE Here == Sane(packet) /\ base = Skip
<1>1. reach >= 14 /\ size \in 1..2 /\ reach >= PortOff(v4, s) + size
    BY DEF AddrEnd
<1>2. vals \in SUBSET Int /\ \A x : x \in vals <=> x = port
    BY HalvesAreInts
<1>3. type \in Halves
    BY HalvesInclude DEF EtherType, EtIPv4, EtIPv6
<1>4. proto \in Bytes \ {ExtHdr}
    BY DEF TCP, UDP, Bytes, ExtHdr
<1>5. DstOff(v4) \in Nat /\ DstOff(v4) + 4 * WordsOf(v4) <= reach
    BY DEF DstOff, WordsOf, AddrEnd
<1>6. TestList(t1, reach) /\ (Here => (AllPass(t1) <=> Type = type))
    <2> HIDE DEF type
    <2> QED BY <1>1, <1>3, TypeTest
<1>7. /\ TestList(t2, reach) /\ TestList(t3, reach)
      /\ Here /\ Type = type
             => (AllPass(t2) /\ AllPass(t3) <=> L4Present /\ packet.proto = proto /\ SentTo(s) \in vals)
    <2> HIDE DEF size, vals
    <2> QED BY <1>1, <1>2, <1>4, HeaderTests
<1>8. /\ TestList(t4, reach)
      /\ \A addr \in Addresses(v4) :
             (\A i \in 1..WordsOf(v4) : Field(DstOff(v4) + 4 * (i - 1)) = addr[i]) => (AllPass(t4) <=> Inside(addr, net))
    BY <1>5, CidrTests
<1>9. Here /\ Type = type
          => /\ packet.dst \in Addresses(v4)
             /\ \A i \in 1..WordsOf(v4) : Field(DstOff(v4) + 4 * (i - 1)) = packet.dst[i]
    BY HeaderFields
<1>10. Here /\ Type = type => (AllPass(t4) <=> Inside(packet.dst, net))
    <2> HIDE DEF t4, type
    <2> QED BY <1>8, <1>9, Zenon
<1> HIDE DEF size, vals, type, t1, t2, t3, t4, Here
<1> DEFINE u2 == t1 \o t2
<1> DEFINE u3 == u2 \o t3
<1> DEFINE u4 == u3 \o t4
<1>11. TestList(u2, reach) /\ (AllPass(u2) <=> AllPass(t1) /\ AllPass(t2))
    BY <1>6, <1>7, TestsJoined
<1> HIDE DEF u2
<1>12. TestList(u3, reach) /\ (AllPass(u3) <=> AllPass(u2) /\ AllPass(t3))
    BY <1>7, <1>11, TestsJoined
<1> HIDE DEF u3
<1>13. TestList(u4, reach) /\ (AllPass(u4) <=> AllPass(u3) /\ AllPass(t4))
    BY <1>8, <1>12, TestsJoined
<1> HIDE DEF u4
<1>14. Here => (AllPass(u4) <=> /\ Type = type /\ L4Present
                                /\ packet.proto = proto /\ SentTo(s) = port
                                /\ Inside(packet.dst, net))
    BY <1>2, <1>6, <1>7, <1>10, <1>11, <1>12, <1>13, Zenon
<1> QED BY <1>13, <1>14 DEF u4, u3, u2, t1, t2, t3, t4, Here, type, size, vals

LEMMA AddressMeans ==
    ASSUME NEW v4 \in BOOLEAN, NEW src \in Cidrs(v4), NEW dst \in Cidrs(v4), NEW reach \in Nat, reach >= AddrEnd(v4)
    PROVE  LET tests == <<IsEther(EtherType(v4))>> \o CidrTest(SrcOff(v4), src) \o CidrTest(DstOff(v4), dst)
           IN  /\ TestList(tests, reach)
               /\ Sane(packet) /\ base = Skip
                      => (AllPass(tests) <=> Type = EtherType(v4) /\ Inside(packet.src, src) /\ Inside(packet.dst, dst))
<1> DEFINE type == EtherType(v4)
<1> DEFINE t1 == <<IsEther(type)>>
<1> DEFINE t2 == CidrTest(SrcOff(v4), src)
<1> DEFINE t3 == CidrTest(DstOff(v4), dst)
<1> DEFINE Here == Sane(packet) /\ base = Skip
<1>1. /\ reach >= 14 /\ SrcOff(v4) \in Nat /\ DstOff(v4) \in Nat
      /\ SrcOff(v4) + 4 * WordsOf(v4) <= reach /\ DstOff(v4) + 4 * WordsOf(v4) <= reach
    BY DEF AddrEnd, SrcOff, DstOff, WordsOf
<1>2. type \in Halves
    BY HalvesInclude DEF EtherType, EtIPv4, EtIPv6
<1>3. TestList(t1, reach) /\ (Here => (AllPass(t1) <=> Type = type))
    <2> HIDE DEF type
    <2> QED BY <1>1, <1>2, TypeTest
<1>4. /\ TestList(t2, reach)
      /\ \A addr \in Addresses(v4) :
             (\A i \in 1..WordsOf(v4) : Field(SrcOff(v4) + 4 * (i - 1)) = addr[i]) => (AllPass(t2) <=> Inside(addr, src))
    BY <1>1, CidrTests
<1>5. /\ TestList(t3, reach)
      /\ \A addr \in Addresses(v4) :
             (\A i \in 1..WordsOf(v4) : Field(DstOff(v4) + 4 * (i - 1)) = addr[i]) => (AllPass(t3) <=> Inside(addr, dst))
    BY <1>1, CidrTests
<1>6. Here /\ Type = type
          => /\ packet.src \in Addresses(v4) /\ packet.dst \in Addresses(v4)
             /\ \A i \in 1..WordsOf(v4) : Field(SrcOff(v4) + 4 * (i - 1)) = packet.src[i]
             /\ \A i \in 1..WordsOf(v4) : Field(DstOff(v4) + 4 * (i - 1)) = packet.dst[i]
    BY HeaderFields
<1> HIDE DEF t2, t3, type
<1>7. Here /\ Type = type => (AllPass(t2) <=> Inside(packet.src, src)) /\ (AllPass(t3) <=> Inside(packet.dst, dst))
    BY <1>4, <1>5, <1>6, Zenon
<1> HIDE DEF t1, Here
<1> DEFINE u2 == t1 \o t2
<1> DEFINE u3 == u2 \o t3
<1>8. TestList(u2, reach) /\ (AllPass(u2) <=> AllPass(t1) /\ AllPass(t2))
    BY <1>3, <1>4, TestsJoined
<1> HIDE DEF u2
<1>9. TestList(u3, reach) /\ (AllPass(u3) <=> AllPass(u2) /\ AllPass(t3))
    BY <1>5, <1>8, TestsJoined
<1> HIDE DEF u3
<1>10. Here => (AllPass(u3) <=> Type = type /\ Inside(packet.src, src) /\ Inside(packet.dst, dst))
    BY <1>3, <1>7, <1>8, <1>9, Zenon
<1> QED BY <1>9, <1>10 DEF u3, u2, t1, t2, t3, Here, type

LEMMA IcmpMeans ==
    ASSUME NEW v4 \in BOOLEAN, NEW types \in SUBSET Bytes, NEW reach \in Nat, reach >= L4Off(v4) + 1
    PROVE  LET proto == IF v4 THEN ICMP ELSE ICMPv6
               tests == <<IsEther(EtherType(v4))>> \o GuardIf(v4)
                            \o <<Is(ProtoOff(v4), 1, {proto}), Is(L4Off(v4), 1, types)>>
           IN  /\ TestList(tests, reach)
               /\ Sane(packet) /\ base = Skip
                      => (AllPass(tests) <=> /\ Type = EtherType(v4) /\ L4Present
                                             /\ packet.proto = proto /\ packet.l4[1] \in types)
<1> DEFINE size == 1
<1> DEFINE type == EtherType(v4)
<1> DEFINE proto == IF v4 THEN ICMP ELSE ICMPv6
<1> DEFINE t1 == <<IsEther(type)>>
<1> DEFINE t2 == GuardIf(v4)
<1> DEFINE t3 == <<Is(ProtoOff(v4), 1, {proto}), Is(PortOff(v4, TRUE), size, types)>>
<1> DEFINE Here == Sane(packet) /\ base = Skip
<1>1. reach >= 14 /\ size \in 1..2 /\ reach >= PortOff(v4, TRUE) + size /\ PortOff(v4, TRUE) = L4Off(v4)
    BY DEF PortOff, L4Off
<1>2. types \in SUBSET Int /\ SentTo(TRUE) = packet.l4[1]
    BY DEF Bytes, SentTo
<1>3. type \in Halves
    BY HalvesInclude DEF EtherType, EtIPv4, EtIPv6
<1>4. proto \in Bytes \ {ExtHdr}
    BY DEF ICMP, ICMPv6, Bytes, ExtHdr
<1>5. TestList(t1, reach) /\ (Here => (AllPass(t1) <=> Type = type))
    <2> HIDE DEF type
    <2> QED BY <1>1, <1>3, TypeTest
<1>6. /\ TestList(t2, reach) /\ TestList(t3, reach)
      /\ Here /\ Type = type
             => (AllPass(t2) /\ AllPass(t3) <=> L4Present /\ packet.proto = proto /\ SentTo(TRUE) \in types)
    <2> HIDE DEF size, proto
    <2> QED BY <1>1, <1>2, <1>4, HeaderTests
<1>7. t3 = <<Is(ProtoOff(v4), 1, {proto}), Is(L4Off(v4), 1, types)>>
    BY <1>1
<1> HIDE DEF size, type, proto, t1, t2, t3, Here
<1> DEFINE u2 == t1 \o t2
<1> DEFINE u3 == u2 \o t3
<1>8. TestList(u2, reach) /\ (AllPass(u2) <=> AllPass(t1) /\ AllPass(t2))
    BY <1>5, <1>6, TestsJoined
<1> HIDE DEF u2
<1>9. TestList(u3, reach) /\ (AllPass(u3) <=> AllPass(u2) /\ AllPass(t3))
    BY <1>6, <1>8, TestsJoined
<1> HIDE DEF u3
<1>10. Here => (AllPass(u3) <=> /\ Type = type /\ L4Present
                                /\ packet.proto = proto /\ packet.l4[1] \in types)
    <2>1. SentTo(TRUE) \in types <=> packet.l4[1] \in types
        BY <1>2
    <2> QED BY <1>5, <1>6, <1>8, <1>9, <2>1, Zenon
<1> QED BY <1>7, <1>9, <1>10 DEF u3, u2, t1, t2, Here, type, proto

LEMMA ProtoMeans ==
    ASSUME NEW v4 \in BOOLEAN, NEW proto \in Bytes, NEW reach \in Nat, reach >= ProtoOff(v4) + 1
    PROVE  LET tests == <<IsEther(EtherType(v4)), Is(ProtoOff(v4), 1, {proto})>>
           IN  /\ TestList(tests, reach)
               /\ Sane(packet) /\ base = Skip
                      => (AllPass(tests) <=> Type = EtherType(v4) /\ packet.proto = proto)
<1> DEFINE type == EtherType(v4)
<1> DEFINE t == IsEther(type)
<1> DEFINE u == Is(ProtoOff(v4), 1, {proto})
<1> DEFINE Here == Sane(packet) /\ base = Skip
<1>1. reach >= 14
    BY DEF ProtoOff
<1>2. type \in Halves
    BY HalvesInclude DEF EtherType, EtIPv4, EtIPv6
<1>3. TestList(<<t>>, reach) /\ (Here => (AllPass(<<t>>) <=> Type = type))
    <2> HIDE DEF type
    <2> QED BY <1>1, <1>2, TypeTest
<1>4. TestList(<<u>>, reach) /\ (Here /\ Type = type => (AllPass(<<u>>) <=> packet.proto = proto))
    BY ProtoTest
<1> HIDE DEF t, u, type, Here
<1>5. t \in Tests /\ u \in Tests /\ t.off + t.width <= reach /\ u.off + u.width <= reach
    <2>1. \A x : TestList(<<x>>, reach) => x \in Tests /\ x.off + x.width <= reach
        <3> SUFFICES ASSUME NEW x, TestList(<<x>>, reach) PROVE x \in Tests /\ x.off + x.width <= reach
            OBVIOUS
        <3> DEFINE s == <<x>>
        <3>1. Len(s) = 1 /\ s[1] = x /\ 1 \in 1..Len(s) /\ s \in Seq(Tests)
            BY DEF TestList
        <3>2. s[1].off + s[1].width <= reach
            <4> HIDE DEF s
            <4>1. \A i \in 1..Len(s) : s[i].off + s[i].width <= reach
                BY DEF TestList, Within, s
            <4> QED BY <3>1, <4>1
        <3>3. s[1] \in Tests
            <4> HIDE DEF s
            <4> QED BY <3>1
        <3> HIDE DEF s
        <3> QED BY <3>1, <3>2, <3>3
    <2> QED BY <1>3, <1>4, <2>1
<1>6. (AllPass(<<t>>) <=> Passes(t)) /\ (AllPass(<<u>>) <=> Passes(u))
    BY <1>5, OneTest
<1>7. TestList(<<t, u>>, reach) /\ (AllPass(<<t, u>>) <=> Passes(t) /\ Passes(u))
    BY <1>5, TwoTests
<1>8. Here => (AllPass(<<t, u>>) <=> Type = type /\ packet.proto = proto)
    BY <1>3, <1>4, <1>6, <1>7, Zenon
<1> QED BY <1>7, <1>8 DEF t, u, type, Here

\* An arm of matchL4Port is entered by its EtherType.
PortReach(r, v4) == PortOff(v4, r.srcPort) + 2
PortTests(r, v4) ==
    GuardIf(v4) \o <<Is(ProtoOff(v4), 1, {r.proto})>>
        \o (IF r.ports = {} THEN <<>> ELSE <<Is(PortOff(v4, r.srcPort), 2, r.ports)>>)

LEMMA PortMeans ==
    ASSUME NEW v4 \in BOOLEAN, NEW proto \in {TCP, UDP}, NEW s \in BOOLEAN, NEW ports \in SUBSET Halves,
           NEW reach \in Nat, reach >= PortOff(v4, s) + 2
    PROVE  LET tests == GuardIf(v4) \o <<Is(ProtoOff(v4), 1, {proto})>>
                            \o (IF ports = {} THEN <<>> ELSE <<Is(PortOff(v4, s), 2, ports)>>)
           IN  /\ TestList(tests, reach)
               /\ Sane(packet) /\ base = Skip /\ Type = EtherType(v4)
                      => (AllPass(tests) <=> /\ L4Present /\ packet.proto = proto
                                             /\ ports = {} \/ SentTo(s) \in ports)
<1> DEFINE Here == Sane(packet) /\ base = Skip /\ Type = EtherType(v4)
<1> DEFINE off == PortOff(v4, s)
<1> DEFINE size == 2
<1> DEFINE t1 == GuardIf(v4)
<1> DEFINE t2 == <<Is(ProtoOff(v4), 1, {proto})>>
<1> DEFINE t3 == IF ports = {} THEN <<>> ELSE <<Is(off, size, ports)>>
<1>1. reach >= 22 /\ reach >= ProtoOff(v4) + 1 /\ off \in Nat /\ size \in Nat /\ off + size <= reach
    BY DEF ProtoOff, PortOff, L4Off
<1>2. ports \in SUBSET Int
    BY HalvesAreInts
<1>3. proto \in Bytes /\ proto # ExtHdr
    BY DEF TCP, UDP, Bytes, ExtHdr
<1> HIDE DEF off, size
<1>4. TestList(t1, reach) /\ (Here /\ packet.proto # ExtHdr => (AllPass(t1) <=> L4Present))
    BY <1>1, GuardIfMeans
<1>5. TestList(t2, reach) /\ (Here => (AllPass(t2) <=> packet.proto = proto))
    BY <1>1, <1>3, ProtoTest
<1>6. Here => Field(off) \in Halves /\ (L4Present => Field(off) = SentTo(s))
    BY HeaderFields DEF off
<1>7. TestList(t3, reach) /\ (Here /\ L4Present => (AllPass(t3) <=> ports = {} \/ SentTo(s) \in ports))
    <2>1. CASE ports = {}
        <3>1. TestList(<<>>, reach) /\ AllPass(<<>>) /\ t3 = <<>>
            BY <2>1, NoTests
        <3> QED BY <2>1, <3>1
    <2>2. CASE ports # {}
        <3> DEFINE t == <<Is(off, size, ports)>>
        <3>1. TestList(t, reach) /\ (Field(off) \in Halves => (AllPass(t) <=> Field(off) \in ports))
            BY <1>1, <1>2, FieldTest
        <3> HIDE DEF Here
        <3>2. t3 = t
            BY <2>2
        <3> HIDE DEF t3, t
        <3> QED BY <1>6, <2>2, <3>1, <3>2
    <2> QED BY <2>1, <2>2
<1> HIDE DEF Here, t1, t2, t3
<1> DEFINE u2 == t1 \o t2
<1> DEFINE u3 == u2 \o t3
<1>8. TestList(u2, reach) /\ (AllPass(u2) <=> AllPass(t1) /\ AllPass(t2))
    BY <1>4, <1>5, TestsJoined
<1> HIDE DEF u2
<1>9. TestList(u3, reach) /\ (AllPass(u3) <=> AllPass(u2) /\ AllPass(t3))
    BY <1>7, <1>8, TestsJoined
<1> HIDE DEF u3
<1>10. Here => (AllPass(u3) <=> /\ L4Present /\ packet.proto = proto
                                /\ ports = {} \/ SentTo(s) \in ports)
    BY <1>3, <1>4, <1>5, <1>7, <1>8, <1>9, Zenon
<1> QED BY <1>9, <1>10 DEF u3, u2, t1, t2, t3, Here, off, size

(***************************************************************************)
(* The arms of every rule.                                                 *)
(***************************************************************************)
LocalRules ==
    [kind : {"localPort"}, proto : {TCP, UDP}, srcPort : BOOLEAN, port : Halves, local : Cidrs(TRUE), v4 : {TRUE}]
        \cup [kind : {"localPort"}, proto : {TCP, UDP}, srcPort : BOOLEAN, port : Halves, local : Cidrs(FALSE), v4 : {FALSE}]

AllRules == Rules \cup LocalRules

LEMMA RuleFields ==
    ASSUME NEW r \in AllRules
    PROVE  /\ r.kind = "l4port" => r.proto \in {TCP, UDP} /\ r.srcPort \in BOOLEAN /\ r.ports \in SUBSET Halves
           /\ r.kind = "localPort" =>
                  /\ r.proto \in {TCP, UDP} /\ r.srcPort \in BOOLEAN /\ r.port \in Halves
                  /\ r.v4 \in BOOLEAN /\ r.local \in Cidrs(r.v4)
           /\ r.kind = "address" => r.v4 \in BOOLEAN /\ r.src \in Cidrs(r.v4) /\ r.dst \in Cidrs(r.v4)
           /\ r.kind = "icmp" => r.v4 \in BOOLEAN /\ r.types \in SUBSET Bytes
           /\ r.kind = "ipProto" => r.v4 \in BOOLEAN /\ r.proto \in Bytes
           /\ r.kind = "etherType" => r.type \in Halves
           /\ r.kind = "custom" => r.ins \in OwnBlocks
           /\ r.kind \in {"l4port", "localPort", "address", "icmp", "ipProto", "etherType", "custom", "all", "none", "error"}
BY DEF AllRules, Rules, LocalRules

OneArm == {"localPort", "address", "icmp", "ipProto", "etherType"}

\* How far the one arm of a block reaches, and its tests.
ReachOf(r) ==
    CASE r.kind = "localPort" -> Larger(AddrEnd(r.v4), PortOff(r.v4, r.srcPort) + 2)
      [] r.kind = "address"   -> AddrEnd(r.v4)
      [] r.kind = "icmp"      -> L4Off(r.v4) + 1
      [] r.kind = "ipProto"   -> ProtoOff(r.v4) + 1
      [] r.kind = "etherType" -> 14

TestsOf(r) ==
    CASE r.kind = "localPort" ->
            <<IsEther(EtherType(r.v4))>> \o GuardIf(r.v4)
                \o <<Is(ProtoOff(r.v4), 1, {r.proto}), Is(PortOff(r.v4, r.srcPort), 2, {r.port})>>
                \o CidrTest(DstOff(r.v4), r.local)
      [] r.kind = "address" ->
            <<IsEther(EtherType(r.v4))>> \o CidrTest(SrcOff(r.v4), r.src) \o CidrTest(DstOff(r.v4), r.dst)
      [] r.kind = "icmp" ->
            <<IsEther(EtherType(r.v4))>> \o GuardIf(r.v4)
                \o <<Is(ProtoOff(r.v4), 1, {IF r.v4 THEN ICMP ELSE ICMPv6}), Is(L4Off(r.v4), 1, r.types)>>
      [] r.kind = "ipProto"   -> <<IsEther(EtherType(r.v4)), Is(ProtoOff(r.v4), 1, {r.proto})>>
      [] r.kind = "etherType" -> <<IsEther(r.type)>>

LEMMA OneArmMeans ==
    ASSUME NEW r \in AllRules, r.kind \in OneArm
    PROVE  /\ ReachOf(r) \in 14..64 /\ TestList(TestsOf(r), ReachOf(r))
           /\ Build(r) = L3Base \o Arm(ReachOf(r), TestsOf(r))
           /\ Sane(packet) /\ base = Skip => (Reaches(ReachOf(r)) /\ AllPass(TestsOf(r)) <=> Meets(r))
           /\ Sane(packet) /\ Meets(r) => Reaches(14)
<1>1. CASE r.kind = "localPort"
    <2>1. /\ r.proto \in {TCP, UDP} /\ r.srcPort \in BOOLEAN /\ r.port \in Halves
          /\ r.v4 \in BOOLEAN /\ r.local \in Cidrs(r.v4)
        BY <1>1, RuleFields
    <2>2. ReachOf(r) = Larger(AddrEnd(r.v4), PortOff(r.v4, r.srcPort) + 2)
        BY <1>1 DEF ReachOf
    <2>3. TestsOf(r) = <<IsEther(EtherType(r.v4))>> \o GuardIf(r.v4)
                           \o <<Is(ProtoOff(r.v4), 1, {r.proto}), Is(PortOff(r.v4, r.srcPort), 2, {r.port})>>
                           \o CidrTest(DstOff(r.v4), r.local)
        BY <1>1 DEF TestsOf
    <2>4. /\ ReachOf(r) \in 14..64 /\ ReachOf(r) \in Nat
          /\ ReachOf(r) >= AddrEnd(r.v4) /\ ReachOf(r) >= PortOff(r.v4, r.srcPort) + 2
        BY <2>1, <2>2 DEF Larger, AddrEnd, PortOff, L4Off
    <2>5. /\ TestList(TestsOf(r), ReachOf(r))
          /\ Sane(packet) /\ base = Skip
                 => (AllPass(TestsOf(r)) <=> /\ Type = EtherType(r.v4) /\ L4Present
                                             /\ packet.proto = r.proto /\ SentTo(r.srcPort) = r.port
                                             /\ Inside(packet.dst, r.local))
        <3> DEFINE v4 == r.v4
        <3> DEFINE proto == r.proto
        <3> DEFINE s == r.srcPort
        <3> DEFINE port == r.port
        <3> DEFINE net == r.local
        <3> DEFINE reach == ReachOf(r)
        <3> DEFINE tests == <<IsEther(EtherType(v4))>> \o GuardIf(v4)
                                \o <<Is(ProtoOff(v4), 1, {proto}), Is(PortOff(v4, s), 2, {port})>>
                                \o CidrTest(DstOff(v4), net)
        <3>1. /\ v4 \in BOOLEAN /\ proto \in {TCP, UDP} /\ s \in BOOLEAN /\ port \in Halves /\ net \in Cidrs(v4)
              /\ reach \in Nat /\ reach >= AddrEnd(v4) /\ reach >= PortOff(v4, s) + 2
            BY <2>1, <2>4
        <3>2. TestsOf(r) = tests
            BY <2>3
        <3> HIDE DEF v4, proto, s, port, net, reach
        <3>3. /\ TestList(tests, reach)
              /\ Sane(packet) /\ base = Skip
                     => (AllPass(tests) <=> /\ Type = EtherType(v4) /\ L4Present
                                            /\ packet.proto = proto /\ SentTo(s) = port
                                            /\ Inside(packet.dst, net))
            BY <3>1, LocalPortMeans, SMTT(60)
        <3> HIDE DEF tests
        <3> QED BY <3>2, <3>3 DEF v4, proto, s, port, net, reach
    <2>6. Sane(packet) =>
              (Meets(r) <=> /\ Type = EtherType(r.v4) /\ L4Present /\ Reaches(ReachOf(r))
                            /\ packet.proto = r.proto /\ SentTo(r.srcPort) = r.port
                            /\ Inside(packet.dst, r.local))
        <3>1. Meets(r) <=> /\ Type = EtherType(r.v4) /\ HasPort(r.srcPort)
                           /\ packet.proto = r.proto /\ SentTo(r.srcPort) = r.port
                           /\ Inside(packet.dst, r.local)
            BY <1>1 DEF Meets
        <3>2. ReachOf(r) = PortOff(r.v4, r.srcPort) + 2
            BY <2>1, <2>2 DEF Larger, AddrEnd, PortOff, L4Off
        <3>3. Sane(packet) /\ Type = EtherType(r.v4) => (HasPort(r.srcPort) <=> L4Present /\ Reaches(ReachOf(r)))
            BY <2>1, <3>2, PortEnds
        <3> QED BY <3>1, <3>3, Zenon
    <2>7. Build(r) = L3Base \o Arm(ReachOf(r), TestsOf(r))
        <3>1. Build(r) = LocalPort(r)
            BY <1>1 DEF Build
        <3> QED BY <2>2, <2>3, <3>1 DEF LocalPort, PortBound
    <2>8. Sane(packet) /\ Meets(r) => Reaches(14)
        BY <2>4, <2>6, ReachesLess
    <2> QED BY <2>4, <2>5, <2>6, <2>7, <2>8
<1>2. CASE r.kind = "address"
    <2>1. r.v4 \in BOOLEAN /\ r.src \in Cidrs(r.v4) /\ r.dst \in Cidrs(r.v4)
        BY <1>2, RuleFields
    <2>2. ReachOf(r) = AddrEnd(r.v4)
        BY <1>2 DEF ReachOf
    <2>3. TestsOf(r) = <<IsEther(EtherType(r.v4))>> \o CidrTest(SrcOff(r.v4), r.src) \o CidrTest(DstOff(r.v4), r.dst)
        BY <1>2 DEF TestsOf
    <2>4. ReachOf(r) \in 14..64 /\ ReachOf(r) \in Nat /\ ReachOf(r) >= AddrEnd(r.v4)
        BY <2>1, <2>2 DEF AddrEnd
    <2>5. /\ TestList(TestsOf(r), ReachOf(r))
          /\ Sane(packet) /\ base = Skip
                 => (AllPass(TestsOf(r))
                         <=> Type = EtherType(r.v4) /\ Inside(packet.src, r.src) /\ Inside(packet.dst, r.dst))
        BY <2>1, <2>3, <2>4, AddressMeans
    <2>6. Sane(packet) =>
              (Meets(r) <=> /\ Type = EtherType(r.v4) /\ Reaches(ReachOf(r))
                            /\ Inside(packet.src, r.src) /\ Inside(packet.dst, r.dst))
        <3>1. Meets(r) <=> /\ Type = EtherType(r.v4) /\ Carries(IPHeader)
                           /\ Inside(packet.src, r.src) /\ Inside(packet.dst, r.dst)
            BY <1>2 DEF Meets
        <3>2. Type = EtherType(r.v4) => IPHeader \in Nat /\ ReachOf(r) = 14 + IPHeader
            BY <2>1, <2>2, HeaderEnds
        <3>3. Sane(packet) /\ Type = EtherType(r.v4) => (Carries(IPHeader) <=> Reaches(ReachOf(r)))
            BY <3>2, ReachesMeans
        <3> QED BY <3>1, <3>3, Zenon
    <2>7. Build(r) = L3Base \o Arm(ReachOf(r), TestsOf(r))
        <3>1. Build(r) = Address(r)
            BY <1>2 DEF Build
        <3> QED BY <2>2, <2>3, <3>1 DEF Address
    <2>8. Sane(packet) /\ Meets(r) => Reaches(14)
        BY <2>4, <2>6, ReachesLess
    <2> QED BY <2>4, <2>5, <2>6, <2>7, <2>8
<1>3. CASE r.kind = "icmp"
    <2>1. r.v4 \in BOOLEAN /\ r.types \in SUBSET Bytes
        BY <1>3, RuleFields
    <2>2. ReachOf(r) = L4Off(r.v4) + 1
        BY <1>3 DEF ReachOf
    <2>3. TestsOf(r) = <<IsEther(EtherType(r.v4))>> \o GuardIf(r.v4)
                           \o <<Is(ProtoOff(r.v4), 1, {IF r.v4 THEN ICMP ELSE ICMPv6}), Is(L4Off(r.v4), 1, r.types)>>
        BY <1>3 DEF TestsOf
    <2>4. ReachOf(r) \in 14..64 /\ ReachOf(r) \in Nat /\ ReachOf(r) >= L4Off(r.v4) + 1
        BY <2>1, <2>2 DEF L4Off
    <2>5. /\ TestList(TestsOf(r), ReachOf(r))
          /\ Sane(packet) /\ base = Skip
                 => (AllPass(TestsOf(r)) <=> /\ Type = EtherType(r.v4) /\ L4Present
                                             /\ packet.proto = (IF r.v4 THEN ICMP ELSE ICMPv6)
                                             /\ packet.l4[1] \in r.types)
        BY <2>1, <2>3, <2>4, IcmpMeans
    <2>6. Sane(packet) =>
              (Meets(r) <=> /\ Type = EtherType(r.v4) /\ L4Present /\ Reaches(ReachOf(r))
                            /\ packet.proto = (IF r.v4 THEN ICMP ELSE ICMPv6) /\ packet.l4[1] \in r.types)
        <3>1. Meets(r) <=> /\ Type = EtherType(r.v4) /\ L4Present /\ Carries(IPHeader + 1)
                           /\ packet.proto = (IF r.v4 THEN ICMP ELSE ICMPv6) /\ packet.l4[1] \in r.types
            BY <1>3 DEF Meets
        <3>2. Type = EtherType(r.v4) => IPHeader + 1 \in Nat /\ ReachOf(r) = 14 + (IPHeader + 1)
            BY <2>1, <2>2, HeaderEnds
        <3>3. Sane(packet) /\ Type = EtherType(r.v4) => (Carries(IPHeader + 1) <=> Reaches(ReachOf(r)))
            BY <3>2, ReachesMeans
        <3> QED BY <3>1, <3>3, Zenon
    <2>7. Build(r) = L3Base \o Arm(ReachOf(r), TestsOf(r))
        <3>1. Build(r) = IcmpType(r)
            BY <1>3 DEF Build
        <3> QED BY <2>2, <2>3, <3>1 DEF IcmpType
    <2>8. Sane(packet) /\ Meets(r) => Reaches(14)
        BY <2>4, <2>6, ReachesLess
    <2> QED BY <2>4, <2>5, <2>6, <2>7, <2>8
<1>4. CASE r.kind = "ipProto"
    <2>1. r.v4 \in BOOLEAN /\ r.proto \in Bytes
        BY <1>4, RuleFields
    <2>2. ReachOf(r) = ProtoOff(r.v4) + 1
        BY <1>4 DEF ReachOf
    <2>3. TestsOf(r) = <<IsEther(EtherType(r.v4)), Is(ProtoOff(r.v4), 1, {r.proto})>>
        BY <1>4 DEF TestsOf
    <2>4. ReachOf(r) \in 14..64 /\ ReachOf(r) \in Nat /\ ReachOf(r) >= ProtoOff(r.v4) + 1
        BY <2>1, <2>2 DEF ProtoOff
    <2>5. /\ TestList(TestsOf(r), ReachOf(r))
          /\ Sane(packet) /\ base = Skip
                 => (AllPass(TestsOf(r)) <=> Type = EtherType(r.v4) /\ packet.proto = r.proto)
        BY <2>1, <2>3, <2>4, ProtoMeans
    <2>6. Sane(packet) => (Meets(r) <=> Type = EtherType(r.v4) /\ Reaches(ReachOf(r)) /\ packet.proto = r.proto)
        <3> DEFINE n == IF r.v4 THEN 10 ELSE 7
        <3>1. Meets(r) <=> Type = EtherType(r.v4) /\ Carries(n) /\ packet.proto = r.proto
            BY <1>4 DEF Meets
        <3>2. n \in Nat /\ ReachOf(r) = 14 + n
            BY <2>1, <2>2 DEF ProtoOff
        <3> HIDE DEF n
        <3>3. Sane(packet) => (Carries(n) <=> Reaches(ReachOf(r)))
            BY <3>2, ReachesMeans
        <3> QED BY <3>1, <3>3, Zenon
    <2>7. Build(r) = L3Base \o Arm(ReachOf(r), TestsOf(r))
        <3>1. Build(r) = IPProto(r)
            BY <1>4 DEF Build
        <3> QED BY <2>2, <2>3, <3>1 DEF IPProto
    <2>8. Sane(packet) /\ Meets(r) => Reaches(14)
        BY <2>4, <2>6, ReachesLess
    <2> QED BY <2>4, <2>5, <2>6, <2>7, <2>8
<1>5. CASE r.kind = "etherType"
    <2>1. r.type \in Halves
        BY <1>5, RuleFields
    <2>2. ReachOf(r) = 14
        BY <1>5 DEF ReachOf
    <2>3. TestsOf(r) = <<IsEther(r.type)>>
        BY <1>5 DEF TestsOf
    <2>4. ReachOf(r) \in 14..64 /\ ReachOf(r) \in Nat /\ ReachOf(r) >= 14
        BY <2>2
    <2>5. /\ TestList(TestsOf(r), ReachOf(r))
          /\ Sane(packet) /\ base = Skip => (AllPass(TestsOf(r)) <=> Type = r.type)
        BY <2>1, <2>3, <2>4, TypeTest
    <2>6. Sane(packet) => (Meets(r) <=> Type = r.type /\ Reaches(ReachOf(r)))
        <3>1. Meets(r) <=> Type = r.type /\ Carries(0)
            BY <1>5 DEF Meets
        <3>2. 0 \in Nat /\ ReachOf(r) = 14 + 0
            BY <2>2
        <3>3. Sane(packet) => (Carries(0) <=> Reaches(ReachOf(r)))
            BY <3>2, ReachesMeans
        <3> QED BY <3>1, <3>3, Zenon
    <2>7. Build(r) = L3Base \o Arm(ReachOf(r), TestsOf(r))
        <3>1. Build(r) = MatchEtherType(r)
            BY <1>5 DEF Build
        <3> QED BY <2>2, <2>3, <3>1 DEF MatchEtherType
    <2>8. Sane(packet) /\ Meets(r) => Reaches(14)
        BY <2>4, <2>6, ReachesLess
    <2> QED BY <2>4, <2>5, <2>6, <2>7, <2>8
<1> QED BY <1>1, <1>2, <1>3, <1>4, <1>5 DEF OneArm

LEMMA PortArmsMean ==
    ASSUME NEW r \in AllRules, r.kind = "l4port"
    PROVE  /\ \A v4 \in BOOLEAN :
                  /\ PortReach(r, v4) \in 14..64 /\ TestList(PortTests(r, v4), PortReach(r, v4))
                  /\ Sane(packet) /\ base = Skip /\ Type = EtherType(v4)
                         => (Reaches(PortReach(r, v4)) /\ AllPass(PortTests(r, v4)) <=> Meets(r))
           /\ Type \notin {EtIPv4, EtIPv6} => ~Meets(r)
           /\ Sane(packet) /\ Meets(r) => Reaches(14)
<1>1. r.proto \in {TCP, UDP} /\ r.srcPort \in BOOLEAN /\ r.ports \in SUBSET Halves
    BY RuleFields
<1>2. Meets(r) <=> /\ Type \in {EtIPv4, EtIPv6} /\ HasPort(r.srcPort)
                   /\ packet.proto = r.proto
                   /\ r.ports = {} \/ SentTo(r.srcPort) \in r.ports
    BY DEF Meets
<1>3. ASSUME NEW v4 \in BOOLEAN
      PROVE  /\ PortReach(r, v4) \in 14..64 /\ TestList(PortTests(r, v4), PortReach(r, v4))
             /\ Sane(packet) /\ base = Skip /\ Type = EtherType(v4)
                    => (Reaches(PortReach(r, v4)) /\ AllPass(PortTests(r, v4)) <=> Meets(r))
    <2>1. /\ PortReach(r, v4) \in 14..64 /\ PortReach(r, v4) \in Nat
          /\ PortReach(r, v4) >= PortOff(v4, r.srcPort) + 2
        BY <1>1 DEF PortReach, PortOff, L4Off
    <2>2. /\ TestList(PortTests(r, v4), PortReach(r, v4))
          /\ Sane(packet) /\ base = Skip /\ Type = EtherType(v4)
                 => (AllPass(PortTests(r, v4)) <=> /\ L4Present /\ packet.proto = r.proto
                                                   /\ r.ports = {} \/ SentTo(r.srcPort) \in r.ports)
        <3> DEFINE proto == r.proto
        <3> DEFINE s == r.srcPort
        <3> DEFINE ports == r.ports
        <3> DEFINE reach == PortReach(r, v4)
        <3> DEFINE tests == GuardIf(v4) \o <<Is(ProtoOff(v4), 1, {proto})>>
                                \o (IF ports = {} THEN <<>> ELSE <<Is(PortOff(v4, s), 2, ports)>>)
        <3>1. /\ proto \in {TCP, UDP} /\ s \in BOOLEAN /\ ports \in SUBSET Halves
              /\ reach \in Nat /\ reach >= PortOff(v4, s) + 2
            BY <1>1, <2>1
        <3>2. PortTests(r, v4) = tests
            BY DEF PortTests
        <3> HIDE DEF proto, s, ports, reach
        <3>3. /\ TestList(tests, reach)
              /\ Sane(packet) /\ base = Skip /\ Type = EtherType(v4)
                     => (AllPass(tests) <=> /\ L4Present /\ packet.proto = proto
                                            /\ ports = {} \/ SentTo(s) \in ports)
            BY <3>1, PortMeans, ZenonT(60)
        <3> HIDE DEF tests
        <3> QED BY <3>2, <3>3 DEF proto, s, ports, reach
    <2>3. EtherType(v4) \in {EtIPv4, EtIPv6}
        BY DEF EtherType
    <2>4. Sane(packet) /\ Type = EtherType(v4) => (HasPort(r.srcPort) <=> L4Present /\ Reaches(PortReach(r, v4)))
        BY <1>1, PortEnds DEF PortReach
    <2> QED BY <1>2, <2>1, <2>2, <2>3, <2>4
<1>4. Sane(packet) /\ Meets(r) => Reaches(14)
    <2> SUFFICES ASSUME Sane(packet), Meets(r) PROVE Reaches(14)
        OBVIOUS
    <2>1. PICK v4 \in BOOLEAN : Type = EtherType(v4)
        BY <1>2 DEF EtherType
    <2>2. Reaches(PortReach(r, v4)) /\ PortReach(r, v4) \in 14..64
        BY <1>1, <1>2, <1>3, <2>1, PortEnds DEF PortReach
    <2> QED BY <2>2, ReachesLess
<1> QED BY <1>2, <1>3, <1>4

(***************************************************************************)
(* Where the parts of a block are.                                         *)
(***************************************************************************)
Steps ==
    Tests \cup [op : {"bounds"}, n : Nat] \cup [op : {"branch"}, v6 : Nat]
        \cup {[op |-> "frame"], [op |-> "untag"], Jump("redirect")}

IsHead(b) == Len(b) >= 3 /\ b[1] = [op |-> "frame"] /\ b[2] = Bounds(14) /\ b[3] = [op |-> "untag"]

IsArm(b, at, reach, tests) ==
    /\ at + Len(tests) + 1 <= Len(b)
    /\ b[at] = Bounds(reach)
    /\ \A i \in 1..Len(tests) : b[at + i] = tests[i]
    /\ b[at + Len(tests) + 1] = Jump("redirect")

LEMMA Joined ==
    ASSUME NEW s \in Seq(Steps), NEW t \in Seq(Steps)
    PROVE  /\ s \o t \in Seq(Steps) /\ Len(s \o t) = Len(s) + Len(t) /\ Len(s) \in Nat /\ Len(t) \in Nat
           /\ \A i \in 1..Len(s) : (s \o t)[i] = s[i]
           /\ \A i \in 1..Len(t) : (s \o t)[Len(s) + i] = t[i]
BY ConcatProperties

\* What is in the first part of a joined block stays where it is.
LEMMA HeadKept ==
    ASSUME NEW s \in Seq(Steps), NEW t \in Seq(Steps), IsHead(s)
    PROVE  IsHead(s \o t)
<1> DEFINE u == s \o t
<1>1. /\ Len(u) = Len(s) + Len(t) /\ Len(s) \in Nat /\ Len(t) \in Nat
      /\ \A i \in 1..Len(s) : u[i] = s[i]
    BY Joined
<1> HIDE DEF u
<1>2. Len(u) >= 3 /\ 1 \in 1..Len(s) /\ 2 \in 1..Len(s) /\ 3 \in 1..Len(s)
    BY <1>1 DEF IsHead
<1> QED BY <1>1, <1>2 DEF IsHead, u

LEMMA ArmKept ==
    ASSUME NEW s \in Seq(Steps), NEW t \in Seq(Steps), NEW at \in Nat \ {0}, NEW reach,
           NEW tests \in Seq(Tests), IsArm(s, at, reach, tests)
    PROVE  IsArm(s \o t, at, reach, tests)
<1> DEFINE u == s \o t
<1>1. /\ Len(u) = Len(s) + Len(t) /\ Len(s) \in Nat /\ Len(t) \in Nat
      /\ \A i \in 1..Len(s) : u[i] = s[i]
    BY Joined
<1> HIDE DEF u
<1>2. Len(tests) \in Nat /\ at + Len(tests) + 1 <= Len(s)
    BY DEF IsArm
<1>3. /\ at + Len(tests) + 1 <= Len(u) /\ at \in 1..Len(s) /\ at + Len(tests) + 1 \in 1..Len(s)
      /\ \A i \in 1..Len(tests) : at + i \in 1..Len(s)
    BY <1>1, <1>2
<1> QED BY <1>1, <1>3 DEF IsArm, u

\* What is in the second part moves by the length of the first.
LEMMA ArmMoved ==
    ASSUME NEW s \in Seq(Steps), NEW t \in Seq(Steps), NEW reach,
           NEW tests \in Seq(Tests), IsArm(t, 1, reach, tests)
    PROVE  IsArm(s \o t, Len(s) + 1, reach, tests)
<1> DEFINE u == s \o t
<1>1. /\ Len(u) = Len(s) + Len(t) /\ Len(s) \in Nat /\ Len(t) \in Nat
      /\ \A i \in 1..Len(t) : u[Len(s) + i] = t[i]
    BY Joined
<1> HIDE DEF u
<1>2. Len(tests) \in Nat /\ 1 + Len(tests) + 1 <= Len(t)
    BY DEF IsArm
<1>3. /\ (Len(s) + 1) + Len(tests) + 1 <= Len(u)
      /\ 1 \in 1..Len(t) /\ 1 + Len(tests) + 1 \in 1..Len(t)
      /\ \A i \in 1..Len(tests) : 1 + i \in 1..Len(t) /\ (Len(s) + 1) + i = Len(s) + (1 + i)
      /\ (Len(s) + 1) + Len(tests) + 1 = Len(s) + (1 + Len(tests) + 1)
    BY <1>1, <1>2
<1>4. u[Len(s) + 1] = Bounds(reach)
    BY <1>1, <1>3 DEF IsArm
<1>5. \A i \in 1..Len(tests) : u[(Len(s) + 1) + i] = tests[i]
    BY <1>1, <1>3 DEF IsArm
<1>6. u[(Len(s) + 1) + Len(tests) + 1] = Jump("redirect")
    BY <1>1, <1>3 DEF IsArm
<1> QED BY <1>3, <1>4, <1>5, <1>6 DEF IsArm, u

LEMMA ArmShape ==
    ASSUME NEW reach \in Nat, NEW tests \in Seq(Tests)
    PROVE  /\ Arm(reach, tests) \in Seq(Steps) /\ Len(Arm(reach, tests)) = Len(tests) + 2
           /\ IsArm(Arm(reach, tests), 1, reach, tests)
<1> DEFINE first == <<Bounds(reach)>>
<1> DEFINE last == <<Jump("redirect")>>
<1> DEFINE s == first \o tests
<1> DEFINE u == s \o last
<1>1. first \in Seq(Steps) /\ Len(first) = 1 /\ first[1] = Bounds(reach)
    BY DEF Steps, Bounds
<1>2. last \in Seq(Steps) /\ Len(last) = 1 /\ last[1] = Jump("redirect")
    BY DEF Steps
<1>3. tests \in Seq(Steps) /\ Len(tests) \in Nat
    <2>1. Tests \subseteq Steps
        BY DEF Steps
    <2> HIDE DEF s, u, first, last
    <2> QED BY <2>1
<1> HIDE DEF first, last
<1>4. /\ s \in Seq(Steps) /\ Len(s) = 1 + Len(tests) /\ s[1] = first[1]
      /\ \A i \in 1..Len(tests) : s[1 + i] = tests[i]
    <2>1. /\ s \in Seq(Steps) /\ Len(s) = Len(first) + Len(tests)
          /\ \A i \in 1..Len(first) : s[i] = first[i]
          /\ \A i \in 1..Len(tests) : s[Len(first) + i] = tests[i]
        BY <1>1, <1>3, Joined
    <2> HIDE DEF s
    <2>2. 1 \in 1..Len(first)
        BY <1>1
    <2>3. s[1] = first[1]
        BY <2>1, <2>2
    <2> QED BY <1>1, <2>1, <2>3
<1> HIDE DEF s
<1>5. /\ u \in Seq(Steps) /\ Len(u) = Len(s) + 1
      /\ \A i \in 1..Len(s) : u[i] = s[i]
      /\ u[Len(s) + 1] = last[1]
    <2>1. 1 \in 1..1
        OBVIOUS
    <2> QED BY <1>2, <1>4, <2>1, Joined, SMTT(60)
<1> HIDE DEF u
<1>6. 1 \in 1..Len(s) /\ \A i \in 1..Len(tests) : 1 + i \in 1..Len(s)
    BY <1>3, <1>4
<1>7. IsArm(u, 1, reach, tests)
    <2>1. 1 + Len(tests) + 1 <= Len(u) /\ 1 + Len(tests) + 1 = Len(s) + 1
        BY <1>3, <1>4, <1>5
    <2>2. u[1] = Bounds(reach)
        BY <1>1, <1>4, <1>5, <1>6
    <2>3. \A i \in 1..Len(tests) : u[1 + i] = tests[i]
        BY <1>4, <1>5, <1>6
    <2>4. u[1 + Len(tests) + 1] = Jump("redirect")
        BY <1>2, <1>5, <2>1
    <2> QED BY <2>1, <2>2, <2>3, <2>4 DEF IsArm
<1>8. Arm(reach, tests) = u
    BY DEF Arm, u, s, first, last
<1>9. Len(u) = Len(tests) + 2
    BY <1>3, <1>4, <1>5
<1> QED BY <1>5, <1>7, <1>8, <1>9

LEMMA HeadShape == L3Base \in Seq(Steps) /\ Len(L3Base) = 3 /\ IsHead(L3Base)
BY DEF L3Base, Steps, IsHead, Bounds

LEMMA OneArmShape ==
    ASSUME NEW reach \in Nat, NEW tests \in Seq(Tests)
    PROVE  LET b == L3Base \o Arm(reach, tests)
           IN  IsHead(b) /\ IsArm(b, 4, reach, tests)
<1>1. Arm(reach, tests) \in Seq(Steps) /\ IsArm(Arm(reach, tests), 1, reach, tests)
    BY ArmShape
<1>2. L3Base \in Seq(Steps) /\ Len(L3Base) + 1 = 4 /\ IsHead(L3Base)
    BY HeadShape
<1>3. IsHead(L3Base \o Arm(reach, tests))
    BY <1>1, <1>2, HeadKept
<1>4. IsArm(L3Base \o Arm(reach, tests), Len(L3Base) + 1, reach, tests)
    BY <1>1, <1>2, ArmMoved
<1> QED BY <1>2, <1>3, <1>4

LEMMA TwoArmsShape ==
    ASSUME NEW reach4 \in Nat, NEW tests4 \in Seq(Tests), NEW reach6 \in Nat, NEW tests6 \in Seq(Tests)
    PROVE  LET head == L3Base \o Recheck
               four == Arm(reach4, tests4)
               to6  == Len(head \o four) + 2
               b    == head \o <<[op |-> "branch", v6 |-> to6]>> \o four \o Arm(reach6, tests6)
           IN  /\ IsHead(b) /\ b[4] = Bounds(14)
               /\ b[5] = [op |-> "branch", v6 |-> Len(tests4) + 8] /\ Len(b) >= 5
               /\ IsArm(b, 6, reach4, tests4) /\ IsArm(b, Len(tests4) + 8, reach6, tests6)
<1> DEFINE head == L3Base \o Recheck
<1> DEFINE four == Arm(reach4, tests4)
<1> DEFINE six == Arm(reach6, tests6)
<1> DEFINE to6 == Len(head \o four) + 2
<1> DEFINE branch == <<[op |-> "branch", v6 |-> to6]>>
<1> DEFINE h == head \o branch
<1> DEFINE hf == h \o four
<1> DEFINE b == hf \o six
<1>1. Recheck \in Seq(Steps) /\ Len(Recheck) = 1 /\ Recheck[1] = Bounds(14)
    BY DEF Recheck, Steps, Bounds
<1>2. L3Base \in Seq(Steps) /\ Len(L3Base) = 3 /\ IsHead(L3Base)
    BY HeadShape
<1>3. four \in Seq(Steps) /\ Len(four) = Len(tests4) + 2 /\ IsArm(four, 1, reach4, tests4) /\ Len(tests4) \in Nat
    BY ArmShape
<1>4. six \in Seq(Steps) /\ IsArm(six, 1, reach6, tests6)
    BY ArmShape
<1> HIDE DEF four, six
<1>5. head \in Seq(Steps) /\ Len(head) = 4 /\ IsHead(head) /\ head[4] = Bounds(14)
    <2>1. /\ head \in Seq(Steps) /\ Len(head) = Len(L3Base) + Len(Recheck)
          /\ \A i \in 1..Len(Recheck) : head[Len(L3Base) + i] = Recheck[i]
        BY <1>1, <1>2, Joined
    <2>2. IsHead(head)
        BY <1>1, <1>2, HeadKept
    <2> HIDE DEF head
    <2>3. 1 \in 1..Len(Recheck) /\ Len(L3Base) + 1 = 4 /\ Len(head) = 4
        BY <1>1, <1>2, <2>1
    <2>4. head[Len(L3Base) + 1] = Recheck[1]
        BY <2>1, <2>3
    <2> QED BY <1>1, <2>1, <2>2, <2>3, <2>4
<1> HIDE DEF head
<1>6. to6 = Len(tests4) + 8 /\ to6 \in Nat
    <2>1. Len(head \o four) = Len(head) + Len(four)
        BY <1>3, <1>5, Joined
    <2> QED BY <1>3, <1>5, <2>1
<1> HIDE DEF to6
<1>7. branch \in Seq(Steps) /\ Len(branch) = 1 /\ branch[1] = [op |-> "branch", v6 |-> Len(tests4) + 8]
    BY <1>6 DEF Steps
<1> HIDE DEF branch
<1>8. h \in Seq(Steps) /\ Len(h) = 5 /\ IsHead(h) /\ h[4] = Bounds(14) /\ h[5] = branch[1]
    <2>1. /\ h \in Seq(Steps) /\ Len(h) = Len(head) + Len(branch)
          /\ \A i \in 1..Len(head) : h[i] = head[i]
          /\ \A i \in 1..Len(branch) : h[Len(head) + i] = branch[i]
        BY <1>5, <1>7, Joined
    <2>2. IsHead(h)
        BY <1>5, <1>7, HeadKept
    <2> HIDE DEF h
    <2>3. 1 \in 1..Len(branch) /\ 4 \in 1..Len(head) /\ Len(head) + 1 = 5 /\ Len(h) = 5
        BY <1>5, <1>7, <2>1
    <2>4. h[Len(head) + 1] = branch[1] /\ h[4] = head[4]
        BY <2>1, <2>3
    <2> QED BY <1>5, <2>1, <2>2, <2>3, <2>4
<1> HIDE DEF h
<1>9. /\ hf \in Seq(Steps) /\ Len(hf) = Len(tests4) + 7 /\ IsHead(hf)
      /\ hf[4] = h[4] /\ hf[5] = h[5] /\ IsArm(hf, 6, reach4, tests4)
    <2>1. /\ hf \in Seq(Steps) /\ Len(hf) = Len(h) + Len(four)
          /\ \A i \in 1..Len(h) : hf[i] = h[i]
        BY <1>3, <1>8, Joined
    <2>2. IsHead(hf)
        BY <1>3, <1>8, HeadKept
    <2>3. IsArm(hf, Len(h) + 1, reach4, tests4)
        <3>1. tests4 \in Seq(Tests) /\ h \in Seq(Steps) /\ four \in Seq(Steps) /\ IsArm(four, 1, reach4, tests4)
            BY <1>3, <1>8
        <3> QED BY <3>1, ArmMoved, Zenon
    <2> HIDE DEF hf
    <2>4. 4 \in 1..Len(h) /\ 5 \in 1..Len(h) /\ Len(h) + 1 = 6 /\ Len(hf) = Len(tests4) + 7
        BY <1>3, <1>8, <2>1
    <2>5. hf[4] = h[4] /\ hf[5] = h[5]
        BY <2>1, <2>4
    <2> QED BY <2>1, <2>2, <2>3, <2>4, <2>5
<1> HIDE DEF hf
<1>10. IsHead(b)
    BY <1>4, <1>9, HeadKept
<1>11. IsArm(b, 6, reach4, tests4)
    <2>1. 6 \in Nat \ {0}
        OBVIOUS
    <2> QED BY <1>4, <1>9, <2>1, ArmKept
<1>12. IsArm(b, Len(tests4) + 8, reach6, tests6)
    <2>1. IsArm(b, Len(hf) + 1, reach6, tests6)
        BY <1>4, <1>9, ArmMoved
    <2>2. Len(hf) + 1 = Len(tests4) + 8
        BY <1>3, <1>9
    <2> QED BY <2>1, <2>2
<1>13. b[4] = hf[4] /\ b[5] = hf[5] /\ Len(b) >= 5
    <2>1. /\ Len(b) = Len(hf) + Len(six) /\ Len(six) \in Nat
          /\ \A i \in 1..Len(hf) : b[i] = hf[i]
        BY <1>4, <1>9, Joined
    <2> HIDE DEF b
    <2>2. 4 \in 1..Len(hf) /\ 5 \in 1..Len(hf)
        BY <1>3, <1>9
    <2> QED BY <1>3, <1>9, <2>1, <2>2
<1>14. b[4] = Bounds(14) /\ b[5] = [op |-> "branch", v6 |-> Len(tests4) + 8]
    BY <1>7, <1>8, <1>9, <1>13
<1> QED BY <1>10, <1>11, <1>12, <1>13, <1>14 DEF b, hf, h, branch, to6, head, four, six

\* The block of matchL4Port has its two arms behind the branch.
SecondArm(r) == Len(PortTests(r, TRUE)) + 8

LEMMA PortShape ==
    ASSUME NEW r \in AllRules, r.kind = "l4port"
    PROVE  /\ IsHead(Build(r)) /\ Len(Build(r)) >= 5 /\ SecondArm(r) \in Nat /\ SecondArm(r) >= 8
           /\ Build(r)[4] = Bounds(14) /\ Build(r)[5] = [op |-> "branch", v6 |-> SecondArm(r)]
           /\ IsArm(Build(r), 6, PortReach(r, TRUE), PortTests(r, TRUE))
           /\ IsArm(Build(r), SecondArm(r), PortReach(r, FALSE), PortTests(r, FALSE))
<1> DEFINE reach4 == PortReach(r, TRUE)
<1> DEFINE tests4 == PortTests(r, TRUE)
<1> DEFINE reach6 == PortReach(r, FALSE)
<1> DEFINE tests6 == PortTests(r, FALSE)
<1> DEFINE head == L3Base \o Recheck
<1> DEFINE four == Arm(reach4, tests4)
<1> DEFINE to6 == Len(head \o four) + 2
<1> DEFINE b == head \o <<[op |-> "branch", v6 |-> to6]>> \o four \o Arm(reach6, tests6)
<1>1. /\ reach4 \in 14..64 /\ TestList(tests4, reach4)
      /\ reach6 \in 14..64 /\ TestList(tests6, reach6)
    BY PortArmsMean
<1>2. Build(r) = b
    <2>1. Build(r) = L4Port(r)
        BY DEF Build
    <2>2. L4PortFamily(r, TRUE) = Arm(reach4, tests4) /\ L4PortFamily(r, FALSE) = Arm(reach6, tests6)
        BY DEF L4PortFamily, PortReach, PortTests, PortBound
    <2> HIDE DEF reach4, tests4, reach6, tests6
    <2> QED BY <2>1, <2>2 DEF L4Port
<1>3. SecondArm(r) = Len(tests4) + 8
    BY DEF SecondArm
<1> HIDE DEF reach4, tests4, reach6, tests6
<1>4. tests4 \in Seq(Tests)
    BY <1>1 DEF TestList
<1>5. tests6 \in Seq(Tests)
    BY <1>1 DEF TestList
<1>6. reach4 \in Nat /\ reach6 \in Nat /\ Len(tests4) \in Nat
    BY <1>1, <1>4
<1>7. /\ IsHead(b) /\ b[4] = Bounds(14)
      /\ b[5] = [op |-> "branch", v6 |-> Len(tests4) + 8] /\ Len(b) >= 5
      /\ IsArm(b, 6, reach4, tests4) /\ IsArm(b, Len(tests4) + 8, reach6, tests6)
    BY <1>4, <1>5, <1>6, TwoArmsShape
<1> HIDE DEF b
<1>8. SecondArm(r) \in Nat /\ SecondArm(r) >= 8
    BY <1>3, <1>6
<1>9. /\ IsHead(b) /\ b[4] = Bounds(14)
      /\ b[5] = [op |-> "branch", v6 |-> SecondArm(r)] /\ Len(b) >= 5
      /\ IsArm(b, 6, reach4, tests4) /\ IsArm(b, SecondArm(r), reach6, tests6)
    BY <1>3, <1>7
<1> QED BY <1>2, <1>8, <1>9 DEF reach4, tests4, reach6, tests6

(***************************************************************************)
(* The inductive invariant.                                                *)
(***************************************************************************)
\* Before the base is behind the tag.
InHead == ip \in 1..3 /\ (ip > 1 => base = 0) /\ (ip = 3 => packet.len >= 14)

\* Past the check, the packet reaches as far as the tests do; past a test, it
\* passes it.
InArm(at, reach, tests) ==
    /\ base = Skip /\ ip \in at..(at + Len(tests) + 1)
    /\ ip > at =>
           /\ base + reach <= packet.len
           /\ \A i \in 1..Len(tests) : i < ip - at => Passes(tests[i])

InBlock(r) ==
    /\ r.kind \in OneArm => InHead \/ InArm(4, ReachOf(r), TestsOf(r))
    /\ r.kind = "l4port" =>
           \/ InHead
           \/ base = Skip /\ ip \in 4..5 /\ (ip = 5 => base + 14 <= packet.len)
           \/ Type = EtIPv4 /\ InArm(6, PortReach(r, TRUE), PortTests(r, TRUE))
           \/ Type = EtIPv6 /\ InArm(SecondArm(r), PortReach(r, FALSE), PortTests(r, FALSE))
    /\ r.kind \notin OneArm \cup {"l4port"} => ip \in 1..Len(Build(r))

LEMMA Unmoved ==
    ASSUME packet' = packet
    PROVE  /\ Skip' = Skip /\ Type' = Type
           /\ \A r : Meets(r)' <=> Meets(r)
           /\ base' = base => \A t : Passes(t)' <=> Passes(t)
<1>1. Skip' = Skip /\ Type' = Type /\ (L4Present' <=> L4Present)
    BY DEF Skip, Type, L4Present
<1>2. /\ \A s : SentTo(s)' = SentTo(s) /\ HasPort(s)' = HasPort(s)
      /\ \A n : Carries(n)' = Carries(n)
      /\ IPHeader' = IPHeader
    BY <1>1 DEF SentTo, HasPort, Carries, IPHeader
<1>3. ASSUME NEW r PROVE Meets(r)' <=> Meets(r)
    BY <1>1, <1>2, Zenon DEF Meets
<1>4. ASSUME base' = base, NEW t PROVE Passes(t)' <=> Passes(t)
    <2>1. \A off : V4Field(off)' = V4Field(off) /\ V6Field(off)' = V6Field(off)
        BY <1>1 DEF V4Field, V6Field
    <2>2. Field(t.off)' = Field(t.off)
        BY <1>4, <2>1 DEF Field
    <2> QED BY <2>2 DEF Passes
<1> QED BY <1>1, <1>3, <1>4

\* A step within an arm: past its check and tests one by one, out of the
\* block, or to the verdict.
LEMMA ArmStep ==
    ASSUME NEW b, NEW at \in Nat \ {0}, NEW reach \in 14..64, NEW tests, TestList(tests, reach),
           IsArm(b, at, reach, tests), block.ins = b, InArm(at, reach, tests), Sane(packet), pc = "run", Run
    PROVE  \/ InArm(at, reach, tests)' /\ base' = base /\ UNCHANGED <<pc, blk, verdict>>
           \/ GotoNext /\ ~(Reaches(reach) /\ AllPass(tests))
           \/ Return(block.hit) /\ Reaches(reach) /\ AllPass(tests)
<1> DEFINE n == Len(tests)
<1>1. /\ n \in Nat /\ base = Skip /\ ip \in at..(at + n + 1)
      /\ \A i \in 1..n : tests[i] \in Tests
    BY DEF InArm, TestList
<1> HIDE DEF n
<1>2. CASE ip = at
    <2>1. ins = Bounds(reach)
        BY <1>2 DEF ins, IsArm
    <2>2. ins.op = "bounds" /\ ins.n = reach
        BY <2>1 DEF Bounds
    <2>3. DoBounds
        BY <2>2 DEF Run, DoFrame, DoUntag, DoTest, DoBranch, DoJump, DoWrite, Running
    <2>4. packet' = packet /\ base' = base
        BY <2>3 DEF DoBounds, regs
    <2>5. CASE base + reach > packet.len
        <3>1. GotoNext
            BY <2>2, <2>3, <2>5 DEF DoBounds
        <3>2. ~Reaches(reach)
            BY <1>1, <2>5 DEF Reaches, Skip, Sane
        <3> QED BY <3>1, <3>2
    <2>6. CASE ~(base + reach > packet.len)
        <3>1. ip' = ip + 1 /\ UNCHANGED <<pc, blk, verdict>>
            BY <2>2, <2>3, <2>6 DEF DoBounds, GotoIns
        <3>2. base + reach <= packet.len
            BY <1>1, <2>6 DEF Skip, Sane
        <3>3. InArm(at, reach, tests)'
            <4>1. Skip' = Skip
                BY <2>4, Unmoved
            <4>2. ip' \in at..(at + n + 1) /\ \A i \in 1..n : ~(i < ip' - at)
                BY <1>1, <1>2, <3>1
            <4> QED BY <1>1, <2>4, <3>2, <4>1, <4>2 DEF InArm, n
        <3> QED BY <2>4, <3>1, <3>3
    <2> QED BY <2>5, <2>6
<1>3. CASE ip # at
    <2>1. base + reach <= packet.len /\ \A i \in 1..n : i < ip - at => Passes(tests[i])
        BY <1>1, <1>3 DEF InArm, n
    <2>2. CASE ip = at + n + 1
        <3>1. ins = Jump("redirect")
            BY <2>2 DEF ins, IsArm, n
        <3>2. ins.op = "jump" /\ ins.to = "redirect"
            BY <3>1 DEF Jump
        <3>3. DoJump
            BY <3>2 DEF Run, DoFrame, DoBounds, DoUntag, DoTest, DoBranch, DoWrite, Running
        <3>4. Return(block.hit)
            BY <3>2, <3>3 DEF DoJump
        <3>5. \A i \in 1..n : i < ip - at
            BY <1>1, <2>2
        <3> QED BY <1>1, <2>1, <3>4, <3>5 DEF AllPass, Reaches, n
    <2>3. CASE ip # at + n + 1
        <3> DEFINE k == ip - at
        <3>1. k \in 1..n /\ ip = at + k
            BY <1>1, <1>3, <2>3
        <3> HIDE DEF k
        <3>2. ins = tests[k] /\ ins \in Tests
            BY <1>1, <3>1 DEF ins, IsArm, n
        <3>3. ins.op = "test"
            BY <3>2 DEF Tests
        <3>4. DoTest
            BY <3>3 DEF Run, DoFrame, DoBounds, DoUntag, DoBranch, DoJump, DoWrite, Running
        <3>5. packet' = packet /\ base' = base
            BY <3>4 DEF DoTest, regs
        <3>6. CASE Passes(tests[k])
            <4>1. ip' = ip + 1 /\ UNCHANGED <<pc, blk, verdict>>
                BY <3>2, <3>4, <3>6 DEF DoTest, GotoIns, Passes
            <4>2. InArm(at, reach, tests)'
                <5>1. Skip' = Skip /\ \A t : Passes(t)' <=> Passes(t)
                    BY <3>5, Unmoved
                <5>2. ip' \in at..(at + n + 1) /\ \A i \in 1..n : i < ip' - at => i < ip - at \/ i = k
                    BY <1>1, <3>1, <4>1
                <5>3. \A i \in 1..n : i < ip' - at => Passes(tests[i])'
                    BY <2>1, <3>6, <5>1, <5>2
                <5> QED BY <1>1, <2>1, <3>5, <5>1, <5>2, <5>3 DEF InArm, n
            <4> QED BY <3>5, <4>1, <4>2
        <3>7. CASE ~Passes(tests[k])
            <4>1. GotoNext
                BY <3>2, <3>4, <3>7 DEF DoTest, Passes
            <4>2. ~AllPass(tests)
                BY <3>1, <3>7 DEF AllPass, n
            <4> QED BY <4>1, <4>2
        <3> QED BY <3>6, <3>7
    <2> QED BY <2>2, <2>3
<1> QED BY <1>2, <1>3

LEMMA HeadStep ==
    ASSUME NEW b, IsHead(b), block.ins = b, InHead, Sane(packet), data = 0, pc = "run", Run
    PROVE  \/ InHead' /\ UNCHANGED <<pc, blk, verdict>>
           \/ ip' = 4 /\ base' = Skip /\ packet' = packet /\ UNCHANGED <<pc, blk, verdict>>
           \/ GotoNext /\ ~Reaches(14)
<1>1. packet.len \in Nat /\ packet.tags \in Nat
    BY DEF Sane
<1>2. CASE ip = 1
    <2>1. ins.op = "frame"
        BY <1>2 DEF ins, IsHead
    <2>2. DoFrame
        BY <2>1 DEF Run, DoBounds, DoUntag, DoTest, DoBranch, DoJump, DoWrite, Running
    <2> QED BY <1>2, <2>2 DEF DoFrame, GotoIns, InHead
<1>3. CASE ip = 2
    <2>1. ins.op = "bounds" /\ ins.n = 14 /\ base = 0
        BY <1>3 DEF ins, IsHead, Bounds, InHead
    <2>2. DoBounds
        BY <2>1 DEF Run, DoFrame, DoUntag, DoTest, DoBranch, DoJump, DoWrite, Running
    <2>3. packet' = packet /\ base' = base
        BY <2>2 DEF DoBounds, regs
    <2>4. CASE 14 > packet.len
        <3>1. ~Reaches(14)
            BY <1>1, <2>4 DEF Reaches, Skip
        <3>2. GotoNext
            BY <2>1, <2>2, <2>4 DEF DoBounds
        <3> QED BY <3>1, <3>2
    <2>5. CASE ~(14 > packet.len)
        <3>1. ip' = ip + 1 /\ UNCHANGED <<pc, blk, verdict>>
            BY <2>1, <2>2, <2>5 DEF DoBounds, GotoIns
        <3> QED BY <1>1, <1>3, <2>1, <2>3, <2>5, <3>1 DEF InHead
    <2> QED BY <2>4, <2>5
<1>4. CASE ip = 3
    <2>1. ins.op = "untag" /\ base = 0
        BY <1>4 DEF ins, IsHead, InHead
    <2>2. DoUntag
        BY <2>1 DEF Run, DoFrame, DoBounds, DoTest, DoBranch, DoJump, DoWrite, Running
    <2>3. packet' = packet /\ ip' = 4 /\ UNCHANGED <<pc, blk, verdict>>
        BY <1>4, <2>2 DEF DoUntag, GotoIns
    <2>4. base' = IF Field(12) = EtVLAN THEN 4 ELSE 0
        BY <2>1, <2>2 DEF DoUntag
    <2>5. base' = Skip
        BY <2>1, <2>4, TagSeen DEF Skip
    <2> QED BY <2>3, <2>5
<1> QED BY <1>2, <1>3, <1>4 DEF InHead

\* A block of the caller's own: registers are written, the last instruction
\* leaves.
LEMMA CustomShape ==
    ASSUME NEW s \in OwnBlocks
    PROVE  LET b == IF s # <<>> /\ Last(s).op = "jump" THEN s ELSE Append(s, Jump("next"))
           IN  /\ b \in Seq(OwnInstructions) /\ Len(b) >= 1
               /\ \A i \in 1..Len(b) : b[i].op = "jump" <=> i = Len(b)
               /\ b[Len(b)].to = "next" \/ b[Len(b)].to = "redirect"
               /\ b[Len(b)].to = "redirect" <=> s # <<>> /\ Last(s) = Jump("redirect")
<1> DEFINE b == IF s # <<>> /\ Last(s).op = "jump" THEN s ELSE Append(s, Jump("next"))
<1>1. s \in Seq(OwnInstructions) /\ Len(s) \in Nat /\ \A i \in 1..(Len(s) - 1) : s[i].op # "jump"
    BY DEF OwnBlocks
<1>2. \A x \in OwnInstructions : x.op = "jump" => x = Jump("next") \/ x = Jump("redirect")
    BY DEF OwnInstructions, Jump, Write, Exit
<1>3. /\ Jump("next").op = "jump" /\ Jump("next").to = "next" /\ Jump("next") \in OwnInstructions
      /\ Jump("redirect").op = "jump" /\ Jump("redirect").to = "redirect"
      /\ Jump("next") # Jump("redirect")
    BY DEF OwnInstructions, Jump
<1>4. CASE s # <<>> /\ Last(s).op = "jump"
    <2>1. b = s /\ Len(s) >= 1 /\ Last(s) = s[Len(s)] /\ s[Len(s)] \in OwnInstructions
        BY <1>1, <1>4 DEF Last
    <2>2. \A i \in 1..Len(s) : s[i].op = "jump" <=> i = Len(s)
        BY <1>1, <1>4, <2>1
    <2>3. s[Len(s)] = Jump("next") \/ s[Len(s)] = Jump("redirect")
        BY <1>2, <1>4, <2>1
    <2>4. /\ s[Len(s)].to = "next" \/ s[Len(s)].to = "redirect"
          /\ s[Len(s)].to = "redirect" <=> s # <<>> /\ Last(s) = Jump("redirect")
        BY <1>3, <1>4, <2>1, <2>3
    <2> HIDE DEF b
    <2> QED BY <1>1, <2>1, <2>2, <2>4 DEF b
<1>5. CASE ~(s # <<>> /\ Last(s).op = "jump")
    <2> DEFINE t == Append(s, Jump("next"))
    <2>1. b = t
        BY <1>5
    <2>2. t \in Seq(OwnInstructions) /\ Len(t) = Len(s) + 1 /\ t[Len(t)] = Jump("next")
          /\ \A i \in 1..Len(s) : t[i] = s[i]
        BY <1>1, <1>3
    <2>3. s # <<>> => Len(s) >= 1 /\ Last(s) = s[Len(s)]
        BY <1>1 DEF Last
    <2>4. \A i \in 1..Len(s) : s[i].op # "jump"
        <3> SUFFICES ASSUME NEW i \in 1..Len(s) PROVE s[i].op # "jump"
            OBVIOUS
        <3>1. s # <<>>
            BY <1>1
        <3>2. i \in 1..(Len(s) - 1) \/ i = Len(s)
            BY <1>1
        <3> QED BY <1>1, <1>5, <2>3, <3>1, <3>2
    <2> HIDE DEF t
    <2>5. \A i \in 1..Len(t) : t[i].op = "jump" <=> i = Len(t)
        <3>1. \A i \in 1..Len(t) : i \in 1..Len(s) \/ i = Len(t)
            BY <1>1, <2>2
        <3>2. \A i \in 1..Len(s) : i # Len(t)
            BY <1>1, <2>2
        <3> QED BY <1>3, <2>2, <2>4, <3>1, <3>2
    <2>6. t[Len(t)].to = "next" /\ ~(s # <<>> /\ Last(s) = Jump("redirect"))
        BY <1>3, <1>5, <2>2
    <2>7. Len(t) >= 1
        BY <1>1, <2>2
    <2> HIDE DEF b
    <2> QED BY <2>1, <2>2, <2>5, <2>6, <2>7 DEF b
<1> QED BY <1>4, <1>5

LEMMA CustomStep ==
    ASSUME NEW r \in AllRules, r.kind = "custom", block.ins = Build(r), CheckBlock(Build(r)),
           ip \in 1..Len(Build(r)), pc = "run", Run
    PROVE  \/ ip' \in 1..Len(Build(r)) /\ UNCHANGED <<pc, blk, verdict>>
           \/ GotoNext /\ ~Meets(r)
           \/ Return(block.hit) /\ Meets(r)
<1> DEFINE s == r.ins
<1> DEFINE b == IF s # <<>> /\ Last(s).op = "jump" THEN s ELSE Append(s, Jump("next"))
<1>1. s \in OwnBlocks
    BY RuleFields
<1>2. Build(r) = b
    BY DEF Build, Custom
<1>3. Meets(r) <=> s # <<>> /\ Last(s) = Jump("redirect")
    BY DEF Meets
<1> HIDE DEF s
<1>4. /\ b \in Seq(OwnInstructions) /\ Len(b) >= 1
      /\ \A i \in 1..Len(b) : b[i].op = "jump" <=> i = Len(b)
      /\ b[Len(b)].to = "next" \/ b[Len(b)].to = "redirect"
      /\ b[Len(b)].to = "redirect" <=> Meets(r)
    BY <1>1, <1>3, CustomShape
<1> HIDE DEF b
<1>5. ins = b[ip] /\ ip \in 1..Len(b) /\ ins \in OwnInstructions /\ Len(b) \in Nat
    BY <1>2, <1>4 DEF ins
<1>6. ins.op # "exit"
    BY <1>2, <1>5 DEF CheckBlock
<1>7. CASE ip = Len(b)
    <2>1. ins.op = "jump"
        BY <1>4, <1>5, <1>7
    <2>2. DoJump
        BY <2>1 DEF Run, DoFrame, DoBounds, DoUntag, DoTest, DoBranch, DoWrite, Running
    <2>3. CASE ins.to = "next"
        <3>1. ~Meets(r)
            BY <1>4, <1>5, <1>7, <2>3
        <3> QED BY <2>2, <2>3, <3>1 DEF DoJump
    <2>4. CASE ins.to = "redirect"
        <3>1. Meets(r)
            BY <1>4, <1>5, <1>7, <2>4
        <3> QED BY <2>2, <2>4, <3>1 DEF DoJump
    <2> QED BY <1>4, <1>5, <1>7, <2>3, <2>4
<1>8. CASE ip # Len(b)
    <2>1. ins.op # "jump"
        BY <1>4, <1>5, <1>8
    <2>2. ins.op = "write"
        BY <1>5, <1>6, <2>1 DEF OwnInstructions, Jump, Write, Exit
    <2>3. DoWrite
        BY <2>2 DEF Run, DoFrame, DoBounds, DoUntag, DoTest, DoBranch, DoJump, Running
    <2>4. ip' = ip + 1 /\ UNCHANGED <<pc, blk, verdict>>
        BY <2>3 DEF DoWrite, GotoIns
    <2> QED BY <1>2, <1>5, <1>8, <2>4
<1> QED BY <1>7, <1>8

\* What any instruction leaves alone, of a block that passed its check.
LEMMA RunKeeps ==
    ASSUME Run, CheckBlock(block.ins), ip \in 1..Len(block.ins)
    PROVE  call' = call /\ filter' = filter /\ packet' = packet /\ data' = data /\ queue' = queue
<1>1. CASE DoFrame
    BY <1>1 DEF DoFrame
<1>2. CASE DoBounds
    BY <1>2 DEF DoBounds, regs
<1>3. CASE DoUntag
    BY <1>3 DEF DoUntag
<1>4. CASE DoTest
    BY <1>4 DEF DoTest, regs
<1>5. CASE DoBranch
    BY <1>5 DEF DoBranch, regs
<1>6. CASE DoJump
    BY <1>6 DEF DoJump, regs
<1>7. CASE DoWrite
    <2>1. ins.op = "write" /\ ins.reg \in {"R0", "R9"}
        BY <1>7 DEF DoWrite, Running, CheckBlock, ins
    <2> QED BY <1>7, <2>1 DEF DoWrite
<1> QED BY <1>1, <1>2, <1>3, <1>4, <1>5, <1>6, <1>7 DEF Run

\* A step of a rule's block.
LEMMA RuleStep ==
    ASSUME NEW r \in AllRules, r.kind # "error", block.ins = Build(r), CheckBlock(Build(r)), InBlock(r),
           Sane(packet), data = 0, pc = "run", Run
    PROVE  /\ ip \in 1..Len(Build(r))
           /\ \/ InBlock(r)' /\ UNCHANGED <<pc, blk, verdict>>
              \/ GotoNext /\ ~Meets(r)
              \/ Return(block.hit) /\ Meets(r)
<1> DEFINE b == Build(r)
<1>1. CASE r.kind \in OneArm
    <2> DEFINE reach == ReachOf(r)
    <2> DEFINE tests == TestsOf(r)
    <2>1. /\ reach \in 14..64 /\ TestList(tests, reach) /\ b = L3Base \o Arm(reach, tests)
          /\ base = Skip => (Reaches(reach) /\ AllPass(tests) <=> Meets(r))
          /\ Meets(r) => Reaches(14)
        BY <1>1, OneArmMeans
    <2> HIDE DEF reach, tests, b
    <2>2. tests \in Seq(Tests) /\ reach \in Nat /\ Len(tests) \in Nat
        BY <2>1 DEF TestList
    <2>3. IsHead(b) /\ IsArm(b, 4, reach, tests)
        BY <2>1, <2>2, OneArmShape
    <2>4. InHead \/ InArm(4, reach, tests)
        BY <1>1 DEF InBlock, reach, tests
    <2>5. InHead' \/ InArm(4, reach, tests)' => InBlock(r)'
        BY <1>1 DEF InBlock, OneArm, reach, tests
    <2>6. b = block.ins
        BY DEF b
    <2>7. CASE InHead
        <3>1. ip \in 1..Len(b)
            BY <2>3, <2>7 DEF InHead, IsHead
        <3>2. \/ InHead' /\ UNCHANGED <<pc, blk, verdict>>
              \/ ip' = 4 /\ base' = Skip /\ packet' = packet /\ UNCHANGED <<pc, blk, verdict>>
              \/ GotoNext /\ ~Reaches(14)
            BY <2>3, <2>6, <2>7, HeadStep
        <3>3. ip' = 4 /\ base' = Skip /\ packet' = packet => InArm(4, reach, tests)'
            <4>1. packet' = packet => Skip' = Skip
                BY Unmoved
            <4> QED BY <2>2, <4>1 DEF InArm
        <3> QED BY <2>1, <2>5, <3>1, <3>2, <3>3 DEF b
    <2>8. CASE InArm(4, reach, tests)
        <3>1. ip \in 1..Len(b)
            BY <2>2, <2>3, <2>8 DEF InArm, IsArm
        <3>2. 4 \in Nat \ {0}
            OBVIOUS
        <3>3. \/ InArm(4, reach, tests)' /\ base' = base /\ UNCHANGED <<pc, blk, verdict>>
              \/ GotoNext /\ ~(Reaches(reach) /\ AllPass(tests))
              \/ Return(block.hit) /\ Reaches(reach) /\ AllPass(tests)
            BY <2>1, <2>3, <2>6, <2>8, <3>2, ArmStep
        <3>4. Reaches(reach) /\ AllPass(tests) <=> Meets(r)
            BY <2>1, <2>8 DEF InArm
        <3> QED BY <2>5, <3>1, <3>3, <3>4 DEF b
    <2> QED BY <2>4, <2>7, <2>8
<1>2. CASE r.kind = "l4port"
    <2> DEFINE reach4 == PortReach(r, TRUE)
    <2> DEFINE tests4 == PortTests(r, TRUE)
    <2> DEFINE reach6 == PortReach(r, FALSE)
    <2> DEFINE tests6 == PortTests(r, FALSE)
    <2> DEFINE at6 == SecondArm(r)
    <2> DEFINE InMiddle == base = Skip /\ ip \in 4..5 /\ (ip = 5 => base + 14 <= packet.len)
    <2>1. /\ reach4 \in 14..64 /\ TestList(tests4, reach4) /\ reach6 \in 14..64 /\ TestList(tests6, reach6)
          /\ base = Skip /\ Type = EtIPv4 => (Reaches(reach4) /\ AllPass(tests4) <=> Meets(r))
          /\ base = Skip /\ Type = EtIPv6 => (Reaches(reach6) /\ AllPass(tests6) <=> Meets(r))
          /\ Type \notin {EtIPv4, EtIPv6} => ~Meets(r)
          /\ Meets(r) => Reaches(14)
        <3>1. EtherType(TRUE) = EtIPv4 /\ EtherType(FALSE) = EtIPv6 /\ TRUE \in BOOLEAN /\ FALSE \in BOOLEAN
            BY DEF EtherType
        <3> QED BY <1>2, <3>1, PortArmsMean
    <2>2. /\ IsHead(b) /\ b[4] = Bounds(14) /\ b[5] = [op |-> "branch", v6 |-> at6] /\ Len(b) >= 5
          /\ IsArm(b, 6, reach4, tests4) /\ IsArm(b, at6, reach6, tests6) /\ at6 \in Nat /\ at6 >= 8
        BY <1>2, PortShape
    <2>4. /\ \/ InHead \/ InMiddle
             \/ Type = EtIPv4 /\ InArm(6, reach4, tests4)
             \/ Type = EtIPv6 /\ InArm(at6, reach6, tests6)
          /\ InBlock(r)' <=> \/ InHead' \/ InMiddle'
                             \/ Type' = EtIPv4 /\ InArm(6, reach4, tests4)'
                             \/ Type' = EtIPv6 /\ InArm(at6, reach6, tests6)'
        BY <1>2 DEF InBlock, OneArm
    <2> HIDE DEF reach4, tests4, reach6, tests6, at6, b
    <2>5. /\ tests4 \in Seq(Tests) /\ reach4 \in Nat /\ Len(tests4) \in Nat
          /\ tests6 \in Seq(Tests) /\ reach6 \in Nat /\ Len(tests6) \in Nat /\ at6 \in Nat \ {0} /\ at6 # 5 /\ at6 >= 8
        <3>1. tests4 \in Seq(Tests) /\ tests6 \in Seq(Tests)
            BY <2>1, Zenon DEF TestList
        <3>2. reach4 \in 14..64 /\ reach6 \in 14..64 /\ at6 \in Nat /\ at6 >= 8
            BY <2>1, <2>2, Zenon
        <3>3. Len(tests4) \in Nat /\ Len(tests6) \in Nat
            BY <3>1
        <3>4. reach4 \in Nat /\ reach6 \in Nat /\ at6 \in Nat \ {0} /\ at6 # 5
            BY <3>2
        <3> QED BY <3>1, <3>2, <3>3, <3>4
    <2>6. /\ IsHead(b) /\ b[4] = Bounds(14) /\ b[5] = [op |-> "branch", v6 |-> at6] /\ Len(b) >= 5
          /\ IsArm(b, 6, reach4, tests4) /\ IsArm(b, at6, reach6, tests6)
        BY <2>2
    <2>7. b = block.ins
        BY DEF b
    <2>8. CASE InHead
        <3>1. ip \in 1..Len(b)
            BY <2>6, <2>8 DEF InHead, IsHead
        <3>2. \/ InHead' /\ UNCHANGED <<pc, blk, verdict>>
              \/ ip' = 4 /\ base' = Skip /\ packet' = packet /\ UNCHANGED <<pc, blk, verdict>>
              \/ GotoNext /\ ~Reaches(14)
            BY <2>6, <2>7, <2>8, HeadStep
        <3>3. ip' = 4 /\ base' = Skip /\ packet' = packet => InMiddle'
            <4>1. packet' = packet => Skip' = Skip
                BY Unmoved
            <4> QED BY <4>1
        <3> HIDE DEF InMiddle
        <3> QED BY <2>1, <2>4, <3>1, <3>2, <3>3 DEF b
    <2>9. CASE InMiddle /\ ip = 4
        <3>1. ins.op = "bounds" /\ ins.n = 14
            BY <2>6, <2>7, <2>9 DEF ins, Bounds
        <3>2. DoBounds
            BY <3>1 DEF Run, DoFrame, DoUntag, DoTest, DoBranch, DoJump, DoWrite, Running
        <3>3. packet' = packet /\ base' = base
            BY <3>2 DEF DoBounds, regs
        <3>4. CASE base + 14 > packet.len
            <4>1. GotoNext
                BY <3>1, <3>2, <3>4 DEF DoBounds
            <4>2. ~Reaches(14)
                BY <2>9, <3>4 DEF Reaches, Skip, Sane
            <4> QED BY <2>1, <2>6, <2>9, <4>1, <4>2 DEF b
        <3>5. CASE ~(base + 14 > packet.len)
            <4>1. ip' = 5 /\ UNCHANGED <<pc, blk, verdict>>
                BY <2>9, <3>1, <3>2, <3>5 DEF DoBounds, GotoIns
            <4>2. base + 14 <= packet.len
                BY <2>9, <3>5 DEF Skip, Sane
            <4>3. Skip' = Skip
                BY <3>3, Unmoved
            <4>4. InMiddle'
                BY <2>9, <3>3, <4>1, <4>2, <4>3
            <4> HIDE DEF InMiddle
            <4>5. InBlock(r)'
                BY <2>4, <4>4
            <4>6. 4 \in 1..Len(b)
                BY <2>6
            <4> QED BY <2>9, <4>1, <4>5, <4>6 DEF b
        <3> QED BY <3>4, <3>5
    <2>10. CASE InMiddle /\ ip = 5
        <3>1. ins.op = "branch" /\ ins.v6 = at6
            BY <2>6, <2>7, <2>10 DEF ins
        <3>2. DoBranch
            BY <3>1 DEF Run, DoFrame, DoBounds, DoUntag, DoTest, DoJump, DoWrite, Running
        <3>3. packet' = packet /\ base' = base
            BY <3>2 DEF DoBranch, regs
        <3>4. Field(12) = Type /\ Skip' = Skip /\ Type' = Type /\ base = Skip /\ 5 \in 1..Len(b) /\ EtIPv4 # EtIPv6
            BY <2>6, <2>10, <3>3, FieldsByName, Unmoved DEF EtIPv4, EtIPv6
        <3> HIDE DEF InMiddle
        <3>5. CASE Type = EtIPv4
            <4>1. ip' = 6 /\ UNCHANGED <<pc, blk, verdict>>
                BY <2>10, <3>2, <3>4, <3>5 DEF DoBranch, GotoIns
            <4>2. InArm(6, reach4, tests4)'
                BY <2>5, <3>3, <3>4, <4>1 DEF InArm
            <4> QED BY <2>4, <2>10, <3>4, <3>5, <4>1, <4>2 DEF b
        <3>6. CASE Type = EtIPv6
            <4>1. ip' = at6 /\ UNCHANGED <<pc, blk, verdict>>
                BY <3>1, <3>2, <3>4, <3>6 DEF DoBranch, GotoIns
            <4>2. InArm(at6, reach6, tests6)'
                BY <2>5, <3>3, <3>4, <4>1 DEF InArm
            <4> QED BY <2>4, <2>10, <3>4, <3>6, <4>1, <4>2 DEF b
        <3>7. CASE Type \notin {EtIPv4, EtIPv6}
            <4>1. GotoNext
                BY <3>2, <3>4, <3>7 DEF DoBranch
            <4> QED BY <2>1, <2>10, <3>4, <3>7, <4>1 DEF b
        <3> QED BY <3>5, <3>6, <3>7
    <2>11. CASE Type = EtIPv4 /\ InArm(6, reach4, tests4)
        <3>1. ip \in 1..Len(b)
            BY <2>5, <2>6, <2>11 DEF InArm, IsArm
        <3>2. 6 \in Nat \ {0}
            OBVIOUS
        <3>3. \/ InArm(6, reach4, tests4)' /\ base' = base /\ UNCHANGED <<pc, blk, verdict>>
              \/ GotoNext /\ ~(Reaches(reach4) /\ AllPass(tests4))
              \/ Return(block.hit) /\ Reaches(reach4) /\ AllPass(tests4)
            BY <2>1, <2>6, <2>7, <2>11, <3>2, ArmStep
        <3>4. Reaches(reach4) /\ AllPass(tests4) <=> Meets(r)
            BY <2>1, <2>11 DEF InArm
        <3>5. Type' = Type
            <4>1. packet' = packet
                BY <3>1, RunKeeps DEF b
            <4> QED BY <4>1, Unmoved
        <3> HIDE DEF InMiddle
        <3> QED BY <2>4, <2>11, <3>1, <3>3, <3>4, <3>5 DEF b
    <2>12. CASE Type = EtIPv6 /\ InArm(at6, reach6, tests6)
        <3>1. ip \in 1..Len(b)
            BY <2>5, <2>6, <2>12, SMTT(60) DEF InArm, IsArm
        <3>2. \/ InArm(at6, reach6, tests6)' /\ base' = base /\ UNCHANGED <<pc, blk, verdict>>
              \/ GotoNext /\ ~(Reaches(reach6) /\ AllPass(tests6))
              \/ Return(block.hit) /\ Reaches(reach6) /\ AllPass(tests6)
            BY <2>1, <2>5, <2>6, <2>7, <2>12, ArmStep
        <3>3. Reaches(reach6) /\ AllPass(tests6) <=> Meets(r)
            BY <2>1, <2>12 DEF InArm
        <3>4. Type' = Type
            <4>1. packet' = packet
                BY <3>1, RunKeeps DEF b
            <4> QED BY <4>1, Unmoved
        <3> HIDE DEF InMiddle
        <3> QED BY <2>4, <2>12, <3>1, <3>2, <3>3, <3>4 DEF b
    <2>13. InMiddle => ip = 4 \/ ip = 5
        OBVIOUS
    <2> HIDE DEF InMiddle
    <2> QED BY <2>4, <2>8, <2>9, <2>10, <2>11, <2>12, <2>13
<1>3. CASE r.kind \notin OneArm \cup {"l4port"}
    <2>1. ip \in 1..Len(b)
        BY <1>3 DEF InBlock
    <2>2. ip' \in 1..Len(b) => InBlock(r)'
        BY <1>3 DEF InBlock, OneArm
    <2>3. r.kind \in {"custom", "all", "none"}
        BY <1>3, RuleFields DEF OneArm
    <2>4. CASE r.kind = "custom"
        <3>1. \/ ip' \in 1..Len(b) /\ UNCHANGED <<pc, blk, verdict>>
              \/ GotoNext /\ ~Meets(r)
              \/ Return(block.hit) /\ Meets(r)
            BY <2>1, <2>4, CustomStep
        <3> HIDE DEF b
        <3> QED BY <2>1, <2>2, <3>1 DEF b
    <2>5. CASE r.kind = "all"
        <3>1. Build(r) = <<Jump("redirect")>> /\ Meets(r)
            BY <2>5 DEF Build, Meets
        <3>2. ins = Jump("redirect")
            BY <2>1, <3>1 DEF ins
        <3>3. DoJump /\ ins.to = "redirect"
            BY <3>2 DEF Run, DoFrame, DoBounds, DoUntag, DoTest, DoBranch, DoWrite, Running, Jump
        <3> QED BY <2>1, <3>1, <3>3 DEF DoJump
    <2>6. CASE r.kind = "none"
        <3>1. Build(r) = <<Jump("next")>> /\ ~Meets(r)
            BY <2>6 DEF Build, Meets
        <3>2. ins = Jump("next")
            BY <2>1, <3>1 DEF ins
        <3>3. DoJump /\ ins.to = "next"
            BY <3>2 DEF Run, DoFrame, DoBounds, DoUntag, DoTest, DoBranch, DoWrite, Running, Jump
        <3> QED BY <2>1, <3>1, <3>3 DEF DoJump
    <2> QED BY <2>3, <2>4, <2>5, <2>6
<1> QED BY <1>1, <1>2, <1>3

\* In a block, every load is in the packet.
LEMMA RuleLoads ==
    ASSUME NEW r \in AllRules, r.kind # "error", block.ins = Build(r), CheckBlock(Build(r)), InBlock(r), Sane(packet)
    PROVE  /\ ins.op = "test" => base + ins.off + ins.width <= packet.len
           /\ ins.op \in {"untag", "branch"} => base + 14 <= packet.len
<1> DEFINE b == Build(r)
<1> DEFINE InTheHead == InHead /\ IsHead(b)
<1> DEFINE Good == /\ ins.op = "test" => base + ins.off + ins.width <= packet.len
                   /\ ins.op \in {"untag", "branch"} => base + 14 <= packet.len
<1>1. ASSUME InHead, IsHead(b) PROVE Good
    <2>1. ins = b[ip] /\ ip \in 1..3
        BY <1>1 DEF ins, InHead
    <2>2. ip = 1 => ins.op = "frame"
        BY <1>1, <2>1 DEF IsHead
    <2>3. ip = 2 => ins.op = "bounds"
        BY <1>1, <2>1 DEF IsHead, Bounds
    <2>4. ip = 3 => ins.op = "untag" /\ base + 14 <= packet.len
        BY <1>1, <2>1 DEF IsHead, InHead, Sane
    <2> QED BY <2>1, <2>2, <2>3, <2>4
<1>2. ASSUME NEW at \in Nat \ {0}, NEW reach \in 14..64, NEW tests, TestList(tests, reach),
             IsArm(b, at, reach, tests), InArm(at, reach, tests)
      PROVE  Good
    <2>1. ins = b[ip] /\ ip \in at..(at + Len(tests) + 1) /\ Len(tests) \in Nat
        BY <1>2 DEF ins, InArm, TestList
    <2>2. CASE ip = at
        BY <1>2, <2>1, <2>2 DEF IsArm, Bounds
    <2>3. CASE ip = at + Len(tests) + 1
        BY <1>2, <2>1, <2>3 DEF IsArm, Jump
    <2>4. CASE ip # at /\ ip # at + Len(tests) + 1
        <3> DEFINE k == ip - at
        <3>1. k \in 1..Len(tests) /\ ip = at + k
            BY <2>1, <2>4
        <3> HIDE DEF k
        <3>2. ins = tests[k] /\ tests[k] \in Tests /\ tests[k].off + tests[k].width <= reach
            BY <1>2, <2>1, <3>1 DEF IsArm, TestList, Within
        <3>3. base + reach <= packet.len /\ base = Skip
            BY <1>2, <2>1, <2>4 DEF InArm
        <3>4. ins.op = "test" /\ ins.off \in Nat /\ ins.width \in Nat /\ ins.off + ins.width <= reach
            BY <3>2 DEF Tests
        <3>5. base \in Nat /\ packet.len \in Nat
            BY <3>3 DEF Skip, Sane
        <3> QED BY <1>2, <3>3, <3>4, <3>5
    <2> QED BY <2>2, <2>3, <2>4
<1>3. CASE r.kind \in OneArm
    <2>1. /\ ReachOf(r) \in 14..64 /\ TestList(TestsOf(r), ReachOf(r)) /\ b = L3Base \o Arm(ReachOf(r), TestsOf(r))
        BY <1>3, OneArmMeans
    <2>2. TestsOf(r) \in Seq(Tests) /\ ReachOf(r) \in Nat /\ 4 \in Nat \ {0}
        <3>1. TestsOf(r) \in Seq(Tests)
            BY <2>1 DEF TestList
        <3>2. \A n \in 14..64 : n \in Nat
            OBVIOUS
        <3>3. ReachOf(r) \in Nat
            BY <2>1, <3>2, Zenon
        <3> QED BY <3>1, <3>3
    <2>3. IsHead(b) /\ IsArm(b, 4, ReachOf(r), TestsOf(r))
        BY <2>1, <2>2, OneArmShape
    <2>4. InHead \/ InArm(4, ReachOf(r), TestsOf(r))
        BY <1>3 DEF InBlock
    <2> HIDE DEF b, Good
    <2>5. Good
        BY <1>1, <1>2, <2>1, <2>2, <2>3, <2>4
    <2> QED BY <2>5 DEF Good
<1>4. CASE r.kind = "l4port"
    <2> DEFINE reach4 == PortReach(r, TRUE)
    <2> DEFINE tests4 == PortTests(r, TRUE)
    <2> DEFINE reach6 == PortReach(r, FALSE)
    <2> DEFINE tests6 == PortTests(r, FALSE)
    <2>1. reach4 \in 14..64 /\ TestList(tests4, reach4) /\ reach6 \in 14..64 /\ TestList(tests6, reach6)
        BY <1>4, PortArmsMean
    <2> DEFINE at6 == SecondArm(r)
    <2>2. /\ IsHead(b) /\ b[4] = Bounds(14) /\ b[5] = [op |-> "branch", v6 |-> at6]
          /\ IsArm(b, 6, reach4, tests4) /\ IsArm(b, at6, reach6, tests6) /\ at6 \in Nat /\ at6 >= 8
        BY <1>4, PortShape
    <2>3. \/ InHead
          \/ base = Skip /\ ip \in 4..5 /\ (ip = 5 => base + 14 <= packet.len)
          \/ InArm(6, reach4, tests4)
          \/ InArm(at6, reach6, tests6)
        BY <1>4 DEF InBlock
    <2>4. b = block.ins
        BY DEF b
    <2> HIDE DEF reach4, tests4, reach6, tests6, b, at6
    <2>5. 6 \in Nat \ {0} /\ at6 \in Nat \ {0}
        BY <2>2
    <2>6. ASSUME ip \in 4..5, ip = 5 => base + 14 <= packet.len PROVE Good
        <3>1. ip = 4 => ins.op = "bounds"
            BY <2>2, <2>4 DEF ins, Bounds
        <3>2. ip = 5 => ins.op = "branch"
            BY <2>2, <2>4 DEF ins
        <3>3. ip = 4 \/ ip = 5
            BY <2>6
        <3> QED BY <2>6, <3>1, <3>2, <3>3
    <2> HIDE DEF Good
    <2>7. Good
        BY <1>1, <1>2, <2>1, <2>2, <2>3, <2>5, <2>6
    <2> QED BY <2>7 DEF Good
<1>5. CASE r.kind \notin OneArm \cup {"l4port"}
    <2>1. ip \in 1..Len(b) /\ ins = b[ip]
        BY <1>5 DEF InBlock, ins
    <2>2. r.kind \in {"custom", "all", "none"}
        BY <1>5, RuleFields DEF OneArm
    <2>3. CASE r.kind = "custom"
        <3> DEFINE s == r.ins
        <3> DEFINE t == IF s # <<>> /\ Last(s).op = "jump" THEN s ELSE Append(s, Jump("next"))
        <3>1. s \in OwnBlocks
            BY <2>3, RuleFields
        <3>2. b = t
            BY <2>3 DEF Build, Custom
        <3> HIDE DEF s, b
        <3>3. t \in Seq(OwnInstructions)
            BY <3>1, CustomShape
        <3> HIDE DEF t
        <3>4. ins \in OwnInstructions
            BY <2>1, <3>2, <3>3
        <3> QED BY <3>4 DEF OwnInstructions, Jump, Write, Exit
    <2>4. CASE r.kind \in {"all", "none"}
        <3>1. b = <<Jump("redirect")>> \/ b = <<Jump("next")>>
            BY <2>4 DEF Build
        <3>2. ins.op = "jump"
            BY <2>1, <3>1 DEF Jump
        <3> QED BY <3>2
    <2> QED BY <2>2, <2>3, <2>4
<1> QED BY <1>3, <1>4, <1>5

(***************************************************************************)
(* The management exceptions.                                              *)
(***************************************************************************)
LEMMA RangeAppend ==
    ASSUME NEW S, NEW s \in Seq(S), NEW x \in S
    PROVE  Append(s, x) \in Seq(S) /\ Range(Append(s, x)) = Range(s) \cup {x}
<1> DEFINE t == Append(s, x)
<1>1. /\ t \in Seq(S) /\ Len(t) = Len(s) + 1 /\ Len(s) \in Nat
      /\ \A i \in 1..Len(s) : t[i] = s[i]
      /\ t[Len(s) + 1] = x
    OBVIOUS
<1>2. DOMAIN s = 1..Len(s) /\ DOMAIN t = 1..(Len(s) + 1)
    <2>1. \A u \in Seq(S) : DOMAIN u = 1..Len(u)
        OBVIOUS
    <2> HIDE DEF t
    <2> QED BY <1>1, <2>1
<1> HIDE DEF t
<1>3. \A i : i \in 1..(Len(s) + 1) <=> i \in 1..Len(s) \/ i = Len(s) + 1
    BY <1>1
<1>4. Range(t) = Range(s) \cup {x}
    BY <1>1, <1>2, <1>3 DEF Range
<1> QED BY <1>1, <1>4 DEF t

\* Distinct drops no address and adds none.
LEMMA DistinctKeeps ==
    ASSUME NEW S, NEW hosts \in Seq(S)
    PROVE  Distinct(hosts) \in Seq(S) /\ Range(Distinct(hosts)) = Range(hosts)
<1> DEFINE n == Len(hosts)
<1> DEFINE With(prev, x) == IF x \in Range(prev) THEN prev ELSE Append(prev, x)
<1> DEFINE Body(f, k) == [i \in 0..k |-> IF i = 0 THEN <<>> ELSE With(f[i - 1], hosts[i])]
<1> DEFINE T == {k \in Nat : \E f : f = Body(f, k)}
<1>1. n \in Nat /\ DOMAIN hosts = 1..n /\ \A i \in 1..n : hosts[i] \in S
    OBVIOUS
<1> HIDE DEF n, With
<1>2. 0 \in T
    <2> DEFINE f == [i \in 0..0 |-> <<>>]
    <2>1. f = Body(f, 0)
        OBVIOUS
    <2> QED BY <2>1
<1>3. ASSUME NEW k \in Nat, k \in T PROVE k + 1 \in T
    <2>1. PICK f : f = Body(f, k)
        BY <1>3
    <2> DEFINE g == [i \in 0..(k + 1) |-> IF i = k + 1 THEN With(f[k], hosts[k + 1]) ELSE f[i]]
    <2>2. \A i \in 0..(k + 1) : g[i] = IF i = 0 THEN <<>> ELSE With(g[i - 1], hosts[i])
        <3> SUFFICES ASSUME NEW i \in 0..(k + 1) PROVE g[i] = IF i = 0 THEN <<>> ELSE With(g[i - 1], hosts[i])
            OBVIOUS
        <3>1. CASE i = k + 1
            <4>1. i # 0 /\ i - 1 = k /\ k \in 0..(k + 1) /\ k # k + 1
                BY <3>1
            <4>2. g[i] = With(f[k], hosts[i]) /\ g[k] = f[k]
                BY <3>1, <4>1
            <4> QED BY <4>1, <4>2
        <3>2. CASE i # k + 1
            <4>1. i \in 0..k /\ g[i] = f[i]
                BY <3>2
            <4>2. f[i] = IF i = 0 THEN <<>> ELSE With(f[i - 1], hosts[i])
                BY <2>1, <4>1
            <4>3. i # 0 => g[i - 1] = f[i - 1]
                BY <4>1
            <4> QED BY <4>1, <4>2, <4>3
        <3> QED BY <3>1, <3>2
    <2>3. g = Body(g, k + 1)
        BY <2>2
    <2> HIDE DEF g
    <2> HIDE DEF Body
    <2> QED BY <2>3
<1>4. n \in T
    <2>1. Nat \subseteq T
        <3> HIDE DEF T
        <3> QED BY <1>2, <1>3, Induction
    <2> QED BY <1>1, <2>1
<1> DEFINE kept == CHOOSE f : f = Body(f, n)
<1>5. kept = Body(kept, n)
    <2>1. \E f : f = Body(f, n)
        BY <1>4
    <2> HIDE DEF Body
    <2> QED BY <2>1
<1>6. Distinct(hosts) = kept[n]
    BY DEF Distinct, With, n
<1> HIDE DEF kept
<1>7. kept[0] = <<>> /\ \A k \in Nat : k + 1 <= n => kept[k + 1] = With(kept[k], hosts[k + 1])
    <2>1. \A i \in 0..n : kept[i] = IF i = 0 THEN <<>> ELSE With(kept[i - 1], hosts[i])
        BY <1>5
    <2>2. 0 \in 0..n /\ \A k \in Nat : k + 1 <= n => k + 1 \in 0..n /\ k + 1 # 0 /\ (k + 1) - 1 = k
        BY <1>1
    <2> QED BY <2>1, <2>2
<1> DEFINE K == {k \in Nat : k <= n => kept[k] \in Seq(S) /\ Range(kept[k]) = {hosts[i] : i \in 1..k}}
<1>8. 0 \in K
    <2>1. <<>> \in Seq(S) /\ Range(<<>>) = {} /\ 1..0 = {}
        BY DEF Range
    <2> QED BY <1>7, <2>1
<1>9. ASSUME NEW k \in Nat, k \in K PROVE k + 1 \in K
    <2> SUFFICES ASSUME k + 1 <= n
                 PROVE  kept[k + 1] \in Seq(S) /\ Range(kept[k + 1]) = {hosts[i] : i \in 1..(k + 1)}
        OBVIOUS
    <2>1. /\ kept[k] \in Seq(S) /\ Range(kept[k]) = {hosts[i] : i \in 1..k}
          /\ kept[k + 1] = With(kept[k], hosts[k + 1])
          /\ hosts[k + 1] \in S
        BY <1>1, <1>7, <1>9
    <2>2. {hosts[i] : i \in 1..(k + 1)} = {hosts[i] : i \in 1..k} \cup {hosts[k + 1]}
        <3>1. \A i : i \in 1..(k + 1) <=> i \in 1..k \/ i = k + 1
            OBVIOUS
        <3> QED BY <3>1
    <2>3. CASE hosts[k + 1] \in Range(kept[k])
        BY <2>1, <2>2, <2>3 DEF With
    <2>4. CASE hosts[k + 1] \notin Range(kept[k])
        <3>1. kept[k + 1] = Append(kept[k], hosts[k + 1])
            BY <2>1, <2>4 DEF With
        <3> QED BY <2>1, <2>2, <3>1, RangeAppend
    <2> QED BY <2>3, <2>4
<1>10. n \in K
    <2>1. Nat \subseteq K
        <3> HIDE DEF K
        <3> QED BY <1>8, <1>9, Induction
    <2> QED BY <1>1, <2>1
<1>11. Range(hosts) = {hosts[i] : i \in 1..n}
    BY <1>1 DEF Range
<1>12. n <= n
    BY <1>1
<1> QED BY <1>6, <1>10, <1>11, <1>12

\* The rules and hosts a rule of the product comes from, and where it is.
LEMMA Cell ==
    ASSUME NEW m \in Nat, NEW n \in Nat, NEW k \in 1..(m * n)
    PROVE  n # 0 /\ ((k - 1) \div n) + 1 \in 1..m /\ ((k - 1) % n) + 1 \in 1..n
<1>1. n # 0
    <2>1. ASSUME n = 0 PROVE FALSE
        <3>1. m * n = 0
            BY <2>1
        <3> QED BY <3>1
    <2> QED BY <2>1
<1> DEFINE q == (k - 1) \div n
<1> DEFINE r == (k - 1) % n
<1>2. k - 1 \in Int /\ n \in Nat \ {0} /\ m * n \in Int
    BY <1>1
<1>3. q \in Int /\ r \in 0..(n - 1) /\ k - 1 = n * q + r
    BY <1>2, DivMod, Zenon
<1> HIDE DEF q, r
<1>4. q >= 0
    <2>1. ASSUME q <= -1 PROVE FALSE
        <3>1. n * (0 - q) >= n /\ n * (0 - q) = 0 - n * q /\ n * q \in Int
            BY <1>2, <1>3, <2>1, AtLeastOnce
        <3> QED BY <1>2, <1>3, <3>1
    <2> QED BY <1>3, <2>1
<1>5. q <= m - 1
    <2>1. ASSUME q >= m PROVE FALSE
        <3>1. n * (q - m) >= 0
            BY <1>2, <1>3, <2>1
        <3>2. n * (q - m) = n * q - n * m /\ n * m = m * n /\ n * q \in Int
            BY <1>2, <1>3
        <3> QED BY <1>2, <1>3, <3>1, <3>2
    <2> QED BY <1>3, <2>1
<1>6. q + 1 \in 1..m /\ r + 1 \in 1..n
    BY <1>1, <1>3, <1>4, <1>5
<1> QED BY <1>1, <1>6 DEF q, r

RowOf(k, n) == ((k - 1) \div n) + 1
ColOf(k, n) == ((k - 1) % n) + 1

LEMMA CellOf ==
    ASSUME NEW m \in Nat, NEW n \in Nat, NEW i \in 1..m, NEW j \in 1..n
    PROVE  \E k \in 1..(m * n) : RowOf(k, n) = i /\ ColOf(k, n) = j
<1> DEFINE a == n * (i - 1)
<1>1. a \in Int /\ a >= 0
    OBVIOUS
<1>2. n * (m - i) >= 0 /\ n * (m - i) = m * n - n * i /\ a = n * i - n /\ m * n \in Int /\ n * i \in Int
    OBVIOUS
<1>3. n \in Nat \ {0} /\ i - 1 \in Int /\ j - 1 \in 0..(n - 1)
    OBVIOUS
<1>4. (a + (j - 1)) \div n = i - 1 /\ (a + (j - 1)) % n = j - 1
    BY <1>3, DivModUnique
<1> HIDE DEF a
<1> DEFINE k == a + j
<1>5. k \in 1..(m * n) /\ k - 1 = a + (j - 1)
    BY <1>1, <1>2
<1>6. ((k - 1) \div n) + 1 = i /\ ((k - 1) % n) + 1 = j
    BY <1>4, <1>5
<1> HIDE DEF k
<1> QED BY <1>5, <1>6 DEF RowOf, ColOf

LEMMA Chained ==
    ASSUME NEW S, NEW s \in Seq(S), NEW t \in Seq(S)
    PROVE  /\ s \o t \in Seq(S) /\ Len(s \o t) = Len(s) + Len(t)
           /\ Len(s) \in Nat /\ Len(t) \in Nat /\ Len(s \o t) \in Nat
           /\ \A i \in 1..Len(s) : (s \o t)[i] = s[i] /\ i \in 1..Len(s \o t)
           /\ \A i \in 1..Len(t) : (s \o t)[Len(s) + i] = t[i] /\ Len(s) + i \in 1..Len(s \o t)
           /\ \A i \in 1..Len(s \o t) : i \in 1..Len(s) \/ (i - Len(s) \in 1..Len(t) /\ (s \o t)[i] = t[i - Len(s)])
<1> DEFINE u == s \o t
<1>1. /\ u \in Seq(S) /\ Len(u) = Len(s) + Len(t) /\ Len(s) \in Nat /\ Len(t) \in Nat
      /\ \A i \in 1..Len(s) : u[i] = s[i]
      /\ \A i \in 1..Len(t) : u[Len(s) + i] = t[i]
    BY ConcatProperties
<1> HIDE DEF u
<1>2. /\ \A i \in 1..Len(s) : i \in 1..Len(u)
      /\ \A i \in 1..Len(t) : Len(s) + i \in 1..Len(u)
      /\ \A i \in 1..Len(u) : i \in 1..Len(s) \/ (i - Len(s) \in 1..Len(t) /\ Len(s) + (i - Len(s)) = i)
      /\ Len(u) \in Nat
    BY <1>1
<1>3. \A i \in 1..Len(u) : i \in 1..Len(s) \/ (i - Len(s) \in 1..Len(t) /\ u[i] = t[i - Len(s)])
    <2>1. ASSUME NEW i \in 1..Len(u) PROVE i \in 1..Len(s) \/ (i - Len(s) \in 1..Len(t) /\ u[i] = t[i - Len(s)])
        <3>1. CASE i \in 1..Len(s)
            BY <3>1
        <3>2. CASE i - Len(s) \in 1..Len(t) /\ Len(s) + (i - Len(s)) = i
            <4>1. u[Len(s) + (i - Len(s))] = t[i - Len(s)]
                BY <1>1, <3>2
            <4> QED BY <3>2, <4>1
        <3> QED BY <1>2, <3>1, <3>2
    <2> QED BY <2>1
<1> QED BY <1>1, <1>2, <1>3 DEF u

PortRule == [proto : {TCP, UDP}, srcPort : BOOLEAN, port : Halves]
AnyCidr  == Cidrs(TRUE) \cup Cidrs(FALSE)

LEMMA ScopedIsLocal ==
    ASSUME NEW p \in PortRule, NEW h \in AnyCidr
    PROVE  /\ ScopedTo(p, h) \in LocalRules
           /\ ScopedTo(p, h).kind = "localPort" /\ ScopedTo(p, h).proto = p.proto
           /\ ScopedTo(p, h).srcPort = p.srcPort /\ ScopedTo(p, h).port = p.port
           /\ ScopedTo(p, h).local = h /\ ScopedTo(p, h).v4 = IsV4(h)
<1>1. h \in Cidrs(TRUE) => IsV4(h) = TRUE
    <2>1. h \in Cidrs(TRUE) => h.addr \in [1..1 -> Words]
        BY DEF Cidrs, Addresses
    <2>2. \A f \in [1..1 -> Words] : Len(f) = 1
        OBVIOUS
    <2> QED BY <2>1, <2>2 DEF IsV4
<1>2. h \in Cidrs(FALSE) => IsV4(h) = FALSE
    <2>1. h \in Cidrs(FALSE) => h.addr \in [1..4 -> Words]
        BY DEF Cidrs, Addresses
    <2>2. \A f \in [1..4 -> Words] : Len(f) = 4
        OBVIOUS
    <2> QED BY <2>1, <2>2 DEF IsV4
<1>3. p.proto \in {TCP, UDP} /\ p.srcPort \in BOOLEAN /\ p.port \in Halves
    BY DEF PortRule
<1> DEFINE v4 == IsV4(h)
<1>4. (h \in Cidrs(TRUE) /\ v4 = TRUE) \/ (h \in Cidrs(FALSE) /\ v4 = FALSE)
    BY <1>1, <1>2 DEF AnyCidr
<1> DEFINE proto == p.proto
<1> DEFINE srcPort == p.srcPort
<1> DEFINE port == p.port
<1> DEFINE r == [kind |-> "localPort", proto |-> proto, srcPort |-> srcPort, port |-> port, local |-> h, v4 |-> v4]
<1>5. ScopedTo(p, h) = r
    BY DEF ScopedTo
<1>6. proto \in {TCP, UDP} /\ srcPort \in BOOLEAN /\ port \in Halves
    BY <1>3
<1> HIDE DEF v4, proto, srcPort, port
<1>7. r \in LocalRules
    <2>1. CASE h \in Cidrs(TRUE) /\ v4 = TRUE
        BY <1>6, <2>1 DEF LocalRules
    <2>2. CASE h \in Cidrs(FALSE) /\ v4 = FALSE
        BY <1>6, <2>2 DEF LocalRules
    <2> QED BY <1>4, <2>1, <2>2
<1>8. /\ r.kind = "localPort" /\ r.proto = proto /\ r.srcPort = srcPort /\ r.port = port
      /\ r.local = h /\ r.v4 = v4
    OBVIOUS
<1> HIDE DEF r
<1> QED BY <1>5, <1>7, <1>8 DEF v4, proto, srcPort, port

LEMMA AnyHostIsCidr == \A v4 \in BOOLEAN : AnyHost(v4) \in Cidrs(v4) /\ AnyHost(v4) \in AnyCidr /\ AnyHost(v4).bits = 0
<1>1. WordBits \in Nat \ {0} /\ Pow2[WordBits] \in Nat \ {0}
    BY FilterAssumption, Pow2Positive
<1>2. 0 \in Words
    BY <1>1 DEF Words
<1>3. ASSUME NEW v4 \in BOOLEAN PROVE AnyHost(v4) \in Cidrs(v4) /\ AnyHost(v4).bits = 0
    <2> DEFINE a == IF v4 THEN <<0>> ELSE <<0, 0, 0, 0>>
    <2>1. a \in Addresses(v4)
        <3>1. <<0>> \in [1..1 -> Words] /\ <<0, 0, 0, 0>> \in [1..4 -> Words]
            BY <1>2
        <3> QED BY <3>1 DEF Addresses
    <2>2. AnyHost(v4) = [addr |-> a, bits |-> 0]
        BY DEF AnyHost
    <2> HIDE DEF a
    <2>3. 0 \in 0..(IF v4 THEN WordBits ELSE 4 * WordBits)
        BY <1>1
    <2> QED BY <2>1, <2>2, <2>3 DEF Cidrs
<1> QED BY <1>3 DEF AnyCidr

LEMMA OptionFields ==
    ASSUME NEW f \in FilterOptions
    PROVE  /\ f.except \in Seq(Rules) /\ f.match \in Seq(Rules) /\ f.keep \in BOOLEAN /\ f.ports \in Seq(Halves)
           /\ f.parent \in Seq(HostPrefixes) /\ f.children \in Seq(HostPrefixes)
           /\ f.known \in BOOLEAN /\ f.childrenKnown \in BOOLEAN
BY DEF FilterOptions

LEMMA LocalPrefixesAre ==
    ASSUME NEW f \in FilterOptions
    PROVE  /\ LocalPrefixes(f) \in Seq(HostPrefixes)
           /\ Range(f.parent) \subseteq Range(LocalPrefixes(f))
           /\ f.childrenKnown => Range(f.children) \subseteq Range(LocalPrefixes(f))
<1> DEFINE s == f.parent
<1> DEFINE t == IF f.childrenKnown THEN f.children ELSE <<>>
<1>1. s \in Seq(HostPrefixes) /\ t \in Seq(HostPrefixes)
    BY OptionFields
<1>2. f.childrenKnown => t = f.children
    OBVIOUS
<1>3. LocalPrefixes(f) = Distinct(s \o t)
    BY DEF LocalPrefixes
<1> HIDE DEF s, t
<1> DEFINE u == s \o t
<1>4. /\ u \in Seq(HostPrefixes) /\ Len(u) = Len(s) + Len(t) /\ Len(s) \in Nat /\ Len(t) \in Nat
      /\ \A i \in 1..Len(s) : u[i] = s[i]
      /\ \A i \in 1..Len(t) : u[Len(s) + i] = t[i]
    BY <1>1, ConcatProperties
<1>5. DOMAIN s = 1..Len(s) /\ DOMAIN t = 1..Len(t) /\ DOMAIN u = 1..Len(u)
    <2>1. \A w \in Seq(HostPrefixes) : DOMAIN w = 1..Len(w)
        OBVIOUS
    <2> HIDE DEF u
    <2> QED BY <1>1, <1>4, <2>1
<1> HIDE DEF u
<1>6. /\ \A i \in 1..Len(s) : i \in 1..Len(u)
      /\ \A i \in 1..Len(t) : Len(s) + i \in 1..Len(u)
    BY <1>4
<1>7. Range(s) \subseteq Range(u) /\ Range(t) \subseteq Range(u)
    BY <1>4, <1>5, <1>6 DEF Range
<1>8. Distinct(u) \in Seq(HostPrefixes) /\ Range(Distinct(u)) = Range(u)
    BY <1>4, DistinctKeeps
<1> QED BY <1>2, <1>3, <1>7, <1>8 DEF u, s

LEMMA HostsAre ==
    ASSUME NEW c, NEW f \in FilterOptions
    PROVE  Hosts(c, f) \in Seq(AnyCidr)
<1>1. LocalPrefixes(f) \in Seq(AnyCidr)
    <2>1. LocalPrefixes(f) \in Seq(HostPrefixes)
        BY LocalPrefixesAre
    <2>2. HostPrefixes \subseteq AnyCidr
        BY DEF HostPrefixes, AnyCidr
    <2> QED BY <2>1, <2>2
<1>2. <<AnyHost(TRUE), AnyHost(FALSE)>> \in Seq(AnyCidr)
    <2> DEFINE a == AnyHost(TRUE)
    <2> DEFINE b == AnyHost(FALSE)
    <2>1. a \in AnyCidr /\ b \in AnyCidr
        BY AnyHostIsCidr
    <2> HIDE DEF a, b
    <2>2. <<a, b>> \in Seq(AnyCidr)
        BY <2>1
    <2> QED BY <2>2 DEF a, b
<1> QED BY <1>1, <1>2 DEF Hosts

LEMMA PortRulesAre ==
    ASSUME NEW f \in FilterOptions
    PROVE  /\ PortRules(f) \in Seq(PortRule)
           /\ \A j \in 1..Len(f.ports), s \in BOOLEAN :
                  \E i \in 1..Len(PortRules(f)) : PortRules(f)[i] = [proto |-> TCP, srcPort |-> s, port |-> f.ports[j]]
           /\ \A proto \in {TCP, UDP} :
                  \E i \in 1..Len(PortRules(f)) : PortRules(f)[i] = [proto |-> proto, srcPort |-> TRUE, port |-> 53]
<1> DEFINE n == Len(f.ports)
<1> DEFINE Rule(i) == [proto |-> TCP, srcPort |-> i % 2 = 0, port |-> f.ports[(i + 1) \div 2]]
<1> DEFINE a == [i \in 1..(2 * n) |-> Rule(i)]
<1> DEFINE d1 == [proto |-> UDP, srcPort |-> TRUE, port |-> 53]
<1> DEFINE d2 == [proto |-> TCP, srcPort |-> TRUE, port |-> 53]
<1> DEFINE d == <<d1, d2>>
<1> DEFINE u == a \o d
<1>1. n \in Nat /\ \A j \in 1..n : f.ports[j] \in Halves
    BY OptionFields
<1>2. PortRules(f) = u
    BY DEF PortRules
<1> HIDE DEF n
<1>3. a \in Seq(PortRule) /\ Len(a) = 2 * n
    <2>1. \A i \in 1..(2 * n) : (i + 1) \div 2 \in 1..n /\ (i % 2 = 0) \in BOOLEAN
        BY <1>1
    <2>2. \A i \in 1..(2 * n) : f.ports[(i + 1) \div 2] \in Halves
        BY <1>1, <2>1
    <2>3. \A i \in 1..(2 * n) : Rule(i) \in PortRule
        BY <2>1, <2>2 DEF PortRule
    <2> HIDE DEF Rule
    <2>4. a \in [1..(2 * n) -> PortRule]
        BY <2>3
    <2>5. 2 * n \in Nat
        BY <1>1
    <2> HIDE DEF a
    <2> QED BY <2>4, <2>5
<1>4. d \in Seq(PortRule) /\ Len(d) = 2 /\ d[1] = d1 /\ d[2] = d2
    <2>1. d1 \in PortRule /\ d2 \in PortRule
        <3>1. 53 \in Halves
            BY HalvesInclude
        <3> QED BY <3>1 DEF PortRule
    <2> HIDE DEF d1, d2
    <2> QED BY <2>1
<1>5. ASSUME NEW j \in 1..n, NEW s \in BOOLEAN
      PROVE  \E i \in 1..(2 * n) : a[i] = [proto |-> TCP, srcPort |-> s, port |-> f.ports[j]]
    <2> DEFINE i == IF s THEN 2 * j ELSE 2 * j - 1
    <2>1. i \in 1..(2 * n) /\ (i + 1) \div 2 = j /\ ((i % 2 = 0) <=> s)
        BY <1>1
    <2> HIDE DEF i
    <2>2. (i % 2 = 0) = s
        BY <2>1
    <2>3. a[i] = [proto |-> TCP, srcPort |-> s, port |-> f.ports[j]]
        BY <2>1, <2>2
    <2> HIDE DEF a
    <2> QED BY <2>1, <2>3
<1> HIDE DEF a, d, d1, d2
<1>6. /\ u \in Seq(PortRule) /\ Len(u) = Len(a) + Len(d)
      /\ \A i \in 1..Len(a) : u[i] = a[i]
      /\ \A i \in 1..Len(d) : u[Len(a) + i] = d[i]
    <2>1. a \in Seq(PortRule) /\ d \in Seq(PortRule)
        BY <1>3, <1>4
    <2>2. /\ a \o d \in Seq(PortRule) /\ Len(a \o d) = Len(a) + Len(d)
          /\ \A i \in 1..Len(a) : (a \o d)[i] = a[i] /\ i \in 1..Len(a \o d)
          /\ \A i \in 1..Len(d) : (a \o d)[Len(a) + i] = d[i] /\ Len(a) + i \in 1..Len(a \o d)
        BY <2>1, Chained, Zenon
    <2> QED BY <2>2, Zenon
<1> HIDE DEF u
<1>7. /\ \A i \in 1..(2 * n) : i \in 1..Len(u) /\ i \in 1..Len(a)
      /\ Len(a) + 1 \in 1..Len(u) /\ Len(a) + 2 \in 1..Len(u) /\ 1 \in 1..Len(d) /\ 2 \in 1..Len(d)
    BY <1>1, <1>3, <1>4, <1>6
<1>8. ASSUME NEW j \in 1..n, NEW s \in BOOLEAN
      PROVE  \E i \in 1..Len(u) : u[i] = [proto |-> TCP, srcPort |-> s, port |-> f.ports[j]]
    BY <1>5, <1>6, <1>7, SMTT(30)
<1>9. ASSUME NEW proto \in {TCP, UDP}
      PROVE  \E i \in 1..Len(u) : u[i] = [proto |-> proto, srcPort |-> TRUE, port |-> 53]
    <2>1. u[Len(a) + 1] = d1 /\ u[Len(a) + 2] = d2
        BY <1>4, <1>6, <1>7
    <2>2. [proto |-> proto, srcPort |-> TRUE, port |-> 53] = d1 \/ [proto |-> proto, srcPort |-> TRUE, port |-> 53] = d2
        BY DEF d1, d2
    <2> QED BY <1>7, <2>1, <2>2
<1> QED BY <1>2, <1>6, <1>8, <1>9 DEF n

LEMMA ManagementRulesAre ==
    ASSUME NEW c, NEW f \in FilterOptions
    PROVE  /\ ManagementRules(c, f) \in Seq(AllRules)
           /\ \A k \in 1..Len(ManagementRules(c, f)) : ManagementRules(c, f)[k].kind # "error"
           /\ Len(ManagementRules(c, f)) >= 2
           /\ ManagementRules(c, f)[1] = [kind |-> "etherType", type |-> EtARP]
           /\ ManagementRules(c, f)[2] = [kind |-> "icmp", v4 |-> FALSE, types |-> 133..137]
           /\ \A i \in 1..Len(PortRules(f)), j \in 1..Len(Hosts(c, f)) :
                  \E k \in 1..Len(ManagementRules(c, f)) :
                      ManagementRules(c, f)[k] = ScopedTo(PortRules(f)[i], Hosts(c, f)[j])
<1> DEFINE rules == PortRules(f)
<1> DEFINE hosts == Hosts(c, f)
<1> DEFINE p == Len(rules)
<1> DEFINE n == Len(hosts)
<1> DEFINE first == [kind |-> "etherType", type |-> EtARP]
<1> DEFINE second == [kind |-> "icmp", v4 |-> FALSE, types |-> 133..137]
<1> DEFINE s == <<first, second>>
<1> DEFINE I(k) == RowOf(k, n)
<1> DEFINE J(k) == ColOf(k, n)
<1> DEFINE t == [k \in 1..(p * n) |-> ScopedTo(rules[I(k)], hosts[J(k)])]
<1> DEFINE Good == {r \in AllRules : r.kind # "error"}
<1>1. rules \in Seq(PortRule) /\ hosts \in Seq(AnyCidr)
    BY PortRulesAre, HostsAre
<1>2. ManagementRules(c, f) = s \o t
    BY DEF ManagementRules, RowOf, ColOf
<1> HIDE DEF rules, hosts
<1>3. /\ p \in Nat /\ \A i \in 1..p : rules[i] \in PortRule
      /\ n \in Nat /\ \A j \in 1..n : hosts[j] \in AnyCidr
    BY <1>1
<1> HIDE DEF p, n
<1>4. \A k \in 1..(p * n) : I(k) \in 1..p /\ J(k) \in 1..n
    BY <1>3, Cell DEF RowOf, ColOf
<1>5. \A i \in 1..p, j \in 1..n : \E k \in 1..(p * n) : I(k) = i /\ J(k) = j
    <2>1. p \in Nat /\ n \in Nat
        BY <1>3
    <2>2. ASSUME NEW i \in 1..p, NEW j \in 1..n PROVE \E k \in 1..(p * n) : I(k) = i /\ J(k) = j
        BY <2>1, CellOf, Zenon
    <2> QED BY <2>2
<1> HIDE DEF I, J
<1>6. first \in Good /\ second \in Good
    <2>1. EtARP \in Halves
        BY HalvesInclude DEF EtARP
    <2>2. 133..137 \in SUBSET Bytes
        BY DEF Bytes
    <2> DEFINE types == 133..137
    <2> HIDE DEF types
    <2>3. first \in Rules
        BY <2>1 DEF Rules
    <2>4. [kind |-> "icmp", v4 |-> FALSE, types |-> types] \in Rules
        BY <2>2 DEF Rules, types
    <2>5. second \in Rules
        BY <2>4 DEF types
    <2>6. first.kind # "error" /\ second.kind # "error"
        OBVIOUS
    <2> HIDE DEF first, second
    <2> QED BY <2>3, <2>5, <2>6 DEF AllRules
<1>7. s \in Seq(Good) /\ Len(s) = 2 /\ s[1] = first /\ s[2] = second
    <2> HIDE DEF first, second, Good
    <2> QED BY <1>6
<1> HIDE DEF s
<1>8. \A i \in 1..p, j \in 1..n : ScopedTo(rules[i], hosts[j]) \in Good
    <2>1. ASSUME NEW i \in 1..p, NEW j \in 1..n PROVE ScopedTo(rules[i], hosts[j]) \in Good
        <3> DEFINE rule == rules[i]
        <3> DEFINE host == hosts[j]
        <3>1. rule \in PortRule /\ host \in AnyCidr
            BY <1>3
        <3> HIDE DEF rule, host
        <3>2. ScopedTo(rule, host) \in LocalRules /\ ScopedTo(rule, host).kind = "localPort"
            BY <3>1, ScopedIsLocal
        <3>3. ScopedTo(rule, host) \in Good
            BY <3>2 DEF AllRules
        <3> QED BY <3>3 DEF rule, host
    <2> QED BY <2>1
<1>9. t \in Seq(Good) /\ Len(t) = p * n /\ \A k \in 1..(p * n) : t[k] = ScopedTo(rules[I(k)], hosts[J(k)])
    <2> HIDE DEF Good
    <2>1. \A k \in 1..(p * n) : ScopedTo(rules[I(k)], hosts[J(k)]) \in Good
        BY <1>4, <1>8
    <2>2. t \in [1..(p * n) -> Good]
        BY <2>1
    <2>3. p * n \in Nat
        BY <1>3
    <2>4. \A k \in 1..(p * n) : t[k] = ScopedTo(rules[I(k)], hosts[J(k)])
        OBVIOUS
    <2> HIDE DEF t
    <2> QED BY <2>2, <2>3, <2>4
<1> HIDE DEF t
<1> DEFINE m == s \o t
<1>10. /\ m \in Seq(Good) /\ Len(m) = Len(s) + Len(t)
       /\ \A i \in 1..Len(s) : m[i] = s[i]
       /\ \A i \in 1..Len(t) : m[Len(s) + i] = t[i]
    <2> HIDE DEF Good
    <2>1. s \in Seq(Good) /\ t \in Seq(Good)
        BY <1>7, <1>9
    <2>2. /\ s \o t \in Seq(Good) /\ Len(s \o t) = Len(s) + Len(t)
          /\ \A i \in 1..Len(s) : (s \o t)[i] = s[i] /\ i \in 1..Len(s \o t)
          /\ \A i \in 1..Len(t) : (s \o t)[Len(s) + i] = t[i] /\ Len(s) + i \in 1..Len(s \o t)
        BY <2>1, Chained, Zenon
    <2> QED BY <2>2, Zenon
<1> HIDE DEF m
<1>11. /\ p * n \in Nat /\ Len(m) = 2 + p * n /\ 1 \in 1..Len(s) /\ 2 \in 1..Len(s) /\ Len(m) \in Nat
       /\ \A k \in 1..(p * n) : k \in 1..Len(t) /\ Len(s) + k \in 1..Len(m)
    <2>1. p * n \in Nat
        BY <1>3
    <2> QED BY <1>7, <1>9, <1>10, <2>1
<1>12. Len(m) >= 2 /\ m[1] = first /\ m[2] = second
    <2> HIDE DEF first, second, Good
    <2>1. m[1] = s[1] /\ m[2] = s[2]
        BY <1>10, <1>11
    <2> QED BY <1>7, <1>11, <2>1
<1>13. m \in Seq(AllRules) /\ \A k \in 1..Len(m) : m[k].kind # "error"
    <2>1. Good \subseteq AllRules
        OBVIOUS
    <2>2. \A k \in 1..Len(m) : m[k] \in Good
        <3> HIDE DEF Good
        <3> QED BY <1>10
    <2>3. m \in Seq(AllRules)
        <3> HIDE DEF Good
        <3> QED BY <1>10, <2>1
    <2> QED BY <2>2, <2>3
<1>14. ASSUME NEW i \in 1..p, NEW j \in 1..n
       PROVE  \E k \in 1..Len(m) : m[k] = ScopedTo(rules[i], hosts[j])
    <2>1. PICK k \in 1..(p * n) : I(k) = i /\ J(k) = j
        BY <1>5
    <2>2. m[Len(s) + k] = ScopedTo(rules[i], hosts[j]) /\ Len(s) + k \in 1..Len(m)
        BY <1>9, <1>10, <1>11, <2>1
    <2> QED BY <2>2
<1> QED BY <1>2, <1>12, <1>13, <1>14, SMTT(60) DEF m, p, n, rules, hosts

(***************************************************************************)
(* The rules in the order of their blocks.                                 *)
(***************************************************************************)
InOrder(c, f) == Exceptions(c, f) \o f.match

LEMMA ExceptionsAre ==
    ASSUME NEW c, NEW f \in FilterOptions
    PROVE  /\ Exceptions(c, f) \in Seq(AllRules) /\ f.match \in Seq(AllRules)
           /\ \A i \in 1..Len(Exceptions(c, f)) :
                  \/ Exceptions(c, f)[i].kind # "error"
                  \/ \E j \in 1..Len(f.except) : Exceptions(c, f)[i] = f.except[j]
           /\ f.keep => \A k \in 1..Len(ManagementRules(c, f)) :
                            \E i \in 1..Len(Exceptions(c, f)) : Exceptions(c, f)[i] = ManagementRules(c, f)[k]
<1> DEFINE m == ManagementRules(c, f)
<1> DEFINE s == IF f.keep THEN m ELSE <<>>
<1> DEFINE t == f.except
<1>1. m \in Seq(AllRules) /\ \A k \in 1..Len(m) : m[k].kind # "error"
    BY ManagementRulesAre, ZenonT(60)
<1>2. t \in Seq(AllRules) /\ f.match \in Seq(AllRules)
    <2>1. t \in Seq(Rules) /\ f.match \in Seq(Rules)
        BY OptionFields
    <2>2. Rules \subseteq AllRules
        BY DEF AllRules
    <2> HIDE DEF t
    <2> QED BY <2>1, <2>2
<1>3. Exceptions(c, f) = s \o t
    BY DEF Exceptions
<1>4. f.keep => s = m
    OBVIOUS
<1> HIDE DEF m, t
<1>5. s \in Seq(AllRules) /\ \A k \in 1..Len(s) : s[k].kind # "error"
    <2>1. CASE f.keep
        BY <1>1, <2>1
    <2>2. CASE ~f.keep
        <3>1. s = <<>>
            BY <2>2
        <3>2. <<>> \in Seq(AllRules) /\ \A k \in 1..Len(<<>>) : FALSE
            OBVIOUS
        <3> QED BY <3>1, <3>2
    <2> QED BY <2>1, <2>2
<1> HIDE DEF s
<1>6. /\ s \o t \in Seq(AllRules)
      /\ \A i \in 1..Len(s) : (s \o t)[i] = s[i] /\ i \in 1..Len(s \o t)
      /\ \A i \in 1..Len(s \o t) : i \in 1..Len(s) \/ (i - Len(s) \in 1..Len(t) /\ (s \o t)[i] = t[i - Len(s)])
    <2>1. s \in Seq(AllRules) /\ t \in Seq(AllRules)
        BY <1>2, <1>5
    <2>2. /\ s \o t \in Seq(AllRules)
          /\ \A i \in 1..Len(s) : (s \o t)[i] = s[i] /\ i \in 1..Len(s \o t)
        BY <2>1, Chained, Zenon
    <2>3. \A i \in 1..Len(s \o t) : i \in 1..Len(s) \/ (i - Len(s) \in 1..Len(t) /\ (s \o t)[i] = t[i - Len(s)])
        BY <2>1, Chained
    <2> QED BY <2>2, <2>3
<1>7. ASSUME NEW i \in 1..Len(s \o t)
      PROVE  (s \o t)[i].kind # "error" \/ \E j \in 1..Len(t) : (s \o t)[i] = t[j]
    BY <1>5, <1>6, Zenon
<1>8. ASSUME f.keep, NEW k \in 1..Len(m) PROVE \E i \in 1..Len(s \o t) : (s \o t)[i] = m[k]
    BY <1>4, <1>6, <1>8, Zenon
<1> HIDE DEF s
<1>9. /\ \A i \in 1..Len(s \o t) : (s \o t)[i].kind # "error" \/ \E j \in 1..Len(t) : (s \o t)[i] = t[j]
      /\ f.keep => \A k \in 1..Len(m) : \E i \in 1..Len(s \o t) : (s \o t)[i] = m[k]
    BY <1>7, <1>8, Zenon
<1>10. s \o t \in Seq(AllRules)
    BY <1>6
<1> DEFINE u == s \o t
<1>11. Exceptions(c, f) = u
    BY <1>3
<1>12. /\ u \in Seq(AllRules)
       /\ \A i \in 1..Len(u) : u[i].kind # "error" \/ \E j \in 1..Len(t) : u[i] = t[j]
       /\ f.keep => \A k \in 1..Len(m) : \E i \in 1..Len(u) : u[i] = m[k]
    BY <1>9, <1>10, Zenon
<1> HIDE DEF u
<1> QED BY <1>2, <1>11, <1>12, Zenon DEF m, t

LEMMA OrderIs ==
    ASSUME NEW c, NEW f \in FilterOptions
    PROVE  LET rules  == InOrder(c, f)
               except == Exceptions(c, f)
           IN  /\ rules \in Seq(AllRules) /\ Len(rules) = Len(except) + Len(f.match)
               /\ Len(except) \in Nat /\ Len(f.match) \in Nat /\ Len(rules) \in Nat
               /\ \A i \in 1..Len(except) : rules[i] = except[i] /\ i \in 1..Len(rules)
               /\ \A i \in 1..Len(f.match) : rules[Len(except) + i] = f.match[i] /\ Len(except) + i \in 1..Len(rules)
               /\ \A i \in 1..Len(rules) : \/ i \in 1..Len(except)
                                           \/ i - Len(except) \in 1..Len(f.match) /\ rules[i] = f.match[i - Len(except)]
<1> DEFINE s == Exceptions(c, f)
<1> DEFINE t == f.match
<1>1. s \in Seq(AllRules) /\ t \in Seq(AllRules)
    BY ExceptionsAre
<1>2. InOrder(c, f) = s \o t
    BY DEF InOrder
<1> HIDE DEF s, t
<1>3. /\ s \o t \in Seq(AllRules) /\ Len(s \o t) = Len(s) + Len(t)
      /\ Len(s) \in Nat /\ Len(t) \in Nat /\ Len(s \o t) \in Nat
      /\ \A i \in 1..Len(s) : (s \o t)[i] = s[i] /\ i \in 1..Len(s \o t)
      /\ \A i \in 1..Len(t) : (s \o t)[Len(s) + i] = t[i] /\ Len(s) + i \in 1..Len(s \o t)
      /\ \A i \in 1..Len(s \o t) : i \in 1..Len(s) \/ (i - Len(s) \in 1..Len(t) /\ (s \o t)[i] = t[i - Len(s)])
    <2>1. /\ s \o t \in Seq(AllRules) /\ Len(s \o t) = Len(s) + Len(t)
          /\ Len(s) \in Nat /\ Len(t) \in Nat /\ Len(s \o t) \in Nat
        BY <1>1, Chained, Zenon
    <2>2. /\ \A i \in 1..Len(s) : (s \o t)[i] = s[i] /\ i \in 1..Len(s \o t)
          /\ \A i \in 1..Len(t) : (s \o t)[Len(s) + i] = t[i] /\ Len(s) + i \in 1..Len(s \o t)
        BY <1>1, Chained, Zenon
    <2>3. \A i \in 1..Len(s \o t) : i \in 1..Len(s) \/ (i - Len(s) \in 1..Len(t) /\ (s \o t)[i] = t[i - Len(s)])
        BY <1>1, Chained
    <2> QED BY <2>1, <2>2, <2>3
<1> QED BY <1>2, <1>3, Zenon DEF s, t

\* Each rule has its block, at its place.
LEMMA BlocksAre ==
    ASSUME NEW c, NEW f \in FilterOptions
    PROVE  LET built == ClassifierBlocks(c, f)
               rules == InOrder(c, f)
           IN  /\ Len(built) = Len(rules)
               /\ \A i \in 1..Len(rules) :
                      /\ built[i].ins = Build(rules[i])
                      /\ built[i].hit = IF i <= Len(Exceptions(c, f)) THEN "pass" ELSE "redirect"
<1> DEFINE s == Exceptions(c, f)
<1> DEFINE t == f.match
<1> DEFINE rules == InOrder(c, f)
<1> DEFINE Made(r, hit) == [ins |-> Build(r), hit |-> hit]
<1> DEFINE a == [i \in 1..Len(s) |-> Made(s[i], "pass")]
<1> DEFINE b == [i \in 1..Len(t) |-> Made(t[i], "redirect")]
<1> DEFINE S == {Made(r, hit) : r \in AllRules, hit \in {"pass", "redirect"}}
<1>1. ClassifierBlocks(c, f) = a \o b
    BY DEF ClassifierBlocks
<1>2. s \in Seq(AllRules) /\ t \in Seq(AllRules)
    BY ExceptionsAre
<1>3. /\ Len(rules) = Len(s) + Len(t) /\ Len(s) \in Nat /\ Len(t) \in Nat /\ Len(rules) \in Nat
      /\ \A i \in 1..Len(s) : rules[i] = s[i] /\ i \in 1..Len(rules)
      /\ \A i \in 1..Len(t) : rules[Len(s) + i] = t[i] /\ Len(s) + i \in 1..Len(rules)
      /\ \A i \in 1..Len(rules) : i \in 1..Len(s) \/ (i - Len(s) \in 1..Len(t) /\ rules[i] = t[i - Len(s)])
    BY OrderIs, Zenon
<1>4. \A r, hit : Made(r, hit).ins = Build(r) /\ Made(r, hit).hit = hit
    OBVIOUS
<1> HIDE DEF s, t, rules
<1>5. (\A i \in 1..Len(s) : s[i] \in AllRules) /\ (\A i \in 1..Len(t) : t[i] \in AllRules)
    BY <1>2
<1>6. (\A i \in 1..Len(s) : Made(s[i], "pass") \in S) /\ (\A i \in 1..Len(t) : Made(t[i], "redirect") \in S)
    <2> HIDE DEF Made
    <2> QED BY <1>5
<1> HIDE DEF Made, S
<1>7. a \in Seq(S) /\ Len(a) = Len(s) /\ \A i \in 1..Len(s) : a[i] = Made(s[i], "pass")
    <2>1. a \in [1..Len(s) -> S] /\ \A i \in 1..Len(s) : a[i] = Made(s[i], "pass")
        BY <1>6
    <2> HIDE DEF a
    <2> QED BY <1>3, <2>1
<1>8. b \in Seq(S) /\ Len(b) = Len(t) /\ \A i \in 1..Len(t) : b[i] = Made(t[i], "redirect")
    <2>1. b \in [1..Len(t) -> S] /\ \A i \in 1..Len(t) : b[i] = Made(t[i], "redirect")
        BY <1>6
    <2> HIDE DEF b
    <2> QED BY <1>3, <2>1
<1> HIDE DEF a, b
<1>9. /\ Len(a \o b) = Len(a) + Len(b)
      /\ \A i \in 1..Len(a) : (a \o b)[i] = a[i]
      /\ \A i \in 1..Len(b) : (a \o b)[Len(a) + i] = b[i]
    <2>1. a \in Seq(S) /\ b \in Seq(S)
        BY <1>7, <1>8
    <2>2. Len(a \o b) = Len(a) + Len(b) /\ \A i \in 1..Len(a) : (a \o b)[i] = a[i]
        BY <2>1, Chained
    <2>3. \A i \in 1..Len(b) : (a \o b)[Len(a) + i] = b[i]
        BY <2>1, Chained
    <2> QED BY <2>2, <2>3
<1>10. ASSUME NEW i \in 1..Len(rules)
       PROVE  /\ (a \o b)[i].ins = Build(rules[i])
              /\ (a \o b)[i].hit = IF i <= Len(s) THEN "pass" ELSE "redirect"
    <2>1. CASE i \in 1..Len(s)
        <3>1. (a \o b)[i] = Made(rules[i], "pass")
            BY <1>3, <1>7, <1>9, <2>1
        <3>2. i <= Len(s)
            BY <1>3, <2>1
        <3> QED BY <1>4, <3>1, <3>2, Zenon
    <2>2. CASE i - Len(s) \in 1..Len(t) /\ rules[i] = t[i - Len(s)]
        <3>1. (a \o b)[Len(s) + (i - Len(s))] = Made(rules[i], "redirect")
            BY <1>7, <1>8, <1>9, <2>2
        <3>2. Len(s) + (i - Len(s)) = i /\ ~(i <= Len(s))
            BY <1>3, <2>2
        <3>3. (a \o b)[i] = Made(rules[i], "redirect")
            BY <3>1, <3>2
        <3> QED BY <1>4, <3>2, <3>3, Zenon
    <2> QED BY <1>3, <2>1, <2>2
<1>11. Len(a \o b) = Len(rules)
    BY <1>3, <1>7, <1>8, <1>9
<1> QED BY <1>1, <1>10, <1>11, Zenon DEF s, rules

LEMMA ValidMeans ==
    ASSUME NEW c, NEW f \in FilterOptions, Valid(c, f), NEW i \in 1..Len(InOrder(c, f))
    PROVE  InOrder(c, f)[i] \in AllRules /\ InOrder(c, f)[i].kind # "error" /\ CheckBlock(Build(InOrder(c, f)[i]))
<1> DEFINE rules == InOrder(c, f)
<1> DEFINE s == Exceptions(c, f)
<1> DEFINE t == f.match
<1>1. rules[i] \in AllRules
    <2>1. rules \in Seq(AllRules)
        BY OrderIs, Zenon
    <2>2. i \in 1..Len(rules)
        OBVIOUS
    <2> HIDE DEF rules
    <2> QED BY <2>1, <2>2
<1>2. CheckBlock(Build(rules[i]))
    BY BlocksAre, Zenon DEF Valid
<1>3. /\ \A j \in 1..Len(f.except) : f.except[j].kind # "error"
      /\ \A j \in 1..Len(t) : t[j].kind # "error"
    BY DEF Valid
<1>4. \/ i \in 1..Len(s) /\ rules[i] = s[i]
      \/ i - Len(s) \in 1..Len(t) /\ rules[i] = t[i - Len(s)]
    BY OrderIs, Zenon
<1>5. i \in 1..Len(s) => s[i].kind # "error"
    <2>1. ASSUME i \in 1..Len(s) PROVE s[i].kind # "error"
        <3>1. s[i].kind # "error" \/ \E j \in 1..Len(f.except) : s[i] = f.except[j]
            BY <2>1, ExceptionsAre
        <3> HIDE DEF s
        <3> QED BY <1>3, <3>1, Zenon
    <2> QED BY <2>1
<1>6. rules[i].kind # "error"
    BY <1>3, <1>4, <1>5, Zenon
<1> QED BY <1>1, <1>2, <1>6

\* A block is entered at its first instruction.
LEMMA Entered ==
    ASSUME NEW r \in AllRules, r.kind # "error"
    PROVE  (ip = 1 => InBlock(r)) /\ (ip' = 1 => InBlock(r)')
<1>1. (ip = 1 => InHead) /\ (ip' = 1 => InHead')
    BY DEF InHead
<1>2. CASE r.kind \in {"custom", "all", "none"}
    <2>1. 1 \in 1..Len(Build(r))
        <3>1. CASE r.kind \in {"all", "none"}
            <4>1. Build(r) = <<Jump("redirect")>> \/ Build(r) = <<Jump("next")>>
                BY <3>1 DEF Build
            <4>2. \A x : 1 \in 1..Len(<<x>>)
                OBVIOUS
            <4> QED BY <4>1, <4>2
        <3>2. CASE r.kind = "custom"
            <4>1. Build(r) = Custom(r) /\ r.ins \in OwnBlocks
                BY <3>2, RuleFields DEF Build
            <4>2. Len(Custom(r)) >= 1 /\ Custom(r) \in Seq(OwnInstructions)
                BY <4>1, CustomShape, Zenon DEF Custom
            <4> QED BY <4>1, <4>2
        <3> QED BY <1>2, <3>1, <3>2
    <2> QED BY <1>2, <2>1 DEF InBlock, OneArm
<1>3. CASE r.kind \in OneArm \cup {"l4port"}
    BY <1>1, <1>3 DEF InBlock, OneArm
<1>4. r.kind \in OneArm \cup {"l4port", "custom", "all", "none"}
    BY RuleFields DEF OneArm
<1> QED BY <1>2, <1>3, <1>4

(***************************************************************************)
(* The inductive invariant of the whole specification.  The program is in  *)
(* the block of some rule, at a place the packet's passing that far        *)
(* explains, and no earlier rule is met; so the verdict it returns is the  *)
(* one of the first rule that is.                                          *)
(***************************************************************************)
Met(rules) == \E i \in 1..Len(rules), r \in AllRules : r = rules[i] /\ Meets(r)

Intended(c, f) == IF Met(f.match) /\ ~Met(Exceptions(c, f)) THEN "redirect" ELSE "pass"

Missing(c, f, n) == \A i \in 1..n, r \in AllRules : r = InOrder(c, f)[i] => ~Meets(r)

TypeInv ==
    /\ call \in Calls /\ filter \in DOMAIN Filters
    /\ pc \in {"open", "refused", "loaded", "run", "done"}
    /\ pc \in {"run", "done"} => packet \in Packets
    /\ data = 0 /\ queue = "own"

Started == pc \in {"open", "loaded"} => blk = 1 /\ ip = 1

Admitted == pc = "loaded" => call = "Open" /\ ~Refused(options)

InRule ==
    pc = "run" =>
        /\ Valid(call, options)
        /\ blk \in 1..Len(InOrder(call, options))
        /\ \A r \in AllRules : r = InOrder(call, options)[blk] => InBlock(r)
        /\ Missing(call, options, blk - 1)

Returned == pc = "done" => verdict = Intended(call, options)

IInv == TypeInv /\ Started /\ Admitted /\ InRule /\ Returned

LEMMA NoneMet ==
    ASSUME NEW c, NEW f \in FilterOptions, Missing(c, f, Len(InOrder(c, f)))
    PROVE  Intended(c, f) = "pass"
<1> DEFINE e == Len(Exceptions(c, f))
<1> DEFINE rules == InOrder(c, f)
<1>1. \A i \in 1..Len(f.match) : rules[e + i] = f.match[i] /\ e + i \in 1..Len(rules)
    BY OrderIs, Zenon
<1>2. ~Met(f.match)
    <2> SUFFICES ASSUME NEW i \in 1..Len(f.match), NEW r \in AllRules, r = f.match[i], Meets(r) PROVE FALSE
        BY DEF Met
    <2>1. r = rules[e + i] /\ e + i \in 1..Len(rules)
        BY <1>1
    <2> QED BY <2>1, Zenon DEF Missing
<1> QED BY <1>2 DEF Intended

\* The first rule met decides.
LEMMA FirstMet ==
    ASSUME NEW c, NEW f \in FilterOptions, NEW n \in 1..Len(InOrder(c, f)), Missing(c, f, n - 1),
           InOrder(c, f)[n] \in AllRules, Meets(InOrder(c, f)[n])
    PROVE  Intended(c, f) = IF n <= Len(Exceptions(c, f)) THEN "pass" ELSE "redirect"
<1> DEFINE except == Exceptions(c, f)
<1> DEFINE rules == InOrder(c, f)
<1>1. /\ Len(except) \in Nat /\ Len(f.match) \in Nat /\ Len(rules) \in Nat
      /\ \A i \in 1..Len(except) : rules[i] = except[i]
      /\ \A i \in 1..Len(rules) : \/ i \in 1..Len(except)
                                  \/ i - Len(except) \in 1..Len(f.match) /\ rules[i] = f.match[i - Len(except)]
    <2>1. /\ Len(except) \in Nat /\ Len(f.match) \in Nat /\ Len(rules) \in Nat
          /\ \A i \in 1..Len(except) : rules[i] = except[i]
        BY OrderIs, ZenonT(60)
    <2>2. \A i \in 1..Len(rules) : \/ i \in 1..Len(except)
                                   \/ i - Len(except) \in 1..Len(f.match) /\ rules[i] = f.match[i - Len(except)]
        BY OrderIs, Zenon
    <2> QED BY <2>1, <2>2
<1>2. n \in 1..Len(rules) /\ rules[n] \in AllRules /\ Meets(rules[n])
    OBVIOUS
<1>3. \A i \in 1..(n - 1), r \in AllRules : r = rules[i] => ~Meets(r)
    BY DEF Missing
<1> HIDE DEF except, rules
<1>4. n \in Nat
    BY <1>1, <1>2
<1>5. CASE n <= Len(except)
    <2>1. n \in 1..Len(except)
        BY <1>1, <1>2, <1>5
    <2>2. rules[n] = except[n]
        BY <1>1, <2>1
    <2>3. Met(except)
        BY <1>2, <2>1, <2>2, Zenon DEF Met
    <2> QED BY <1>5, <2>3 DEF Intended, except
<1>6. CASE ~(n <= Len(except))
    <2>1. n - Len(except) \in 1..Len(f.match) /\ rules[n] = f.match[n - Len(except)]
        BY <1>1, <1>2, <1>4, <1>6
    <2>2. Met(f.match)
        BY <1>2, <2>1, Zenon DEF Met
    <2>3. ~Met(except)
        <3> SUFFICES ASSUME NEW i \in 1..Len(except), NEW r \in AllRules, r = except[i], Meets(r) PROVE FALSE
            BY DEF Met
        <3>1. i \in 1..(n - 1)
            BY <1>1, <1>4, <1>6
        <3>2. r = rules[i]
            BY <1>1
        <3> QED BY <1>3, <3>1, <3>2, Zenon
    <2> QED BY <1>6, <2>2, <2>3 DEF Intended, except
<1> QED BY <1>5, <1>6 DEF except

LEMMA CurrentBlock ==
    ASSUME NEW c \in Calls, NEW n \in DOMAIN Filters, call = c, filter = n,
           NEW b \in 1..Len(InOrder(c, Filters[n])), blk = b
    PROVE  /\ Filters[n] \in FilterOptions
           /\ Len(blocks) = Len(InOrder(c, Filters[n]))
           /\ block.ins = Build(InOrder(c, Filters[n])[b])
           /\ block.hit = IF b <= Len(Exceptions(c, Filters[n])) THEN "pass" ELSE "redirect"
<1> DEFINE f == Filters[n]
<1>1. f \in FilterOptions
    BY FilterAssumption
<1>2. blocks = ClassifierBlocks(c, f)
    BY DEF blocks, Blocks
<1>3. block = ClassifierBlocks(c, f)[b]
    BY <1>2 DEF block
<1>4. b \in 1..Len(InOrder(c, f))
    OBVIOUS
<1> HIDE DEF f
<1> QED BY <1>1, <1>2, <1>3, <1>4, BlocksAre, Zenon DEF f

\* The program takes a step in the block of a rule.
LEMMA RunStep ==
    ASSUME IInv, Run
    PROVE  IInv'
<1>1. pc = "run" /\ call \in Calls /\ filter \in DOMAIN Filters /\ packet \in Packets /\ data = 0 /\ queue = "own"
    BY DEF IInv, TypeInv, Run, DoFrame, DoBounds, DoUntag, DoTest, DoBranch, DoJump, DoWrite, Running
<1>2. Sane(packet)
    BY <1>1, FilterAssumption
<1>3. /\ Valid(call, options) /\ blk \in 1..Len(InOrder(call, options))
      /\ \A r \in AllRules : r = InOrder(call, options)[blk] => InBlock(r)
      /\ Missing(call, options, blk - 1)
    BY <1>1 DEF IInv, InRule
<1>4. PICK c \in Calls, n \in DOMAIN Filters : c = call /\ n = filter
    BY <1>1
<1> DEFINE f == Filters[n]
<1> DEFINE rules == InOrder(c, f)
<1>5. f = options
    BY <1>4 DEF options
<1>6. PICK b \in 1..Len(rules) : b = blk
    BY <1>3, <1>4, <1>5
<1> DEFINE r == rules[b]
<1>7. /\ f \in FilterOptions /\ Len(blocks) = Len(rules) /\ block.ins = Build(r)
      /\ block.hit = IF b <= Len(Exceptions(c, f)) THEN "pass" ELSE "redirect"
    BY <1>4, <1>6, CurrentBlock
<1> HIDE DEF f
<1>8. Valid(c, f) /\ Missing(c, f, b - 1)
    BY <1>3, <1>4, <1>5, <1>6
<1>9. r \in AllRules /\ r.kind # "error" /\ CheckBlock(Build(r))
    BY <1>7, <1>8, ValidMeans
<1>10. Len(rules) \in Nat
    BY <1>7, OrderIs, Zenon
<1>11. InBlock(r)
    BY <1>3, <1>4, <1>5, <1>6, <1>9
<1>12. \A i \in 1..Len(rules) : rules[i] \in AllRules /\ rules[i].kind # "error"
    BY <1>7, <1>8, ValidMeans
<1> HIDE DEF rules, r
<1>13. /\ ip \in 1..Len(Build(r))
       /\ \/ InBlock(r)' /\ UNCHANGED <<pc, blk, verdict>>
          \/ GotoNext /\ ~Meets(r)
          \/ Return(block.hit) /\ Meets(r)
    BY <1>1, <1>2, <1>7, <1>9, <1>11, RuleStep
<1>14. call' = call /\ filter' = filter /\ packet' = packet /\ data' = data /\ queue' = queue
    BY <1>7, <1>9, <1>13, RunKeeps
<1>15. options' = f /\ call' = c
    BY <1>4, <1>5, <1>14 DEF options
<1>16. \A x : Meets(x)' <=> Meets(x)
    BY <1>14, Unmoved
<1>17. ASSUME NEW m PROVE Missing(c, f, m)' <=> Missing(c, f, m)
    BY <1>16 DEF Missing
<1>18. Intended(c, f)' = Intended(c, f)
    <2>1. ASSUME NEW s PROVE Met(s)' <=> Met(s)
        BY <1>16 DEF Met
    <2> QED BY <2>1 DEF Intended
<1>19. pc' \in {"run", "done"} => TypeInv'
    BY <1>1, <1>14 DEF TypeInv
<1>20. CASE InBlock(r)' /\ UNCHANGED <<pc, blk, verdict>>
    <2>1. pc' = "run" /\ blk' = b
        BY <1>1, <1>6, <1>20
    <2>2. ASSUME NEW x \in AllRules, x = InOrder(c, f)[b] PROVE InBlock(x)'
        <3>1. x = r
            BY <2>2 DEF r, rules
        <3> QED BY <1>20, <3>1
    <2>3. Missing(c, f, b - 1)'
        BY <1>8, <1>16, <1>17
    <2>4. InRule'
        BY <1>8, <1>15, <2>1, <2>2, <2>3 DEF InRule, rules
    <2> QED BY <1>19, <2>1, <2>4 DEF IInv, Started, Admitted, Returned
<1>21. CASE GotoNext /\ ~Meets(r)
    <2>1. Missing(c, f, b)
        <3> SUFFICES ASSUME NEW i \in 1..b, NEW x \in AllRules, x = InOrder(c, f)[i] PROVE ~Meets(x)
            BY DEF Missing
        <3>1. i = b \/ i \in 1..(b - 1)
            OBVIOUS
        <3>2. i = b => x = r
            BY DEF r, rules
        <3>3. ~Meets(r) /\ Missing(c, f, b - 1)
            BY <1>8, <1>21
        <3> QED BY <3>1, <3>2, <3>3, Zenon DEF Missing
    <2>2. CASE b < Len(rules)
        <3>1. pc' = "run" /\ blk' = b + 1 /\ ip' = 1
            BY <1>1, <1>6, <1>7, <1>21, <2>2 DEF GotoNext
        <3>2. b + 1 \in 1..Len(rules) /\ (b + 1) - 1 = b
            BY <1>10, <2>2
        <3>3. ASSUME NEW x \in AllRules, x = InOrder(c, f)[b + 1] PROVE InBlock(x)'
            <4>1. x.kind # "error"
                BY <1>12, <3>2, <3>3 DEF rules
            <4> QED BY <3>1, <4>1, Entered
        <3>4. Missing(c, f, b)'
            BY <1>16, <1>17, <2>1
        <3>5. InRule'
            BY <1>8, <1>15, <3>1, <3>2, <3>3, <3>4 DEF InRule, rules
        <3> QED BY <1>19, <3>1, <3>5 DEF IInv, Started, Admitted, Returned
    <2>3. CASE ~(b < Len(rules))
        <3>1. pc' = "done" /\ verdict' = "pass"
            BY <1>1, <1>6, <1>7, <1>21, <2>3 DEF GotoNext, Return
        <3>2. b = Len(rules)
            BY <1>10, <2>3
        <3>3. Intended(c, f) = "pass"
            BY <1>7, <2>1, <3>2, NoneMet DEF rules
        <3>4. Returned'
            BY <1>15, <1>16, <1>18, <3>1, <3>3 DEF Returned
        <3> QED BY <1>19, <3>1, <3>4 DEF IInv, Started, Admitted, InRule
    <2> QED BY <2>2, <2>3
<1>22. CASE Return(block.hit) /\ Meets(r)
    <2>1. pc' = "done" /\ verdict' = block.hit
        BY <1>22 DEF Return
    <2>2. Intended(c, f) = block.hit
        <3>1. b \in 1..Len(InOrder(c, f)) /\ InOrder(c, f)[b] \in AllRules /\ Meets(InOrder(c, f)[b])
            BY <1>9, <1>22 DEF r, rules
        <3>2. Missing(c, f, b - 1)
            BY <1>8
        <3> QED BY <1>7, <3>1, <3>2, FirstMet
    <2>3. Returned'
        BY <1>15, <1>16, <1>18, <2>1, <2>2 DEF Returned
    <2> QED BY <1>19, <2>1, <2>3 DEF IInv, Started, Admitted, InRule
<1> QED BY <1>13, <1>20, <1>21, <1>22

\* The program starts at the first block.
LEMMA AtFirst ==
    ASSUME NEW c, NEW f \in FilterOptions, f.match # <<>>
    PROVE  1 \in 1..Len(InOrder(c, f)) /\ Missing(c, f, 1 - 1)
<1>1. /\ Len(InOrder(c, f)) = Len(Exceptions(c, f)) + Len(f.match)
      /\ Len(Exceptions(c, f)) \in Nat /\ Len(f.match) \in Nat
    BY OrderIs, Zenon
<1>2. Len(f.match) # 0
    <2>1. f.match \in Seq(AllRules)
        BY ExceptionsAre
    <2> QED BY <2>1, EmptySeq
<1>3. 1..(1 - 1) = {}
    OBVIOUS
<1> QED BY <1>1, <1>2, <1>3 DEF Missing

LEMMA StartsRight ==
    ASSUME NEW c \in Calls, NEW n \in DOMAIN Filters, Filters[n].match # <<>>, Valid(c, Filters[n]),
           call' = c, filter' = n, pc' = "run", blk' = 1, ip' = 1
    PROVE  InRule'
<1> DEFINE f == Filters[n]
<1>1. f \in FilterOptions
    BY FilterAssumption
<1>2. options' = f
    BY DEF options
<1>3. f.match # <<>> /\ Valid(c, f)
    OBVIOUS
<1> HIDE DEF f
<1>4. 1 \in 1..Len(InOrder(c, f)) /\ Missing(c, f, 1 - 1)'
    <2>1. 1 \in 1..Len(InOrder(c, f))
        BY <1>1, <1>3, AtFirst
    <2>2. 1..(1 - 1) = {}
        OBVIOUS
    <2> QED BY <2>1, <2>2 DEF Missing
<1>5. ASSUME NEW x \in AllRules, x = InOrder(c, f)[1] PROVE InBlock(x)'
    <2>1. x.kind # "error"
        BY <1>1, <1>3, <1>4, <1>5, ValidMeans
    <2> QED BY <2>1, Entered
<1> QED BY <1>2, <1>3, <1>4, <1>5 DEF InRule

LEMMA InitInv == Init => IInv
BY DEF Init, IInv, TypeInv, Started, Admitted, InRule, Returned

LEMMA NextInv == IInv /\ [Next]_vars => IInv'
<1> SUFFICES ASSUME IInv, [Next]_vars PROVE IInv'
    OBVIOUS
<1> USE DEF IInv
<1>1. CASE OpenRefuses
    BY <1>1 DEF OpenRefuses, TypeInv, Started, Admitted, InRule, Returned, regs
<1>2. CASE OpenLoads
    <2>1. options' = options
        BY <1>2 DEF OpenLoads, options
    <2>2. Admitted'
        BY <1>2, <2>1 DEF OpenLoads, Admitted
    <2> QED BY <1>2, <2>2 DEF OpenLoads, TypeInv, Started, InRule, Returned, regs
<1>3. CASE MatchPacketRefuses
    BY <1>3 DEF MatchPacketRefuses, TypeInv, Started, Admitted, InRule, Returned, regs
<1>4. CASE MatchPacketRuns
    <2>1. call \in Calls /\ filter \in DOMAIN Filters /\ blk = 1 /\ ip = 1
        BY <1>4 DEF MatchPacketRuns, TypeInv, Started
    <2>2. /\ Filters[filter].match # <<>> /\ Valid(call, Filters[filter])
          /\ call' = call /\ filter' = filter /\ pc' = "run" /\ blk' = 1 /\ ip' = 1
        BY <1>4, <2>1 DEF MatchPacketRuns, options
    <2>3. PICK c \in Calls, n \in DOMAIN Filters : c = call /\ n = filter
        BY <2>1
    <2>4. InRule'
        BY <2>2, <2>3, StartsRight
    <2> QED BY <1>4, <2>4 DEF MatchPacketRuns, TypeInv, Started, Admitted, Returned, regs
<1>5. CASE PacketArrives
    <2>1. /\ call \in Calls /\ filter \in DOMAIN Filters /\ blk = 1 /\ ip = 1
          /\ call = "Open" /\ ~Refused(options)
        BY <1>5 DEF PacketArrives, TypeInv, Started, Admitted
    <2>2. PICK c \in Calls, n \in DOMAIN Filters : c = call /\ n = filter
        BY <2>1
    <2> DEFINE f == Filters[n]
    <2>3. f = options /\ options' = f /\ call' = c
        BY <1>5, <2>2 DEF PacketArrives, options
    <2>4. f \in FilterOptions
        BY FilterAssumption
    <2>5. f.match # <<>> /\ (~PassOnly(f) => Valid("Open", f))
        BY <2>1, <2>3 DEF Refused
    <2>6. TypeInv'
        BY <1>5 DEF PacketArrives, Return, TypeInv, regs
    <2>7. CASE PassOnly(f)
        <3>1. pc' = "done" /\ verdict' = "pass"
            BY <1>5, <2>3, <2>7 DEF PacketArrives, Return
        <3>2. ASSUME NEW r \in AllRules, r.kind = "none" PROVE ~Meets(r)'
            BY <3>2 DEF Meets
        <3>3. ~Met(f.match)'
            <4>1. \A i \in 1..Len(f.match) : f.match[i].kind = "none"
                BY <2>7 DEF PassOnly
            <4> HIDE DEF f
            <4> QED BY <3>2, <4>1, Zenon DEF Met
        <3>4. Intended(c, f)' = "pass"
            BY <3>3 DEF Intended
        <3>5. Returned'
            BY <2>3, <3>1, <3>4 DEF Returned
        <3> QED BY <2>6, <3>1, <3>5 DEF Started, Admitted, InRule
    <2>8. CASE ~PassOnly(f)
        <3>1. pc' = "run" /\ blk' = 1 /\ ip' = 1 /\ call' = c /\ filter' = n
            BY <1>5, <2>1, <2>2, <2>3, <2>8 DEF PacketArrives
        <3>2. Valid(c, f)
            BY <2>1, <2>2, <2>5, <2>8
        <3>3. InRule'
            BY <2>5, <3>1, <3>2, StartsRight
        <3> QED BY <2>6, <3>1, <3>3 DEF Started, Admitted, Returned
    <2> QED BY <2>7, <2>8
<1>6. CASE Run
    BY <1>6, RunStep
<1>7. CASE UNCHANGED vars
    <2>1. UNCHANGED <<call, filter, pc, blk, ip, packet, data, base, queue, verdict>>
        BY <1>7 DEF vars, regs
    <2>2. options' = options
        BY <2>1 DEF options
    <2>3. \A x : Meets(x)' <=> Meets(x)
        BY <2>1, Unmoved
    <2>4. \A t : Passes(t)' <=> Passes(t)
        BY <2>1, Unmoved
    <2>5. PICK c, f : c = call /\ f = options
        OBVIOUS
    <2>6. \A m : Missing(c, f, m)' <=> Missing(c, f, m)
        BY <2>3 DEF Missing
    <2>7. Intended(c, f)' = Intended(c, f)
        <3>1. ASSUME NEW s PROVE Met(s)' <=> Met(s)
            BY <2>3 DEF Met
        <3> QED BY <3>1 DEF Intended
    <2>8. ASSUME NEW r PROVE InBlock(r)' <=> InBlock(r)
        <3>1. Skip' = Skip /\ Type' = Type
            BY <2>1, Unmoved
        <3>2. InHead' <=> InHead
            BY <2>1 DEF InHead
        <3>3. \A at, reach, tests : InArm(at, reach, tests)' <=> InArm(at, reach, tests)
            BY <2>1, <2>4, <3>1, Zenon DEF InArm
        <3> QED BY <2>1, <3>1, <3>2, <3>3, Zenon DEF InBlock
    <2>9. TypeInv' /\ Started' /\ Admitted'
        BY <2>1, <2>2 DEF TypeInv, Started, Admitted
    <2>10. InRule'
        BY <2>1, <2>2, <2>3, <2>5, <2>6, <2>8 DEF InRule
    <2>11. Returned'
        BY <2>1, <2>2, <2>3, <2>5, <2>7 DEF Returned
    <2> QED BY <2>9, <2>10, <2>11
<1> QED BY <1>1, <1>2, <1>3, <1>4, <1>5, <1>6, <1>7 DEF Next

\* The inductive invariant holds.
THEOREM Invariant == Spec => []IInv
BY InitInv, NextInv, PTL DEF Spec

(***************************************************************************)
(* What the invariant implies.                                             *)
(***************************************************************************)
LEMMA InBounds == IInv => LoadsInBounds
<1> SUFFICES ASSUME IInv, pc = "run"
             PROVE  /\ ins.op = "test" => base + ins.off + ins.width <= packet.len
                    /\ ins.op \in {"untag", "branch"} => base + 14 <= packet.len
    BY DEF LoadsInBounds
<1>1. call \in Calls /\ filter \in DOMAIN Filters /\ packet \in Packets
    BY DEF IInv, TypeInv
<1>2. Sane(packet)
    BY <1>1, FilterAssumption
<1>3. /\ Valid(call, options) /\ blk \in 1..Len(InOrder(call, options))
      /\ \A r \in AllRules : r = InOrder(call, options)[blk] => InBlock(r)
    BY DEF IInv, InRule
<1>4. PICK c \in Calls, n \in DOMAIN Filters : c = call /\ n = filter
    BY <1>1
<1> DEFINE f == Filters[n]
<1> DEFINE rules == InOrder(c, f)
<1>5. f = options
    BY <1>4 DEF options
<1>6. PICK b \in 1..Len(rules) : b = blk
    BY <1>3, <1>4, <1>5
<1> DEFINE r == rules[b]
<1>7. f \in FilterOptions /\ block.ins = Build(r)
    BY <1>4, <1>6, CurrentBlock
<1> HIDE DEF f
<1>8. Valid(c, f)
    BY <1>3, <1>4, <1>5
<1>9. r \in AllRules /\ r.kind # "error" /\ CheckBlock(Build(r))
    BY <1>7, <1>8, ValidMeans
<1>10. InBlock(r)
    BY <1>3, <1>4, <1>5, <1>6, <1>9
<1> HIDE DEF rules, r
<1> QED BY <1>2, <1>7, <1>9, <1>10, RuleLoads

LEMMA MetIsMeetsAny ==
    ASSUME NEW s \in Seq(AllRules)
    PROVE  Met(s) <=> MeetsAny(s)
<1>1. \A i \in 1..Len(s) : s[i] \in AllRules
    OBVIOUS
<1> QED BY <1>1, Zenon DEF Met, MeetsAny

LEMMA AsIntended == IInv => VerdictIsIntended
<1> SUFFICES ASSUME IInv, Decided
             PROVE  verdict = IF MeetsAny(options.match) /\ ~MeetsAny(Exceptions(call, options)) /\ queue = "own"
                              THEN "redirect" ELSE "pass"
    BY DEF VerdictIsIntended
<1>1. call \in Calls /\ filter \in DOMAIN Filters /\ queue = "own" /\ verdict = Intended(call, options)
    BY DEF IInv, TypeInv, Returned, Decided
<1>2. options \in FilterOptions
    BY <1>1, FilterAssumption DEF options
<1>3. Exceptions(call, options) \in Seq(AllRules) /\ options.match \in Seq(AllRules)
    BY <1>2, ExceptionsAre
<1>4. Met(options.match) <=> MeetsAny(options.match)
    BY <1>3, MetIsMeetsAny
<1>5. Met(Exceptions(call, options)) <=> MeetsAny(Exceptions(call, options))
    BY <1>3, MetIsMeetsAny
<1> QED BY <1>1, <1>4, <1>5 DEF Intended

\* A host the exceptions are scoped to has the address, or spares them all.
LEMMA HostIsCovered ==
    ASSUME NEW c \in Calls, NEW f \in FilterOptions, call = c, options = f, Sane(packet), ToThisHost,
           NEW v4 \in BOOLEAN, Type = EtherType(v4)
    PROVE  \E j \in 1..Len(Hosts(c, f)) : IsV4(Hosts(c, f)[j]) = v4 /\ Inside(packet.dst, Hosts(c, f)[j])
<1>1. packet.dst \in Addresses(v4)
    <2>1. packet.ether = EtherType(v4)
        BY DEF Type, EtherType, EtVLAN, EtIPv4, EtIPv6
    <2> QED BY <2>1 DEF Sane, EtherType
<1>2. (Len(packet.dst) = 1) = v4
    <2>1. CASE v4 = TRUE
        <3>1. packet.dst \in [1..1 -> Words]
            BY <1>1, <2>1 DEF Addresses
        <3>2. \A a \in [1..1 -> Words] : Len(a) = 1
            OBVIOUS
        <3> QED BY <2>1, <3>1, <3>2
    <2>2. CASE v4 = FALSE
        <3>1. packet.dst \in [1..4 -> Words]
            BY <1>1, <2>2 DEF Addresses
        <3>2. \A a \in [1..4 -> Words] : Len(a) = 4
            OBVIOUS
        <3> QED BY <2>2, <3>1, <3>2
    <2> QED BY <2>1, <2>2
<1>3. CASE c = "Open" /\ f.known
    <2> DEFINE hosts == LocalPrefixes(f)
    <2>1. Hosts(c, f) = hosts
        BY <1>3 DEF Hosts
    <2>2. PICK h \in Range(hosts) : packet.dst = h.addr
        <3>1. /\ Range(f.parent) \subseteq Range(hosts)
              /\ f.childrenKnown => Range(f.children) \subseteq Range(hosts)
            BY LocalPrefixesAre
        <3>2. \/ \E i \in DOMAIN f.parent : packet.dst = f.parent[i].addr
              \/ f.childrenKnown /\ \E i \in DOMAIN f.children : packet.dst = f.children[i].addr
            BY <1>3 DEF ToThisHost, Addressed
        <3>3. /\ \A i \in DOMAIN f.parent : f.parent[i] \in Range(f.parent)
              /\ \A i \in DOMAIN f.children : f.children[i] \in Range(f.children)
            BY DEF Range
        <3> HIDE DEF hosts
        <3> QED BY <3>1, <3>2, <3>3
    <2>3. hosts \in Seq(HostPrefixes)
        BY LocalPrefixesAre
    <2> HIDE DEF hosts
    <2>4. PICK j \in 1..Len(hosts) : hosts[j] = h
        <3>1. DOMAIN hosts = 1..Len(hosts)
            BY <2>3
        <3> QED BY <2>2, <3>1 DEF Range
    <2>5. IsV4(h) = v4
        BY <1>2, <2>2 DEF IsV4
    <2>6. Inside(packet.dst, h)
        BY <2>2, Zenon DEF Inside
    <2> QED BY <2>1, <2>4, <2>5, <2>6
<1>4. CASE ~(c = "Open" /\ f.known)
    <2> DEFINE a == AnyHost(TRUE)
    <2> DEFINE b == AnyHost(FALSE)
    <2>1. Hosts(c, f) = <<a, b>>
        BY <1>4 DEF Hosts
    <2>2. IsV4(a) = TRUE /\ IsV4(b) = FALSE
        BY DEF IsV4, AnyHost
    <2>3. a.bits = 0 /\ b.bits = 0
        BY AnyHostIsCidr
    <2> HIDE DEF a, b
    <2>4. 0..(0 - 1) = {}
        OBVIOUS
    <2>5. Inside(packet.dst, a) /\ Inside(packet.dst, b)
        BY <2>3, <2>4, Zenon DEF Inside
    <2>6. Len(<<a, b>>) = 2 /\ <<a, b>>[1] = a /\ <<a, b>>[2] = b /\ 1 \in 1..2 /\ 2 \in 1..2
        OBVIOUS
    <2> QED BY <2>1, <2>2, <2>5, <2>6
<1> QED BY <1>3, <1>4

\* The rule that spares it.
LEMMA PortIsCovered ==
    ASSUME NEW f \in FilterOptions,
           \/ packet.proto = TCP /\ \E i \in 1..Len(f.ports), s \in BOOLEAN : HasPort(s) /\ SentTo(s) = f.ports[i]
           \/ packet.proto \in {TCP, UDP} /\ HasPort(TRUE) /\ packet.l4[1] = 53
    PROVE  \E i \in 1..Len(PortRules(f)) :
               /\ packet.proto = PortRules(f)[i].proto /\ HasPort(PortRules(f)[i].srcPort)
               /\ SentTo(PortRules(f)[i].srcPort) = PortRules(f)[i].port
<1> DEFINE rules == PortRules(f)
<1>1. /\ \A j \in 1..Len(f.ports), s \in BOOLEAN :
             \E i \in 1..Len(rules) : rules[i] = [proto |-> TCP, srcPort |-> s, port |-> f.ports[j]]
      /\ \A proto \in {TCP, UDP} :
             \E i \in 1..Len(rules) : rules[i] = [proto |-> proto, srcPort |-> TRUE, port |-> 53]
    BY PortRulesAre
<1> HIDE DEF rules
<1>2. CASE packet.proto = TCP /\ \E i \in 1..Len(f.ports), s \in BOOLEAN : HasPort(s) /\ SentTo(s) = f.ports[i]
    <2>1. PICK j \in 1..Len(f.ports), s \in BOOLEAN : HasPort(s) /\ SentTo(s) = f.ports[j]
        BY <1>2
    <2>2. PICK i \in 1..Len(rules) : rules[i] = [proto |-> TCP, srcPort |-> s, port |-> f.ports[j]]
        BY <1>1
    <2>3. rules[i].proto = TCP /\ rules[i].srcPort = s /\ rules[i].port = f.ports[j]
        BY <2>2
    <2> QED BY <1>2, <2>1, <2>3 DEF rules
<1>3. CASE packet.proto \in {TCP, UDP} /\ HasPort(TRUE) /\ packet.l4[1] = 53
    <2>1. PICK i \in 1..Len(rules) : rules[i] = [proto |-> packet.proto, srcPort |-> TRUE, port |-> 53]
        BY <1>1, <1>3
    <2>2. rules[i].proto = packet.proto /\ rules[i].srcPort = TRUE /\ rules[i].port = 53
        BY <2>1
    <2>3. SentTo(TRUE) = 53
        BY <1>3 DEF SentTo
    <2> QED BY <1>3, <2>2, <2>3 DEF rules
<1> QED BY <1>2, <1>3

LEMMA ManagementIsExcepted ==
    ASSUME NEW c \in Calls, NEW f \in FilterOptions, call = c, options = f, f.keep, Sane(packet), IsManagement
    PROVE  MeetsAny(Exceptions(c, f))
<1> DEFINE m == ManagementRules(c, f)
<1> DEFINE except == Exceptions(c, f)
<1>1. \A k \in 1..Len(m) : \E i \in 1..Len(except) : except[i] = m[k]
    BY ExceptionsAre
<1>2. ASSUME NEW k \in 1..Len(m), Meets(m[k]) PROVE MeetsAny(except)
    <2>1. PICK i \in 1..Len(except) : except[i] = m[k]
        BY <1>1
    <2> HIDE DEF m, except
    <2> QED BY <1>2, <2>1, Zenon DEF MeetsAny
<1>3. /\ Len(m) >= 2 /\ Len(m) \in Nat /\ m[1] = [kind |-> "etherType", type |-> EtARP]
      /\ m[2] = [kind |-> "icmp", v4 |-> FALSE, types |-> 133..137]
    <2>1. /\ m \in Seq(AllRules) /\ Len(m) >= 2 /\ m[1] = [kind |-> "etherType", type |-> EtARP]
          /\ m[2] = [kind |-> "icmp", v4 |-> FALSE, types |-> 133..137]
        BY ManagementRulesAre, ZenonT(60)
    <2> HIDE DEF m
    <2> QED BY <2>1
<1>4. \A i \in 1..Len(PortRules(f)), j \in 1..Len(Hosts(c, f)) :
          \E k \in 1..Len(m) : m[k] = ScopedTo(PortRules(f)[i], Hosts(c, f)[j])
    BY ManagementRulesAre, ZenonT(60)
<1> HIDE DEF m, except
<1>5. 1 \in 1..Len(m) /\ 2 \in 1..Len(m)
    BY <1>3
<1>6. CASE Type = EtARP /\ Carries(0)
    <2>1. m[1].kind = "etherType" /\ m[1].type = EtARP
        BY <1>3
    <2>2. Meets(m[1])
        BY <1>6, <2>1 DEF Meets
    <2> QED BY <1>2, <1>5, <2>2 DEF except
<1>7. CASE Type = EtIPv6 /\ packet.proto = ICMPv6 /\ Carries(IPHeader + 1) /\ packet.l4[1] \in 133..137
    <2>1. m[2].kind = "icmp" /\ m[2].v4 = FALSE /\ m[2].types = 133..137
        BY <1>3
    <2>2. packet.ether = EtIPv6
        BY <1>7 DEF Type, EtVLAN, EtIPv6
    <2>3. L4Present
        BY <1>7, <2>2 DEF L4Present, EtIPv4, EtIPv6, ICMPv6, ExtHdr
    <2>4. Meets(m[2])
        BY <1>7, <2>1, <2>3 DEF Meets, EtherType
    <2> QED BY <1>2, <1>5, <2>4 DEF except
<1>8. CASE /\ Type \in {EtIPv4, EtIPv6} /\ ToThisHost
           /\ \/ /\ packet.proto = TCP
                 /\ \E i \in 1..Len(options.ports), s \in BOOLEAN : HasPort(s) /\ SentTo(s) = options.ports[i]
              \/ packet.proto \in {TCP, UDP} /\ HasPort(TRUE) /\ packet.l4[1] = 53
    <2>1. PICK v4 \in BOOLEAN : Type = EtherType(v4)
        BY <1>8 DEF EtherType
    <2>2. PICK j \in 1..Len(Hosts(c, f)) : IsV4(Hosts(c, f)[j]) = v4 /\ Inside(packet.dst, Hosts(c, f)[j])
        BY <1>8, <2>1, HostIsCovered
    <2>3. PICK i \in 1..Len(PortRules(f)) :
              /\ packet.proto = PortRules(f)[i].proto /\ HasPort(PortRules(f)[i].srcPort)
              /\ SentTo(PortRules(f)[i].srcPort) = PortRules(f)[i].port
        BY <1>8, PortIsCovered
    <2> DEFINE p == PortRules(f)[i]
    <2> DEFINE h == Hosts(c, f)[j]
    <2>4. p \in PortRule /\ h \in AnyCidr
        BY PortRulesAre, HostsAre
    <2>5. /\ IsV4(h) = v4 /\ Inside(packet.dst, h)
          /\ packet.proto = p.proto /\ HasPort(p.srcPort) /\ SentTo(p.srcPort) = p.port
        BY <2>2, <2>3
    <2>6. PICK k \in 1..Len(m) : m[k] = ScopedTo(p, h)
        BY <1>4
    <2> HIDE DEF p, h
    <2> DEFINE r == ScopedTo(p, h)
    <2>7. /\ r.kind = "localPort" /\ r.proto = p.proto /\ r.srcPort = p.srcPort /\ r.port = p.port
          /\ r.local = h /\ r.v4 = IsV4(h)
        BY <2>4, ScopedIsLocal
    <2> HIDE DEF r
    <2>8. Meets(r)
        BY <1>8, <2>1, <2>5, <2>7 DEF Meets
    <2> QED BY <1>2, <2>6, <2>8 DEF r, except
<1> QED BY <1>6, <1>7, <1>8 DEF IsManagement, except

LEMMA IsKept == IInv => ManagementKept
<1> SUFFICES ASSUME IInv, Decided, options.keep, IsManagement PROVE verdict = "pass"
    BY DEF ManagementKept
<1>1. /\ call \in Calls /\ filter \in DOMAIN Filters /\ packet \in Packets
      /\ verdict = Intended(call, options)
    BY DEF IInv, TypeInv, Returned, Decided
<1>2. options \in FilterOptions
    BY <1>1, FilterAssumption DEF options
<1>3. PICK c \in Calls, f \in FilterOptions : c = call /\ f = options
    BY <1>1, <1>2
<1>4. Sane(packet)
    BY <1>1, FilterAssumption
<1>5. MeetsAny(Exceptions(c, f))
    BY <1>3, <1>4, ManagementIsExcepted
<1>6. Met(Exceptions(c, f))
    BY <1>5, ExceptionsAre, MetIsMeetsAny
<1> QED BY <1>1, <1>3, <1>6 DEF Intended

(***************************************************************************)
(* The theorems.                                                           *)
(***************************************************************************)

\* However long the packet, and however far a tag moved the base, no load of
\* a block the builders emit leaves it.
THEOREM LoadsStayInBounds == Spec => []LoadsInBounds
BY InBounds, Invariant, PTL

\* The chain of blocks redirects a packet of any length, to its own queue,
\* exactly when it meets a match and no exception, a rule being met only by a
\* packet that holds the fields it asks about and by every one that does; and
\* MatchPacket says the same.
THEOREM VerdictsAreIntended == Spec => []VerdictIsIntended
BY AsIntended, Invariant, PTL

\* ARP, neighbour discovery and what has its port in the place it has without
\* options or extension headers, of the host's sessions, is passed to the
\* kernel at any length that holds it, whatever else is asked for; and all
\* such traffic when the host's addresses are unknown.
THEOREM ManagementIsKept == Spec => []ManagementKept
BY IsKept, Invariant, PTL
=============================================================================
