--------------------------- MODULE ScalarsProofs ---------------------------
(***************************************************************************)
(* What the binary format writes for a number, and for a value with no     *)
(* values in it, is read back as it was, and is refused when it is cut     *)
(* short: for every size of bytes, both byte orders and every number of a  *)
(* width, where TLC tries a few.                                           *)
(*                                                                         *)
(* The way there: induction and recursion over the naturals from the least *)
(* member of a set; powers, quotients and remainders; the bytes of a       *)
(* number and what they are worth; what is written and what is read.       *)
(***************************************************************************)
EXTENDS Scalars, SequenceTheorems, WellFoundedInduction, TLAPS

-----------------------------------------------------------------------------
(* Induction *)

(* Every set of naturals that has a member has a least one. *)
LEMMA LeastNumber ==
  ASSUME NEW T \in SUBSET Nat, T # {}
  PROVE  \E m \in T : \A k \in T : m <= k
<1> DEFINE R == OpToRel(<, Nat)
<1>1. IsWellFoundedOn(R, Nat)
  BY NatLessThanWellFounded
<1>2. \A x, y \in Nat : <<y, x>> \in R <=> y < x
  BY DEF OpToRel
<1> HIDE DEF R
<1>3. PICK x \in T : \A y \in T : ~(<<y, x>> \in R)
  <2>1. \E x \in T : \A y \in T : ~(<<y, x>> \in R)
    BY <1>1, WFMin
  <2> QED
    BY <2>1
<1>4. \A k \in T : x <= k
  <2> TAKE k \in T
  <2>1. ~(<<k, x>> \in R) /\ k \in Nat /\ x \in Nat
    BY <1>3
  <2>2. ~(k < x)
    BY <2>1, <1>2
  <2> QED
    BY <2>1, <2>2
<1> QED
  BY <1>3, <1>4

LEMMA Induction ==
  ASSUME NEW S, 0 \in S, \A n \in Nat : n \in S => n + 1 \in S
  PROVE  \A n \in Nat : n \in S
<1> DEFINE T == {m \in Nat : m \notin S}
<1> SUFFICES ASSUME T # {} PROVE FALSE
  OBVIOUS
<1>1. PICK m \in T : \A k \in T : m <= k
  <2> T \in SUBSET Nat
    OBVIOUS
  <2> HIDE DEF T
  <2> QED
    BY LeastNumber
<1>2. m # 0 /\ m \in Nat
  OBVIOUS
<1>3. m - 1 \in Nat /\ (m - 1) + 1 = m /\ ~(m <= m - 1)
  BY <1>2
<1>4. m - 1 \in S
  BY <1>1, <1>3
<1>5. m \in S
  BY <1>3, <1>4
<1> QED
  BY <1>5

-----------------------------------------------------------------------------
(* Functions by recursion: a, h[0][a], h[1][h[0][a]], ... *)

Begins(g, n, S, a, h) ==
  /\ g \in [0 .. n -> S]
  /\ g[0] = a
  /\ \A k \in 0 .. n - 1 : g[k + 1] = h[k][g[k]]

LEMMA BeginningsExist ==
  ASSUME NEW S, NEW a \in S, NEW h \in [Nat -> [S -> S]]
  PROVE  \A n \in Nat : \E g : Begins(g, n, S, a, h)
<1> DEFINE Good == {n \in Nat : \E g : Begins(g, n, S, a, h)}
<1>1. 0 \in Good
  <2> DEFINE g == [k \in 0 .. 0 |-> a]
  <2>1. Begins(g, 0, S, a, h)
    BY DEF Begins
  <2> QED
    BY <2>1
<1>2. ASSUME NEW n \in Nat, n \in Good PROVE n + 1 \in Good
  <2>1. PICK g : Begins(g, n, S, a, h)
    BY <1>2
  <2> DEFINE f == [k \in 0 .. n + 1 |-> IF k = n + 1 THEN h[n][g[n]] ELSE g[k]]
  <2>2. g \in [0 .. n -> S] /\ g[0] = a /\ \A k \in 0 .. n - 1 : g[k + 1] = h[k][g[k]]
    BY <2>1 DEF Begins
  <2>3. g[n] \in S /\ h[n] \in [S -> S]
    BY <2>2
  <2>4. f[n + 1] = h[n][g[n]] /\ f[n + 1] \in S
    BY <2>3
  <2>5. ASSUME NEW k \in 0 .. n PROVE f[k] = g[k] /\ f[k] \in S
    <3>1. k \in 0 .. n + 1 /\ k # n + 1
      OBVIOUS
    <3>2. g[k] \in S
      BY <2>2
    <3> QED
      BY <3>1, <3>2
  <2>6. f \in [0 .. n + 1 -> S]
    <3>1. ASSUME NEW k \in 0 .. n + 1 PROVE f[k] \in S
      <4>1. k \in 0 .. n \/ k = n + 1
        OBVIOUS
      <4> QED
        BY <2>4, <2>5, <4>1
    <3>2. f = [k \in 0 .. n + 1 |-> f[k]]
      OBVIOUS
    <3> HIDE DEF f
    <3> QED
      BY <3>1, <3>2
  <2>7. ASSUME NEW k \in 0 .. (n + 1) - 1 PROVE f[k + 1] = h[k][f[k]]
    <3>1. CASE k = n
      <4>1. f[k] = g[n]
        BY <3>1, <2>5
      <4> QED
        BY <4>1, <2>4, <3>1
    <3>2. CASE k # n
      <4>1. k \in 0 .. n - 1 /\ k + 1 \in 0 .. n /\ k \in 0 .. n
        BY <3>2
      <4>2. g[k + 1] = h[k][g[k]]
        BY <2>2, <4>1
      <4> HIDE DEF f
      <4> QED
        BY <2>5, <4>1, <4>2
    <3> QED
      BY <3>1, <3>2
  <2>8. f[0] = a
    BY <2>2, <2>5
  <2> HIDE DEF f
  <2>9. Begins(f, n + 1, S, a, h)
    BY <2>6, <2>7, <2>8 DEF Begins
  <2> QED
    BY <2>9
<1> HIDE DEF Good
<1>3. \A n \in Nat : n \in Good
  BY <1>1, <1>2, Induction
<1> QED
  BY <1>3 DEF Good

LEMMA BeginningsAgree ==
  ASSUME NEW S, NEW a, NEW h, NEW f, NEW g, NEW n \in Nat, NEW m \in Nat,
         Begins(f, n, S, a, h), Begins(g, m, S, a, h)
  PROVE  \A k \in Nat : k <= n /\ k <= m => f[k] = g[k]
<1> DEFINE Good == {k \in Nat : k <= n /\ k <= m => f[k] = g[k]}
<1>1. 0 \in Good
  BY DEF Begins
<1>2. ASSUME NEW k \in Nat, k \in Good PROVE k + 1 \in Good
  <2> SUFFICES ASSUME k + 1 <= n, k + 1 <= m PROVE f[k + 1] = g[k + 1]
    OBVIOUS
  <2>1. k \in 0 .. n - 1 /\ k \in 0 .. m - 1 /\ k <= n /\ k <= m
    OBVIOUS
  <2>2. f[k] = g[k]
    BY <1>2, <2>1
  <2>3. f[k + 1] = h[k][f[k]] /\ g[k + 1] = h[k][g[k]]
    BY <2>1 DEF Begins
  <2> QED
    BY <2>2, <2>3
<1> HIDE DEF Good
<1>3. \A k \in Nat : k \in Good
  BY <1>1, <1>2, Induction
<1> QED
  BY <1>3 DEF Good

Iterates(f, S, a, h) ==
  /\ f \in [Nat -> S]
  /\ f[0] = a
  /\ \A n \in Nat : f[n + 1] = h[n][f[n]]

LEMMA Recursion ==
  \A S, a, h : a \in S /\ h \in [Nat -> [S -> S]] => \E f : Iterates(f, S, a, h)
<1> SUFFICES ASSUME NEW S, NEW a \in S, NEW h \in [Nat -> [S -> S]]
             PROVE  \E f : Iterates(f, S, a, h)
  OBVIOUS
<1> DEFINE G(n) == CHOOSE g : Begins(g, n, S, a, h)
           f == [n \in Nat |-> G(n)[n]]
<1>1. \A n \in Nat : Begins(G(n), n, S, a, h)
  BY BeginningsExist
<1> HIDE DEF G
<1>2. f \in [Nat -> S]
  <2> SUFFICES ASSUME NEW n \in Nat PROVE G(n)[n] \in S
    OBVIOUS
  <2>1. G(n) \in [0 .. n -> S]
    BY <1>1 DEF Begins
  <2> QED
    BY <2>1
<1>3. f[0] = a
  BY <1>1 DEF Begins
<1>4. ASSUME NEW n \in Nat PROVE f[n + 1] = h[n][f[n]]
  <2> DEFINE p == G(n + 1)
             q == G(n)
             m == n + 1
  <2>1. m \in Nat /\ n <= m /\ Begins(p, m, S, a, h) /\ Begins(q, n, S, a, h)
    BY <1>1
  <2>2. p[n + 1] = h[n][p[n]]
    <3>1. n \in 0 .. m - 1
      OBVIOUS
    <3> QED
      BY <2>1, <3>1 DEF Begins
  <2>3. f[n + 1] = p[n + 1] /\ f[n] = q[n]
    OBVIOUS
  <2> HIDE DEF p, q, m, f
  <2>4. p[n] = q[n]
    BY <2>1, BeginningsAgree
  <2> QED
    BY <2>2, <2>3, <2>4
<1> HIDE DEF f
<1>5. Iterates(f, S, a, h)
  BY <1>2, <1>3, <1>4 DEF Iterates
<1> QED
  BY <1>5

-----------------------------------------------------------------------------
(* Quotients and remainders *)

LEMMA Euclid ==
  ASSUME NEW n \in Nat, NEW d \in Nat \ {0}
  PROVE  n \div d \in Nat /\ n % d \in 0 .. d - 1 /\ n = d * (n \div d) + (n % d)
OBVIOUS

LEMMA TimesGrows ==
  ASSUME NEW d \in Nat, NEW m \in Nat \ {0}
  PROVE  d * m >= d /\ d * m \in Nat
OBVIOUS

LEMMA TimesDiff ==
  ASSUME NEW d \in Nat, NEW x \in Nat, NEW y \in Nat, x < y
  PROVE  d * y >= d * x + d
<1> DEFINE z == y - x
<1>1. z \in Nat \ {0} /\ d * z = d * y - d * x
  OBVIOUS
<1> HIDE DEF z
<1>2. d * z >= d
  BY <1>1, TimesGrows
<1>3. d * x \in Nat /\ d * y \in Nat
  OBVIOUS
<1> QED
  BY <1>1, <1>2, <1>3

(* There is only one quotient. *)
LEMMA DivUnique ==
  ASSUME NEW d \in Nat \ {0}, NEW q \in Nat, NEW p \in Nat,
         NEW r \in 0 .. d - 1, NEW s \in 0 .. d - 1, d * q + r = d * p + s
  PROVE  q = p
<1>0. d * q \in Nat /\ d * p \in Nat
  OBVIOUS
<1>1. CASE q < p
  <2>1. d * p >= d * q + d
    BY <1>1, TimesDiff
  <2> QED
    BY <2>1, <1>0
<1>2. CASE p < q
  <2>1. d * q >= d * p + d
    BY <1>2, TimesDiff
  <2> QED
    BY <2>1, <1>0
<1> QED
  BY <1>1, <1>2

(* To divide by a and then by b is to divide by their product. *)
LEMMA DivDiv ==
  ASSUME NEW n \in Nat, NEW a \in Nat \ {0}, NEW b \in Nat \ {0}
  PROVE  /\ b * a \in Nat \ {0}
         /\ n \div (b * a) = (n \div a) \div b
         /\ n % (b * a) = a * ((n \div a) % b) + (n % a)
<1> DEFINE q == n \div a
           r == n % a
           p == q \div b
           s == q % b
           c == b * a
           t == a * s + r
<1>1. q \in Nat /\ r \in 0 .. a - 1 /\ n = a * q + r
  BY Euclid
<1>2. c \in Nat \ {0}
  OBVIOUS
<1> HIDE DEF q, r
<1>3. p \in Nat /\ s \in 0 .. b - 1 /\ q = b * p + s
  BY <1>1, Euclid
<1> HIDE DEF p, s
<1>4. t \in 0 .. c - 1
  <2>1. a * s \in Nat /\ s \in Nat /\ b \in Nat /\ s < b
    BY <1>3
  <2>2. a * b >= a * s + a
    BY <2>1, TimesDiff
  <2>3. a * b = c
    OBVIOUS
  <2> HIDE DEF c
  <2> QED
    BY <1>1, <1>2, <2>1, <2>2, <2>3
<1>5. n = c * p + t
  <2>1. a * (b * p + s) = (b * a) * p + a * s
    BY <1>3
  <2> QED
    BY <1>1, <1>3, <2>1
<1> DEFINE Q == n \div c
           W == n % c
<1> HIDE DEF c, t
<1>6. Q \in Nat /\ W \in 0 .. c - 1 /\ n = c * Q + W
  BY <1>2, Euclid
<1> HIDE DEF Q, W
<1>7. p = Q
  BY <1>2, <1>3, <1>4, <1>5, <1>6, DivUnique
<1>8. c * p \in Nat /\ W = t
  <2>1. c * p \in Nat /\ t \in Nat /\ W \in Nat
    BY <1>2, <1>3, <1>4, <1>6
  <2>2. c * p + t = c * p + W
    BY <1>5, <1>6, <1>7
  <2> QED
    BY <2>1, <2>2
<1> QED
  BY <1>2, <1>7, <1>8 DEF p, q, r, s, t, Q, W, c

-----------------------------------------------------------------------------
(* Powers *)

LEMMA PowerFacts ==
  /\ Power \in [Nat -> Nat]
  /\ Power[0] = 1
  /\ \A k \in Nat : Power[k + 1] = Base * Power[k]
<1> DEFINE Unfold(f) == [k \in Nat |-> IF k = 0 THEN 1 ELSE Base * f[k - 1]]
<1>0. Base \in Nat
  BY BaseAssumption
<1>1. \E f : f = Unfold(f)
  <2> DEFINE h == [n \in Nat |-> [v \in Nat |-> Base * v]]
             S == Nat
             a == 1
  <2>1. a \in S /\ h \in [Nat -> [S -> S]]
    BY <1>0
  <2> HIDE DEF h, S, a
  <2>2. PICK f \in [Nat -> S] : f[0] = a /\ \A n \in Nat : f[n + 1] = h[n][f[n]]
    <3>1. PICK f : Iterates(f, S, a, h)
      BY <2>1, Recursion, Zenon
    <3> QED
      BY <3>1 DEF Iterates
  <2>3. f \in [Nat -> Nat] /\ f[0] = 1
    BY <2>2 DEF S, a
  <2>4. ASSUME NEW k \in Nat, k # 0 PROVE f[k] = Base * f[k - 1]
    <3>1. k - 1 \in Nat /\ (k - 1) + 1 = k
      BY <2>4
    <3>2. f[(k - 1) + 1] = h[k - 1][f[k - 1]]
      BY <2>2, <3>1
    <3>3. h[k - 1][f[k - 1]] = Base * f[k - 1]
      BY <3>1, <2>3 DEF h
    <3> QED
      BY <3>1, <3>2, <3>3
  <2>5. f = Unfold(f)
    BY <2>3, <2>4
  <2> QED
    BY <2>5
<1>2. Power = Unfold(Power)
  <2> HIDE DEF Unfold
  <2>1. \E p : p = Unfold(p)
    BY <1>1
  <2> QED
    BY <2>1 DEF Power, Unfold
<1>3. Power[0] = 1
  BY <1>2
<1>4. ASSUME NEW k \in Nat PROVE Power[k + 1] = Base * Power[k]
  <2>1. k + 1 \in Nat /\ k + 1 # 0 /\ (k + 1) - 1 = k
    OBVIOUS
  <2> QED
    BY <1>2, <2>1
<1>5. \A k \in Nat : Power[k] \in Nat
  <2> DEFINE Good == {k \in Nat : Power[k] \in Nat}
  <2>1. 0 \in Good
    BY <1>3
  <2>2. ASSUME NEW k \in Nat, k \in Good PROVE k + 1 \in Good
    BY <1>0, <1>4, <2>2
  <2> HIDE DEF Good
  <2>3. \A k \in Nat : k \in Good
    BY <2>1, <2>2, Induction
  <2> QED
    BY <2>3 DEF Good
<1>6. DOMAIN Power = Nat /\ Power = [k \in Nat |-> Power[k]]
  BY <1>2
<1>7. Power \in [Nat -> Nat]
  BY <1>5, <1>6
<1> QED
  BY <1>3, <1>4, <1>7

LEMMA PowerPositive == \A k \in Nat : Power[k] \in Nat \ {0}
<1> DEFINE Good == {k \in Nat : Power[k] \in Nat \ {0}}
<1>1. 0 \in Good
  BY PowerFacts
<1>2. \A k \in Nat : k \in Good => k + 1 \in Good
  <2> SUFFICES ASSUME NEW k \in Nat, Power[k] \in Nat \ {0} PROVE Power[k + 1] \in Nat \ {0}
    OBVIOUS
  <2>1. Base \in Nat \ {0} /\ Power[k + 1] = Base * Power[k]
    BY PowerFacts, BaseAssumption
  <2>2. Base * Power[k] >= Base /\ Base * Power[k] \in Nat
    BY <2>1, TimesGrows
  <2> QED
    BY <2>1, <2>2
<1> HIDE DEF Good
<1>3. \A k \in Nat : k \in Good
  BY <1>1, <1>2, Induction
<1> QED
  BY <1>3 DEF Good

(* Any sequence of partial sums ends in what Get returns. *)
LEMMA GetIsSum ==
  ASSUME NEW s \in Seq(Nat), NEW le \in BOOLEAN, NEW f \in [0 .. Len(s) -> Nat],
         f[0] = 0,
         \A i \in 1 .. Len(s) : f[i] = f[i - 1] + s[i] * Weight(i, Len(s), le)
  PROVE  Get(s, le) = f[Len(s)]
<1> DEFINE w == Len(s)
           Unfold(g) == [i \in 0 .. w |->
                           IF i = 0 THEN 0 ELSE g[i - 1] + s[i] * Weight(i, w, le)]
           sum == CHOOSE g : g = Unfold(g)
<1>1. w \in Nat
  BY LenProperties
<1>2. f = Unfold(f)
  <2>1. \A i \in 0 .. w : f[i] = IF i = 0 THEN 0 ELSE f[i - 1] + s[i] * Weight(i, w, le)
    <3> SUFFICES ASSUME NEW i \in 0 .. w, i # 0
                 PROVE  f[i] = f[i - 1] + s[i] * Weight(i, w, le)
      OBVIOUS
    <3>1. i \in 1 .. w
      BY <1>1
    <3> QED
      BY <3>1
  <2> QED
    BY <2>1
<1>3. sum = Unfold(sum)
  <2> HIDE DEF Unfold
  <2> QED
    BY <1>2
<1> HIDE DEF sum
<1>4. \A i \in 1 .. w : sum[i] = sum[i - 1] + s[i] * Weight(i, w, le)
  BY <1>1, <1>3
<1>5. sum[0] = 0
  BY <1>1, <1>3
<1>6. \A i \in 0 .. w : sum[i] = f[i]
  <2> DEFINE Good == {i \in Nat : i <= w => sum[i] = f[i]}
  <2>1. 0 \in Good
    BY <1>5
  <2>2. ASSUME NEW i \in Nat, i \in Good PROVE i + 1 \in Good
    <3> SUFFICES ASSUME i + 1 <= w PROVE sum[i + 1] = f[i + 1]
      OBVIOUS
    <3>1. i + 1 \in 1 .. w /\ (i + 1) - 1 = i /\ i <= w
      BY <1>1
    <3>2. sum[i] = f[i]
      BY <2>2, <3>1
    <3>3. sum[i + 1] = sum[(i + 1) - 1] + s[i + 1] * Weight(i + 1, w, le)
      BY <1>4, <3>1
    <3>4. f[i + 1] = f[(i + 1) - 1] + s[i + 1] * Weight(i + 1, w, le)
      BY <3>1
    <3> QED
      BY <3>1, <3>2, <3>3, <3>4
  <2> HIDE DEF Good
  <2>3. \A i \in Nat : i \in Good
    BY <2>1, <2>2, Induction
  <2> QED
    BY <1>1, <2>3 DEF Good
<1>7. Get(s, le) = sum[w]
  BY DEF Get, sum
<1> QED
  BY <1>1, <1>6, <1>7

-----------------------------------------------------------------------------
(* The bytes of a number *)

(* A function on the first n indices is a sequence. *)
LEMMA IndexedBySeq ==
  ASSUME NEW S, NEW n \in Nat, NEW s \in [1 .. n -> S]
  PROVE  s \in Seq(S) /\ Len(s) = n
OBVIOUS

(* The bytes of a number. *)
LEMMA PutIsBytes ==
  ASSUME NEW n \in Nat, NEW w \in Nat, NEW le \in BOOLEAN
  PROVE  Put(n, w, le) \in Seq(Byte) /\ Len(Put(n, w, le)) = w
<1>1. ASSUME NEW i \in 1 .. w PROVE (n \div Weight(i, w, le)) % Base \in Byte
  <2>1. Weight(i, w, le) \in Nat \ {0}
    <3>1. i - 1 \in Nat /\ w - i \in Nat
      OBVIOUS
    <3> QED
      BY <3>1, PowerPositive DEF Weight
  <2>2. n \div Weight(i, w, le) \in Nat
    BY <2>1, Euclid
  <2> DEFINE q == n \div Weight(i, w, le)
  <2> HIDE DEF q
  <2>3. Base \in Nat \ {0}
    BY BaseAssumption
  <2>4. q \in Nat
    BY <2>2 DEF q
  <2>5. q % Base \in 0 .. Base - 1
    BY <2>3, <2>4, Euclid
  <2> QED
    BY <2>5 DEF q, Byte
<1>2. Put(n, w, le) \in [1 .. w -> Byte]
  BY <1>1 DEF Put
<1> QED
  BY <1>2

(* What the bytes of lower weight are worth. *)
LEMMA LowDigits ==
  ASSUME NEW n \in Nat, NEW k \in Nat
  PROVE  n % Power[k + 1] = Power[k] * ((n \div Power[k]) % Base) + (n % Power[k])
<1>1. Power[k] \in Nat \ {0} /\ Base \in Nat \ {0} /\ Power[k + 1] = Base * Power[k]
  BY PowerPositive, PowerFacts, BaseAssumption
<1>2. n % (Base * Power[k]) = Power[k] * ((n \div Power[k]) % Base) + (n % Power[k])
  BY <1>1, DivDiv
<1> QED
  BY <1>1, <1>2

LEMMA Remainders ==
  ASSUME NEW n \in Nat, NEW k \in Nat
  PROVE  n % Power[k] \in 0 .. n
<1>1. Power[k] \in Nat \ {0}
  BY PowerPositive
<1> DEFINE d == Power[k]
           q == n \div d
           r == n % d
<1> HIDE DEF d
<1>2. q \in Nat /\ r \in 0 .. d - 1 /\ n = d * q + r
  BY <1>1, Euclid DEF d
<1> HIDE DEF q, r
<1>3. d * q \in Nat
  BY <1>1, <1>2 DEF d
<1>4. r \in 0 .. n
  BY <1>2, <1>3
<1> QED
  BY <1>4 DEF r, d

LEMMA SmallerThan ==
  ASSUME NEW d \in Nat \ {0}, NEW n \in 0 .. d - 1
  PROVE  n % d = n /\ n \div d = 0
OBVIOUS

(* A number of w bytes is what its w bytes are worth, in both orders. *)
LEMMA GetOfPut ==
  ASSUME NEW w \in Nat, NEW n \in 0 .. Power[w] - 1, NEW le \in BOOLEAN
  PROVE  Get(Put(n, w, le), le) = n
<1> DEFINE s == Put(n, w, le)
<1>0. n \in Nat /\ Power[w] \in Nat \ {0} /\ n % Power[w] = n
  BY PowerPositive, SmallerThan
<1>1. s \in Seq(Byte) /\ s \in Seq(Nat) /\ Len(s) = w
  <2>1. s \in Seq(Byte) /\ Len(s) = w
    BY <1>0, PutIsBytes
  <2>2. Byte \subseteq Nat
    BY BaseAssumption DEF Byte
  <2> HIDE DEF s
  <2>3. s \in [1 .. Len(s) -> Byte] /\ Len(s) \in Nat
    BY <2>1, LenProperties
  <2>4. s \in [1 .. Len(s) -> Nat]
    BY <2>2, <2>3
  <2> QED
    BY <2>1, <2>3, <2>4, IndexedBySeq
<1>2. \A i \in 1 .. w : s[i] = (n \div Weight(i, w, le)) % Base
  BY DEF Put
<1> HIDE DEF s
<1>3. n % Power[0] = 0
  BY <1>0, PowerFacts
<1>4. CASE le
  <2> DEFINE f == [i \in 0 .. w |-> n % Power[i]]
  <2>1. f \in [0 .. w -> Nat] /\ f[0] = 0 /\ f[w] = n
    <3>1. \A i \in 0 .. w : n % Power[i] \in Nat
      <4> TAKE i \in 0 .. w
      <4>1. i \in Nat
        OBVIOUS
      <4>2. n % Power[i] \in 0 .. n
        BY <1>0, <4>1, Remainders
      <4> QED
        BY <4>2
    <3> QED
      BY <3>1, <1>0, <1>3
  <2>2. ASSUME NEW i \in 1 .. w PROVE f[i] = f[i - 1] + s[i] * Weight(i, w, le)
    <3>1. PICK k \in Nat : k = i - 1 /\ i = k + 1
      OBVIOUS
    <3>2. Weight(i, w, le) = Power[k]
      BY <1>4, <3>1 DEF Weight
    <3>3. f[i] = n % Power[k + 1] /\ f[i - 1] = n % Power[k]
      BY <3>1
    <3>4. s[i] = (n \div Power[k]) % Base
      BY <1>2, <3>2
    <3>5. s[i] \in Nat /\ Power[k] \in Nat /\ n % Power[k] \in Nat
      <4>1. s[i] \in Nat
        BY <1>1
      <4>2. n % Power[k] \in 0 .. n
        BY <1>0, Remainders
      <4> QED
        BY <4>1, <4>2, <1>0, PowerPositive
    <3>6. n % Power[k + 1] = Power[k] * s[i] + (n % Power[k])
      BY <1>0, <3>4, LowDigits
    <3> HIDE DEF f
    <3> QED
      BY <3>2, <3>3, <3>5, <3>6
  <2> HIDE DEF f
  <2>3. /\ f \in [0 .. Len(s) -> Nat]
        /\ \A i \in 1 .. Len(s) : f[i] = f[i - 1] + s[i] * Weight(i, Len(s), le)
    BY <1>1, <2>1, <2>2
  <2>4. Get(s, le) = f[Len(s)]
    BY <1>1, <2>1, <2>3, GetIsSum
  <2> QED
    BY <1>1, <2>1, <2>4 DEF s
<1>5. CASE ~le
  <2> DEFINE f == [i \in 0 .. w |-> n - (n % Power[w - i])]
  <2>1. f \in [0 .. w -> Nat] /\ f[0] = 0 /\ f[w] = n
    <3>1. \A i \in 0 .. w : n - (n % Power[w - i]) \in Nat
      <4> TAKE i \in 0 .. w
      <4>1. PICK k \in Nat : k = w - i
        OBVIOUS
      <4>2. n % Power[k] \in 0 .. n
        BY <1>0, Remainders
      <4> QED
        BY <1>0, <4>1, <4>2
    <3>2. w - 0 = w /\ w - w = 0
      OBVIOUS
    <3> QED
      BY <3>1, <3>2, <1>0, <1>3
  <2>2. ASSUME NEW i \in 1 .. w PROVE f[i] = f[i - 1] + s[i] * Weight(i, w, le)
    <3>1. PICK k \in Nat : k = w - i /\ k + 1 = w - (i - 1)
      OBVIOUS
    <3>2. Weight(i, w, le) = Power[k]
      BY <1>5, <3>1 DEF Weight
    <3>3. f[i] = n - (n % Power[k]) /\ f[i - 1] = n - (n % Power[k + 1])
      BY <3>1
    <3>4. s[i] = (n \div Power[k]) % Base
      BY <1>2, <3>2
    <3>5. /\ s[i] \in Nat /\ Power[k] \in Nat
          /\ n % Power[k] \in Nat /\ n % Power[k + 1] \in Nat
      <4>1. s[i] \in Nat
        BY <1>1
      <4>2. n % Power[k] \in 0 .. n
        BY <1>0, Remainders
      <4>3. n % Power[k + 1] \in 0 .. n
        <5> DEFINE m == k + 1
        <5>1. m \in Nat
          OBVIOUS
        <5> HIDE DEF m
        <5>2. n % Power[m] \in 0 .. n
          BY <1>0, <5>1, Remainders
        <5> QED
          BY <5>2 DEF m
      <4> QED
        BY <4>1, <4>2, <4>3, <1>0, PowerPositive
    <3>6. n % Power[k + 1] = Power[k] * s[i] + (n % Power[k])
      BY <1>0, <3>4, LowDigits
    <3> HIDE DEF f
    <3> QED
      BY <1>0, <3>2, <3>3, <3>5, <3>6
  <2> HIDE DEF f
  <2>3. /\ f \in [0 .. Len(s) -> Nat]
        /\ \A i \in 1 .. Len(s) : f[i] = f[i - 1] + s[i] * Weight(i, Len(s), le)
    BY <1>1, <2>1, <2>2
  <2>4. Get(s, le) = f[Len(s)]
    BY <1>1, <2>1, <2>3, GetIsSum
  <2> QED
    BY <1>1, <2>1, <2>4 DEF s
<1> QED
  BY <1>4, <1>5

-----------------------------------------------------------------------------
(* Numbers of any size *)

(* A width has the bytes for its numbers. *)
LEMMA WidthFits ==
  ASSUME NEW n \in 0 .. Power[8] - 1
  PROVE  \/ WidthOf(n) = 1 /\ n <= Base - 4
         \/ \E w \in {2, 4, 8} : WidthOf(n) = w /\ n \in 0 .. Power[w] - 1
<1>1. Power[2] \in Nat /\ Power[3] \in Nat /\ Power[4] \in Nat /\ Power[8] \in Nat
  BY PowerPositive
<1> QED
  BY <1>1, BaseAssumption DEF WidthOf

(* What a number is written as. *)
LEMMA UnsignedIs ==
  ASSUME NEW n \in 0 .. Power[8] - 1, NEW le \in BOOLEAN
  PROVE  \/ n \in 0 .. Base - 4 /\ Unsigned(n, le) = <<n>>
         \/ \E w \in {2, 4, 8} :
              n \in 0 .. Power[w] - 1 /\ Unsigned(n, le) = <<Marker(w)>> \o Put(n, w, le)
<1>1. CASE WidthOf(n) = 1 /\ n <= Base - 4
  BY <1>1 DEF Unsigned
<1>2. CASE \E w \in {2, 4, 8} : WidthOf(n) = w /\ n \in 0 .. Power[w] - 1
  BY <1>2 DEF Unsigned
<1> QED
  BY <1>1, <1>2, WidthFits

LEMMA Markers ==
  /\ Marker(2) = Base - 3 /\ Marker(4) = Base - 2 /\ Marker(8) = Base - 1
  /\ Base \in Nat /\ Base > 4
BY BaseAssumption DEF Marker

(* Two sequences, one behind the other. *)
LEMMA Joined ==
  ASSUME NEW u \in Seq(Byte), NEW v \in Seq(Byte)
  PROVE  /\ u \o v \in Seq(Byte) /\ Len(u \o v) = Len(u) + Len(v)
         /\ \A i \in 1 .. Len(u) : (u \o v)[i] = u[i]
         /\ \A i \in 1 .. Len(v) : (u \o v)[Len(u) + i] = v[i]
OBVIOUS

(* What is written is bytes, no more than nine. *)
THEOREM NumbersAreBytes ==
  \A n \in 0 .. Power[8] - 1, le \in BOOLEAN :
    Unsigned(n, le) \in Seq(Byte) /\ Len(Unsigned(n, le)) \in 1 .. 9
<1> TAKE n \in 0 .. Power[8] - 1, le \in BOOLEAN
<1>0. n \in Nat /\ Byte = 0 .. Base - 1
  BY PowerPositive DEF Byte
<1>1. CASE n \in 0 .. Base - 4 /\ Unsigned(n, le) = <<n>>
  BY <1>0, <1>1, Markers
<1>2. ASSUME NEW w \in {2, 4, 8}, Unsigned(n, le) = <<Marker(w)>> \o Put(n, w, le)
      PROVE  Unsigned(n, le) \in Seq(Byte) /\ Len(Unsigned(n, le)) \in 1 .. 9
  <2> DEFINE s == Put(n, w, le)
             m == Marker(w)
  <2>1. s \in Seq(Byte) /\ Len(s) = w
    <3>1. w \in Nat
      BY <1>2
    <3> QED
      BY <1>0, <3>1, PutIsBytes, Zenon
  <2>2. m \in Byte
    BY <1>0, Markers
  <2>3. Unsigned(n, le) = <<m>> \o s
    BY <1>2
  <2> HIDE DEF s, m
  <2>4. <<m>> \in Seq(Byte) /\ Len(<<m>>) = 1
    BY <2>2
  <2>5. <<m>> \o s \in Seq(Byte) /\ Len(<<m>> \o s) = 1 + w
    BY <2>1, <2>4, Joined
  <2> QED
    BY <2>3, <2>5
<1> QED
  BY <1>1, <1>2, UnsignedIs

(* Fixed finds the bytes of a number where they are.  *)
LEMMA FixedFinds ==
  ASSUME NEW m \in Nat, NEW w \in Nat, NEW n \in 0 .. Power[w] - 1, NEW le \in BOOLEAN,
         NEW head \in Seq(Byte), Len(head) = m, NEW rest \in Seq(Byte)
  PROVE  Fixed((head \o Put(n, w, le)) \o rest, m, w, le) = Ok(n, rest)
<1> DEFINE s == Put(n, w, le)
           in == (head \o s) \o rest
<1>1. s \in Seq(Byte) /\ Len(s) = w /\ Get(s, le) = n
  BY PowerPositive, PutIsBytes, GetOfPut
<1> HIDE DEF s
<1>2. head \o s \in Seq(Byte) /\ Len(head \o s) = m + w
  BY <1>1
<1>3. in \in Seq(Byte) /\ Len(in) = m + w + Len(rest) /\ Len(rest) \in Nat
  BY <1>1, <1>2
<1>4. SubSeq(in, m + 1, m + w) = s
  <2>1. ASSUME NEW i \in 1 .. w PROVE in[m + i] = s[i]
    <3> DEFINE both == head \o s
               k == m + i
    <3>1. k \in 1 .. Len(both) /\ k = Len(head) + i /\ i \in 1 .. Len(s)
      BY <1>1, <1>2
    <3>2. both[Len(head) + i] = s[i]
      BY <1>1, <3>1, Joined
    <3>3. both \in Seq(Byte)
      BY <1>2
    <3> HIDE DEF both
    <3>4. (both \o rest)[k] = both[k]
      <4> HIDE DEF k
      <4> QED
        BY <3>1, <3>3
    <3> QED
      BY <3>1, <3>2, <3>4 DEF both
  <2>2. SubSeq(in, m + 1, m + w) \in Seq(Byte) /\ Len(SubSeq(in, m + 1, m + w)) = w
    BY <1>1, <1>3
  <2>3. \A i \in 1 .. w : SubSeq(in, m + 1, m + w)[i] = in[m + i]
    BY <1>1, <1>3
  <2> HIDE DEF in
  <2> QED
    BY <1>1, <2>1, <2>2, <2>3, SeqEqual
<1>5. Drop(in, m + w) = rest
  <2> DEFINE d == SubSeq(in, (m + w) + 1, Len(in))
  <2>1. \A i \in 1 .. Len(rest) : in[(m + w) + i] = rest[i]
    BY <1>1, <1>2
  <2>2. d \in Seq(Byte) /\ Len(d) = Len(rest)
    BY <1>1, <1>3
  <2>3. \A i \in 1 .. Len(rest) : d[i] = in[(m + w) + i]
    BY <1>1, <1>3
  <2>4. d = Drop(in, m + w)
    BY DEF Drop
  <2> HIDE DEF in, d
  <2> QED
    BY <1>3, <2>1, <2>2, <2>3, <2>4, SeqEqual
<1>6. ~(Len(in) < m + w)
  BY <1>3
<1> HIDE DEF in
<1>7. Fixed(in, m, w, le) = Ok(n, rest)
  BY <1>1, <1>4, <1>5, <1>6 DEF Fixed
<1> QED
  BY <1>7 DEF in, s

(* parse_unsigned reads back every number that serialize_unsigned writes,  *)
(* in both byte orders and at every boundary of the sizes, and leaves what *)
(* follows it.                                                             *)
THEOREM NumbersAreRead ==
  \A n \in 0 .. Power[8] - 1, le \in BOOLEAN, rest \in Seq(Byte) :
    ParseUnsigned(Unsigned(n, le) \o rest, le) = Ok(n, rest)
<1> TAKE n \in 0 .. Power[8] - 1, le \in BOOLEAN, rest \in Seq(Byte)
<1>0. n \in Nat /\ Byte = 0 .. Base - 1
  BY PowerPositive DEF Byte
<1>1. CASE n \in 0 .. Base - 4 /\ Unsigned(n, le) = <<n>>
  <2> DEFINE in == <<n>> \o rest
  <2>1. n \in Byte
    BY <1>0, <1>1, Markers
  <2>2. in \in Seq(Byte) /\ in # <<>> /\ in[1] = n /\ Len(in) = Len(rest) + 1
    BY <2>1
  <2>3. Drop(in, 1) = rest
    BY <2>1 DEF Drop
  <2>4. n # Marker(8) /\ n # Marker(4) /\ n # Marker(2)
    BY <1>1, Markers
  <2> HIDE DEF in
  <2>5. ParseUnsigned(in, le) = Ok(n, rest)
    BY <2>2, <2>3, <2>4 DEF ParseUnsigned
  <2> QED
    BY <1>1, <2>5 DEF in
<1>2. ASSUME NEW w \in {2, 4, 8}, n \in 0 .. Power[w] - 1,
             Unsigned(n, le) = <<Marker(w)>> \o Put(n, w, le)
      PROVE  ParseUnsigned(Unsigned(n, le) \o rest, le) = Ok(n, rest)
  <2> DEFINE m == Marker(w)
             s == Put(n, w, le)
             in == (<<m>> \o s) \o rest
  <2>1. m \in Byte /\ s \in Seq(Byte)
    <3>1. m \in Byte
      BY <1>0, Markers
    <3>2. w \in Nat /\ s \in Seq(Byte)
      BY <1>0, PutIsBytes
    <3> QED
      BY <3>1, <3>2
  <2>2. in # <<>> /\ in[1] = m
    <3> HIDE DEF m, s
    <3> QED
      BY <2>1
  <2>3. Fixed(in, 1, w, le) = Ok(n, rest)
    <3>1. <<m>> \in Seq(Byte) /\ Len(<<m>>) = 1
      BY <2>1
    <3>2. w \in Nat /\ n \in 0 .. Power[w] - 1
      BY <1>2
    <3> HIDE DEF m
    <3>3. Fixed((<<m>> \o Put(n, w, le)) \o rest, 1, w, le) = Ok(n, rest)
      <4> DEFINE head == <<m>>
                 one == 1
      <4>1. head \in Seq(Byte) /\ Len(head) = one /\ one \in Nat
        BY <3>1
      <4> HIDE DEF head, one
      <4>2. Fixed((head \o Put(n, w, le)) \o rest, one, w, le) = Ok(n, rest)
        BY <3>2, <4>1, FixedFinds
      <4> QED
        BY <4>2 DEF head, one
    <3> QED
      BY <3>3
  <2> HIDE DEF in
  <2>4. ParseUnsigned(in, le) = Fixed(in, 1, w, le)
    BY <2>2, Markers DEF ParseUnsigned, m
  <2> QED
    BY <1>2, <2>3, <2>4 DEF in, s, m
<1> QED
  BY <1>1, <1>2, UnsignedIs

LEMMA TakeIs ==
  ASSUME NEW s \in Seq(Byte), NEW k \in 0 .. Len(s)
  PROVE  Take(s, k) \in Seq(Byte) /\ Len(Take(s, k)) = k /\ \A i \in 1 .. k : Take(s, k)[i] = s[i]
BY DEF Take

(* A number that is cut short is never taken for another one. *)
THEOREM CutNumbersAreNoticed ==
  \A n \in 0 .. Power[8] - 1, le \in BOOLEAN : \A k \in 0 .. Len(Unsigned(n, le)) - 1 :
    ParseUnsigned(Take(Unsigned(n, le), k), le) = Err("eof")
<1> TAKE n \in 0 .. Power[8] - 1, le \in BOOLEAN
<1> TAKE k \in 0 .. Len(Unsigned(n, le)) - 1
<1> DEFINE u == Unsigned(n, le)
           in == Take(u, k)
<1>1. u \in Seq(Byte) /\ Len(u) \in 1 .. 9
  BY NumbersAreBytes
<1>2. in \in Seq(Byte) /\ Len(in) = k /\ \A i \in 1 .. k : in[i] = u[i]
  <2>1. k \in 0 .. Len(u)
    <3>1. k \in 0 .. Len(u) - 1
      OBVIOUS
    <3> HIDE DEF u
    <3> QED
      BY <1>1, <3>1
  <2> HIDE DEF u
  <2> QED
    BY <1>1, <2>1, TakeIs
<1>3. CASE k = 0
  <2>1. in = <<>>
    BY <1>2, <1>3, EmptySeq
  <2> HIDE DEF in
  <2> QED
    BY <2>1 DEF ParseUnsigned, in, u
<1>4. CASE k # 0
  <2>1. PICK w \in {2, 4, 8} : u = <<Marker(w)>> \o Put(n, w, le)
    <3>1. CASE u = <<n>>
      BY <3>1, <1>4
    <3> QED
      BY <3>1, UnsignedIs
  <2> DEFINE m == Marker(w)
             s == Put(n, w, le)
  <2>2. s \in Seq(Byte) /\ Len(s) = w
    <3>1. n \in Nat /\ w \in Nat
      BY PowerPositive
    <3> QED
      BY <3>1, PutIsBytes
  <2>3. Len(u) = 1 + w /\ u[1] = m
    <3> HIDE DEF s, m, u
    <3>1. u = <<m>> \o s
      BY <2>1 DEF s, m
    <3> QED
      BY <2>2, <3>1
  <2>4. in # <<>> /\ in[1] = m /\ Len(in) < 1 + w
    <3>1. k \in 1 .. Len(u) - 1
      BY <1>4
    <3> HIDE DEF in, m, u
    <3> QED
      BY <1>2, <2>3, <3>1
  <2> HIDE DEF in
  <2>5. Fixed(in, 1, w, le) = Err("eof")
    BY <2>4 DEF Fixed
  <2>6. ParseUnsigned(in, le) = Fixed(in, 1, w, le)
    BY <2>4, Markers DEF ParseUnsigned, m
  <2> QED
    BY <2>5, <2>6 DEF in, u
<1> QED
  BY <1>3, <1>4

-----------------------------------------------------------------------------
(* Signed numbers and widths *)

(* zigzag_decode undoes zigzag_encode, for every signed number. *)
THEOREM ZigzagInverse ==
  \A v \in Int : ZigzagEncode(v) \in Nat /\ ZigzagDecode(ZigzagEncode(v)) = v
<1> TAKE v \in Int
<1>1. CASE v >= 0
  BY <1>1 DEF ZigzagEncode, ZigzagDecode
<1>2. CASE v < 0
  <2>1. ZigzagEncode(v) = -2 * v - 1 /\ ZigzagEncode(v) \in Nat
    BY <1>2 DEF ZigzagEncode
  <2>2. (-2 * v - 1) % 2 = 1 /\ (-2 * v - 1) \div 2 = -v - 1
    BY <1>2
  <2> QED
    BY <2>1, <2>2 DEF ZigzagDecode
<1> QED
  BY <1>1, <1>2

LEMMA PowerGrows ==
  ASSUME NEW w \in 1 .. 8
  PROVE  Power[w] <= Power[8]
<1>1. ASSUME NEW k \in Nat PROVE Power[k] <= Power[k + 1]
  <2>1. Power[k] \in Nat /\ Base \in Nat \ {0} /\ Power[k + 1] = Base * Power[k]
    BY PowerFacts, BaseAssumption
  <2> DEFINE p == Power[k]
  <2>2. p \in Nat
    BY <2>1
  <2> HIDE DEF p
  <2>3. p * Base >= p /\ p * Base = Base * p
    BY <2>1, <2>2, TimesGrows
  <2> QED
    BY <2>1, <2>3 DEF p
<1>2. /\ Power[1] <= Power[2] /\ Power[2] <= Power[3] /\ Power[3] <= Power[4]
      /\ Power[4] <= Power[5] /\ Power[5] <= Power[6] /\ Power[6] <= Power[7]
      /\ Power[7] <= Power[8]
  <2>1. /\ Power[1] <= Power[1 + 1] /\ Power[2] <= Power[2 + 1] /\ Power[3] <= Power[3 + 1]
        /\ Power[4] <= Power[4 + 1] /\ Power[5] <= Power[5 + 1] /\ Power[6] <= Power[6 + 1]
        /\ Power[7] <= Power[7 + 1]
    BY <1>1
  <2> QED
    BY <2>1
<1>3. \A k \in 1 .. 8 : Power[k] \in Nat
  BY PowerPositive
<1> QED
  BY <1>2, <1>3

(* Half of the values are below zero. *)
LEMMA PowerIsEven ==
  ASSUME NEW w \in Nat \ {0}
  PROVE  Power[w] \div 2 \in Nat \ {0} /\ Power[w] = 2 * (Power[w] \div 2)
<1>1. PICK k \in Nat : w = k + 1
  <2>1. w - 1 \in Nat /\ w = (w - 1) + 1
    OBVIOUS
  <2> QED
    BY <2>1
<1>2. PICK b \in Nat \ {0} : Base = 2 * b
  <2>1. Base \div 2 \in Nat \ {0} /\ Base = 2 * (Base \div 2)
    BY BaseAssumption
  <2> QED
    BY <2>1
<1>3. PICK p \in Nat \ {0} : p = Power[k]
  BY PowerPositive
<1>4. Power[w] = (2 * b) * p
  BY <1>1, <1>2, <1>3, PowerFacts
<1>5. PICK h \in Nat : h = b * p
  OBVIOUS
<1>6. (2 * b) * p = 2 * (b * p)
  OBVIOUS
<1>7. Power[w] = 2 * h /\ Power[w] # 0
  BY <1>4, <1>5, <1>6, PowerPositive
<1> QED
  BY <1>7

LEMMA SignedFits ==
  ASSUME NEW w \in Nat \ {0}, NEW v \in Signed(w)
  PROVE  /\ v \in Int
         /\ ZigzagEncode(v) \in 0 .. Power[w] - 1
         /\ WrapSigned(v, w) = v
<1>1. PICK h \in Nat \ {0} : h = Power[w] \div 2 /\ Power[w] = 2 * h
  BY PowerIsEven
<1>2. v \in - h .. h - 1
  BY <1>1 DEF Signed
<1>3. ZigzagEncode(v) \in 0 .. 2 * h - 1
  BY <1>2 DEF ZigzagEncode
<1>4. (v + h) % (2 * h) = v + h
  <2>1. v + h \in 0 .. 2 * h - 1 /\ 2 * h \in Nat \ {0}
    BY <1>2
  <2> DEFINE d == 2 * h
             n == v + h
  <2> HIDE DEF d, n
  <2>2. n % d = n
    BY <2>1, SmallerThan DEF d, n
  <2> QED
    BY <2>2 DEF d, n
<1>5. WrapSigned(v, w) = ((v + h) % (2 * h)) - h
  BY <1>1 DEF WrapSigned
<1>6. WrapSigned(v, w) = v
  BY <1>2, <1>4, <1>5
<1>7. v \in Int
  BY <1>2
<1>8. ZigzagEncode(v) \in 0 .. Power[w] - 1
  BY <1>1, <1>3
<1> QED
  BY <1>6, <1>7, <1>8

LEMMA UnsignedFits ==
  ASSUME NEW w \in Nat, NEW v \in 0 .. Power[w] - 1
  PROVE  Wrap(v, w) = v
<1>1. Power[w] \in Nat \ {0}
  BY PowerPositive
<1> QED
  BY <1>1, SmallerThan DEF Wrap

-----------------------------------------------------------------------------
(* Scalars *)

(* The values of the scalar types. *)
LEMMA ScalarCases ==
  ASSUME NEW t, NEW v, IsScalarType(t), IsScalar(t, v)
  PROVE  \/ t = Bool /\ v \in BOOLEAN
         \/ \E w \in Width : t = UInt(w) /\ v \in 0 .. Power[w] - 1
         \/ \E w \in Width : t = SInt(w) /\ v \in Signed(w)
         \/ \E w \in Width : t = Float(w) /\ v \in 0 .. Power[w] - 1
         \/ t = Str /\ v \in Seq(Byte) /\ Utf8(v) /\ Len(v) < Power[8]
         \/ t = Unit /\ v = <<>>
<1>2. ASSUME NEW w \in Width, t = UInt(w) PROVE v \in 0 .. Power[w] - 1
  BY <1>2 DEF IsScalar, UInt
<1>3. ASSUME NEW w \in Width, t = SInt(w) PROVE v \in Signed(w)
  BY <1>3 DEF IsScalar, SInt
<1>4. ASSUME NEW w \in Width, t = Float(w) PROVE v \in 0 .. Power[w] - 1
  BY <1>4 DEF IsScalar, Float
<1>5. \/ t \in {Bool, Str, Unit}
      \/ \E w \in Width : t = UInt(w)
      \/ \E w \in Width : t = SInt(w)
      \/ \E w \in Width : t = Float(w)
  BY DEF IsScalarType
<1>6. CASE t = Bool
  BY <1>6 DEF IsScalar, Bool
<1>7. CASE t = Str
  BY <1>7 DEF IsScalar, Str
<1>8. CASE t = Unit
  BY <1>8 DEF IsScalar, Unit
<1> QED
  BY <1>2, <1>3, <1>4, <1>5, <1>6, <1>7, <1>8

(* What each scalar type writes. *)
LEMMA WriteCases ==
  ASSUME NEW v, NEW e
  PROVE  /\ WriteScalar(Bool, v, e) = <<IF v THEN 1 ELSE 0>>
         /\ \A w \in Width : WriteScalar(UInt(w), v, e) = Unsigned(v, e)
         /\ \A w \in Width : WriteScalar(SInt(w), v, e) = Unsigned(ZigzagEncode(v), e)
         /\ \A w \in Width : WriteScalar(Float(w), v, e) = Put(v, w, e)
         /\ WriteScalar(Str, v, e) = Unsigned(Len(v), e) \o v
         /\ WriteScalar(Unit, v, e) = <<>>
BY DEF WriteScalar, Bool, UInt, SInt, Float, Str, Unit

LEMMA WidthsFit ==
  ASSUME NEW w \in Width
  PROVE  w \in Nat \ {0} /\ \A n \in 0 .. Power[w] - 1 : n \in Nat /\ n \in 0 .. Power[8] - 1
<1>1. w \in 1 .. 8 /\ Power[w] \in Nat /\ Power[8] \in Nat
  BY PowerPositive DEF Width
<1> QED
  BY <1>1, PowerGrows

(* Every value is written as bytes. *)
THEOREM ScalarsAreBytes ==
  \A t, v : \A e \in BOOLEAN :
    IsScalarType(t) /\ IsScalar(t, v) => WriteScalar(t, v, e) \in Seq(Byte)
<1> SUFFICES ASSUME NEW t, NEW v, NEW e \in BOOLEAN, IsScalarType(t), IsScalar(t, v)
             PROVE  WriteScalar(t, v, e) \in Seq(Byte)
  OBVIOUS
<1>1. CASE t = Bool /\ v \in BOOLEAN
  <2>1. 0 \in Byte /\ 1 \in Byte
    BY BaseAssumption DEF Byte
  <2>2. WriteScalar(t, v, e) = <<IF v THEN 1 ELSE 0>>
    BY <1>1, WriteCases, Zenon
  <2>3. <<IF v THEN 1 ELSE 0>> \in Seq(Byte)
    BY <2>1
  <2> QED
    BY <2>2, <2>3
<1>2. ASSUME NEW w \in Width, t = UInt(w), v \in 0 .. Power[w] - 1
      PROVE  WriteScalar(t, v, e) \in Seq(Byte)
  <2>1. WriteScalar(t, v, e) = Unsigned(v, e)
    BY <1>2, WriteCases, Zenon
  <2>2. v \in 0 .. Power[8] - 1
    BY <1>2, WidthsFit
  <2> QED
    BY <2>1, <2>2, NumbersAreBytes
<1>3. ASSUME NEW w \in Width, t = SInt(w), v \in Signed(w)
      PROVE  WriteScalar(t, v, e) \in Seq(Byte)
  <2>1. WriteScalar(t, v, e) = Unsigned(ZigzagEncode(v), e)
    BY <1>3, WriteCases, Zenon
  <2>2. ZigzagEncode(v) \in 0 .. Power[8] - 1
    BY <1>3, WidthsFit, SignedFits
  <2> QED
    BY <2>1, <2>2, NumbersAreBytes
<1>4. ASSUME NEW w \in Width, t = Float(w), v \in 0 .. Power[w] - 1
      PROVE  WriteScalar(t, v, e) \in Seq(Byte)
  <2>1. WriteScalar(t, v, e) = Put(v, w, e)
    BY <1>4, WriteCases, Zenon
  <2>2. v \in Nat /\ w \in Nat
    BY <1>4, WidthsFit
  <2> QED
    BY <2>1, <2>2, PutIsBytes
<1>5. CASE t = Str /\ v \in Seq(Byte) /\ Utf8(v) /\ Len(v) < Power[8]
  <2>1. Len(v) \in 0 .. Power[8] - 1
    <3>1. Len(v) \in Nat /\ Power[8] \in Nat
      BY <1>5, PowerPositive
    <3> QED
      BY <1>5, <3>1
  <2>2. Unsigned(Len(v), e) \in Seq(Byte)
    BY <2>1, NumbersAreBytes
  <2>3. WriteScalar(t, v, e) = Unsigned(Len(v), e) \o v
    BY <1>5, WriteCases, Zenon
  <2> QED
    BY <1>5, <2>2, <2>3
<1>6. CASE t = Unit /\ v = <<>>
  <2>1. WriteScalar(t, v, e) = <<>>
    BY <1>6, WriteCases, Zenon
  <2> QED
    BY <2>1
<1> QED
  BY <1>1, <1>2, <1>3, <1>4, <1>5, <1>6, ScalarCases

(* What is read for each scalar type. *)
LEMMA ReadCases ==
  ASSUME NEW in, NEW e
  PROVE  /\ ReadScalar(Bool, in, e) = ParseBool(in)
         /\ \A w \in Width : ReadScalar(UInt(w), in, e)
              = LET r == ParseUnsigned(in, e)
                IN IF r.err = "ok" THEN Ok(Wrap(r.val, w), r.rest) ELSE r
         /\ \A w \in Width : ReadScalar(SInt(w), in, e)
              = LET r == ParseUnsigned(in, e)
                IN IF r.err = "ok" THEN Ok(WrapSigned(ZigzagDecode(r.val), w), r.rest) ELSE r
         /\ \A w \in Width : ReadScalar(Float(w), in, e) = Fixed(in, 0, w, FALSE)
         /\ ReadScalar(Str, in, e) = ParseString(in, e)
         /\ ReadScalar(Unit, in, e) = Ok(<<>>, in)
BY DEF ReadScalar, Then, Bool, UInt, SInt, Float, Str, Unit

LEMMA OkFields ==
  ASSUME NEW v, NEW rest
  PROVE  Ok(v, rest).err = "ok" /\ Ok(v, rest).val = v /\ Ok(v, rest).rest = rest
BY DEF Ok

LEMMA ErrFields ==
  ASSUME NEW x
  PROVE  Err(x).err = x
BY DEF Err

(* The front of two sequences and what is behind it. *)
LEMMA Splits ==
  ASSUME NEW s \in Seq(Byte), NEW rest \in Seq(Byte)
  PROVE  Take(s \o rest, Len(s)) = s /\ Drop(s \o rest, Len(s)) = rest
BY DEF Take, Drop

(* What is written for a scalar value is read back as that value, a float  *)
(* in the one order in which it is read, and what follows it is left.      *)
THEOREM ScalarsAreRead ==
  \A t, v : \A e \in BOOLEAN, rest \in Seq(Byte) :
    IsScalarType(t) /\ IsScalar(t, v) /\ (t.kind = "float" => ~e) =>
      ReadScalar(t, WriteScalar(t, v, e) \o rest, e) = Ok(v, rest)
<1> SUFFICES ASSUME NEW t, NEW v, NEW e \in BOOLEAN, NEW rest \in Seq(Byte),
                    IsScalarType(t), IsScalar(t, v), t.kind = "float" => ~e
             PROVE  ReadScalar(t, WriteScalar(t, v, e) \o rest, e) = Ok(v, rest)
  OBVIOUS
<1> DEFINE in == WriteScalar(t, v, e) \o rest
<1>1. CASE t = Bool /\ v \in BOOLEAN
  <2> DEFINE b == IF v THEN 1 ELSE 0
  <2>1. WriteScalar(t, v, e) = <<b>>
    BY <1>1, WriteCases, Zenon
  <2>2. ReadScalar(t, in, e) = ParseBool(in)
    BY <1>1, ReadCases, Zenon
  <2>3. b \in Byte /\ (b # 0) = v
    BY <1>1, BaseAssumption DEF Byte
  <2>4. in = <<b>> \o rest
    BY <2>1
  <2> HIDE DEF b
  <2>5. <<b>> \in Seq(Byte) /\ Len(<<b>>) = 1
    BY <2>3
  <2>6. in # <<>> /\ in[1] = b
    <3> HIDE DEF in
    <3> QED
      BY <2>3, <2>4
  <2>7. Drop(in, 1) = rest
    <3>1. Drop(<<b>> \o rest, Len(<<b>>)) = rest
      BY <2>5, Splits
    <3> QED
      BY <2>4, <2>5, <3>1
  <2> HIDE DEF in
  <2>8. ParseBool(in) = Ok(v, rest)
    BY <2>3, <2>6, <2>7 DEF ParseBool
  <2> QED
    BY <2>2, <2>8 DEF in
<1>2. ASSUME NEW w \in Width, t = UInt(w), v \in 0 .. Power[w] - 1
      PROVE  ReadScalar(t, in, e) = Ok(v, rest)
  <2>1. v \in 0 .. Power[8] - 1 /\ w \in Nat
    BY <1>2, WidthsFit
  <2>2. WriteScalar(t, v, e) = Unsigned(v, e)
    BY <1>2, WriteCases, Zenon
  <2>3. ParseUnsigned(in, e) = Ok(v, rest)
    BY <2>1, <2>2, NumbersAreRead
  <2>4. Wrap(v, w) = v
    BY <1>2, <2>1, UnsignedFits
  <2>5. ReadScalar(t, in, e)
          = LET r == ParseUnsigned(in, e)
            IN IF r.err = "ok" THEN Ok(Wrap(r.val, w), r.rest) ELSE r
    <3> HIDE DEF in
    <3> QED
      BY <1>2, ReadCases, Zenon
  <2> HIDE DEF in
  <2>6. ReadScalar(t, in, e) = Ok(Wrap(v, w), rest)
    BY <2>3, <2>5, OkFields
  <2> QED
    BY <2>4, <2>6
<1>3. ASSUME NEW w \in Width, t = SInt(w), v \in Signed(w)
      PROVE  ReadScalar(t, in, e) = Ok(v, rest)
  <2>1. w \in Nat \ {0}
    BY WidthsFit
  <2> DEFINE z == ZigzagEncode(v)
  <2>2. v \in Int /\ z \in 0 .. Power[8] - 1 /\ WrapSigned(v, w) = v
    BY <1>3, <2>1, SignedFits, WidthsFit
  <2>3. ZigzagDecode(z) = v
    BY <2>2, ZigzagInverse
  <2>4. WriteScalar(t, v, e) = Unsigned(z, e)
    BY <1>3, WriteCases, Zenon
  <2> HIDE DEF z
  <2>5. ParseUnsigned(in, e) = Ok(z, rest)
    BY <2>2, <2>4, NumbersAreRead
  <2> HIDE DEF in
  <2>6. ReadScalar(t, in, e)
          = LET r == ParseUnsigned(in, e)
            IN IF r.err = "ok" THEN Ok(WrapSigned(ZigzagDecode(r.val), w), r.rest) ELSE r
    BY <1>3, ReadCases, Zenon
  <2>7. ReadScalar(t, in, e) = Ok(WrapSigned(ZigzagDecode(z), w), rest)
    BY <2>5, <2>6, OkFields
  <2> QED
    BY <2>2, <2>3, <2>7
<1>4. ASSUME NEW w \in Width, t = Float(w), v \in 0 .. Power[w] - 1
      PROVE  ReadScalar(t, in, e) = Ok(v, rest)
  <2>1. w \in Nat
    BY WidthsFit
  <2>2. WriteScalar(t, v, e) = Put(v, w, FALSE)
    <3>1. e = FALSE
      BY <1>4 DEF Float
    <3> QED
      BY <1>4, <3>1, WriteCases, Zenon
  <2>3. Fixed(in, 0, w, FALSE) = Ok(v, rest)
    <3>1. v \in Nat /\ Put(v, w, FALSE) \in Seq(Byte)
      BY <1>4, <2>1, WidthsFit, PutIsBytes
    <3>2. <<>> \o Put(v, w, FALSE) = Put(v, w, FALSE)
      BY <3>1
    <3> DEFINE none == <<>>
               le == FALSE
               zero == 0
    <3>3. none \in Seq(Byte) /\ Len(none) = zero /\ zero \in Nat /\ le \in BOOLEAN
      OBVIOUS
    <3> HIDE DEF none, le, zero
    <3>4. Fixed((none \o Put(v, w, le)) \o rest, zero, w, le) = Ok(v, rest)
      BY <1>4, <2>1, <3>3, FixedFinds
    <3> QED
      BY <2>2, <3>2, <3>4 DEF none, le, zero
  <2> HIDE DEF in
  <2>4. ReadScalar(t, in, e) = Fixed(in, 0, w, FALSE)
    BY <1>4, ReadCases, Zenon
  <2> QED
    BY <2>3, <2>4
<1>5. CASE t = Str /\ v \in Seq(Byte) /\ Utf8(v) /\ Len(v) < Power[8]
  <2> DEFINE n == Len(v)
             u == Unsigned(n, e)
  <2>1. n \in 0 .. Power[8] - 1 /\ n \in Nat
    <3>1. Len(v) \in Nat /\ Power[8] \in Nat
      BY <1>5, PowerPositive
    <3> QED
      BY <1>5, <3>1
  <2>2. WriteScalar(t, v, e) = u \o v
    BY <1>5, WriteCases, Zenon
  <2>3. v \in Seq(Byte) /\ v \o rest \in Seq(Byte)
    BY <1>5
  <2> HIDE DEF n
  <2>4. u \in Seq(Byte) /\ ParseUnsigned(u \o (v \o rest), e) = Ok(n, v \o rest)
    BY <2>1, <2>3, NumbersAreBytes, NumbersAreRead
  <2> HIDE DEF u
  <2>5. in = u \o (v \o rest)
    BY <2>2, <2>3, <2>4
  <2> DEFINE back == v \o rest
  <2>6. Take(back, n) = v /\ Drop(back, n) = rest /\ ~(Len(back) < n)
    <3>1. Len(back) = Len(v) + Len(rest) /\ Len(rest) \in Nat /\ Len(v) \in Nat
      BY <2>3
    <3>2. Take(back, Len(v)) = v /\ Drop(back, Len(v)) = rest
      BY <2>3, Splits
    <3> HIDE DEF back
    <3> QED
      BY <3>1, <3>2 DEF n
  <2>7. ParseUnsigned(in, e) = Ok(n, back)
    BY <2>4, <2>5
  <2> HIDE DEF in, back
  <2>8. ParseBytes(in, e) = Ok(v, rest)
    BY <2>6, <2>7, OkFields DEF ParseBytes
  <2>9. ParseString(in, e) = Ok(v, rest)
    BY <1>5, <2>8, OkFields DEF ParseString
  <2>10. ReadScalar(t, in, e) = ParseString(in, e)
    BY <1>5, ReadCases, Zenon
  <2> QED
    BY <2>9, <2>10 DEF in
<1>6. CASE t = Unit /\ v = <<>>
  <2>1. WriteScalar(t, v, e) = <<>>
    BY <1>6, WriteCases, Zenon
  <2>2. in = rest
    BY <2>1
  <2> HIDE DEF in
  <2>3. ReadScalar(t, in, e) = Ok(<<>>, in)
    BY <1>6, ReadCases, Zenon
  <2> QED
    BY <1>6, <2>2, <2>3 DEF in
<1> QED
  BY <1>1, <1>2, <1>3, <1>4, <1>5, <1>6, ScalarCases

(* The first bytes of two sequences. *)
LEMMA TakeOfBoth ==
  ASSUME NEW u \in Seq(Byte), NEW v \in Seq(Byte), NEW k \in 0 .. Len(u) + Len(v)
  PROVE  /\ k < Len(u) => Take(u \o v, k) = Take(u, k)
         /\ k >= Len(u) => \E rest \in Seq(Byte) :
              Take(u \o v, k) = u \o rest /\ Len(rest) = k - Len(u)
<1> DEFINE both == u \o v
<1>1. both \in Seq(Byte) /\ Len(both) = Len(u) + Len(v) /\ Len(u) \in Nat /\ Len(v) \in Nat
  OBVIOUS
<1>2. Take(both, k) \in Seq(Byte) /\ Len(Take(both, k)) = k
      /\ \A i \in 1 .. k : Take(both, k)[i] = both[i]
  <2> HIDE DEF both
  <2> QED
    BY <1>1, TakeIs
<1>3. \A i \in 1 .. Len(u) : both[i] = u[i]
  OBVIOUS
<1>4. \A i \in 1 .. Len(v) : both[Len(u) + i] = v[i]
  OBVIOUS
<1>5. ASSUME k < Len(u) PROVE Take(both, k) = Take(u, k)
  <2>1. k \in 0 .. Len(u)
    BY <1>5
  <2>2. Take(u, k) \in Seq(Byte) /\ Len(Take(u, k)) = k /\ \A i \in 1 .. k : Take(u, k)[i] = u[i]
    BY <2>1, TakeIs
  <2>3. \A i \in 1 .. k : both[i] = u[i]
    BY <1>1, <1>3, <2>1
  <2> HIDE DEF both
  <2> QED
    BY <1>2, <2>2, <2>3, SeqEqual
<1>6. ASSUME k >= Len(u)
      PROVE  \E rest \in Seq(Byte) : Take(both, k) = u \o rest /\ Len(rest) = k - Len(u)
  <2> DEFINE m == k - Len(u)
             rest == Take(v, m)
             all == u \o rest
  <2>1. m \in 0 .. Len(v) /\ Len(u) + m = k
    BY <1>1, <1>6
  <2> HIDE DEF m
  <2>2. rest \in Seq(Byte) /\ Len(rest) = m /\ \A i \in 1 .. m : rest[i] = v[i]
    BY <2>1, TakeIs
  <2> HIDE DEF rest
  <2>3. all \in Seq(Byte) /\ Len(all) = k /\ \A i \in 1 .. Len(u) : all[i] = u[i]
    <3>1. all \in Seq(Byte) /\ Len(all) = Len(u) + m /\ \A i \in 1 .. Len(u) : all[i] = u[i]
      BY <2>2, Joined
    <3> QED
      BY <2>1, <3>1
  <2>4. \A i \in 1 .. m : all[Len(u) + i] = rest[i]
    BY <2>2, Joined
  <2> HIDE DEF both, all
  <2>5. ASSUME NEW i \in 1 .. k PROVE Take(both, k)[i] = all[i]
    <3>1. CASE i <= Len(u)
      <4>1. i \in 1 .. Len(u)
        BY <1>1, <3>1
      <4> QED
        BY <4>1, <1>2, <1>3, <2>3
    <3>2. CASE ~(i <= Len(u))
      <4>1. PICK j \in 1 .. m : i = Len(u) + j
        <5>1. i - Len(u) \in 1 .. m /\ i = Len(u) + (i - Len(u))
          BY <1>1, <2>1, <3>2
        <5> QED
          BY <5>1
      <4>2. j \in 1 .. Len(v)
        BY <1>1, <2>1
      <4> QED
        BY <1>2, <1>4, <2>2, <2>4, <4>1, <4>2
    <3> QED
      BY <3>1, <3>2
  <2>6. Take(both, k) = all
    BY <1>2, <2>3, <2>5, SeqEqual
  <2> QED
    BY <2>2, <2>6 DEF all, m
<1> QED
  BY <1>5, <1>6

(* What is cut short is refused for that reason: it is never read as       *)
(* another value.                                                          *)
THEOREM CutScalarsAreNoticed ==
  \A t, v : \A e \in BOOLEAN : \A k \in 0 .. Len(WriteScalar(t, v, e)) - 1 :
    IsScalarType(t) /\ IsScalar(t, v) =>
      ReadScalar(t, Take(WriteScalar(t, v, e), k), e) = Err("eof")
<1> SUFFICES ASSUME NEW t, NEW v, NEW e \in BOOLEAN,
                    NEW k \in 0 .. Len(WriteScalar(t, v, e)) - 1,
                    IsScalarType(t), IsScalar(t, v)
             PROVE  ReadScalar(t, Take(WriteScalar(t, v, e), k), e) = Err("eof")
  OBVIOUS
<1> DEFINE s == WriteScalar(t, v, e)
           in == Take(s, k)
<1>0. s \in Seq(Byte) /\ k \in 0 .. Len(s) - 1
  BY ScalarsAreBytes
<1> HIDE DEF s
<1>a. Len(s) \in Nat /\ k \in 0 .. Len(s) /\ k < Len(s)
  BY <1>0
<1>b. in \in Seq(Byte) /\ Len(in) = k
  BY <1>0, <1>a, TakeIs
<1>c. in = <<>> <=> k = 0
  <2> HIDE DEF in
  <2> QED
    BY <1>b, EmptySeq
<1>d. ASSUME NEW n \in 0 .. Power[8] - 1, s = Unsigned(n, e)
      PROVE  ParseUnsigned(in, e) = Err("eof")
  BY <1>d, <1>0, CutNumbersAreNoticed
<1>e. Err("eof").err = "eof"
  BY ErrFields
<1>f. SUFFICES ReadScalar(t, in, e) = Err("eof")
  BY DEF in, s
<1>1. CASE t = Bool /\ v \in BOOLEAN
  <2> DEFINE b == IF v THEN 1 ELSE 0
  <2>1. s = <<b>>
    BY <1>1, WriteCases, Zenon DEF s
  <2> HIDE DEF b
  <2>2. k = 0
    BY <1>a, <2>1
  <2> HIDE DEF in
  <2>3. ReadScalar(t, in, e) = ParseBool(in)
    BY <1>1, ReadCases, Zenon
  <2> QED
    BY <1>c, <2>2, <2>3 DEF ParseBool
<1>2. ASSUME NEW w \in Width, t = UInt(w), v \in 0 .. Power[w] - 1
      PROVE  ReadScalar(t, in, e) = Err("eof")
  <2>1. v \in 0 .. Power[8] - 1
    BY <1>2, WidthsFit
  <2>2. s = Unsigned(v, e)
    BY <1>2, WriteCases, Zenon DEF s
  <2>3. ParseUnsigned(in, e) = Err("eof")
    BY <1>d, <2>1, <2>2
  <2> HIDE DEF in
  <2>4. ReadScalar(t, in, e)
          = LET r == ParseUnsigned(in, e)
            IN IF r.err = "ok" THEN Ok(Wrap(r.val, w), r.rest) ELSE r
    BY <1>2, ReadCases, Zenon
  <2> QED
    BY <1>e, <2>3, <2>4
<1>3. ASSUME NEW w \in Width, t = SInt(w), v \in Signed(w)
      PROVE  ReadScalar(t, in, e) = Err("eof")
  <2> DEFINE z == ZigzagEncode(v)
  <2>1. z \in 0 .. Power[8] - 1
    BY <1>3, WidthsFit, SignedFits
  <2>2. s = Unsigned(z, e)
    BY <1>3, WriteCases, Zenon DEF s
  <2>3. ParseUnsigned(in, e) = Err("eof")
    BY <1>d, <2>1, <2>2
  <2> HIDE DEF in
  <2>4. ReadScalar(t, in, e)
          = LET r == ParseUnsigned(in, e)
            IN IF r.err = "ok" THEN Ok(WrapSigned(ZigzagDecode(r.val), w), r.rest) ELSE r
    BY <1>3, ReadCases, Zenon
  <2> QED
    BY <1>e, <2>3, <2>4
<1>4. ASSUME NEW w \in Width, t = Float(w), v \in 0 .. Power[w] - 1
      PROVE  ReadScalar(t, in, e) = Err("eof")
  <2>1. v \in Nat /\ w \in Nat
    BY <1>4, WidthsFit
  <2>2. s = Put(v, w, e)
    BY <1>4, WriteCases, Zenon DEF s
  <2>3. Len(in) < 0 + w
    BY <1>a, <1>b, <2>1, <2>2, PutIsBytes
  <2> HIDE DEF in
  <2>4. ReadScalar(t, in, e) = Fixed(in, 0, w, FALSE)
    BY <1>4, ReadCases, Zenon
  <2> QED
    BY <2>3, <2>4 DEF Fixed
<1>5. CASE t = Str /\ v \in Seq(Byte) /\ Utf8(v) /\ Len(v) < Power[8]
  <2> DEFINE n == Len(v)
             u == Unsigned(n, e)
  <2>1. n \in 0 .. Power[8] - 1 /\ n \in Nat
    <3>1. Len(v) \in Nat /\ Power[8] \in Nat
      BY <1>5, PowerPositive
    <3> QED
      BY <1>5, <3>1
  <2>2. s = u \o v
    BY <1>5, WriteCases, Zenon DEF s
  <2>3. u \in Seq(Byte) /\ v \in Seq(Byte)
    BY <1>5, <2>1, NumbersAreBytes
  <2>4. Len(u) \in Nat /\ k \in 0 .. Len(u) + Len(v) /\ k < Len(u) + Len(v)
    <3> HIDE DEF u, n
    <3>1. Len(s) = Len(u) + Len(v)
      BY <2>2, <2>3
    <3> QED
      BY <1>a, <2>3, <3>1
  <2>5. ASSUME k < Len(u) PROVE ParseString(in, e) = Err("eof")
    <3>1. in = Take(u, k)
      <4> HIDE DEF u
      <4> QED
        BY <2>2, <2>3, <2>4, <2>5, TakeOfBoth
    <3>2. k \in 0 .. Len(u) - 1
      <4> HIDE DEF u
      <4> QED
        BY <2>4, <2>5
    <3> HIDE DEF in, n
    <3>3. ParseUnsigned(in, e) = Err("eof")
      BY <2>1, <3>1, <3>2, CutNumbersAreNoticed
    <3>4. ParseBytes(in, e) = Err("eof")
      BY <1>e, <3>3 DEF ParseBytes
    <3> QED
      BY <1>e, <3>4 DEF ParseString
  <2>6. ASSUME k >= Len(u) PROVE ParseString(in, e) = Err("eof")
    <3>1. PICK rest \in Seq(Byte) : in = u \o rest /\ Len(rest) = k - Len(u)
      <4> HIDE DEF u, n
      <4> QED
        BY <2>2, <2>3, <2>4, <2>6, TakeOfBoth
    <3>2. Len(rest) < n
      <4> HIDE DEF u
      <4> QED
        BY <2>1, <2>4, <2>6, <3>1
    <3> HIDE DEF in, n
    <3>3. ParseUnsigned(in, e) = Ok(n, rest)
      BY <2>1, <3>1, NumbersAreRead
    <3>4. ParseBytes(in, e) = Err("eof")
      BY <3>2, <3>3, OkFields DEF ParseBytes
    <3> QED
      BY <1>e, <3>4 DEF ParseString
  <2>7. ParseString(in, e) = Err("eof")
    <3> HIDE DEF in, u
    <3> QED
      BY <2>4, <2>5, <2>6
  <2> HIDE DEF in
  <2>8. ReadScalar(t, in, e) = ParseString(in, e)
    BY <1>5, ReadCases, Zenon
  <2> QED
    BY <2>7, <2>8
<1>6. CASE t = Unit /\ v = <<>>
  <2>1. s = <<>>
    BY <1>6, WriteCases, Zenon DEF s
  <2> QED
    BY <1>a, <2>1
<1> HIDE DEF in
<1> QED
  BY <1>1, <1>2, <1>3, <1>4, <1>5, <1>6, ScalarCases

=============================================================================
