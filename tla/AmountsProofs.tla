--------------------------- MODULE AmountsProofs ----------------------------
(* Proofs about Amounts, for every text and every number of decimals.    *)
EXTENDS Amounts, WellFoundedInduction, TLAPS

(* The least-number principle.                                           *)
NatOrder == OpToRel(<, Nat)

(* The order of the naturals is "less than".                             *)
LEMMA NatOrderIsLess ==
  ASSUME NEW a \in Nat, NEW b \in Nat, a < b
  PROVE  <<a, b>> \in NatOrder
BY DEF NatOrder, OpToRel

(* It is well founded.                                                   *)
LEMMA NatOrderWellFounded == IsWellFoundedOn(NatOrder, Nat)
BY NatLessThanWellFounded DEF NatOrder

(* Every nonempty set of naturals has a least element.                   *)
LEMMA Least ==
  ASSUME NEW T, T \subseteq Nat, T # {}
  PROVE  \E m \in T : \A n \in T : m <= n
<1>1. \E x \in T : \A y \in T : ~ (<<y, x>> \in NatOrder)
  BY NatOrderWellFounded, WFMin
<1>2. PICK x \in T : \A y \in T : ~ (<<y, x>> \in NatOrder)
  BY <1>1
<1>3. ASSUME NEW y \in T PROVE x <= y
  <2>1. x \in Nat /\ y \in Nat
    OBVIOUS
  <2>2. ~(y < x)
    BY <1>2, <2>1, NatOrderIsLess
  <2> QED
    BY <2>1, <2>2
<1> QED
  BY <1>3

(* Induction over a set of naturals.                                     *)
LEMMA Induction ==
  ASSUME NEW T, T \subseteq Nat, 0 \in T, \A n \in T : n + 1 \in T
  PROVE  \A n \in Nat : n \in T
<1> SUFFICES ASSUME NEW n \in Nat, n \notin T PROVE FALSE
  OBVIOUS
<1> DEFINE U == Nat \ T
<1>1. U \subseteq Nat /\ U # {}
  OBVIOUS
<1> HIDE DEF U
<1>2. PICK m \in U : \A k \in U : m <= k
  BY <1>1, Least
<1>3. m \in Nat /\ m \notin T /\ m # 0
  BY <1>2 DEF U
<1>4. m - 1 \in Nat
  BY <1>3
<1>5. m - 1 \notin U
  <2>1. ~(m <= m - 1)
    BY <1>3
  <2> QED
    BY <1>2, <2>1
<1>6. m - 1 \in T
  BY <1>4, <1>5 DEF U
<1>7. (m - 1) + 1 \in T
  BY <1>6
<1> QED
  BY <1>3, <1>7

-----------------------------------------------------------------------------
(* The powers of ten.                                                    *)
Powers(g, n) == g = [i \in 0..n |-> IF i = 0 THEN 1 ELSE 10 * g[i - 1]]

(* What such a table says of each power.                                 *)
LEMMA PowersAt ==
  ASSUME NEW n \in Nat, NEW g, Powers(g, n)
  PROVE  /\ g[0] = 1
         /\ \A i \in 0..n : i # 0 => g[i] = 10 * g[i - 1]
<1>1. g = [i \in 0..n |-> IF i = 0 THEN 1 ELSE 10 * g[i - 1]]
  BY DEF Powers
<1>2. \A i \in 0..n : g[i] = IF i = 0 THEN 1 ELSE 10 * g[i - 1]
  BY <1>1
<1>3. 0 \in 0..n
  OBVIOUS
<1> QED
  BY <1>2, <1>3

(* There is a table up to every n.                                       *)
LEMMA PowersExist == \A n \in Nat : \E g : Powers(g, n)
<1> DEFINE T == {n \in Nat : \E g : Powers(g, n)}
<1>1. 0 \in T
  <2> DEFINE g == [i \in 0..0 |-> 1]
  <2>1. Powers(g, 0)
    BY DEF Powers
  <2> QED
    BY <2>1
<1>2. ASSUME NEW n \in T PROVE n + 1 \in T
  <2>1. n \in Nat
    OBVIOUS
  <2>2. PICK g : Powers(g, n)
    OBVIOUS
  <2> DEFINE h == [i \in 0..(n + 1) |-> IF i = n + 1 THEN 10 * g[n] ELSE g[i]]
  <2>3. ASSUME NEW i \in 0..(n + 1)
        PROVE  h[i] = IF i = 0 THEN 1 ELSE 10 * h[i - 1]
    <3>1. CASE i = 0
      <4>1. i # n + 1
        BY <2>1, <3>1
      <4> QED
        BY <2>1, <2>2, <3>1, <4>1, PowersAt
    <3>2. CASE i # 0 /\ i # n + 1
      <4>1. i \in 0..n /\ i - 1 \in 0..(n + 1) /\ i - 1 # n + 1
        BY <2>1, <3>2
      <4> QED
        BY <2>1, <2>2, <3>2, <4>1, PowersAt
    <3>3. CASE i = n + 1
      <4>1. i # 0 /\ n \in 0..(n + 1) /\ n # n + 1 /\ i - 1 = n
        BY <2>1, <3>3
      <4> QED
        BY <3>3, <4>1
    <3> QED
      BY <3>1, <3>2, <3>3
  <2>4. h = [i \in 0..(n + 1) |-> h[i]]
    OBVIOUS
  <2> HIDE DEF h
  <2>5. h = [i \in 0..(n + 1) |-> IF i = 0 THEN 1 ELSE 10 * h[i - 1]]
    BY <2>3, <2>4
  <2>6. Powers(h, n + 1)
    BY <2>5 DEF Powers
  <2> QED
    BY <2>1, <2>6
<1> HIDE DEF T
<1>3. \A n \in Nat : n \in T
  <2>1. T \subseteq Nat
    BY DEF T
  <2> QED
    BY <1>1, <1>2, <2>1, Induction
<1> QED
  BY <1>3 DEF T

(* Two tables agree as far as both go.                                   *)
LEMMA PowersUnique ==
  ASSUME NEW m \in Nat, NEW n \in Nat, NEW g, NEW h, Powers(g, m), Powers(h, n)
  PROVE  \A i \in Nat : i <= m /\ i <= n => g[i] = h[i]
<1> DEFINE T == {i \in Nat : i <= m /\ i <= n => g[i] = h[i]}
<1>1. 0 \in T
  BY PowersAt
<1>2. ASSUME NEW i \in T PROVE i + 1 \in T
  <2> SUFFICES ASSUME i + 1 <= m, i + 1 <= n PROVE g[i + 1] = h[i + 1]
    OBVIOUS
  <2>1. i \in Nat /\ i <= m /\ i <= n
    OBVIOUS
  <2>2. i + 1 \in 0..m /\ i + 1 \in 0..n /\ i + 1 # 0 /\ (i + 1) - 1 = i
    BY <2>1
  <2>3. g[i + 1] = 10 * g[i] /\ h[i + 1] = 10 * h[i]
    BY <2>2, PowersAt
  <2> QED
    BY <2>1, <2>3
<1> HIDE DEF T
<1>3. \A i \in Nat : i \in T
  <2>1. T \subseteq Nat
    BY DEF T
  <2> QED
    BY <1>1, <1>2, <2>1, Induction
<1> QED
  BY <1>3 DEF T

(* The powers of ten obey their definition.                              *)
LEMMA Pow10Def == Pow10 = [n \in Nat |-> IF n = 0 THEN 1 ELSE 10 * Pow10[n - 1]]
<1> DEFINE G(n) == CHOOSE g : Powers(g, n)
           F == [n \in Nat |-> G(n)[n]]
<1>1. \A n \in Nat : Powers(G(n), n)
  BY PowersExist
<1> HIDE DEF G
<1>2. ASSUME NEW n \in Nat PROVE F[n] = IF n = 0 THEN 1 ELSE 10 * F[n - 1]
  <2>1. CASE n = 0
    BY <1>1, <2>1, PowersAt
  <2>2. CASE n # 0
    <3>1. n - 1 \in Nat /\ n - 1 <= n - 1 /\ n - 1 <= n /\ n \in 0..n
      BY <2>2
    <3>2. G(n)[n] = 10 * G(n)[n - 1]
      BY <1>1, <2>2, <3>1, PowersAt
    <3>3. G(n)[n - 1] = G(n - 1)[n - 1]
      BY <1>1, <3>1, PowersUnique
    <3> QED
      BY <2>2, <3>1, <3>2, <3>3
  <2> QED
    BY <2>1, <2>2
<1>3. F = [n \in Nat |-> F[n]]
  OBVIOUS
<1> HIDE DEF F
<1>4. F = [n \in Nat |-> IF n = 0 THEN 1 ELSE 10 * F[n - 1]]
  BY <1>2, <1>3
<1>5. \E f : f = [n \in Nat |-> IF n = 0 THEN 1 ELSE 10 * f[n - 1]]
  BY <1>4
<1> QED
  BY <1>5 DEF Pow10

(* The first power of ten, and each next one.                            *)
LEMMA Pow10Step ==
  /\ Pow10[0] = 1
  /\ \A n \in Nat : Pow10[n + 1] = 10 * Pow10[n]
<1>1. \A n \in Nat : Pow10[n] = IF n = 0 THEN 1 ELSE 10 * Pow10[n - 1]
  BY Pow10Def
<1>2. ASSUME NEW n \in Nat PROVE Pow10[n + 1] = 10 * Pow10[n]
  <2>1. n + 1 \in Nat /\ n + 1 # 0 /\ (n + 1) - 1 = n
    OBVIOUS
  <2> QED
    BY <1>1, <2>1
<1> QED
  BY <1>1, <1>2

(* Powers of ten are positive naturals.                                  *)
LEMMA Pow10Type == \A n \in Nat : Pow10[n] \in Nat \ {0}
<1> DEFINE T == {n \in Nat : Pow10[n] \in Nat \ {0}}
<1>1. 0 \in T
  BY Pow10Step
<1>2. ASSUME NEW n \in T PROVE n + 1 \in T
  BY Pow10Step
<1> HIDE DEF T
<1>3. \A n \in Nat : n \in T
  <2>1. T \subseteq Nat
    BY DEF T
  <2> QED
    BY <1>1, <1>2, <2>1, Induction
<1> QED
  BY <1>3 DEF T

(* The power of a sum is the product of the powers.                      *)
LEMMA Pow10Add ==
  ASSUME NEW m \in Nat
  PROVE  \A n \in Nat : Pow10[m + n] = Pow10[m] * Pow10[n]
<1> DEFINE T == {n \in Nat : Pow10[m + n] = Pow10[m] * Pow10[n]}
<1>1. 0 \in T
  <2>1. Pow10[m] \in Nat /\ m + 0 = m
    BY Pow10Type
  <2> QED
    BY <2>1, Pow10Step
<1>2. ASSUME NEW n \in T PROVE n + 1 \in T
  <2>1. /\ n \in Nat /\ m + n \in Nat /\ m + (n + 1) = (m + n) + 1
        /\ Pow10[m] \in Nat /\ Pow10[n] \in Nat /\ Pow10[m + n] \in Nat
    BY Pow10Type
  <2>2. Pow10[m + (n + 1)] = 10 * Pow10[m + n] /\ Pow10[n + 1] = 10 * Pow10[n]
    BY <2>1, Pow10Step
  <2>3. Pow10[m + n] = Pow10[m] * Pow10[n]
    OBVIOUS
  <2>4. \A a, b, c \in Nat : c = a * b => 10 * c = a * (10 * b)
    OBVIOUS
  <2>5. Pow10[m + (n + 1)] = Pow10[m] * Pow10[n + 1]
    BY <2>1, <2>2, <2>3, <2>4
  <2> QED
    BY <2>1, <2>5
<1> HIDE DEF T
<1>3. \A n \in Nat : n \in T
  <2>1. T \subseteq Nat
    BY DEF T
  <2> QED
    BY <1>1, <1>2, <2>1, Induction
<1> QED
  BY <1>3 DEF T

-----------------------------------------------------------------------------
(* Quotient and remainder.                                               *)
LEMMA DivMod ==
  ASSUME NEW n \in Nat, NEW q \in Nat \ {0}
  PROVE  n \div q \in Nat /\ n % q \in 0..(q - 1) /\ n = (n \div q) * q + (n % q)
OBVIOUS

(* Products compare as their other factors do.                           *)
LEMMA Scale ==
  ASSUME NEW a \in Nat, NEW b \in Nat, NEW k \in Nat \ {0}
  PROVE  (a * k <= b * k <=> a <= b) /\ (a * k < b * k <=> a < b)
<1>1. \A x, y \in Nat : x <= y => x * k <= y * k
  <2> SUFFICES ASSUME NEW x \in Nat, NEW y \in Nat, x <= y PROVE x * k <= y * k
    OBVIOUS
  <2> DEFINE d == y - x
  <2>1. d \in Nat /\ y = x + d
    OBVIOUS
  <2> HIDE DEF d
  <2>2. y * k = x * k + d * k /\ x * k \in Nat /\ d * k \in Nat
    BY <2>1
  <2> QED
    BY <2>2
<1>2. \A x, y \in Nat : x < y => x * k < y * k
  <2> SUFFICES ASSUME NEW x \in Nat, NEW y \in Nat, x < y PROVE x * k < y * k
    OBVIOUS
  <2>1. (x + 1) * k <= y * k
    BY <1>1
  <2>2. (x + 1) * k = x * k + k /\ x * k \in Nat /\ y * k \in Nat
    OBVIOUS
  <2> QED
    BY <2>1, <2>2
<1>3. a * k \in Nat /\ b * k \in Nat
  OBVIOUS
<1>4. (a <= b => a * k <= b * k) /\ (b <= a => b * k <= a * k)
  BY <1>1
<1>5. (a < b => a * k < b * k) /\ (b < a => b * k < a * k)
  BY <1>2
<1> QED
  BY <1>3, <1>4, <1>5

(* parsePrice turns every text into the largest amount that is not above *)
(* what the text says, for every number of decimals: a fraction is padded,*)
(* and what is finer than the token is cut, never rounded up.            *)
THEOREM ParseIsFloor ==
  ASSUME NEW text \in Text, NEW decimals \in Nat, NEW n \in Nat
  PROVE  AtMost(n, text, decimals) <=> n <= ParsePrice(text, decimals)
<1> DEFINE w == text.whole
           d == text.digits
           P == Pow10[text.places]
           D == Pow10[decimals]
<1>1. w \in Nat /\ d \in Nat /\ text.places \in Nat
  BY DEF Text
<1>2. P \in Nat \ {0} /\ D \in Nat \ {0}
  BY <1>1, Pow10Type
<1>3. CASE text.places <= decimals
  <2> DEFINE Q == Pow10[decimals - text.places]
             x == w * D + d * Q
  <2>1. decimals - text.places \in Nat
    BY <1>1, <1>3
  <2>2. Q \in Nat
    BY <2>1, Pow10Type
  <2>3. D = P * Q
    <3>1. text.places + (decimals - text.places) = decimals
      BY <1>1
    <3> QED
      BY <1>1, <2>1, <3>1, Pow10Add
  <2>4. ParsePrice(text, decimals) = x
    BY <1>3 DEF ParsePrice, FractionalPart
  <2> HIDE DEF w, d, P, D, Q
  <2>5. (w * P + d) * D = x * P
    <3>1. (w * P + d) * (P * Q) = (w * (P * Q) + d * Q) * P
      BY <1>1, <1>2, <2>2
    <3> QED
      BY <2>3, <3>1
  <2>6. x \in Nat
    BY <1>1, <1>2, <2>2
  <2> HIDE DEF x
  <2>7. n * P <= x * P <=> n <= x
    BY <1>2, <2>6, Scale
  <2> QED
    BY <2>4, <2>5, <2>7 DEF AtMost, w, d, P, D
<1>4. CASE ~(text.places <= decimals)
  <2> DEFINE k == Pow10[text.places - decimals]
             q == d \div k
             x == w * D + q
  <2>1. text.places - decimals \in Nat
    BY <1>1, <1>4
  <2>2. k \in Nat \ {0}
    BY <2>1, Pow10Type
  <2>3. P = D * k
    <3>1. decimals + (text.places - decimals) = text.places
      BY <1>1
    <3> QED
      BY <2>1, <3>1, Pow10Add
  <2>4. ParsePrice(text, decimals) = x
    BY <1>4 DEF ParsePrice, FractionalPart
  <2>5. q \in Nat /\ q * k <= d /\ d < (q + 1) * k
    <3> DEFINE r == d % k
    <3>1. q \in Nat /\ r \in 0..(k - 1) /\ d = q * k + r
      BY <1>1, <2>2, DivMod
    <3> HIDE DEF q, r, k, d
    <3>2. (q + 1) * k = q * k + k /\ q * k \in Nat
      BY <2>2, <3>1
    <3> QED
      BY <2>2, <3>1, <3>2
  <2> HIDE DEF w, d, P, D, k, q
  <2>6. x \in Nat
    BY <1>1, <1>2, <2>5
  <2> DEFINE y == w * (D * k) + d
  <2>7. y \in Nat /\ n * k \in Nat
    BY <1>1, <1>2, <2>2
  <2>8. x * k <= y /\ y < (x + 1) * k
    <3>1. x * k = w * (D * k) + q * k /\ (x + 1) * k = w * (D * k) + (q + 1) * k
      BY <1>1, <1>2, <2>2, <2>5
    <3>2. w * (D * k) \in Nat /\ q * k \in Nat /\ (q + 1) * k \in Nat
      BY <1>1, <1>2, <2>2, <2>5
    <3> QED
      BY <1>1, <2>5, <3>1, <3>2
  <2> HIDE DEF x, y
  <2>9. n * k <= y <=> n <= x
    <3>1. n * k <= x * k <=> n <= x
      BY <2>2, <2>6, Scale
    <3>2. n * k < (x + 1) * k <=> n < x + 1
      BY <2>2, <2>6, Scale
    <3>3. x * k \in Nat /\ (x + 1) * k \in Nat
      BY <2>2, <2>6
    <3> QED
      BY <2>6, <2>7, <2>8, <3>1, <3>2, <3>3
  <2>10. n * P <= (w * P + d) * D <=> n * k <= y
    <3>1. n * P = (n * k) * D /\ (w * P + d) * D = y * D
      <4>1. n * (D * k) = (n * k) * D
        BY <1>2, <2>2
      <4> QED
        BY <2>3, <4>1 DEF y
    <3>2. (n * k) * D <= y * D <=> n * k <= y
      BY <1>2, <2>7, Scale
    <3> QED
      BY <3>1, <3>2
  <2> QED
    BY <2>4, <2>9, <2>10 DEF AtMost, w, d, P, D
<1> QED
  BY <1>3, <1>4

(* What is shown, typed as a limit, is read as the same amount.          *)
LEMMA TrimPlaces ==
  ASSUME NEW text \in Text
  PROVE  LET places == Min({k \in 0..text.places : text.digits % Pow10[text.places - k] = 0})
         IN  places \in 0..text.places /\ text.digits % Pow10[text.places - places] = 0
             /\ (text.digits = 0 => places = 0)
<1> DEFINE K == {k \in 0..text.places : text.digits % Pow10[text.places - k] = 0}
<1>1. text.places \in Nat /\ text.digits \in Nat
  BY DEF Text
<1>2. text.places \in K
  <2>1. text.places - text.places = 0 /\ text.places \in 0..text.places
    BY <1>1
  <2>2. text.digits % 1 = 0
    BY <1>1
  <2> QED
    BY <2>1, <2>2, Pow10Step
<1>3. text.digits = 0 => 0 \in K
  <2>1. 0 \in 0..text.places /\ text.places - 0 = text.places
    BY <1>1
  <2>2. \A a \in Nat \ {0} : 0 % a = 0
    OBVIOUS
  <2> QED
    BY <1>1, <2>1, <2>2, Pow10Type
<1>4. K \subseteq Nat /\ K \subseteq 0..text.places
  BY <1>1
<1> HIDE DEF K
<1>5. \E x \in K : \A y \in K : x <= y
  BY <1>2, <1>4, Least
<1>6. Min(K) \in K /\ \A y \in K : Min(K) <= y
  BY <1>5 DEF Min
<1>7. text.digits = 0 => Min(K) = 0
  <2>1. Min(K) \in Nat /\ (0 \in K => Min(K) <= 0)
    BY <1>4, <1>6
  <2> QED
    BY <1>3, <2>1
<1> QED
  BY <1>6, <1>7 DEF K

(* What formatAmount writes: a text whose digits stand for the amount.   *)
LEMMA FormatFields ==
  ASSUME NEW n \in Nat, NEW decimals \in Nat
  PROVE  LET text == FormatAmount(n, decimals)
         IN  /\ text \in Text
             /\ text.places = IF decimals = 0 THEN 1 ELSE decimals
             /\ text.whole * Pow10[decimals] + text.digits = n
             /\ decimals = 0 => text.digits = 0
<1> DEFINE P == Pow10[decimals]
<1>1. P \in Nat \ {0}
  BY Pow10Type
<1>2. /\ n \div P \in Nat /\ n % P \in 0..(P - 1) /\ n = (n \div P) * P + (n % P)
  <2> HIDE DEF P
  <2> QED
    BY <1>1, DivMod
<1>3. Max({1, decimals}) = IF decimals = 0 THEN 1 ELSE decimals
  <2> DEFINE m == IF decimals = 0 THEN 1 ELSE decimals
  <2>1. m \in {1, decimals} /\ \A y \in {1, decimals} : m >= y
    OBVIOUS
  <2>2. \A x \in {1, decimals} : (\A y \in {1, decimals} : x >= y) => x = m
    OBVIOUS
  <2> HIDE DEF m
  <2>3. Max({1, decimals}) = m
    BY <2>1, <2>2 DEF Max
  <2> QED
    BY <2>3 DEF m
<1>4. /\ FormatAmount(n, decimals).whole = n \div P
      /\ FormatAmount(n, decimals).digits = n % P
      /\ FormatAmount(n, decimals).places = IF decimals = 0 THEN 1 ELSE decimals
  BY <1>3 DEF FormatAmount
<1>5. FormatAmount(n, decimals) \in Text
  <2>1. /\ n \div P \in Nat /\ n % P \in Nat
        /\ (IF decimals = 0 THEN 1 ELSE decimals) \in Nat
    BY <1>1, <1>2
  <2> HIDE DEF P
  <2> QED
    BY <1>3, <2>1 DEF FormatAmount, Text, P
<1>6. decimals = 0 => n % P = 0
  <2>1. decimals = 0 => P = 1
    BY Pow10Step
  <2> QED
    BY <1>2, <2>1
<1> QED
  BY <1>2, <1>4, <1>5, <1>6

(* A price that is shown reads back as exactly that price.               *)
THEOREM ShownIsExact ==
  ASSUME NEW n \in Nat, NEW decimals \in Nat
  PROVE  LET shown == FormatTokenAmount(n, decimals)
         IN  ~TooFine(shown, decimals) /\ ParseAmount(shown, decimals) = n
<1> DEFINE text == FormatAmount(n, decimals)
           places == Min({k \in 0..text.places : text.digits % Pow10[text.places - k] = 0})
           Q == Pow10[text.places - places]
           shown == FormatTokenAmount(n, decimals)
<1>1. /\ text \in Text
      /\ text.places = IF decimals = 0 THEN 1 ELSE decimals
      /\ text.whole * Pow10[decimals] + text.digits = n
      /\ decimals = 0 => text.digits = 0
  BY FormatFields
<1> HIDE DEF text
<1>2. /\ places \in 0..text.places /\ text.digits % Q = 0
      /\ text.digits = 0 => places = 0
  BY <1>1, TrimPlaces
<1>3. shown = [text EXCEPT !.digits = text.digits \div Q, !.places = places]
  BY DEF FormatTokenAmount, TrimAmount, text
<1> HIDE DEF places
<1>4. /\ shown.whole = text.whole /\ shown.digits = text.digits \div Q /\ shown.places = places
  BY <1>1, <1>3 DEF Text
<1> HIDE DEF shown
<1>5. /\ text.whole \in Nat /\ text.digits \in Nat /\ text.places \in Nat
      /\ text.places - places \in Nat /\ places \in Nat
  BY <1>1, <1>2 DEF Text
<1>6. Q \in Nat \ {0}
  BY <1>5, Pow10Type
<1> HIDE DEF Q
<1>7. text.digits = (text.digits \div Q) * Q
  <2>1. /\ text.digits \div Q \in Nat
        /\ text.digits = (text.digits \div Q) * Q + (text.digits % Q)
    BY <1>5, <1>6, DivMod
  <2> QED
    BY <1>2, <1>6, <2>1
<1>8. places <= decimals
  BY <1>1, <1>2, <1>5
<1>9. ParseAmount(shown, decimals)
        = text.whole * Pow10[decimals] + (text.digits \div Q) * Pow10[decimals - places]
  BY <1>4, <1>8 DEF ParseAmount, ParsePrice, FractionalPart
<1>10. (text.digits \div Q) * Pow10[decimals - places] = text.digits
  <2>1. CASE decimals = 0
    <3>1. places = 0 /\ decimals - places = 0 /\ text.digits = 0
      BY <1>1, <1>2, <2>1
    <3>2. text.digits \div Q = 0
      BY <1>6, <3>1
    <3> QED
      BY <3>1, <3>2, Pow10Step
  <2>2. CASE decimals # 0
    <3>1. decimals - places = text.places - places
      BY <1>1, <2>2
    <3> QED
      BY <1>7, <3>1 DEF Q
  <2> QED
    BY <2>1, <2>2
<1>11. ~TooFine(shown, decimals)
  BY <1>4, <1>5, <1>8 DEF TooFine
<1> QED
  BY <1>1, <1>9, <1>10, <1>11 DEF shown
=============================================================================
