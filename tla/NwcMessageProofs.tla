-------------------------- MODULE NwcMessageProofs --------------------------
(***************************************************************************)
(* Theorems about a request and its answer (NwcMessage), for every curve   *)
(* y^2 = x^3 + 7 over a field with P % 4 = 3 and no point with x = 0, of   *)
(* any size, that of secp256k1 included; every key, nonce and challenge;   *)
(* and every length of an answer:                                          *)
(*   - the Jacobian arithmetic of nwc_nostr.py computes the textbook's     *)
(*     group, doublings, opposite points and the point at infinity         *)
(*     included, and the ladder of _jac_mul its multiples;                 *)
(*   - schnorr_verify accepts what BIP-340 makes with the client's key,    *)
(*     and nothing else;                                                   *)
(*   - both sides of a conversation derive the same secret;                *)
(*   - what was sent is read, with its length.                             *)
(*                                                                         *)
(* Assumed are the facts of the curve that Secp256k1 names: Fermat's       *)
(* theorem for P, the associativity of addition and the order of G.        *)
(***************************************************************************)
EXTENDS NwcMessage, WellFoundedInduction, TLAPS

-----------------------------------------------------------------------------
(* The field: integers modulo P.                                            *)

LEMMA Modulus == P \in Nat /\ P >= 3 /\ P % 4 = 3
  BY CurveAssumption

Divides(a) == \E k \in Int : a = P * k

LEMMA ModOf ==
  ASSUME NEW a \in Int
  PROVE  /\ a % P \in Field /\ a % P \in Int /\ a \div P \in Int
         /\ a = P * (a \div P) + (a % P)
  BY Modulus DEF Field

LEMMA DividesRest == ASSUME NEW a \in Int PROVE Divides(a) <=> a % P = 0
<1>1. ASSUME Divides(a) PROVE a % P = 0
  <2>1. PICK k \in Int : a = P * k BY <1>1 DEF Divides
  <2>2. (P * k + 0) % P = 0 BY Modulus
  <2> QED BY <2>1, <2>2
<1>2. ASSUME a % P = 0 PROVE Divides(a)
  <2>1. PICK q \in Int : a = P * q + (a % P) BY ModOf
  <2>2. a = P * q BY <2>1, <1>2, Modulus
  <2> QED BY <2>2, Zenon DEF Divides
<1> QED BY <1>1, <1>2

LEMMA DividesMod == ASSUME NEW a \in Int PROVE Divides(a - (a % P)) /\ Divides((a % P) - a)
<1>1. PICK r \in Int, k \in Int : r = a % P /\ a = P * k + r BY ModOf
<1>2. a - r = P * k /\ r - a = P * (0 - k) BY <1>1, Modulus
<1>3. 0 - k \in Int OBVIOUS
<1> QED BY <1>1, <1>2, <1>3, Zenon DEF Divides

LEMMA Combine ==
  ASSUME NEW a \in Int, NEW b \in Int, NEW c \in Int, NEW d \in Int, Divides(a), Divides(b)
  PROVE  Divides(c * a + d * b)
<1>1. PICK k \in Int : a = P * k BY DEF Divides
<1>2. PICK l \in Int : b = P * l BY DEF Divides
<1>3. c * a + d * b = P * (c * k + d * l) BY Modulus, <1>1, <1>2
<1>4. c * k + d * l \in Int OBVIOUS
<1> QED BY <1>3, <1>4, Zenon DEF Divides

LEMMA Times == ASSUME NEW a \in Int, NEW c \in Int, Divides(a) PROVE Divides(c * a)
<1>1. Divides(c * a + 0 * a) BY Combine
<1> QED BY <1>1

LEMMA Plus == ASSUME NEW a \in Int, NEW b \in Int, Divides(a), Divides(b)
              PROVE  Divides(a + b) /\ Divides(a - b)
<1>1. PICK k \in Int : a = P * k BY DEF Divides
<1>2. PICK l \in Int : b = P * l BY DEF Divides
<1>3. a + b = P * (k + l) /\ a - b = P * (k - l) BY Modulus, <1>1, <1>2
<1>4. k + l \in Int /\ k - l \in Int OBVIOUS
<1> QED BY <1>3, <1>4, Zenon DEF Divides

LEMMA SameInField == ASSUME NEW a \in Field, NEW b \in Field, Divides(a - b) PROVE a = b
<1>1. PICK k \in Int : a - b = P * k BY DEF Divides
<1>2. k = 0 BY <1>1, Modulus DEF Field
<1> QED BY <1>1, <1>2, Modulus DEF Field

LEMMA SameRest == ASSUME NEW a \in Int, NEW b \in Int PROVE a % P = b % P <=> Divides(a - b)
<1>1. ASSUME a % P = b % P PROVE Divides(a - b)
  <2>1. Divides((a - (a % P)) + ((b % P) - b)) BY DividesMod, Plus, ModOf
  <2> QED BY <2>1, <1>1, ModOf
<1>2. ASSUME Divides(a - b) PROVE a % P = b % P
  <2>1. Divides(((a % P) - a) + (a - b)) BY <1>2, DividesMod, Plus, ModOf
  <2>2. Divides((((a % P) - a) + (a - b)) + (b - (b % P))) BY <2>1, DividesMod, Plus, ModOf
  <2>3. Divides((a % P) - (b % P)) BY <2>2, ModOf
  <2> QED BY <2>3, SameInField, ModOf
<1> QED BY <1>1, <1>2

-----------------------------------------------------------------------------
(* Induction, for a set of numbers, from the theorem that < is well founded; *)
(* and the powers that pow(b, e, P) computes.                                *)

\* A non-empty set of numbers has a least one.
LEMMA Smallest ==
  ASSUME NEW S \in SUBSET Nat, S # {}
  PROVE  \E m \in S : \A i \in S : m <= i
<1>1. PICK m \in S : \A i \in S : <<i, m>> \notin OpToRel(<, Nat)
  BY WFMin, NatLessThanWellFounded
<1>2. ASSUME NEW i \in S PROVE m <= i
  <2>1. ~(i < m) BY <1>1 DEF OpToRel
  <2> QED BY <2>1
<1> QED BY <1>2

\* Induction, for a set.
LEMMA Induct ==
  ASSUME NEW S, 0 \in S, \A n \in Nat : n \in S => n + 1 \in S
  PROVE  \A n \in Nat : n \in S
<1> SUFFICES ASSUME NEW n \in Nat \ S PROVE FALSE OBVIOUS
<1>1. PICK T \in SUBSET Nat : T = Nat \ S OBVIOUS
<1>2. T # {} BY <1>1
<1>3. PICK m \in T : \A k \in T : m <= k BY <1>2, Smallest
<1>4. m # 0 /\ m - 1 \in Nat BY <1>1, <1>3
<1>5. m - 1 \in S BY <1>1, <1>3, <1>4
<1>6. (m - 1) + 1 = m BY <1>1, <1>3
<1> QED BY <1>1, <1>4, <1>5, <1>6

\* f computes the powers of b up to the n-th.
Powers(f, b, n) == f = [i \in 0..n |-> IF i = 0 THEN 1 ELSE (f[i - 1] * b) % P]

LEMMA PowersExist == ASSUME NEW b PROVE \A n \in Nat : \E f : Powers(f, b, n)
<1> DEFINE S == {n \in Nat : \E f : Powers(f, b, n)}
<1>1. 0 \in S
  <2>1. Powers([i \in 0..0 |-> 1], b, 0) BY DEF Powers
  <2> QED BY <2>1
<1>2. ASSUME NEW n \in Nat, n \in S PROVE n + 1 \in S
  <2>1. PICK f : Powers(f, b, n) BY <1>2
  <2> DEFINE g == [i \in 0..n + 1 |-> IF i = n + 1 THEN (f[n] * b) % P ELSE f[i]]
  <2>2. ASSUME NEW i \in 0..n + 1 PROVE g[i] = IF i = 0 THEN 1 ELSE (g[i - 1] * b) % P
    <3>1. CASE i = 0 BY <3>1, <2>1 DEF Powers
    <3>2. CASE i = n + 1
      <4>1. g[i - 1] = f[n] /\ g[i] = (f[n] * b) % P BY <3>2
      <4> QED BY <4>1, <3>2
    <3>3. CASE i \in 1..n
      <4>1. g[i - 1] = f[i - 1] /\ g[i] = f[i] BY <3>3
      <4>2. f[i] = (f[i - 1] * b) % P BY <3>3, <2>1 DEF Powers
      <4> QED BY <4>1, <4>2, <3>3
    <3> QED BY <3>1, <3>2, <3>3
  <2>3. Powers(g, b, n + 1)
    <3>1. g = [i \in 0..n + 1 |-> IF i = 0 THEN 1 ELSE (g[i - 1] * b) % P] BY <2>2
    <3> QED BY <3>1, Zenon DEF Powers
  <2> QED BY <2>3
<1> HIDE DEF S
<1>3. \A n \in Nat : n \in S BY <1>1, <1>2, Induct
<1> QED BY <1>3 DEF S

LEMMA PowIs == ASSUME NEW b, NEW n \in Nat PROVE \E f : Powers(f, b, n) /\ Pow(b, n) = f[n]
<1> DEFINE f == CHOOSE f : Powers(f, b, n)
<1>1. Powers(f, b, n) BY PowersExist
<1>2. Pow(b, n) = f[n] BY DEF Pow, Powers
<1> QED BY <1>1, <1>2
LEMMA PowersAgree ==
  ASSUME NEW b, NEW f, NEW g, NEW d \in Nat, NEW n \in Nat, Powers(f, b, d), Powers(g, b, n)
  PROVE  \A i \in Nat : i <= d /\ i <= n => f[i] = g[i]
<1> DEFINE S == {i \in Nat : i <= d /\ i <= n => f[i] = g[i]}
<1>1. 0 \in S BY DEF Powers
<1>2. ASSUME NEW i \in Nat, i \in S PROVE i + 1 \in S
  <2> SUFFICES ASSUME i + 1 <= d, i + 1 <= n PROVE f[i + 1] = g[i + 1] OBVIOUS
  <2>1. i <= d /\ i <= n /\ i + 1 \in 0..d /\ i + 1 \in 0..n /\ i + 1 # 0 /\ (i + 1) - 1 = i
    OBVIOUS
  <2>2. f[i] = g[i] BY <1>2, <2>1
  <2>3. f[i + 1] = (f[i] * b) % P /\ g[i + 1] = (g[i] * b) % P BY <2>1 DEF Powers
  <2> QED BY <2>2, <2>3
<1> HIDE DEF S
<1>3. \A i \in Nat : i \in S BY <1>1, <1>2, Induct
<1> QED BY <1>3 DEF S

LEMMA PowStep ==
  ASSUME NEW b, NEW n \in Nat
  PROVE  Pow(b, 0) = 1 /\ Pow(b, n + 1) = (Pow(b, n) * b) % P
<1>1. PICK f : Powers(f, b, n) /\ Pow(b, n) = f[n] BY PowIs
<1>2. PICK g : Powers(g, b, n + 1) /\ Pow(b, n + 1) = g[n + 1] BY PowIs
<1>3. PICK h : Powers(h, b, 0) /\ Pow(b, 0) = h[0] BY PowIs
<1>4. f[n] = g[n] BY <1>1, <1>2, PowersAgree
<1>5. g[n + 1] = (g[n] * b) % P
  <2>1. n + 1 \in 0..n + 1 /\ n + 1 # 0 /\ (n + 1) - 1 = n OBVIOUS
  <2> QED BY <1>2, <2>1 DEF Powers
<1>6. h[0] = 1 BY <1>3 DEF Powers
<1> QED BY <1>1, <1>2, <1>3, <1>4, <1>5, <1>6

LEMMA PowInt == ASSUME NEW b \in Int PROVE \A n \in Nat : Pow(b, n) \in Field
<1> DEFINE S == {n \in Nat : Pow(b, n) \in Field}
<1>1. 0 \in S BY PowStep, Modulus DEF Field
<1>2. ASSUME NEW n \in Nat, n \in S PROVE n + 1 \in S
  <2>1. PICK c \in Int : c = Pow(b, n) BY <1>2, Modulus DEF Field
  <2>2. Pow(b, n + 1) = (c * b) % P BY <2>1, PowStep
  <2>3. c * b \in Int OBVIOUS
  <2> QED BY <2>2, <2>3, ModOf
<1> HIDE DEF S
<1>3. \A n \in Nat : n \in S BY <1>1, <1>2, Induct
<1> QED BY <1>3 DEF S

\* What P does not divide has an inverse.
LEMMA HasInverse ==
  ASSUME NEW z \in Int, z \in Field, z # 0
  PROVE  \E i \in Int : i \in Field /\ i = Pow(z, P - 2) /\ Divides(i * z - 1)
<1>1. z \in 1..P - 1 BY Modulus DEF Field
<1>2. PICK n \in Nat : n = P - 2 /\ n + 1 = P - 1 BY Modulus
<1>3. Pow(z, n) \in Field BY PowInt
<1>4. PICK i \in Int : i \in Field /\ i = Pow(z, n) BY <1>3, Modulus DEF Field
<1>5. (i * z) % P = 1
  <2>1. Pow(z, n + 1) = (i * z) % P BY <1>4, PowStep
  <2>2. Pow(z, n + 1) = 1 BY <1>1, <1>2, FieldAssumption
  <2> QED BY <2>1, <2>2
<1>6. Divides(i * z - 1)
  <2>1. i * z \in Int OBVIOUS
  <2>2. Divides(i * z - ((i * z) % P)) BY <2>1, DividesMod
  <2> QED BY <2>2, <1>5
<1>7. i = Pow(z, P - 2) BY <1>2, <1>4
<1> QED BY ONLY <1>4, <1>6, <1>7, Zenon

\* P is a prime.
LEMMA DividesFactor ==
  ASSUME NEW a \in Int, NEW b \in Int, Divides(a * b), ~Divides(a)
  PROVE  Divides(b)
<1>1. PICK z \in Field : z = a % P BY ModOf
<1>2. z # 0 BY <1>1, DividesRest
<1>3. z \in Int BY Modulus DEF Field
<1>4. PICK i \in Int : Divides(i * z - 1)
  BY ONLY <1>2, <1>3, z \in Field, HasInverse
<1>5. PICK k \in Int : a = P * k + z BY <1>1, ModOf
<1>6. PICK l \in Int : i * z - 1 = P * l BY <1>4 DEF Divides
<1>7. PICK m \in Int : a * b = P * m BY DEF Divides
<1>8. b = P * (i * m - b * l - i * b * k)
  <2>1. b = i * z * b - P * l * b BY <1>3, <1>6, Modulus
  <2>2. i * z * b = i * (a * b) - i * (P * k) * b BY <1>3, <1>5, Modulus
  <2> QED BY <2>1, <2>2, <1>7, Modulus
<1>9. i * m - b * l - i * b * k \in Int OBVIOUS
<1> QED BY <1>8, <1>9, Zenon DEF Divides

-----------------------------------------------------------------------------
(* The textbook's group: what Sum is, that it stays on the curve, and the    *)
(* multiples of G.                                                           *)

LEMMA FieldInt == \A a \in Field : a \in Int /\ a >= 0 /\ a < P /\ a % P = a
  BY Modulus DEF Field

LEMMA OverIs ==
  ASSUME NEW a \in Int, NEW b \in Int, ~Divides(b)
  PROVE  Over(a, b) \in Field /\ Divides(Over(a, b) * b - a)
<1>1. PICK z \in Int : z \in Field /\ z = b % P BY ModOf
<1>2. z # 0 BY <1>1, DividesRest
<1>3. PICK i \in Int : Divides(i * z - 1) BY ONLY <1>1, <1>2, HasInverse
<1>4. PICK q \in Int : q \in Field /\ q = (a * i) % P
  <2>1. a * i \in Int OBVIOUS
  <2> QED BY <2>1, ModOf
<1>5. Divides(q * b - a)
  <2>1. PICK k \in Int : a * i = P * k + q
    <3>1. a * i \in Int OBVIOUS
    <3> QED BY <3>1, <1>4, ModOf
  <2>2. PICK l \in Int : b = P * l + z BY <1>1, ModOf
  <2>3. PICK m \in Int : i * z - 1 = P * m BY <1>3 DEF Divides
  <2>4. q * b - a = P * (a * i * l + a * m - k * b)
    <3>1. q * b = a * i * b - P * k * b BY <2>1, Modulus
    <3>2. a * i * b = a * i * P * l + a * (i * z) BY <2>2, Modulus
    <3> QED BY <2>3, <3>1, <3>2, Modulus
  <2>5. a * i * l + a * m - k * b \in Int OBVIOUS
  <2> QED BY <2>4, <2>5, Zenon DEF Divides
<1>6. (q * b) % P = a % P
  <2>1. q * b \in Int OBVIOUS
  <2> QED BY <2>1, <1>5, SameRest
<1>7. PICK o : o = Over(a, b) OBVIOUS
<1>8. o \in Field /\ (o * b) % P = a % P BY <1>4, <1>6, <1>7, Zenon DEF Over
<1>9. o \in Int /\ o * b \in Int BY <1>8, FieldInt
<1>10. Divides(o * b - a) BY ONLY <1>8, <1>9, a \in Int, SameRest
<1> QED BY <1>7, <1>8, <1>10

\* The cases of Sum.
LEMMA SumNone == ASSUME NEW a PROVE Sum(None, a) = a /\ Sum(a, None) = a
  BY DEF Sum

LEMMA NotNone == ASSUME NEW x, NEW y PROVE <<x, y>> # None
  BY DEF None

LEMMA SumOpposite ==
  ASSUME NEW x \in Int, NEW y \in Int, NEW z \in Int, Divides(y + z)
  PROVE  Sum(<<x, y>>, <<x, z>>) = None
<1>1. (y + z) % P = 0
  <2>1. y + z \in Int OBVIOUS
  <2> QED BY <2>1, DividesRest
<1>2. <<x, y>> # None /\ <<x, z>> # None BY NotNone
<1> QED BY <1>1, <1>2 DEF Sum

LEMMA SumOther ==
  ASSUME NEW x \in Int, NEW y \in Int, NEW u \in Int, NEW v \in Int,
         ~(x = u /\ (y + v) % P = 0),
         NEW l,
         l = IF <<x, y>> = <<u, v>> THEN Over(3 * x * x, 2 * y) ELSE Over(v - y, u - x)
  PROVE  Sum(<<x, y>>, <<u, v>>)
           = <<(l * l - x - u) % P, (l * (x - ((l * l - x - u) % P)) - y) % P>>
<1>2. <<x, y>> # None /\ <<u, v>> # None BY NotNone
<1> QED BY <1>2 DEF Sum

LEMMA SumTangent ==
  ASSUME NEW x \in Int, NEW y \in Int, ~Divides(2 * y)
  PROVE  \E l \in Int : /\ Divides(l * (2 * y) - 3 * x * x)
                        /\ Sum(<<x, y>>, <<x, y>>)
                             = <<(l * l - x - x) % P, (l * (x - ((l * l - x - x) % P)) - y) % P>>
<1>1. (y + y) % P # 0
  <2>1. 2 * y \in Int /\ 2 * y = y + y OBVIOUS
  <2> QED BY <2>1, DividesRest
<1>2. PICK l : l = Over(3 * x * x, 2 * y) OBVIOUS
<1>3. l \in Field /\ Divides(l * (2 * y) - 3 * x * x)
  <2>1. 3 * x * x \in Int /\ 2 * y \in Int OBVIOUS
  <2> QED BY <2>1, <1>2, OverIs
<1>4. l \in Int BY <1>3, FieldInt
<1>5. Sum(<<x, y>>, <<x, y>>)
        = <<(l * l - x - x) % P, (l * (x - ((l * l - x - x) % P)) - y) % P>>
  BY <1>1, <1>2, SumOther
<1> QED BY <1>3, <1>4, <1>5

LEMMA SumChord ==
  ASSUME NEW x \in Int, NEW y \in Int, NEW u \in Int, NEW v \in Int, ~Divides(u - x)
  PROVE  \E l \in Int : /\ Divides(l * (u - x) - (v - y))
                        /\ Sum(<<x, y>>, <<u, v>>)
                             = <<(l * l - x - u) % P, (l * (x - ((l * l - x - u) % P)) - y) % P>>
<1>1. x # u
  <2> SUFFICES ASSUME x = u PROVE FALSE OBVIOUS
  <2>1. u - x = P * 0 BY Modulus
  <2> QED BY <2>1 DEF Divides
<1>2. PICK l : l = Over(v - y, u - x) OBVIOUS
<1>3. l \in Field /\ Divides(l * (u - x) - (v - y))
  <2>1. v - y \in Int /\ u - x \in Int OBVIOUS
  <2> QED BY <2>1, <1>2, OverIs
<1>4. l \in Int BY <1>3, FieldInt
<1>5. <<x, y>> # <<u, v>> BY <1>1
<1>6. Sum(<<x, y>>, <<u, v>>)
        = <<(l * l - x - u) % P, (l * (x - ((l * l - x - u) % P)) - y) % P>>
  BY <1>1, <1>2, <1>5, SumOther
<1> QED BY <1>3, <1>4, <1>6

LEMMA CurveIs ==
  /\ None \in Curve
  /\ \A x, y \in Field : <<x, y>> \in Curve <=> Divides(y * y - x * x * x - 7)
  /\ \A a \in Curve : a = None \/ \E x, y \in Field : a = <<x, y>>
<1>1. ASSUME NEW x \in Field, NEW y \in Field
      PROVE  <<x, y>> \in Curve <=> Divides(y * y - x * x * x - 7)
  <2>1. x \in Int /\ y \in Int BY FieldInt
  <2>2. y * y \in Int /\ x * x * x + 7 \in Int BY <2>1
  <2>3. PICK s \in Int, t \in Int : s = y * y /\ t = x * x * x + 7 BY <2>2
  <2>4. s % P = t % P <=> Divides(s - t) BY SameRest
  <2>5. s - t = y * y - x * x * x - 7 BY <2>1, <2>3
  <2>6. <<x, y>> \in Curve <=> s % P = t % P BY <2>3, NotNone DEF Curve
  <2> QED BY <2>4, <2>5, <2>6
<1>2. None \in Curve /\ \A a \in Curve : a = None \/ \E x, y \in Field : a = <<x, y>>
  BY DEF Curve
<1> QED BY <1>1, <1>2

LEMMA OnCongruent ==
  ASSUME NEW x \in Int, NEW y \in Int, NEW u \in Int, NEW v \in Int,
         Divides(x - u), Divides(y - v), Divides(v * v - u * u * u - 7)
  PROVE  Divides(y * y - x * x * x - 7)
<1>1. PICK k \in Int, l \in Int, m \in Int :
        x - u = P * k /\ y - v = P * l /\ v * v - u * u * u - 7 = P * m BY DEF Divides
<1>2. y * y - x * x * x - 7 = P * (m + l * (y + v) - k * (x * x + x * u + u * u))
  <2>1. y * y - v * v = P * l * (y + v) BY <1>1, Modulus
  <2>2. x * x * x - u * u * u = P * k * (x * x + x * u + u * u) BY <1>1, Modulus
  <2> QED BY <1>1, <2>1, <2>2, Modulus
<1>3. m + l * (y + v) - k * (x * x + x * u + u * u) \in Int OBVIOUS
<1> QED BY <1>2, <1>3, Zenon DEF Divides

LEMMA ChordOn ==
  ASSUME NEW x \in Int, NEW y \in Int, NEW u \in Int, NEW v \in Int, NEW l \in Int,
         NEW a \in Int, NEW b \in Int, a = l * l - x - u, b = l * (x - a) - y,
         ~Divides(u - x), Divides(l * (u - x) - (v - y)),
         Divides(y * y - x * x * x - 7), Divides(v * v - u * u * u - 7)
  PROVE  Divides(b * b - a * a * a - 7)
<1>1. PICK i \in Int, j \in Int, k \in Int :
        /\ l * (u - x) - (v - y) = P * i
        /\ y * y - x * x * x - 7 = P * j /\ v * v - u * u * u - 7 = P * k BY DEF Divides
<1>2. PICK h \in Int, c \in Int, e2 \in Int :
        /\ h = l * (u - x) - (v - y) /\ c = y * y - x * x * x - 7 /\ e2 = v * v - u * u * u - 7
  OBVIOUS
<1>3. (u - x) * (b * b - a * a * a - 7) = c * (u - x) - (a - x) * (c - e2 - h * (2 * v + h))
  BY <1>2
<1>4. (u - x) * (b * b - a * a * a - 7)
        = P * (j * (u - x) - (a - x) * (j - k - i * (2 * v + h)))
  <2>1. c - e2 - h * (2 * v + h) = P * (j - k - i * (2 * v + h))
    <3>1. PICK w \in Int : w = 2 * v + h OBVIOUS
    <3>2. c = P * j /\ e2 = P * k /\ h = P * i BY <1>1, <1>2
    <3>3. c - e2 - h * w = P * (j - k - i * w)
      BY ONLY <3>2, Modulus, i \in Int, j \in Int, k \in Int, w \in Int
    <3> QED BY <3>1, <3>3
  <2>2. (a - x) * (c - e2 - h * (2 * v + h)) = P * ((a - x) * (j - k - i * (2 * v + h)))
    BY <2>1, Modulus
  <2>3. c * (u - x) = P * (j * (u - x)) BY <1>1, <1>2, Modulus
  <2> QED BY <1>3, <2>2, <2>3, Modulus
<1>5. j * (u - x) - (a - x) * (j - k - i * (2 * v + h)) \in Int OBVIOUS
<1>6. Divides((u - x) * (b * b - a * a * a - 7)) BY <1>4, <1>5, Zenon DEF Divides
<1>7. u - x \in Int /\ b * b - a * a * a - 7 \in Int OBVIOUS
<1> QED BY <1>6, <1>7, DividesFactor

LEMMA TangentOn ==
  ASSUME NEW x \in Int, NEW y \in Int, NEW l \in Int,
         NEW a \in Int, NEW b \in Int, a = l * l - x - x, b = l * (x - a) - y,
         Divides(l * (2 * y) - 3 * x * x), Divides(y * y - x * x * x - 7)
  PROVE  Divides(b * b - a * a * a - 7)
<1>1. PICK i \in Int, j \in Int :
        l * (2 * y) - 3 * x * x = P * i /\ y * y - x * x * x - 7 = P * j BY DEF Divides
<1>2. PICK h \in Int, c \in Int : h = l * (2 * y) - 3 * x * x /\ c = y * y - x * x * x - 7
  OBVIOUS
<1>3. b * b - a * a * a - 7 = c + h * (a - x) BY <1>2
<1>4. b * b - a * a * a - 7 = P * (j + i * (a - x)) BY <1>1, <1>2, <1>3, Modulus
<1>5. j + i * (a - x) \in Int OBVIOUS
<1> QED BY <1>4, <1>5, Zenon DEF Divides

\* The remainders of a point on the curve are a point on the curve.
LEMMA RestOn ==
  ASSUME NEW x \in Int, NEW y \in Int, NEW l \in Int, NEW a \in Int, NEW b \in Int,
         b = l * (x - a) - y, Divides(b * b - a * a * a - 7)
  PROVE  <<a % P, (l * (x - (a % P)) - y) % P>> \in Curve
<1>1. PICK s \in Int : s \in Field /\ s = a % P BY ModOf
<1>2. PICK c \in Int : c = l * (x - s) - y OBVIOUS
<1>3. PICK t \in Int : t \in Field /\ t = c % P BY ModOf
<1>4. Divides(s - a) BY <1>1, DividesMod
<1>5. Divides(t - b)
  <2>1. PICK k \in Int, m \in Int : s - a = P * k /\ t - c = P * m
    BY <1>3, <1>4, DividesMod DEF Divides
  <2>2. t - b = P * (m - l * k) BY <2>1, <1>2, Modulus
  <2>3. m - l * k \in Int OBVIOUS
  <2> QED BY <2>2, <2>3, Zenon DEF Divides
<1>6. Divides(t * t - s * s * s - 7) BY <1>4, <1>5, OnCongruent
<1>7. <<s, t>> \in Curve BY <1>1, <1>3, <1>6, CurveIs
<1> QED BY <1>1, <1>2, <1>3, <1>7

\* Two points with one x are the same or opposite.
LEMMA SameOrOpposite ==
  ASSUME NEW x \in Int, NEW y \in Field, NEW v \in Field,
         Divides(y * y - x * x * x - 7), Divides(v * v - x * x * x - 7), ~Divides(y + v)
  PROVE  y = v
<1>1. y \in Int /\ v \in Int BY FieldInt
<1>2. Divides((y + v) * (y - v))
  <2>1. PICK c \in Int, d \in Int : c = y * y - x * x * x - 7 /\ d = v * v - x * x * x - 7
    BY <1>1
  <2>2. Divides(c - d) BY <2>1, Plus
  <2>3. c - d = (y + v) * (y - v) BY <1>1, <2>1
  <2> QED BY <2>2, <2>3
<1>3. Divides(y - v)
  <2>1. y + v \in Int /\ y - v \in Int BY <1>1
  <2> QED BY <2>1, <1>2, DividesFactor
<1> QED BY <1>3, SameInField

LEMMA FieldDiffer == ASSUME NEW x \in Field, NEW u \in Field, x # u PROVE ~Divides(u - x)
  BY SameInField

\* The sum of two points of the curve is one.
LEMMA SumOn == ASSUME NEW p \in Curve, NEW q \in Curve PROVE Sum(p, q) \in Curve
<1>1. CASE p = None \/ q = None BY <1>1, SumNone
<1>2. CASE p # None /\ q # None
  <2>1. PICK x \in Field, y \in Field, u \in Field, v \in Field : p = <<x, y>> /\ q = <<u, v>>
    BY <1>2, CurveIs
  <2>2. x \in Int /\ y \in Int /\ u \in Int /\ v \in Int BY FieldInt
  <2>3. Divides(y * y - x * x * x - 7) /\ Divides(v * v - u * u * u - 7) BY <2>1, CurveIs
  <2>4. CASE x = u /\ Divides(y + v)
    <3>1. Sum(p, q) = None BY <2>1, <2>2, <2>4, SumOpposite
    <3> QED BY <3>1, CurveIs
  <2>5. CASE x = u /\ ~Divides(y + v)
    <3>1. y = v BY <2>2, <2>3, <2>5, SameOrOpposite
    <3>2. ~Divides(2 * y)
      <4>1. 2 * y = y + v BY <3>1, <2>2
      <4> QED BY <4>1, <2>5
    <3>3. PICK l \in Int : /\ Divides(l * (2 * y) - 3 * x * x)
                           /\ Sum(p, q) = <<(l * l - x - x) % P,
                                            (l * (x - ((l * l - x - x) % P)) - y) % P>>
      BY ONLY <3>1, <3>2, <2>1, <2>2, <2>5, SumTangent
    <3>4. PICK a \in Int, b \in Int : a = l * l - x - x /\ b = l * (x - a) - y BY <2>2
    <3>5. Divides(b * b - a * a * a - 7) BY <2>2, <2>3, <3>3, <3>4, TangentOn
    <3>6. <<a % P, (l * (x - (a % P)) - y) % P>> \in Curve
      BY ONLY <2>2, <3>3, <3>4, <3>5, RestOn
    <3> QED BY <3>3, <3>4, <3>6
  <2>6. CASE x # u
    <3>1. ~Divides(u - x) BY <2>6, FieldDiffer
    <3>2. PICK l \in Int : /\ Divides(l * (u - x) - (v - y))
                           /\ Sum(p, q) = <<(l * l - x - u) % P,
                                            (l * (x - ((l * l - x - u) % P)) - y) % P>>
      BY ONLY <3>1, <2>1, <2>2, SumChord
    <3>3. PICK a \in Int, b \in Int : a = l * l - x - u /\ b = l * (x - a) - y BY <2>2
    <3>4. Divides(b * b - a * a * a - 7) BY <2>2, <2>3, <3>1, <3>2, <3>3, ChordOn
    <3>5. <<a % P, (l * (x - (a % P)) - y) % P>> \in Curve
      BY ONLY <2>2, <3>2, <3>3, <3>4, RestOn
    <3> QED BY <3>2, <3>3, <3>5
  <2> QED BY <2>4, <2>5, <2>6
<1> QED BY <1>1, <1>2

Base == <<Gx, Gy>>

LEMMA BaseOn == Base \in Curve
<1>1. Gx \in Field /\ Gy \in Field BY CurveAssumption DEF Field
<1> QED BY <1>1, CurveAssumption DEF Curve, Base

\* f computes the multiples of G up to the n-th.
Multiples(f, n) == f = [i \in 0..n |-> IF i = 0 THEN None ELSE Sum(f[i - 1], Base)]

LEMMA MultiplesExist == \A n \in Nat : \E f : Multiples(f, n)
<1> DEFINE S == {n \in Nat : \E f : Multiples(f, n)}
<1>1. 0 \in S
  <2>1. Multiples([i \in 0..0 |-> None], 0) BY DEF Multiples
  <2> QED BY <2>1
<1>2. ASSUME NEW n \in Nat, n \in S PROVE n + 1 \in S
  <2>1. PICK f : Multiples(f, n) BY <1>2
  <2> DEFINE g == [i \in 0..n + 1 |-> IF i = n + 1 THEN Sum(f[n], Base) ELSE f[i]]
  <2>2. ASSUME NEW i \in 0..n + 1 PROVE g[i] = IF i = 0 THEN None ELSE Sum(g[i - 1], Base)
    <3>1. CASE i = 0 BY <3>1, <2>1 DEF Multiples
    <3>2. CASE i = n + 1
      <4>1. g[i - 1] = f[n] /\ g[i] = Sum(f[n], Base) BY <3>2
      <4> QED BY <4>1, <3>2
    <3>3. CASE i \in 1..n
      <4>1. g[i - 1] = f[i - 1] /\ g[i] = f[i] BY <3>3
      <4>2. f[i] = Sum(f[i - 1], Base) BY <3>3, <2>1 DEF Multiples
      <4> QED BY <4>1, <4>2, <3>3
    <3> QED BY <3>1, <3>2, <3>3
  <2>3. Multiples(g, n + 1)
    <3>1. g = [i \in 0..n + 1 |-> IF i = 0 THEN None ELSE Sum(g[i - 1], Base)] BY <2>2
    <3> QED BY <3>1, Zenon DEF Multiples
  <2> QED BY <2>3
<1> HIDE DEF S
<1>3. \A n \in Nat : n \in S BY <1>1, <1>2, Induct
<1> QED BY <1>3 DEF S

LEMMA OrderOfG == N \in Nat /\ N >= 1 /\ N <= P
  BY CurveAssumption

LEMMA MultipleIs ==
  /\ Multiple[0] = None
  /\ \A i \in Nat : i + 1 < N => Multiple[i + 1] = Sum(Multiple[i], Base)
<1>1. PICK n \in Nat : n = N - 1 BY OrderOfG
<1>2. PICK f : Multiples(f, n) BY MultiplesExist
<1> DEFINE m == CHOOSE m : Multiples(m, N - 1)
<1>3. Multiples(m, n) BY <1>1, <1>2
<1>4. Multiple = [i \in 0..n |-> m[i]] BY <1>1 DEF Multiple, Multiples, Base
<1> HIDE DEF m
<1>5. Multiple[0] = None BY <1>3, <1>4 DEF Multiples
<1>6. ASSUME NEW i \in Nat, i + 1 < N PROVE Multiple[i + 1] = Sum(Multiple[i], Base)
  <2>1. i \in 0..n /\ i + 1 \in 0..n /\ i + 1 # 0 /\ (i + 1) - 1 = i BY <1>1, <1>6, OrderOfG
  <2>2. m[i + 1] = Sum(m[i], Base) BY <2>1, <1>3 DEF Multiples
  <2> QED BY <2>1, <2>2, <1>4
<1> QED BY <1>5, <1>6

LEMMA RestOfN ==
  ASSUME NEW i \in Int
  PROVE  /\ i % N \in Nat /\ i % N < N /\ i \div N \in Int /\ i = N * (i \div N) + (i % N)
         /\ (i >= 0 => i \div N \in Nat)
  BY OrderOfG

LEMMA UniqueRest ==
  ASSUME NEW k \in Int, NEW r \in Nat, r < N PROVE (N * k + r) % N = r
<1>1. PICK i \in Int : i = N * k + r BY OrderOfG
<1>2. PICK q \in Int, s \in Nat : i = N * q + s /\ s < N /\ s = i % N BY RestOfN
<1>3. N * (k - q) = s - r BY <1>1, <1>2, OrderOfG
<1>4. k - q = 0
  <2>1. PICK d \in Int : d = k - q OBVIOUS
  <2>2. s - r < N /\ s - r > 0 - N BY <1>2, OrderOfG
  <2>3. ~(d >= 1)
    <3> SUFFICES ASSUME d >= 1 PROVE FALSE OBVIOUS
    <3>1. N * d >= N BY OrderOfG
    <3> QED BY <3>1, <2>1, <2>2, <1>3, OrderOfG, <1>2
  <2>4. ~(d <= 0 - 1)
    <3> SUFFICES ASSUME d <= 0 - 1 PROVE FALSE OBVIOUS
    <3>1. N * d <= 0 - N BY OrderOfG
    <3> QED BY <3>1, <2>1, <2>2, <1>3, OrderOfG, <1>2
  <2> QED BY <2>1, <2>3, <2>4
<1>5. k = q BY <1>4
<1>6. s = r BY <1>1, <1>2, <1>5, OrderOfG
<1> QED BY <1>1, <1>2, <1>6

\* i * G, for every i
Mul(i) == Multiple[i % N]

LEMMA MulSmall == ASSUME NEW i \in Nat, i < N PROVE Mul(i) = Multiple[i] /\ i % N = i
<1>1. (N * 0 + i) % N = i BY UniqueRest
<1>2. N * 0 + i = i BY OrderOfG
<1> QED BY <1>1, <1>2 DEF Mul

LEMMA MulSame ==
  ASSUME NEW i \in Int, NEW j \in Int, NEW k \in Int, i = N * k + j
  PROVE  Mul(i) = Mul(j) /\ i % N = j % N
<1>1. PICK q \in Int, r \in Nat : j = N * q + r /\ r < N /\ r = j % N BY RestOfN
<1>2. i = N * (k + q) + r BY <1>1, OrderOfG
<1>3. (N * (k + q) + r) % N = r
  <2>1. k + q \in Int OBVIOUS
  <2> QED BY <2>1, <1>1, UniqueRest
<1> QED BY <1>1, <1>2, <1>3 DEF Mul

LEMMA MulStep == Mul(0) = None /\ \A i \in Nat : Mul(i + 1) = Sum(Mul(i), Base)
<1>1. Mul(0) = None BY MulSmall, MultipleIs, OrderOfG
<1>2. ASSUME NEW i \in Nat PROVE Mul(i + 1) = Sum(Mul(i), Base)
  <2>1. PICK q \in Int, r \in Nat : i = N * q + r /\ r < N /\ r = i % N BY RestOfN
  <2>2. Mul(i) = Mul(r) BY <2>1, MulSame
  <2>3. CASE r + 1 < N
    <3>1. i + 1 = N * q + (r + 1) BY <2>1, OrderOfG
    <3>2. Mul(i + 1) = Mul(r + 1) BY ONLY <3>1, MulSame, i \in Nat, q \in Int, r \in Nat
    <3>3. Mul(r + 1) = Sum(Multiple[r], Base) BY <2>3, MulSmall, MultipleIs
    <3>4. Mul(r) = Multiple[r] BY <2>1, MulSmall
    <3> QED BY <3>2, <3>3, <3>4, <2>2
  <2>4. CASE r = N - 1
    <3>1. i + 1 = N * (q + 1) + 0 BY <2>1, <2>4, OrderOfG
    <3>2. Mul(i + 1) = Mul(0)
      <4>1. i + 1 \in Int /\ q + 1 \in Int OBVIOUS
      <4> QED BY ONLY <4>1, <3>1, MulSame
    <3>3. Sum(Mul(r), Base) = None BY <2>4, <2>1, MulSmall, GroupAssumption DEF Base
    <3> QED BY <3>2, <3>3, <2>2, <1>1
  <2>5. r + 1 < N \/ r = N - 1
    <3>1. r < N BY <2>1
    <3> QED BY ONLY <3>1, OrderOfG, r \in Nat
  <2> QED BY <2>3, <2>4, <2>5
<1> QED BY <1>1, <1>2

LEMMA MulOn == \A i \in Int : Mul(i) \in Curve
<1> DEFINE S == {i \in Nat : Mul(i) \in Curve}
<1>1. 0 \in S BY MulStep, CurveIs
<1>2. ASSUME NEW i \in Nat, i \in S PROVE i + 1 \in S BY <1>2, MulStep, SumOn, BaseOn
<1> HIDE DEF S
<1>3. \A i \in Nat : i \in S BY <1>1, <1>2, Induct
<1>4. \A i \in Nat : Mul(i) \in Curve BY <1>3 DEF S
<1> SUFFICES ASSUME NEW i \in Int PROVE Mul(i) \in Curve OBVIOUS
<1>5. PICK r \in Nat : r < N /\ r = i % N BY RestOfN
<1>6. Mul(r) = Mul(i) BY <1>5, MulSmall DEF Mul
<1> QED BY <1>4, <1>6

LEMMA MulSum == \A i, j \in Nat : Sum(Mul(i), Mul(j)) = Mul(i + j)
<1> SUFFICES ASSUME NEW i \in Nat
             PROVE \A j \in Nat : Sum(Mul(i), Mul(j)) = Mul(i + j)
  OBVIOUS
<1> DEFINE S == {j \in Nat : Sum(Mul(i), Mul(j)) = Mul(i + j)}
<1>1. 0 \in S BY MulStep, SumNone
<1>2. ASSUME NEW j \in Nat, j \in S PROVE j + 1 \in S
  <2>1. Sum(Mul(i), Mul(j)) = Mul(i + j) BY <1>2
  <2>2. Mul(i) \in Curve /\ Mul(j) \in Curve /\ Base \in Curve BY MulOn, BaseOn
  <2>3. Sum(Sum(Mul(i), Mul(j)), Base) = Sum(Mul(i), Sum(Mul(j), Base))
    BY <2>2, GroupAssumption
  <2>4. Mul(j + 1) = Sum(Mul(j), Base) BY MulStep
  <2>5. Mul((i + j) + 1) = Sum(Mul(i + j), Base) BY MulStep
  <2>6. (i + j) + 1 = i + (j + 1) OBVIOUS
  <2>7. Sum(Mul(i), Mul(j + 1)) = Mul(i + (j + 1)) BY ONLY <2>1, <2>3, <2>4, <2>5, <2>6
  <2> QED BY <2>7
<1> HIDE DEF S
<1>3. \A j \in Nat : j \in S BY <1>1, <1>2, Induct
<1> QED BY <1>3 DEF S

LEMMA MulEqual == ASSUME NEW i \in Int, NEW j \in Int, Mul(i) = Mul(j) PROVE i % N = j % N
<1>1. i % N \in 0..N - 1 /\ j % N \in 0..N - 1 BY RestOfN, OrderOfG
<1> QED BY <1>1, GroupAssumption DEF Mul

LEMMA MulNone == \A i \in Int : Mul(i) = None <=> i % N = 0
<1>1. Mul(0) = None /\ 0 % N = 0 BY MulStep, MulSmall, OrderOfG
<1> QED BY <1>1, MulEqual DEF Mul

\* The negative of a point has the same x.
LEMMA MulOpposite ==
  ASSUME NEW i \in Nat, i <= N, NEW x \in Field, NEW y \in Field, Mul(i) = <<x, y>>
  PROVE  Mul(N - i) = <<x, (P - y) % P>>
<1>1. x \in Int /\ y \in Int BY FieldInt
<1>2. P - y \in Int BY <1>1, Modulus
<1>3. PICK z \in Int : z \in Field /\ z = (P - y) % P BY <1>2, ModOf
<1>4. PICK k \in Int : y + z = P * k
  <2>1. PICK l \in Int : P - y = P * l + z BY <1>2, <1>3, ModOf
  <2>2. y + z = P * (1 - l) BY <2>1, <1>1, Modulus
  <2> QED BY <2>2
<1>5. Divides(y + z) BY <1>4 DEF Divides
<1>6. <<x, y>> \in Curve BY MulOn
<1>7. <<x, z>> \in Curve
  <2>1. Divides(y * y - x * x * x - 7) BY <1>6, CurveIs
  <2>2. PICK m \in Int : y * y - x * x * x - 7 = P * m BY <2>1 DEF Divides
  <2>3. z * z - x * x * x - 7 = P * (m + k * (z - y))
    <3>1. z * z - y * y = P * k * (z - y)
      <4>1. z * z - y * y = (y + z) * (z - y) BY <1>1
      <4> QED BY <4>1, <1>4, <1>1, Modulus
    <3> QED BY <3>1, <2>2, <1>1, Modulus
  <2>4. m + k * (z - y) \in Int BY <1>1
  <2>5. Divides(z * z - x * x * x - 7) BY <2>3, <2>4, Zenon DEF Divides
  <2> QED BY <2>5, <1>3, CurveIs
<1>8. Sum(<<x, y>>, <<x, z>>) = None BY <1>1, <1>5, SumOpposite
<1>9. PICK j \in Nat : j = N - i BY OrderOfG
<1>10. Sum(Mul(j), Mul(i)) = None
  <2>1. Sum(Mul(j), Mul(i)) = Mul(j + i) BY MulSum
  <2>2. j + i = N * 1 + 0 BY <1>9, OrderOfG
  <2>3. Mul(j + i) = Mul(0) BY ONLY <2>2, MulSame, i \in Nat, j \in Nat
  <2> QED BY <2>1, <2>3, MulStep
<1>11. Sum(Sum(Mul(j), <<x, y>>), <<x, z>>) = Sum(Mul(j), Sum(<<x, y>>, <<x, z>>))
  <2>1. Mul(j) \in Curve BY MulOn
  <2> QED BY <2>1, <1>6, <1>7, GroupAssumption
<1>12. Mul(j) = <<x, z>> BY <1>8, <1>10, <1>11, SumNone
<1> QED BY <1>3, <1>9, <1>12

-----------------------------------------------------------------------------
(* _jac_double, _jac_add and _jac_mul compute that group, in all its cases.  *)

\* a and b are the same modulo P.
Same(a, b) == \E k \in Int : a = b + P * k

LEMMA SameIs == ASSUME NEW a \in Int, NEW b \in Int PROVE Same(a, b) <=> Divides(a - b)
<1>1. ASSUME Same(a, b) PROVE Divides(a - b)
  <2>1. PICK k \in Int : a = b + P * k BY <1>1 DEF Same
  <2>2. a - b = P * k BY <2>1, Modulus
  <2> QED BY <2>2, Zenon DEF Divides
<1>2. ASSUME Divides(a - b) PROVE Same(a, b)
  <2>1. PICK k \in Int : a - b = P * k BY <1>2 DEF Divides
  <2>2. a = b + P * k BY <2>1, Modulus
  <2> QED BY <2>2, Zenon DEF Same
<1> QED BY <1>1, <1>2

LEMMA ModIs == \A a \in Int : a % P \in Int /\ a % P \in Field /\ Same(a % P, a)
<1> SUFFICES ASSUME NEW a \in Int PROVE a % P \in Int /\ a % P \in Field /\ Same(a % P, a)
  OBVIOUS
<1>1. PICK r \in Int : r = a % P /\ r \in Field BY ModOf
<1>2. Divides(r - a) BY <1>1, DividesMod
<1>3. Same(r, a) BY <1>2, SameIs
<1> QED BY <1>1, <1>3

\* What JacDouble computes from X = x*Z^2, Y = y*Z^3 is the tangent's third point.
Doubling(X, Y, Z, x, y, l, Y2, S, M, Y4, X3, Y3, Zr, x3, y3) ==
  /\ Same(X, x * Z * Z) /\ Same(Y, y * Z * Z * Z)
  /\ Same(Y2, Y * Y) /\ Same(S, 4 * X * Y2) /\ Same(M, 3 * X * X) /\ Same(Y4, Y2 * Y2)
  /\ Same(X3, M * M - 2 * S) /\ Same(Y3, M * (S - X3) - 8 * Y4) /\ Same(Zr, 2 * Y * Z)
  /\ Same(l * (2 * y), 3 * x * x)
  /\ Same(x3, l * l - x - x) /\ Same(y3, l * (x - x3) - y)

LEMMA DoubleAlgebra ==
  ASSUME NEW X \in Int, NEW Y \in Int, NEW Z \in Int, NEW x \in Int, NEW y \in Int,
         NEW l \in Int, NEW Y2 \in Int, NEW S \in Int, NEW M \in Int, NEW Y4 \in Int,
         NEW X3 \in Int, NEW Y3 \in Int, NEW Zr \in Int, NEW x3 \in Int, NEW y3 \in Int,
         Doubling(X, Y, Z, x, y, l, Y2, S, M, Y4, X3, Y3, Zr, x3, y3)
  PROVE  Same(X3, x3 * Zr * Zr) /\ Same(Y3, y3 * Zr * Zr * Zr)
<1>k1. PICK k1 \in Int : X = x * Z * Z + P * k1 BY DEF Doubling, Same
<1>k2. PICK k2 \in Int : Y = y * Z * Z * Z + P * k2 BY DEF Doubling, Same
<1>k3. PICK k3 \in Int : Y2 = Y * Y + P * k3 BY DEF Doubling, Same
<1>k4. PICK k4 \in Int : S = 4 * X * Y2 + P * k4 BY DEF Doubling, Same
<1>k5. PICK k5 \in Int : M = 3 * X * X + P * k5 BY DEF Doubling, Same
<1>k6. PICK k6 \in Int : Y4 = Y2 * Y2 + P * k6 BY DEF Doubling, Same
<1>k7. PICK k7 \in Int : X3 = M * M - 2 * S + P * k7 BY DEF Doubling, Same
<1>k8. PICK k8 \in Int : Y3 = M * (S - X3) - 8 * Y4 + P * k8 BY DEF Doubling, Same
<1>k9. PICK k9 \in Int : Zr = 2 * Y * Z + P * k9 BY DEF Doubling, Same
<1>h1. PICK h1 \in Int : l * (2 * y) = 3 * x * x + P * h1 BY DEF Doubling, Same
<1>h2. PICK h2 \in Int : x3 = l * l - x - x + P * h2 BY DEF Doubling, Same
<1>h3. PICK h3 \in Int : y3 = l * (x - x3) - y + P * h3 BY DEF Doubling, Same
<1>0. PICK U \in Int, V \in Int, W \in Int :
        U = x * Z * Z /\ V = y * Z * Z * Z /\ W = 2 * y * Z * Z * Z * Z OBVIOUS
<1>1. PICK n1 \in Int : Y2 = V * V + P * n1
  <2>1. PICK n \in Int : n = k3 + (Y + V) * k2 BY Modulus
  <2>2. Y2 = V * V + P * n
    <3>1. Y = V + P * k2 BY ONLY <1>0, <1>k2
    <3> QED BY ONLY <2>1, <3>1, <1>k3, Modulus, k2 \in Int, k3 \in Int, V \in Int
  <2> QED BY <2>2
<1>2. PICK n2 \in Int : S = x * W * W + P * n2
  <2>1. PICK n \in Int : n = k4 + 4 * Y2 * k1 + 4 * U * n1 OBVIOUS
  <2>2. X = U + P * k1 BY ONLY <1>0, <1>k1
  <2>3. S = 4 * U * V * V + P * n
    BY ONLY <2>1, <2>2, <1>1, <1>k4, Modulus, k1 \in Int, k4 \in Int,
            n1 \in Int, U \in Int, V \in Int
  <2>4. 4 * U * V * V = x * W * W BY ONLY <1>0, x \in Int, y \in Int, Z \in Int
  <2> QED BY <2>3, <2>4
<1>3. PICK n3 \in Int : M = l * W + P * n3
  <2>1. PICK t \in Int : t = 3 * x * x /\ t = l * (2 * y) - P * h1 BY <1>h1, Modulus
  <2>2. 3 * U * U = t * Z * Z * Z * Z BY ONLY <1>0, <2>1, x \in Int, Z \in Int
  <2>3. PICK n \in Int : n = k5 + 3 * (X + U) * k1 - Z * Z * Z * Z * h1 OBVIOUS
  <2>4. X = U + P * k1 BY ONLY <1>0, <1>k1
  <2>5. M = 3 * U * U + P * (k5 + 3 * (X + U) * k1)
    BY ONLY <2>4, <1>k5, Modulus, k1 \in Int, k5 \in Int, U \in Int
  <2>6. t * Z * Z * Z * Z = l * W - P * (Z * Z * Z * Z * h1)
    BY ONLY <2>1, <1>0, Modulus, l \in Int, y \in Int, Z \in Int, h1 \in Int
  <2>7. M = l * W + P * n BY <2>2, <2>3, <2>5, <2>6, Modulus
  <2> QED BY <2>7
<1>4. PICK n4 \in Int : 8 * Y4 = y * W * W * W + P * n4
  <2>1. PICK n \in Int : n = 8 * k6 + 8 * (Y2 + V * V) * n1 OBVIOUS
  <2>2. 8 * Y4 = 8 * V * V * V * V + P * n
    BY ONLY <2>1, <1>1, <1>k6, Modulus, n1 \in Int, k6 \in Int, V \in Int
  <2>3. 8 * V * V * V * V = y * W * W * W BY ONLY <1>0, x \in Int, y \in Int, Z \in Int
  <2> QED BY <2>2, <2>3
<1>5. PICK n5 \in Int : Zr = W + P * n5
  <2>1. PICK n \in Int : n = k9 + 2 * Z * k2 OBVIOUS
  <2>2. Zr = W + P * n
    BY ONLY <2>1, <1>0, <1>k2, <1>k9, Modulus,
            k2 \in Int, k9 \in Int, y \in Int, Z \in Int
  <2> QED BY <2>2
<1>6. PICK n6 \in Int : X3 = x3 * W * W + P * n6
  <2>1. PICK n \in Int : n = k7 + (M + l * W) * n3 - 2 * n2 - W * W * h2 OBVIOUS
  <2>2. X3 = x3 * W * W + P * n
    BY ONLY <2>1, <1>2, <1>3, <1>k7, <1>h2, Modulus,
            n2 \in Int, n3 \in Int, k7 \in Int, h2 \in Int, l \in Int, x \in Int, W \in Int
  <2> QED BY <2>2
<1>7. PICK n7 \in Int : Y3 = y3 * W * W * W + P * n7
  <2>1. PICK n \in Int :
          n = k8 + (S - X3) * n3 + l * W * (n2 - n6) - n4 - W * W * W * h3 OBVIOUS
  <2>2. Y3 = y3 * W * W * W + P * n
    <3>1. PICK E \in Int : E = 8 * Y4 OBVIOUS
    <3>2. Y3 = M * (S - X3) - E + P * k8 BY <3>1, <1>k8, Modulus
    <3> QED BY ONLY <2>1, <1>2, <1>3, <1>4, <1>6, <3>1, <3>2,
                    <1>h3, Modulus,
                    n2 \in Int, n3 \in Int, n4 \in Int, n6 \in Int, k8 \in Int,
                    h3 \in Int, l \in Int, x \in Int, y \in Int, W \in Int, x3 \in Int
  <2> QED BY <2>2
<1>8. Same(X3, x3 * Zr * Zr)
  <2>1. PICK n \in Int : n = n6 - x3 * (Zr + W) * n5 OBVIOUS
  <2>2. X3 = x3 * Zr * Zr + P * n
    BY ONLY <2>1, <1>5, <1>6, Modulus, x3 \in Int, W \in Int, n5 \in Int, n6 \in Int
  <2> QED BY <2>2, Zenon DEF Same
<1>9. Same(Y3, y3 * Zr * Zr * Zr)
  <2>1. PICK n \in Int : n = n7 - y3 * (Zr * Zr + Zr * W + W * W) * n5 OBVIOUS
  <2>2. Y3 = y3 * Zr * Zr * Zr + P * n
    BY ONLY <2>1, <1>5, <1>7, Modulus, y3 \in Int, W \in Int, n5 \in Int, n7 \in Int
  <2> QED BY <2>2, Zenon DEF Same
<1> QED BY <1>8, <1>9

Chording(X1, Y1, Z1, X2, Y2, Z2, x, y, u, v, l, U1, S1, H, R, T, H3, X3, Y3, Zr, x3, y3) ==
  /\ Same(X1, x * Z1 * Z1)
  /\ Same(Y1, y * Z1 * Z1 * Z1)
  /\ Same(X2, u * Z2 * Z2)
  /\ Same(Y2, v * Z2 * Z2 * Z2)
  /\ Same(U1, X1 * Z2 * Z2)
  /\ Same(S1, Y1 * Z2 * Z2 * Z2)
  /\ Same(H, X2 * Z1 * Z1 - U1)
  /\ Same(R, Y2 * Z1 * Z1 * Z1 - S1)
  /\ Same(T, U1 * H * H)
  /\ Same(H3, H * H * H)
  /\ Same(X3, R * R - H3 - 2 * T)
  /\ Same(Y3, R * (T - X3) - S1 * H3)
  /\ Same(Zr, H * Z1 * Z2)
  /\ Same(l * (u - x), v - y)
  /\ Same(x3, l * l - x - u)
  /\ Same(y3, l * (x - x3) - y)

\* What Chord computes is the chord's third point.
LEMMA ChordAlgebra ==
  ASSUME NEW X1 \in Int, NEW Y1 \in Int, NEW Z1 \in Int, NEW X2 \in Int, NEW Y2 \in Int,
         NEW Z2 \in Int, NEW x \in Int, NEW y \in Int, NEW u \in Int, NEW v \in Int,
         NEW l \in Int, NEW U1 \in Int, NEW S1 \in Int, NEW H \in Int, NEW R \in Int,
         NEW T \in Int, NEW H3 \in Int, NEW X3 \in Int, NEW Y3 \in Int, NEW Zr \in Int,
         NEW x3 \in Int, NEW y3 \in Int,
         Chording(X1, Y1, Z1, X2, Y2, Z2, x, y, u, v, l, U1, S1, H, R, T, H3, X3, Y3, Zr, x3, y3)
  PROVE  Same(X3, x3 * Zr * Zr) /\ Same(Y3, y3 * Zr * Zr * Zr)
<1>k1. PICK k1 \in Int : X1 = x * Z1 * Z1 + P * k1 BY DEF Chording, Same
<1>k2. PICK k2 \in Int : Y1 = y * Z1 * Z1 * Z1 + P * k2 BY DEF Chording, Same
<1>k3. PICK k3 \in Int : X2 = u * Z2 * Z2 + P * k3 BY DEF Chording, Same
<1>k4. PICK k4 \in Int : Y2 = v * Z2 * Z2 * Z2 + P * k4 BY DEF Chording, Same
<1>a1. PICK a1 \in Int : U1 = X1 * Z2 * Z2 + P * a1 BY DEF Chording, Same
<1>a2. PICK a2 \in Int : S1 = Y1 * Z2 * Z2 * Z2 + P * a2 BY DEF Chording, Same
<1>a3. PICK a3 \in Int : H = X2 * Z1 * Z1 - U1 + P * a3 BY DEF Chording, Same
<1>a4. PICK a4 \in Int : R = Y2 * Z1 * Z1 * Z1 - S1 + P * a4 BY DEF Chording, Same
<1>a5. PICK a5 \in Int : T = U1 * H * H + P * a5 BY DEF Chording, Same
<1>a6. PICK a6 \in Int : H3 = H * H * H + P * a6 BY DEF Chording, Same
<1>a7. PICK a7 \in Int : X3 = R * R - H3 - 2 * T + P * a7 BY DEF Chording, Same
<1>a8. PICK a8 \in Int : Y3 = R * (T - X3) - S1 * H3 + P * a8 BY DEF Chording, Same
<1>a9. PICK a9 \in Int : Zr = H * Z1 * Z2 + P * a9 BY DEF Chording, Same
<1>h1. PICK h1 \in Int : l * (u - x) = v - y + P * h1 BY DEF Chording, Same
<1>h2. PICK h2 \in Int : x3 = l * l - x - u + P * h2 BY DEF Chording, Same
<1>h3. PICK h3 \in Int : y3 = l * (x - x3) - y + P * h3 BY DEF Chording, Same
<1>0. PICK t \in Int, d \in Int, D \in Int, w \in Int :
        t = Z1 * Z2 /\ d = u - x /\ D = d * t * t /\ w = D * t OBVIOUS
<1>1. PICK n1 \in Int : U1 = x * t * t + P * n1
  <2>1. PICK n \in Int : n = a1 + k1 * Z2 * Z2 OBVIOUS
  <2>2. U1 = x * t * t + P * n
    BY ONLY <1>0, <2>1, <1>k1, <1>a1, Modulus,
            x \in Int, Z1 \in Int, Z2 \in Int, k1 \in Int, a1 \in Int
  <2> QED BY <2>2
<1>2. PICK n2 \in Int : S1 = y * t * t * t + P * n2
  <2>1. PICK n \in Int : n = a2 + k2 * Z2 * Z2 * Z2 OBVIOUS
  <2>2. S1 = y * t * t * t + P * n
    BY ONLY <1>0, <2>1, <1>k2, <1>a2,
            Modulus, y \in Int, Z1 \in Int, Z2 \in Int, k2 \in Int, a2 \in Int
  <2> QED BY <2>2
<1>3. PICK n3 \in Int : H = D + P * n3
  <2>1. PICK n \in Int : n = a3 + k3 * Z1 * Z1 - n1 OBVIOUS
  <2>2. H = D + P * n
    BY ONLY <1>0, <1>1, <2>1, <1>k3, <1>a3,
            Modulus, x \in Int, u \in Int, Z1 \in Int, Z2 \in Int, k3 \in Int, a3 \in Int,
            n1 \in Int
  <2> QED BY <2>2
<1>4. PICK n4 \in Int : R = l * w + P * n4
  <2>1. PICK n \in Int : n = a4 + k4 * Z1 * Z1 * Z1 - n2 - h1 * t * t * t OBVIOUS
  <2>2. v = l * d + y - P * h1 BY <1>0, <1>h1, Modulus
  <2>3. R = l * w + P * n
    BY ONLY <1>0, <1>2, <2>1, <2>2, <1>k4,
            <1>a4, Modulus, l \in Int, d \in Int, y \in Int,
            Z1 \in Int, Z2 \in Int, k4 \in Int, a4 \in Int, n2 \in Int, h1 \in Int
  <2> QED BY <2>3
<1>5. PICK n5 \in Int : T = x * w * w + P * n5
  <2>1. PICK n \in Int : n = a5 + n1 * H * H + x * t * t * (H + D) * n3 OBVIOUS
  <2>2. T = x * t * t * D * D + P * n
    BY ONLY <1>1, <1>3, <2>1, <1>a5, Modulus,
            x \in Int, t \in Int, D \in Int, a5 \in Int, n1 \in Int, n3 \in Int
  <2>3. x * t * t * D * D = x * w * w BY ONLY <1>0, x \in Int, t \in Int, D \in Int
  <2> QED BY <2>2, <2>3
<1>6. PICK n6 \in Int : H3 = d * w * w + P * n6
  <2>1. PICK n \in Int : n = a6 + (H * H + H * D + D * D) * n3 OBVIOUS
  <2>2. H3 = D * D * D + P * n
    BY ONLY <1>3, <2>1, <1>a6, Modulus, D \in Int, a6 \in Int, n3 \in Int
  <2>3. D * D * D = d * w * w BY ONLY <1>0, t \in Int, d \in Int
  <2> QED BY <2>2, <2>3
<1>7. PICK n7 \in Int : X3 = x3 * w * w + P * n7
  <2>1. PICK n \in Int : n = a7 + (R + l * w) * n4 - n6 - 2 * n5 - w * w * h2 OBVIOUS
  <2>3. u = x + d BY ONLY <1>0, x \in Int, u \in Int
  <2>2. X3 = x3 * w * w + P * n
    BY ONLY <2>3, <1>4, <1>5, <1>6, <2>1, <1>a7,
            <1>h2, Modulus, l \in Int, w \in Int, x \in Int, d \in Int,
            n4 \in Int, n5 \in Int, n6 \in Int, a7 \in Int, h2 \in Int
  <2> QED BY <2>2
<1>8. PICK n8 \in Int : Y3 = y3 * w * w * w + P * n8
  <2>1. PICK n \in Int : n = a8 + (T - X3) * n4 + l * w * (n5 - n7) - H3 * n2
                               - y * t * t * t * n6 - w * w * w * h3 OBVIOUS
  <2>2. y * t * t * t * d * w * w = y * w * w * w
    BY ONLY <1>0, y \in Int, t \in Int, d \in Int, w \in Int
  <2>3. PICK s \in Int : s = y * t * t * t OBVIOUS
  <2>4. s * d * w * w = y * w * w * w BY ONLY <2>2, <2>3
  <2>5. S1 * H3 = s * d * w * w + P * (H3 * n2 + s * n6)
    BY ONLY <1>2, <1>6, <2>3, Modulus, s \in Int, d \in Int, w \in Int, n2 \in Int,
            n6 \in Int
  <2>6. R * (T - X3) = l * w * (x * w * w - x3 * w * w) + P * ((T - X3) * n4 + l * w * (n5 - n7))
    BY ONLY <1>4, <1>5, <1>7, Modulus, l \in Int, x \in Int, x3 \in Int, w \in Int,
            n4 \in Int, n5 \in Int, n7 \in Int
  <2>7. l * w * (x * w * w - x3 * w * w) - y * w * w * w = y3 * w * w * w - P * (w * w * w * h3)
    BY ONLY <1>h3, Modulus, l \in Int, x \in Int, x3 \in Int, y \in Int,
            w \in Int, h3 \in Int
  <2>8. PICK e1 \in Int, e2 \in Int, e3 \in Int :
          e1 = H3 * n2 + s * n6 /\ e2 = (T - X3) * n4 + l * w * (n5 - n7) /\ e3 = w * w * w * h3
    OBVIOUS
  <2>9. n = a8 + e2 - e1 - e3 BY ONLY <2>1, <2>3, <2>8, a8 \in Int, h3 \in Int,
          H3 \in Int, n2 \in Int, n4 \in Int, n5 \in Int, n6 \in Int, n7 \in Int,
          T \in Int, X3 \in Int, l \in Int, w \in Int, y \in Int, t \in Int
  <2>10. PICK A \in Int, B \in Int, C \in Int :
           /\ A = l * w * (x * w * w - x3 * w * w) /\ B = y * w * w * w /\ C = y3 * w * w * w
    OBVIOUS
  <2>11. /\ R * (T - X3) = A + P * e2 /\ S1 * H3 = B + P * e1
         /\ A - B = C - P * e3
    <3>1. R * (T - X3) = A + P * e2 BY ONLY <2>6, <2>8, <2>10, Zenon
    <3>2. S1 * H3 = B + P * e1 BY ONLY <2>4, <2>5, <2>8, <2>10, Zenon
    <3>3. A - B = C - P * e3 BY ONLY <2>7, <2>8, <2>10, Zenon
    <3> QED BY <3>1, <3>2, <3>3
  <2>12. Y3 = C + P * n
    BY ONLY <2>9, <2>11, <1>a8, Modulus, A \in Int, B \in Int,
            C \in Int, e1 \in Int, e2 \in Int, e3 \in Int, a8 \in Int
  <2> QED BY <2>10, <2>12
<1>9. PICK n9 \in Int : Zr = w + P * n9
  <2>1. PICK n \in Int : n = a9 + n3 * t OBVIOUS
  <2>2. Zr = w + P * n
    BY ONLY <1>0, <1>3, <2>1, <1>a9, Modulus, Z1 \in Int, Z2 \in Int,
            D \in Int, n3 \in Int, a9 \in Int
  <2> QED BY <2>2
<1>10. Same(X3, x3 * Zr * Zr)
  <2>1. PICK n \in Int : n = n7 - x3 * (Zr + w) * n9 OBVIOUS
  <2>2. X3 = x3 * Zr * Zr + P * n
    BY ONLY <2>1, <1>7, <1>9, Modulus, x3 \in Int, w \in Int, n7 \in Int, n9 \in Int
  <2> QED BY <2>2, Zenon DEF Same
<1>11. Same(Y3, y3 * Zr * Zr * Zr)
  <2>1. PICK n \in Int : n = n8 - y3 * (Zr * Zr + Zr * w + w * w) * n9 OBVIOUS
  <2>2. Y3 = y3 * Zr * Zr * Zr + P * n
    BY ONLY <2>1, <1>8, <1>9, Modulus, y3 \in Int, w \in Int, n8 \in Int, n9 \in Int
  <2> QED BY <2>2, Zenon DEF Same
<1> QED BY <1>10, <1>11

\* The triple p stands for the point a.
Stands(p, a) ==
  \E X, Y, Z \in Field :
    /\ p = <<X, Y, Z>>
    /\ IF Z = 0 THEN a = None
       ELSE \E x, y \in Field : a = <<x, y>> /\ Same(X, x * Z * Z) /\ Same(Y, y * Z * Z * Z)

LEMMA InfStands == Stands(Inf, None)
  BY Modulus DEF Inf, Stands, Field

LEMMA StandsNone == ASSUME NEW p, Stands(p, None) PROVE p[3] = 0
<1>1. PICK X \in Field, Y \in Field, Z \in Field :
    /\ p = <<X, Y, Z>>
    /\ Z # 0 => \E x, y \in Field : None = <<x, y>> BY DEF Stands
<1> QED BY <1>1, NotNone

LEMMA StandsPoint ==
  ASSUME NEW p, NEW x \in Int, NEW y \in Int, Stands(p, <<x, y>>)
  PROVE  \E X, Y, Z \in Int :
           /\ p = <<X, Y, Z>> /\ X \in Field /\ Y \in Field /\ Z \in Field /\ Z # 0
           /\ x \in Field /\ y \in Field /\ Same(X, x * Z * Z) /\ Same(Y, y * Z * Z * Z)
<1>1. PICK X \in Field, Y \in Field, Z \in Field :
        /\ p = <<X, Y, Z>>
        /\ IF Z = 0 THEN <<x, y>> = None
           ELSE \E u, v \in Field : /\ <<x, y>> = <<u, v>>
                                    /\ Same(X, u * Z * Z) /\ Same(Y, v * Z * Z * Z)
  BY DEF Stands
<1>2. Z # 0 BY <1>1, NotNone
<1>3. X \in Int /\ Y \in Int /\ Z \in Int BY FieldInt
<1>4. x \in Field /\ y \in Field /\ Same(X, x * Z * Z) /\ Same(Y, y * Z * Z * Z)
  BY <1>1, <1>2
<1> QED BY <1>1, <1>2, <1>3, <1>4

LEMMA PointStands ==
  ASSUME NEW X \in Field, NEW Y \in Field, NEW Z \in Field, Z # 0, NEW x \in Field,
         NEW y \in Field,
         Same(X, x * Z * Z), Same(Y, y * Z * Z * Z)
  PROVE  Stands(<<X, Y, Z>>, <<x, y>>)
  BY Zenon DEF Stands

LEMMA NotDivided == ASSUME NEW a \in Field, a # 0 PROVE ~Divides(a)
<1>1. a \in Int /\ a % P = a BY FieldInt
<1> QED BY <1>1, DividesRest

LEMMA NotTwo == ~Divides(2)
<1>1. 2 \in Field /\ 2 # 0 BY Modulus DEF Field
<1> QED BY <1>1, NotDivided

LEMMA NotProduct ==
  ASSUME NEW a \in Int, NEW b \in Int, ~Divides(a), ~Divides(b)
  PROVE  ~Divides(a * b)
  BY DividesFactor

LEMMA DivideProduct == ASSUME NEW a \in Int, NEW b \in Int, Divides(a) PROVE Divides(a * b)
<1>1. Divides(b * a) BY Times
<1> QED BY <1>1

LEMMA DoubleStands ==
  ASSUME NEW p, NEW a \in Curve, Stands(p, a) PROVE Stands(JacDouble(p), Sum(a, a))
<1>1. CASE a = None
  <2>1. p[3] = 0 BY <1>1, StandsNone
  <2>2. JacDouble(p) = Inf BY <2>1 DEF JacDouble
  <2> QED BY <1>1, <2>2, SumNone, InfStands
<1>2. CASE a # None
  <2>1. PICK x \in Int, y \in Int : x \in Field /\ y \in Field /\ a = <<x, y>>
    BY <1>2, CurveIs, FieldInt
  <2>2. PICK X \in Int, Y \in Int, Z \in Int :
           /\ p = <<X, Y, Z>> /\ X \in Field /\ Y \in Field /\ Z \in Field /\ Z # 0
           /\ Same(X, x * Z * Z) /\ Same(Y, y * Z * Z * Z)
    <3>1. Stands(p, <<x, y>>) BY <2>1
    <3> QED BY ONLY <3>1, x \in Int, y \in Int, StandsPoint
  <2>3. PICK c \in Int : c = Z * Z * Z /\ ~Divides(c)
    <3>1. ~Divides(Z) BY <2>2, NotDivided
    <3>2. PICK b \in Int : b = Z * Z OBVIOUS
    <3>3. ~Divides(b) BY <3>1, <3>2, NotProduct
    <3>4. ~Divides(b * Z) BY <3>1, <3>3, NotProduct
    <3>5. b * Z = Z * Z * Z BY <3>2
    <3> QED BY <3>4, <3>5
  <2>4. PICK k2 \in Int : Y = y * c + P * k2
    <3>1. PICK k \in Int : Y = y * Z * Z * Z + P * k BY <2>2 DEF Same
    <3>2. Y = y * c + P * k BY ONLY <3>1, <2>3, y \in Int, Z \in Int, k \in Int, Modulus
    <3> QED BY <3>2
  <2>5. CASE Y = 0
    <3>1. Divides(y * c)
      <4>1. y * c = P * (0 - k2) BY <2>4, <2>5, Modulus
      <4>2. 0 - k2 \in Int OBVIOUS
      <4> QED BY <4>1, <4>2, Zenon DEF Divides
    <3>2. Divides(y)
      <4>1. y * c = c * y OBVIOUS
      <4> QED BY <3>1, <4>1, <2>3, DividesFactor
    <3>3. Divides(y + y) BY <3>2, Plus
    <3>4. Sum(a, a) = None BY <2>1, <3>3, SumOpposite
    <3>5. JacDouble(p) = Inf BY <2>2, <2>5 DEF JacDouble
    <3> QED BY <3>4, <3>5, InfStands
  <2>6. CASE Y # 0
    <3>1. ~Divides(Y) BY <2>2, <2>6, NotDivided
    <3>2. ~Divides(y)
      <4> SUFFICES ASSUME Divides(y) PROVE FALSE OBVIOUS
      <4>1. PICK k \in Int : y = P * k BY DEF Divides
      <4>2. Y = P * (k * c + k2) BY <4>1, <2>4, Modulus
      <4>3. k * c + k2 \in Int OBVIOUS
      <4>4. Divides(Y) BY <4>2, <4>3, Zenon DEF Divides
      <4> QED BY <4>4, <3>1
    <3>3. ~Divides(2 * y) BY <3>2, NotTwo, NotProduct
    <3>4. PICK l \in Int : /\ Divides(l * (2 * y) - 3 * x * x)
                           /\ Sum(a, a) = <<(l * l - x - x) % P,
                                            (l * (x - ((l * l - x - x) % P)) - y) % P>>
      BY ONLY <3>3, <2>1, SumTangent
    <3>5. Same(l * (2 * y), 3 * x * x)
      <4>1. l * (2 * y) \in Int /\ 3 * x * x \in Int OBVIOUS
      <4> QED BY ONLY <3>4, <4>1, SameIs
    <3>6. PICK x3 \in Int : /\ x3 \in Field /\ x3 = (l * l - x - x) % P
                           /\ Same(x3, l * l - x - x)
      <4>1. l * l - x - x \in Int OBVIOUS
      <4> QED BY ONLY <4>1, ModIs
    <3>7. PICK y3 \in Int : /\ y3 \in Field /\ y3 = (l * (x - x3) - y) % P
                           /\ Same(y3, l * (x - x3) - y)
      <4>1. l * (x - x3) - y \in Int OBVIOUS
      <4> QED BY ONLY <4>1, ModIs
    <3>8. Sum(a, a) = <<x3, y3>> BY <3>4, <3>6, <3>7
    <3>9. PICK Y2 \in Int : Y2 = (Y * Y) % P /\ Same(Y2, Y * Y)
      <4>1. Y * Y \in Int OBVIOUS
      <4> QED BY ONLY <4>1, ModIs
    <3>10. PICK S \in Int : S = (4 * X * Y2) % P /\ Same(S, 4 * X * Y2)
      <4>1. 4 * X * Y2 \in Int OBVIOUS
      <4> QED BY ONLY <4>1, ModIs
    <3>11. PICK M \in Int : M = (3 * X * X) % P /\ Same(M, 3 * X * X)
      <4>1. 3 * X * X \in Int OBVIOUS
      <4> QED BY ONLY <4>1, ModIs
    <3>12. PICK Y4 \in Int : Y4 = (Y2 * Y2) % P /\ Same(Y4, Y2 * Y2)
      <4>1. Y2 * Y2 \in Int OBVIOUS
      <4> QED BY ONLY <4>1, ModIs
    <3>13. PICK X3 \in Int : /\ X3 \in Field /\ X3 = (M * M - 2 * S) % P
                            /\ Same(X3, M * M - 2 * S)
      <4>1. M * M - 2 * S \in Int OBVIOUS
      <4> QED BY ONLY <4>1, ModIs
    <3>14. PICK Y3 \in Int : /\ Y3 \in Field /\ Y3 = (M * (S - X3) - 8 * Y4) % P
                            /\ Same(Y3, M * (S - X3) - 8 * Y4)
      <4>1. M * (S - X3) - 8 * Y4 \in Int OBVIOUS
      <4> QED BY ONLY <4>1, ModIs
    <3>15. PICK Zr \in Int : /\ Zr \in Field /\ Zr = (2 * Y * Z) % P /\ Same(Zr, 2 * Y * Z)
      <4>1. 2 * Y * Z \in Int OBVIOUS
      <4> QED BY ONLY <4>1, ModIs
    <3>16. JacDouble(p) = <<X3, Y3, Zr>>
      BY <2>2, <2>6, <3>9, <3>10, <3>11, <3>12, <3>13, <3>14, <3>15 DEF JacDouble
    <3>17. Zr # 0
      <4>1. ~Divides(2 * Y) BY <3>1, NotTwo, NotProduct
      <4>2. ~Divides(Z) BY <2>2, NotDivided
      <4>3. 2 * Y \in Int OBVIOUS
      <4>4. ~Divides(2 * Y * Z) BY <4>1, <4>2, <4>3, NotProduct
      <4>5. 2 * Y * Z \in Int OBVIOUS
      <4> QED BY <4>4, <4>5, <3>15, DividesRest
    <3>18. Same(X3, x3 * Zr * Zr) /\ Same(Y3, y3 * Zr * Zr * Zr)
      <4>1. Doubling(X, Y, Z, x, y, l, Y2, S, M, Y4, X3, Y3, Zr, x3, y3)
        BY ONLY <2>2, <3>5, <3>6, <3>7, <3>9, <3>10, <3>11, <3>12, <3>13, <3>14, <3>15,
                Zenon
           DEF Doubling
      <4> QED BY ONLY <4>1, X \in Int, Y \in Int, Z \in Int, x \in Int, y \in Int,
                      l \in Int, Y2 \in Int, S \in Int, M \in Int, Y4 \in Int, X3 \in Int,
                      Y3 \in Int,
                      Zr \in Int, x3 \in Int, y3 \in Int, DoubleAlgebra
    <3>19. Stands(<<X3, Y3, Zr>>, <<x3, y3>>)
      BY ONLY <3>6, <3>7, <3>13, <3>14, <3>15, <3>17, <3>18, PointStands
    <3> QED BY <3>8, <3>16, <3>19
  <2> QED BY <2>5, <2>6
<1> QED BY <1>1, <1>2

LEMMA Scaled ==
  ASSUME NEW x \in Field, NEW u \in Field, NEW T \in Int, ~Divides(T),
         NEW E \in Int, NEW m \in Int, E = (x - u) * T + P * m
  PROVE  Divides(E) <=> x = u
<1>1. x \in Int /\ u \in Int /\ x - u \in Int BY FieldInt
<1>2. ASSUME x = u PROVE Divides(E)
  <2>1. E = P * m BY <1>1, <1>2, Modulus
  <2> QED BY <2>1, Zenon DEF Divides
<1>3. ASSUME Divides(E) PROVE x = u
  <2>1. PICK k \in Int : E = P * k BY <1>3 DEF Divides
  <2>2. T * (x - u) = P * (k - m) BY <2>1, <1>1, Modulus
  <2>3. k - m \in Int OBVIOUS
  <2>4. Divides(T * (x - u)) BY <2>2, <2>3, Zenon DEF Divides
  <2>5. Divides(x - u) BY <2>4, <1>1, DividesFactor
  <2> QED BY <2>5, SameInField
<1> QED BY <1>2, <1>3

\* SameX and SameY compare the points that the triples stand for.
LEMMA SameIffSame ==
  ASSUME NEW p, NEW q, NEW x \in Int, NEW y \in Int, NEW u \in Int, NEW v \in Int,
         Stands(p, <<x, y>>), Stands(q, <<u, v>>)
  PROVE  (SameX(p, q) <=> x = u) /\ (SameY(p, q) <=> y = v)
<1>1. PICK X1 \in Int, Y1 \in Int, Z1 \in Int :
        /\ p = <<X1, Y1, Z1>> /\ Z1 \in Field /\ Z1 # 0 /\ x \in Field /\ y \in Field
        /\ Same(X1, x * Z1 * Z1) /\ Same(Y1, y * Z1 * Z1 * Z1)
  BY ONLY Stands(p, <<x, y>>), x \in Int, y \in Int, StandsPoint
<1>2. PICK X2 \in Int, Y2 \in Int, Z2 \in Int :
        /\ q = <<X2, Y2, Z2>> /\ Z2 \in Field /\ Z2 # 0 /\ u \in Field /\ v \in Field
        /\ Same(X2, u * Z2 * Z2) /\ Same(Y2, v * Z2 * Z2 * Z2)
  BY ONLY Stands(q, <<u, v>>), u \in Int, v \in Int, StandsPoint
<1>3. ~Divides(Z1) /\ ~Divides(Z2) BY <1>1, <1>2, NotDivided
<1>4. PICK t \in Int, T \in Int, W \in Int : t = Z1 * Z2 /\ T = t * t /\ W = T * t OBVIOUS
<1>5. ~Divides(T) /\ ~Divides(W)
  <2>1. ~Divides(t) BY <1>3, <1>4, NotProduct
  <2>2. ~Divides(T) BY <2>1, <1>4, NotProduct
  <2>3. ~Divides(W) BY <2>1, <2>2, <1>4, NotProduct
  <2> QED BY <2>2, <2>3
<1>6. SameX(p, q) <=> x = u
  <2>1. PICK k \in Int : X1 = x * Z1 * Z1 + P * k BY <1>1 DEF Same
  <2>2. PICK l \in Int : X2 = u * Z2 * Z2 + P * l BY <1>2 DEF Same
  <2>3. PICK E \in Int, m \in Int :
          E = X1 * Z2 * Z2 - X2 * Z1 * Z1 /\ m = k * Z2 * Z2 - l * Z1 * Z1 OBVIOUS
  <2>4. E = (x - u) * T + P * m
    BY ONLY <1>4, <2>1, <2>2, <2>3, Modulus, x \in Int, u \in Int, Z1 \in Int, Z2 \in Int,
            k \in Int, l \in Int
  <2>5. Divides(E) <=> x = u BY <1>1, <1>2, <1>5, <2>4, Scaled
  <2>6. SameX(p, q) <=> E % P = 0 BY <1>1, <1>2, <2>3 DEF SameX
  <2> QED BY <2>5, <2>6, DividesRest
<1>7. SameY(p, q) <=> y = v
  <2>1. PICK k \in Int : Y1 = y * Z1 * Z1 * Z1 + P * k BY <1>1 DEF Same
  <2>2. PICK l \in Int : Y2 = v * Z2 * Z2 * Z2 + P * l BY <1>2 DEF Same
  <2>3. PICK E \in Int, m \in Int :
          /\ E = Y1 * Z2 * Z2 * Z2 - Y2 * Z1 * Z1 * Z1
          /\ m = k * Z2 * Z2 * Z2 - l * Z1 * Z1 * Z1 OBVIOUS
  <2>4. E = (y - v) * W + P * m
    BY ONLY <1>4, <2>1, <2>2, <2>3, Modulus, y \in Int, v \in Int, Z1 \in Int, Z2 \in Int,
            k \in Int, l \in Int
  <2>5. Divides(E) <=> y = v BY <1>1, <1>2, <1>5, <2>4, Scaled
  <2>6. SameY(p, q) <=> E % P = 0 BY <1>1, <1>2, <2>3 DEF SameY
  <2> QED BY <2>5, <2>6, DividesRest
<1> QED BY <1>6, <1>7

LEMMA ChordStands ==
  ASSUME NEW p, NEW q, NEW x \in Int, NEW y \in Int, NEW u \in Int, NEW v \in Int, x # u,
         <<x, y>> \in Curve, <<u, v>> \in Curve, Stands(p, <<x, y>>), Stands(q, <<u, v>>)
  PROVE  Stands(Chord(p, q), Sum(<<x, y>>, <<u, v>>))
<1>1. PICK X1 \in Int, Y1 \in Int, Z1 \in Int :
        /\ p = <<X1, Y1, Z1>> /\ Z1 \in Field /\ Z1 # 0 /\ x \in Field
        /\ Same(X1, x * Z1 * Z1) /\ Same(Y1, y * Z1 * Z1 * Z1)
  BY ONLY Stands(p, <<x, y>>), x \in Int, y \in Int, StandsPoint
<1>2. PICK X2 \in Int, Y2 \in Int, Z2 \in Int :
        /\ q = <<X2, Y2, Z2>> /\ Z2 \in Field /\ Z2 # 0 /\ u \in Field
        /\ Same(X2, u * Z2 * Z2) /\ Same(Y2, v * Z2 * Z2 * Z2)
  BY ONLY Stands(q, <<u, v>>), u \in Int, v \in Int, StandsPoint
<1>3. ~Divides(Z1) /\ ~Divides(Z2) BY <1>1, <1>2, NotDivided
<1>4. ~Divides(u - x) BY <1>1, <1>2, FieldDiffer
<1>5. PICK l \in Int : /\ Divides(l * (u - x) - (v - y))
                       /\ Sum(<<x, y>>, <<u, v>>)
                            = <<(l * l - x - u) % P, (l * (x - ((l * l - x - u) % P)) - y) % P>>
  BY ONLY <1>4, x \in Int, y \in Int, u \in Int, v \in Int, SumChord
<1>6. Same(l * (u - x), v - y)
  <2>1. l * (u - x) \in Int /\ v - y \in Int OBVIOUS
  <2> QED BY ONLY <1>5, <2>1, SameIs
<1>7. PICK x3 \in Int : x3 \in Field /\ x3 = (l * l - x - u) % P /\ Same(x3, l * l - x - u)
  <2>1. l * l - x - u \in Int OBVIOUS
  <2> QED BY ONLY <2>1, ModIs
<1>8. PICK y3 \in Int : /\ y3 \in Field /\ y3 = (l * (x - x3) - y) % P
                        /\ Same(y3, l * (x - x3) - y)
  <2>1. l * (x - x3) - y \in Int OBVIOUS
  <2> QED BY ONLY <2>1, ModIs
<1>9. Sum(<<x, y>>, <<u, v>>) = <<x3, y3>> BY <1>5, <1>7, <1>8
<1>10. PICK U1 \in Int : U1 = (X1 * Z2 * Z2) % P /\ Same(U1, X1 * Z2 * Z2)
  <2>1. X1 * Z2 * Z2 \in Int OBVIOUS
  <2> QED BY ONLY <2>1, ModIs
<1>11. PICK S1 \in Int : S1 = (Y1 * Z2 * Z2 * Z2) % P /\ Same(S1, Y1 * Z2 * Z2 * Z2)
  <2>1. Y1 * Z2 * Z2 * Z2 \in Int OBVIOUS
  <2> QED BY ONLY <2>1, ModIs
<1>12. PICK H \in Int : H = (X2 * Z1 * Z1 - U1) % P /\ Same(H, X2 * Z1 * Z1 - U1)
  <2>1. X2 * Z1 * Z1 - U1 \in Int OBVIOUS
  <2> QED BY ONLY <2>1, ModIs
<1>13. PICK R \in Int : R = (Y2 * Z1 * Z1 * Z1 - S1) % P /\ Same(R, Y2 * Z1 * Z1 * Z1 - S1)
  <2>1. Y2 * Z1 * Z1 * Z1 - S1 \in Int OBVIOUS
  <2> QED BY ONLY <2>1, ModIs
<1>14. PICK T \in Int : T = (U1 * H * H) % P /\ Same(T, U1 * H * H)
  <2>1. U1 * H * H \in Int OBVIOUS
  <2> QED BY ONLY <2>1, ModIs
<1>15. PICK H3 \in Int : H3 = (H * H * H) % P /\ Same(H3, H * H * H)
  <2>1. H * H * H \in Int OBVIOUS
  <2> QED BY ONLY <2>1, ModIs
<1>16. PICK X3 \in Int : /\ X3 \in Field /\ X3 = (R * R - H3 - 2 * T) % P
                         /\ Same(X3, R * R - H3 - 2 * T)
  <2>1. R * R - H3 - 2 * T \in Int OBVIOUS
  <2> QED BY ONLY <2>1, ModIs
<1>17. PICK Y3 \in Int : /\ Y3 \in Field /\ Y3 = (R * (T - X3) - S1 * H3) % P
                         /\ Same(Y3, R * (T - X3) - S1 * H3)
  <2>1. R * (T - X3) - S1 * H3 \in Int OBVIOUS
  <2> QED BY ONLY <2>1, ModIs
<1>18. PICK Zr \in Int : Zr \in Field /\ Zr = (H * Z1 * Z2) % P /\ Same(Zr, H * Z1 * Z2)
  <2>1. H * Z1 * Z2 \in Int OBVIOUS
  <2> QED BY ONLY <2>1, ModIs
<1>19. Chord(p, q) = <<X3, Y3, Zr>>
  BY <1>1, <1>2, <1>10, <1>11, <1>12, <1>13, <1>14, <1>15, <1>16, <1>17, <1>18 DEF Chord
<1>20. Zr # 0
  <2>1. ~Divides(X1 * Z2 * Z2 - X2 * Z1 * Z1)
    <3>1. ~SameX(p, q)
      BY ONLY x # u, Stands(p, <<x, y>>), Stands(q, <<u, v>>), x \in Int, y \in Int,
              u \in Int,
              v \in Int, SameIffSame
    <3>2. X1 * Z2 * Z2 - X2 * Z1 * Z1 \in Int OBVIOUS
    <3> QED BY <3>1, <3>2, <1>1, <1>2, DividesRest DEF SameX
  <2>2. ~Divides(H)
    <3> SUFFICES ASSUME Divides(H) PROVE FALSE OBVIOUS
    <3>1. PICK k \in Int : H = P * k BY DEF Divides
    <3>2. PICK i \in Int : H = X2 * Z1 * Z1 - U1 + P * i BY <1>12 DEF Same
    <3>3. PICK j \in Int : U1 = X1 * Z2 * Z2 + P * j BY <1>10 DEF Same
    <3>4. PICK a \in Int, b \in Int : a = X1 * Z2 * Z2 /\ b = X2 * Z1 * Z1 OBVIOUS
    <3>5. a - b = P * (i - j - k) BY <3>1, <3>2, <3>3, <3>4, Modulus
    <3>6. i - j - k \in Int OBVIOUS
    <3>7. Divides(a - b) BY <3>5, <3>6, Zenon DEF Divides
    <3> QED BY <3>4, <3>7, <2>1
  <2>3. PICK c \in Int : c = H * Z1 OBVIOUS
  <2>4. ~Divides(c) BY <2>2, <2>3, <1>3, NotProduct
  <2>5. ~Divides(c * Z2) BY <2>4, <1>3, NotProduct
  <2>6. c * Z2 \in Int OBVIOUS
  <2> QED BY <2>3, <2>5, <2>6, <1>18, DividesRest
<1>21. Same(X3, x3 * Zr * Zr) /\ Same(Y3, y3 * Zr * Zr * Zr)
  <2>1. Chording(X1, Y1, Z1, X2, Y2, Z2, x, y, u, v, l, U1, S1, H, R, T, H3, X3, Y3, Zr, x3, y3)
    BY ONLY <1>1, <1>2, <1>6, <1>7, <1>8, <1>10, <1>11, <1>12, <1>13, <1>14, <1>15, <1>16,
            <1>17,
            <1>18, Zenon DEF Chording
  <2> QED BY ONLY <2>1, X1 \in Int, Y1 \in Int, Z1 \in Int, X2 \in Int, Y2 \in Int,
                  Z2 \in Int, x \in Int, y \in Int, u \in Int, v \in Int, l \in Int,
                  U1 \in Int, S1 \in Int, H \in Int, R \in Int, T \in Int, H3 \in Int,
                  X3 \in Int, Y3 \in Int, Zr \in Int,
                  x3 \in Int, y3 \in Int, ChordAlgebra
<1>22. Stands(<<X3, Y3, Zr>>, <<x3, y3>>)
  BY ONLY <1>7, <1>8, <1>16, <1>17, <1>18, <1>20, <1>21, PointStands
<1> QED BY <1>9, <1>19, <1>22

\* _jac_add adds.
LEMMA AddStands ==
  ASSUME NEW p, NEW q, NEW a \in Curve, NEW b \in Curve, Stands(p, a), Stands(q, b)
  PROVE  Stands(JacAdd(p, q), Sum(a, b))
<1>1. CASE a = None
  <2>1. p[3] = 0 BY <1>1, StandsNone
  <2> QED BY <1>1, <2>1, SumNone DEF JacAdd
<1>2. CASE a # None
  <2>1. PICK x \in Int, y \in Int : x \in Field /\ y \in Field /\ a = <<x, y>>
    BY <1>2, CurveIs, FieldInt
  <2>2. PICK X1 \in Int, Y1 \in Int, Z1 \in Int :
          /\ p = <<X1, Y1, Z1>> /\ Z1 \in Field /\ Z1 # 0
          /\ Same(X1, x * Z1 * Z1) /\ Same(Y1, y * Z1 * Z1 * Z1)
    <3>1. Stands(p, <<x, y>>) BY <2>1
    <3> QED BY ONLY <3>1, x \in Int, y \in Int, StandsPoint
  <2>3. CASE b = None
    <3>1. q[3] = 0 BY <2>3, StandsNone
    <3> QED BY <2>2, <2>3, <3>1, SumNone DEF JacAdd
  <2>4. CASE b # None
    <3>1. PICK u \in Int, v \in Int : u \in Field /\ v \in Field /\ b = <<u, v>>
      BY <2>4, CurveIs, FieldInt
    <3>2. PICK X2 \in Int, Y2 \in Int, Z2 \in Int :
            /\ q = <<X2, Y2, Z2>> /\ Z2 \in Field /\ Z2 # 0
            /\ Same(X2, u * Z2 * Z2) /\ Same(Y2, v * Z2 * Z2 * Z2)
      <4>1. Stands(q, <<u, v>>) BY <3>1
      <4> QED BY ONLY <4>1, u \in Int, v \in Int, StandsPoint
    <3>4. (SameX(p, q) <=> x = u) /\ (SameY(p, q) <=> y = v)
      <4>1. Stands(p, <<x, y>>) /\ Stands(q, <<u, v>>) BY <2>1, <3>1
      <4> QED BY ONLY <4>1, x \in Int, y \in Int, u \in Int, v \in Int, SameIffSame
    <3>6. p[3] # 0 /\ q[3] # 0 BY <2>2, <3>2
    <3>7. CASE x = u /\ y = v
      <4>1. JacAdd(p, q) = JacDouble(p) BY <3>4, <3>6, <3>7 DEF JacAdd
      <4> QED BY <4>1, <3>7, <2>1, <3>1, DoubleStands
    <3>8. CASE x = u /\ y # v
      <4>1. JacAdd(p, q) = Inf BY <3>4, <3>6, <3>8 DEF JacAdd
      <4>2. Divides(y * y - x * x * x - 7) /\ Divides(v * v - x * x * x - 7)
        BY <2>1, <3>1, <3>8, CurveIs
      <4>3. Divides(y + v) BY ONLY <4>2, <3>8, <2>1, <3>1, SameOrOpposite
      <4>4. Sum(a, b) = None BY <4>3, <2>1, <3>1, <3>8, SumOpposite
      <4> QED BY <4>1, <4>4, InfStands
    <3>9. CASE x # u
      <4>1. JacAdd(p, q) = Chord(p, q) BY <3>4, <3>6, <3>9 DEF JacAdd
      <4>2. Stands(p, <<x, y>>) /\ Stands(q, <<u, v>>) /\ <<x, y>> \in Curve /\ <<u, v>> \in Curve
        BY <2>1, <3>1
      <4>3. Stands(Chord(p, q), Sum(<<x, y>>, <<u, v>>))
        BY ONLY <4>2, <3>9, x \in Int, y \in Int, u \in Int, v \in Int, ChordStands
      <4> QED BY <4>1, <4>3, <2>1, <3>1
    <3> QED BY <3>7, <3>8, <3>9
  <2> QED BY <2>3, <2>4
<1> QED BY <1>1, <1>2

\* f runs n rounds of the loop.
Runs(f, k, p, n) == f = [i \in 0..n |-> IF i = 0 THEN <<Inf, p, k>> ELSE Round(f[i - 1])]

LEMMA RunsExist == ASSUME NEW k, NEW p PROVE \A n \in Nat : \E f : Runs(f, k, p, n)
<1> DEFINE S == {n \in Nat : \E f : Runs(f, k, p, n)}
<1>1. 0 \in S
  <2>1. Runs([i \in 0..0 |-> <<Inf, p, k>>], k, p, 0) BY DEF Runs
  <2> QED BY <2>1
<1>2. ASSUME NEW n \in Nat, n \in S PROVE n + 1 \in S
  <2>1. PICK f : Runs(f, k, p, n) BY <1>2
  <2> DEFINE g == [i \in 0..n + 1 |-> IF i = n + 1 THEN Round(f[n]) ELSE f[i]]
  <2>2. ASSUME NEW i \in 0..n + 1
        PROVE  g[i] = IF i = 0 THEN <<Inf, p, k>> ELSE Round(g[i - 1])
    <3>1. CASE i = 0 BY <3>1, <2>1 DEF Runs
    <3>2. CASE i = n + 1
      <4>1. g[i - 1] = f[n] /\ g[i] = Round(f[n]) BY <3>2
      <4> QED BY <4>1, <3>2
    <3>3. CASE i \in 1..n
      <4>1. g[i - 1] = f[i - 1] /\ g[i] = f[i] BY <3>3
      <4>2. f[i] = Round(f[i - 1]) BY <3>3, <2>1 DEF Runs
      <4> QED BY <4>1, <4>2, <3>3
    <3> QED BY <3>1, <3>2, <3>3
  <2>3. Runs(g, k, p, n + 1)
    <3>1. g = [i \in 0..n + 1 |-> IF i = 0 THEN <<Inf, p, k>> ELSE Round(g[i - 1])]
      BY <2>2
    <3> QED BY <3>1, Zenon DEF Runs
  <2> QED BY <2>3
<1> HIDE DEF S
<1>3. \A n \in Nat : n \in S BY <1>1, <1>2, Induct
<1> QED BY <1>3 DEF S

LEMMA RoundsAre ==
  ASSUME NEW k \in Nat, NEW p
  PROVE  /\ Rounds(k, p)[0] = <<Inf, p, k>>
         /\ \A i \in Nat : i < k => Rounds(k, p)[i + 1] = Round(Rounds(k, p)[i])
<1> DEFINE f == CHOOSE f : Runs(f, k, p, k)
<1>1. Runs(f, k, p, k) BY RunsExist
<1>2. Rounds(k, p) = f BY DEF Rounds, Runs
<1> HIDE DEF f
<1>3. f[0] = <<Inf, p, k>> BY <1>1 DEF Runs
<1>4. ASSUME NEW i \in Nat, i < k PROVE f[i + 1] = Round(f[i])
  <2>1. i + 1 \in 0..k /\ i + 1 # 0 /\ (i + 1) - 1 = i BY <1>4
  <2> QED BY <2>1, <1>1 DEF Runs
<1> QED BY <1>2, <1>3, <1>4

\* What the loop of _jac_mul keeps: r stands for the multiples a and b of G, and
\* r[3] times the addend is still to be added.
Ladder(r, i, k, m) ==
  \E a, b, c \in Nat : /\ r = <<r[1], r[2], c>> /\ c <= k - i
                       /\ Stands(r[1], Mul(a)) /\ Stands(r[2], Mul(b))
                       /\ a + c * b = k * m

LEMMA LadderKept ==
  ASSUME NEW r, NEW i \in Nat, NEW k \in Nat, NEW m \in Nat, i < k, Ladder(r, i, k, m)
  PROVE  Ladder(Round(r), i + 1, k, m)
<1>1. PICK a \in Nat, b \in Nat, c \in Nat :
        /\ r = <<r[1], r[2], c>> /\ c <= k - i
        /\ Stands(r[1], Mul(a)) /\ Stands(r[2], Mul(b)) /\ a + c * b = k * m
  BY DEF Ladder
<1>2. CASE c = 0
  <2>1. Round(r) = r BY <1>1, <1>2 DEF Round
  <2>2. c <= k - (i + 1) BY <1>2
  <2> QED BY <2>1, <2>2, <1>1, Zenon DEF Ladder
<1>3. CASE c # 0
  <2>1. PICK h \in Nat, o \in Nat : h = c \div 2 /\ o = c % 2 /\ c = 2 * h + o /\ o \in {0, 1}
    OBVIOUS
  <2>2. h <= k - (i + 1) BY <2>1, <1>1, <1>3
  <2>3. Mul(a) \in Curve /\ Mul(b) \in Curve BY MulOn
  <2>4. Stands(JacDouble(r[2]), Mul(b + b)) BY <2>3, <1>1, DoubleStands, MulSum
  <2>5. PICK s : s = <<IF o = 1 THEN JacAdd(r[1], r[2]) ELSE r[1], JacDouble(r[2]), h>>
    OBVIOUS
  <2>6. Round(r) = s
    <3>1. r[3] = c BY <1>1
    <3> QED BY ONLY <3>1, <1>3, <2>1, <2>5 DEF Round
  <2>7. PICK d \in Nat, n \in Nat : d = a + o * b /\ n = b + b BY <2>1
  <2>8. Stands(s[1], Mul(d))
    <3>1. CASE o = 1
      <4>1. Stands(JacAdd(r[1], r[2]), Mul(a + b)) BY <2>3, <1>1, AddStands, MulSum
      <4> QED BY <4>1, <3>1, <2>5, <2>7
    <3>2. CASE o = 0 BY <3>2, <1>1, <2>5, <2>7
    <3> QED BY <3>1, <3>2, <2>1
  <2>9. s = <<s[1], s[2], h>> /\ Stands(s[2], Mul(n)) BY <2>4, <2>5, <2>7
  <2>10. d + h * n = k * m
    <3>1. d + h * n = a + c * b
      BY ONLY <2>1, <2>7, a \in Nat, b \in Nat, h \in Nat, o \in Nat
    <3> QED BY <3>1, <1>1
  <2> QED BY <2>2, <2>6, <2>8, <2>9, <2>10, Zenon DEF Ladder
<1> QED BY <1>2, <1>3

LEMMA RoundsStand ==
  ASSUME NEW k \in Nat, NEW m \in Nat, NEW p, Stands(p, Mul(m))
  PROVE  Stands(Rounds(k, p)[k][1], Mul(k * m))
<1> DEFINE S == {i \in Nat : i <= k => Ladder(Rounds(k, p)[i], i, k, m)}
<1>1. 0 \in S
  <2>1. PICK r : r = <<Inf, p, k>> OBVIOUS
  <2>2. r = <<r[1], r[2], k>> /\ r[1] = Inf /\ r[2] = p BY <2>1
  <2>3. Stands(r[1], Mul(0)) BY <2>2, InfStands, MulStep
  <2>4. 0 \in Nat /\ k <= k - 0 /\ 0 + k * m = k * m OBVIOUS
  <2>5. Ladder(r, 0, k, m) BY <2>2, <2>3, <2>4, Zenon DEF Ladder
  <2> QED BY <2>1, <2>5, RoundsAre
<1>2. ASSUME NEW i \in Nat, i \in S PROVE i + 1 \in S
  <2> SUFFICES ASSUME i + 1 <= k PROVE Ladder(Rounds(k, p)[i + 1], i + 1, k, m) OBVIOUS
  <2>1. i < k /\ Ladder(Rounds(k, p)[i], i, k, m) BY <1>2
  <2>2. Ladder(Round(Rounds(k, p)[i]), i + 1, k, m) BY <2>1, LadderKept
  <2> QED BY <2>1, <2>2, RoundsAre
<1> HIDE DEF S
<1>3. \A i \in Nat : i \in S BY <1>1, <1>2, Induct
<1>4. Ladder(Rounds(k, p)[k], k, k, m) BY <1>3 DEF S
<1>5. PICK r : r = Rounds(k, p)[k] OBVIOUS
<1>6. PICK a \in Nat, b \in Nat, c \in Nat :
        c <= k - k /\ Stands(r[1], Mul(a)) /\ a + c * b = k * m
  BY <1>4, <1>5 DEF Ladder
<1>7. a = k * m
  <2>1. c = 0 BY <1>6
  <2> QED BY <2>1, <1>6
<1> QED BY <1>5, <1>6, <1>7

\* _jac_mul multiplies: if p stands for m * G, JacMul(k, p) stands for k * m * G,
\* for every k and m, although its loop may add a point to itself, to its
\* opposite and to the point at infinity.
THEOREM MultiplesStand ==
  ASSUME NEW k \in Nat, NEW m \in Nat, NEW p, Stands(p, Mul(m))
  PROVE  Stands(JacMul(k, p), Mul(k * m))
<1>1. PICK q \in Nat, r \in Nat : k = N * q + r /\ r = k % N BY RestOfN
<1>2. Mul(k * m) = Mul(r * m)
  <2>1. k * m = N * (q * m) + r * m
    <3>1. k = N * q + r BY <1>1
    <3> QED BY ONLY <3>1, OrderOfG, q \in Nat, r \in Nat, m \in Nat
  <2>2. k * m \in Int /\ q * m \in Int /\ r * m \in Int OBVIOUS
  <2> QED BY ONLY <2>1, <2>2, MulSame
<1>3. CASE r = 0
  <2>1. JacMul(k, p) = Inf BY <1>1, <1>3 DEF JacMul
  <2>2. r * m = 0 BY <1>3
  <2> QED BY <2>1, <2>2, <1>2, MulStep, InfStands
<1>4. CASE p[3] = 0
  <2>1. JacMul(k, p) = Inf BY <1>4 DEF JacMul
  <2>2. Mul(m) = None BY <1>4 DEF Stands
  <2>3. m % N = 0 BY <2>2, MulNone
  <2>4. PICK l \in Nat : m = N * l
    <3>1. PICK l \in Nat : m = N * l + 0 BY <2>3, RestOfN
    <3>2. m = N * l BY ONLY <3>1, OrderOfG, l \in Nat
    <3> QED BY <3>2
  <2>5. k * m = N * (k * l) + 0 BY <2>4, OrderOfG
  <2>6. k * m \in Int /\ k * l \in Int OBVIOUS
  <2>7. Mul(k * m) = Mul(0) BY ONLY <2>5, <2>6, MulSame
  <2> QED BY <2>1, <2>7, MulStep, InfStands
<1>5. CASE r # 0 /\ p[3] # 0
  <2>1. JacMul(k, p) = Rounds(r, p)[r][1] BY <1>1, <1>5 DEF JacMul
  <2>2. Stands(Rounds(r, p)[r][1], Mul(r * m)) BY RoundsStand
  <2> QED BY <2>1, <2>2, <1>2
<1> QED BY <1>3, <1>4, <1>5

LEMMA GStands == Stands(G, Mul(1))
<1>1. Mul(1) = Base
  <2>1. Mul(0 + 1) = Sum(Mul(0), Base) BY MulStep
  <2> QED BY <2>1, MulStep, SumNone
<1>2. Gx \in Field /\ Gy \in Field /\ 1 \in Field /\ 1 # 0
  BY CurveAssumption, Modulus DEF Field
<1>3. Gx \in Int /\ Gy \in Int BY <1>2, FieldInt
<1>4. Same(Gx, Gx * 1 * 1)
  <2>1. Gx = Gx * 1 * 1 + P * 0 BY <1>3, Modulus
  <2> QED BY <2>1 DEF Same
<1>5. Same(Gy, Gy * 1 * 1 * 1)
  <2>1. Gy = Gy * 1 * 1 * 1 + P * 0 BY <1>3, Modulus
  <2> QED BY <2>1 DEF Same
<1>6. Stands(<<Gx, Gy, 1>>, <<Gx, Gy>>) BY ONLY <1>2, <1>4, <1>5, PointStands
<1> QED BY <1>1, <1>6 DEF G, Base

-----------------------------------------------------------------------------
(* _to_affine and _lift_x.                                                   *)

\* _to_affine
LEMMA AffineIs == ASSUME NEW p, NEW a \in Curve, Stands(p, a) PROVE ToAffine(p) = a
<1>1. CASE a = None
  <2>1. p[3] = 0 BY <1>1, StandsNone
  <2> QED BY <1>1, <2>1 DEF ToAffine
<1>2. CASE a # None
  <2>1. PICK x \in Int, y \in Int : x \in Field /\ y \in Field /\ a = <<x, y>>
    BY <1>2, CurveIs, FieldInt
  <2>2. PICK X \in Int, Y \in Int, Z \in Int :
           /\ p = <<X, Y, Z>> /\ Z \in Field /\ Z # 0
           /\ Same(X, x * Z * Z) /\ Same(Y, y * Z * Z * Z)
    <3>1. Stands(p, <<x, y>>) BY <2>1
    <3> QED BY ONLY <3>1, x \in Int, y \in Int, StandsPoint
  <2>3. PICK i \in Int : i = Pow(Z, P - 2) /\ Divides(i * Z - 1) BY ONLY <2>2, HasInverse
  <2>4. PICK i2 \in Int : i2 = (i * i) % P /\ Same(i2, i * i)
    <3>1. i * i \in Int OBVIOUS
    <3> QED BY ONLY <3>1, ModIs
  <2>5. PICK i3 \in Int : i3 = (i2 * i) % P /\ Same(i3, i2 * i)
    <3>1. i2 * i \in Int OBVIOUS
    <3> QED BY ONLY <3>1, ModIs
  <2>6. PICK u \in Int : u \in Field /\ u = (X * i2) % P /\ Same(u, X * i2)
    <3>1. X * i2 \in Int OBVIOUS
    <3> QED BY ONLY <3>1, ModIs
  <2>7. PICK v \in Int : v \in Field /\ v = (Y * i3) % P /\ Same(v, Y * i3)
    <3>1. Y * i3 \in Int OBVIOUS
    <3> QED BY ONLY <3>1, ModIs
  <2>8. ToAffine(p) = <<u, v>> BY <2>2, <2>3, <2>4, <2>5, <2>6, <2>7 DEF ToAffine
  <2>9. PICK j \in Int : i * Z = 1 + P * j
    <3>1. PICK j \in Int : i * Z - 1 = P * j BY <2>3 DEF Divides
    <3>2. i * Z = 1 + P * j BY <3>1, Modulus
    <3> QED BY <3>2
  <2>10. PICK w \in Int : w = i * Z OBVIOUS
  <2>15. w = 1 + P * j BY <2>9, <2>10
  <2>11. PICK n2 \in Int : i2 = i * i + P * n2 BY <2>4 DEF Same
  <2>12. PICK n3 \in Int : i3 = i2 * i + P * n3 BY <2>5 DEF Same
  <2>13. u = x
    <3>1. PICK k \in Int : X = x * Z * Z + P * k BY <2>2 DEF Same
    <3>2. PICK l \in Int : u = X * i2 + P * l BY <2>6 DEF Same
    <3>3. u = x * w * w + P * (l + X * n2 + k * i * i)
      BY ONLY <3>1, <3>2, <2>10, <2>11, Modulus, x \in Int, Z \in Int, i \in Int,
              k \in Int, l \in Int, n2 \in Int
    <3>4. x * w * w = x + P * (x * j * (w + 1))
      BY ONLY <2>15, Modulus, x \in Int, j \in Int
    <3>5. PICK m \in Int : m = l + X * n2 + k * i * i + x * j * (w + 1) OBVIOUS
    <3>6. u = x + P * m BY ONLY <3>3, <3>4, <3>5, Modulus, x \in Int, k \in Int,
                                l \in Int, i \in Int, j \in Int, w \in Int, X \in Int,
                                n2 \in Int, u \in Int
    <3>7. Divides(u - x)
      <4>1. Same(u, x) BY <3>6 DEF Same
      <4> QED BY <4>1, SameIs
    <3> QED BY <3>7, <2>1, <2>6, SameInField
  <2>14. v = y
    <3>1. PICK k \in Int : Y = y * Z * Z * Z + P * k BY <2>2 DEF Same
    <3>2. PICK l \in Int : v = Y * i3 + P * l BY <2>7 DEF Same
    <3>3. PICK n \in Int : n = n3 + n2 * i OBVIOUS
    <3>4. i3 = i * i * i + P * n
      BY ONLY <3>3, <2>11, <2>12, Modulus, i \in Int, n2 \in Int, n3 \in Int
    <3>5. v = y * w * w * w + P * (l + Y * n + k * i * i * i)
      BY ONLY <3>1, <3>2, <3>4, <2>10, Modulus, y \in Int, Z \in Int, i \in Int,
              k \in Int, l \in Int, n \in Int
    <3>6. y * w * w * w = y + P * (y * j * (w * w + w + 1))
      BY ONLY <2>15, Modulus, y \in Int, j \in Int
    <3>7. PICK m \in Int : m = l + Y * n + k * i * i * i + y * j * (w * w + w + 1) OBVIOUS
    <3>8. v = y + P * m BY ONLY <3>5, <3>6, <3>7, Modulus, y \in Int, k \in Int,
                                l \in Int, i \in Int, j \in Int, w \in Int, Y \in Int,
                                n \in Int, v \in Int
    <3>9. Divides(v - y)
      <4>1. Same(v, y) BY <3>8 DEF Same
      <4> QED BY <4>1, SameIs
    <3> QED BY <3>9, <2>1, <2>7, SameInField
  <2> QED BY <2>1, <2>8, <2>13, <2>14
<1> QED BY <1>1, <1>2

LEMMA SameTimes ==
  ASSUME NEW a \in Int, NEW b \in Int, NEW c \in Int, NEW d \in Int, Same(a, b), Same(c, d)
  PROVE  Same(a * c, b * d)
<1>1. PICK k \in Int : a = b + P * k BY DEF Same
<1>2. PICK l \in Int : c = d + P * l BY DEF Same
<1>3. PICK m \in Int : m = k * c + b * l OBVIOUS
<1>4. a * c = b * d + P * m
  BY ONLY <1>1, <1>2, <1>3, Modulus, b \in Int, d \in Int, k \in Int, l \in Int
<1> QED BY <1>4, Zenon DEF Same

LEMMA SameTrans ==
  ASSUME NEW a \in Int, NEW b \in Int, NEW c \in Int, Same(a, b), Same(b, c)
  PROVE  Same(a, c)
<1>1. PICK k \in Int : a = b + P * k BY DEF Same
<1>2. PICK l \in Int : b = c + P * l BY DEF Same
<1>3. PICK m \in Int : m = k + l OBVIOUS
<1>4. a = c + P * m BY ONLY <1>1, <1>2, <1>3, Modulus, c \in Int, k \in Int, l \in Int
<1> QED BY <1>4, Zenon DEF Same

LEMMA SameSelf == ASSUME NEW a \in Int PROVE Same(a, a)
<1>1. a = a + P * 0 BY Modulus
<1> QED BY <1>1 DEF Same

LEMMA SameBack == ASSUME NEW a \in Int, NEW b \in Int, Same(a, b) PROVE Same(b, a)
<1>1. PICK k \in Int : a = b + P * k BY DEF Same
<1>2. b = a + P * (0 - k) BY <1>1, Modulus
<1>3. 0 - k \in Int OBVIOUS
<1> QED BY <1>2, <1>3, Zenon DEF Same

LEMMA PowIsInt ==
  ASSUME NEW b \in Int, NEW i \in Nat
  PROVE  Pow(b, i) \in Int /\ Pow(b, i) \in Field
  BY PowInt, FieldInt

\* One more factor.
LEMMA PowNext ==
  ASSUME NEW b \in Int, NEW i \in Nat
  PROVE  Same(Pow(b, i + 1), Pow(b, i) * b)
<1>1. PICK c \in Int : c = Pow(b, i) BY PowIsInt
<1>2. Pow(b, i + 1) = (c * b) % P BY <1>1, PowStep
<1>3. c * b \in Int OBVIOUS
<1>4. Same((c * b) % P, c * b) BY ONLY <1>3, ModIs
<1> QED BY <1>1, <1>2, <1>4

LEMMA PowSum ==
  ASSUME NEW b \in Int, NEW i \in Nat
  PROVE  \A j \in Nat : Same(Pow(b, i + j), Pow(b, i) * Pow(b, j))
<1> DEFINE S == {j \in Nat : Same(Pow(b, i + j), Pow(b, i) * Pow(b, j))}
<1>0. PICK a \in Int : a = Pow(b, i) BY PowIsInt
<1>1. 0 \in S
  <2>1. i + 0 = i /\ a * 1 = a OBVIOUS
  <2>2. Pow(b, 0) = 1 BY PowStep
  <2>3. Same(Pow(b, i + 0), Pow(b, i) * Pow(b, 0)) BY <2>1, <2>2, <1>0, SameSelf
  <2> QED BY <2>3
<1>2. ASSUME NEW j \in Nat, j \in S PROVE j + 1 \in S
  <2>0. i + j \in Nat /\ (i + j) + 1 \in Nat /\ j + 1 \in Nat OBVIOUS
  <2>1. PICK c \in Int, d \in Int : c = Pow(b, j) /\ d = Pow(b, i + j) BY <2>0, PowIsInt
  <2>2. Same(d, a * c) BY <1>2, <1>0, <2>1
  <2>3. PICK c1 \in Int, d1 \in Int : c1 = Pow(b, j + 1) /\ d1 = Pow(b, (i + j) + 1)
    BY <2>0, PowIsInt
  <2>4. Same(c1, c * b) /\ Same(d1, d * b) BY <2>1, <2>3, PowNext
  <2>5. PICK k \in Int : d = a * c + P * k BY <2>2 DEF Same
  <2>6. PICK l \in Int : c1 = c * b + P * l BY <2>4 DEF Same
  <2>7. PICK m \in Int : d1 = d * b + P * m BY <2>4 DEF Same
  <2>8. PICK n \in Int : n = m + k * b - a * l OBVIOUS
  <2>9. d1 = a * c1 + P * n
    BY ONLY <2>5, <2>6, <2>7, <2>8, Modulus, a \in Int, b \in Int, c \in Int, k \in Int,
            l \in Int, m \in Int
  <2>10. Same(d1, a * c1) BY <2>9, Zenon DEF Same
  <2>11. (i + j) + 1 = i + (j + 1) OBVIOUS
  <2>12. Same(Pow(b, i + (j + 1)), Pow(b, i) * Pow(b, j + 1))
    BY ONLY <2>3, <2>10, <2>11, <1>0, Zenon
  <2> QED BY <2>12
<1> HIDE DEF S
<1>3. \A j \in Nat : j \in S BY <1>1, <1>2, Induct
<1> QED BY <1>3 DEF S

LEMMA PowSquare ==
  ASSUME NEW b \in Int, NEW c \in Int, Same(c, b * b)
  PROVE  \A i \in Nat : Same(Pow(c, i), Pow(b, i) * Pow(b, i))
<1> DEFINE S == {i \in Nat : Same(Pow(c, i), Pow(b, i) * Pow(b, i))}
<1>0. PICK h \in Int : c = b * b + P * h BY DEF Same
<1>1. 0 \in S
  <2>1. Pow(b, 0) = 1 /\ Pow(c, 0) = 1 BY PowStep
  <2>2. 1 \in Int /\ 1 * 1 = 1 OBVIOUS
  <2>3. Same(Pow(c, 0), Pow(b, 0) * Pow(b, 0)) BY <2>1, <2>2, SameSelf
  <2> QED BY <2>3
<1>2. ASSUME NEW i \in Nat, i \in S PROVE i + 1 \in S
  <2>1. PICK u \in Int, v \in Int : u = Pow(c, i) /\ v = Pow(b, i) BY PowIsInt
  <2>2. PICK u1 \in Int, v1 \in Int : u1 = Pow(c, i + 1) /\ v1 = Pow(b, i + 1) BY PowIsInt
  <2>3. Same(u1, u * c) /\ Same(v1, v * b) BY <2>1, <2>2, PowNext
  <2>4. Same(u, v * v) BY <1>2, <2>1
  <2>5. PICK k \in Int : u1 = u * c + P * k BY <2>3 DEF Same
  <2>6. PICK l \in Int : v1 = v * b + P * l BY <2>3 DEF Same
  <2>7. PICK m \in Int : u = v * v + P * m BY <2>4 DEF Same
  <2>8. PICK n \in Int : n = k + m * c + v * v * h - l * (v1 + v * b) OBVIOUS
  <2>9. u1 = v1 * v1 + P * n
    BY ONLY <1>0, <2>5, <2>6, <2>7, <2>8, Modulus, b \in Int, v \in Int, h \in Int,
            k \in Int, l \in Int, m \in Int
  <2>10. Same(u1, v1 * v1) BY <2>9, Zenon DEF Same
  <2>11. Same(Pow(c, i + 1), Pow(b, i + 1) * Pow(b, i + 1)) BY <2>2, <2>10
  <2> QED BY <2>11
<1> HIDE DEF S
<1>3. \A i \in Nat : i \in S BY <1>1, <1>2, Induct
<1> QED BY <1>3 DEF S

LEMMA PowOrder == ASSUME NEW y \in Int, y \in Field PROVE Same(Pow(y, P + 1), y * y)
<1>1. PICK n \in Nat : n = P - 1 /\ P + 1 = (n + 1) + 1 BY Modulus
<1>2. PICK a \in Int, b \in Int, c \in Int :
        a = Pow(y, n) /\ b = Pow(y, n + 1) /\ c = Pow(y, (n + 1) + 1) BY PowIsInt
<1>3. Same(b, a * y) /\ Same(c, b * y)
  <2>1. n + 1 \in Nat OBVIOUS
  <2> QED BY <2>1, <1>2, PowNext
<1>4. a * y = y
  <2>1. CASE y = 0
    <3>1. a * y = 0 BY <2>1
    <3> QED BY <3>1, <2>1
  <2>2. CASE y # 0
    <3>1. y \in 1..P - 1 BY <2>2, Modulus DEF Field
    <3>2. a = 1 BY <3>1, <1>1, <1>2, FieldAssumption
    <3> QED BY <3>2
  <2> QED BY <2>1, <2>2
<1>5. PICK k \in Int : b = y + P * k BY <1>3, <1>4 DEF Same
<1>6. PICK l \in Int : c = b * y + P * l BY <1>3 DEF Same
<1>7. PICK m \in Int : m = k * y + l OBVIOUS
<1>8. c = y * y + P * m
  BY ONLY <1>5, <1>6, <1>7, Modulus, y \in Int, k \in Int, l \in Int
<1>9. Same(c, y * y) BY <1>8, Zenon DEF Same
<1> QED BY <1>1, <1>2, <1>9

\* The square root of _lift_x.
LEMMA RootIs ==
  ASSUME NEW y \in Int, y \in Field, NEW c \in Int, Same(c, y * y), NEW r \in Int,
         r = Pow(c, (P + 1) \div 4)
  PROVE  r \in Field /\ Same(r * r, y * y)
<1>1. PICK q \in Nat : q = (P + 1) \div 4 /\ P + 1 = (q + q) + (q + q) BY Modulus
<1>2. r \in Field BY <1>1, PowIsInt
<1>3. PICK s \in Int, s2 \in Int, s4 \in Int :
        s = Pow(y, q) /\ s2 = Pow(y, q + q) /\ s4 = Pow(y, (q + q) + (q + q))
  <2>1. q + q \in Nat /\ (q + q) + (q + q) \in Nat OBVIOUS
  <2> QED BY <2>1, PowIsInt
<1>4. Same(r, s * s) BY <1>1, <1>3, PowSquare
<1>5. Same(s2, s * s) BY <1>3, PowSum
<1>6. Same(s4, s2 * s2)
  <2>1. q + q \in Nat OBVIOUS
  <2> QED BY <2>1, <1>3, PowSum
<1>7. Same(s4, y * y) BY <1>1, <1>3, PowOrder
<1>8. PICK a \in Int, b \in Int, t \in Int : a = s * s /\ b = y * y /\ t = r * r OBVIOUS
<1>9. Same(t, a * a) BY <1>4, <1>8, SameTimes
<1>10. Same(s2 * s2, a * a) BY <1>5, <1>8, SameTimes
<1>11. s2 * s2 \in Int /\ a * a \in Int OBVIOUS
<1>12. Same(s4, a * a) BY <1>6, <1>10, <1>11, SameTrans
<1>13. Same(a * a, s4) BY <1>12, <1>11, SameBack
<1>14. Same(t, s4) BY <1>9, <1>13, <1>11, SameTrans
<1>15. Same(t, b) BY <1>14, <1>7, <1>8, SameTrans
<1> QED BY <1>2, <1>8, <1>15

LEMMA PowThree == ASSUME NEW x \in Int PROVE Same(Pow(x, 3), x * x * x)
<1>1. PICK a \in Int, b \in Int, c \in Int : a = Pow(x, 1) /\ b = Pow(x, 2) /\ c = Pow(x, 3)
  BY PowIsInt
<1>2. Pow(x, 0) = 1 BY PowStep
<1>3. Same(a, 1 * x)
  <2>1. 0 \in Nat /\ 0 + 1 = 1 OBVIOUS
  <2> QED BY <2>1, <1>1, <1>2, PowNext
<1>4. Same(b, a * x)
  <2>1. 1 \in Nat /\ 1 + 1 = 2 OBVIOUS
  <2> QED BY <2>1, <1>1, PowNext
<1>5. Same(c, b * x)
  <2>1. 2 \in Nat /\ 2 + 1 = 3 OBVIOUS
  <2> QED BY <2>1, <1>1, PowNext
<1>6. PICK i \in Int : a = x + P * i BY <1>3 DEF Same
<1>7. PICK j \in Int : b = a * x + P * j BY <1>4 DEF Same
<1>8. PICK k \in Int : c = b * x + P * k BY <1>5 DEF Same
<1>9. PICK m \in Int : m = i * x * x + j * x + k OBVIOUS
<1>10. c = x * x * x + P * m
  BY ONLY <1>6, <1>7, <1>8, <1>9, Modulus, x \in Int, i \in Int, j \in Int, k \in Int
<1> QED BY <1>1, <1>10, Zenon DEF Same

LEMMA NoZero ==
  ASSUME NEW x \in Field, NEW y \in Field, <<x, y>> \in Curve PROVE x > 0 /\ x < P
<1>1. x \in Int /\ x >= 0 /\ x < P /\ y \in Int BY FieldInt
<1>2. x # 0
  <2> SUFFICES ASSUME x = 0 PROVE FALSE OBVIOUS
  <2>1. (y * y) % P = (x * x * x + 7) % P BY NotNone DEF Curve
  <2>2. x * x * x + 7 = 7 OBVIOUS
  <2>3. (y * y) % P = 7 % P BY <2>1, <2>2
  <2> QED BY <2>3, CurveAssumption DEF Field
<1> QED BY <1>1, <1>2

\* _lift_x finds the point with an even y.
LEMMA LiftIs ==
  ASSUME NEW x \in Int, NEW y \in Int, x \in Field, y \in Field, <<x, y>> \in Curve
  PROVE  LiftX(x) = <<x, IF y % 2 = 0 THEN y ELSE P - y>>
<1>1. PICK a \in Int : a = Pow(x, 3) BY PowIsInt
<1>2. PICK c \in Int : c \in Field /\ c = (a + 7) % P /\ Same(c, a + 7)
  <2>1. a + 7 \in Int OBVIOUS
  <2> QED BY ONLY <2>1, ModIs
<1>3. PICK t \in Int : t = y * y OBVIOUS
<1>4. Same(c, t)
  <2>1. PICK i \in Int : c = a + 7 + P * i BY <1>2 DEF Same
  <2>2. PICK j \in Int : a = x * x * x + P * j BY <1>1, PowThree DEF Same
  <2>3. PICK k \in Int : y * y - x * x * x - 7 = P * k BY CurveIs DEF Divides
  <2>4. PICK m \in Int : m = i + j - k OBVIOUS
  <2>5. PICK w \in Int : w = x * x * x OBVIOUS
  <2>6. c = t + P * m
    BY ONLY <2>1, <2>2, <2>3, <2>4, <2>5, <1>3, Modulus, i \in Int, j \in Int, k \in Int,
            a \in Int
  <2> QED BY <2>6, Zenon DEF Same
<1>5. PICK r \in Int : r = Pow(c, (P + 1) \div 4)
  <2>1. (P + 1) \div 4 \in Nat BY Modulus
  <2> QED BY <2>1, PowIsInt
<1>6. r \in Field /\ Same(r * r, t)
  <2>1. Same(c, y * y) BY <1>3, <1>4
  <2> QED BY ONLY <2>1, <1>3, <1>5, y \in Int, y \in Field, c \in Int, RootIs
<1>7. (r * r) % P = c
  <2>1. PICK s \in Int : s = r * r OBVIOUS
  <2>2. Same(t, c) BY <1>4, SameBack
  <2>3. Same(s, c) BY <2>1, <2>2, <1>6, SameTrans
  <2>4. Divides(s - c) BY <2>3, SameIs
  <2>5. s % P = c % P BY <2>4, SameRest
  <2>6. c % P = c BY <1>2, FieldInt
  <2> QED BY <2>1, <2>5, <2>6
<1>8. x > 0 /\ x < P BY NoZero
<1>9. LiftX(x) = <<x, IF r % 2 = 1 THEN P - r ELSE r>>
  BY ONLY <1>1, <1>2, <1>5, <1>7, <1>8, x \in Int, Modulus DEF LiftX
<1>10. r = y \/ r + y = P
  <2>1. PICK s \in Int : s = r * r OBVIOUS
  <2>2. Divides(s - t) BY <1>6, <2>1, SameIs
  <2>3. PICK u \in Int, v \in Int : u = r - y /\ v = r + y OBVIOUS
  <2>4. s - t = u * v BY ONLY <2>1, <2>3, <1>3, r \in Int, y \in Int
  <2>5. Divides(u) \/ Divides(v) BY <2>2, <2>4, DividesFactor
  <2>6. ASSUME Divides(u) PROVE r = y BY <2>6, <2>3, <1>6, SameInField
  <2>7. ASSUME Divides(v) PROVE r = y \/ r + y = P
    <3>1. PICK k \in Int : v = P * k BY <2>7 DEF Divides
    <3>2. r >= 0 /\ r < P /\ y >= 0 /\ y < P BY <1>6, FieldInt
    <3>3. k = 0 \/ k = 1
      <4>1. 0 <= P * k /\ P * k < 2 * P
        <5>1. 0 <= v /\ v < 2 * P BY ONLY <3>2, <2>3, r \in Int, y \in Int, Modulus
        <5> QED BY ONLY <3>1, <5>1
      <4>2. k < 2 /\ k > 0 - 1
        <5>1. ~(k >= 2)
          <6> SUFFICES ASSUME k >= 2 PROVE FALSE OBVIOUS
          <6>1. P * k >= P * 2 BY Modulus
          <6> QED BY <6>1, <4>1, Modulus
        <5>2. ~(k <= 0 - 1)
          <6> SUFFICES ASSUME k <= 0 - 1 PROVE FALSE OBVIOUS
          <6>1. P * k <= P * (0 - 1) BY Modulus
          <6> QED BY <6>1, <4>1, Modulus
        <5> QED BY <5>1, <5>2
      <4> QED BY <4>2
    <3>4. CASE k = 0
      <4>1. r + y = 0 BY <3>1, <3>4, <2>3, Modulus
      <4> QED BY <4>1, <3>2
    <3>5. CASE k = 1 BY <3>1, <3>5, <2>3, Modulus
    <3> QED BY <3>3, <3>4, <3>5
  <2> QED BY <2>5, <2>6, <2>7
<1>11. PICK h \in Nat : P = 2 * h + 1
  <2>1. PICK q \in Nat : q = (P + 1) \div 4 /\ P + 1 = (q + q) + (q + q) BY Modulus
  <2>2. q + q - 1 \in Nat /\ P = 2 * (q + q - 1) + 1 BY <2>1, Modulus
  <2> QED BY <2>2
<1>12. (IF r % 2 = 1 THEN P - r ELSE r) = (IF y % 2 = 0 THEN y ELSE P - y)
  BY ONLY <1>10, <1>11, r \in Int, y \in Int, Modulus
<1> QED BY <1>9, <1>12

LEMMA MulIsPoint ==
  ASSUME NEW d \in Nat, d % N # 0
  PROVE  \E x, y \in Int : x \in Field /\ y \in Field /\ Mul(d) = <<x, y>> /\ <<x, y>> \in Curve
<1>1. Mul(d) \in Curve /\ Mul(d) # None BY MulOn, MulNone
<1>2. PICK x \in Field, y \in Field : Mul(d) = <<x, y>> BY <1>1, CurveIs
<1>3. x \in Int /\ y \in Int BY FieldInt
<1> QED BY <1>1, <1>2, <1>3

\* The point that _lift_x finds for the x of d's public key is that of EvenScalar(d).
LEMMA EvenIs ==
  ASSUME NEW d \in Nat, d > 0, d < N
  PROVE  /\ LiftX(Mul(d)[1]) = Mul(EvenScalar(d))
         /\ EvenScalar(d) \in Nat /\ EvenScalar(d) > 0 /\ EvenScalar(d) < N
         /\ Mul(EvenScalar(d))[2] % 2 = 0 /\ Mul(EvenScalar(d))[1] = Mul(d)[1]
<1>1. d % N = d /\ Mul(d) = Multiple[d] BY MulSmall
<1>2. PICK x \in Int, y \in Int :
        x \in Field /\ y \in Field /\ Mul(d) = <<x, y>> /\ <<x, y>> \in Curve
  BY <1>1, MulIsPoint
<1>3. LiftX(x) = <<x, IF y % 2 = 0 THEN y ELSE P - y>> BY <1>2, LiftIs
<1>4. EvenScalar(d) \in Nat /\ EvenScalar(d) > 0 /\ EvenScalar(d) < N
  BY OrderOfG DEF EvenScalar
<1>5. CASE y % 2 = 0
  <2>1. EvenScalar(d) = d BY <1>1, <1>2, <1>5 DEF EvenScalar
  <2> QED BY <2>1, <1>2, <1>3, <1>4, <1>5
<1>6. CASE y % 2 # 0
  <2>1. EvenScalar(d) = N - d BY <1>1, <1>2, <1>6 DEF EvenScalar
  <2>2. Mul(N - d) = <<x, (P - y) % P>>
    <3>1. d <= N BY OrderOfG
    <3> QED BY ONLY <3>1, d \in Nat, <1>2, MulOpposite
  <2>3. y # 0 BY <1>6
  <2>4. P - y \in Field BY <2>3, <1>2, Modulus DEF Field
  <2>5. (P - y) % P = P - y BY <2>4, FieldInt
  <2>6. (P - y) % 2 = 0
    <3>1. PICK q \in Nat : q = (P + 1) \div 4 /\ P + 1 = (q + q) + (q + q) BY Modulus
    <3> QED BY ONLY <3>1, <1>6, y \in Int, Modulus
  <2> QED BY <2>1, <2>2, <2>5, <2>6, <1>2, <1>3, <1>4, <1>6
<1> QED BY <1>5, <1>6

-----------------------------------------------------------------------------
(* Public keys, signatures and shared secrets.                               *)

LEMMA PublicIs == ASSUME NEW d \in Nat PROVE Public(d) = Mul(d)
<1>1. Stands(JacMul(d, G), Mul(d * 1)) BY GStands, MultiplesStand
<1>2. d * 1 = d OBVIOUS
<1>3. Mul(d) \in Curve BY MulOn
<1> QED BY <1>1, <1>2, <1>3, AffineIs DEF Public

LEMMA OneStands ==
  ASSUME NEW x \in Int, NEW y \in Int, x \in Field, y \in Field
  PROVE  Stands(<<x, y, 1>>, <<x, y>>)
<1>1. 1 \in Field /\ 1 # 0 BY Modulus DEF Field
<1>2. Same(x, x * 1 * 1) /\ Same(y, y * 1 * 1 * 1)
  <2>1. x * 1 * 1 = x /\ y * 1 * 1 * 1 = y OBVIOUS
  <2> QED BY <2>1, SameSelf
<1> QED BY ONLY <1>1, <1>2, x \in Field, y \in Field, PointStands

\* R of schnorr_verify is (s - c * d) * G.
LEMMA VerifierPoint ==
  ASSUME NEW d \in Nat, d > 0, d < N, NEW c \in Nat, NEW s \in Nat, NEW A,
         A = LiftX(Public(d)[1])
  PROVE  /\ A # None
         /\ ToAffine(JacAdd(JacMul(s, G), JacMul(c, <<A[1], (P - A[2]) % P, 1>>)))
              = Mul(s + c * (N - EvenScalar(d)))
<1>1. PICK D \in Nat : D = EvenScalar(d) /\ D > 0 /\ D < N /\ A = Mul(D) BY PublicIs, EvenIs
<1>2. D % N # 0 BY <1>1, MulSmall
<1>3. PICK x \in Int, y \in Int : x \in Field /\ y \in Field /\ A = <<x, y>>
  BY <1>1, <1>2, MulIsPoint
<1>4. PICK z \in Int : z \in Field /\ z = (P - y) % P
  <2>1. P - y \in Int BY Modulus
  <2> QED BY ONLY <2>1, ModIs
<1>5. PICK n \in Nat : n = N - D BY <1>1, OrderOfG
<1>6. Mul(n) = <<x, z>>
  <2>1. D <= N /\ Mul(D) = <<x, y>> BY <1>1, <1>3, OrderOfG
  <2> QED BY ONLY <2>1, <1>3, <1>4, <1>5, D \in Nat, MulOpposite
<1>7. Stands(<<x, z, 1>>, Mul(n)) BY <1>3, <1>4, <1>6, OneStands
<1>8. Stands(JacMul(c, <<x, z, 1>>), Mul(c * n)) BY <1>7, MultiplesStand
<1>9. Stands(JacMul(s, G), Mul(s))
  <2>1. Stands(JacMul(s, G), Mul(s * 1)) BY GStands, MultiplesStand
  <2>2. s * 1 = s OBVIOUS
  <2> QED BY <2>1, <2>2
<1>10. PICK m \in Nat : m = c * n OBVIOUS
<1>11. Mul(s) \in Curve /\ Mul(m) \in Curve /\ Mul(s + m) \in Curve BY MulOn
<1>12. Stands(JacAdd(JacMul(s, G), JacMul(c, <<x, z, 1>>)), Mul(s + m))
  BY <1>8, <1>9, <1>10, <1>11, AddStands, MulSum
<1>13. ToAffine(JacAdd(JacMul(s, G), JacMul(c, <<x, z, 1>>))) = Mul(s + m)
  BY <1>11, <1>12, AffineIs
<1>14. A # None BY <1>3, NotNone
<1> QED BY <1>1, <1>3, <1>4, <1>5, <1>10, <1>13, <1>14

\* schnorr_verify accepts what BIP-340 makes, with some nonce, and nothing else.
LEMMA VerifiesIffSigned ==
  ASSUME NEW d \in Nat, d > 0, d < N, NEW c \in Nat, NEW r \in Nat, NEW s \in Nat
  PROVE  Verifies(Public(d)[1], c, <<r, s>>)
           <=> \E k \in 1..N - 1 : <<r, s>> = Bip340(d, k, c)
<1>1. PICK D \in Nat : D = EvenScalar(d) /\ D > 0 /\ D < N BY EvenIs
<1>2. PICK n \in Nat, f \in Nat : n = N - D /\ f = s + c * n BY <1>1, OrderOfG
<1>3. Verifies(Public(d)[1], c, <<r, s>>)
        <=> r < P /\ s < N /\ Mul(f) # None /\ Mul(f)[2] % 2 = 0 /\ Mul(f)[1] = r
  <2>1. PICK A : A = LiftX(Public(d)[1]) OBVIOUS
  <2>2. /\ A # None
        /\ ToAffine(JacAdd(JacMul(s, G), JacMul(c, <<A[1], (P - A[2]) % P, 1>>))) = Mul(f)
    BY <2>1, <1>1, <1>2, VerifierPoint
  <2> QED BY <2>1, <2>2 DEF Verifies, Even
<1>4. PICK q \in Int, K \in Nat : f = N * q + K /\ K < N /\ K = f % N BY RestOfN
<1>5. Mul(f) = Mul(K) BY <1>4, MulSame
<1>6. ASSUME Verifies(Public(d)[1], c, <<r, s>>)
      PROVE  \E k \in 1..N - 1 : <<r, s>> = Bip340(d, k, c)
  <2>1. K # 0 BY <1>3, <1>5, <1>6, MulStep
  <2>2. Multiple[K] = Mul(K) BY <1>4, MulSmall
  <2>3. EvenScalar(K) = K BY <2>2, <1>3, <1>5, <1>6 DEF EvenScalar
  <2>4. (K + c * D) % N = s
    <3>1. K + c * D = N * (c - q) + s
      <4>1. K = s + c * (N - D) - N * q BY <1>2, <1>4, OrderOfG
      <4> QED BY ONLY <4>1, OrderOfG, c \in Nat, D \in Nat, q \in Int, s \in Nat
    <3>2. (N * (c - q) + s) % N = s
      <4>1. c - q \in Int OBVIOUS
      <4>2. s < N BY <1>3, <1>6
      <4> QED BY <4>1, <4>2, UniqueRest
    <3> QED BY <3>1, <3>2
  <2>5. <<r, s>> = Bip340(d, K, c) BY <1>1, <1>3, <1>5, <1>6, <2>2, <2>3, <2>4 DEF Bip340
  <2>6. K \in 1..N - 1 BY <1>4, <2>1, OrderOfG
  <2> QED BY <2>5, <2>6
<1>7. ASSUME NEW k \in 1..N - 1, <<r, s>> = Bip340(d, k, c)
      PROVE  Verifies(Public(d)[1], c, <<r, s>>)
  <2>1. k \in Nat /\ k > 0 /\ k < N BY OrderOfG
  <2>2. PICK E \in Nat : /\ E = EvenScalar(k) /\ E > 0 /\ E < N
                         /\ Mul(E)[2] % 2 = 0 /\ Mul(E)[1] = Mul(k)[1] BY <2>1, EvenIs
  <2>3. r = Mul(k)[1]
    <3>1. Mul(k) = Multiple[k] BY <2>1, MulSmall
    <3> QED BY <3>1, <1>7 DEF Bip340
  <2>4. PICK w \in Nat : w = E + c * D OBVIOUS
  <2>5. s = w % N BY <1>1, <1>7, <2>2, <2>4 DEF Bip340
  <2>6. PICK p \in Int : w = N * p + s /\ s < N BY <2>5, RestOfN
  <2>7. f = N * (c - p) + E
    <3>1. s = E + c * D - N * p BY <2>4, <2>6, OrderOfG
    <3>2. f = s + c * (N - D) BY <1>2
    <3> QED BY ONLY <3>1, <3>2, OrderOfG, c \in Nat, D \in Nat, E \in Nat, p \in Int
  <2>8. Mul(f) = Mul(E)
    <3>1. c - p \in Int /\ f \in Int /\ E \in Int OBVIOUS
    <3> QED BY ONLY <2>7, <3>1, MulSame
  <2>9. E % N # 0 BY <2>2, MulSmall
  <2>10. PICK x \in Int, y \in Int : x \in Field /\ y \in Field /\ Mul(E) = <<x, y>>
    BY <2>9, MulIsPoint
  <2>11. Mul(f) # None BY <2>8, <2>10, NotNone
  <2>12. r < P
    <3>1. r = x BY <2>2, <2>3, <2>10
    <3> QED BY <3>1, <2>10, FieldInt
  <2> QED BY <1>3, <2>2, <2>3, <2>6, <2>8, <2>11, <2>12
<1> QED BY <1>6, <1>7

\* The x of a multiple and of its negative.
LEMMA OppositeX ==
  ASSUME NEW i \in Nat, NEW j \in Nat, NEW k \in Nat, i + j = N * k
  PROVE  (Mul(i) = None <=> Mul(j) = None) /\ (Mul(i) # None => Mul(j)[1] = Mul(i)[1])
<1>1. PICK q \in Int, r \in Nat : i = N * q + r /\ r < N /\ r = i % N BY RestOfN
<1>2. Mul(i) = Mul(r) BY <1>1, MulSame
<1>3. PICK n \in Nat : n = N - r BY <1>1, OrderOfG
<1>4. Mul(j) = Mul(n)
  <2>1. j = N * (k - q - 1) + n
    <3>1. j = N * k - N * q - r BY <1>1, OrderOfG
    <3> QED BY ONLY <3>1, <1>3, OrderOfG, k \in Nat, q \in Int, r \in Nat
  <2>2. k - q - 1 \in Int /\ j \in Int /\ n \in Int OBVIOUS
  <2> QED BY ONLY <2>1, <2>2, MulSame
<1>5. CASE r = 0
  <2>1. n = N * 1 + 0 BY <1>3, <1>5, OrderOfG
  <2>2. Mul(n) = Mul(0) BY ONLY <2>1, MulSame, n \in Nat
  <2> QED BY <2>2, <1>2, <1>4, <1>5, MulStep
<1>6. CASE r # 0
  <2>1. r % N # 0 BY <1>1, <1>6, MulSmall
  <2>2. PICK x \in Int, y \in Int : x \in Field /\ y \in Field /\ Mul(r) = <<x, y>>
    BY <2>1, MulIsPoint
  <2>3. Mul(n) = <<x, (P - y) % P>>
    <3>1. r <= N BY <1>1, OrderOfG
    <3> QED BY ONLY <3>1, <1>3, <2>2, r \in Nat, MulOpposite
  <2> QED BY <2>2, <2>3, <1>2, <1>4, NotNone
<1> QED BY <1>5, <1>6

\* The two sides derive the same secret: the x of a * b * G.
LEMMA SharedIs ==
  ASSUME NEW a \in Nat, NEW b \in Nat, b > 0, b < N
  PROVE  SharedX(a, Public(b)[1]) = IF Mul(a * b) = None THEN None ELSE <<Mul(a * b)[1]>>
<1>1. PICK B \in Nat : B = EvenScalar(b) /\ B > 0 /\ B < N /\ LiftX(Public(b)[1]) = Mul(B)
  BY PublicIs, EvenIs
<1>2. B % N # 0 BY <1>1, MulSmall
<1>3. PICK x \in Int, y \in Int : x \in Field /\ y \in Field /\ Mul(B) = <<x, y>>
  BY <1>2, MulIsPoint
<1>4. Stands(<<x, y, 1>>, Mul(B)) BY <1>3, OneStands
<1>5. Stands(JacMul(a, <<x, y, 1>>), Mul(a * B)) BY <1>4, MultiplesStand
<1>6. PICK m \in Nat, n \in Nat : m = a * B /\ n = a * b OBVIOUS
<1>7. ToAffine(JacMul(a, <<x, y, 1>>)) = Mul(m) BY <1>5, <1>6, MulOn, AffineIs
<1>8. SharedX(a, Public(b)[1]) = IF Mul(m) = None THEN None ELSE <<Mul(m)[1]>>
  <2>1. <<x, y>> # None BY NotNone
  <2> QED BY <1>1, <1>3, <1>7, <2>1 DEF SharedX
<1>9. CASE B = b BY <1>6, <1>8, <1>9
<1>10. CASE B = N - b
  <2>1. n + m = N * a
    <3>1. m = a * (N - b) BY <1>6, <1>10
    <3> QED BY ONLY <3>1, <1>6, OrderOfG, a \in Nat, b \in Nat
  <2>2. (Mul(n) = None <=> Mul(m) = None) /\ (Mul(n) # None => Mul(m)[1] = Mul(n)[1])
    BY ONLY <2>1, OppositeX, n \in Nat, m \in Nat, a \in Nat
  <2> QED BY <2>2, <1>6, <1>8
<1> QED BY <1>1, <1>9, <1>10 DEF EvenScalar

LEMMA SharedAgree ==
  ASSUME NEW a \in Nat, NEW b \in Nat, a > 0, a < N, b > 0, b < N
  PROVE  SharedX(a, Public(b)[1]) = SharedX(b, Public(a)[1])
<1>1. a * b = b * a OBVIOUS
<1> QED BY <1>1, SharedIs

-----------------------------------------------------------------------------
(* The lengths of encrypted texts: what nip44_calc_padded_len returns, and  *)
(* that the limits of the readers fit what the writers make.                *)

LEMMA MinIs ==
  ASSUME NEW S, S \subseteq Int, NEW k \in S, \A y \in S : k =< y
  PROVE  Min(S) = k
  <1> DEFINE z == CHOOSE x \in S : \A y \in S : x =< y
  <1>1. z \in S /\ \A y \in S : z =< y
    OBVIOUS
  <1>2. Min(S) = z
    BY Zenon DEF Min
  <1> HIDE DEF z
  <1> QED BY <1>1, <1>2

LEMMA MaxIs ==
  ASSUME NEW S, S \subseteq Int, NEW k \in S, \A y \in S : k >= y
  PROVE  Max(S) = k
  <1> DEFINE z == CHOOSE x \in S : \A y \in S : x >= y
  <1>1. z \in S /\ \A y \in S : z >= y
    OBVIOUS
  <1>2. Max(S) = z
    BY Zenon DEF Max
  <1> HIDE DEF z
  <1> QED BY <1>1, <1>2

LEMMA LargerOf32 ==
  ASSUME NEW p \in Nat
  PROVE  Max({32, p}) = IF p <= 32 THEN 32 ELSE p
  <1> DEFINE S == {32, p}
  <1>1. S \subseteq Int /\ 32 \in S /\ p \in S
    OBVIOUS
  <1>2. CASE p <= 32
    <2>1. \A y \in S : 32 >= y
      BY <1>2
    <2> HIDE DEF S
    <2>2. Max(S) = 32
      BY <1>1, <2>1, MaxIs
    <2> QED BY <2>2, <1>2 DEF S
  <1>3. CASE ~(p <= 32)
    <2>1. \A y \in S : p >= y
      BY <1>3
    <2> HIDE DEF S
    <2>2. Max(S) = p
      BY <1>1, <2>1, MaxIs
    <2> QED BY <2>2, <1>3 DEF S
  <1> QED BY <1>2, <1>3

\* The powers of two that bit lengths of up to 17 are compared with.
Power == [j \in 0..17 |-> 2^j]

LEMMA PowersOfTwo ==
  /\ Power[0] = 1 /\ Power[1] = 2 /\ Power[2] = 4 /\ Power[3] = 8 /\ Power[4] = 16
  /\ Power[5] = 32 /\ Power[6] = 64 /\ Power[7] = 128 /\ Power[8] = 256 /\ Power[9] = 512
  /\ Power[10] = 1024 /\ Power[11] = 2048 /\ Power[12] = 4096 /\ Power[13] = 8192
  /\ Power[14] = 16384 /\ Power[15] = 32768 /\ Power[16] = 65536 /\ Power[17] = 131072
  <1>1. /\ 2^0 = 1 /\ 2^1 = 2 /\ 2^2 = 4 /\ 2^3 = 8 /\ 2^4 = 16 /\ 2^5 = 32 /\ 2^6 = 64
        /\ 2^7 = 128 /\ 2^8 = 256 /\ 2^9 = 512 /\ 2^10 = 1024 /\ 2^11 = 2048
        /\ 2^12 = 4096 /\ 2^13 = 8192 /\ 2^14 = 16384 /\ 2^15 = 32768
        /\ 2^16 = 65536 /\ 2^17 = 131072
    BY SMT
  <1> QED BY <1>1, SMT DEF Power

LEMMA PowersGrow ==
  ASSUME NEW j \in 0..17, NEW k \in 0..17, j < k
  PROVE  Power[j] \in Nat /\ Power[k] \in Nat /\ 2 * Power[j] =< Power[k]
  <1>1. \A i \in 0..17 : \/ i = 0 \/ i = 1 \/ i = 2 \/ i = 3 \/ i = 4 \/ i = 5
                         \/ i = 6 \/ i = 7 \/ i = 8 \/ i = 9 \/ i = 10 \/ i = 11
                         \/ i = 12 \/ i = 13 \/ i = 14 \/ i = 15 \/ i = 16 \/ i = 17
    OBVIOUS
  <1> QED BY <1>1, PowersOfTwo, SMT

LEMMA BitLengthIs ==
  ASSUME NEW k \in 0..16, NEW m \in Nat, Power[k] =< m, m < Power[k + 1]
  PROVE  BitLength(m) = k + 1
  <1> DEFINE S == {j \in 0..17 : m < 2^j}
  <1>1. S = {j \in 0..17 : m < Power[j]}
    BY Zenon DEF Power
  <1>2. S \subseteq Int
    OBVIOUS
  <1>3. k + 1 \in S /\ \A y \in S : k + 1 =< y
    <2> HIDE DEF S
    <2>1. k + 1 \in 0..17
      OBVIOUS
    <2>2. ASSUME NEW y \in 0..17, m < Power[y], y =< k
          PROVE  FALSE
      <3>1. y = k \/ y < k
        BY <2>2
      <3> QED BY <2>2, <3>1, PowersGrow
    <2>3. \A y \in S : k + 1 =< y
      BY <1>1, <2>2
    <2> QED BY <1>1, <2>1, <2>3
  <1> HIDE DEF S
  <1>4. Min(S) = k + 1
    BY <1>2, <1>3, MinIs
  <1> QED BY <1>4 DEF BitLength, S

LEMMA ChunkIs ==
  ASSUME NEW m \in Nat, m >= 32, m <= 65534
  PROVE  Max({32, 2^BitLength(m) \div 8})
           \in {32, 64, 128, 256, 512, 1024, 2048, 4096, 8192}
  <1>1. PICK k \in 5..15 : Power[k] =< m /\ m < Power[k + 1]
    BY PowersOfTwo, SMT
  <1>2. k \in 0..16 /\ k + 1 \in 0..17
    BY SMT
  <1>3. BitLength(m) = k + 1
    BY <1>1, <1>2, BitLengthIs, SMT
  <1>4. 2^BitLength(m) = Power[k + 1]
    <2>1. 2^BitLength(m) = 2^(k + 1)
      BY ONLY <1>3, Zenon
    <2>2. Power[k + 1] = 2^(k + 1)
      BY ONLY <1>2, Zenon DEF Power
    <2> QED BY ONLY <2>1, <2>2, Zenon
  <1> DEFINE p == Power[k + 1] \div 8
  <1>5. p \in {8, 16, 32, 64, 128, 256, 512, 1024, 2048, 4096, 8192}
    <2>1. \/ k = 5 \/ k = 6 \/ k = 7 \/ k = 8 \/ k = 9 \/ k = 10 \/ k = 11
          \/ k = 12 \/ k = 13 \/ k = 14 \/ k = 15
      BY SMT
    <2> QED BY <2>1, PowersOfTwo, SMT
  <1> HIDE DEF p
  <1>6. Max({32, p}) = IF p <= 32 THEN 32 ELSE p
    BY <1>5, LargerOf32, SMT
  <1>7. Max({32, p}) \in {32, 64, 128, 256, 512, 1024, 2048, 4096, 8192}
    BY <1>5, <1>6, SMT
  <1> QED BY <1>4, <1>7, SMT DEF p

LEMMA RoundedUp ==
  ASSUME NEW n \in Int, n >= 1, n <= 65535,
         NEW c \in {32, 64, 128, 256, 512, 1024, 2048, 4096, 8192}
  PROVE  c * Ceil(n, c) \in Int /\ c * Ceil(n, c) >= n /\ c * Ceil(n, c) <= 65536
  <1>1. LET z == 32 * ((n + 32 - 1) \div 32) IN z \in Int /\ z >= n /\ z <= 65536
    BY SMT
  <1>2. LET z == 64 * ((n + 64 - 1) \div 64) IN z \in Int /\ z >= n /\ z <= 65536
    BY SMT
  <1>3. LET z == 128 * ((n + 128 - 1) \div 128) IN z \in Int /\ z >= n /\ z <= 65536
    BY SMT
  <1>4. LET z == 256 * ((n + 256 - 1) \div 256) IN z \in Int /\ z >= n /\ z <= 65536
    BY SMT
  <1>5. LET z == 512 * ((n + 512 - 1) \div 512) IN z \in Int /\ z >= n /\ z <= 65536
    BY SMT
  <1>6. LET z == 1024 * ((n + 1024 - 1) \div 1024) IN z \in Int /\ z >= n /\ z <= 65536
    BY SMT
  <1>7. LET z == 2048 * ((n + 2048 - 1) \div 2048) IN z \in Int /\ z >= n /\ z <= 65536
    BY SMT
  <1>8. LET z == 4096 * ((n + 4096 - 1) \div 4096) IN z \in Int /\ z >= n /\ z <= 65536
    BY SMT
  <1>9. LET z == 8192 * ((n + 8192 - 1) \div 8192) IN z \in Int /\ z >= n /\ z <= 65536
    BY SMT
  <1>10. c * Ceil(n, c) = c * ((n + c - 1) \div c)
    BY SMT DEF Ceil
  <1> QED BY <1>1, <1>2, <1>3, <1>4, <1>5, <1>6, <1>7, <1>8, <1>9, <1>10, SMT

\* A padded text is as long as the text and 32 bytes at least, and 65536 at most.
LEMMA PaddedBounds ==
  ASSUME NEW n \in Int, n >= 1, n <= 65535
  PROVE  /\ PaddedLen(n) \in Int
         /\ PaddedLen(n) >= 32 /\ PaddedLen(n) >= n /\ PaddedLen(n) <= 65536
  <1>1. CASE n <= 32
    <2>1. PaddedLen(n) = 32
      BY ONLY n <= 32, SMT DEF PaddedLen
    <2> QED BY <2>1, <1>1, SMT
  <1>2. CASE ~(n <= 32)
    <2>1. n - 1 \in Nat /\ n - 1 >= 32 /\ n - 1 <= 65534
      BY <1>2, SMT
    <2> DEFINE c == Max({32, 2^BitLength(n - 1) \div 8})
    <2>2. c \in {32, 64, 128, 256, 512, 1024, 2048, 4096, 8192}
      BY <2>1, ChunkIs, SMT
    <2>3. PaddedLen(n) = c * Ceil(n, c)
      BY ONLY ~(n <= 32), SMT DEF PaddedLen
    <2> HIDE DEF c
    <2>4. c * Ceil(n, c) \in Int /\ c * Ceil(n, c) >= n /\ c * Ceil(n, c) <= 65536
      BY <2>2, RoundedUp, SMT
    <2> QED BY <2>3, <2>4, <1>2, SMT
  <1> QED BY <1>1, <1>2, SMT

LEMMA Nip44Lengths ==
  ASSUME NEW n \in Int, NEW l \in Int,
         n >= 1, n =< l, l >= 32, l <= 65536, PaddedLen(n) = l
  PROVE  \E w : /\ Nip44(n) = w /\ w.bytes = 67 + l /\ w.pad = l - n
                /\ w.chars >= 132 /\ w.chars <= 87472
  <1>1. Nip44(n) = [chars |-> Base64(67 + l), bytes |-> 67 + l, pad |-> l - n]
    <2>1. 1 + 32 + 2 + l + 32 = 67 + l
      BY ONLY l \in Int, SMT
    <2> QED BY ONLY <2>1, PaddedLen(n) = l, SMT DEF Nip44
  <1>2. Base64(67 + l) = 4 * ((67 + l + 3 - 1) \div 3)
    BY ONLY l \in Int, SMT DEF Base64, Ceil
  <1>3. /\ 4 * ((67 + l + 3 - 1) \div 3) >= 132
        /\ 4 * ((67 + l + 3 - 1) \div 3) <= 87472
    BY SMT
  <1> QED BY <1>1, <1>2, <1>3, SMT

\* Every answer that nip44_pad takes, and every answer under NIP-04, is read
\* with the length it was written with: nip44_decrypt, nip44_unpad and the
\* PKCS#7 reader refuse none of them, whatever the length, and find the end of
\* the text.  SentIsRead checks this for the lengths around the powers of two.
THEOREM TextsAreRead ==
  /\ \A n \in Nat : CanPad(n) => Nip44Reads(Nip44(n)) = {n}
  /\ \A n \in Nat : Nip04Reads(Nip04(n)) = {n}
  <1>1. ASSUME NEW n \in Nat, CanPad(n)
        PROVE  Nip44Reads(Nip44(n)) = {n}
    <2>1. n \in Int /\ n >= 1 /\ n <= 65535
      BY <1>1, SMT DEF CanPad
    <2>2. PICK l \in Int : l = PaddedLen(n) /\ l >= 32 /\ l >= n /\ l <= 65536
      BY <2>1, PaddedBounds, SMT
    <2>3. PICK w : /\ Nip44(n) = w /\ w.bytes = 67 + l /\ w.pad = l - n
                   /\ w.chars >= 132 /\ w.chars <= 87472
      BY <2>1, <2>2, Nip44Lengths, SMT
    <2>4. 67 + l - 65 = 2 + l /\ 67 + l - 65 - 2 - (l - n) = n
      BY SMT
    <2>5. 67 + l >= 99 /\ 67 + l <= 65603 /\ 2 + l >= 34
      BY <2>2, SMT
    <2>6. Nip44Reads(w) = {n}
      BY <1>1, <2>2, <2>3, <2>4, <2>5, SMT DEF Nip44Reads
    <2> QED BY <2>3, <2>6, SMT
  <1>2. ASSUME NEW n \in Nat
        PROVE  Nip04Reads(Nip04(n)) = {n}
    <2> DEFINE pad == 16 - (n % 16)
    <2>1. pad \in 1..16 /\ n + pad > 0 /\ (n + pad) % 16 = 0 /\ n + pad - pad = n
      BY SMT
    <2>2. Nip04(n).bytes = n + pad /\ Nip04(n).pad = pad
      BY SMT DEF Nip04
    <2> HIDE DEF pad
    <2> QED BY ONLY <2>1, <2>2, SMT DEF Nip04Reads
  <1> QED BY <1>1, <1>2, SMT

-----------------------------------------------------------------------------
(* The theorems of NwcMessage.                                              *)

\* The client's key, and what was received: numbers.
RequestTyped ==
  /\ key \in Nat /\ key > 0 /\ key < N
  /\ phase = "received" => e \in Nat /\ \E r, s \in Nat : sig = <<r, s>>

LEMMA KeysInRange == \A d \in Key : d \in Nat /\ d > 0 /\ d < N
  BY MessageAssumption, OrderOfG

LEMMA ChallengesInRange == \A c \in Challenge : c \in Nat
  BY MessageAssumption, OrderOfG

\* schnorr_sign makes the signatures of BIP-340.
LEMMA SignsBip340 ==
  ASSUME NEW d \in Nat, d > 0, d < N, NEW k \in Nat, k > 0, k < N, NEW c \in Nat
  PROVE  /\ Signature(d, k, c) = Bip340(d, k, c)
         /\ \E r, s \in Nat : Signature(d, k, c) = <<r, s>>
<1>1. Public(d) = Multiple[d] /\ Public(k) = Multiple[k] BY PublicIs, MulSmall
<1>2. Signature(d, k, c) = Bip340(d, k, c) BY <1>1 DEF Signature, Bip340, EvenScalar, Even
<1>3. PICK D \in Nat, K \in Nat : D = EvenScalar(d) /\ K = EvenScalar(k) BY EvenIs
<1>4. (K + c * D) % N \in Nat
  <2>1. K + c * D \in Int OBVIOUS
  <2> QED BY <2>1, RestOfN
<1>5. Multiple[k][1] \in Nat
  <2>1. Mul(k) = Multiple[k] /\ k % N # 0 BY MulSmall
  <2>2. PICK x \in Int, y \in Int : x \in Field /\ Mul(k) = <<x, y>> BY <2>1, MulIsPoint
  <2>3. x >= 0 BY <2>2, FieldInt
  <2> QED BY <2>1, <2>2, <2>3
<1> QED BY <1>2, <1>3, <1>4, <1>5 DEF Bip340

LEMMA RequestTypedStep == RequestTyped /\ [Next]_vars => RequestTyped'
<1> SUFFICES ASSUME RequestTyped, [Next]_vars PROVE RequestTyped' OBVIOUS
<1>1. ASSUME NEW c \in Challenge, NEW k0 \in 1..N - 1, Sign(k0, c) PROVE RequestTyped'
  <2>1. c \in Nat /\ k0 \in Nat /\ k0 > 0 /\ k0 < N BY ChallengesInRange, OrderOfG
  <2>2. \E r, s \in Nat : Signature(key, k0, c) = <<r, s>>
    BY <2>1, SignsBip340 DEF RequestTyped
  <2> QED BY <1>1, <2>1, <2>2 DEF RequestTyped, Sign
<1>2. ASSUME NEW c \in Challenge, NEW r \in 0..P, NEW s \in 0..N, Offer(<<r, s>>, c)
      PROVE  RequestTyped'
  <2>1. c \in Nat /\ r \in Nat /\ s \in Nat BY ChallengesInRange, OrderOfG, Modulus
  <2> QED BY <1>2, <2>1 DEF RequestTyped, Offer
<1>3. CASE Verify BY <1>3 DEF RequestTyped, Verify, sigVars
<1>4. CASE Unknown BY <1>4 DEF RequestTyped, Unknown
<1>5. ASSUME NEW d, NEW s, NEW n, Execute(d, s, n) PROVE RequestTyped'
  BY <1>5 DEF RequestTyped, Execute
<1>6. CASE BuildReply BY <1>6 DEF RequestTyped, BuildReply, sigVars
<1>7. CASE ClientReads BY <1>7 DEF RequestTyped, ClientReads, sigVars
<1>8. CASE UNCHANGED vars BY <1>8 DEF RequestTyped, vars, sigVars
<1> QED BY <1>1, <1>2, <1>3, <1>4, <1>5, <1>6, <1>7, <1>8 DEF Next

LEMMA RequestTypedInit == Init => RequestTyped
  BY KeysInRange DEF Init, RequestTyped

LEMMA AcceptedStep == RequestTyped /\ AcceptedIffSigned /\ [Next]_vars => AcceptedIffSigned'
<1> SUFFICES ASSUME RequestTyped, AcceptedIffSigned, [Next]_vars
             PROVE AcceptedIffSigned'
  OBVIOUS
<1>1. ASSUME NEW c, NEW k0, Sign(k0, c) PROVE AcceptedIffSigned'
  BY <1>1 DEF Sign, AcceptedIffSigned
<1>2. ASSUME NEW c, NEW rs, Offer(rs, c) PROVE AcceptedIffSigned'
  BY <1>2 DEF Offer, AcceptedIffSigned
<1>3. CASE Verify
  <2>1. e \in Nat BY <1>3 DEF Verify, RequestTyped
  <2>2. PICK r \in Nat, s \in Nat : sig = <<r, s>> BY <1>3 DEF Verify, RequestTyped
  <2>3. Verifies(Public(key)[1], e, <<r, s>>)
          <=> \E k \in 1..N - 1 : <<r, s>> = Bip340(key, k, e)
    BY <2>1, VerifiesIffSigned DEF RequestTyped
  <2>4. UNCHANGED <<key, e, sig>> BY <1>3 DEF Verify, sigVars
  <2>5. phase' = IF Verifies(Public(key)[1], e, sig) THEN "accepted" ELSE "rejected"
    BY <1>3 DEF Verify
  <2>6. phase' = "accepted" <=> \E k \in 1..N - 1 : sig = Bip340(key, k, e)
    BY <2>2, <2>3, <2>5
  <2>7. phase' = "accepted" <=> \E k \in 1..N - 1 : sig' = Bip340(key', k, e')
    BY <2>4, <2>6
  <2> QED BY <2>7 DEF AcceptedIffSigned
<1>4. CASE Unknown BY <1>4 DEF Unknown, AcceptedIffSigned
<1>5. ASSUME NEW d, NEW s, NEW n, Execute(d, s, n) PROVE AcceptedIffSigned'
  BY <1>5 DEF Execute, AcceptedIffSigned
<1>6. CASE BuildReply BY <1>6 DEF BuildReply, AcceptedIffSigned
<1>7. CASE ClientReads BY <1>7 DEF ClientReads, AcceptedIffSigned
<1>8. CASE UNCHANGED vars BY <1>8 DEF vars, sigVars, AcceptedIffSigned
<1> QED BY <1>1, <1>2, <1>3, <1>4, <1>5, <1>6, <1>7, <1>8 DEF Next

\* schnorr_verify accepts an event if and only if its signature is one that
\* BIP-340 makes with the client's key: with every curve, key, nonce and
\* challenge, and whatever numbers are offered in place of a signature.
THEOREM OnlySignedAccepted == Spec => []AcceptedIffSigned
<1>1. Init => AcceptedIffSigned BY DEF Init, AcceptedIffSigned
<1> QED BY <1>1, RequestTypedInit, RequestTypedStep, AcceptedStep, PTL DEF Spec

\* What an answer in flight is.
ReplyKept ==
  /\ phase \in {"executed", "sent"} =>
       /\ wallet \in Nat /\ wallet > 0 /\ wallet < N
       /\ scheme \in {"nip44", "nip04"} /\ length \in Nat
  /\ phase = "sent" =>
       /\ wire = Encrypted(scheme, length, SharedX(wallet, Public(key)[1]))
       /\ scheme = "nip44" => CanPad(length)

LEMMA ReadsByLengths ==
  ASSUME NEW v, NEW w, v.chars = w.chars, v.bytes = w.bytes, v.pad = w.pad
  PROVE  Nip44Reads(v) = Nip44Reads(w) /\ Nip04Reads(v) = Nip04Reads(w)
  BY SMT DEF Nip44Reads, Nip04Reads

LEMMA EncryptedRead ==
  ASSUME NEW n \in Nat, NEW secret
  PROVE  /\ CanPad(n) => Nip44Reads(Encrypted("nip44", n, secret)) = {n}
         /\ Nip04Reads(Encrypted("nip04", n, secret)) = {n}
<1>1. PICK v, w : v = Nip44(n) /\ w = Nip04(n) OBVIOUS
<1>2. PICK x : x = Encrypted("nip44", n, secret) OBVIOUS
<1>3. PICK y : y = Encrypted("nip04", n, secret) OBVIOUS
<1>4. x.chars = v.chars /\ x.bytes = v.bytes /\ x.pad = v.pad
  BY ONLY <1>1, <1>2 DEF Encrypted
<1>5. y.chars = w.chars /\ y.bytes = w.bytes /\ y.pad = w.pad
  BY ONLY <1>1, <1>3 DEF Encrypted
<1>6. Nip44Reads(x) = Nip44Reads(v) BY ONLY <1>4, ReadsByLengths
<1>7. Nip04Reads(y) = Nip04Reads(w) BY ONLY <1>5, ReadsByLengths
<1> QED BY <1>1, <1>2, <1>3, <1>6, <1>7, TextsAreRead

LEMMA SentStep ==
  RequestTyped /\ ReplyKept /\ SentIsRead /\ [Next]_vars => ReplyKept' /\ SentIsRead'
<1> SUFFICES ASSUME RequestTyped, ReplyKept, SentIsRead, [Next]_vars
             PROVE  ReplyKept' /\ SentIsRead' OBVIOUS
<1>1. ASSUME NEW c, NEW k0, Sign(k0, c) PROVE ReplyKept' /\ SentIsRead'
  BY <1>1 DEF Sign, ReplyKept, SentIsRead
<1>2. ASSUME NEW c, NEW rs, Offer(rs, c) PROVE ReplyKept' /\ SentIsRead'
  BY <1>2 DEF Offer, ReplyKept, SentIsRead
<1>3. CASE Verify BY <1>3 DEF Verify, ReplyKept, SentIsRead
<1>4. CASE Unknown BY <1>4 DEF Unknown, ReplyKept, SentIsRead
<1>5. ASSUME NEW d \in Key, NEW s \in {"nip44", "nip04"}, NEW n \in Length, Execute(d, s, n)
      PROVE  ReplyKept' /\ SentIsRead'
  <2>1. d \in Nat /\ d > 0 /\ d < N /\ n \in Nat BY KeysInRange, MessageAssumption
  <2> QED BY <1>5, <2>1 DEF Execute, ReplyKept, SentIsRead
<1>6. CASE BuildReply
  <2>1. UNCHANGED <<key, wallet, scheme, length>> /\ phase = "executed"
    BY <1>6 DEF BuildReply, sigVars
  <2>2. CASE phase' = "sent"
    <3>1. ~(scheme = "nip44" /\ ~CanPad(length)) BY <1>6, <2>2 DEF BuildReply
    <3>2. wire' = Encrypted(scheme, length, SharedX(wallet, Public(key)[1]))
      BY <1>6, <3>1 DEF BuildReply
    <3>3. wire' = Encrypted(scheme', length', SharedX(wallet', Public(key')[1]))
      BY <2>1, <3>2
    <3>4. scheme' = "nip44" => CanPad(length') BY <2>1, <3>1
    <3> QED BY <2>1, <2>2, <3>3, <3>4 DEF ReplyKept, SentIsRead
  <2>3. CASE phase' = "dropped" BY <2>3 DEF ReplyKept, SentIsRead
  <2> QED BY <1>6, <2>2, <2>3 DEF BuildReply
<1>7. CASE ClientReads
  <2>1. phase = "sent" /\ phase' = "read" /\ UNCHANGED <<scheme, length, wire>>
    BY <1>7 DEF ClientReads
  <2>2. PICK k : k = SharedX(wallet, Public(key)[1]) OBVIOUS
  <2>3. wire = Encrypted(scheme, length, k) /\ (scheme = "nip44" => CanPad(length))
    BY <2>1, <2>2 DEF ReplyKept
  <2>4. /\ scheme \in {"nip44", "nip04"} /\ length \in Nat
        /\ wallet \in Nat /\ wallet > 0 /\ wallet < N
    BY <2>1 DEF ReplyKept
  <2>5. wire.secret = SharedX(key, Public(wallet)[1])
    <3>1. k = SharedX(key, Public(wallet)[1]) BY <2>2, <2>4, SharedAgree DEF RequestTyped
    <3>2. wire.secret = k BY ONLY <2>3 DEF Encrypted
    <3> QED BY <3>1, <3>2
  <2>6. got' = IF scheme = "nip44" THEN Nip44Reads(wire) ELSE Nip04Reads(wire)
    BY <1>7, <2>5 DEF ClientReads
  <2>7. CASE scheme = "nip44"
    <3>1. Nip44Reads(wire) = {length} BY <2>3, <2>4, <2>7, EncryptedRead
    <3> QED BY <2>1, <2>6, <2>7, <3>1 DEF ReplyKept, SentIsRead
  <2>8. CASE scheme = "nip04"
    <3>1. Nip04Reads(wire) = {length} BY <2>3, <2>4, <2>8, EncryptedRead
    <3> QED BY <2>1, <2>6, <2>8, <3>1 DEF ReplyKept, SentIsRead
  <2> QED BY <2>4, <2>7, <2>8
<1>8. CASE UNCHANGED vars BY <1>8 DEF vars, sigVars, ReplyKept, SentIsRead
<1> QED BY <1>1, <1>2, <1>3, <1>4, <1>5, <1>6, <1>7, <1>8 DEF Next

\* An answer that the daemon sends is read by the client, with the length it was
\* written with: both derive the same secret, whatever their keys, and the
\* readers take what the writers make, whatever its length.
THEOREM AnswersAreRead == Spec => []SentIsRead
<1>1. Init => ReplyKept /\ SentIsRead BY DEF Init, ReplyKept, SentIsRead
<1> QED BY <1>1, RequestTypedInit, RequestTypedStep, SentStep, PTL DEF Spec
=============================================================================
