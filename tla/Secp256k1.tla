----------------------------- MODULE Secp256k1 -----------------------------
(***************************************************************************)
(* The elliptic curve arithmetic of nwc_nostr.py, over a curve of the same *)
(* equation, y^2 = x^3 + 7, whose field and group are small enough for     *)
(* every case to happen: adding a point to itself, to its negative or to   *)
(* the point at infinity has a probability of 2^-256 with the real one.    *)
(*                                                                         *)
(* As with the real constants P % 4 = 3, N is a prime below P, and no      *)
(* point has x = 0.  A point <<X, Y, Z>> stands for x = X/Z^2, y = Y/Z^3.  *)
(***************************************************************************)
EXTENDS Integers, Sequences

CONSTANTS P,   \* _P, the order of the field
          N,   \* _N, the order of the group
          Gx, Gy

ASSUME CurveAssumption == /\ P \in Nat /\ P % 4 = 3 /\ N \in 1..P
                          /\ Gx \in 0..P - 1 /\ Gy \in 0..P - 1
                          /\ (Gy * Gy) % P = (Gx * Gx * Gx + 7) % P
                          /\ \A y \in 0..P - 1 : (y * y) % P # 7 % P

Field == 0..P - 1

\* pow(b, e, P)
Pow(b, e) == LET power[i \in 0..e] == IF i = 0 THEN 1 ELSE (power[i - 1] * b) % P
             IN  power[e]

\* P is a prime (Fermat).
ASSUME FieldAssumption == \A z \in 1..P - 1 : Pow(z, P - 1) = 1

None == <<>>
Inf == <<0, 1, 0>>
G == <<Gx, Gy, 1>>

\* _jac_double
JacDouble(p) ==
  LET Y2 == (p[2] * p[2]) % P
      S == (4 * p[1] * Y2) % P
      M == (3 * p[1] * p[1]) % P
      X3 == (M * M - 2 * S) % P
  IN  IF p[3] = 0 \/ p[2] = 0
      THEN Inf
      ELSE <<X3, (M * (S - X3) - 8 * ((Y2 * Y2) % P)) % P, (2 * p[2] * p[3]) % P>>

\* p and q have the same x, the same y.
SameX(p, q) == (p[1] * q[3] * q[3] - q[1] * p[3] * p[3]) % P = 0
SameY(p, q) == (p[2] * q[3] * q[3] * q[3] - q[2] * p[3] * p[3] * p[3]) % P = 0

\* _jac_add for points with different x.
Chord(p, q) ==
  LET U1 == (p[1] * q[3] * q[3]) % P
      S1 == (p[2] * q[3] * q[3] * q[3]) % P
      H == (q[1] * p[3] * p[3] - U1) % P
      R == (q[2] * p[3] * p[3] * p[3] - S1) % P
      U1H2 == (U1 * H * H) % P
      H3 == (H * H * H) % P
      X3 == (R * R - H3 - 2 * U1H2) % P
  IN  <<X3, (R * (U1H2 - X3) - S1 * H3) % P, (H * p[3] * q[3]) % P>>

\* Mutant: two points with the same x are taken for each other's negatives.
JacAddDistinct(p, q) ==
  IF p[3] = 0 THEN q
  ELSE IF q[3] = 0 THEN p
  ELSE IF SameX(p, q) THEN Inf ELSE Chord(p, q)

\* _jac_add
JacAdd(p, q) ==
  IF p[3] = 0 THEN q
  ELSE IF q[3] = 0 THEN p
  ELSE IF SameX(p, q)
  THEN IF SameY(p, q) THEN JacDouble(p) ELSE Inf
  ELSE Chord(p, q)

\* The loop of _jac_mul: result, addend and k, which ends it when it is 0.
Round(r) == IF r[3] = 0
            THEN r
            ELSE <<IF r[3] % 2 = 1 THEN JacAdd(r[1], r[2]) ELSE r[1],
                   JacDouble(r[2]),
                   r[3] \div 2>>

\* As every round halves k, k rounds are enough.
Rounds(k, p) == LET round[i \in 0..k] == IF i = 0 THEN <<Inf, p, k>> ELSE Round(round[i - 1])
                IN  round

\* _jac_mul
JacMul(k, p) == IF k % N = 0 \/ p[3] = 0 THEN Inf ELSE Rounds(k % N, p)[k % N][1]

\* _to_affine
ToAffine(p) == IF p[3] = 0
               THEN None
               ELSE LET i == Pow(p[3], P - 2)
                        i2 == (i * i) % P
                    IN  <<(p[1] * i2) % P, (p[2] * ((i2 * i) % P)) % P>>

\* _lift_x: the point with that x whose y is even.
LiftX(x) ==
  LET c == (Pow(x, 3) + 7) % P
      y == Pow(c, (P + 1) \div 4)
  IN  IF x <= 0 \/ x >= P \/ (y * y) % P # c
      THEN None
      ELSE <<x, IF y % 2 = 1 THEN P - y ELSE y>>

-----------------------------------------------------------------------------
(* The textbook's group, with which NwcMessage compares the operators above. *)

Over(a, b) == CHOOSE q \in Field : (q * b) % P = a % P

\* Chord and tangent.
Sum(a, b) ==
  LET slope == IF a = b THEN Over(3 * a[1] * a[1], 2 * a[2]) ELSE Over(b[2] - a[2], b[1] - a[1])
      x == (slope * slope - a[1] - b[1]) % P
  IN  CASE a = None -> b
        [] b = None -> a
        [] a # None /\ b # None /\ a[1] = b[1] /\ (a[2] + b[2]) % P = 0 -> None
        [] OTHER -> <<x, (slope * (a[1] - x) - a[2]) % P>>

\* Multiple[i] is i * G.
Multiple == LET m[i \in 0..N - 1] == IF i = 0 THEN None ELSE Sum(m[i - 1], <<Gx, Gy>>)
            IN  [i \in 0..N - 1 |-> m[i]]

\* The points of the curve; None is the one at infinity.
Curve == {None} \cup {a \in Field \X Field : (a[2] * a[2]) % P = (a[1] * a[1] * a[1] + 7) % P}

\* Addition of points is associative, and G generates a group of N of them.
ASSUME GroupAssumption ==
  /\ \A a, b, c \in Curve : Sum(Sum(a, b), c) = Sum(a, Sum(b, c))
  /\ \A i, j \in 0..N - 1 : Multiple[i] = Multiple[j] => i = j
  /\ Sum(Multiple[N - 1], <<Gx, Gy>>) = None
=============================================================================
