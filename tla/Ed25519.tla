------------------------------- MODULE Ed25519 -------------------------------
(***************************************************************************)
(* ed25519.py on a small curve of the same shape: a twisted Edwards curve  *)
(* -x^2 + y^2 = 1 + D x^2 y^2 over a prime field, Prime % 8 = 5, D not a   *)
(* square, a base point of prime order and a cofactor.  Every statement of *)
(* the code is kept; 2^255 - 19 is replaced.                               *)
(*                                                                         *)
(* An encoded point is a value of y, too large ones included, and a sign.  *)
(* The hash of R, key and message is any scalar: an input.                 *)
(***************************************************************************)
EXTENDS Integers

CONSTANTS Prime, Order, D, GX, GY,
          YLimit                 \* what fits into the bytes of a y

ASSUME CurveAssumption ==
  /\ Prime % 8 = 5 /\ D \in 1 .. Prime - 1
  /\ \A x \in 0 .. Prime - 1 : (x * x) % Prime # D
  /\ (GY * GY - GX * GX - 1 - D * GX * GX * GY * GY) % Prime = 0
  /\ YLimit >= Prime

NoPoint == <<>>
Encoding == [y : 0 .. YLimit - 1, sign : 0 .. 1]

Pow(x, n) == LET power[i \in 0 .. n] == IF i = 0 THEN 1 ELSE (power[i - 1] * x) % Prime
             IN  power[n]
modp_inv(x) == Pow(x % Prime, Prime - 2)
SQRT_M1 == Pow(2, (Prime - 1) \div 4)

-----------------------------------------------------------------------------
\* the candidate root, turned by the root of -1 if need be; its parity is the sign
Root(x2) == LET x == Pow(x2, (Prime + 3) \div 8)
            IN  IF (x * x - x2) % Prime = 0 THEN x ELSE (x * SQRT_M1) % Prime

recover_x(y, sign) ==
  LET x2 == ((y * y - 1) * modp_inv(D * y * y + 1)) % Prime
      x == Root(x2)
  IN  IF y >= Prime THEN -1
      ELSE IF x2 = 0 THEN IF sign = 1 THEN -1 ELSE 0
      ELSE IF (x * x - x2) % Prime # 0 THEN -1
      ELSE IF x % 2 = sign THEN x ELSE Prime - x

point_decompress(e) ==
  LET x == recover_x(e.y, e.sign)
  IN  IF x = -1 THEN NoPoint ELSE <<x, e.y, 1, (x * e.y) % Prime>>

\* extended coordinates: x = X/Z, y = Y/Z, xy = T/Z
G == <<GX, GY, 1, (GX * GY) % Prime>>
Identity == <<0, 1, 1, 0>>

point_add(p, q) ==
  LET a == ((p[2] - p[1]) * (q[2] - q[1])) % Prime
      b == ((p[2] + p[1]) * (q[2] + q[1])) % Prime
      c == (2 * p[4] * q[4] * D) % Prime
      d == (2 * p[3] * q[3]) % Prime
      e == b - a  f == d - c  g == d + c  h == b + a
  IN  <<(e * f) % Prime, (g * h) % Prime, (f * g) % Prime, (e * h) % Prime>>

\* one turn of the loop: double and add; s turns are enough
MulTurn(l) ==
  IF l.s = 0 THEN l
  ELSE [s |-> l.s \div 2, p |-> point_add(l.p, l.p),
        out |-> IF l.s % 2 = 1 THEN point_add(l.out, l.p) ELSE l.out]
point_mul(s, p) ==
  LET after[i \in 0 .. s] == IF i = 0 THEN [s |-> s, p |-> p, out |-> Identity]
                             ELSE MulTurn(after[i - 1])
  IN  after[s].out

point_equal(p, q) == /\ (p[1] * q[3] - q[1] * p[3]) % Prime = 0
                     /\ (p[2] * q[3] - q[2] * p[3]) % Prime = 0

CanonicalScalar_Any(s) == TRUE
CanonicalScalar(s) == s < Order

verify(pub, r, s, hash) ==
  LET a == point_decompress(pub)  rp == point_decompress(r)
  IN  /\ a # NoPoint /\ rp # NoPoint
      /\ CanonicalScalar(s)
      /\ point_equal(point_mul(s, G), point_add(rp, point_mul(hash, a)))

-----------------------------------------------------------------------------
(* The reference: points <<x, y>> and the group law by its definition *)

OnCurve(x, y) == (y * y - x * x - 1 - D * x * x * y * y) % Prime = 0
Curve == {p \in (0 .. Prime - 1) \X (0 .. Prime - 1) : OnCurve(p[1], p[2])}
InverseOf(z) == CHOOSE i \in 0 .. Prime - 1 : (i * z) % Prime = 1
Plus(p, q) ==
  LET k == D * p[1] * q[1] * p[2] * q[2]
  IN  <<((p[1] * q[2] + p[2] * q[1]) * InverseOf((1 + k) % Prime)) % Prime,
        ((p[2] * q[2] + p[1] * q[1]) * InverseOf((1 - k) % Prime)) % Prime>>
Multiples == [p \in Curve |->
  LET times[n \in 0 .. Order - 1] == IF n = 0 THEN <<0, 1>> ELSE Plus(times[n - 1], p)
  IN  times]
\* what an encoding names: the point of that y and that parity
Named(e) == {p \in Curve : p[2] = e.y /\ p[1] % 2 = e.sign}

\* the equation of RFC 8032 with a canonical scalar
Valid(pub, r, s, hash) ==
  \E a \in Named(pub), rp \in Named(r) :
    s < Order /\ Multiples[<<GX, GY>>][s] = Plus(rp, Multiples[a][hash])
=============================================================================
