------------------------------- MODULE Shamir -------------------------------
(***************************************************************************)
(* Shamir's sharing over the field of p elements, p prime: polynomials,    *)
(* and the weights that put values of them together again.                 *)
(***************************************************************************)
EXTENDS Integers, Sequences

FieldInverse(a, p) == CHOOSE x \in 1 .. p - 1 : (x * a) % p = 1

\* x ^ n.
Power(x, n) ==
    LET power[i \in Nat] == IF i = 0 THEN 1 ELSE power[i - 1] * x
    IN power[n]

\* secret + a_1 * x^1 + ... + a_t * x^t (comment at poly.hpp:24), modulo p.
Polynomial(p, secret, coeffs, x) ==
    LET sum[i \in 0 .. Len(coeffs)] ==
            IF i = 0 THEN secret ELSE sum[i - 1] + (coeffs[i] * Power(x, i))
    IN sum[Len(coeffs)] % p

\* The values at the points are those of a polynomial of degree at most deg
\* that hides the secret.
IsSharing(p, values, points, deg, secret) ==
    \E coeffs \in [1 .. deg -> 0 .. p - 1] :
        \A i \in DOMAIN points : values[i] = Polynomial(p, secret, coeffs, points[i])

\* The Lagrange coefficient of point i: the weight of the value there when the
\* values at the points of P, a set of numbers up to n, make up the value at 0.
Weight(p, n, i, P) ==
    LET weight[j \in 0 .. n] ==
            IF j = 0 THEN 1
            ELSE IF j \in P \ {i} THEN (weight[j - 1] * (j * FieldInverse((j - i) % p, p))) % p
            ELSE weight[j - 1]
    IN weight[n]

At0(p, n, values, P) ==
    LET sum[i \in 0 .. n] ==
            IF i = 0 THEN 0
            ELSE IF i \in P THEN sum[i - 1] + (Weight(p, n, i, P) * values[i])
            ELSE sum[i - 1]
    IN sum[n] % p
=============================================================================
