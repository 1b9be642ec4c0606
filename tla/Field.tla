------------------------------- MODULE Field -------------------------------
(***************************************************************************)
(* Field elements of the execution library (field.hpp) and polynomials     *)
(* over them (poly.hpp).  An element is an unsigned number of 64 bits,     *)
(* below BASE; every operation is carried out on such numbers, where it    *)
(* may wrap, and only then reduced.                                        *)
(***************************************************************************)
EXTENDS Shamir

CONSTANTS
    Base,          \* the template parameter BASE
    Word           \* 2^64: the number of values of base_t

ASSUME FieldAssumption == Base \in Nat \ {0} /\ Word \in Nat /\ Base < Word

Element == 0 .. Base - 1

\* The constructor, for a value that base_t arithmetic has produced.
Field(val) == (val % Word) % Base

Plus(a, b) == Field(a + b)
\* A mutant of Minus: the operands are the wrong way round.
MinusSwapped(a, b) == Field(b - a)

Minus(a, b) == Field(a - b)

\* A mutant of Times: the product is reduced by the word only.
TimesUnreduced(a, b) == (a * b) % Word

Times(a, b) == Field(a * b)

\* A mutant of Eval: the coefficient is taken before the power of alpha is raised.
EvalLate(secret, coeffs, alpha) ==
    LET loop[i \in 0 .. Len(coeffs)] ==
            IF i = 0 THEN [factor |-> Field(1), res |-> secret]
            ELSE [factor |-> Times(loop[i - 1].factor, alpha),
                  res |-> Plus(loop[i - 1].res, Times(loop[i - 1].factor, coeffs[i]))]
    IN loop[Len(coeffs)].res

\* poly::eval: loop[i] is what factor and res are after i turns of the loop,
\* which multiplies up the powers of the party's alpha.
Eval(secret, coeffs, alpha) ==
    LET loop[i \in 0 .. Len(coeffs)] ==
            IF i = 0 THEN [factor |-> Field(1), res |-> secret]
            ELSE LET factor == Times(loop[i - 1].factor, alpha)
                 IN [factor |-> factor,
                     res |-> Plus(loop[i - 1].res, Times(factor, coeffs[i]))]
    IN loop[Len(coeffs)].res

=============================================================================
