----------------------------- MODULE MCFrontend -----------------------------
\* Instances of FrontendMeaning for TLC.
EXTENDS FrontendMeaning, TLC

\* Which variable is which makes no difference.
AnyVariable == Permutations(Var)

\* A secret of party 1 and a random value of party 2.
SecretAndRandomness ==
    <<[kind |-> "secret", party |-> 1, type |-> "arith"],
      [kind |-> "randomness", party |-> 2, type |-> "arith"]>>

\* The inputs and the coefficients of a sample, which has a number.
MCInput(s, k) == (s * (k + 1) + k * k) % FieldSize
MCCoefficient(s, k, j) == (s * k + 3 * j + k * j + 1) % FieldSize
=============================================================================
