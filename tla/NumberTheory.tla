---------------------------- MODULE NumberTheory ----------------------------
(* Arithmetic modulo m on BigInts: number-theory.mjs and                   *)
(* modular-division.mjs. A number that there is not (NaN, or an exception) *)
(* is NoNumber, outside every field.                                       *)
EXTENDS Integers, SequencesExt

NoNumber == -2

(* The remainder as JavaScript has it, with the sign of a. *)
Rem(a, m) == IF a >= 0 THEN a % m ELSE -((-a) % m)
Mod(a, m) == Rem(Rem(a, m) + m, m)

AddMod(terms, m) == FoldLeft(LAMBDA e, a : Rem(Rem(e + m, m) + a, m), 0, terms)
MulMod(factors, m) == FoldLeft(LAMBDA e, a : Rem(Rem(e + m, m) * a, m), 1, factors)

PowerMod(base, exponent, m) ==
    LET power[result, b, e \in Nat] ==
            IF e = 0 THEN result
            ELSE power[IF e % 2 = 1 THEN Rem(result * b, m) ELSE result, Rem(b * b, m), e \div 2]
    IN IF m = 1 THEN 0 ELSE power[1, Rem(base + m, m), exponent]

(* flips counts sign changes; b is odd. *)
JacobiSymbol(a, b) ==
    LET jacobi[x, y, flips \in Nat] ==
            IF x = 0 THEN 0
            ELSE IF x = 1 THEN IF flips % 2 = 1 THEN -1 ELSE 1
            ELSE IF x % 2 = 0
            THEN jacobi[x \div 2, y, flips + (((y % 8) * (y % 8) - 1) \div 8)]
            ELSE jacobi[y % x, x, flips + (((x % 4) - 1) * ((y % 4) - 1)) \div 4]
    IN IF b % 2 = 0 \/ b < 0 THEN NoNumber
       ELSE jacobi[(IF a < 0 THEN Rem(a, b) + b ELSE a) % b, b, 0]

QuadraticNonresidue(p) ==
    CHOOSE x \in 2..p - 1 : JacobiSymbol(x, p) = -1 /\ \A y \in 2..x - 1 : JacobiSymbol(y, p) # -1

(* The s in n = q * 2 ^ s with q odd. *)
TwoPower(n) == CHOOSE s \in 0..n : n % 2 ^ s = 0 /\ (n \div 2 ^ s) % 2 = 1

Squared(x, times, p) == FoldLeft(LAMBDA y, k : Mod(y * y, p), x, [k \in 1..times |-> k])

TonelliShanks(r0, t0, c0, m0, p) ==
    LET Lowest(t, m) ==
            LET ones == {i \in 1..m - 1 : Squared(t, i, p) = 1}
            IN IF ones = {} THEN m ELSE CHOOSE x \in ones : \A y \in ones : x <= y
        loop[r, t, c, m \in Nat] ==
            LET i == Lowest(t, m)
                b == Squared(c, m - i - 1, p)
            IN IF t = 1 THEN r ELSE loop[Mod(r * b, p), Mod(t * b * b, p), Mod(b * b, p), i]
    IN loop[r0, t0, c0, m0]

RootOfAnything(n, p) == PowerMod(n, (p + 1) \div 4, p)   \* mutant
SquareRootModPrime(n, p) ==
    LET s == TwoPower(p - 1)
        q == (p - 1) \div 2 ^ s
    IN IF JacobiSymbol(n, p) = 0 THEN 0
       ELSE IF JacobiSymbol(n, p) # 1 THEN NoNumber
       ELSE IF p % 4 = 3 THEN PowerMod(n, (p + 1) \div 4, p)
       ELSE TonelliShanks(PowerMod(n, (q + 1) \div 2, p), PowerMod(n, q, p),
                          PowerMod(QuadraticNonresidue(p), q, p), s, p)

(* <<gcd, x, y>> with a * x + b * y = gcd. *)
GcdExtended(a0, b0) ==
    LET gcd[a, b \in Nat] ==
            IF a = 0 THEN <<b, 0, 1>>
            ELSE LET g == gcd[b % a, a] IN <<g[1], g[3] - (b \div a) * g[2], g[2]>>
    IN gcd[a0, b0]

ModInverse(b, m) ==
    LET g == GcdExtended(b, m) IN IF g[1] # 1 THEN NoNumber ELSE Mod(g[2], m)

ModDivide(a, b, m) ==
    LET inverse == ModInverse(Mod(b, m), m) IN
    IF inverse = NoNumber THEN NoNumber ELSE Mod(inverse * Mod(a, m), m)

ComplexDivMod(a, b, m) ==
    LET denominator == AddMod(<<MulMod(<<b[1], b[1]>>, m), MulMod(<<b[2], b[2]>>, m)>>, m)
        real == AddMod(<<MulMod(<<a[1], b[1]>>, m), MulMod(<<a[2], b[2]>>, m)>>, m)
        imaginary == AddMod(<<MulMod(<<b[1], a[2]>>, m), -MulMod(<<b[2], a[1]>>, m)>>, m)
    IN <<ModDivide(real, denominator, m), ModDivide(imaginary, denominator, m)>>
=============================================================================
