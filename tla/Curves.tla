------------------------------- MODULE Curves -------------------------------
(* Points of elliptic curves and their compression: curves.mjs, and fq2.mjs *)
(* for the extension field. A compressed coordinate is <<bit, value>>, the *)
(* bit being the top one of the 256 and the value the rest.                *)
EXTENDS NumberTheory

CONSTANTS
    BN128_PRIME_FIELD,   \* the field of G1 and, extended, of G2
    BN128_GROUP_ORDER,   \* the field of Baby Jubjub, Fp in curves.mjs
    JUBJUBA, JUBJUBD,    \* its parameters
    SubgroupOrder        \* JUBJUBE / JUBJUBC, Fq in curves.mjs

ASSUME CurvesAssumption ==
    /\ {BN128_PRIME_FIELD, BN128_GROUP_ORDER, JUBJUBA, JUBJUBD, SubgroupOrder} \subseteq Nat \ {0}
    /\ BN128_PRIME_FIELD % 4 = 3

NoPoint == <<>>   \* an exception: there is no such point

m == BN128_PRIME_FIELD
Fp == BN128_GROUP_ORDER

---------------------------------------------------------------------------
(* Fq2: <<x, y>> is x + iy                                                 *)

Fq2Add(a, b) == <<Mod(a[1] + b[1], m), Mod(a[2] + b[2], m)>>
Fq2Mul(a, b) == <<Mod(a[1] * b[1] - a[2] * b[2], m), Mod(a[2] * b[1] + a[1] * b[2], m)>>
Fq2Div(a, b) == ComplexDivMod(a, b, m)

Fq2Pow(a, exponent) ==
    LET power[result, b \in Nat \X Nat, e \in Nat] ==
            IF e = 0 THEN result
            ELSE power[IF e % 2 = 1 THEN Fq2Mul(result, b) ELSE result, Fq2Mul(b, b), e \div 2]
    IN power[<<1, 0>>, a, exponent]

(* eprint 2012/685, step by step. *)
RootFrom(x0, alpha, a0) ==
    IF a0 = <<m - 1, 0>> THEN NoPoint
    ELSE IF alpha = <<m - 1, 0>> THEN Fq2Mul(<<0, 1>>, x0)
    ELSE Fq2Mul(Fq2Pow(Fq2Add(<<1, 0>>, alpha), ModDivide(m - 1, 2, m)), x0)
Norm(alpha) == Fq2Mul(Fq2Pow(alpha, m), alpha)
Fq2Sqrt(a) ==
    LET a1 == Fq2Pow(a, ModDivide(m - 3, 4, m))
        alpha == Fq2Mul(Fq2Mul(a1, a), a1)
    IN RootFrom(Fq2Mul(a1, a), alpha, Norm(alpha))

---------------------------------------------------------------------------
(* Proofs: points of G1 and G2                                             *)

CompressG1(point) == <<point[2] % 2, point[1]>>
CompressG2(point) ==
    <<CompressG1(<<point[1][1], point[2][1]>>), CompressG1(<<point[1][2], point[2][2]>>)>>
CompressProof(proof) == <<CompressG1(proof.a), CompressG2(proof.b), CompressG1(proof.c)>>

WithParity(y, parity) == IF y % 2 = parity THEN y ELSE m - y

G1Point(x, y, parity) == IF y = NoNumber THEN NoPoint ELSE <<x, WithParity(y, parity)>>
DecompressG1(c) ==
    IF c = <<1, 0>> THEN <<0, 1>>
    ELSE G1Point(c[2], SquareRootModPrime(AddMod(<<MulMod(<<c[2], c[2], c[2]>>, m), 3>>, m), m),
                 c[1])

(* The twist's constant, 3 / (9 + i). *)
TwistB == Fq2Div(<<3, 0>>, <<9, 1>>)

ParityOfReal(y, parities) ==   \* mutant
    IF y[1] % 2 = parities[1] THEN y ELSE <<m - y[1], m - y[2]>>
FixParity(y, parities) == <<WithParity(y[1], parities[1]), WithParity(y[2], parities[2])>>

G2Point(x, y, parities) == IF y = NoPoint THEN NoPoint ELSE <<x, FixParity(y, parities)>>
DecompressG2(c) ==
    LET x == <<c[1][2], c[2][2]>> IN
    IF c = <<<<1, 0>>, <<0, 0>>>> THEN <<<<0, 0>>, <<1, 0>>>>
    ELSE G2Point(x, Fq2Sqrt(Fq2Add(Fq2Mul(Fq2Mul(x, x), x), TwistB)), <<c[1][1], c[2][1]>>)

Whole(a, b, c) ==
    IF NoPoint \in {a, b, c} THEN NoPoint ELSE [a |-> a, b |-> b, c |-> c]
DecompressProof(c) == Whole(DecompressG1(c[1]), DecompressG2(c[2]), DecompressG1(c[3]))

---------------------------------------------------------------------------
(* Baby Jubjub: keys                                                       *)

Infinity == <<0, 1>>

IsOnCurve(p) ==
    LET uu == Rem(p[1] * p[1], Fp)  vv == Rem(p[2] * p[2], Fp)  uuvv == Rem(uu * vv, Fp) IN
    Rem(JUBJUBA * uu + vv, Fp) = Rem(1 + JUBJUBD * uuvv, Fp)

(* What is not on the curve is refused, by the addition too. *)
OnCurve(p) == IF IsOnCurve(p) THEN p ELSE NoPoint

AddPoints(p, q) ==
    LET product == JUBJUBD * p[1] * q[1] * p[2] * q[2] IN
    OnCurve(<<ModDivide(p[1] * q[2] + p[2] * q[1], 1 + product, Fp),
              ModDivide(p[2] * q[2] - JUBJUBA * p[1] * q[1], 1 - product, Fp)>>)

(* Double and add, from the last bit of the scalar on. *)
DoubledFirst(accumulated, doubled, bits) ==   \* mutant
    IF bits % 2 = 1 THEN AddPoints(accumulated, AddPoints(doubled, doubled)) ELSE accumulated
Accumulated(accumulated, doubled, bits) ==
    IF bits % 2 = 1 THEN AddPoints(accumulated, doubled) ELSE accumulated

ScalarMult(scalar, h) ==
    LET loop[accumulated, doubled \in Nat \X Nat, bits \in Nat] ==
            LET next == Accumulated(accumulated, doubled, bits) IN
            IF bits <= 1 THEN next ELSE loop[next, AddPoints(doubled, doubled), bits \div 2]
    IN loop[Infinity, h, Mod(scalar, SubgroupOrder)]

(* y, and whether x is in the upper half of the field. *)
Sign(x) == IF x > (Fp - 1) \div 2 THEN 1 ELSE 0
CompressParity(p) == <<p[1] % 2, p[2]>>   \* mutant
EdwardsCompress(p) == <<Sign(p[1]), p[2]>>

EdwardsDecompress(c) ==
    LET y2 == MulMod(<<c[2], c[2]>>, Fp)
        x2 == ModDivide(AddMod(<<-y2, 1>>, Fp),
                        AddMod(<<MulMod(<<-JUBJUBD, y2>>, Fp), JUBJUBA>>, Fp), Fp)
        x == SquareRootModPrime(x2, Fp)
    IN IF c[2] > Fp \/ x2 = NoNumber THEN NoPoint
       ELSE IF x2 = 0 /\ c[1] = 0 THEN Infinity
       ELSE IF x = NoNumber THEN NoPoint
       ELSE OnCurve(<<IF Sign(x) = c[1] THEN x ELSE Fp - x, c[2]>>)
=============================================================================
