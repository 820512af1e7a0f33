----------------------------- MODULE Algorithms -----------------------------
(* Pure algorithms of the client and of the code that all share, against   *)
(* what they should compute. A step takes a problem and answers it; the    *)
(* invariants are about the answer.                                        *)
EXTENDS Curves, Selection

CONSTANTS
    Spends,      \* requests for commitments, see Selection
    Scalars      \* multipliers of a point

VARIABLE problem

None == [kind |-> "none"]

Field(p) == 0..p - 1
Fq2Elements == Field(m) \X Field(m)

(* G1 and G2 have no point with x = 0 or y = 0: their order is a large     *)
(* prime, and such points have order 3 and 2. The point at infinity is     *)
(* written as x = 0.                                                       *)
G1 == {p \in (1..m - 1) \X (1..m - 1) : p[2] * p[2] % m = (p[1] * p[1] * p[1] + 3) % m}
G1Infinity == <<0, 1>>
G2 == LET b == TwistB IN
      {p \in (Fq2Elements \ {<<0, 0>>}) \X (Fq2Elements \ {<<0, 0>>}) :
         Fq2Mul(p[2], p[2]) = Fq2Add(Fq2Mul(Fq2Mul(p[1], p[1]), p[1]), b)}
G2Infinity == <<<<0, 0>>, <<1, 0>>>>

Edwards == {p \in Field(Fp) \X Field(Fp) : IsOnCurve(p)}

(* The k-fold sum. *)
Multiple(k, p) == FoldLeft(LAMBDA sum, i : AddPoints(sum, p), Infinity, [i \in 1..k |-> i])
Subgroup == {p \in Edwards : Multiple(SubgroupOrder, p) = Infinity}

Init == problem = None

Answered(kind, of, answer) == problem' = [kind |-> kind, of |-> of, answer |-> answer]

Spend == \E r \in Spends : Answered("spend", r, GetCommitmentInfo(r))
RootOf == \E n \in Field(Fp) : Answered("root", n, SquareRootModPrime(n, Fp))
Fq2RootOf == \E a \in Fq2Elements : Answered("fq2 root", a, Fq2Sqrt(a))
SendProof ==
    \E b \in G2 \cup {G2Infinity}, a \in G1 \cup {G1Infinity} :
        LET proof == [a |-> a, b |-> b, c |-> a] IN
        Answered("proof", proof, DecompressProof(CompressProof(proof)))
PublishKey ==
    \E p \in Edwards : Answered("key", p, EdwardsDecompress(EdwardsCompress(p)))
Multiply ==
    \E p \in Subgroup, k \in Scalars : Answered("multiple", <<k, p>>, ScalarMult(k, p))

Next == problem = None /\ (Spend \/ RootOf \/ Fq2RootOf \/ SendProof \/ PublishKey \/ Multiply)

Spec == Init /\ [][Next]_problem

---------------------------------------------------------------------------
(* Commitments are searched for while the user names none of both kinds    *)
(* with fee and value in one token; see the README.                        *)
Ordinary(r) == r.same => r.provided = {} /\ r.providedFee = {}

Selecting == problem.kind = "spend" /\ Ordinary(problem.of)
Searching == Selecting /\ problem.of.provided = {} /\ problem.of.providedFee = {}

(* What a request spends are commitments of the wallet, none twice, fits   *)
(* the circuit's slots and pays exactly value, fee and change; change is   *)
(* never negative, which the circuit would refuse.                         *)
SpendsWithinLimits ==
    Selecting /\ problem.answer.ok =>
        LET r == problem.of
            old == problem.answer.old
            oldFee == problem.answer.oldFee
            Uses(s, v) == Len(SelectSeq(s, LAMBDA w : w = v))
        IN /\ Len(old) + Len(oldFee) <= r.maxNullifiers
           /\ \A v \in ToSet(old \o oldFee) :
                 IF r.same THEN Uses(old \o oldFee, v) <= Uses(r.own, v)
                 ELSE Uses(old, v) <= Uses(r.own, v) /\ Uses(oldFee, v) <= Uses(r.fees, v)
           /\ problem.answer.change >= 0 /\ problem.answer.changeFee >= 0
           /\ Total(old \o oldFee) = r.value + r.fee + problem.answer.change + problem.answer.changeFee

(* A request fails only if the wallet cannot pay: the search, which drops  *)
(* every value above the target and counts slots before it looks, misses   *)
(* no way to pay.                                                          *)
SelectsWheneverPossible ==
    Searching => problem.answer.ok = Possible(problem.of)

(* Of all the ways to pay with the slots left by the fee, the one with the *)
(* least change, and with the most commitments if several have that.       *)
LeastChange ==
    Searching /\ problem.answer.ok /\ problem.of.maxNonFee # 0 =>
        LET r == problem.of
            due == r.value + (IF r.same THEN r.fee ELSE 0)
            slots == IF r.same THEN SlotLimit(r)
                     ELSE Least(SlotLimit(r), r.maxNullifiers - Len(problem.answer.oldFee))
        IN \A x \in Subsets(r.own, slots) :
              x # <<>> /\ Total(x) >= due =>
                  \/ Total(x) > Total(problem.answer.old)
                  \/ Total(x) = Total(problem.answer.old) /\ Len(x) <= Len(problem.answer.old)

(* There is a square root exactly if one is found, modulo a prime and in   *)
(* the extension field.                                                    *)
RootsExact ==
    /\ problem.kind = "root" =>
           LET n == problem.of  root == problem.answer IN
           IF root = NoNumber THEN \A y \in Field(Fp) : y * y % Fp # n
           ELSE root \in Field(Fp) /\ root * root % Fp = n
    /\ problem.kind = "fq2 root" =>
           LET a == problem.of  root == problem.answer IN
           IF root = NoPoint THEN \A y \in Fq2Elements : Fq2Mul(y, y) # a
           ELSE Fq2Mul(root, root) = a

(* The proof that the contract is given is the one that was made: the bits *)
(* kept of each point tell its two roots apart, those of G2 one by one.    *)
ProofRoundTrip ==
    problem.kind = "proof" => problem.answer = problem.of

(* A public key is its compressed form; but (0, -1), of order 2, is taken  *)
(* for the neutral element.                                                *)
KeyRoundTrip ==
    problem.kind = "key" =>
        problem.answer = IF problem.of = <<0, Fp - 1>> THEN Infinity ELSE problem.of

(* Double-and-add is repeated addition, for scalars of any sign and size.  *)
ScalarMultRepeats ==
    problem.kind = "multiple" =>
        problem.answer = Multiple(Mod(problem.of[1], SubgroupOrder), problem.of[2])
=============================================================================
