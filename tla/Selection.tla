------------------------------ MODULE Selection -----------------------------
(* How the client chooses the commitments that a transaction spends. Only  *)
(* their values matter: a wallet is the sequence of the values available,  *)
(* in ascending order. A request r is a record of                          *)
(*   own, fees         what there is of its token and of the fee's, the    *)
(*                     same sequence if same                               *)
(*   same              whether fees are paid in its token                  *)
(*   value, fee        what it pays                                        *)
(*   maxNullifiers     slots of the circuit, of which for its token        *)
(*   maxNonFee         at most maxNonFee, or Undefined                     *)
(*   provided, providedFee   indices the user names in own and fees        *)
EXTENDS Integers, FiniteSets, SequencesExt

Undefined == -1

Total(s) == FoldLeft(LAMBDA a, b : a + b, 0, s)
Least(a, b) == IF a < b THEN a ELSE b
Below(s, value) == SelectSeq(s, LAMBDA v : v < value)

(* The least number of values, at most most, whose sum can be as high; 0   *)
(* if there is none.                                                       *)
MinimumCount(s, value, most) ==
    LET enough == {j \in 1..Least(Len(s), most) :
                     Total(SubSeq(s, Len(s) - j + 1, Len(s))) >= value}
    IN IF enough = {} THEN 0 ELSE CHOOSE j \in enough : \A k \in enough : j <= k

(* What leaves less change; the one there is if both leave the same. *)
Better(there, other) ==
    IF other = <<>> \/ (there # <<>> /\ Total(there) <= Total(other)) THEN there ELSE other

(* Two pointers that close in on the value. *)
RECURSIVE CloseIn(_, _, _, _, _)
CloseIn(s, value, lhs, rhs, best) ==
    LET pair == <<s[lhs], s[rhs]>> IN
    IF lhs >= rhs THEN best
    ELSE IF Total(pair) = value THEN pair
    ELSE IF Total(pair) > value THEN CloseIn(s, value, lhs, rhs - 1, Better(best, pair))
    ELSE CloseIn(s, value, lhs + 1, rhs, best)

FindSubsetTwoCommitments(commitments, value) ==
    LET s == Below(commitments, value) IN
    IF value <= 0 \/ Len(s) < 2 THEN <<>> ELSE CloseIn(s, value, 1, Len(s), <<>>)

(* n values, with one of them fixed in turn. *)
RECURSIVE FindSubsetNCommitments(_, _, _)
FindSubsetNCommitments(n, commitments, value) ==
    LET s == Below(commitments, value)
        Fixing(best, i) ==
            LET rest == FindSubsetNCommitments(n - 1, SubSeq(s, i + 1, Len(s)), value - s[i])
            IN IF Len(rest) = n - 1 THEN Better(best, <<s[i]>> \o rest) ELSE best
    IN IF n = 1 THEN LET high == SelectSeq(commitments, LAMBDA v : v >= value)
                     IN IF high = <<>> THEN <<>> ELSE <<high[1]>>
       ELSE IF value <= 0 \/ Len(s) < n THEN <<>>
       ELSE IF n = 2 THEN FindSubsetTwoCommitments(s, value)
       ELSE FoldLeft(Fixing, <<>>, [i \in 1..Len(s) - n + 1 |-> i])

(* The best subset of any size allowed; of two with the same change the larger. *)
SmallestSubset(commitments, value, minC, maxC) ==   \* mutant
    FindSubsetNCommitments(minC, commitments, value)
SelectCommitments(commitments, value, minC, maxC) ==
    LET most == Least(Len(commitments), maxC)
        subsets == [k \in 1..most - minC + 1 |->
                      FindSubsetNCommitments(most - k + 1, commitments, value)]
    IN FoldLeft(Better, <<>>, subsets)

Failed == [ok |-> FALSE, old |-> <<>>, oldFee |-> <<>>]

(* verifyEnoughCommitments: the least numbers of each kind, <<>> if not enough. *)
NoSlotForValue(own, fees, value, fee, maxNullifiers, maxNonFee) ==   \* mutant
    <<MinimumCount(own, value, maxNullifiers), MinimumCount(fees, fee, maxNullifiers)>>
VerifyEnoughCommitments(own, fees, value, fee, maxNullifiers, maxNonFee) ==
    LET minC == MinimumCount(own, value, maxNullifiers - (IF fee > 0 THEN 1 ELSE 0))
        taken == IF maxNonFee = 0 THEN 0 ELSE minC
        minFc == MinimumCount(fees, fee, maxNullifiers - taken)
    IN IF \/ maxNonFee # 0 /\ (minC = 0 \/ minC > maxNonFee)
          \/ fee > 0 /\ minFc = 0
       THEN <<>> ELSE <<taken, IF fee > 0 THEN minFc ELSE 0>>

AddFee(old, fees, fee, minFc, maxFc) ==
    [ok |-> TRUE, old |-> old,
     oldFee |-> IF fee = 0 THEN <<>> ELSE SelectCommitments(fees, fee, minFc, maxFc - Len(old))]
Select(own, fees, value, fee, maxNullifiers, maxNonFee, enough) ==
    IF enough = <<>> THEN Failed
    ELSE AddFee(IF maxNonFee = 0 THEN <<>>
                ELSE SelectCommitments(own, value, enough[1],
                                       Least(maxNonFee, maxNullifiers - enough[2])),
                fees, fee, enough[2], maxNullifiers)
FindUsableCommitments(own, fees, value, fee, maxNullifiers, maxNonFee) ==
    Select(own, fees, value, fee, maxNullifiers, maxNonFee,
           VerifyEnoughCommitments(own, fees, value, fee, maxNullifiers, maxNonFee))

Named(s, I) == [k \in 1..Cardinality(I) |-> s[SetToSortSeq(I, <)[k]]]
Others(s, I) == Named(s, DOMAIN s \ I)

(* getCommitmentInfo: what is spent, and the change. A fee in the token    *)
(* that is sent is part of the value, if any value is to be found.         *)
FeeSpentTwice(r) == r.fee   \* mutant
FeeToFind(r) == IF r.same /\ r.maxNonFee # 0 THEN 0 ELSE r.fee

Spending(old, oldFee, ok, due, dueFee) ==
    [ok |-> ok, old |-> old, oldFee |-> oldFee,
     change |-> Total(old) - due, changeFee |-> Total(oldFee) - dueFee]
WithChange(r, found, given, givenFee) ==
    Spending(found.old \o given, found.oldFee \o givenFee, found.ok,
             r.value + (IF r.same THEN r.fee ELSE 0), r.fee - (IF r.same THEN r.fee ELSE 0))

Search(r, given, givenFee) ==
    LET value == IF r.same /\ r.maxNonFee # 0 THEN r.value + r.fee ELSE r.value
        maxNonFee == IF r.maxNonFee # Undefined THEN r.maxNonFee
                     ELSE IF FeeToFind(r) > 0 THEN r.maxNullifiers - 1 ELSE r.maxNullifiers
        named == IF r.same THEN r.provided \cup r.providedFee ELSE {}
        searched == IF given # <<>> THEN 0 ELSE maxNonFee
        short == r.same /\ Total(given) + Total(givenFee) < value
    IN FindUsableCommitments(
           Others(r.own, r.provided \cup named), Others(r.fees, r.providedFee \cup named),
           IF short THEN value - Total(given) ELSE value,
           IF givenFee # <<>> THEN 0 ELSE FeeToFind(r),
           r.maxNullifiers - Len(given) - Len(givenFee),
           IF ~short THEN searched
           ELSE IF Total(given) >= value THEN 0
           ELSE searched - Len(given) - Len(givenFee))

Provide(r, given, givenFee) ==
    IF \/ Len(given) + Len(givenFee) > r.maxNullifiers
       \/ given # <<>> /\ Total(given) < r.value
       \/ givenFee # <<>> /\ Total(givenFee) < r.fee
    THEN [ok |-> FALSE]
    ELSE WithChange(r, Search(r, given, givenFee), given, givenFee)
GetCommitmentInfo(r) == Provide(r, Named(r.own, r.provided), Named(r.fees, r.providedFee))

---------------------------------------------------------------------------
(* What it should do                                                       *)

(* The values of the subsets of s with at most n elements. *)
Subsets(s, n) == {Named(s, I) : I \in {J \in SUBSET DOMAIN s : Cardinality(J) <= n}}

SlotLimit(r) == IF r.maxNonFee = Undefined THEN r.maxNullifiers ELSE r.maxNonFee

(* Value and fee in two tokens, or in one. *)
Possible(r) ==
    IF r.same /\ r.maxNonFee # 0
    THEN \E x \in Subsets(r.own, SlotLimit(r)) : Total(x) >= r.value + r.fee /\ x # <<>>
    ELSE \E x \in Subsets(r.own, SlotLimit(r)), y \in Subsets(r.fees, r.maxNullifiers) :
            /\ Len(x) + Len(y) <= r.maxNullifiers
            /\ Total(x) >= r.value /\ Total(y) >= r.fee
            /\ r.maxNonFee # 0 => x # <<>>
=============================================================================
