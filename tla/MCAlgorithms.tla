---------------------------- MODULE MCAlgorithms ----------------------------
(* Instances of Algorithms: wallets of up to four commitments, curves over *)
(* small fields.                                                           *)
EXTENDS Algorithms

Ascending(n, values) ==
    {s \in UNION {[1..k -> values] : k \in 0..n} : \A i \in 1..Len(s) - 1 : s[i] <= s[i + 1]}

Request(own, fees, same, value, fee, most, nonFee, provided, providedFee) ==
    [own |-> own, fees |-> fees, same |-> same, value |-> value, fee |-> fee,
     maxNullifiers |-> most, maxNonFee |-> nonFee,
     provided |-> provided, providedFee |-> providedFee]

Wallets == Ascending(4, 1..5)
Purses == Ascending(2, {1, 3})

(* A transfer or withdrawal, fee in another token or in the same one; a    *)
(* burn; the fee alone; commitments that the user names.                   *)
MCSpends ==
    {Request(own, fees, FALSE, value, fee, 4, Undefined, {}, {}) :
         own \in Wallets, fees \in Purses, value \in {4, 6, 9}, fee \in {0, 2}}
    \cup {Request(own, own, TRUE, value, fee, 4, Undefined, {}, {}) :
         own \in Wallets, value \in {3, 5, 8}, fee \in {0, 1}}
    \cup {Request(own, fees, FALSE, value, fee, 3, 1, {}, {}) :
         own \in Ascending(2, 1..3), fees \in Purses, value \in 0..3, fee \in 0..3}
    \cup {Request(<<>>, fees, FALSE, 0, fee, 3, 0, {}, {}) :
         fees \in Ascending(4, {1, 2, 4}), fee \in 1..7}
    \cup {Request(own, fees, FALSE, value, fee, 3, Undefined, given, givenFee) :
         own \in Ascending(3, {1, 2, 4}) \ Ascending(2, {1, 2, 4}),
         fees \in Ascending(2, {1, 3}) \ Ascending(1, {1, 3}),
         value \in {1, 5}, fee \in {0, 2},
         given \in SUBSET (1..3), givenFee \in SUBSET (1..2)}

MCScalars == -3..12
=============================================================================
