----------------------------- MODULE FoldLemmas -----------------------------
(***************************************************************************)
(* What the community modules compute by recursion, for every input.       *)
(*                                                                         *)
(* Sums over finite sets: what is owed, offered and paid in the models is  *)
(* SumFunctionOnSet(v, S), a recursive function on the subsets of S that   *)
(* takes one element at a time, in no particular order.  That it exists,   *)
(* is a number, and does not depend on the order, is shown by induction on *)
(* the subsets of S, as the absence of a smallest subset for which the     *)
(* claim fails.                                                            *)
(*                                                                         *)
(* Loops: folds over sequences, and recursive functions on 0..n, what they *)
(* lead to, and that they exist.                                           *)
(***************************************************************************)
EXTENDS Integers, Sequences, SequencesExt, FiniteSetTheorems,
        WellFoundedInduction, TLAPS

(* A set of subsets of S that is not empty has a smallest member.          *)
LEMMA SmallestSubset ==
  ASSUME NEW S, IsFiniteSet(S), NEW F \in SUBSET SUBSET S, F # {}
  PROVE  \E U \in F : \A x \in U : (U \ {x}) \notin F
<1> DEFINE R == StrictSubsetOrdering(S)
<1>1. IsWellFoundedOn(R, FiniteSubsetsOf(S))
  BY FS_StrictSubsetOrderingWellFounded
<1>2. FiniteSubsetsOf(S) = SUBSET S
  BY FS_FiniteSubsetsOfFinite
<1>3. ASSUME NEW U \in SUBSET S, NEW x \in U
      PROVE  <<U \ {x}, U>> \in R
  <2>1. U \ {x} \in SUBSET S /\ U \ {x} \subseteq U /\ U \ {x} # U
    BY <1>3
  <2>2. QED BY <2>1 DEF StrictSubsetOrdering
<1> HIDE DEF R
<1>4. PICK U \in F : \A T \in F : ~(<<T, U>> \in R)
  BY <1>1, <1>2, WFMin
<1>5. QED BY <1>3, <1>4

(* Induction on the finite set S: P holds the subsets a claim holds for.   *)
LEMMA SubsetInduction ==
  ASSUME NEW S, IsFiniteSet(S), NEW P,
         {} \in P,
         \A U \in SUBSET S : U # {} /\ (\A x \in U : (U \ {x}) \in P) => U \in P
  PROVE  S \in P
<1>1. SUFFICES ASSUME S \notin P PROVE FALSE
  OBVIOUS
<1> DEFINE F == (SUBSET S) \ P
<1>2. F # {}  BY <1>1
<1>3. PICK U \in F : \A x \in U : (U \ {x}) \notin F
  BY <1>2, SmallestSubset
<1>4. \A x \in U : (U \ {x}) \in P  BY <1>3
<1>5. QED BY <1>3, <1>4

-----------------------------------------------------------------------------
Chosen(S) == CHOOSE x \in S : TRUE

(* The equation that defines a sum on all the subsets of S at once.        *)
IsSum(g, v, S) ==
  g = [s \in SUBSET S |-> IF s = {} THEN 0
                          ELSE v[Chosen(s)] + g[s \ {Chosen(s)}]]

LEMMA SumIsChosen ==
  ASSUME NEW v, NEW S
  PROVE  SumFunctionOnSet(v, S) = (CHOOSE g : IsSum(g, v, S))[S]
BY DEF SumFunctionOnSet, FoldFunctionOnSet, MapThenFoldSet, IsSum, Chosen

LEMMA ChosenIn ==
  ASSUME NEW S, S # {}
  PROVE  Chosen(S) \in S
BY DEF Chosen

Unfolds(v, S) ==
  SumFunctionOnSet(v, S) =
    IF S = {} THEN 0 ELSE v[Chosen(S)] + SumFunctionOnSet(v, S \ {Chosen(S)})

(* If the smaller sums unfold, the sum over S exists, and unfolds too.     *)
LEMMA SumStep ==
  ASSUME NEW v, NEW S, IsFiniteSet(S),
         \A s \in SUBSET S : s # S => Unfolds(v, s)
  PROVE  Unfolds(v, S)
<1> DEFINE F(s) == SumFunctionOnSet(v, s)
           G    == [s \in SUBSET S |-> IF s = {} THEN 0
                                       ELSE v[Chosen(s)] + F(s \ {Chosen(s)})]
<1>1. ASSUME NEW s \in SUBSET S, s # {}
      PROVE  G[s \ {Chosen(s)}] = F(s \ {Chosen(s)})
  <2> DEFINE r == s \ {Chosen(s)}
  <2>1. r \in SUBSET S /\ r # S
    BY <1>1, ChosenIn
  <2>2. Unfolds(v, r)
    BY <2>1
  <2>3. F(r) = IF r = {} THEN 0 ELSE v[Chosen(r)] + F(r \ {Chosen(r)})
    BY <2>2 DEF Unfolds
  <2>4. G[r] = IF r = {} THEN 0 ELSE v[Chosen(r)] + F(r \ {Chosen(r)})
    BY <2>1
  <2>5. QED BY <2>3, <2>4
<1>2. IsSum(G, v, S)
  <2>1. \A s \in SUBSET S :
          (IF s = {} THEN 0 ELSE v[Chosen(s)] + F(s \ {Chosen(s)}))
          = (IF s = {} THEN 0 ELSE v[Chosen(s)] + G[s \ {Chosen(s)}])
    <3> HIDE DEF F, G
    <3>1. QED BY <1>1
  <2>2. QED BY <2>1 DEF IsSum
<1> DEFINE g == CHOOSE h : IsSum(h, v, S)
<1>3. IsSum(g, v, S)
  <2> HIDE DEF G
  <2>1. QED BY <1>2
<1>4. F(S) = g[S]
  BY SumIsChosen
<1> HIDE DEF F, G, g
<1>5. \A s \in SUBSET S :
        g[s] = IF s = {} THEN 0 ELSE v[Chosen(s)] + g[s \ {Chosen(s)}]
  BY <1>3 DEF IsSum
<1>6. ASSUME NEW s \in SUBSET S, s # S
      PROVE  g[s] = F(s)
  <2> DEFINE P == {r \in SUBSET s : g[r] = F(r)}
  <2>1. IsFiniteSet(s)
    BY FS_Subset
  <2>2. ASSUME NEW r \in SUBSET s
        PROVE  /\ g[r] = IF r = {} THEN 0 ELSE v[Chosen(r)] + g[r \ {Chosen(r)}]
               /\ F(r) = IF r = {} THEN 0 ELSE v[Chosen(r)] + F(r \ {Chosen(r)})
    <3>1. r \in SUBSET S /\ r # S
      BY <1>6, <2>2
    <3>2. QED BY <1>5, <3>1 DEF Unfolds, F
  <2>3. {} \in P
    BY <2>2
  <2>4. ASSUME NEW r \in SUBSET s, r # {}, \A x \in r : (r \ {x}) \in P
        PROVE  r \in P
    <3>1. (r \ {Chosen(r)}) \in P
      BY <2>4, ChosenIn
    <3>2. g[r \ {Chosen(r)}] = F(r \ {Chosen(r)})
      BY <3>1
    <3>3. QED BY <2>2, <2>4, <3>2
  <2> HIDE DEF P
  <2>5. s \in P
    BY <2>1, <2>3, <2>4, SubsetInduction
  <2>6. QED BY <2>5 DEF P
<1>7. S # {} => g[S \ {Chosen(S)}] = F(S \ {Chosen(S)})
  <2>1. S # {} => (S \ {Chosen(S)}) \in SUBSET S /\ S \ {Chosen(S)} # S
    BY ChosenIn
  <2>2. QED BY <1>6, <2>1
<1>8. QED BY <1>4, <1>5, <1>7 DEF Unfolds, F

(* A sum over a finite set takes one element, then sums the others.        *)
LEMMA SumUnfolds ==
  ASSUME NEW v, NEW S, IsFiniteSet(S)
  PROVE  Unfolds(v, S)
<1> DEFINE P == {U \in SUBSET S : \A s \in SUBSET U : Unfolds(v, s)}
<1>1. {} \in P
  <2>1. Unfolds(v, {})
    BY SumStep, FS_EmptySet
  <2>2. QED BY <2>1
<1>2. ASSUME NEW U \in SUBSET S, U # {}, \A x \in U : (U \ {x}) \in P
      PROVE  U \in P
  <2>1. ASSUME NEW s \in SUBSET U, s # U
        PROVE  Unfolds(v, s)
    <3>1. PICK x \in U : x \notin s
      BY <2>1
    <3>2. s \in SUBSET (U \ {x}) /\ (U \ {x}) \in P
      BY <1>2, <3>1
    <3>3. QED BY <3>2
  <2>2. IsFiniteSet(U)
    BY FS_Subset
  <2>3. Unfolds(v, U)
    BY <2>1, <2>2, SumStep
  <2>4. QED BY <2>1, <2>3
<1> HIDE DEF P
<1>3. S \in P
  BY <1>1, <1>2, SubsetInduction
<1>4. QED BY <1>3 DEF P

-----------------------------------------------------------------------------
LEMMA SumEmpty ==
  ASSUME NEW v
  PROVE  SumFunctionOnSet(v, {}) = 0
BY SumUnfolds, FS_EmptySet DEF Unfolds

(* A sum of integers is an integer.                                        *)
LEMMA SumInt ==
  ASSUME NEW v, NEW S, IsFiniteSet(S), \A x \in S : v[x] \in Int
  PROVE  SumFunctionOnSet(v, S) \in Int
<1> DEFINE P == {U \in SUBSET S : SumFunctionOnSet(v, U) \in Int}
<1>1. {} \in P
  BY SumEmpty
<1>2. ASSUME NEW U \in SUBSET S, U # {}, \A x \in U : (U \ {x}) \in P
      PROVE  U \in P
  <2>1. Chosen(U) \in U
    BY <1>2, ChosenIn
  <2>2. SumFunctionOnSet(v, U \ {Chosen(U)}) \in Int /\ v[Chosen(U)] \in Int
    BY <1>2, <2>1
  <2>3. Unfolds(v, U)
    BY FS_Subset, SumUnfolds
  <2>4. SumFunctionOnSet(v, U) = v[Chosen(U)] + SumFunctionOnSet(v, U \ {Chosen(U)})
    BY <1>2, <2>3 DEF Unfolds
  <2>5. QED BY <2>2, <2>4
<1> HIDE DEF P
<1>3. S \in P
  BY <1>1, <1>2, SubsetInduction
<1>4. QED BY <1>3 DEF P

(* Whichever element is taken out first, the sum is the same.              *)
LEMMA SumRemove ==
  ASSUME NEW v, NEW S, IsFiniteSet(S), \A y \in S : v[y] \in Int, NEW x \in S
  PROVE  SumFunctionOnSet(v, S) = v[x] + SumFunctionOnSet(v, S \ {x})
<1> DEFINE F(s) == SumFunctionOnSet(v, s)
           P    == {U \in SUBSET S : \A y \in U : F(U) = v[y] + F(U \ {y})}
<1>1. {} \in P
  OBVIOUS
<1>2. \A U \in SUBSET S : IsFiniteSet(U) /\ F(U) \in Int
  BY FS_Subset, SumInt
<1>3. ASSUME NEW U \in SUBSET S, U # {}, \A y \in U : (U \ {y}) \in P
      PROVE  U \in P
  <2> DEFINE c == Chosen(U)
  <2>1. c \in U
    BY <1>3, ChosenIn
  <2>2. Unfolds(v, U)
    BY <1>2, SumUnfolds
  <2>3. F(U) = v[c] + F(U \ {c})
    BY <1>3, <2>2 DEF Unfolds
  <2>4. ASSUME NEW y \in U, y # c
        PROVE  F(U) = v[y] + F(U \ {y})
    <3> DEFINE W == (U \ {c}) \ {y}
    <3>1. W = (U \ {y}) \ {c} /\ W \in SUBSET S
      BY <1>3
    <3>2. F(U \ {c}) = v[y] + F(W)
      <4>1. (U \ {c}) \in P /\ y \in U \ {c}
        BY <1>3, <2>1, <2>4
      <4>2. QED BY <4>1
    <3>3. F(U \ {y}) = v[c] + F(W)
      <4>1. (U \ {y}) \in P /\ c \in U \ {y}
        BY <1>3, <2>1, <2>4
      <4>2. F(U \ {y}) = v[c] + F((U \ {y}) \ {c})
        BY <4>1
      <4>3. QED BY <3>1, <4>2
    <3>4. v[y] \in Int /\ v[c] \in Int /\ F(W) \in Int
      BY <1>2, <2>1, <3>1
    <3> HIDE DEF F, W, c
    <3>5. QED BY <2>3, <3>2, <3>3, <3>4
  <2>5. QED BY <2>3, <2>4
<1> HIDE DEF P
<1>4. S \in P
  BY <1>1, <1>3, SubsetInduction
<1>5. QED BY <1>4 DEF P

LEMMA SumAdd ==
  ASSUME NEW v, NEW S, IsFiniteSet(S), NEW x, x \notin S,
         \A y \in S \cup {x} : v[y] \in Int
  PROVE  SumFunctionOnSet(v, S \cup {x}) = v[x] + SumFunctionOnSet(v, S)
<1>1. IsFiniteSet(S \cup {x}) /\ (S \cup {x}) \ {x} = S
  BY FS_AddElement
<1>2. QED BY <1>1, SumRemove

(* Only the values on the set matter.                                      *)
LEMMA SumSame ==
  ASSUME NEW v, NEW w, NEW S, IsFiniteSet(S), \A x \in S : w[x] = v[x]
  PROVE  SumFunctionOnSet(w, S) = SumFunctionOnSet(v, S)
<1> DEFINE F(s) == SumFunctionOnSet(v, s)
           H(s) == SumFunctionOnSet(w, s)
           P    == {U \in SUBSET S : H(U) = F(U)}
<1>1. {} \in P
  BY SumEmpty
<1>2. ASSUME NEW U \in SUBSET S, U # {}, \A x \in U : (U \ {x}) \in P
      PROVE  U \in P
  <2> DEFINE c == Chosen(U)
  <2>1. c \in U
    BY <1>2, ChosenIn
  <2>2. Unfolds(v, U) /\ Unfolds(w, U)
    BY FS_Subset, SumUnfolds
  <2>3. F(U) = v[c] + F(U \ {c}) /\ H(U) = w[c] + H(U \ {c})
    BY <1>2, <2>2 DEF Unfolds
  <2>4. w[c] = v[c] /\ H(U \ {c}) = F(U \ {c})
    BY <1>2, <2>1
  <2> HIDE DEF F, H, c
  <2>5. H(U) = F(U)
    BY <2>3, <2>4
  <2>6. QED BY <2>5
<1> HIDE DEF P
<1>3. S \in P
  BY <1>1, <1>2, SubsetInduction
<1>4. QED BY <1>3 DEF P

LEMMA SumNat ==
  ASSUME NEW v, NEW S, IsFiniteSet(S), \A x \in S : v[x] \in Nat
  PROVE  SumFunctionOnSet(v, S) \in Nat
<1> DEFINE P == {U \in SUBSET S : SumFunctionOnSet(v, U) \in Nat}
<1>1. {} \in P
  BY SumEmpty
<1>2. ASSUME NEW U \in SUBSET S, U # {}, \A x \in U : (U \ {x}) \in P
      PROVE  U \in P
  <2>1. PICK x \in U : TRUE
    BY <1>2
  <2>2. SumFunctionOnSet(v, U \ {x}) \in Nat /\ v[x] \in Nat
    BY <1>2, <2>1
  <2>3. IsFiniteSet(U) /\ \A y \in U : v[y] \in Int
    BY FS_Subset
  <2>4. SumFunctionOnSet(v, U) = v[x] + SumFunctionOnSet(v, U \ {x})
    BY <2>3, SumRemove
  <2>5. SumFunctionOnSet(v, U) \in Nat
    BY <2>2, <2>4
  <2>6. QED BY <2>5
<1> HIDE DEF P
<1>3. S \in P
  BY <1>1, <1>2, SubsetInduction
<1>4. QED BY <1>3 DEF P

(* A sum over two sets apart is the sum of the two sums.                   *)
LEMMA SumUnion ==
  ASSUME NEW v, NEW S, NEW T, IsFiniteSet(S), IsFiniteSet(T), S \cap T = {},
         \A x \in S \cup T : v[x] \in Int
  PROVE  SumFunctionOnSet(v, S \cup T)
           = SumFunctionOnSet(v, S) + SumFunctionOnSet(v, T)
<1> DEFINE F(s) == SumFunctionOnSet(v, s)
           P    == {U \in SUBSET T : F(S \cup U) = F(S) + F(U)}
<1>1. /\ \A U \in SUBSET T : /\ IsFiniteSet(U) /\ IsFiniteSet(S \cup U)
                             /\ F(U) \in Int
      /\ F(S) \in Int
  <2>1. \A U \in SUBSET T : IsFiniteSet(U)
    BY FS_Subset
  <2>2. \A U \in SUBSET T : IsFiniteSet(S \cup U)
    BY <2>1, FS_Union
  <2>3. QED BY <2>1, <2>2, SumInt
<1>2. {} \in P
  <2>1. S \cup {} = S
    OBVIOUS
  <2>2. F({}) = 0
    BY SumEmpty
  <2>3. F(S) = F(S) + F({})
    <3> HIDE DEF F
    <3>1. QED BY <1>1, <2>2
  <2>4. QED BY <2>1, <2>3
<1>3. ASSUME NEW U \in SUBSET T, U # {}, \A x \in U : (U \ {x}) \in P
      PROVE  U \in P
  <2>1. PICK x \in U : TRUE
    BY <1>3
  <2> DEFINE W == U \ {x}
  <2>2. F(S \cup W) = F(S) + F(W)
    <3>1. W \in P
      BY <1>3, <2>1
    <3>2. QED BY <3>1
  <2>3. F(U) = v[x] + F(W)
    <3>1. IsFiniteSet(U) /\ \A y \in U : v[y] \in Int
      BY <1>1
    <3>2. QED BY <3>1, SumRemove
  <2>4. F(S \cup U) = v[x] + F(S \cup W)
    <3>1. /\ IsFiniteSet(S \cup U) /\ x \in S \cup U
          /\ \A y \in S \cup U : v[y] \in Int
      BY <1>1
    <3>2. (S \cup U) \ {x} = S \cup W
      BY <2>1
    <3>3. F(S \cup U) = v[x] + F((S \cup U) \ {x})
      BY <3>1, SumRemove
    <3>4. QED BY <3>2, <3>3
  <2>5. v[x] \in Int /\ F(W) \in Int /\ F(S) \in Int
    BY <1>1, <2>1
  <2> HIDE DEF F, W
  <2>6. F(S \cup U) = F(S) + F(U)
    BY <2>2, <2>3, <2>4, <2>5
  <2>7. QED BY <2>6
<1> HIDE DEF P
<1>4. T \in P
  BY <1>2, <1>3, SubsetInduction
<1>5. QED BY <1>4 DEF P

LEMMA SumPart ==
  ASSUME NEW v, NEW S, IsFiniteSet(S), NEW T \in SUBSET S, \A x \in S : v[x] \in Int
  PROVE  /\ SumFunctionOnSet(v, S)
              = SumFunctionOnSet(v, T) + SumFunctionOnSet(v, S \ T)
         /\ SumFunctionOnSet(v, T) \in Int /\ SumFunctionOnSet(v, S \ T) \in Int
<1>1. /\ IsFiniteSet(T) /\ IsFiniteSet(S \ T)
      /\ T \cap (S \ T) = {} /\ T \cup (S \ T) = S
  BY FS_Subset
<1>2. QED BY <1>1, SumUnion, SumInt

(* One value changes, and the sum by as much.                              *)
LEMMA SumChange ==
  ASSUME NEW v, NEW w, NEW S, IsFiniteSet(S), NEW x \in S,
         \A y \in S : v[y] \in Int /\ w[y] \in Int,
         \A y \in S \ {x} : w[y] = v[y]
  PROVE  SumFunctionOnSet(w, S) = SumFunctionOnSet(v, S) - v[x] + w[x]
<1> DEFINE a == SumFunctionOnSet(v, S \ {x})
           b == SumFunctionOnSet(w, S \ {x})
<1>1. IsFiniteSet(S \ {x})
  BY FS_Subset
<1>2. a \in Int /\ b = a
  BY <1>1, SumInt, SumSame
<1>3. SumFunctionOnSet(v, S) = v[x] + a /\ SumFunctionOnSet(w, S) = w[x] + b
  BY SumRemove
<1> HIDE DEF a, b
<1>4. QED BY <1>2, <1>3

(* No value is more than a sum of natural numbers it is part of.           *)
LEMMA SumMember ==
  ASSUME NEW v, NEW S, IsFiniteSet(S), NEW x \in S, \A y \in S : v[y] \in Nat
  PROVE  v[x] <= SumFunctionOnSet(v, S)
<1>1. IsFiniteSet(S \ {x})
  BY FS_Subset
<1>2. SumFunctionOnSet(v, S \ {x}) \in Nat
  BY <1>1, SumNat
<1>3. SumFunctionOnSet(v, S) = v[x] + SumFunctionOnSet(v, S \ {x})
  BY SumRemove
<1>4. QED BY <1>2, <1>3

LEMMA SumZero ==
  ASSUME NEW v, NEW S, IsFiniteSet(S), \A x \in S : v[x] = 0
  PROVE  SumFunctionOnSet(v, S) = 0
<1> DEFINE P == {U \in SUBSET S : SumFunctionOnSet(v, U) = 0}
<1>1. {} \in P
  BY SumEmpty
<1>2. ASSUME NEW U \in SUBSET S, U # {}, \A x \in U : (U \ {x}) \in P
      PROVE  U \in P
  <2>1. PICK x \in U : TRUE
    BY <1>2
  <2>2. SumFunctionOnSet(v, U \ {x}) = 0 /\ v[x] = 0
    BY <1>2, <2>1
  <2>3. IsFiniteSet(U) /\ \A y \in U : v[y] \in Int
    BY FS_Subset
  <2>4. SumFunctionOnSet(v, U) = v[x] + SumFunctionOnSet(v, U \ {x})
    BY <2>3, SumRemove
  <2>5. QED BY <2>2, <2>4
<1> HIDE DEF P
<1>3. S \in P
  BY <1>1, <1>2, SubsetInduction
<1>4. QED BY <1>3 DEF P

(* A sum of differences is the difference of the sums.                     *)
LEMMA SumDifference ==
  ASSUME NEW v, NEW w, NEW d, NEW S, IsFiniteSet(S),
         \A x \in S : v[x] \in Int /\ w[x] \in Int /\ d[x] = v[x] - w[x]
  PROVE  SumFunctionOnSet(d, S) = SumFunctionOnSet(v, S) - SumFunctionOnSet(w, S)
<1> DEFINE P == {U \in SUBSET S :
                   SumFunctionOnSet(d, U) = SumFunctionOnSet(v, U) - SumFunctionOnSet(w, U)}
<1>1. {} \in P
  BY SumEmpty
<1>2. ASSUME NEW U \in SUBSET S, U # {}, \A x \in U : (U \ {x}) \in P
      PROVE  U \in P
  <2>1. PICK x \in U : TRUE
    BY <1>2
  <2> DEFINE V == U \ {x}
  <2>2. SumFunctionOnSet(d, V) = SumFunctionOnSet(v, V) - SumFunctionOnSet(w, V)
    BY <1>2, <2>1
  <2>3. IsFiniteSet(U) /\ IsFiniteSet(V)
    BY FS_Subset
  <2>4. \A y \in U : v[y] \in Int /\ w[y] \in Int /\ d[y] \in Int /\ d[y] = v[y] - w[y]
    OBVIOUS
  <2>5. SumFunctionOnSet(v, V) \in Int /\ SumFunctionOnSet(w, V) \in Int
    BY <2>3, <2>4, SumInt
  <2>6. /\ SumFunctionOnSet(v, U) = v[x] + SumFunctionOnSet(v, V)
        /\ SumFunctionOnSet(w, U) = w[x] + SumFunctionOnSet(w, V)
        /\ SumFunctionOnSet(d, U) = d[x] + SumFunctionOnSet(d, V)
    BY <2>3, <2>4, SumRemove
  <2>7. SumFunctionOnSet(d, U) = SumFunctionOnSet(v, U) - SumFunctionOnSet(w, U)
    <3> HIDE DEF V
    <3>1. QED BY <2>1, <2>2, <2>4, <2>5, <2>6
  <2>8. QED BY <2>7
<1> HIDE DEF P
<1>3. S \in P
  BY <1>1, <1>2, SubsetInduction
<1>4. QED BY <1>3 DEF P

(* Sums over the groups b makes of S add up to the sum over S.             *)
SumOfGroups(v, b, S, E) ==
  SumFunctionOnSet([e \in E |-> SumFunctionOnSet(v, {x \in S : b[x] = e})], E)

LEMMA SumGrouped ==
  ASSUME NEW v, NEW b, NEW S, NEW E, IsFiniteSet(S), IsFiniteSet(E),
         \A x \in S : v[x] \in Int /\ b[x] \in E
  PROVE  SumOfGroups(v, b, S, E) = SumFunctionOnSet(v, S)
<1> DEFINE G(U) == [e \in E |-> SumFunctionOnSet(v, {x \in U : b[x] = e})]
           P == {U \in SUBSET S : SumFunctionOnSet(G(U), E) = SumFunctionOnSet(v, U)}
<1>1. {} \in P
  <2>1. \A e \in E : {x \in {} : b[x] = e} = {}
    OBVIOUS
  <2>2. \A e \in E : G({})[e] = 0
    BY <2>1, SumEmpty
  <2>3. SumFunctionOnSet(G({}), E) = 0
    BY <2>2, SumZero
  <2>4. QED BY <2>3, SumEmpty
<1>2. ASSUME NEW U \in SUBSET S, \A x \in U : (U \ {x}) \in P, U # {}
      PROVE  U \in P
  <2>1. PICK x \in U : TRUE
    BY <1>2
  <2> DEFINE V == U \ {x}
             In(e) == {y \in V : b[y] = e}
  <2>2. SumFunctionOnSet(G(V), E) = SumFunctionOnSet(v, V)
    BY <1>2, <2>1
  <2>3. \A e \in E : IsFiniteSet(In(e)) /\ x \notin In(e) /\ \A y \in In(e) : v[y] \in Int
    BY FS_Subset
  <2>4. \A e \in E : G(V)[e] = SumFunctionOnSet(v, In(e)) /\ G(V)[e] \in Int
    <3>1. \A e \in E : SumFunctionOnSet(v, In(e)) \in Int
      BY <2>3, SumInt
    <3>2. QED BY <3>1
  <2>5. \A e \in E \ {b[x]} : G(U)[e] = G(V)[e]
    <3>1. \A e \in E \ {b[x]} : {y \in U : b[y] = e} = In(e)
      OBVIOUS
    <3>2. QED BY <3>1
  <2>6. b[x] \in E /\ v[x] \in Int /\ G(U)[b[x]] = v[x] + G(V)[b[x]]
    <3>1. {y \in U : b[y] = b[x]} = In(b[x]) \cup {x}
      BY <2>1
    <3>2. b[x] \in E /\ v[x] \in Int
      BY <2>1
    <3>3. IsFiniteSet(In(b[x])) /\ x \notin In(b[x]) /\ \A y \in In(b[x]) \cup {x} : v[y] \in Int
      BY <2>3, <3>2
    <3>4. SumFunctionOnSet(v, In(b[x]) \cup {x}) = v[x] + SumFunctionOnSet(v, In(b[x]))
      <4> HIDE DEF In
      <4>1. QED BY <3>3, SumAdd
    <3>5. QED BY <2>4, <3>1, <3>2, <3>4
  <2>7. \A e \in E : G(U)[e] \in Int
    <3>1. G(U)[b[x]] \in Int
      <4>1. G(V)[b[x]] \in Int
        BY <2>4, <2>6
      <4> HIDE DEF G, V, In
      <4>2. QED BY <2>6, <4>1
    <3>2. \A e \in E \ {b[x]} : G(U)[e] \in Int
      <4> HIDE DEF G, In
      <4>1. QED BY <2>4, <2>5
    <3> HIDE DEF G, V, In
    <3>3. QED BY <3>1, <3>2
  <2>8. SumFunctionOnSet(G(U), E) = SumFunctionOnSet(G(V), E) - G(V)[b[x]] + G(U)[b[x]]
    <3>1. \A e \in E : G(V)[e] \in Int
      BY <2>4
    <3>2. \A e \in E : e # b[x] => G(U)[e] = G(V)[e]
      BY <2>5
    <3>3. b[x] \in E
      BY <2>6
    <3> HIDE DEF G, V, In
    <3>4. QED BY <2>7, <3>1, <3>2, <3>3, SumChange
  <2>9. IsFiniteSet(U) /\ IsFiniteSet(V) /\ \A y \in U : v[y] \in Int
    BY FS_Subset
  <2>10. SumFunctionOnSet(v, U) = v[x] + SumFunctionOnSet(v, V) /\ SumFunctionOnSet(v, V) \in Int
    <3>1. SumFunctionOnSet(v, U) = v[x] + SumFunctionOnSet(v, U \ {x})
      BY <2>1, <2>9, SumRemove
    <3>2. QED BY <2>9, <3>1, SumInt
  <2>11. SumFunctionOnSet(G(U), E) = SumFunctionOnSet(v, U)
    <3>1. G(V)[b[x]] \in Int
      BY <2>4, <2>6
    <3> HIDE DEF G, V
    <3>2. QED BY <2>2, <2>6, <2>8, <2>10, <3>1
  <2>12. QED BY <2>11
<1> HIDE DEF P
<1>3. S \in P
  BY <1>1, <1>2, SubsetInduction
<1>4. QED BY <1>3 DEF P, SumOfGroups

-----------------------------------------------------------------------------
(***************************************************************************)
(* Loops.  A fold over a sequence with indexes 1..n is a recursive         *)
(* function on the subsets of 1..n that goes through 1..n, 1..n - 1 and so *)
(* on; a recursive function on 0..n goes through n, n - 1 and so on.       *)
(* Neither the operator the loop iterates nor the claim about it can be a  *)
(* parameter of a lemma; here the first is a table G of functions, one for *)
(* each round, on a set S that the loop does not leave, and the second a   *)
(* table T of sets, where T[k] holds what can be reached in k rounds.      *)
(***************************************************************************)

(* A set of numbers has a least one.                                       *)
LEMMA LeastOf ==
  ASSUME NEW T \in SUBSET Nat, T # {}
  PROVE  \E n \in T : \A m \in T : n <= m
<1> DEFINE R == {ss \in Nat \X Nat : ss[1] < ss[2]}
<1>1. IsWellFoundedOn(R, Nat)
  BY NatLessThanWellFounded DEF OpToRel
<1> HIDE DEF R
<1>2. PICK n \in T : \A m \in T : ~(<<m, n>> \in R)
  BY <1>1, WFMin
<1>3. \A m \in T : ~(m < n)
  BY <1>2 DEF R
<1>4. QED BY <1>3

(* Induction on 0..n: P holds the numbers a claim holds for.               *)
LEMMA UpTo ==
  ASSUME NEW n \in Nat, NEW P, 0 \in P,
         \A k \in 1..n : k - 1 \in P => k \in P
  PROVE  \A k \in 0..n : k \in P
<1>1. SUFFICES ASSUME NEW k \in 0..n, k \notin P PROVE FALSE
  OBVIOUS
<1> DEFINE F == {m \in Nat : m \in 0..n /\ m \notin P}
<1>2. F \in SUBSET Nat /\ F # {}  BY <1>1
<1>3. PICK m \in F : \A i \in F : m <= i
  BY <1>2, LeastOf
<1>4. m # 0 /\ m \in 1..n /\ m - 1 \in Nat /\ m - 1 \in 0..n
  BY <1>3
<1>5. m - 1 \notin F
  BY <1>3, <1>4
<1>6. QED BY <1>3, <1>4, <1>5

(* A set of indexes has a largest one, and that of 1..k is k.              *)
LEMMA MaxIn ==
  ASSUME NEW n \in Nat, NEW s \in SUBSET (1..n), s # {}
  PROVE  Max(s) \in s /\ \A y \in s : Max(s) >= y
<1> DEFINE B == {m \in Nat : \A y \in s : y <= m}
<1>1. n \in B /\ B \in SUBSET Nat  OBVIOUS
<1>2. PICK m \in B : \A i \in B : m <= i
  BY <1>1, LeastOf
<1>3. m \in s
  <2>1. SUFFICES ASSUME m \notin s PROVE FALSE
    OBVIOUS
  <2>2. \A y \in s : y \in 1..n /\ y <= m /\ y # m
    BY <1>2, <2>1
  <2>3. m \in Nat /\ m # 0
    <3>1. PICK y \in s : TRUE
      OBVIOUS
    <3>2. QED BY <1>2, <2>2, <3>1
  <2>4. m - 1 \in B
    BY <2>2, <2>3
  <2>5. QED BY <1>2, <2>3, <2>4
<1>4. \A y \in s : m >= y
  BY <1>2
<1>5. QED BY <1>3, <1>4 DEF Max

LEMMA MaxOfFirst ==
  ASSUME NEW n \in Nat, NEW k \in 1..n
  PROVE  /\ 1..k \in SUBSET (1..n) /\ 1..k # {}
         /\ Max(1..k) = k /\ (1..k) \ {Max(1..k)} = 1..k - 1
<1>1. 1..k \in SUBSET (1..n) /\ 1..k # {}
  OBVIOUS
<1>2. Max(1..k) \in 1..k /\ \A y \in 1..k : Max(1..k) >= y
  BY <1>1, MaxIn
<1>3. Max(1..k) = k
  BY <1>2
<1>4. QED BY <1>1, <1>3

(* The equations of a fold over 1..n that starts from x.                   *)
IsFold(h, n, x, G) ==
  h = [s \in SUBSET (1..n) |-> IF s = {} THEN x
                               ELSE G[Max(s)][h[s \ {Max(s)}]]]

(* One function from S to S for each round.                                *)
Moves(n, S) == [1..n -> [S -> S]]

LEMMA FoldExists ==
  ASSUME NEW n \in Nat, NEW S, NEW x \in S, NEW G \in Moves(n, S)
  PROVE  \E h \in [SUBSET (1..n) -> S] : IsFold(h, n, x, G)
<1> DEFINE Eq(h, D) == \A s \in SUBSET D :
                          h[s] = IF s = {} THEN x ELSE G[Max(s)][h[s \ {Max(s)}]]
           P == {D \in SUBSET (1..n) : \E h \in [SUBSET D -> S] : Eq(h, D)}
<1>1. {} \in P
  <2>1. [s \in SUBSET {} |-> x] \in [SUBSET {} -> S]
    OBVIOUS
  <2>2. Eq([s \in SUBSET {} |-> x], {})
    OBVIOUS
  <2>3. QED BY <2>1, <2>2
<1>2. ASSUME NEW D \in SUBSET (1..n), D # {}, \A y \in D : (D \ {y}) \in P
      PROVE  D \in P
  <2> DEFINE m == Max(D)
             r == D \ {m}
  <2>1. m \in D /\ m \in 1..n /\ \A y \in D : m >= y /\ y \in 1..n
    BY <1>2, MaxIn
  <2>2. PICK g \in [SUBSET r -> S] : Eq(g, r)
    BY <1>2, <2>1
  <2> DEFINE h == [s \in SUBSET D |-> IF m \in s THEN G[m][g[s \ {m}]] ELSE g[s]]
  <2> HIDE DEF m
  <2>3. \A s \in SUBSET D : /\ s \ {m} \in SUBSET r
                            /\ m \notin s => s \in SUBSET r
                            /\ m \notin (s \ {m})
    OBVIOUS
  <2>4. G[m] \in [S -> S]
    BY <2>1 DEF Moves
  <2>5. h \in [SUBSET D -> S]
    BY <2>2, <2>3, <2>4
  <2>6. ASSUME NEW s \in SUBSET D
        PROVE  h[s] = IF s = {} THEN x ELSE G[Max(s)][h[s \ {Max(s)}]]
    <3>1. CASE m \in s
      <4>1. Max(s) = m
        <5>1. Max(s) \in s /\ \A y \in s : Max(s) >= y
          BY <3>1, <2>6, MaxIn
        <5>2. Max(s) \in 1..n /\ m \in 1..n /\ Max(s) >= m /\ m >= Max(s)
          BY <5>1, <2>1, <2>6, <3>1
        <5>3. QED BY <5>2
      <4>2. h[s \ {m}] = g[s \ {m}]
        BY <2>3, <2>6
      <4>3. QED BY <4>1, <4>2, <3>1
    <3>2. CASE m \notin s
      <4>1. s \in SUBSET r /\ h[s] = g[s]
        BY <2>3, <3>2
      <4>2. g[s] = IF s = {} THEN x ELSE G[Max(s)][g[s \ {Max(s)}]]
        BY <2>2, <4>1
      <4>3. h[s \ {Max(s)}] = g[s \ {Max(s)}]
        BY <2>3, <3>2, <2>6
      <4>4. QED BY <4>1, <4>2, <4>3
    <3>3. QED BY <3>1, <3>2
  <2>7. QED BY <2>5, <2>6
<1> DEFINE Exists == \E h \in [SUBSET (1..n) -> S] : Eq(h, 1..n)
<1>3. IsFiniteSet(1..n)
  BY FS_Interval
<1>4. 1..n \in P
  <2> HIDE DEF P
  <2>1. QED BY <1>1, <1>2, <1>3, SubsetInduction
<1>5. PICK h \in [SUBSET (1..n) -> S] : Eq(h, 1..n)
  BY <1>4
<1>6. IsFold(h, n, x, G)
  BY <1>5 DEF IsFold
<1>7. QED BY <1>6

(* T[k] is what k rounds of G can make of x.                               *)
Rounds(n, S, x, G, T) ==
  /\ n \in Nat /\ x \in S /\ G \in Moves(n, S)
  /\ T \in [0..n -> SUBSET S] /\ x \in T[0]
  /\ \A k \in 1..n : \A y \in T[k - 1] : G[k][y] \in T[k]

(* h follows G as long as it stays in S.                                   *)
Folds(h, n, S, x, G) ==
  /\ h[{}] = x
  /\ \A s \in SUBSET (1..n) : s # {} /\ h[s \ {Max(s)}] \in S
       => h[s] = G[Max(s)][h[s \ {Max(s)}]]

(* Where a fold leads, whatever way it was chosen to exist.                *)
LEMMA FoldReaches ==
  ASSUME NEW n, NEW S, NEW x, NEW G, NEW T, Rounds(n, S, x, G, T),
         NEW h, Folds(h, n, S, x, G)
  PROVE  h[1..n] \in T[n]
<1> USE DEF Rounds, Folds
<1> DEFINE P == {k \in 0..n : h[1..k] \in T[k]}
<1>1. 0 \in P
  <2>1. 1..0 = {}  OBVIOUS
  <2>2. QED BY <2>1
<1>2. ASSUME NEW k \in 1..n, k - 1 \in P PROVE k \in P
  <2>1. /\ 1..k \in SUBSET (1..n) /\ 1..k # {}
        /\ Max(1..k) = k /\ (1..k) \ {Max(1..k)} = 1..k - 1
    BY MaxOfFirst
  <2>2. h[1..k - 1] \in T[k - 1] /\ k - 1 \in 0..n
    BY <1>2
  <2>3. h[1..k - 1] \in S
    BY <2>2
  <2>4. h[1..k] = G[k][h[1..k - 1]]
    BY <2>1, <2>3
  <2>5. k \in 0..n
    OBVIOUS
  <2>6. h[1..k] \in T[k]
    BY <2>2, <2>4
  <2>7. QED BY <2>5, <2>6
<1>3. n \in P
  <2>1. n \in 0..n OBVIOUS
  <2> HIDE DEF P
  <2>2. QED BY <1>1, <1>2, <2>1, UpTo
<1>4. QED BY <1>3

(* The same for a recursive function on 0..n.                              *)
IsLoop(h, n, x, G) == h = [k \in 0..n |-> IF k = 0 THEN x ELSE G[k][h[k - 1]]]

Loops(h, n, S, x, G) ==
  /\ h[0] = x
  /\ \A k \in 1..n : h[k - 1] \in S => h[k] = G[k][h[k - 1]]

LEMMA LoopExists ==
  ASSUME NEW n \in Nat, NEW S, NEW x \in S, NEW G \in Moves(n, S)
  PROVE  \E h \in [0..n -> S] : IsLoop(h, n, x, G)
<1>1. PICK f \in [SUBSET (1..n) -> S] : IsFold(f, n, x, G)
  BY FoldExists
<1> DEFINE g == [k \in 0..n |-> f[1..k]]
<1>2. g \in [0..n -> S]
  <2>1. \A k \in 0..n : 1..k \in SUBSET (1..n)
    OBVIOUS
  <2>2. QED BY <2>1
<1>3. ASSUME NEW k \in 0..n
      PROVE  g[k] = IF k = 0 THEN x ELSE G[k][g[k - 1]]
  <2>1. CASE k = 0
    <3>1. 1..k = {} /\ {} \in SUBSET (1..n)
      BY <2>1
    <3>2. f[{}] = x
      BY <1>1, <3>1 DEF IsFold
    <3>3. QED BY <2>1, <3>1, <3>2
  <2>2. CASE k # 0
    <3>1. k \in 1..n /\ k - 1 \in 0..n
      BY <2>2
    <3>2. /\ 1..k \in SUBSET (1..n) /\ 1..k # {}
          /\ Max(1..k) = k /\ (1..k) \ {Max(1..k)} = 1..k - 1
      BY <3>1, MaxOfFirst
    <3>3. f[1..k] = G[k][f[1..k - 1]]
      BY <1>1, <3>2 DEF IsFold
    <3>4. QED BY <2>2, <3>1, <3>3
  <2>3. QED BY <2>1, <2>2
<1>4. IsLoop(g, n, x, G)
  <2>1. g = [k \in 0..n |-> g[k]]
    OBVIOUS
  <2> HIDE DEF g
  <2>2. QED BY <1>3, <2>1 DEF IsLoop
<1>5. QED BY <1>2, <1>4

(* Where a loop leads.                                                     *)
LEMMA LoopReaches ==
  ASSUME NEW n, NEW S, NEW x, NEW G, NEW T, Rounds(n, S, x, G, T),
         NEW h, Loops(h, n, S, x, G)
  PROVE  \A k \in 0..n : h[k] \in T[k]
<1> USE DEF Rounds, Loops
<1> DEFINE P == {i \in 0..n : h[i] \in T[i]}
<1>1. n \in Nat /\ 0 \in P
  OBVIOUS
<1>2. ASSUME NEW i \in 1..n, i - 1 \in P PROVE i \in P
  <2>1. h[i - 1] \in T[i - 1] /\ i - 1 \in 0..n /\ i \in 0..n
    BY <1>2
  <2>2. h[i - 1] \in S
    BY <2>1
  <2>3. h[i] = G[i][h[i - 1]]
    BY <2>2
  <2>4. QED BY <2>1, <2>3
<1> HIDE DEF P
<1>3. \A k \in 0..n : k \in P
  BY <1>1, <1>2, UpTo
<1>4. QED BY <1>3 DEF P

(* Sequences of P, one after the other, are a sequence of P.               *)
LEMMA Flattened ==
  ASSUME NEW P, NEW seqs \in Seq(Seq(P))
  PROVE  FlattenSeq(seqs) \in Seq(P)
<1> DEFINE n == Len(seqs)
           S == Seq(P)
           G == [k \in 1..n |-> [y \in S |-> y \o seqs[k]]]
           T == [k \in 0..n |-> S]
           Eq(h) == h = [i \in 1..n |-> IF i = 1 THEN seqs[i] ELSE h[i - 1] \o seqs[i]]
<1>1. CASE n = 0
  <2>1. seqs = <<>>
    BY <1>1
  <2>2. QED BY <1>1, <2>1 DEF FlattenSeq
<1>2. CASE n # 0
  <2>1. FlattenSeq(seqs) = (CHOOSE h : Eq(h))[n]
    BY <1>2 DEF FlattenSeq
  <2>2. n \in Nat /\ n \in 1..n /\ n \in 0..n /\ \A k \in 1..n : seqs[k] \in S
    BY <1>2
  <2>3. G \in Moves(n, S) /\ <<>> \in S /\ T \in [0..n -> SUBSET S]
    BY <2>2 DEF Moves
  <2>4. <<>> \in T[0] /\ \A k \in 1..n : \A y \in T[k - 1] : G[k][y] \in T[k]
    <3>1. \A k \in 1..n : k - 1 \in 0..n /\ k \in 0..n
      BY <2>2
    <3>2. \A k \in 0..n : T[k] = S
      OBVIOUS
    <3>3. \A k \in 1..n : \A y \in S : G[k][y] \in S
      BY <2>3 DEF Moves
    <3> HIDE DEF T, G, S, n
    <3>4. QED BY <2>2, <2>3, <3>1, <3>2, <3>3
  <2>5. \A k \in 1..n : \A y \in S : G[k][y] = y \o seqs[k]
    OBVIOUS
  <2>6. \A s \in S : <<>> \o s = s
    OBVIOUS
  <2> HIDE DEF G, T, S, n
  <2>7. PICK g \in [0..n -> S] : IsLoop(g, n, <<>>, G)
    BY <2>2, <2>3, LoopExists
  <2> DEFINE f == [i \in 1..n |-> g[i]]
  <2>8. ASSUME NEW i \in 1..n
        PROVE  f[i] = IF i = 1 THEN seqs[i] ELSE f[i - 1] \o seqs[i]
    <3>1. i \in 0..n /\ i - 1 \in 0..n /\ i # 0
      BY <2>2
    <3>2. g[i] = g[i - 1] \o seqs[i]
      BY <2>5, <2>7, <3>1 DEF IsLoop
    <3>3. CASE i = 1
      <4>1. g[0] = <<>>
        BY <2>2, <2>7 DEF IsLoop
      <4>2. i - 1 = 0
        BY <3>3
      <4>3. g[i] = <<>> \o seqs[i]
        BY <3>2, <4>1, <4>2
      <4>4. QED BY <2>2, <2>6, <3>3, <4>3
    <3>4. CASE i # 1
      <4>1. i - 1 \in 1..n
        BY <2>2, <3>4
      <4>2. QED BY <3>2, <3>4, <4>1
    <3>5. QED BY <3>3, <3>4
  <2>9. Eq(f)
    <3>1. f = [i \in 1..n |-> f[i]]
      OBVIOUS
    <3> HIDE DEF f
    <3>2. QED BY <2>8, <3>1
  <2> DEFINE c == CHOOSE h : Eq(h)
  <2>10. Eq(c)
    <3> HIDE DEF f
    <3>1. QED BY <2>9
  <2> HIDE DEF c
  <2> DEFINE d == [k \in 0..n |-> IF k = 0 THEN <<>> ELSE c[k]]
  <2>11. d[0] = <<>> /\ \A k \in 1..n : d[k] = c[k] /\ d[k - 1] = IF k = 1 THEN <<>> ELSE c[k - 1]
    BY <2>2
  <2>12. \A k \in 1..n : d[k - 1] \in S => d[k] = G[k][d[k - 1]]
    <3>1. ASSUME NEW k \in 1..n, d[k - 1] \in S PROVE d[k] = d[k - 1] \o seqs[k]
      <4>1. c[k] = IF k = 1 THEN seqs[k] ELSE c[k - 1] \o seqs[k]
        BY <2>10
      <4> HIDE DEF d
      <4>2. QED BY <2>2, <2>6, <2>11, <4>1
    <3> HIDE DEF d
    <3>2. QED BY <2>5, <3>1
  <2> HIDE DEF d
  <2>13. d[n] \in T[n]
    <3>1. Rounds(n, S, <<>>, G, T)
      BY <2>2, <2>3, <2>4 DEF Rounds
    <3>2. Loops(d, n, S, <<>>, G)
      BY <2>11, <2>12 DEF Loops
    <3>3. QED BY <2>2, <3>1, <3>2, LoopReaches
  <2>14. T[n] \subseteq S
    BY <2>2, <2>3
  <2>15. QED BY <2>1, <2>2, <2>11, <2>13, <2>14 DEF c, S
<1>3. QED BY <1>1, <1>2

(* A fold whose operator stays in S stays in S.                            *)
LEMMA FoldStays ==
  ASSUME NEW n \in Nat, NEW S, NEW x \in S, NEW G \in Moves(n, S),
         NEW h, Folds(h, n, S, x, G)
  PROVE  h[1..n] \in S
<1> DEFINE T == [k \in 0..n |-> S]
<1>1. Rounds(n, S, x, G, T)
  <2>1. T \in [0..n -> SUBSET S] /\ x \in T[0]
    OBVIOUS
  <2>2. \A k \in 1..n : k - 1 \in 0..n /\ k \in 0..n /\ \A y \in S : G[k][y] \in S
    BY DEF Moves
  <2>3. QED BY <2>1, <2>2 DEF Rounds
<1>2. h[1..n] \in T[n]
  <2> HIDE DEF T
  <2>1. QED BY <1>1, FoldReaches
<1>3. QED BY <1>2

(* A finite set of numbers has a largest one.                              *)
LEMMA MaxOfFinite ==
  ASSUME NEW S, IsFiniteSet(S), S \subseteq Int, S # {}
  PROVE  Max(S) \in S /\ \A y \in S : Max(S) >= y
<1> DEFINE P == {U \in SUBSET S : U # {} => \E m \in U : \A y \in U : m >= y}
<1>1. {} \in P
  OBVIOUS
<1>2. ASSUME NEW U \in SUBSET S, U # {}, \A x \in U : (U \ {x}) \in P
      PROVE  U \in P
  <2>1. PICK x \in U : TRUE
    BY <1>2
  <2>2. CASE U \ {x} = {}
    <3>1. U = {x} /\ x \in Int
      BY <2>1, <2>2
    <3>2. QED BY <3>1
  <2>3. CASE U \ {x} # {}
    <3>1. PICK m \in U \ {x} : \A y \in U \ {x} : m >= y
      BY <1>2, <2>1, <2>3
    <3>2. m \in Int /\ x \in Int /\ \A y \in U : y \in Int
      OBVIOUS
    <3>3. CASE m >= x
      BY <3>1, <3>3
    <3>4. CASE ~(m >= x)
      BY <2>1, <3>1, <3>2, <3>4
    <3>5. QED BY <3>3, <3>4
  <2>4. QED BY <2>2, <2>3
<1>3. S \in P
  <2> HIDE DEF P
  <2>1. QED BY <1>1, <1>2, SubsetInduction
<1>4. \E m \in S : \A y \in S : m >= y
  BY <1>3
<1>5. QED BY <1>4 DEF Max

-----------------------------------------------------------------------------
(* A loop that adds up w[1], ..., w[n].                                    *)
AddsUp(h, n, w) ==
  \A u \in SUBSET (1..n) : h[u] = IF u = {} THEN 0 ELSE h[u \ {Max(u)}] + w[Max(u)]

LEMMA SumLoopExists ==
  ASSUME NEW n \in Nat, NEW w, \A k \in 1..n : w[k] \in Int
  PROVE  \E h \in [SUBSET (1..n) -> Int] : AddsUp(h, n, w)
<1> DEFINE G == [k \in 1..n |-> [t \in Int |-> t + w[k]]]
<1>1. G \in Moves(n, Int)
  BY DEF Moves
<1>2. \A k \in 1..n : \A t \in Int : G[k][t] = t + w[k]
  OBVIOUS
<1> HIDE DEF G
<1>3. 0 \in Int
  OBVIOUS
<1>4. PICK h \in [SUBSET (1..n) -> Int] : IsFold(h, n, 0, G)
  BY <1>1, <1>3, FoldExists
<1>5. \A u \in SUBSET (1..n) : u # {} => Max(u) \in 1..n /\ u \ {Max(u)} \in SUBSET (1..n)
  BY MaxIn
<1>6. ASSUME NEW u \in SUBSET (1..n)
      PROVE  h[u] = IF u = {} THEN 0 ELSE h[u \ {Max(u)}] + w[Max(u)]
  <2>1. h[u] = IF u = {} THEN 0 ELSE G[Max(u)][h[u \ {Max(u)}]]
    BY <1>4 DEF IsFold
  <2>2. u # {} => h[u \ {Max(u)}] \in Int /\ Max(u) \in 1..n
    BY <1>5
  <2>3. QED BY <1>2, <2>1, <2>2
<1>7. QED BY <1>4, <1>6 DEF AddsUp

LEMMA SumLoop ==
  ASSUME NEW n \in Nat, NEW w, \A k \in 1..n : w[k] \in Int,
         NEW h, AddsUp(h, n, w)
  PROVE  h[1..n] = SumFunctionOnSet(w, 1..n)
<1> DEFINE P == {k \in 0..n : h[1..k] = SumFunctionOnSet(w, 1..k)}
<1>1. 0 \in P
  <2>1. 1..0 = {} /\ {} \in SUBSET (1..n) /\ 0 \in 0..n
    OBVIOUS
  <2>2. h[{}] = 0
    BY <2>1 DEF AddsUp
  <2>3. QED BY <2>1, <2>2, SumEmpty
<1>2. ASSUME NEW k \in 1..n, k - 1 \in P PROVE k \in P
  <2>1. /\ 1..k \in SUBSET (1..n) /\ 1..k # {}
        /\ Max(1..k) = k /\ (1..k) \ {Max(1..k)} = 1..k - 1
    BY MaxOfFirst
  <2>2. h[1..k] = h[1..k - 1] + w[k]
    BY <2>1 DEF AddsUp
  <2>3. h[1..k - 1] = SumFunctionOnSet(w, 1..k - 1)
    BY <1>2
  <2>4. /\ IsFiniteSet(1..k - 1) /\ k \notin 1..k - 1
        /\ (1..k - 1) \cup {k} = 1..k
        /\ \A y \in (1..k - 1) \cup {k} : w[y] \in Int
    <3>1. k - 1 \in Int /\ 1 \in Int
      OBVIOUS
    <3>2. IsFiniteSet(1..k - 1)
      BY <3>1, FS_Interval
    <3>3. QED BY <3>2
  <2>5. SumFunctionOnSet(w, (1..k - 1) \cup {k}) = w[k] + SumFunctionOnSet(w, 1..k - 1)
    BY <2>4, SumAdd
  <2>6. SumFunctionOnSet(w, 1..k - 1) \in Int
    BY <2>4, SumInt
  <2>7. w[k] \in Int /\ k \in 0..n
    OBVIOUS
  <2>8. h[1..k] = SumFunctionOnSet(w, 1..k)
    <3>1. (1..k - 1) \cup {k} = 1..k
      BY <2>4
    <3>2. SumFunctionOnSet(w, 1..k) = w[k] + SumFunctionOnSet(w, 1..k - 1)
      BY <2>5, <3>1
    <3>3. PICK a : a = SumFunctionOnSet(w, 1..k - 1)
      OBVIOUS
    <3>4. a \in Int /\ h[1..k] = a + w[k] /\ SumFunctionOnSet(w, 1..k) = w[k] + a
      BY <2>2, <2>3, <2>6, <3>2, <3>3
    <3>5. QED BY <2>7, <3>4
  <2>9. QED BY <2>7, <2>8
<1> HIDE DEF P
<1>3. \A k \in 0..n : k \in P
  BY <1>1, <1>2, UpTo
<1>4. QED BY <1>3 DEF P

(* The same terms under other names.                                       *)
Renames(b, S, v, w) == /\ \A x \in S : \A y \in S : b[x] = b[y] => x = y
                       /\ \A x \in S : v[x] \in Int /\ w[b[x]] = v[x]

LEMMA SumRenamed ==
  ASSUME NEW S, IsFiniteSet(S), NEW b, NEW v, NEW w, Renames(b, S, v, w)
  PROVE  SumFunctionOnSet(w, {b[x] : x \in S}) = SumFunctionOnSet(v, S)
<1> USE DEF Renames
<1> DEFINE I(U) == {b[x] : x \in U}
           P == {U \in SUBSET S : /\ IsFiniteSet(I(U))
                                  /\ SumFunctionOnSet(w, I(U)) = SumFunctionOnSet(v, U)}
<1>1. {} \in P
  <2>1. I({}) = {}
    OBVIOUS
  <2>2. QED BY <2>1, SumEmpty, FS_EmptySet
<1>2. ASSUME NEW U \in SUBSET S, U # {}, \A x \in U : (U \ {x}) \in P
      PROVE  U \in P
  <2>1. PICK x \in U : TRUE
    BY <1>2
  <2> DEFINE V == U \ {x}
  <2>2. IsFiniteSet(I(V)) /\ SumFunctionOnSet(w, I(V)) = SumFunctionOnSet(v, V)
    BY <1>2, <2>1
  <2>3. I(U) = I(V) \cup {b[x]} /\ b[x] \notin I(V)
    BY <2>1
  <2>4. \A y \in I(U) : w[y] \in Int
    OBVIOUS
  <2>5. IsFiniteSet(U) /\ \A y \in U : v[y] \in Int
    BY FS_Subset
  <2> HIDE DEF I
  <2>6. IsFiniteSet(I(U))
    <3>1. IsFiniteSet(I(V) \cup {b[x]})
      BY <2>2, FS_AddElement
    <3>2. QED BY <2>3, <3>1
  <2>7. SumFunctionOnSet(w, I(V) \cup {b[x]}) = w[b[x]] + SumFunctionOnSet(w, I(V))
    BY <2>2, <2>3, <2>4, SumAdd
  <2>8. SumFunctionOnSet(v, U) = v[x] + SumFunctionOnSet(v, V)
    BY <2>5, SumRemove
  <2>9. QED BY <2>2, <2>3, <2>6, <2>7, <2>8
<1>3. S \in P
  <2> HIDE DEF P
  <2>1. QED BY <1>1, <1>2, SubsetInduction
<1>4. QED BY <1>3
===============================================================================
