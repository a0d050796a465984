---------------------------- MODULE SumTheorems ----------------------------
(***************************************************************************)
(* Sums over finite sets, as the models write them: MapThenSumSet of the   *)
(* days of a counter, SumFunctionOnSet of what requests have written.      *)
(* Both are folds, recursive over the subsets of the set.  The induction   *)
(* theorems of the library take an operator, which the provers cannot      *)
(* instantiate; here a smallest counterexample takes their place.          *)
(***************************************************************************)
EXTENDS FiniteSetsExt, FiniteSetTheorems, WellFoundedInduction, TLAPS

\* The element a fold takes first.
Chosen(s) == CHOOSE x \in s : TRUE

\* What makes g the function of the sums of f over the subsets of S.
SumRule(g, f, S) ==
    g = [s \in SUBSET S |-> IF s = {} THEN 0 ELSE f[Chosen(s)] + g[s \ {Chosen(s)}]]

\* The sum of f over S, as the folds define it.
SumOf(f, S) == (CHOOSE g : SumRule(g, f, S))[S]

\* The values of f over S.
LEMMA FunctionSum ==
  ASSUME NEW f, NEW S
  PROVE  SumFunctionOnSet(f, S) = SumOf(f, S)
BY DEF SumFunctionOnSet, FoldFunctionOnSet, MapThenFoldSet, SumOf, SumRule, Chosen

\* The values of an operator over S, when a function has them.
LEMMA MappedSum ==
  ASSUME NEW f, NEW S
  PROVE  MapThenSumSet(LAMBDA d : f[d], S) = SumOf(f, S)
BY DEF MapThenSumSet, MapThenFoldSet, SumOf, SumRule, Chosen

\* Among numbers that are there, one is the smallest.
LEMMA SmallestOf ==
  ASSUME NEW S \in SUBSET Nat, S # {}
  PROVE  \E k \in S : \A m \in S : k <= m
<1> DEFINE R == {ss \in Nat \X Nat : ss[1] < ss[2]}
<1>1. IsWellFoundedOn(R, Nat)
  BY NatLessThanWellFounded DEF OpToRel
<1> HIDE DEF R
<1>2. PICK k \in S : \A m \in S : ~ (<<m, k>> \in R)
  BY <1>1, WFMin
<1>3. \A m \in S : ~ (m < k)
  BY <1>2 DEF R
<1>4. QED
  BY <1>3

\* Among finite sets that are there, one has no smaller one: induction over the subsets of
\* a finite set.
LEMMA SmallestSet ==
  ASSUME NEW S, IsFiniteSet(S), NEW B \in SUBSET SUBSET S, B # {}
  PROVE  \E s \in B : \A t \in B : t \subseteq s => t = s
<1> DEFINE K == {Cardinality(s) : s \in B}
<1>1. \A s \in B : IsFiniteSet(s) /\ Cardinality(s) \in Nat
  BY FS_Subset, FS_CardinalityType
<1>2. K \in SUBSET Nat /\ K # {}
  BY <1>1
<1>3. PICK k \in K : \A m \in K : k <= m
  BY <1>2, SmallestOf
<1>4. PICK s \in B : k = Cardinality(s)
  BY <1>3
<1>5. ASSUME NEW t \in B, t \subseteq s, t # s
      PROVE  FALSE
  <2>1. Cardinality(t) < Cardinality(s)
    BY <1>1, <1>5, FS_Subset
  <2>2. Cardinality(s) <= Cardinality(t)
    BY <1>3, <1>4
  <2>3. QED
    BY <1>1, <2>1, <2>2
<1>6. QED
  BY <1>5

\* The element chosen is there, and without it the set is smaller.
LEMMA ChosenIsThere ==
  ASSUME NEW s, s # {}
  PROVE  Chosen(s) \in s /\ s \ {Chosen(s)} # s
BY DEF Chosen

\* The rule determines the function.
LEMMA RuleIsUnique ==
  ASSUME NEW f, NEW S, IsFiniteSet(S), NEW g, NEW h, SumRule(g, f, S), SumRule(h, f, S)
  PROVE  g = h
<1> DEFINE B == {s \in SUBSET S : g[s] # h[s]}
<1>1. ASSUME B # {}
      PROVE  FALSE
  <2>0. B \in SUBSET SUBSET S
    OBVIOUS
  <2>1. PICK s \in B : \A t \in B : t \subseteq s => t = s
    <3> HIDE DEF B
    <3>1. QED
      BY <1>1, <2>0, SmallestSet
  <2>2. s # {}
    BY <2>1 DEF SumRule
  <2>3. g[s \ {Chosen(s)}] = h[s \ {Chosen(s)}]
    BY <2>1, <2>2, ChosenIsThere
  <2>4. g[s] = f[Chosen(s)] + g[s \ {Chosen(s)}] /\ h[s] = f[Chosen(s)] + h[s \ {Chosen(s)}]
    BY <2>2 DEF SumRule
  <2>5. QED
    BY <2>1, <2>3, <2>4
<1>2. \A s \in SUBSET S : g[s] = h[s]
  BY <1>1
<1>3. QED
  BY <1>2 DEF SumRule

\* A function of sums is one also for a part of the set.
LEMMA RuleOfPart ==
  ASSUME NEW f, NEW S, NEW T \in SUBSET S, NEW g, SumRule(g, f, S)
  PROVE  SumRule([t \in SUBSET T |-> g[t]], f, T)
<1> DEFINE h == [t \in SUBSET T |-> g[t]]
<1>1. \A t \in SUBSET T :
        h[t] = IF t = {} THEN 0 ELSE f[Chosen(t)] + h[t \ {Chosen(t)}]
  <2>1. SUFFICES ASSUME NEW t \in SUBSET T
                 PROVE  h[t] = IF t = {} THEN 0 ELSE f[Chosen(t)] + h[t \ {Chosen(t)}]
    OBVIOUS
  <2>2. h[t] = g[t] /\ h[t \ {Chosen(t)}] = g[t \ {Chosen(t)}]
    OBVIOUS
  <2>3. g[t] = IF t = {} THEN 0 ELSE f[Chosen(t)] + g[t \ {Chosen(t)}]
    BY DEF SumRule
  <2>4. QED
    BY <2>2, <2>3
<1>2. QED
  BY <1>1 DEF SumRule

\* The sum over a part is what a function of sums of the whole says it is.
LEMMA SumOfPart ==
  ASSUME NEW f, NEW S, IsFiniteSet(S), NEW g, SumRule(g, f, S), NEW T \in SUBSET S
  PROVE  SumOf(f, T) = g[T]
<1> DEFINE h == [t \in SUBSET T |-> g[t]]
           c == CHOOSE k : SumRule(k, f, T)
<1>1. SumRule(h, f, T)
  BY RuleOfPart
<1>2. SumRule(c, f, T)
  BY <1>1
<1>3. IsFiniteSet(T)
  BY FS_Subset
<1> HIDE DEF c
<1>4. c = h
  <2> HIDE DEF h
  <2>1. QED
    BY <1>1, <1>2, <1>3, RuleIsUnique
<1>5. SumOf(f, T) = c[T]
  BY DEF SumOf, c
<1>6. QED
  BY <1>4, <1>5

\* There is a function of sums.
LEMMA RuleExists ==
  ASSUME NEW f, NEW S, IsFiniteSet(S)
  PROVE  \E g : SumRule(g, f, S)
<1> DEFINE B == {s \in SUBSET S : ~ \E g : SumRule(g, f, s)}
<1>1. ASSUME B # {}
      PROVE  FALSE
  <2>0. B \in SUBSET SUBSET S
    OBVIOUS
  <2>1. PICK T \in B : \A t \in B : t \subseteq T => t = T
    <3> HIDE DEF B
    <3>1. QED
      BY <1>1, <2>0, SmallestSet
  <2>2. \A t \in SUBSET T : t # T => \E g : SumRule(g, f, t)
    BY <2>1
  <2>3. \A t \in SUBSET T : IsFiniteSet(t)
    BY FS_Subset
  <2>4. ASSUME NEW t \in SUBSET T, t # T
        PROVE  SumOf(f, t) = IF t = {} THEN 0
                             ELSE f[Chosen(t)] + SumOf(f, t \ {Chosen(t)})
    <3>1. PICK g : SumRule(g, f, t)
      BY <2>2, <2>4
    <3>2. \A u \in SUBSET t : SumOf(f, u) = g[u]
      BY <2>3, <3>1, SumOfPart
    <3>3. g[t] = IF t = {} THEN 0 ELSE f[Chosen(t)] + g[t \ {Chosen(t)}]
      BY <3>1 DEF SumRule
    <3>4. QED
      BY <3>2, <3>3
  <2>5. CASE T = {}
    <3>1. SumRule([s \in SUBSET {} |-> 0], f, {})
      BY DEF SumRule
    <3>2. QED
      BY <2>1, <2>5, <3>1
  <2>6. CASE T # {}
    <3> DEFINE g == [t \in SUBSET T |-> IF t = T THEN f[Chosen(T)] + SumOf(f, T \ {Chosen(T)})
                                        ELSE SumOf(f, t)]
    <3>1. ASSUME NEW t \in SUBSET T
          PROVE  g[t] = IF t = {} THEN 0 ELSE f[Chosen(t)] + g[t \ {Chosen(t)}]
      <4>1. t # {} => t \ {Chosen(t)} \in SUBSET T /\ t \ {Chosen(t)} # T
        BY ChosenIsThere
      <4>2. t # {} => g[t \ {Chosen(t)}] = SumOf(f, t \ {Chosen(t)})
        BY <4>1
      <4>3. CASE t = T
        BY <2>6, <4>2, <4>3
      <4>4. CASE t # T
        <5>1. g[t] = SumOf(f, t)
          BY <4>4
        <5> HIDE DEF g
        <5>2. QED
          BY <2>4, <4>2, <4>4, <5>1
      <4>5. QED
        BY <4>3, <4>4
    <3>2. SumRule(g, f, T)
      BY <3>1 DEF SumRule
    <3> HIDE DEF g
    <3>3. QED
      BY <2>1, <3>2
  <2>7. QED
    BY <2>5, <2>6
<1>2. QED
  BY <1>1

\* The sum over nothing is 0, and every other sum is what its first element adds to the
\* sum over the rest.
LEMMA SumUnfolds ==
  ASSUME NEW f, NEW S, IsFiniteSet(S)
  PROVE  /\ SumOf(f, {}) = 0
         /\ S # {} => SumOf(f, S) = f[Chosen(S)] + SumOf(f, S \ {Chosen(S)})
<1>1. PICK g : SumRule(g, f, S)
  BY RuleExists
<1>2. \A T \in SUBSET S : SumOf(f, T) = g[T]
  BY <1>1, SumOfPart
<1>3. g[{}] = 0 /\ (S # {} => g[S] = f[Chosen(S)] + g[S \ {Chosen(S)}])
  BY <1>1 DEF SumRule
<1>4. QED
  BY <1>2, <1>3

\* A property of parts of a finite set holds for each of them when it holds for the empty
\* one and, for any other, follows from what is left without its first element.
LEMMA PartInduction ==
  ASSUME NEW S, IsFiniteSet(S), NEW G \in SUBSET SUBSET S, {} \in G,
         \A s \in SUBSET S : s # {} /\ s \ {Chosen(s)} \in G => s \in G
  PROVE  SUBSET S = G
<1> DEFINE B == (SUBSET S) \ G
<1>1. ASSUME B # {}
      PROVE  FALSE
  <2>1. B \in SUBSET SUBSET S
    OBVIOUS
  <2>2. PICK s \in B : \A t \in B : t \subseteq s => t = s
    <3> HIDE DEF B
    <3>1. QED
      BY <1>1, <2>1, SmallestSet
  <2>3. s # {} /\ s \ {Chosen(s)} \notin B
    BY <2>2, ChosenIsThere
  <2>4. QED
    BY <2>2, <2>3
<1>2. QED
  BY <1>1

\* The sum of numbers is a number; of zeros it is zero.
LEMMA SumIsNatural ==
  ASSUME NEW S, IsFiniteSet(S), NEW f, \A x \in S : f[x] \in Nat
  PROVE  /\ SumOf(f, S) \in Nat
         /\ (\A x \in S : f[x] = 0) => SumOf(f, S) = 0
<1> DEFINE G == {s \in SUBSET S : /\ SumOf(f, s) \in Nat
                                  /\ (\A x \in s : f[x] = 0) => SumOf(f, s) = 0}
<1>1. {} \in G
  <2>1. SumOf(f, {}) = 0
    BY SumUnfolds
  <2>2. QED
    BY <2>1
<1>2. ASSUME NEW s \in SUBSET S, s # {}, s \ {Chosen(s)} \in G
      PROVE  s \in G
  <2>1. SumOf(f, s) = f[Chosen(s)] + SumOf(f, s \ {Chosen(s)})
    BY <1>2, FS_Subset, SumUnfolds
  <2>2. Chosen(s) \in s
    BY <1>2, ChosenIsThere
  <2>3. QED
    BY <1>2, <2>1, <2>2
<1>3. SUBSET S = G
  <2>1. G \in SUBSET SUBSET S
    OBVIOUS
  <2> HIDE DEF G
  <2>2. QED
    BY <1>1, <1>2, <2>1, PartInduction
<1>4. S \in G
  BY <1>3
<1>5. QED
  BY <1>4

\* Two functions that differ at one element by k have sums that do.
LEMMA SumMoves ==
  ASSUME NEW S, IsFiniteSet(S), NEW f, NEW g, NEW e, NEW k \in Int,
         \A x \in S : f[x] \in Int,
         \A x \in S : g[x] = IF x = e THEN f[x] + k ELSE f[x]
  PROVE  /\ SumOf(f, S) \in Int
         /\ SumOf(g, S) = SumOf(f, S) + (IF e \in S THEN k ELSE 0)
<1> DEFINE G == {s \in SUBSET S : /\ SumOf(f, s) \in Int
                                  /\ SumOf(g, s) = SumOf(f, s) + (IF e \in s THEN k ELSE 0)}
<1>1. {} \in G
  <2>1. SumOf(f, {}) = 0 /\ SumOf(g, {}) = 0
    BY SumUnfolds
  <2>2. QED
    BY <2>1
<1>2. ASSUME NEW s \in SUBSET S, s # {}, s \ {Chosen(s)} \in G
      PROVE  s \in G
  <2>1. /\ SumOf(f, s) = f[Chosen(s)] + SumOf(f, s \ {Chosen(s)})
        /\ SumOf(g, s) = g[Chosen(s)] + SumOf(g, s \ {Chosen(s)})
    BY <1>2, FS_Subset, SumUnfolds
  <2>2. Chosen(s) \in s
    BY <1>2, ChosenIsThere
  <2>3. QED
    BY <1>2, <2>1, <2>2
<1>3. SUBSET S = G
  <2>1. G \in SUBSET SUBSET S
    OBVIOUS
  <2> HIDE DEF G
  <2>2. QED
    BY <1>1, <1>2, <2>1, PartInduction
<1>4. S \in G
  BY <1>3
<1>5. QED
  BY <1>4

\* Functions that agree on the set have the same sum.
LEMMA SumSame ==
  ASSUME NEW S, IsFiniteSet(S), NEW f, NEW g, \A x \in S : f[x] \in Int /\ g[x] = f[x]
  PROVE  SumOf(g, S) = SumOf(f, S) /\ SumOf(f, S) \in Int
<1> DEFINE e == Chosen(S)
<1>1. \A x \in S : f[x] \in Int
  OBVIOUS
<1>2. \A x \in S : g[x] = IF x = e THEN f[x] + 0 ELSE f[x]
  OBVIOUS
<1> HIDE DEF e
<1>3. /\ SumOf(f, S) \in Int
      /\ SumOf(g, S) = SumOf(f, S) + (IF e \in S THEN 0 ELSE 0)
  <2> DEFINE k == 0
  <2>1. k \in Int /\ \A x \in S : g[x] = IF x = e THEN f[x] + k ELSE f[x]
    BY <1>2
  <2> HIDE DEF k
  <2>2. /\ SumOf(f, S) \in Int
        /\ SumOf(g, S) = SumOf(f, S) + (IF e \in S THEN k ELSE 0)
    BY <1>1, <2>1, SumMoves
  <2>3. QED
    BY <2>2 DEF k
<1>4. QED
  BY <1>3

\* Whichever element is taken first.
LEMMA SumWithout ==
  ASSUME NEW S, IsFiniteSet(S), NEW f, \A x \in S : f[x] \in Int, NEW e \in S
  PROVE  SumOf(f, S) = f[e] + SumOf(f, S \ {e})
<1> DEFINE B == {s \in SUBSET S : \E x \in s : SumOf(f, s) # f[x] + SumOf(f, s \ {x})}
<1>1. ASSUME B # {}
      PROVE  FALSE
  <2>1. B \in SUBSET SUBSET S
    OBVIOUS
  <2>2. PICK s \in B : \A t \in B : t \subseteq s => t = s
    <3> HIDE DEF B
    <3>1. QED
      BY <1>1, <2>1, SmallestSet
  <2>3. PICK x \in s : SumOf(f, s) # f[x] + SumOf(f, s \ {x})
    BY <2>2
  <2> DEFINE c == Chosen(s)
  <2>4. c \in s /\ SumOf(f, s) = f[c] + SumOf(f, s \ {c})
    BY <2>3, <2>2, ChosenIsThere, FS_Subset, SumUnfolds
  <2> HIDE DEF c
  <2>5. x # c
    BY <2>3, <2>4
  <2>6. s \ {c} \notin B /\ s \ {x} \notin B
    BY <2>2, <2>3, <2>4
  <2>7. SumOf(f, s \ {c}) = f[x] + SumOf(f, (s \ {c}) \ {x})
    BY <2>3, <2>5, <2>6, <2>2
  <2>8. SumOf(f, s \ {x}) = f[c] + SumOf(f, (s \ {x}) \ {c})
    BY <2>4, <2>5, <2>6, <2>2
  <2>9. SumOf(f, s \ {x}) = f[c] + SumOf(f, (s \ {c}) \ {x})
    <3>1. (s \ {c}) \ {x} = (s \ {x}) \ {c}
      OBVIOUS
    <3>2. QED
      BY <2>8, <3>1
  <2>10. SumOf(f, (s \ {c}) \ {x}) \in Int /\ f[x] \in Int /\ f[c] \in Int
    <3>1. (s \ {c}) \ {x} \in SUBSET S
      BY <2>2
    <3>2. IsFiniteSet((s \ {c}) \ {x})
      BY <3>1, FS_Subset
    <3>3. \A y \in (s \ {c}) \ {x} : f[y] \in Int /\ f[y] = IF y = x THEN f[y] + 0 ELSE f[y]
      BY <3>1
    <3>4. SumOf(f, (s \ {c}) \ {x}) \in Int
      BY <3>2, <3>3, SumMoves
    <3>5. QED
      BY <2>2, <2>3, <2>4, <3>4
  <2>11. QED
    BY <2>3, <2>4, <2>7, <2>9, <2>10
<1>2. QED
  BY <1>1

\* The sums over two parts make up the sum over the whole.
LEMMA SumOfParts ==
  ASSUME NEW S, IsFiniteSet(S), NEW T, NEW f, \A x \in S : f[x] \in Nat
  PROVE  /\ SumOf(f, S \cap T) \in Nat /\ SumOf(f, S \ T) \in Nat
         /\ SumOf(f, S) = SumOf(f, S \cap T) + SumOf(f, S \ T)
<1> DEFINE G == {s \in SUBSET S : SumOf(f, s) = SumOf(f, s \cap T) + SumOf(f, s \ T)}
<1>1. \A s \in SUBSET S : IsFiniteSet(s)
  BY FS_Subset
<1>2. \A s \in SUBSET S : SumOf(f, s) \in Nat
  BY <1>1, SumIsNatural
<1>3. {} \in G
  <2>1. SumOf(f, {}) = 0 /\ {} \cap T = {} /\ {} \ T = {}
    BY SumUnfolds
  <2>2. QED
    BY <2>1
<1>4. ASSUME NEW s \in SUBSET S, s # {}, s \ {Chosen(s)} \in G
      PROVE  s \in G
  <2> DEFINE c == Chosen(s)
             r == s \ {c}
  <2>1. c \in s /\ SumOf(f, s) = f[c] + SumOf(f, r) /\ f[c] \in Nat
    BY <1>1, <1>4, ChosenIsThere, SumUnfolds
  <2>2. SumOf(f, r) = SumOf(f, r \cap T) + SumOf(f, r \ T)
    BY <1>4
  <2> HIDE DEF c
  <2>3. r \cap T \in SUBSET S /\ r \ T \in SUBSET S
    OBVIOUS
  <2>4. SumOf(f, r \cap T) \in Nat /\ SumOf(f, r \ T) \in Nat
    BY <1>2, <2>3
  <2>5. CASE c \in T
    <3>1. (s \cap T) \ {c} = r \cap T /\ s \ T = r \ T /\ c \in s \cap T
      BY <2>1, <2>5
    <3>2. SumOf(f, s \cap T) = f[c] + SumOf(f, (s \cap T) \ {c})
      <4>1. \A x \in s \cap T : f[x] \in Int
        OBVIOUS
      <4>2. IsFiniteSet(s \cap T)
        BY <1>1
      <4>3. QED
        BY <3>1, <4>1, <4>2, SumWithout
    <3>3. SumOf(f, s \cap T) = f[c] + SumOf(f, r \cap T) /\ SumOf(f, s \ T) = SumOf(f, r \ T)
      BY <3>1, <3>2
    <3> HIDE DEF r
    <3>4. SumOf(f, s) = SumOf(f, s \cap T) + SumOf(f, s \ T)
      BY <2>1, <2>2, <2>4, <3>3
    <3>5. QED
      BY <3>4
  <2>6. CASE c \notin T
    <3>1. (s \ T) \ {c} = r \ T /\ s \cap T = r \cap T /\ c \in s \ T
      BY <2>1, <2>6
    <3>2. SumOf(f, s \ T) = f[c] + SumOf(f, (s \ T) \ {c})
      <4>1. \A x \in s \ T : f[x] \in Int
        OBVIOUS
      <4>2. IsFiniteSet(s \ T)
        BY <1>1
      <4>3. QED
        BY <3>1, <4>1, <4>2, SumWithout
    <3>3. SumOf(f, s \ T) = f[c] + SumOf(f, r \ T) /\ SumOf(f, s \cap T) = SumOf(f, r \cap T)
      BY <3>1, <3>2
    <3> HIDE DEF r
    <3>4. SumOf(f, s) = SumOf(f, s \cap T) + SumOf(f, s \ T)
      BY <2>1, <2>2, <2>4, <3>3
    <3>5. QED
      BY <3>4
  <2>7. QED
    BY <2>5, <2>6
<1>5. SUBSET S = G
  <2>1. G \in SUBSET SUBSET S
    OBVIOUS
  <2> HIDE DEF G
  <2>2. QED
    BY <1>3, <1>4, <2>1, PartInduction
<1>6. S \in G
  BY <1>5
<1>7. S \cap T \in SUBSET S /\ S \ T \in SUBSET S
  OBVIOUS
<1>8. QED
  BY <1>2, <1>6, <1>7

\* A sum does not depend on how its elements are named.
LEMMA SumRenamed ==
  ASSUME NEW S, IsFiniteSet(S), NEW b, NEW f, NEW g,
         \A x \in S : f[b[x]] \in Int /\ g[x] = f[b[x]],
         \A x, y \in S : b[x] = b[y] => x = y
  PROVE  SumOf(g, S) = SumOf(f, {b[x] : x \in S})
<1> DEFINE im(s) == {b[x] : x \in s}
           G == {s \in SUBSET S : SumOf(g, s) = SumOf(f, im(s))}
<1>1. {} \in G
  <2>1. SumOf(f, {}) = 0 /\ SumOf(g, {}) = 0 /\ im({}) = {}
    BY SumUnfolds
  <2>2. QED
    BY <2>1
<1>2. ASSUME NEW s \in SUBSET S, s # {}, s \ {Chosen(s)} \in G
      PROVE  s \in G
  <2> DEFINE c == Chosen(s)
  <2>1. c \in s /\ SumOf(g, s) = g[c] + SumOf(g, s \ {c})
    BY <1>2, ChosenIsThere, FS_Subset, SumUnfolds
  <2>2. SumOf(g, s \ {c}) = SumOf(f, im(s \ {c}))
    BY <1>2
  <2> HIDE DEF c
  <2>3. im(s \ {c}) = im(s) \ {b[c]} /\ b[c] \in im(s)
    BY <2>1
  <2>4. SumOf(f, im(s)) = f[b[c]] + SumOf(f, im(s) \ {b[c]})
    <3>1. \A y \in im(s) : f[y] \in Int
      OBVIOUS
    <3>2. IsFiniteSet(im(s))
      <4> DEFINE h == [x \in s |-> b[x]]
      <4>1. h \in Surjection(s, im(s))
        BY DEF Surjection
      <4>2. IsFiniteSet(s)
        BY FS_Subset
      <4> HIDE DEF h, im
      <4>3. QED
        BY <4>1, <4>2, FS_Surjection
    <3> HIDE DEF im
    <3>3. QED
      BY <2>3, <3>1, <3>2, SumWithout
  <2>5. QED
    BY <2>1, <2>2, <2>3, <2>4
<1>3. SUBSET S = G
  <2>1. G \in SUBSET SUBSET S
    OBVIOUS
  <2>2. \A s \in SUBSET S : s # {} /\ s \ {Chosen(s)} \in G => s \in G
    BY <1>2
  <2> HIDE DEF G
  <2>3. QED
    BY <1>1, <2>1, <2>2, PartInduction
<1>4. S \in G
  BY <1>3
<1>5. QED
  BY <1>4
\* Smaller numbers have no larger sum.
LEMMA SumAtMost ==
  ASSUME NEW S, IsFiniteSet(S), NEW f, NEW g,
         \A x \in S : f[x] \in Nat /\ g[x] \in Nat /\ f[x] <= g[x]
  PROVE  SumOf(f, S) <= SumOf(g, S)
<1> DEFINE G == {s \in SUBSET S : SumOf(f, s) <= SumOf(g, s)}
<1>1. \A s \in SUBSET S : IsFiniteSet(s)
  BY FS_Subset
<1>2. \A s \in SUBSET S : SumOf(f, s) \in Nat /\ SumOf(g, s) \in Nat
  BY <1>1, SumIsNatural
<1>3. {} \in G
  <2>1. SumOf(f, {}) = 0 /\ SumOf(g, {}) = 0
    BY SumUnfolds
  <2>2. QED
    BY <2>1
<1>4. ASSUME NEW s \in SUBSET S, s # {}, s \ {Chosen(s)} \in G
      PROVE  s \in G
  <2>1. /\ SumOf(f, s) = f[Chosen(s)] + SumOf(f, s \ {Chosen(s)})
        /\ SumOf(g, s) = g[Chosen(s)] + SumOf(g, s \ {Chosen(s)})
    BY <1>1, <1>4, SumUnfolds
  <2>2. Chosen(s) \in s /\ s \ {Chosen(s)} \in SUBSET S
    BY <1>4, ChosenIsThere
  <2>3. /\ SumOf(f, s \ {Chosen(s)}) \in Nat /\ SumOf(g, s \ {Chosen(s)}) \in Nat
        /\ f[Chosen(s)] \in Nat /\ g[Chosen(s)] \in Nat /\ f[Chosen(s)] <= g[Chosen(s)]
    BY <1>2, <2>2
  <2>4. QED
    BY <1>4, <2>1, <2>3
<1>5. SUBSET S = G
  <2>1. G \in SUBSET SUBSET S
    OBVIOUS
  <2> HIDE DEF G
  <2>2. QED
    BY <1>3, <1>4, <2>1, PartInduction
<1>6. S \in G
  BY <1>5
<1>7. QED
  BY <1>6

\* Numbers up to m have at most so many times m as their sum.
LEMMA SumBounded ==
  ASSUME NEW S, IsFiniteSet(S), NEW f, NEW m \in Nat, \A x \in S : f[x] \in 0..m
  PROVE  SumOf(f, S) <= Cardinality(S) * m
<1> DEFINE G == {s \in SUBSET S : SumOf(f, s) <= Cardinality(s) * m}
<1>1. \A s \in SUBSET S : IsFiniteSet(s) /\ Cardinality(s) \in Nat
  BY FS_Subset, FS_CardinalityType
<1>2. \A s \in SUBSET S : SumOf(f, s) \in Nat
  <2>1. \A x \in S : f[x] \in Nat
    OBVIOUS
  <2>2. QED
    BY <1>1, <2>1, SumIsNatural
<1>3. {} \in G
  <2>1. SumOf(f, {}) = 0 /\ Cardinality({}) = 0
    BY SumUnfolds, FS_EmptySet
  <2>2. QED
    BY <2>1
<1>4. ASSUME NEW s \in SUBSET S, s # {}, s \ {Chosen(s)} \in G
      PROVE  s \in G
  <2> DEFINE r == s \ {Chosen(s)}
  <2>1. SumOf(f, s) = f[Chosen(s)] + SumOf(f, r)
    BY <1>1, <1>4, SumUnfolds
  <2>2. Chosen(s) \in s /\ r \in SUBSET S
    BY <1>4, ChosenIsThere
  <2>3. Cardinality(r) = Cardinality(s) - 1
    BY <1>1, <2>2, FS_RemoveElement
  <2>4. /\ SumOf(f, r) \in Nat /\ f[Chosen(s)] \in Nat /\ f[Chosen(s)] <= m
        /\ SumOf(f, r) <= Cardinality(r) * m
    BY <1>2, <1>4, <2>2
  <2>5. Cardinality(s) \in Nat /\ Cardinality(s) * m = (Cardinality(s) - 1) * m + m
    BY <1>1, <1>4
  <2>6. (Cardinality(s) - 1) * m \in Int
    BY <2>5
  <2> HIDE DEF r
  <2>7. SumOf(f, s) <= Cardinality(s) * m
    BY <2>1, <2>3, <2>4, <2>5, <2>6
  <2>8. QED
    BY <1>4, <2>7
<1>5. SUBSET S = G
  <2>1. G \in SUBSET SUBSET S
    OBVIOUS
  <2> HIDE DEF G
  <2>2. QED
    BY <1>3, <1>4, <2>1, PartInduction
<1>6. S \in G
  BY <1>5
<1>7. QED
  BY <1>6
=============================================================================
