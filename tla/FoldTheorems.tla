---------------------------- MODULE FoldTheorems ----------------------------
(***************************************************************************)
(* Facts about the community modules' sums, folds, Max, Min and SetToSeq.  *)
(* Induction is over a set of numbers or of subsets, from the              *)
(* well-foundedness of the naturals: no theorem takes an operator as a     *)
(* parameter.                                                              *)
(***************************************************************************)
EXTENDS Integers, Sequences, FiniteSets, Functions, FiniteSetsExt, SequencesExt,
        FiniteSetTheorems, WellFoundedInduction, TLAPS


\* Every nonempty set of naturals has a least element.
LEMMA LeastNat ==
  ASSUME NEW S \in SUBSET Nat, S # {}
  PROVE  \E n \in S : \A m \in S : n <= m
<1> DEFINE R == OpToRel(<, Nat)
<1>1. IsWellFoundedOn(R, Nat)
  BY NatLessThanWellFounded
<1>2. \A x, y \in Nat : x < y => <<x, y>> \in R
  BY DEF OpToRel
<1> HIDE DEF R
<1>3. \E x \in S : \A y \in S : ~(<<y, x>> \in R)
  BY <1>1, WFMin, Zenon
<1>4. PICK x \in S : \A y \in S : ~(<<y, x>> \in R)
  BY <1>3, Zenon
<1>5. \A y \in S : y \in Nat /\ x \in Nat /\ ~(y < x)
  BY <1>2, <1>4, Zenon
<1> QED BY <1>5

\* Induction over the naturals for a set, not an operator, of the numbers that
\* have the property.
LEMMA Induction ==
  ASSUME NEW F, 0 \in F, \A n \in Nat : n \in F => n + 1 \in F
  PROVE  Nat \subseteq F
<1> SUFFICES ASSUME Nat \ F # {} PROVE FALSE
  OBVIOUS
<1>1. PICK n \in Nat \ F : \A m \in Nat \ F : n <= m
  BY LeastNat
<1>2. n # 0 /\ n - 1 \in Nat /\ (n - 1) + 1 = n /\ ~(n <= n - 1)
  BY <1>1
<1> QED BY <1>1, <1>2

\* Induction over the subsets of a finite set, one element at a time.
LEMMA SubsetInduction ==
  ASSUME NEW S, IsFiniteSet(S), NEW F,
         \A s \in SUBSET S : (\A x \in s : s \ {x} \in F) => s \in F
  PROVE  SUBSET S \subseteq F
<1> DEFINE C == {Cardinality(s) : s \in (SUBSET S) \ F}
<1> SUFFICES ASSUME NEW t \in SUBSET S, t \notin F PROVE FALSE
  OBVIOUS
<1>1. \A s \in SUBSET S : IsFiniteSet(s) /\ Cardinality(s) \in Nat
  BY FS_Subset, FS_CardinalityType
<1>2. C \in SUBSET Nat /\ C # {}
  <2>1. t \in (SUBSET S) \ F
    OBVIOUS
  <2>2. Cardinality(t) \in C
    BY <2>1
  <2>3. C \subseteq Nat
    BY <1>1
  <2> QED BY <2>2, <2>3
<1>3. PICK s \in (SUBSET S) \ F : \A r \in (SUBSET S) \ F : Cardinality(s) <= Cardinality(r)
  <2> HIDE DEF C
  <2>1. PICK n \in C : \A m \in C : n <= m
    BY <1>2, LeastNat
  <2> QED BY <2>1 DEF C
<1>4. PICK x \in s : s \ {x} \notin F
  <2>1. s \in SUBSET S /\ s \notin F
    BY <1>3
  <2> QED BY <2>1
<1>5. s \ {x} \in SUBSET S /\ Cardinality(s \ {x}) = Cardinality(s) - 1
  BY <1>1, <1>4, FS_RemoveElement
<1>6. Cardinality(s) <= Cardinality(s) - 1
  BY <1>3, <1>4, <1>5
<1> QED BY <1>1, <1>6

-----------------------------------------------------------------------------
\* it[s] is what op makes of base and of f over s, its elements taken as pick says.
FoldsOf(it, S, E, V, f, base, op, pick) ==
  /\ op \in [V \X E -> V] /\ it \in [SUBSET S -> V]
  /\ \A s \in SUBSET S :
       it[s] = IF s = {} THEN base ELSE op[<<it[s \ {pick[s]}], f[pick[s]]>>]

\* A function defined by recursion over the subsets of a finite set exists.
LEMMA FoldsExist ==
  ASSUME NEW S, IsFiniteSet(S), NEW V, NEW E, NEW base \in V,
         NEW f, \A x \in S : f[x] \in E, NEW op \in [V \X E -> V],
         NEW pick, \A s \in SUBSET S : s # {} => pick[s] \in s
  PROVE  \E it : FoldsOf(it, S, E, V, f, base, op, pick)
<1> DEFINE Step(g, s) == IF s = {} THEN base ELSE op[<<g[s \ {pick[s]}], f[pick[s]]>>]
           Upto(n, g) == \A s \in SUBSET S : Cardinality(s) <= n => g[s] = Step(g, s)
           F == {n \in Nat : \E g \in [SUBSET S -> V] : Upto(n, g)}
<1>0. \A s \in SUBSET S : IsFiniteSet(s) /\ Cardinality(s) \in Nat
  BY FS_Subset, FS_CardinalityType
<1>1. 0 \in F
  <2>1. \A s \in SUBSET S : Cardinality(s) <= 0 => s = {}
    BY <1>0, FS_EmptySet
  <2>2. [s \in SUBSET S |-> base] \in [SUBSET S -> V] /\ Upto(0, [s \in SUBSET S |-> base])
    BY <2>1
  <2> QED BY <2>2
<1>2. ASSUME NEW n \in Nat, NEW g \in [SUBSET S -> V], Upto(n, g)
      PROVE  \E h \in [SUBSET S -> V] : Upto(n + 1, h)
  <2> DEFINE h == [s \in SUBSET S |-> Step(g, s)]
  <2>1. ASSUME NEW s \in SUBSET S, Cardinality(s) <= n + 1
        PROVE  h[s] = Step(h, s)
    <3>1. CASE s = {}
      BY <3>1
    <3>2. CASE s # {}
      <4>1. pick[s] \in s
        BY <3>2
      <4>2. s \ {pick[s]} \in SUBSET S /\ Cardinality(s \ {pick[s]}) = Cardinality(s) - 1
        BY <1>0, <4>1, FS_RemoveElement
      <4>3. Cardinality(s \ {pick[s]}) <= n
        BY <1>0, <2>1, <4>2
      <4>4. g[s \ {pick[s]}] = Step(g, s \ {pick[s]})
        BY <1>2, <4>2, <4>3
      <4>5. h[s \ {pick[s]}] = g[s \ {pick[s]}]
        BY <4>2, <4>4
      <4>6. h[s] = op[<<g[s \ {pick[s]}], f[pick[s]]>>]
        BY <3>2
      <4> QED BY <3>2, <4>5, <4>6
    <3> QED BY <3>1, <3>2
  <2>2. \A s \in SUBSET S : Step(g, s) \in V
    <3> SUFFICES ASSUME NEW s \in SUBSET S, s # {}
                 PROVE  op[<<g[s \ {pick[s]}], f[pick[s]]>>] \in V
      OBVIOUS
    <3>1. pick[s] \in s /\ s \ {pick[s]} \in SUBSET S
      OBVIOUS
    <3>2. g[s \ {pick[s]}] \in V /\ f[pick[s]] \in E
      BY <3>1
    <3> QED BY <3>2
  <2>3. h \in [SUBSET S -> V]
    BY <2>2
  <2> HIDE DEF h
  <2>4. Upto(n + 1, h)
    BY <2>1
  <2> QED BY <2>3, <2>4
<1>3. Cardinality(S) \in F
  <2>1. ASSUME NEW n \in Nat, n \in F PROVE n + 1 \in F
    <3>1. PICK g \in [SUBSET S -> V] : Upto(n, g)
      BY <2>1
    <3> HIDE DEF Upto
    <3>2. \E h \in [SUBSET S -> V] : Upto(n + 1, h)
      BY <1>2, <3>1, Zenon
    <3>3. n + 1 \in Nat
      OBVIOUS
    <3> QED BY <3>2, <3>3
  <2> HIDE DEF F
  <2> QED BY <1>0, <1>1, <2>1, Induction
<1>4. PICK g \in [SUBSET S -> V] : Upto(Cardinality(S), g)
  BY <1>3
<1>5. \A s \in SUBSET S : g[s] = Step(g, s)
  BY <1>0, <1>4, FS_Subset
<1> QED BY <1>5 DEF FoldsOf

-----------------------------------------------------------------------------
AnyOf(s) == CHOOSE x \in s : TRUE

\* it[s] is the sum of f over s.
SumsOf(it, f, S) ==
  it = [s \in SUBSET S |-> IF s = {} THEN 0 ELSE f[AnyOf(s)] + it[s \ {AnyOf(s)}]]

\* The recursion of MapThenFoldSet, for sums, has a solution,
LEMMA SumsExist ==
  ASSUME NEW S, IsFiniteSet(S), NEW f, \A x \in S : f[x] \in Nat
  PROVE  \E it : SumsOf(it, f, S)
<1> DEFINE op   == [p \in Nat \X Nat |-> p[2] + p[1]]
           pick == [s \in SUBSET S |-> AnyOf(s)]
<1>1. \A s \in SUBSET S : s # {} => pick[s] \in s
  BY DEF AnyOf
<1>2. op \in [Nat \X Nat -> Nat] /\ 0 \in Nat
  OBVIOUS
<1>3. \A a, b \in Nat : op[<<a, b>>] = b + a
  OBVIOUS
<1>4. \A s \in SUBSET S : pick[s] = AnyOf(s)
  OBVIOUS
<1> HIDE DEF op, pick
<1>5. PICK it : FoldsOf(it, S, Nat, Nat, f, 0, op, pick)
  BY <1>1, <1>2, FoldsExist
<1>6. ASSUME NEW s \in SUBSET S, s # {}
      PROVE  it[s] = f[AnyOf(s)] + it[s \ {AnyOf(s)}]
  <2>1. AnyOf(s) \in s /\ s \ {AnyOf(s)} \in SUBSET S
    BY <1>1, <1>4, <1>6
  <2>2. it[s \ {AnyOf(s)}] \in Nat /\ f[AnyOf(s)] \in Nat
    BY <1>5, <2>1 DEF FoldsOf
  <2>3. it[s] = op[<<it[s \ {AnyOf(s)}], f[AnyOf(s)]>>]
    BY <1>4, <1>5, <1>6 DEF FoldsOf
  <2> QED BY <1>3, <2>2, <2>3
<1>7. it = [s \in SUBSET S |-> IF s = {} THEN 0 ELSE f[AnyOf(s)] + it[s \ {AnyOf(s)}]]
  BY <1>5, <1>6 DEF FoldsOf
<1> QED BY <1>7 DEF SumsOf

\* whose values are naturals,
LEMMA SumsNat ==
  ASSUME NEW S, IsFiniteSet(S), NEW f, \A x \in S : f[x] \in Nat, NEW it, SumsOf(it, f, S)
  PROVE  \A s \in SUBSET S : it[s] \in Nat
<1> DEFINE F == {s \in SUBSET S : it[s] \in Nat}
<1>1. ASSUME NEW s \in SUBSET S, \A x \in s : s \ {x} \in F
      PROVE  s \in F
  <2>1. CASE s = {}
    BY <2>1 DEF SumsOf
  <2>2. CASE s # {}
    <3>1. AnyOf(s) \in s
      BY <2>2 DEF AnyOf
    <3>2. it[s] = f[AnyOf(s)] + it[s \ {AnyOf(s)}]
      BY <2>2 DEF SumsOf
    <3> QED BY <1>1, <3>1, <3>2
  <2> QED BY <2>1, <2>2
<1> HIDE DEF F
<1>2. SUBSET S \subseteq F
  BY <1>1, SubsetInduction
<1> QED BY <1>2 DEF F

\* which does not depend on the order in which elements are taken,
LEMMA SumsRemove ==
  ASSUME NEW S, IsFiniteSet(S), NEW f, \A x \in S : f[x] \in Nat, NEW it, SumsOf(it, f, S)
  PROVE  \A s \in SUBSET S : \A x \in s : it[s] = f[x] + it[s \ {x}]
<1> DEFINE F == {s \in SUBSET S : \A x \in s : it[s] = f[x] + it[s \ {x}]}
<1>1. ASSUME NEW s \in SUBSET S, \A x \in s : s \ {x} \in F
      PROVE  s \in F
  <2> SUFFICES ASSUME NEW x \in s PROVE it[s] = f[x] + it[s \ {x}]
    OBVIOUS
  <2> DEFINE p == AnyOf(s)
  <2>1. p \in s
    BY DEF AnyOf
  <2>2. it[s] = f[p] + it[s \ {p}]
    BY DEF SumsOf
  <2> HIDE DEF p
  <2>3. CASE x = p
    BY <2>2, <2>3
  <2>4. CASE x # p
    <3>1. it[s \ {p}] = f[x] + it[(s \ {p}) \ {x}]
      BY <1>1, <2>1, <2>4
    <3>2. it[s \ {x}] = f[p] + it[(s \ {x}) \ {p}]
      BY <1>1, <2>1, <2>4
    <3>3. (s \ {p}) \ {x} = (s \ {x}) \ {p}
      OBVIOUS
    <3>4. f[x] \in Nat /\ f[p] \in Nat /\ it[(s \ {x}) \ {p}] \in Nat
      BY <2>1, SumsNat
    <3>5. \A a, b, c \in Nat : a + (b + c) = b + (a + c)
      OBVIOUS
    <3>6. f[p] + (f[x] + it[(s \ {x}) \ {p}]) = f[x] + (f[p] + it[(s \ {x}) \ {p}])
      BY <3>4, <3>5, Zenon
    <3> QED BY <2>2, <3>1, <3>2, <3>3, <3>6, Zenon
  <2> QED BY <2>3, <2>4
<1> HIDE DEF F
<1>2. SUBSET S \subseteq F
  BY <1>1, SubsetInduction
<1> QED BY <1>2 DEF F

\* and depends on the summands alone.
LEMMA SumsAgree ==
  ASSUME NEW S, IsFiniteSet(S), NEW f, NEW it, SumsOf(it, f, S),
         NEW T, NEW g, NEW jt, SumsOf(jt, g, T),
         NEW U \in SUBSET (S \cap T), \A x \in U : f[x] = g[x]
  PROVE  it[U] = jt[U]
<1> DEFINE F == {s \in SUBSET U : it[s] = jt[s]}
<1>1. ASSUME NEW s \in SUBSET U, \A x \in s : s \ {x} \in F
      PROVE  s \in F
  <2>1. CASE s = {}
    BY <2>1 DEF SumsOf
  <2>2. CASE s # {}
    <3>1. AnyOf(s) \in s
      BY <2>2 DEF AnyOf
    <3>2. it[s] = f[AnyOf(s)] + it[s \ {AnyOf(s)}] /\ jt[s] = g[AnyOf(s)] + jt[s \ {AnyOf(s)}]
      BY <2>2 DEF SumsOf
    <3>3. f[AnyOf(s)] = g[AnyOf(s)] /\ it[s \ {AnyOf(s)}] = jt[s \ {AnyOf(s)}]
      BY <1>1, <3>1
    <3> QED BY <3>2, <3>3
  <2> QED BY <2>1, <2>2
<1> HIDE DEF F
<1>2. IsFiniteSet(U)
  BY FS_Subset
<1>3. SUBSET U \subseteq F
  BY <1>1, <1>2, SubsetInduction
<1> QED BY <1>3 DEF F

-----------------------------------------------------------------------------
\* SumFunctionOnSet is that solution.
LEMMA SumOverSums ==
  ASSUME NEW S, IsFiniteSet(S), NEW f, \A x \in S : f[x] \in Nat
  PROVE  \E it : SumsOf(it, f, S) /\ SumFunctionOnSet(f, S) = it[S]
<1> DEFINE Sums(it) == it = [s \in SUBSET S |->
                               IF s = {} THEN 0
                               ELSE f[CHOOSE x \in s : TRUE] + it[s \ {CHOOSE x \in s : TRUE}]]
           jt == CHOOSE it : Sums(it)
<1>1. PICK it : SumsOf(it, f, S)
  BY SumsExist
<1>2. Sums(it)
  BY <1>1, Zenon DEF SumsOf, AnyOf
<1>3. Sums(jt)
  BY <1>2, Zenon
<1>4. SumsOf(jt, f, S)
  BY <1>3, Zenon DEF SumsOf, AnyOf
<1>5. SumFunctionOnSet(f, S) = jt[S]
  BY Zenon DEF SumFunctionOnSet, FoldFunctionOnSet, MapThenFoldSet
<1> QED BY <1>4, <1>5

\* A sum of naturals is one.
LEMMA SumOverNat ==
  ASSUME NEW S, IsFiniteSet(S), NEW f, \A x \in S : f[x] \in Nat
  PROVE  SumFunctionOnSet(f, S) \in Nat
<1>1. PICK it : SumsOf(it, f, S) /\ SumFunctionOnSet(f, S) = it[S]
  BY SumOverSums
<1> QED BY <1>1, SumsNat

\* The empty sum.
LEMMA SumOverEmpty ==
  ASSUME NEW f
  PROVE  SumFunctionOnSet(f, {}) = 0
<1>1. PICK it : SumsOf(it, f, {}) /\ SumFunctionOnSet(f, {}) = it[{}]
  BY SumOverSums, FS_EmptySet
<1> QED BY <1>1 DEF SumsOf

\* Sums of equal summands are equal.
LEMMA SumOverAgree ==
  ASSUME NEW S, IsFiniteSet(S), NEW f, NEW g, \A x \in S : f[x] \in Nat /\ f[x] = g[x]
  PROVE  SumFunctionOnSet(f, S) = SumFunctionOnSet(g, S)
<1>1. PICK it : SumsOf(it, f, S) /\ SumFunctionOnSet(f, S) = it[S]
  BY SumOverSums
<1>2. PICK jt : SumsOf(jt, g, S) /\ SumFunctionOnSet(g, S) = jt[S]
  BY SumOverSums
<1>3. S \in SUBSET (S \cap S)
  OBVIOUS
<1>4. it[S] = jt[S]
  BY <1>1, <1>2, <1>3, SumsAgree
<1> QED BY <1>1, <1>2, <1>4

\* A summand can be taken out of its sum.
LEMMA SumOverRemove ==
  ASSUME NEW S, IsFiniteSet(S), NEW f, \A x \in S : f[x] \in Nat, NEW x \in S
  PROVE  SumFunctionOnSet(f, S) = f[x] + SumFunctionOnSet(f, S \ {x})
<1>1. PICK it : SumsOf(it, f, S) /\ SumFunctionOnSet(f, S) = it[S]
  BY SumOverSums
<1>2. IsFiniteSet(S \ {x})
  BY FS_RemoveElement
<1>3. PICK jt : SumsOf(jt, f, S \ {x}) /\ SumFunctionOnSet(f, S \ {x}) = jt[S \ {x}]
  BY <1>2, SumOverSums
<1>4. S \ {x} \in SUBSET (S \cap (S \ {x}))
  OBVIOUS
<1>5. it[S \ {x}] = jt[S \ {x}]
  BY <1>1, <1>3, <1>4, SumsAgree
<1>6. it[S] = f[x] + it[S \ {x}]
  BY <1>1, SumsRemove
<1> QED BY <1>1, <1>3, <1>5, <1>6

\* Larger summands have a larger sum.
LEMMA SumOverMonotone ==
  ASSUME NEW S, IsFiniteSet(S), NEW f, NEW g,
         \A x \in S : f[x] \in Nat /\ g[x] \in Nat /\ f[x] <= g[x]
  PROVE  SumFunctionOnSet(f, S) <= SumFunctionOnSet(g, S)
<1> DEFINE F == {s \in SUBSET S : SumFunctionOnSet(f, s) <= SumFunctionOnSet(g, s)}
<1>1. ASSUME NEW s \in SUBSET S, \A x \in s : s \ {x} \in F
      PROVE  s \in F
  <2>1. CASE s = {}
    BY <2>1, SumOverEmpty
  <2>2. CASE s # {}
    <3>1. PICK x \in s : TRUE
      BY <2>2
    <3>2. IsFiniteSet(s) /\ IsFiniteSet(s \ {x})
      BY FS_Subset
    <3>3. SumFunctionOnSet(f, s) = f[x] + SumFunctionOnSet(f, s \ {x})
      BY <3>2, SumOverRemove
    <3>4. SumFunctionOnSet(g, s) = g[x] + SumFunctionOnSet(g, s \ {x})
      BY <3>2, SumOverRemove
    <3>5. SumFunctionOnSet(f, s \ {x}) \in Nat /\ SumFunctionOnSet(g, s \ {x}) \in Nat
      BY <3>2, SumOverNat
    <3>6. SumFunctionOnSet(f, s \ {x}) <= SumFunctionOnSet(g, s \ {x})
      BY <1>1, <3>1
    <3> QED BY <3>1, <3>3, <3>4, <3>5, <3>6
  <2> QED BY <2>1, <2>2
<1> HIDE DEF F
<1>2. SUBSET S \subseteq F
  BY <1>1, SubsetInduction
<1> QED BY <1>2 DEF F

\* A sum over more elements is larger, unless those add nothing.
LEMMA SumOverLarger ==
  ASSUME NEW S, IsFiniteSet(S), NEW f, \A x \in S : f[x] \in Nat, NEW T \in SUBSET S
  PROVE  /\ SumFunctionOnSet(f, T) <= SumFunctionOnSet(f, S)
         /\ (\A x \in S \ T : f[x] = 0) => SumFunctionOnSet(f, T) = SumFunctionOnSet(f, S)
<1> DEFINE Zero == \A x \in S \ T : f[x] = 0
           F == {s \in SUBSET (S \ T) : /\ SumFunctionOnSet(f, T) <= SumFunctionOnSet(f, T \cup s)
                                        /\ Zero => SumFunctionOnSet(f, T) = SumFunctionOnSet(f, T \cup s)}
<1>1. \A s \in SUBSET S : IsFiniteSet(s) /\ SumFunctionOnSet(f, s) \in Nat
  <2> SUFFICES ASSUME NEW s \in SUBSET S PROVE IsFiniteSet(s) /\ SumFunctionOnSet(f, s) \in Nat
    OBVIOUS
  <2>1. IsFiniteSet(s) /\ \A x \in s : f[x] \in Nat
    BY FS_Subset
  <2> QED BY <2>1, SumOverNat
<1>2. ASSUME NEW s \in SUBSET (S \ T), \A x \in s : s \ {x} \in F
      PROVE  s \in F
  <2>1. CASE s = {}
    <3>1. T \cup s = T
      BY <2>1
    <3> QED BY <1>1, <3>1
  <2>2. CASE s # {}
    <3>1. PICK x \in s : TRUE
      BY <2>2
    <3> DEFINE all  == T \cup s
               rest == T \cup (s \ {x})
    <3>2. all \in SUBSET S /\ rest \in SUBSET S /\ x \in all /\ all \ {x} = rest /\ x \in S \ T
      BY <3>1
    <3>3. /\ SumFunctionOnSet(f, T) <= SumFunctionOnSet(f, rest)
          /\ Zero => SumFunctionOnSet(f, T) = SumFunctionOnSet(f, rest)
      BY <1>2, <3>1
    <3> HIDE DEF all, rest
    <3>4. SumFunctionOnSet(f, all) = f[x] + SumFunctionOnSet(f, all \ {x})
      BY <1>1, <3>2, SumOverRemove
    <3>5. /\ SumFunctionOnSet(f, T) \in Nat /\ SumFunctionOnSet(f, rest) \in Nat
          /\ SumFunctionOnSet(f, all) = f[x] + SumFunctionOnSet(f, rest) /\ f[x] \in Nat
      BY <1>1, <3>2, <3>4
    <3>6. SumFunctionOnSet(f, T) <= SumFunctionOnSet(f, all)
      BY <3>3, <3>5
    <3>7. Zero => SumFunctionOnSet(f, T) = SumFunctionOnSet(f, all)
      BY <3>2, <3>3, <3>5
    <3> QED BY <3>6, <3>7 DEF all
  <2> QED BY <2>1, <2>2
<1> HIDE DEF F
<1>3. IsFiniteSet(S \ T)
  BY FS_Subset
<1>4. SUBSET (S \ T) \subseteq F
  <2> DEFINE rest == S \ T
  <2>1. IsFiniteSet(rest) /\ \A s \in SUBSET rest : (\A x \in s : s \ {x} \in F) => s \in F
    BY <1>2, <1>3
  <2> HIDE DEF rest
  <2>2. SUBSET rest \subseteq F
    BY <2>1, SubsetInduction
  <2> QED BY <2>2 DEF rest
<1>5. S \ T \in F
  BY <1>4
<1>6. T \cup (S \ T) = S
  OBVIOUS
<1> HIDE DEF Zero
<1>7. /\ SumFunctionOnSet(f, T) <= SumFunctionOnSet(f, T \cup (S \ T))
      /\ Zero => SumFunctionOnSet(f, T) = SumFunctionOnSet(f, T \cup (S \ T))
  BY <1>5 DEF F
<1>8. /\ SumFunctionOnSet(f, T) <= SumFunctionOnSet(f, S)
      /\ Zero => SumFunctionOnSet(f, T) = SumFunctionOnSet(f, S)
  BY <1>6, <1>7, Zenon
<1> QED BY <1>8, Zenon DEF Zero

-----------------------------------------------------------------------------
\* The image of a finite set is finite.
LEMMA ImageFinite ==
  ASSUME NEW S, IsFiniteSet(S), NEW f
  PROVE  IsFiniteSet({f[x] : x \in S})
<1> DEFINE T == {f[x] : x \in S}
           g == [x \in S |-> f[x]]
<1>1. g \in Surjection(S, T)
  BY DEF Surjection
<1> QED BY <1>1, FS_Surjection

\* SetToSeq lists every element of a finite set once.
LEMMA SetToSeqIsAll ==
  ASSUME NEW S, IsFiniteSet(S)
  PROVE  /\ IsInjective(SetToSeq(S)) /\ ToSet(SetToSeq(S)) = S
         /\ DOMAIN SetToSeq(S) = 1..Cardinality(S)
<1> DEFINE n == Cardinality(S)
           Lists(f) == f \in [1..n -> S] /\ IsInjective(f)
           list == CHOOSE f \in [1..n -> S] : IsInjective(f)
<1>1. n \in Nat /\ ExistsBijection(1..n, S)
  BY FS_CardinalityType
<1>2. PICK f \in Bijection(1..n, S) : TRUE
  BY <1>1 DEF ExistsBijection
<1>3. f \in [1..n -> S] /\ IsInjective(f)
  BY <1>2 DEF Bijection, Injection
<1>4. list \in [1..n -> S] /\ IsInjective(list)
  BY <1>3, Zenon
<1>5. SetToSeq(S) = list
  BY Zenon DEF SetToSeq
<1> HIDE DEF list
<1>6. list \in Injection(1..n, S)
  BY <1>4 DEF Injection
<1>7. IsFiniteSet(1..n) /\ Cardinality(1..n) = n
  BY <1>1, FS_Interval
<1>8. list \in Surjection(1..n, S)
  BY <1>6, <1>7, FS_Injection
<1>9. \A x \in S : \E i \in 1..n : list[i] = x
  BY <1>8 DEF Surjection
<1>10. DOMAIN list = 1..n /\ \A i \in 1..n : list[i] \in S
  BY <1>4
<1>11. ToSet(list) = S
  BY <1>9, <1>10 DEF ToSet
<1> QED BY <1>4, <1>5, <1>10, <1>11

\* Max of a finite set is its greatest element,
LEMMA MaxIsGreatest ==
  ASSUME NEW S \in SUBSET Int, IsFiniteSet(S), S # {}
  PROVE  Max(S) \in S /\ \A x \in S : x <= Max(S)
<1> DEFINE F == {s \in SUBSET S : s # {} => \E x \in s : \A y \in s : y <= x}
<1>1. ASSUME NEW s \in SUBSET S, \A x \in s : s \ {x} \in F
      PROVE  s \in F
  <2> SUFFICES ASSUME NEW x \in s PROVE \E m \in s : \A y \in s : y <= m
    OBVIOUS
  <2>1. CASE s = {x}
    BY <2>1
  <2>2. CASE s \ {x} # {}
    <3>1. PICK m \in s \ {x} : \A y \in s \ {x} : y <= m
      BY <1>1, <2>2
    <3>2. CASE x <= m
      BY <3>1, <3>2
    <3>3. CASE m <= x
      <4>1. \A y \in s : y \in Int /\ m \in Int
        BY <3>1
      <4>2. \A y \in s : y <= x
        BY <3>1, <3>3, <4>1
      <4> QED BY <4>2
    <3>4. x \in Int /\ m \in Int
      OBVIOUS
    <3> QED BY <3>2, <3>3, <3>4
  <2> QED BY <2>1, <2>2
<1> HIDE DEF F
<1>2. SUBSET S \subseteq F
  BY <1>1, SubsetInduction
<1>3. PICK m \in S : \A y \in S : y <= m
  BY <1>2 DEF F
<1>4. \A y \in S : m >= y
  BY <1>3
<1>5. Max(S) \in S /\ \A y \in S : Max(S) >= y
  BY <1>4, Zenon DEF Max
<1> QED BY <1>5

\* and Min of any set of naturals its least.
LEMMA MinIsLeast ==
  ASSUME NEW S \in SUBSET Nat, S # {}
  PROVE  Min(S) \in S /\ \A x \in S : Min(S) <= x
<1>1. \E n \in S : \A m \in S : n <= m
  BY LeastNat
<1> QED BY <1>1, Zenon DEF Min

\* The last place of a prefix of a list.
LEMMA MaxOfPrefix ==
  ASSUME NEW n \in Nat, n > 0
  PROVE  Max(1..n) = n /\ (1..n) \ {n} = 1..(n - 1)
<1>1. 1..n \in SUBSET Int /\ 1..n # {} /\ n \in 1..n
  OBVIOUS
<1>2. IsFiniteSet(1..n)
  BY FS_Interval
<1>3. Max(1..n) \in 1..n /\ n <= Max(1..n)
  BY <1>1, <1>2, MaxIsGreatest
<1>4. Max(1..n) = n
  BY <1>3
<1>5. (1..n) \ {n} = 1..(n - 1)
  OBVIOUS
<1> QED BY <1>4, <1>5

\* op takes a value and an element to a value.
FoldArgs(E, V, seq, base, op) ==
  base \in V /\ seq \in Seq(E) /\ op \in [V \X E -> V]

\* it[s] is what op makes of base and of seq from left to right, of the places in s.
LeftFoldOf(it, E, V, seq, base, op) ==
  /\ FoldArgs(E, V, seq, base, op) /\ it \in [SUBSET DOMAIN seq -> V]
  /\ \A s \in SUBSET DOMAIN seq :
       it[s] = IF s = {} THEN base ELSE op[<<it[s \ {Max(s)}], seq[Max(s)]>>]

\* The last of some places of a list.
LEMMA LastPlace ==
  ASSUME NEW E, NEW seq \in Seq(E), NEW s \in SUBSET DOMAIN seq, s # {}
  PROVE  /\ Max(s) \in s /\ Max(s) \in DOMAIN seq /\ seq[Max(s)] \in E
         /\ s \ {Max(s)} \in SUBSET DOMAIN seq
<1>1. DOMAIN seq = 1..Len(seq) /\ Len(seq) \in Nat
  OBVIOUS
<1>2. IsFiniteSet(DOMAIN seq)
  BY <1>1, FS_Interval
<1>3. s \in SUBSET Int /\ IsFiniteSet(s)
  BY <1>1, <1>2, FS_Subset
<1>4. Max(s) \in s
  BY <1>3, MaxIsGreatest
<1> QED BY <1>4

\* The recursion of FoldLeft has a solution.
LEMMA LeftFoldExists ==
  ASSUME NEW E, NEW V, NEW base, NEW seq, NEW op, FoldArgs(E, V, seq, base, op)
  PROVE  \E it : LeftFoldOf(it, E, V, seq, base, op)
<1>0. base \in V /\ seq \in Seq(E) /\ op \in [V \X E -> V]
  BY DEF FoldArgs
<1> DEFINE pick == [s \in SUBSET DOMAIN seq |-> Max(s)]
<1>1. IsFiniteSet(DOMAIN seq)
  <2>1. DOMAIN seq = 1..Len(seq) /\ Len(seq) \in Nat
    BY <1>0
  <2> QED BY <2>1, FS_Interval
<1>2. \A s \in SUBSET DOMAIN seq : pick[s] = Max(s)
  OBVIOUS
<1>3. \A s \in SUBSET DOMAIN seq : s # {} => pick[s] \in s
  BY <1>0, <1>2, LastPlace
<1>4. \A i \in DOMAIN seq : seq[i] \in E
  BY <1>0
<1> HIDE DEF pick
<1>5. PICK it : FoldsOf(it, DOMAIN seq, E, V, seq, base, op, pick)
  BY <1>0, <1>1, <1>3, <1>4, FoldsExist
<1>6. LeftFoldOf(it, E, V, seq, base, op)
  BY <1>0, <1>2, <1>5 DEF FoldsOf, LeftFoldOf, FoldArgs
<1> QED BY <1>6

\* jt satisfies the equation of the fold.
FoldsLeft(jt, V, seq, base, op) ==
  \A s \in SUBSET DOMAIN seq :
    IF s = {} THEN jt[s] = base
    ELSE \A v \in V : jt[s \ {Max(s)}] = v => jt[s] = op[<<v, seq[Max(s)]>>]

AllOf(it, seq) == it[DOMAIN seq]

\* Whatever satisfies the equation of a fold is the fold.
LEMMA LeftFoldUnique ==
  ASSUME NEW E, NEW V, NEW base, NEW seq, NEW op, FoldArgs(E, V, seq, base, op), NEW it,
         LeftFoldOf(it, E, V, seq, base, op),
         NEW jt, FoldsLeft(jt, V, seq, base, op)
  PROVE  AllOf(jt, seq) = AllOf(it, seq)
<1>0. seq \in Seq(E)
  BY DEF FoldArgs
<1> DEFINE D == DOMAIN seq
           F == {s \in SUBSET D : jt[s] = it[s]}
<1>1. ASSUME NEW s \in SUBSET D, \A x \in s : s \ {x} \in F
      PROVE  s \in F
  <2>1. CASE s = {}
    BY <2>1 DEF LeftFoldOf, FoldsLeft
  <2>2. CASE s # {}
    <3>1. Max(s) \in s
      BY <1>0, <2>2, LastPlace
    <3>2. jt[s \ {Max(s)}] = it[s \ {Max(s)}] /\ it[s \ {Max(s)}] \in V
      BY <1>1, <3>1 DEF LeftFoldOf
    <3>3. jt[s] = op[<<it[s \ {Max(s)}], seq[Max(s)]>>]
      BY <2>2, <3>2 DEF FoldsLeft
    <3>4. it[s] = op[<<it[s \ {Max(s)}], seq[Max(s)]>>]
      BY <2>2 DEF LeftFoldOf
    <3> QED BY <3>3, <3>4
  <2> QED BY <2>1, <2>2
<1>2. IsFiniteSet(D)
  <2>1. DOMAIN seq = 1..Len(seq) /\ Len(seq) \in Nat
    BY <1>0
  <2> QED BY <2>1, FS_Interval
<1> HIDE DEF F
<1>3. \A s \in SUBSET D : (\A x \in s : s \ {x} \in F) => s \in F
  BY <1>1
<1> HIDE DEF D
<1>4. SUBSET D \subseteq F
  BY <1>2, <1>3, SubsetInduction
<1> QED BY <1>4 DEF F, D, AllOf

\* g[n] is what op makes of base and of the first n elements of seq.
PrefixFold(g, V, seq, base, op) ==
  /\ g \in [0..Len(seq) -> V] /\ g[0] = base
  /\ \A n \in 1..Len(seq) : g[n] = op[<<g[n - 1], seq[n]>>]

\* What FoldLeft gives is reached by applying the operator to one element of
\* the list after another.
LEMMA LeftFoldPrefixes ==
  ASSUME NEW E, NEW V, NEW base, NEW seq, NEW op, FoldArgs(E, V, seq, base, op),
         NEW jt, FoldsLeft(jt, V, seq, base, op)
  PROVE  \E g : PrefixFold(g, V, seq, base, op) /\ AllOf(jt, seq) = g[Len(seq)]
<1> DEFINE g(it) == [n \in 0..Len(seq) |-> it[1..n]]
<1>1. DOMAIN seq = 1..Len(seq) /\ Len(seq) \in Nat
  BY DEF FoldArgs
<1>2. PICK it : LeftFoldOf(it, E, V, seq, base, op)
  BY LeftFoldExists
<1>3. \A n \in 0..Len(seq) : 1..n \in SUBSET DOMAIN seq
  BY <1>1
<1>4. g(it) \in [0..Len(seq) -> V]
  BY <1>2, <1>3 DEF LeftFoldOf
<1>5. g(it)[0] = base
  <2>1. 1..0 = {} /\ {} \in SUBSET DOMAIN seq /\ 0 \in 0..Len(seq)
    BY <1>1
  <2> QED BY <1>2, <2>1 DEF LeftFoldOf
<1>6. ASSUME NEW n \in 1..Len(seq)
      PROVE  g(it)[n] = op[<<g(it)[n - 1], seq[n]>>]
  <2>1. n \in Nat /\ n > 0 /\ 1..n # {} /\ 1..n \in SUBSET DOMAIN seq
    <3>1. n \in Nat /\ n > 0 /\ n \in 1..n /\ n \in 0..Len(seq)
      BY <1>1
    <3> QED BY <1>3, <3>1
  <2>2. Max(1..n) = n /\ (1..n) \ {n} = 1..(n - 1)
    BY <2>1, MaxOfPrefix
  <2>3. it[1..n] = op[<<it[(1..n) \ {Max(1..n)}], seq[Max(1..n)]>>]
    BY <1>2, <2>1 DEF LeftFoldOf
  <2>4. n \in 0..Len(seq) /\ n - 1 \in 0..Len(seq)
    BY <1>1
  <2>5. g(it)[n] = it[1..n] /\ g(it)[n - 1] = it[1..(n - 1)]
    BY <2>4
  <2> QED BY <2>2, <2>3, <2>5
<1>7. AllOf(jt, seq) = it[1..Len(seq)]
  <2>1. AllOf(jt, seq) = AllOf(it, seq)
    BY <1>2, LeftFoldUnique
  <2> QED BY <1>1, <2>1 DEF AllOf
<1>8. AllOf(jt, seq) = g(it)[Len(seq)]
  <2>1. Len(seq) \in 0..Len(seq)
    BY <1>1
  <2> QED BY <1>7, <2>1
<1>9. PrefixFold(g(it), V, seq, base, op)
  BY <1>4, <1>5, <1>6 DEF PrefixFold
<1> QED BY <1>8, <1>9
=============================================================================
