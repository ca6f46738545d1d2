-------------------------------- MODULE Sums --------------------------------
(***************************************************************************)
(* What SumFunctionOnSet of the community module Functions says: the money *)
(* properties of the project add amounts up over finite sets of rows, and  *)
(* their proofs cite the theorems below.  The operator adds in the order   *)
(* in which CHOOSE happens to name the elements, by a recursive function   *)
(* over the subsets; that such a function exists, and that the order does  *)
(* not matter, is shown here by looking at a least set for which it would  *)
(* fail: strict inclusion is well founded on the subsets of a finite set.  *)
(***************************************************************************)
EXTENDS Integers, FiniteSets, Functions, FiniteSetTheorems, WellFoundedInduction, TLAPS

(* The element the sum takes next.                                         *)
Chosen(s) == CHOOSE x \in s : TRUE

(* The recursion by which w is added up, on the sets of D.                 *)
Adding(w, g, D) == [s \in D |-> IF s = {} THEN 0 ELSE w[Chosen(s)] + g[s \ {Chosen(s)}]]

(* Among subsets of a finite set with a property, one has no smaller one   *)
(* within it.                                                              *)
LEMMA LeastSet ==
  ASSUME NEW S, IsFiniteSet(S), NEW Bad \in SUBSET SUBSET S, Bad # {}
  PROVE  \E U \in Bad : \A V \in SUBSET U : V # U => V \notin Bad
<1>1. IsWellFoundedOn(StrictSubsetOrdering(S), SUBSET S)
  BY FS_StrictSubsetOrderingWellFounded, FS_FiniteSubsetsOfFinite
<1>2. PICK U \in Bad : \A V \in Bad : <<V, U>> \notin StrictSubsetOrdering(S)
  BY <1>1, WFMin
<1>3. ASSUME NEW V \in SUBSET U, V # U  PROVE V \notin Bad
  BY <1>2, <1>3 DEF StrictSubsetOrdering
<1> QED BY <1>3

(* A nonempty set of natural numbers has a least element.                  *)
LEMMA LeastNumber ==
  ASSUME NEW Bad \in SUBSET Nat, Bad # {}
  PROVE  \E n \in Bad : \A m \in Bad : n <= m
<1>1. PICK n \in Bad : \A m \in Bad : <<m, n>> \notin OpToRel(<, Nat)
  BY NatLessThanWellFounded, WFMin
<1>2. \A m \in Bad : ~(m < n)
  BY <1>1 DEF OpToRel
<1> QED BY <1>2

LEMMA ChosenIn == ASSUME NEW s, s # {} PROVE Chosen(s) \in s
  BY DEF Chosen

(* A function that adds up over the subsets of a finite set exists.        *)
LEMMA AddingExists ==
  ASSUME NEW w, NEW S, IsFiniteSet(S)
  PROVE  \E g : g = Adding(w, g, SUBSET S)
<1> DEFINE Small(n) == {s \in SUBSET S : Cardinality(s) <= n}
           Bad == {n \in Nat : ~ \E g : g = Adding(w, g, Small(n))}
<1>1. \A s \in SUBSET S : IsFiniteSet(s) /\ Cardinality(s) \in Nat /\ Cardinality(s) <= Cardinality(S)
  BY FS_Subset, FS_CardinalityType
<1>2. \A s \in SUBSET S : s # {} => /\ s \ {Chosen(s)} \in SUBSET S
                                   /\ Cardinality(s \ {Chosen(s)}) = Cardinality(s) - 1
  BY <1>1, ChosenIn, FS_RemoveElement
<1>3. Bad = {}
  <2> SUFFICES ASSUME Bad # {} PROVE FALSE
    OBVIOUS
  <2>1. PICK n \in Bad : \A m \in Bad : n <= m
    BY LeastNumber
  <2> DEFINE Zero == [s \in Small(0) |-> 0]
  <2>2. \A s \in Small(0) : s = {}
    BY <1>1, FS_EmptySet
  <2>3. Zero = Adding(w, Zero, Small(0))
    BY <2>2 DEF Adding
  <2>4. n # 0 /\ n \in Nat
    BY <2>1, <2>3
  <2>5. PICK g : g = Adding(w, g, Small(n - 1))
    <3>1. n - 1 \in Nat /\ ~(n <= n - 1)
      BY <2>4
    <3> QED BY <3>1, <2>1
  <2> DEFINE h == Adding(w, g, Small(n))
  <2>6. \A s \in Small(n) : s # {} => s \ {Chosen(s)} \in Small(n - 1) /\ s \ {Chosen(s)} \in Small(n)
    BY <1>1, <1>2, <2>4
  <2>7. \A s \in Small(n - 1) : s \in Small(n) /\ g[s] = h[s]
    <3>1. \A s \in Small(n - 1) : s \in Small(n)
      BY <1>1, <2>4
    <3> QED BY <3>1, <2>5 DEF Adding
  <2>8. h = Adding(w, h, Small(n))
    BY <2>6, <2>7 DEF Adding
  <2> QED BY <2>1, <2>8
<1>4. Small(Cardinality(S)) = SUBSET S
  BY <1>1
<1>5. Cardinality(S) \in Nat
  BY FS_CardinalityType
<1> QED BY <1>3, <1>4, <1>5

(* The function the sum over S is a value of.                              *)
Adder(w, S) == CHOOSE g : g = Adding(w, g, SUBSET S)

LEMMA AdderAdds ==
  ASSUME NEW w, NEW S, IsFiniteSet(S)
  PROVE  Adder(w, S) = Adding(w, Adder(w, S), SUBSET S)
BY AddingExists DEF Adder

LEMMA SumIsAdder == ASSUME NEW w, NEW S PROVE SumFunctionOnSet(w, S) = Adder(w, S)[S]
BY DEF SumFunctionOnSet, FoldFunctionOnSet, MapThenFoldSet, Adder, Adding, Chosen

(* Nothing adds up to zero.                                                *)
THEOREM SumEmpty == ASSUME NEW w PROVE SumFunctionOnSet(w, {}) = 0
<1>1. Adder(w, {}) = Adding(w, Adder(w, {}), SUBSET {})
  BY AdderAdds, FS_EmptySet
<1>2. Adder(w, {})[{}] = 0
  BY <1>1 DEF Adding
<1> QED BY <1>2, SumIsAdder

(* What an adder says of a set does not depend on the set it was made for. *)
LEMMA AddersAgree ==
  ASSUME NEW w, NEW S, IsFiniteSet(S), NEW U \in SUBSET S
  PROVE  Adder(w, S)[U] = Adder(w, U)[U]
<1> DEFINE Bad == {T \in SUBSET S : \E V \in SUBSET S : T \subseteq V /\ Adder(w, V)[T] # Adder(w, T)[T]}
<1>1. ASSUME Bad # {} PROVE FALSE
  <2>1. PICK T \in Bad : \A V \in SUBSET T : V # T => V \notin Bad
    <3>1. Bad \in SUBSET SUBSET S
      OBVIOUS
    <3> HIDE DEF Bad
    <3> QED BY <1>1, <3>1, LeastSet
  <2>2. PICK V \in SUBSET S : T \subseteq V /\ Adder(w, V)[T] # Adder(w, T)[T]
    OBVIOUS
  <2>3. IsFiniteSet(V) /\ IsFiniteSet(T)
    BY FS_Subset
  <2>4. /\ Adder(w, V) = Adding(w, Adder(w, V), SUBSET V)
        /\ Adder(w, T) = Adding(w, Adder(w, T), SUBSET T)
    BY <2>3, AdderAdds
  <2>5. T # {}
    BY <2>2, <2>4 DEF Adding
  <2> DEFINE R == T \ {Chosen(T)}
  <2>6. R \in SUBSET T /\ R # T
    BY <2>5, ChosenIn
  <2>7. R \notin Bad
    BY <2>6, <2>1
  <2>8. Adder(w, V)[R] = Adder(w, R)[R] /\ Adder(w, T)[R] = Adder(w, R)[R]
    BY <2>7, <2>6, <2>2
  <2>9. /\ Adder(w, V)[T] = w[Chosen(T)] + Adder(w, V)[R]
        /\ Adder(w, T)[T] = w[Chosen(T)] + Adder(w, T)[R]
    BY <2>4, <2>5, <2>2 DEF Adding
  <2> QED BY <2>8, <2>9, <2>2
<1> QED BY <1>1

(* The recursion, read as an equation about sums.                          *)
LEMMA SumChosen ==
  ASSUME NEW w, NEW S, IsFiniteSet(S), S # {}
  PROVE  SumFunctionOnSet(w, S) = w[Chosen(S)] + SumFunctionOnSet(w, S \ {Chosen(S)})
<1>1. Adder(w, S)[S] = w[Chosen(S)] + Adder(w, S)[S \ {Chosen(S)}]
  <2>1. Adder(w, S) = Adding(w, Adder(w, S), SUBSET S)
    BY AdderAdds
  <2> QED BY <2>1 DEF Adding
<1>2. Adder(w, S)[S \ {Chosen(S)}] = Adder(w, S \ {Chosen(S)})[S \ {Chosen(S)}]
  BY AddersAgree
<1> QED BY <1>1, <1>2, SumIsAdder

(* A sum of integers is an integer.                                        *)
THEOREM SumInt ==
  ASSUME NEW w, NEW S, IsFiniteSet(S), \A x \in S : w[x] \in Int
  PROVE  SumFunctionOnSet(w, S) \in Int
<1> DEFINE Bad == {T \in SUBSET S : SumFunctionOnSet(w, T) \notin Int}
<1>1. ASSUME Bad # {} PROVE FALSE
  <2>1. PICK T \in Bad : \A V \in SUBSET T : V # T => V \notin Bad
    <3>1. Bad \in SUBSET SUBSET S
      OBVIOUS
    <3> HIDE DEF Bad
    <3> QED BY <1>1, <3>1, LeastSet
  <2>2. T # {}
    BY SumEmpty
  <2>3. SumFunctionOnSet(w, T) = w[Chosen(T)] + SumFunctionOnSet(w, T \ {Chosen(T)})
    BY <2>2, SumChosen, FS_Subset
  <2>4. SumFunctionOnSet(w, T \ {Chosen(T)}) \in Int /\ w[Chosen(T)] \in Int
    BY <2>1, <2>2, ChosenIn
  <2> QED BY <2>3, <2>4
<1> QED BY <1>1

(* The order in which the elements are taken does not matter: any element  *)
(* may be taken out first.                                                 *)
THEOREM SumTake ==
  ASSUME NEW w, NEW S, IsFiniteSet(S), \A x \in S : w[x] \in Int, NEW y \in S
  PROVE  SumFunctionOnSet(w, S) = w[y] + SumFunctionOnSet(w, S \ {y})
<1> DEFINE Bad == {T \in SUBSET S : \E z \in T :
                     SumFunctionOnSet(w, T) # w[z] + SumFunctionOnSet(w, T \ {z})}
<1>1. ASSUME Bad # {} PROVE FALSE
  <2>1. PICK T \in Bad : \A V \in SUBSET T : V # T => V \notin Bad
    <3>1. Bad \in SUBSET SUBSET S
      OBVIOUS
    <3> HIDE DEF Bad
    <3> QED BY <1>1, <3>1, LeastSet
  <2>2. PICK z \in T : SumFunctionOnSet(w, T) # w[z] + SumFunctionOnSet(w, T \ {z})
    OBVIOUS
  <2> DEFINE p == Chosen(T)
  <2>3. p \in T /\ SumFunctionOnSet(w, T) = w[p] + SumFunctionOnSet(w, T \ {p})
    BY SumChosen, FS_Subset, ChosenIn
  <2>4. p # z
    BY <2>2, <2>3
  <2> DEFINE R == (T \ {p}) \ {z}
  <2>5. SumFunctionOnSet(w, T \ {p}) = w[z] + SumFunctionOnSet(w, R)
    BY <2>1, <2>3, <2>4
  <2>6. SumFunctionOnSet(w, T \ {z}) = w[p] + SumFunctionOnSet(w, R)
    <3>1. (T \ {z}) \ {p} = R /\ p \in T \ {z}
      BY <2>3, <2>4
    <3>2. T \ {z} \notin Bad
      BY <2>1
    <3>3. SumFunctionOnSet(w, T \ {z}) = w[p] + SumFunctionOnSet(w, (T \ {z}) \ {p})
      BY <3>1, <3>2
    <3> QED BY <3>1, <3>3
  <2>7. SumFunctionOnSet(w, R) \in Int /\ w[p] \in Int /\ w[z] \in Int
    BY SumInt, FS_Subset, <2>3
  <2> HIDE DEF p, R
  <2> QED BY <2>2, <2>3, <2>5, <2>6, <2>7
<1> QED BY <1>1

(* The sum over two disjoint sets is the sum of their sums.                *)
THEOREM SumUnion ==
  ASSUME NEW w, NEW S, NEW T, IsFiniteSet(S), IsFiniteSet(T), S \cap T = {},
         \A x \in S \cup T : w[x] \in Int
  PROVE  SumFunctionOnSet(w, S \cup T) = SumFunctionOnSet(w, S) + SumFunctionOnSet(w, T)
<1> DEFINE Bad == {U \in SUBSET S :
                     SumFunctionOnSet(w, U \cup T) # SumFunctionOnSet(w, U) + SumFunctionOnSet(w, T)}
<1>1. ASSUME Bad # {} PROVE FALSE
  <2>1. PICK U \in Bad : \A V \in SUBSET U : V # U => V \notin Bad
    <3>1. Bad \in SUBSET SUBSET S
      OBVIOUS
    <3> HIDE DEF Bad
    <3> QED BY <1>1, <3>1, LeastSet
  <2>2. SumFunctionOnSet(w, T) \in Int
    BY SumInt
  <2>3. U # {}
    BY SumEmpty, <2>2
  <2>4. PICK y \in U : TRUE
    BY <2>3
  <2>5. SumFunctionOnSet(w, U) = w[y] + SumFunctionOnSet(w, U \ {y})
    BY SumTake, FS_Subset
  <2>6. SumFunctionOnSet(w, U \cup T) = w[y] + SumFunctionOnSet(w, (U \ {y}) \cup T)
    <3>1. (U \cup T) \ {y} = (U \ {y}) \cup T
      OBVIOUS
    <3>2. IsFiniteSet(U \cup T)
      BY FS_Union, FS_Subset
    <3> QED BY <3>1, <3>2, SumTake
  <2>7. SumFunctionOnSet(w, (U \ {y}) \cup T) = SumFunctionOnSet(w, U \ {y}) + SumFunctionOnSet(w, T)
    BY <2>1, <2>4
  <2>8. SumFunctionOnSet(w, U \ {y}) \in Int /\ w[y] \in Int
    BY SumInt, FS_Subset
  <2> QED BY <2>1, <2>2, <2>5, <2>6, <2>7, <2>8
<1> QED BY <1>1

(* Only what the function says of the elements counts.                     *)
THEOREM SumSame ==
  ASSUME NEW v, NEW w, NEW S, IsFiniteSet(S), \A x \in S : v[x] = w[x]
  PROVE  SumFunctionOnSet(v, S) = SumFunctionOnSet(w, S)
<1> DEFINE Bad == {T \in SUBSET S : SumFunctionOnSet(v, T) # SumFunctionOnSet(w, T)}
<1>1. ASSUME Bad # {} PROVE FALSE
  <2>1. PICK T \in Bad : \A V \in SUBSET T : V # T => V \notin Bad
    <3>1. Bad \in SUBSET SUBSET S
      OBVIOUS
    <3> HIDE DEF Bad
    <3> QED BY <1>1, <3>1, LeastSet
  <2>2. T # {}
    BY SumEmpty
  <2>3. /\ SumFunctionOnSet(v, T) = v[Chosen(T)] + SumFunctionOnSet(v, T \ {Chosen(T)})
        /\ SumFunctionOnSet(w, T) = w[Chosen(T)] + SumFunctionOnSet(w, T \ {Chosen(T)})
    BY <2>2, SumChosen, FS_Subset
  <2>4. /\ SumFunctionOnSet(v, T \ {Chosen(T)}) = SumFunctionOnSet(w, T \ {Chosen(T)})
        /\ v[Chosen(T)] = w[Chosen(T)]
    BY <2>1, <2>2, ChosenIn
  <2> QED BY <2>1, <2>3, <2>4
<1> QED BY <1>1

(* A sum of natural numbers is a natural number.                           *)
THEOREM SumNonNegative ==
  ASSUME NEW w, NEW S, IsFiniteSet(S), \A x \in S : w[x] \in Nat
  PROVE  SumFunctionOnSet(w, S) \in Nat
<1> DEFINE Bad == {T \in SUBSET S : SumFunctionOnSet(w, T) \notin Nat}
<1>1. ASSUME Bad # {} PROVE FALSE
  <2>1. PICK T \in Bad : \A V \in SUBSET T : V # T => V \notin Bad
    <3>1. Bad \in SUBSET SUBSET S
      OBVIOUS
    <3> HIDE DEF Bad
    <3> QED BY <1>1, <3>1, LeastSet
  <2>2. T # {}
    BY SumEmpty
  <2>3. SumFunctionOnSet(w, T) = w[Chosen(T)] + SumFunctionOnSet(w, T \ {Chosen(T)})
    BY <2>2, SumChosen, FS_Subset
  <2>4. SumFunctionOnSet(w, T \ {Chosen(T)}) \in Nat /\ w[Chosen(T)] \in Nat
    BY <2>1, <2>2, ChosenIn
  <2> QED BY <2>3, <2>4
<1> QED BY <1>1

(* A sum grows by the element that joins the set.                          *)
THEOREM SumAdd ==
  ASSUME NEW w, NEW S, IsFiniteSet(S), NEW y, y \notin S, \A x \in S \cup {y} : w[x] \in Int
  PROVE  SumFunctionOnSet(w, S \cup {y}) = w[y] + SumFunctionOnSet(w, S)
<1>1. IsFiniteSet(S \cup {y}) /\ (S \cup {y}) \ {y} = S /\ y \in S \cup {y}
  BY FS_AddElement
<1> QED BY <1>1, SumTake

(* A part of a sum of natural numbers is no larger than the whole.         *)
THEOREM SumPart ==
  ASSUME NEW w, NEW S, IsFiniteSet(S), \A x \in S : w[x] \in Nat, NEW T \in SUBSET S
  PROVE  SumFunctionOnSet(w, T) <= SumFunctionOnSet(w, S)
<1>1. /\ IsFiniteSet(T) /\ IsFiniteSet(S \ T) /\ T \cap (S \ T) = {}
      /\ S = T \cup (S \ T) /\ \A x \in T \cup (S \ T) : w[x] \in Int
  BY FS_Subset
<1>2. SumFunctionOnSet(w, T \cup (S \ T)) = SumFunctionOnSet(w, T) + SumFunctionOnSet(w, S \ T)
  BY <1>1, SumUnion
<1>3. SumFunctionOnSet(w, S \ T) \in Nat /\ SumFunctionOnSet(w, T) \in Nat
  BY <1>1, SumNonNegative
<1>4. SumFunctionOnSet(w, S) = SumFunctionOnSet(w, T \cup (S \ T))
  BY <1>1, Zenon
<1> QED BY <1>2, <1>3, <1>4
=============================================================================
