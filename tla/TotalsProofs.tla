------------------------------ MODULE TotalsProofs ------------------------------
(***************************************************************************)
(* Facts about totals and least elements that the proofs of the components *)
(* cite.  None is in the library without an operator as a parameter, so    *)
(* the inductions go over a set of counterexamples: if there is one at all,*)
(* there is one none of whose subsets is another.                          *)
(***************************************************************************)
EXTENDS Totals, TLAPS, FiniteSetTheorems

(* Among subsets of a finite set there is one that contains no other.      *)

LEMMA MinimalSubset ==
    ASSUME NEW S, IsFiniteSet(S), NEW Bad \in SUBSET SUBSET S, Bad # {}
    PROVE  \E T \in Bad : \A U \in Bad : U \subseteq T => U = T
<1>1. IsWellFoundedOn(StrictSubsetOrdering(S), SUBSET S)
  BY FS_StrictSubsetOrderingWellFounded, FS_FiniteSubsetsOfFinite
<1>2. PICK T \in Bad : \A U \in Bad : ~(<<U, T>> \in StrictSubsetOrdering(S))
  BY <1>1, WFMin
<1> QED  BY <1>2 DEF StrictSubsetOrdering

-----------------------------------------------------------------------------
Upto(S, x) == {y \in S : y <= x}

(* A nonempty set of natural numbers has a least element, which Min is.    *)
LEMMA Minimum ==
    ASSUME NEW S \in SUBSET Nat, S # {}
    PROVE  Min(S) \in S /\ \A x \in S : Min(S) <= x
<1>1. PICK b \in S : b \in Nat
  OBVIOUS
<1>2. PICK Bad : Bad = {Upto(S, x) : x \in Upto(S, b)}
  OBVIOUS
<1>3. PICK range : range = 0 .. b /\ IsFiniteSet(range)
  BY <1>1, FS_Interval
<1>4. ASSUME NEW x \in Upto(S, b) PROVE Upto(S, x) \subseteq range
  <2>1. x \in Nat /\ x <= b
    BY DEF Upto
  <2>2. ASSUME NEW y \in Upto(S, x) PROVE y \in 0 .. b
    <3>1. y \in Nat /\ y <= x
      BY DEF Upto
    <3> QED  BY <1>1, <2>1, <3>1
  <2> QED  BY <1>3, <2>2
<1>5. b \in Upto(S, b)
  BY <1>1 DEF Upto
<1>6. Bad \in SUBSET SUBSET range /\ Bad # {}
  BY <1>2, <1>4, <1>5
<1>7. PICK T \in Bad : \A U \in Bad : U \subseteq T => U = T
  <2>1. IsFiniteSet(range)
    BY <1>3
  <2> QED  BY <1>6, <2>1, MinimalSubset
<1>8. PICK x \in Upto(S, b) : T = Upto(S, x)
  BY <1>2, <1>7
<1>9. x \in S /\ x \in Nat /\ x <= b
  BY <1>1, <1>8 DEF Upto
<1>10. \A y \in S : x <= y
  <2> SUFFICES ASSUME NEW y \in S, y < x PROVE FALSE
    BY <1>9
  <2>1. y \in Nat /\ y <= b
    BY <1>1, <1>9
  <2>2. y \in Upto(S, b) /\ x \notin Upto(S, y) /\ x \in Upto(S, x)
    BY <1>9, <2>1 DEF Upto
  <2>3. Upto(S, y) \subseteq Upto(S, x)
    <3> SUFFICES ASSUME NEW z \in S, z <= y PROVE z <= x
      BY DEF Upto
    <3> QED  BY <1>9, <2>1
  <2> QED  BY <1>2, <1>7, <1>8, <2>2, <2>3
<1> QED  BY <1>9, <1>10 DEF Min

-----------------------------------------------------------------------------
(* g is the recursive function that Total(f, S) is defined with.           *)
Sums(f, g, S) ==
    g = [s \in SUBSET S |-> IF s = {} THEN 0
                            ELSE LET x == CHOOSE x \in s : TRUE IN f[x] + g[s \ {x}]]
(* Total is such a function's value.                                       *)
LEMMA TotalIs ==
    ASSUME NEW f, NEW S
    PROVE Total(f, S) = (CHOOSE g : Sums(f, g, S))[S]
BY DEF Total, MapThenSumSet, MapThenFoldSet, Sums

(* Two such functions agree where both are defined.                        *)
LEMMA SumsAgree ==
    ASSUME NEW f, NEW S, IsFiniteSet(S), NEW T \in SUBSET S, NEW g, NEW h, Sums(f, g, S), Sums(f, h, T)
    PROVE  \A s \in SUBSET T : g[s] = h[s]
<1> DEFINE Bad == {s \in SUBSET T : g[s] # h[s]}
<1> SUFFICES ASSUME Bad # {} PROVE FALSE
  OBVIOUS
<1>1. PICK s \in Bad : \A u \in Bad : u \subseteq s => u = s
  <2>1. Bad \in SUBSET SUBSET S
    OBVIOUS
  <2> HIDE DEF Bad
  <2> QED  BY <2>1, MinimalSubset
<1>2. s \in SUBSET S
  BY <1>1
<1>3. CASE s = {}
  BY <1>1, <1>2, <1>3 DEF Sums
<1>4. CASE s # {}
  <2>1. PICK x \in s : x = CHOOSE y \in s : TRUE
    BY <1>4
  <2>2. g[s \ {x}] = h[s \ {x}]
    BY <1>1, <2>1
  <2>3. g[s] = f[x] + g[s \ {x}]
    BY SMTT(30), <1>2, <1>4, <2>1 DEF Sums
  <2>4. h[s] = f[x] + h[s \ {x}]
    BY <1>1, <1>4, <2>1 DEF Sums
  <2> QED  BY <1>1, <2>2, <2>3, <2>4
<1> QED  BY <1>3, <1>4

(* There is such a function: from those of the smaller sets comes one more.*)
LEMMA SumsExists ==
    ASSUME NEW f, NEW S, IsFiniteSet(S)
    PROVE  \E g : Sums(f, g, S)
<1> DEFINE Bad == {T \in SUBSET S : ~\E g : Sums(f, g, T)}
<1> SUFFICES ASSUME Bad # {} PROVE FALSE
  OBVIOUS
<1>1. PICK T \in Bad : \A U \in Bad : U \subseteq T => U = T
  <2>1. Bad \in SUBSET SUBSET S
    OBVIOUS
  <2> HIDE DEF Bad
  <2> QED  BY <2>1, MinimalSubset
<1> DEFINE G(U) == CHOOSE g : Sums(f, g, U)
           Step(h, s) == IF s = {} THEN 0 ELSE LET x == CHOOSE x \in s : TRUE IN f[x] + h[s \ {x}]
           low == [s \in SUBSET T |-> IF s = T THEN 0 ELSE G(s)[s]]
           g == [s \in SUBSET T |-> Step(low, s)]
<1>2. \A U \in SUBSET T : U # T => Sums(f, G(U), U)
  <2> TAKE U \in SUBSET T
  <2> HAVE U # T
  <2>1. \E h : Sums(f, h, U)
    BY <1>1
  <2> QED  BY <2>1
<1>3. \A U \in SUBSET T : IsFiniteSet(U)
  BY FS_Subset
<1>4. ASSUME NEW s \in SUBSET T, s # T PROVE g[s] = low[s]
  <2>1. low[s] = G(s)[s]
    BY <1>4
  <2>2. CASE s = {}
    <3>1. G(s)[s] = 0
      <4>1. Sums(f, G(s), s)
        BY <1>2, <1>4
      <4> HIDE DEF G
      <4> QED  BY <2>2, <4>1 DEF Sums
    <3> QED  BY <2>1, <2>2, <3>1
  <2>3. CASE s # {}
    <3>1. PICK x \in s : x = CHOOSE y \in s : TRUE
      BY <2>3
    <3>2. G(s)[s] = f[x] + G(s)[s \ {x}]
      <4>1. Sums(f, G(s), s)
        BY <1>2, <1>4
      <4> HIDE DEF G
      <4> QED BY <2>3, <3>1, <4>1 DEF Sums
    <3>3. G(s)[s \ {x}] = G(s \ {x})[s \ {x}]
      <4>1. Sums(f, G(s), s) /\ Sums(f, G(s \ {x}), s \ {x})
        BY <1>2, <1>4, <3>1
      <4> HIDE DEF G
      <4> QED  BY <1>3, <4>1, SumsAgree
    <3>4. low[s \ {x}] = G(s \ {x})[s \ {x}]
      BY <1>4, <3>1
    <3>5. g[s] = f[x] + low[s \ {x}]
      <4> HIDE DEF low
      <4> QED  BY <2>3, <3>1
    <3> QED  BY <2>1, <3>2, <3>3, <3>4, <3>5
  <2> QED  BY <2>2, <2>3
<1>5. \A s \in SUBSET T : g[s] = Step(g, s)
  <2> TAKE s \in SUBSET T
  <2>1. CASE s = {}
    BY <2>1
  <2>2. CASE s # {}
    <3>1. PICK x \in s : x = CHOOSE y \in s : TRUE
      BY <2>2
    <3>2. s \ {x} \in SUBSET T /\ s \ {x} # T
      BY <3>1
    <3>3. g[s \ {x}] = low[s \ {x}]
      BY <1>4, <3>2
    <3>4. g[s] = f[x] + low[s \ {x}]
      <4> HIDE DEF low
      <4> QED  BY <2>2, <3>1
    <3> HIDE DEF g, low
    <3> QED  BY <2>2, <3>1, <3>3, <3>4
  <2> QED  BY <2>1, <2>2
<1>6. Sums(f, g, T)
  <2>1. g = [s \in SUBSET T |-> g[s]]
    OBVIOUS
  <2> HIDE DEF g
  <2> QED  BY <1>5, <2>1 DEF Sums
<1> QED  BY <1>1, <1>6

-----------------------------------------------------------------------------
(* The total of a set is what one member has and the total of the others.  *)
LEMMA TotalStep ==
    ASSUME NEW f, NEW S, IsFiniteSet(S), S # {}
    PROVE  \E x \in S : Total(f, S) = f[x] + Total(f, S \ {x})
<1> DEFINE G(U) == CHOOSE g : Sums(f, g, U)
<1>1. PICK x \in S : x = CHOOSE y \in S : TRUE
  OBVIOUS
<1>2. IsFiniteSet(S \ {x})
  BY FS_Subset
<1>3. Sums(f, G(S), S) /\ Sums(f, G(S \ {x}), S \ {x})
  BY <1>2, SumsExists
<1>4. Total(f, S) = G(S)[S] /\ Total(f, S \ {x}) = G(S \ {x})[S \ {x}]
  BY TotalIs
<1> HIDE DEF G
<1>5. G(S)[S \ {x}] = G(S \ {x})[S \ {x}]
  BY <1>3, SumsAgree
<1>6. G(S)[S] = f[x] + G(S)[S \ {x}]
  BY <1>1, <1>3 DEF Sums
<1> QED  BY <1>4, <1>5, <1>6

(* Nothing amounts to nothing.                                             *)
LEMMA TotalOfNone == ASSUME NEW f PROVE Total(f, {}) = 0
<1>1. PICK g : g = CHOOSE h : Sums(f, h, {})
  OBVIOUS
<1>2. Sums(f, g, {})
  BY <1>1, SumsExists, FS_EmptySet
<1> QED  BY <1>1, <1>2, TotalIs DEF Sums

(* The total is a number, and any member may be the one taken out.         *)
THEOREM TotalWithout ==
    ASSUME NEW S, IsFiniteSet(S), NEW f, \A x \in S : f[x] \in Nat
    PROVE  /\ Total(f, S) \in Nat
           /\ \A x \in S : Total(f, S) = f[x] + Total(f, S \ {x})
<1> DEFINE Good(s) == /\ Total(f, s) \in Nat
                      /\ \A x \in s : Total(f, s) = f[x] + Total(f, s \ {x})
           Bad == {s \in SUBSET S : ~Good(s)}
<1> SUFFICES ASSUME Bad # {} PROVE FALSE
  OBVIOUS
<1>1. PICK s \in Bad : \A u \in Bad : u \subseteq s => u = s
  <2>1. Bad \in SUBSET SUBSET S
    OBVIOUS
  <2> HIDE DEF Bad
  <2> QED  BY <2>1, MinimalSubset
<1>2. s \in SUBSET S /\ ~Good(s) /\ IsFiniteSet(s)
  BY <1>1, FS_Subset
<1>3. \A u \in SUBSET s : u # s => Good(u)
  BY <1>1
<1>4. CASE s = {}
  BY <1>2, <1>4, TotalOfNone
<1>5. CASE s # {}
  <2>1. PICK x \in s : Total(f, s) = f[x] + Total(f, s \ {x})
    BY <1>2, <1>5, TotalStep
  <2>2. Good(s \ {x})
    BY <1>3, <2>1
  <2>3. Total(f, s) \in Nat
    BY <1>2, <2>1, <2>2
  <2>4. ASSUME NEW y \in s, y # x PROVE Total(f, s) = f[y] + Total(f, s \ {y})
    <3>1. Good(s \ {y}) /\ x \in s \ {y} /\ y \in s \ {x}
      BY <1>3, <2>4
    <3>2. (s \ {x}) \ {y} = (s \ {y}) \ {x}
      OBVIOUS
    <3>3. Total(f, s \ {x}) = f[y] + Total(f, (s \ {x}) \ {y})
      BY <2>2, <3>1
    <3>4. Total(f, s \ {y}) = f[x] + Total(f, (s \ {y}) \ {x})
      BY <3>1
    <3>5. Good((s \ {x}) \ {y})
      BY <1>3, <2>4
    <3>6. f[x] \in Nat /\ f[y] \in Nat /\ Total(f, (s \ {x}) \ {y}) \in Nat
      BY <1>2, <3>5
    <3>7. PICK left \in Nat : left = Total(f, (s \ {x}) \ {y})
      BY <3>6
    <3>8. Total(f, s) = f[x] + (f[y] + left) /\ Total(f, s \ {y}) = f[x] + left
      BY <2>1, <3>2, <3>3, <3>4, <3>7
    <3> QED  BY ONLY <3>6, <3>8
  <2> QED  BY <1>2, <2>1, <2>3, <2>4
<1> QED  BY <1>4, <1>5

(* Only the amounts of the members count.                                  *)
THEOREM TotalOfSame ==
    ASSUME NEW S, IsFiniteSet(S), NEW f, NEW g, \A x \in S : f[x] \in Nat /\ g[x] = f[x]
    PROVE  Total(g, S) = Total(f, S)
<1> DEFINE Bad == {s \in SUBSET S : Total(g, s) # Total(f, s)}
<1> SUFFICES ASSUME Bad # {} PROVE FALSE
  OBVIOUS
<1>1. PICK s \in Bad : \A u \in Bad : u \subseteq s => u = s
  <2>1. Bad \in SUBSET SUBSET S
    OBVIOUS
  <2> HIDE DEF Bad
  <2> QED  BY <2>1, MinimalSubset
<1>2. s \in SUBSET S /\ IsFiniteSet(s)
  BY <1>1, FS_Subset
<1>3. CASE s = {}
  BY <1>1, <1>3, TotalOfNone
<1>4. CASE s # {}
  <2>1. PICK x \in s : TRUE
    BY <1>4
  <2>2. Total(f, s) = f[x] + Total(f, s \ {x}) /\ Total(g, s) = g[x] + Total(g, s \ {x})
    BY <1>2, <2>1, TotalWithout
  <2>3. Total(f, s \ {x}) = Total(g, s \ {x})
    BY <1>1, <2>1
  <2> QED  BY <1>1, <1>2, <2>2, <2>3
<1> QED  BY <1>3, <1>4

(* A new member adds what it has.                                          *)
THEOREM TotalWith ==
    ASSUME NEW S, IsFiniteSet(S), NEW x, x \notin S, NEW f, \A y \in S \cup {x} : f[y] \in Nat
    PROVE  Total(f, S \cup {x}) = f[x] + Total(f, S)
<1>1. IsFiniteSet(S \cup {x}) /\ (S \cup {x}) \ {x} = S
  BY FS_AddElement
<1> QED  BY <1>1, TotalWithout

(* Leaving out some of the indices makes no total greater. *)
THEOREM TotalOfFewer ==
    ASSUME NEW T, IsFiniteSet(T), NEW S \in SUBSET T, NEW f, \A x \in T : f[x] \in Nat
    PROVE  Total(f, S) <= Total(f, T)
<1> DEFINE Bad == {d \in SUBSET T : ~(Total(f, T \ d) <= Total(f, T))}
<1> SUFFICES ASSUME ~(Total(f, S) <= Total(f, T)) PROVE FALSE
  OBVIOUS
<1>1. T \ S \in Bad
  <2>1. T \ (T \ S) = S
    OBVIOUS
  <2> QED  BY <2>1
<1>2. PICK d \in Bad : \A u \in Bad : u \subseteq d => u = d
  <2> HIDE DEF Bad
  <2>1. Bad # {} /\ Bad \in SUBSET SUBSET T
    BY <1>1 DEF Bad
  <2> QED  BY <2>1, MinimalSubset
<1>3. \A s \in SUBSET T : IsFiniteSet(s) /\ Total(f, s) \in Nat
  BY FS_Subset, TotalWithout
<1>4. d # {}
  <2>1. T \ {} = T /\ Total(f, T) \in Nat
    BY <1>3
  <2> QED  BY <1>2, <2>1
<1>5. PICK x \in d : TRUE
  BY <1>4
<1>6. d \ {x} \notin Bad
  BY <1>2, <1>5
<1>7. Total(f, T \ (d \ {x})) <= Total(f, T)
  BY <1>6
<1>8. (T \ (d \ {x})) \ {x} = T \ d /\ x \in T \ (d \ {x}) /\ x \in T
  BY <1>2, <1>5
<1>9. Total(f, T \ (d \ {x})) = f[x] + Total(f, T \ d)
  <2>1. IsFiniteSet(T \ (d \ {x})) /\ \A y \in T \ (d \ {x}) : f[y] \in Nat
    BY <1>3
  <2> QED  BY <1>8, <2>1, TotalWithout
<1>10. /\ Total(f, T \ d) \in Nat /\ Total(f, T) \in Nat /\ f[x] \in Nat
       /\ Total(f, T \ (d \ {x})) \in Nat
  BY <1>3, <1>8
<1>11. Total(f, T \ d) <= Total(f, T)
  BY <1>7, <1>9, <1>10
<1> QED  BY <1>2, <1>11
=============================================================================
