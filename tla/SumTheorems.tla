---------------------------- MODULE SumTheorems ----------------------------
(***************************************************************************)
(* What SumFunction of the community modules, a fold, obeys over finite    *)
(* sets.  The fold takes its elements in an order it chooses; the facts    *)
(* here say that the order does not matter, which every statement about    *)
(* amounts that add up rests on.  Each proof by induction is one by a      *)
(* smallest counterexample.                                                *)
(***************************************************************************)
EXTENDS Functions, FiniteSetTheorems, WellFoundedInduction, TLAPS

\* The element the fold takes from a set
Taken(s) == CHOOSE x \in s : TRUE

\* g is the table of the fold's results for every part of S
Tabulates(g, f, S) ==
    g = [s \in SUBSET S |-> IF s = {} THEN 0 ELSE f[Taken(s)] + g[s \ {Taken(s)}]]

\* Among parts of a finite set there is one that contains none of the others.
LEMMA Smallest ==
  ASSUME NEW S, IsFiniteSet(S), NEW B, B \subseteq SUBSET S, B # {}
  PROVE  \E T \in B : \A U \in B : U \subseteq T => U = T
<1>1. IsWellFoundedOn(StrictSubsetOrdering(S), SUBSET S)
  BY FS_StrictSubsetOrderingWellFounded, FS_FiniteSubsetsOfFinite
<1>2. PICK T \in B : \A U \in B : ~(<<U, T>> \in StrictSubsetOrdering(S))
  BY <1>1, WFMin
<1>3. \A U \in B : U \subseteq T => U = T
  BY <1>2 DEF StrictSubsetOrdering
<1> QED BY <1>3

\* What is taken is in the set.
LEMMA TakenIn == ASSUME NEW s, s # {} PROVE Taken(s) \in s
  BY DEF Taken

\* One line of the table
LEMMA Line ==
  ASSUME NEW f, NEW g, NEW S, Tabulates(g, f, S), NEW s, s \subseteq S
  PROVE  g[s] = IF s = {} THEN 0 ELSE f[Taken(s)] + g[s \ {Taken(s)}]
<1> DEFINE entry(t) == IF t = {} THEN 0 ELSE f[Taken(t)] + g[t \ {Taken(t)}]
<1>1. g = [t \in SUBSET S |-> entry(t)]
  BY DEF Tabulates
<1> HIDE DEF entry
<1>2. g[s] = entry(s)
  BY <1>1
<1> QED BY <1>2 DEF entry

\* Two tables agree wherever both have a line.
LEMMA SameTable ==
  ASSUME NEW f, NEW g, NEW h, NEW S, NEW T, IsFiniteSet(T), T \subseteq S,
         Tabulates(g, f, S), Tabulates(h, f, T)
  PROVE  g[T] = h[T]
<1> DEFINE Bad == {s \in SUBSET T : g[s] # h[s]}
<1> SUFFICES ASSUME Bad # {} PROVE FALSE
  OBVIOUS
<1>0. Bad \subseteq SUBSET T
  OBVIOUS
<1>1. PICK s \in Bad : \A u \in Bad : u \subseteq s => u = s
  <2> HIDE DEF Bad
  <2> QED BY <1>0, Smallest
<1>2. s \subseteq T /\ s \subseteq S /\ g[s] # h[s]
  BY <1>1
<1>3. /\ g[s] = IF s = {} THEN 0 ELSE f[Taken(s)] + g[s \ {Taken(s)}]
      /\ h[s] = IF s = {} THEN 0 ELSE f[Taken(s)] + h[s \ {Taken(s)}]
  BY <1>2, Line
<1>4. s # {}
  BY <1>2, <1>3
<1>5. Taken(s) \in s
  BY <1>4, TakenIn
<1>6. s \ {Taken(s)} \notin Bad
  BY <1>1, <1>5
<1>7. g[s \ {Taken(s)}] = h[s \ {Taken(s)}]
  BY <1>2, <1>6
<1> QED BY <1>2, <1>3, <1>7

\* Every finite set has its table.
LEMMA TableExists == ASSUME NEW f, NEW S, IsFiniteSet(S) PROVE \E g : Tabulates(g, f, S)
<1> DEFINE Bad == {T \in SUBSET S : ~\E g : Tabulates(g, f, T)}
           of(U) == CHOOSE g : Tabulates(g, f, U)
<1> SUFFICES ASSUME Bad # {} PROVE FALSE
  OBVIOUS
<1>0. Bad \subseteq SUBSET S
  OBVIOUS
<1>1. PICK T \in Bad : \A U \in Bad : U \subseteq T => U = T
  <2> HIDE DEF Bad
  <2> QED BY <1>0, Smallest
<1>2. \A U : U \subseteq T /\ U # T => Tabulates(of(U), f, U) /\ IsFiniteSet(U)
  <2> SUFFICES ASSUME NEW U, U \subseteq T, U # T PROVE Tabulates(of(U), f, U) /\ IsFiniteSet(U)
    OBVIOUS
  <2>1. U \in SUBSET S /\ U \notin Bad
    BY <1>1
  <2>2. \E g : Tabulates(g, f, U)
    BY <2>1
  <2> QED BY <2>1, <2>2, FS_Subset
<1> HIDE DEF of
<1> DEFINE left(s) == s \ {Taken(s)}
           entry(s) == IF s = {} THEN 0 ELSE f[Taken(s)] + of(left(s))[left(s)]
           G == [s \in SUBSET T |-> entry(s)]
<1>3. \A s \in SUBSET T : s # {} => G[left(s)] = of(left(s))[left(s)]
  <2> SUFFICES ASSUME NEW s, s \subseteq T, s # {} PROVE G[left(s)] = of(left(s))[left(s)]
    OBVIOUS
  <2> DEFINE u == left(s)
  <2>1. Taken(s) \in s
    BY TakenIn
  <2>2. u \subseteq T /\ u # T
    BY <2>1
  <2>3. Tabulates(of(u), f, u)
    BY <1>2, <2>2
  <2> HIDE DEF u
  <2>4. of(u)[u] = IF u = {} THEN 0 ELSE f[Taken(u)] + of(u)[left(u)]
    BY <2>3, Line
  <2>5. G[u] = IF u = {} THEN 0 ELSE f[Taken(u)] + of(left(u))[left(u)]
    BY <2>2
  <2>6. ASSUME u # {} PROVE of(u)[left(u)] = of(left(u))[left(u)]
    <3> DEFINE v == left(u)
    <3>1. v \subseteq u /\ v \subseteq T /\ v # T
      BY <2>2, <2>6
    <3>2. Tabulates(of(v), f, v) /\ IsFiniteSet(v)
      BY <1>2, <3>1
    <3> HIDE DEF v
    <3>3. of(u)[v] = of(v)[v]
      BY <2>3, <3>1, <3>2, SameTable
    <3> QED BY <3>3 DEF v
  <2>7. G[u] = of(u)[u]
    BY <2>4, <2>5, <2>6
  <2> QED BY <2>7 DEF u
<1>4. G = [s \in SUBSET T |-> IF s = {} THEN 0 ELSE f[Taken(s)] + G[left(s)]]
  <2> DEFINE H == [s \in SUBSET T |-> IF s = {} THEN 0 ELSE f[Taken(s)] + G[left(s)]]
  <2>1. \A s \in SUBSET T : G[s] = H[s]
    BY <1>3
  <2> QED BY <2>1
<1>5. Tabulates(G, f, T)
  BY <1>4 DEF Tabulates
<1> QED BY <1>1, <1>5

\* The sum is the table's line for the whole set.
LEMMA SumIsTable ==
  ASSUME NEW f, NEW S, IsFiniteSet(S)
  PROVE  \E g : Tabulates(g, f, S) /\ SumFunctionOnSet(f, S) = g[S]
<1> DEFINE g == CHOOSE h : Tabulates(h, f, S)
<1>1. Tabulates(g, f, S)
  BY TableExists
<1>2. SumFunctionOnSet(f, S) = g[S]
  BY DEF SumFunctionOnSet, FoldFunctionOnSet, MapThenFoldSet, Tabulates, Taken
<1> QED BY <1>1, <1>2

\* A sum is made of integers only, so it is one; nothing adds up to zero.
LEMMA SumEmpty == ASSUME NEW f PROVE SumFunctionOnSet(f, {}) = 0
<1>1. IsFiniteSet({})
  BY FS_EmptySet
<1>2. PICK g : Tabulates(g, f, {}) /\ SumFunctionOnSet(f, {}) = g[{}]
  BY <1>1, SumIsTable
<1>3. g[{}] = 0
  BY <1>2, Line
<1> QED BY <1>2, <1>3

\* The fold as a recursion on the set
LEMMA SumTaken ==
  ASSUME NEW f, NEW S, IsFiniteSet(S), S # {}
  PROVE  SumFunctionOnSet(f, S) = f[Taken(S)] + SumFunctionOnSet(f, S \ {Taken(S)})
<1> DEFINE R == S \ {Taken(S)}
<1>1. IsFiniteSet(R) /\ R \subseteq S
  BY FS_Subset
<1> HIDE DEF R
<1>2. PICK g : Tabulates(g, f, S) /\ SumFunctionOnSet(f, S) = g[S]
  BY SumIsTable
<1>3. PICK h : Tabulates(h, f, R) /\ SumFunctionOnSet(f, R) = h[R]
  BY <1>1, SumIsTable
<1>4. g[R] = h[R]
  BY <1>1, <1>2, <1>3, SameTable
<1>5. g[S] = f[Taken(S)] + g[S \ {Taken(S)}]
  BY <1>2, Line
<1> QED BY <1>2, <1>3, <1>4, <1>5 DEF R

\* Only the values on the set count.
LEMMA SumSame ==
  ASSUME NEW f, NEW h, NEW S, IsFiniteSet(S), \A x \in S : f[x] = h[x]
  PROVE  SumFunctionOnSet(f, S) = SumFunctionOnSet(h, S)
<1> DEFINE Bad == {T \in SUBSET S : SumFunctionOnSet(f, T) # SumFunctionOnSet(h, T)}
<1> SUFFICES ASSUME Bad # {} PROVE FALSE
  OBVIOUS
<1>0. Bad \subseteq SUBSET S
  OBVIOUS
<1>1. PICK T \in Bad : \A U \in Bad : U \subseteq T => U = T
  <2> HIDE DEF Bad
  <2> QED BY <1>0, Smallest
<1>2. IsFiniteSet(T) /\ T \subseteq S /\ SumFunctionOnSet(f, T) # SumFunctionOnSet(h, T)
  BY <1>1, FS_Subset
<1>3. T # {}
  BY <1>2, SumEmpty
<1>4. Taken(T) \in T
  BY <1>3, TakenIn
<1>5. T \ {Taken(T)} \notin Bad
  BY <1>1, <1>4
<1>6. SumFunctionOnSet(f, T \ {Taken(T)}) = SumFunctionOnSet(h, T \ {Taken(T)})
  BY <1>2, <1>5
<1>7. f[Taken(T)] = h[Taken(T)]
  BY <1>2, <1>4
<1> QED BY <1>2, <1>3, <1>6, <1>7, SumTaken

\* Integers add up to an integer.
LEMMA SumInt ==
  ASSUME NEW f, NEW S, IsFiniteSet(S), \A x \in S : f[x] \in Int
  PROVE  SumFunctionOnSet(f, S) \in Int
<1> DEFINE Bad == {T \in SUBSET S : SumFunctionOnSet(f, T) \notin Int}
<1> SUFFICES ASSUME Bad # {} PROVE FALSE
  OBVIOUS
<1>0. Bad \subseteq SUBSET S
  OBVIOUS
<1>1. PICK T \in Bad : \A U \in Bad : U \subseteq T => U = T
  <2> HIDE DEF Bad
  <2> QED BY <1>0, Smallest
<1>2. IsFiniteSet(T) /\ T \subseteq S /\ SumFunctionOnSet(f, T) \notin Int
  BY <1>1, FS_Subset
<1>3. T # {}
  BY <1>2, SumEmpty
<1>4. Taken(T) \in T
  BY <1>3, TakenIn
<1>5. T \ {Taken(T)} \notin Bad
  BY <1>1, <1>4
<1>6. SumFunctionOnSet(f, T \ {Taken(T)}) \in Int
  BY <1>2, <1>5
<1>7. f[Taken(T)] \in Int
  BY <1>2, <1>4
<1>8. SumFunctionOnSet(f, T) = f[Taken(T)] + SumFunctionOnSet(f, T \ {Taken(T)})
  BY <1>2, <1>3, SumTaken
<1> QED BY <1>2, <1>6, <1>7, <1>8

\* The order does not matter: any element may be taken first.
LEMMA SumTakes ==
  ASSUME NEW f, NEW S, IsFiniteSet(S), \A x \in S : f[x] \in Int, NEW x \in S
  PROVE  SumFunctionOnSet(f, S) = f[x] + SumFunctionOnSet(f, S \ {x})
<1> DEFINE Bad == {T \in SUBSET S : \E y \in T :
                     SumFunctionOnSet(f, T) # f[y] + SumFunctionOnSet(f, T \ {y})}
<1> SUFFICES ASSUME Bad # {} PROVE FALSE
  OBVIOUS
<1>0. Bad \subseteq SUBSET S
  OBVIOUS
<1>1. PICK T \in Bad : \A U \in Bad : U \subseteq T => U = T
  <2> HIDE DEF Bad
  <2> QED BY <1>0, Smallest
<1>2. PICK y \in T : SumFunctionOnSet(f, T) # f[y] + SumFunctionOnSet(f, T \ {y})
  BY <1>1
<1> DEFINE z == Taken(T)
<1>3. IsFiniteSet(T) /\ T \subseteq S
  BY <1>1, FS_Subset
<1>4. z \in T
  BY <1>2, TakenIn
<1>5. SumFunctionOnSet(f, T) = f[z] + SumFunctionOnSet(f, T \ {z})
  BY <1>2, <1>3, SumTaken
<1> HIDE DEF z
<1>6. y # z
  BY <1>2, <1>5
<1>7. T \ {z} \notin Bad /\ T \ {y} \notin Bad
  BY <1>1, <1>2, <1>4
<1>8. SumFunctionOnSet(f, T \ {z}) = f[y] + SumFunctionOnSet(f, (T \ {z}) \ {y})
  BY <1>2, <1>3, <1>6, <1>7
<1>9. SumFunctionOnSet(f, T \ {y}) = f[z] + SumFunctionOnSet(f, (T \ {y}) \ {z})
  BY <1>3, <1>4, <1>6, <1>7
<1>10. (T \ {z}) \ {y} = (T \ {y}) \ {z}
  OBVIOUS
<1> DEFINE R == (T \ {y}) \ {z}
<1>11. f[y] \in Int /\ f[z] \in Int /\ SumFunctionOnSet(f, R) \in Int
  <2>1. IsFiniteSet(R) /\ \A w \in R : f[w] \in Int
    BY <1>3, FS_Subset
  <2> QED BY <1>2, <1>3, <1>4, <2>1, SumInt
<1>12. /\ SumFunctionOnSet(f, T \ {z}) = f[y] + SumFunctionOnSet(f, R)
       /\ SumFunctionOnSet(f, T \ {y}) = f[z] + SumFunctionOnSet(f, R)
  BY <1>8, <1>9, <1>10
<1> HIDE DEF R
<1>13. f[z] + (f[y] + SumFunctionOnSet(f, R)) = f[y] + (f[z] + SumFunctionOnSet(f, R))
  BY <1>11
<1> QED BY <1>2, <1>5, <1>12, <1>13

-----------------------------------------------------------------------------
(***************************************************************************)
(* The laws a proof about amounts cites.                                   *)
(***************************************************************************)
IntegersOn(f, S) == IsFiniteSet(S) /\ DOMAIN f = S /\ \A x \in S : f[x] \in Int

\* The sum of a finite function with integer values is an integer.
LEMMA SumIsInt == ASSUME NEW f, NEW S, IntegersOn(f, S) PROVE SumFunction(f) \in Int
  BY SumInt DEF SumFunction, IntegersOn

\* Nothing adds up to zero.
LEMMA SumOfNothing == ASSUME NEW f, DOMAIN f = {} PROVE SumFunction(f) = 0
  BY SumEmpty DEF SumFunction

\* One more element adds its value.
LEMMA SumAdds ==
  ASSUME NEW S, NEW x, x \notin S, NEW T, T = S \cup {x},
         NEW f, NEW g, IntegersOn(f, T), IntegersOn(g, S), \A y \in S : f[y] = g[y]
  PROVE  SumFunction(f) = f[x] + SumFunction(g)
<1>1. IsFiniteSet(T) /\ x \in T /\ T \ {x} = S /\ \A y \in T : f[y] \in Int
  BY DEF IntegersOn
<1>2. SumFunctionOnSet(f, T) = f[x] + SumFunctionOnSet(f, T \ {x})
  BY <1>1, SumTakes
<1>3. SumFunctionOnSet(f, S) = SumFunctionOnSet(g, S)
  BY SumSame DEF IntegersOn
<1> QED BY <1>1, <1>2, <1>3 DEF SumFunction, IntegersOn

\* A change at one element changes the sum by as much.
LEMMA SumChanges ==
  ASSUME NEW S, NEW x \in S, NEW f, NEW g, IntegersOn(f, S), IntegersOn(g, S),
         \A y \in S \ {x} : f[y] = g[y]
  PROVE  SumFunction(f) = SumFunction(g) + f[x] - g[x]
<1> DEFINE R == S \ {x}
<1>1. IsFiniteSet(R) /\ (\A y \in R : f[y] \in Int /\ g[y] \in Int) /\ \A y \in R : f[y] = g[y]
  BY FS_Subset DEF IntegersOn
<1>2. /\ SumFunctionOnSet(f, S) = f[x] + SumFunctionOnSet(f, R)
      /\ SumFunctionOnSet(g, S) = g[x] + SumFunctionOnSet(g, R)
  BY SumTakes DEF IntegersOn
<1> HIDE DEF R
<1>3. SumFunctionOnSet(f, R) = SumFunctionOnSet(g, R) /\ SumFunctionOnSet(f, R) \in Int
  BY <1>1, SumSame, SumInt
<1>4. f[x] \in Int /\ g[x] \in Int
  BY DEF IntegersOn
<1> QED BY <1>2, <1>3, <1>4 DEF SumFunction, IntegersOn

\* The laws below go from a set to one more element; the sets of which they hold are
\* named, as a set, for the induction.
LEMMA ElementByElement ==
  ASSUME NEW S, IsFiniteSet(S), NEW Good, {} \in Good,
         \A T \in SUBSET S : \A x \in S \ T : T \in Good => T \cup {x} \in Good
  PROVE  S \in Good
<1> DEFINE Bad == {T \in SUBSET S : T \notin Good}
<1> SUFFICES ASSUME Bad # {} PROVE FALSE
  OBVIOUS
<1>0. Bad \subseteq SUBSET S
  OBVIOUS
<1>1. PICK T \in Bad : \A U \in Bad : U \subseteq T => U = T
  <2> HIDE DEF Bad
  <2> QED BY <1>0, Smallest
<1>2. PICK x \in T : TRUE
  <2>1. T # {}
    BY <1>1
  <2> QED BY <2>1
<1>3. T \ {x} \in Good /\ T \ {x} \in SUBSET S /\ x \in S \ (T \ {x})
  BY <1>1
<1>4. (T \ {x}) \cup {x} = T
  OBVIOUS
<1> QED BY <1>1, <1>3, <1>4

\* One more element, for the sum on a set
LEMMA SumOnSetAdds ==
  ASSUME NEW f, NEW S, IsFiniteSet(S), \A y \in S : f[y] \in Int, NEW T \in SUBSET S, NEW x \in S \ T
  PROVE  /\ SumFunctionOnSet(f, T \cup {x}) = f[x] + SumFunctionOnSet(f, T)
         /\ f[x] \in Int /\ SumFunctionOnSet(f, T) \in Int
<1>1. IsFiniteSet(T \cup {x}) /\ IsFiniteSet(T)
  BY FS_Subset
<1>2. x \in T \cup {x} /\ (T \cup {x}) \ {x} = T
  OBVIOUS
<1>3. SumFunctionOnSet(f, T \cup {x}) = f[x] + SumFunctionOnSet(f, (T \cup {x}) \ {x})
  BY <1>1, SumTakes
<1>4. SumFunctionOnSet(f, T) \in Int
  BY <1>1, SumInt
<1> QED BY <1>2, <1>3, <1>4

\* Sums add up element by element.
LEMMA SumOfSums ==
  ASSUME NEW S, NEW f, NEW g, NEW h, IntegersOn(f, S), IntegersOn(g, S), IntegersOn(h, S),
         \A x \in S : h[x] = f[x] + g[x]
  PROVE  SumFunction(h) = SumFunction(f) + SumFunction(g)
<1> DEFINE Good == {T \in SUBSET S :
                     SumFunctionOnSet(h, T) = SumFunctionOnSet(f, T) + SumFunctionOnSet(g, T)}
<1>1. {} \in Good
  BY SumEmpty
<1>2. ASSUME NEW T \in SUBSET S, NEW x \in S \ T, T \in Good PROVE T \cup {x} \in Good
  <2>1. /\ SumFunctionOnSet(f, T \cup {x}) = f[x] + SumFunctionOnSet(f, T)
        /\ f[x] \in Int /\ SumFunctionOnSet(f, T) \in Int
    BY SumOnSetAdds DEF IntegersOn
  <2>2. /\ SumFunctionOnSet(g, T \cup {x}) = g[x] + SumFunctionOnSet(g, T)
        /\ g[x] \in Int /\ SumFunctionOnSet(g, T) \in Int
    BY SumOnSetAdds DEF IntegersOn
  <2>3. SumFunctionOnSet(h, T \cup {x}) = h[x] + SumFunctionOnSet(h, T)
    BY SumOnSetAdds DEF IntegersOn
  <2> QED BY <1>2, <2>1, <2>2, <2>3
<1>3. S \in Good
  <2> HIDE DEF Good
  <2> QED BY <1>1, <1>2, ElementByElement DEF IntegersOn
<1> QED BY <1>3 DEF SumFunction, IntegersOn

\* A common factor can be taken out.
LEMMA SumOfMultiples ==
  ASSUME NEW S, NEW k \in Int, NEW f, NEW h, IntegersOn(f, S), IntegersOn(h, S),
         \A x \in S : h[x] = k * f[x]
  PROVE  SumFunction(h) = k * SumFunction(f)
<1> DEFINE Good == {T \in SUBSET S : SumFunctionOnSet(h, T) = k * SumFunctionOnSet(f, T)}
<1>1. {} \in Good
  BY SumEmpty
<1>2. ASSUME NEW T \in SUBSET S, NEW x \in S \ T, T \in Good PROVE T \cup {x} \in Good
  <2>1. /\ SumFunctionOnSet(f, T \cup {x}) = f[x] + SumFunctionOnSet(f, T)
        /\ f[x] \in Int /\ SumFunctionOnSet(f, T) \in Int
    BY SumOnSetAdds DEF IntegersOn
  <2>2. SumFunctionOnSet(h, T \cup {x}) = h[x] + SumFunctionOnSet(h, T)
    BY SumOnSetAdds DEF IntegersOn
  <2>3. \A a, b \in Int : k * (a + b) = k * a + k * b
    OBVIOUS
  <2> QED BY <1>2, <2>1, <2>2, <2>3
<1>3. S \in Good
  <2> HIDE DEF Good
  <2> QED BY <1>1, <1>2, ElementByElement DEF IntegersOn
<1> QED BY <1>3 DEF SumFunction, IntegersOn

\* What is zero need not be summed.
LEMMA SumOfSupport ==
  ASSUME NEW S, NEW R, R \subseteq S, NEW f, NEW g, IntegersOn(f, S), IntegersOn(g, R),
         \A x \in R : f[x] = g[x], \A x \in S \ R : f[x] = 0
  PROVE  SumFunction(f) = SumFunction(g)
<1> DEFINE Good == {T \in SUBSET S : SumFunctionOnSet(f, T) = SumFunctionOnSet(g, T \cap R)}
<1>1. {} \in Good
  <2>1. {} \cap R = {}
    OBVIOUS
  <2> QED BY <2>1, SumEmpty
<1>2. ASSUME NEW T \in SUBSET S, NEW x \in S \ T, T \in Good PROVE T \cup {x} \in Good
  <2>1. /\ SumFunctionOnSet(f, T \cup {x}) = f[x] + SumFunctionOnSet(f, T)
        /\ f[x] \in Int /\ SumFunctionOnSet(f, T) \in Int
    BY SumOnSetAdds DEF IntegersOn
  <2>2. CASE x \in R
    <3> DEFINE TR == T \cap R
    <3>1. (T \cup {x}) \cap R = TR \cup {x} /\ TR \in SUBSET R /\ x \in R \ TR
      BY <2>2
    <3> HIDE DEF TR
    <3>2. SumFunctionOnSet(g, TR \cup {x}) = g[x] + SumFunctionOnSet(g, TR)
      BY <3>1, SumOnSetAdds DEF IntegersOn
    <3>3. SumFunctionOnSet(f, T) = SumFunctionOnSet(g, TR) /\ f[x] = g[x]
      BY <1>2, <2>2 DEF TR
    <3>4. SumFunctionOnSet(f, T \cup {x}) = SumFunctionOnSet(g, (T \cup {x}) \cap R)
      BY <2>1, <3>1, <3>2, <3>3
    <3> QED BY <3>4
  <2>3. CASE x \notin R
    <3>1. (T \cup {x}) \cap R = T \cap R /\ f[x] = 0
      BY <2>3
    <3>2. SumFunctionOnSet(f, T) = SumFunctionOnSet(g, T \cap R)
      BY <1>2
    <3>3. SumFunctionOnSet(f, T \cup {x}) = SumFunctionOnSet(f, T)
      BY <2>1, <3>1
    <3> QED BY <3>1, <3>2, <3>3
  <2> QED BY <2>2, <2>3
<1>3. S \in Good
  <2> HIDE DEF Good
  <2> QED BY <1>1, <1>2, ElementByElement DEF IntegersOn
<1>4. S \cap R = R
  OBVIOUS
<1> QED BY <1>3, <1>4 DEF SumFunction, IntegersOn

\* Where the terms are not larger, neither is the sum.
LEMMA SumOrdered ==
  ASSUME NEW S, NEW f, NEW g, IntegersOn(f, S), IntegersOn(g, S), \A x \in S : f[x] <= g[x]
  PROVE  SumFunction(f) <= SumFunction(g)
<1> DEFINE Good == {T \in SUBSET S : SumFunctionOnSet(f, T) <= SumFunctionOnSet(g, T)}
<1>1. {} \in Good
  BY SumEmpty
<1>2. ASSUME NEW T \in SUBSET S, NEW x \in S \ T, T \in Good PROVE T \cup {x} \in Good
  <2>1. /\ SumFunctionOnSet(f, T \cup {x}) = f[x] + SumFunctionOnSet(f, T)
        /\ f[x] \in Int /\ SumFunctionOnSet(f, T) \in Int
    BY SumOnSetAdds DEF IntegersOn
  <2>2. /\ SumFunctionOnSet(g, T \cup {x}) = g[x] + SumFunctionOnSet(g, T)
        /\ g[x] \in Int /\ SumFunctionOnSet(g, T) \in Int
    BY SumOnSetAdds DEF IntegersOn
  <2> QED BY <1>2, <2>1, <2>2
<1>3. S \in Good
  <2> HIDE DEF Good
  <2> QED BY <1>1, <1>2, ElementByElement DEF IntegersOn
<1> QED BY <1>3 DEF SumFunction, IntegersOn

\* Equal terms add up to as many times one of them.
LEMMA SumOfEqual ==
  ASSUME NEW S, NEW k \in Int, NEW f, IntegersOn(f, S), \A x \in S : f[x] = k
  PROVE  SumFunction(f) = k * Cardinality(S)
<1> DEFINE Good == {T \in SUBSET S : SumFunctionOnSet(f, T) = k * Cardinality(T)}
<1>1. {} \in Good
  BY SumEmpty, FS_EmptySet
<1>2. ASSUME NEW T \in SUBSET S, NEW x \in S \ T, T \in Good PROVE T \cup {x} \in Good
  <2>1. SumFunctionOnSet(f, T \cup {x}) = k + SumFunctionOnSet(f, T)
    BY SumOnSetAdds DEF IntegersOn
  <2>2. IsFiniteSet(T)
    BY FS_Subset DEF IntegersOn
  <2>3. Cardinality(T \cup {x}) = Cardinality(T) + 1 /\ Cardinality(T) \in Nat
    BY <2>2, FS_AddElement, FS_CardinalityType
  <2>4. k * (Cardinality(T) + 1) = k + k * Cardinality(T)
    BY <2>3
  <2>5. SumFunctionOnSet(f, T \cup {x}) = k * Cardinality(T \cup {x})
    BY <1>2, <2>1, <2>3, <2>4
  <2> QED BY <2>5
<1>3. S \in Good
  <2> HIDE DEF Good
  <2> QED BY <1>1, <1>2, ElementByElement DEF IntegersOn
<1> QED BY <1>3 DEF SumFunction, IntegersOn

\* A sum with one term
LEMMA SumOfOne ==
  ASSUME NEW S, NEW p \in S, NEW f, IntegersOn(f, S), \A x \in S \ {p} : f[x] = 0
  PROVE  SumFunction(f) = f[p]
<1>1. IsFiniteSet({p}) /\ {p} \ {p} = {}
  BY FS_Singleton
<1>2. SumFunctionOnSet(f, {p}) = f[p] + SumFunctionOnSet(f, {p} \ {p})
  BY <1>1, SumTakes DEF IntegersOn
<1>3. SumFunctionOnSet(f, {p}) = f[p]
  BY <1>1, <1>2, SumEmpty DEF IntegersOn
<1> DEFINE g == [x \in {p} |-> f[p]]
<1>4. IntegersOn(g, {p}) /\ g[p] = f[p]
  BY <1>1 DEF IntegersOn
<1> HIDE DEF g
<1>5. SumFunctionOnSet(g, {p}) = SumFunctionOnSet(f, {p})
  BY <1>1, <1>4, SumSame
<1>6. SumFunction(f) = SumFunction(g)
  BY <1>4, SumOfSupport
<1> QED BY <1>3, <1>4, <1>5, <1>6 DEF SumFunction, IntegersOn

\* A table adds up to the same by rows and by columns.
LEMMA SumByRowsAndColumns ==
  ASSUME NEW U, NEW E, IsFiniteSet(U), IsFiniteSet(E), NEW t \in [U -> [E -> Int]]
  PROVE  SumFunction([u \in U |-> SumFunction(t[u])])
           = SumFunction([e \in E |-> SumFunction([u \in U |-> t[u][e]])])
<1> DEFINE row(T) == [u \in U |-> SumFunctionOnSet(t[u], T)]
           column(e) == [u \in U |-> t[u][e]]
           columns == [e \in E |-> SumFunction(column(e))]
           Good == {T \in SUBSET E : SumFunction(row(T)) = SumFunctionOnSet(columns, T)}
<1>1. \A e \in E : IntegersOn(column(e), U)
  BY DEF IntegersOn
<1>2. ASSUME NEW T \in SUBSET E PROVE IntegersOn(row(T), U)
  <2>1. \A u \in U : SumFunctionOnSet(t[u], T) \in Int
    <3> SUFFICES ASSUME NEW u \in U PROVE SumFunctionOnSet(t[u], T) \in Int
      OBVIOUS
    <3>1. IsFiniteSet(T) /\ \A e \in T : t[u][e] \in Int
      BY FS_Subset
    <3> QED BY <3>1, SumInt
  <2> QED BY <2>1 DEF IntegersOn
<1>3. IntegersOn(columns, E)
  <2>1. \A e \in E : SumFunction(column(e)) \in Int
    <3> HIDE DEF column
    <3> QED BY <1>1, SumIsInt
  <2> QED BY <2>1 DEF IntegersOn
<1>4. {} \in Good
  <2>1. \A u \in U : row({})[u] = 0 * row({})[u]
    <3>1. \A u \in U : row({})[u] = 0
      BY SumEmpty
    <3> QED BY <3>1
  <2>2. IntegersOn(row({}), U)
    BY <1>2
  <2> DEFINE z == row({})
  <2>3. IntegersOn(z, U) /\ \A u \in U : z[u] = 0 * z[u]
    BY <2>1, <2>2
  <2> HIDE DEF z
  <2>4. SumFunction(z) = 0 * SumFunction(z) /\ SumFunction(z) \in Int
    BY <2>3, SumOfMultiples, SumIsInt
  <2>5. SumFunction(z) = 0
    BY <2>4
  <2>6. SumFunctionOnSet(columns, {}) = 0
    BY SumEmpty
  <2> QED BY <2>5, <2>6 DEF z
<1>5. ASSUME NEW T \in SUBSET E, NEW x \in E \ T, T \in Good PROVE T \cup {x} \in Good
  <2> DEFINE more == row(T \cup {x})
             less == row(T)
             col == column(x)
  <2>1. IntegersOn(more, U) /\ IntegersOn(less, U) /\ IntegersOn(col, U)
    <3>1. T \cup {x} \in SUBSET E
      OBVIOUS
    <3> HIDE DEF row, column
    <3> QED BY <1>1, <1>2, <3>1
  <2>2. \A u \in U : more[u] = col[u] + less[u]
    <3> SUFFICES ASSUME NEW u \in U PROVE more[u] = col[u] + less[u]
      OBVIOUS
    <3>1. \A e \in E : t[u][e] \in Int
      OBVIOUS
    <3>2. SumFunctionOnSet(t[u], T \cup {x}) = t[u][x] + SumFunctionOnSet(t[u], T)
      BY <3>1, SumOnSetAdds
    <3> QED BY <3>2
  <2>3. columns[x] = SumFunction(col)
    OBVIOUS
  <2>4. SumFunction(less) = SumFunctionOnSet(columns, T)
    BY <1>5
  <2>5. SumFunctionOnSet(columns, T \cup {x}) = columns[x] + SumFunctionOnSet(columns, T)
    <3> HIDE DEF columns
    <3> QED BY <1>3, SumOnSetAdds DEF IntegersOn
  <2> HIDE DEF more, less, col
  <2>6. SumFunction(more) = SumFunction(col) + SumFunction(less)
    BY <2>1, <2>2, SumOfSums
  <2>7. SumFunction(more) = SumFunctionOnSet(columns, T \cup {x})
    BY <2>3, <2>4, <2>5, <2>6
  <2> QED BY <2>7 DEF more
<1>6. E \in Good
  <2> HIDE DEF Good
  <2> QED BY <1>4, <1>5, ElementByElement
<1>7. row(E) = [u \in U |-> SumFunction(t[u])]
  BY DEF SumFunction
<1>8. SumFunctionOnSet(columns, E) = SumFunction(columns)
  BY DEF SumFunction
<1> QED BY <1>6, <1>7, <1>8

\* When each of E goes to one of U, the sums of what goes to each add up to all of it.
LEMMA SumOfShares ==
  ASSUME NEW U, NEW E, IsFiniteSet(U), IsFiniteSet(E),
         NEW v \in [E -> Int], NEW to \in [E -> U],
         NEW got, IntegersOn(got, U),
         \A u \in U : got[u] = SumFunction([e \in {x \in E : to[x] = u} |-> v[e]])
  PROVE  SumFunction(got) = SumFunction(v)
<1> DEFINE t == [u \in U |-> [e \in E |-> IF to[e] = u THEN v[e] ELSE 0]]
           column(e) == [u \in U |-> t[u][e]]
<1>1. t \in [U -> [E -> Int]]
  OBVIOUS
<1>2. ASSUME NEW u \in U PROVE got[u] = SumFunction(t[u])
  <2> DEFINE R == {x \in E : to[x] = u}
             f == [e \in R |-> v[e]]
             g == t[u]
  <2>1. R \subseteq E /\ IsFiniteSet(R)
    BY FS_Subset
  <2>2. IntegersOn(f, R) /\ IntegersOn(g, E)
    BY <2>1 DEF IntegersOn
  <2>3. (\A x \in R : g[x] = f[x]) /\ (\A x \in E \ R : g[x] = 0)
    OBVIOUS
  <2>4. got[u] = SumFunction(f)
    OBVIOUS
  <2> HIDE DEF R, f, g
  <2>5. SumFunction(g) = SumFunction(f)
    BY <2>1, <2>2, <2>3, SumOfSupport
  <2> QED BY <2>4, <2>5 DEF g
<1>3. ASSUME NEW e \in E PROVE SumFunction(column(e)) = v[e]
  <2> DEFINE c == column(e)
             p == to[e]
  <2>1. IntegersOn(c, U) /\ p \in U /\ c[p] = v[e] /\ \A x \in U \ {p} : c[x] = 0
    BY DEF IntegersOn
  <2> HIDE DEF c, p
  <2>2. SumFunction(c) = c[p]
    BY <2>1, SumOfOne
  <2> QED BY <2>1, <2>2 DEF c
<1>4. SumFunction(got) = SumFunction([u \in U |-> got[u]])
  <2> DEFINE g == [u \in U |-> got[u]]
  <2>1. IntegersOn(g, U) /\ \A u \in U : got[u] = g[u]
    BY DEF IntegersOn
  <2>2. U \subseteq U /\ U \ U = {}
    OBVIOUS
  <2> HIDE DEF g
  <2>3. SumFunction(got) = SumFunction(g)
    BY <2>1, <2>2, SumOfSupport
  <2> QED BY <2>3 DEF g
<1>5. SumFunction(got) = SumFunction([u \in U |-> SumFunction(t[u])])
  <2>1. [u \in U |-> got[u]] = [u \in U |-> SumFunction(t[u])]
    <3> HIDE DEF t
    <3> QED BY <1>2
  <2> QED BY <1>4, <2>1
<1>6. SumFunction([u \in U |-> SumFunction(t[u])]) = SumFunction([e \in E |-> SumFunction(column(e))])
  <2> HIDE DEF t
  <2> QED BY <1>1, SumByRowsAndColumns
<1>7. [e \in E |-> SumFunction(column(e))] = v
  <2> HIDE DEF column
  <2> QED BY <1>3
<1> QED BY <1>5, <1>6, <1>7
=============================================================================
