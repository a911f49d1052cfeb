-------------------------------- MODULE Sums --------------------------------
(***************************************************************************)
(* Facts about the sums that usages, quotas and sizes are compared by:     *)
(* MapThenSumSet of a function over a finite set.  The fold is a recursive *)
(* function that removes a chosen element; that it has a value and that    *)
(* the order does not matter is proved by smallest counterexamples: of the *)
(* sets that violate a claim one contains no other.  Then remainders, for  *)
(* counts of limited width.                                                *)
(***************************************************************************)
EXTENDS Integers, FiniteSets, FiniteSetsExt, FiniteSetTheorems, WellFoundedInduction, TLAPS

\* The sum of g[x] for x in S.
Total(g, S) == MapThenSumSet(LAMBDA x : g[x], S)

\* The element that the fold takes next.
First(s) == CHOOSE x \in s : TRUE
\* h is the fold on all subsets of U.
IsTotal(g, U, h) == h = [s \in SUBSET U |-> IF s = {} THEN 0 ELSE g[First(s)] + h[s \ {First(s)}]]

LEMMA TotalDef ==
    ASSUME NEW g, NEW S
    PROVE  Total(g, S) = (CHOOSE h : IsTotal(g, S, h))[S]
BY DEF Total, MapThenSumSet, MapThenFoldSet, IsTotal, First

\* Of any sets of elements of S one contains no other.
LEMMA SmallestSet ==
    ASSUME NEW S, IsFiniteSet(S), NEW T, T \subseteq SUBSET S, T # {}
    PROVE  \E U \in T : \A V \in T : V \subseteq U => V = U
<1>1. IsWellFoundedOn(StrictSubsetOrdering(S), SUBSET S)
  BY FS_StrictSubsetOrderingWellFounded, FS_FiniteSubsetsOfFinite
<1>2. \E U \in T : \A V \in T : ~(<<V, U>> \in StrictSubsetOrdering(S))
  BY <1>1, WFMin
<1>. QED BY <1>2 DEF StrictSubsetOrdering

\* The fold on a subset does not depend on the set it is part of.
LEMMA TotalsAgree ==
    ASSUME NEW g, NEW S, IsFiniteSet(S), NEW U \in SUBSET S, NEW V \in SUBSET S,
           NEW h, NEW k, IsTotal(g, U, h), IsTotal(g, V, k),
           NEW W, W \subseteq U \cap V
    PROVE  h[W] = k[W]
<1>. DEFINE Bad == {X \in SUBSET S : X \subseteq U \cap V /\ h[X] # k[X]}
<1>. SUFFICES ASSUME Bad # {} PROVE FALSE
  OBVIOUS
<1>1. PICK X \in Bad : \A Y \in Bad : Y \subseteq X => Y = X
  <2>. Bad \subseteq SUBSET S
    OBVIOUS
  <2>. HIDE DEF Bad
  <2>. QED BY SmallestSet
<1>2. X # {}
  BY DEF IsTotal
<1>3. First(X) \in X
  BY <1>2 DEF First
<1>4. X \ {First(X)} \notin Bad
  BY <1>1, <1>3
<1>5. h[X \ {First(X)}] = k[X \ {First(X)}]
  BY <1>4
<1>6. h[X] = g[First(X)] + h[X \ {First(X)}] /\ k[X] = g[First(X)] + k[X \ {First(X)}]
  BY <1>2 DEF IsTotal
<1>. QED BY <1>5, <1>6

\* There is such a recursive function.
LEMMA TotalExists ==
    ASSUME NEW g, NEW S, IsFiniteSet(S)
    PROVE  \E h : IsTotal(g, S, h)
<1>. DEFINE Bad == {X \in SUBSET S : ~ \E h : IsTotal(g, X, h)}
<1>. SUFFICES ASSUME Bad # {} PROVE FALSE
  OBVIOUS
<1>1. PICK X \in Bad : \A Y \in Bad : Y \subseteq X => Y = X
  <2>. Bad \subseteq SUBSET S
    OBVIOUS
  <2>. HIDE DEF Bad
  <2>. QED BY SmallestSet
<1>. DEFINE part(Y) == CHOOSE h : IsTotal(g, Y, h)
            k == [s \in SUBSET X |->
                    IF s = {} THEN 0 ELSE g[First(s)] + part(s \ {First(s)})[s \ {First(s)}]]
<1>2. ASSUME NEW Y \in SUBSET X, Y # X PROVE IsTotal(g, Y, part(Y))
  BY <1>1, <1>2
<1>3. ASSUME NEW s \in SUBSET X, s # {}
      PROVE  s \ {First(s)} \in SUBSET X /\ s \ {First(s)} # X /\ First(s) \in s
  BY <1>3 DEF First
<1>4. ASSUME NEW s \in SUBSET X, s # X, s # {}
      PROVE  k[s] = part(s)[s]
  <2>. DEFINE r == s \ {First(s)}
  <2>1. IsTotal(g, s, part(s)) /\ IsTotal(g, r, part(r))
    BY <1>2, <1>3, <1>4
  <2>2. r \in SUBSET s
    OBVIOUS
  <2>3. part(s)[s] = g[First(s)] + part(s)[r]
    BY <2>1, <1>4 DEF IsTotal
  <2>4. IsFiniteSet(s)
    BY FS_Subset
  <2>5. part(s)[r] = part(r)[r]
    <3>. HIDE DEF part, r
    <3>. QED BY <2>1, <2>2, <2>4, TotalsAgree
  <2>. QED BY <2>3, <2>5, <1>4
<1>5. ASSUME NEW s \in SUBSET X, s # {}
      PROVE  part(s \ {First(s)})[s \ {First(s)}] = k[s \ {First(s)}]
  <2>. DEFINE r == s \ {First(s)}
  <2>1. r \in SUBSET X /\ r # X
    BY <1>3, <1>5
  <2>2. CASE r # {}
    BY <1>4, <2>1, <2>2
  <2>3. CASE r = {}
    <3>1. IsTotal(g, r, part(r))
      BY <1>2, <2>1
    <3>2. part(r)[r] = 0
      <4>. HIDE DEF part
      <4>. QED BY <3>1, <2>3 DEF IsTotal
    <3>3. k[r] = 0
      BY <2>3, <2>1
    <3>. QED BY <3>2, <3>3
  <2>. QED BY <2>2, <2>3
<1>6. k = [s \in SUBSET X |-> IF s = {} THEN 0 ELSE g[First(s)] + k[s \ {First(s)}]]
  <2>. DEFINE m == [s \in SUBSET X |-> IF s = {} THEN 0 ELSE g[First(s)] + k[s \ {First(s)}]]
  <2>1. ASSUME NEW s \in SUBSET X PROVE k[s] = m[s]
    <3>1. CASE s = {}
      BY <3>1
    <3>2. CASE s # {}
      <4>1. k[s] = g[First(s)] + part(s \ {First(s)})[s \ {First(s)}]
        BY <3>2
      <4>2. m[s] = g[First(s)] + k[s \ {First(s)}]
        <5>. HIDE DEF k
        <5>. QED BY <3>2
      <4>3. part(s \ {First(s)})[s \ {First(s)}] = k[s \ {First(s)}]
        BY <1>5, <3>2
      <4>. HIDE DEF k, m, part
      <4>. QED BY <4>1, <4>2, <4>3
    <3>. QED BY <3>1, <3>2
  <2>2. DOMAIN k = SUBSET X /\ DOMAIN m = SUBSET X /\ k = [s \in DOMAIN k |-> k[s]] /\ m = [s \in DOMAIN m |-> m[s]]
    OBVIOUS
  <2>3. k = m
    <3>. HIDE DEF k, m
    <3>. QED BY <2>1, <2>2
  <2>. QED BY <2>3
<1>7. IsTotal(g, X, k)
  <2>. HIDE DEF k
  <2>. QED BY <1>6 DEF IsTotal
<1>. QED BY <1>1, <1>7

\* A sum is the chosen element's value and the sum of the rest.
LEMMA TotalUnfold ==
    ASSUME NEW g, NEW S, IsFiniteSet(S)
    PROVE  Total(g, S) = IF S = {} THEN 0 ELSE g[First(S)] + Total(g, S \ {First(S)})
<1>. DEFINE h == CHOOSE x : IsTotal(g, S, x)
            r == S \ {First(S)}
            k == CHOOSE x : IsTotal(g, r, x)
<1>1. IsFiniteSet(r)
  BY FS_RemoveElement
<1>2. IsTotal(g, S, h)
  BY TotalExists
<1>3. IsTotal(g, r, k)
  <2>. HIDE DEF r
  <2>. QED BY <1>1, TotalExists
<1>4. Total(g, S) = h[S] /\ Total(g, r) = k[r]
  BY TotalDef
<1>5. r \subseteq S
  OBVIOUS
<1>. HIDE DEF h, k
<1>6. h[r] = k[r]
  <2>. HIDE DEF r
  <2>. QED BY <1>2, <1>3, <1>5, TotalsAgree
<1>7. h[S] = IF S = {} THEN 0 ELSE g[First(S)] + h[r]
  BY <1>2 DEF IsTotal
<1>. QED BY <1>4, <1>6, <1>7

LEMMA TotalInt ==
    ASSUME NEW g, NEW S, IsFiniteSet(S), \A x \in S : g[x] \in Int
    PROVE  Total(g, S) \in Int
<1>. DEFINE Bad == {X \in SUBSET S : Total(g, X) \notin Int}
<1>. SUFFICES ASSUME Bad # {} PROVE FALSE
  BY DEF Bad
<1>1. PICK X \in Bad : \A Y \in Bad : Y \subseteq X => Y = X
  <2>. Bad \subseteq SUBSET S
    OBVIOUS
  <2>. HIDE DEF Bad
  <2>. QED BY SmallestSet
<1>2. IsFiniteSet(X)
  BY FS_Subset
<1>3. Total(g, X) = IF X = {} THEN 0 ELSE g[First(X)] + Total(g, X \ {First(X)})
  BY <1>2, TotalUnfold
<1>4. X # {}
  BY <1>3
<1>5. First(X) \in X
  BY <1>4 DEF First
<1>6. X \ {First(X)} \in SUBSET S /\ X \ {First(X)} \notin Bad
  BY <1>1, <1>5
<1>. QED BY <1>3, <1>5, <1>6

\* So it is for any other element.
LEMMA TotalRemove ==
    ASSUME NEW g, NEW S, IsFiniteSet(S), \A x \in S : g[x] \in Int, NEW e \in S
    PROVE  Total(g, S) = g[e] + Total(g, S \ {e})
<1>. DEFINE Bad == {X \in SUBSET S : \E d \in X : Total(g, X) # g[d] + Total(g, X \ {d})}
<1>. SUFFICES ASSUME Bad # {} PROVE FALSE
  BY DEF Bad
<1>1. PICK X \in Bad : \A Y \in Bad : Y \subseteq X => Y = X
  <2>. Bad \subseteq SUBSET S
    OBVIOUS
  <2>. HIDE DEF Bad
  <2>. QED BY SmallestSet
<1>2. IsFiniteSet(X) /\ X \subseteq S
  BY FS_Subset
<1>3. PICK d \in X : Total(g, X) # g[d] + Total(g, X \ {d})
  OBVIOUS
<1>4. PICK c : c = First(X)
  OBVIOUS
<1>5. c \in X
  BY <1>3, <1>4 DEF First
<1>6. Total(g, X) = g[c] + Total(g, X \ {c})
  BY <1>2, <1>3, <1>4, TotalUnfold
<1>7. c # d
  BY <1>3, <1>6
<1>8. ASSUME NEW a \in X, NEW b \in X, a # b
      PROVE  Total(g, X \ {a}) = g[b] + Total(g, X \ {a, b})
  <2>1. X \ {a} \notin Bad /\ X \ {a} \in SUBSET S
    BY <1>1
  <2>2. b \in X \ {a} /\ (X \ {a}) \ {b} = X \ {a, b}
    BY <1>8
  <2>. QED BY <2>1, <2>2
<1>9. Total(g, X \ {c}) = g[d] + Total(g, X \ {c, d})
  BY <1>5, <1>7, <1>8
<1>10. Total(g, X \ {d}) = g[c] + Total(g, X \ {c, d})
  <2>1. X \ {d, c} = X \ {c, d}
    OBVIOUS
  <2>. QED BY <1>5, <1>7, <1>8, <2>1
<1>11. Total(g, X \ {c, d}) \in Int
  <2>1. IsFiniteSet(X \ {c, d})
    BY <1>2, FS_Subset
  <2>. QED BY <1>2, <2>1, TotalInt
<1>12. g[c] \in Int /\ g[d] \in Int
  BY <1>2, <1>5
<1>. HIDE DEF Bad
<1>. QED BY <1>3, <1>6, <1>9, <1>10, <1>11, <1>12

LEMMA TotalAdd ==
    ASSUME NEW g, NEW S, IsFiniteSet(S), \A x \in S : g[x] \in Int, NEW e, e \notin S, g[e] \in Int
    PROVE  Total(g, S \cup {e}) = g[e] + Total(g, S)
<1>1. IsFiniteSet(S \cup {e}) /\ (S \cup {e}) \ {e} = S /\ e \in S \cup {e}
  BY FS_AddElement
<1>2. \A x \in S \cup {e} : g[x] \in Int
  OBVIOUS
<1>. QED BY <1>1, <1>2, TotalRemove

LEMMA TotalEmpty == ASSUME NEW g PROVE Total(g, {}) = 0
BY TotalUnfold, FS_EmptySet

\* Only the values on S matter.
LEMMA TotalSame ==
    ASSUME NEW g, NEW k, NEW S, IsFiniteSet(S), \A x \in S : g[x] = k[x]
    PROVE  Total(g, S) = Total(k, S)
<1>. DEFINE Bad == {X \in SUBSET S : Total(g, X) # Total(k, X)}
<1>. SUFFICES ASSUME Bad # {} PROVE FALSE
  BY DEF Bad
<1>1. PICK X \in Bad : \A Y \in Bad : Y \subseteq X => Y = X
  <2>. Bad \subseteq SUBSET S
    OBVIOUS
  <2>. HIDE DEF Bad
  <2>. QED BY SmallestSet
<1>2. IsFiniteSet(X) /\ X \subseteq S
  BY FS_Subset
<1>3. PICK c : c = First(X)
  OBVIOUS
<1>4. X # {}
  BY TotalEmpty
<1>5. c \in X
  BY <1>3, <1>4 DEF First
<1>6. Total(g, X) = g[c] + Total(g, X \ {c}) /\ Total(k, X) = k[c] + Total(k, X \ {c})
  BY <1>2, <1>3, <1>4, TotalUnfold
<1>7. X \ {c} \notin Bad
  BY <1>1, <1>5
<1>. QED BY <1>2, <1>5, <1>6, <1>7

LEMMA TotalMonotonic ==
    ASSUME NEW g, NEW k, NEW S, IsFiniteSet(S),
           \A x \in S : g[x] \in Int /\ k[x] \in Int /\ g[x] <= k[x]
    PROVE  Total(g, S) <= Total(k, S)
<1>. DEFINE Bad == {X \in SUBSET S : ~(Total(g, X) <= Total(k, X))}
<1>. SUFFICES ASSUME Bad # {} PROVE FALSE
  BY DEF Bad
<1>1. PICK X \in Bad : \A Y \in Bad : Y \subseteq X => Y = X
  <2>. Bad \subseteq SUBSET S
    OBVIOUS
  <2>. HIDE DEF Bad
  <2>. QED BY SmallestSet
<1>2. IsFiniteSet(X) /\ X \subseteq S
  BY FS_Subset
<1>3. PICK c : c = First(X)
  OBVIOUS
<1>4. X # {}
  BY TotalEmpty
<1>5. c \in X
  BY <1>3, <1>4 DEF First
<1>6. Total(g, X) = g[c] + Total(g, X \ {c}) /\ Total(k, X) = k[c] + Total(k, X \ {c})
  BY <1>2, <1>3, <1>4, TotalUnfold
<1>7. Total(g, X \ {c}) <= Total(k, X \ {c})
  BY <1>1, <1>5
<1>8. Total(g, X \ {c}) \in Int /\ Total(k, X \ {c}) \in Int
  <2>1. IsFiniteSet(X \ {c})
    BY <1>2, FS_RemoveElement
  <2>. QED BY <1>2, <2>1, TotalInt
<1>9. g[c] \in Int /\ k[c] \in Int /\ g[c] <= k[c]
  BY <1>2, <1>5
<1>10. Total(g, X) <= Total(k, X)
  <2>. HIDE DEF Bad
  <2>. QED BY <1>6, <1>7, <1>8, <1>9
<1>. QED BY <1>1, <1>10

LEMMA TotalZero ==
    ASSUME NEW g, NEW S, IsFiniteSet(S), \A x \in S : g[x] = 0
    PROVE  Total(g, S) = 0
<1>. DEFINE Bad == {X \in SUBSET S : Total(g, X) # 0}
<1>. SUFFICES ASSUME Bad # {} PROVE FALSE
  OBVIOUS
<1>1. PICK X \in Bad : \A Y \in Bad : Y \subseteq X => Y = X
  <2>. Bad \subseteq SUBSET S
    OBVIOUS
  <2>. HIDE DEF Bad
  <2>. QED BY SmallestSet
<1>2. IsFiniteSet(X) /\ X \subseteq S
  BY FS_Subset
<1>3. PICK c : c = First(X)
  OBVIOUS
<1>4. X # {}
  BY TotalEmpty
<1>5. c \in X
  BY <1>3, <1>4 DEF First
<1>6. Total(g, X) = g[c] + Total(g, X \ {c})
  BY <1>2, <1>3, <1>4, TotalUnfold
<1>7. X \ {c} \notin Bad /\ g[c] = 0
  BY <1>1, <1>2, <1>5
<1>. QED BY <1>2, <1>5, <1>6, <1>7

\* A change of one value changes the sum by as much.
LEMMA TotalChange ==
    ASSUME NEW g, NEW k, NEW S, IsFiniteSet(S), NEW e \in S, k[e] \in Int,
           \A x \in S : g[x] \in Int, \A x \in S \ {e} : k[x] = g[x]
    PROVE  Total(k, S) = Total(g, S) + (k[e] - g[e]) /\ Total(g, S) \in Int
<1>. PICK R : R = S \ {e}
  OBVIOUS
<1>1. IsFiniteSet(R) /\ R \subseteq S
  BY FS_RemoveElement
<1>2. Total(g, R) = Total(k, R)
  BY <1>1, TotalSame
<1>3. Total(g, S) = g[e] + Total(g, R)
  BY TotalRemove
<1>4. \A x \in S : k[x] \in Int
  OBVIOUS
<1>5. Total(k, S) = k[e] + Total(k, R)
  BY <1>4, TotalRemove
<1>6. Total(g, R) \in Int
  BY <1>1, TotalInt
<1>. QED BY <1>2, <1>3, <1>5, <1>6

LEMMA TotalSplit ==
    ASSUME NEW g, NEW S, IsFiniteSet(S), \A x \in S : g[x] \in Int, NEW T, T \subseteq S
    PROVE  Total(g, S) = Total(g, T) + Total(g, S \ T)
<1>. DEFINE Bad == {X \in SUBSET T : Total(g, X \cup (S \ T)) # Total(g, X) + Total(g, S \ T)}
<1>0. IsFiniteSet(T) /\ IsFiniteSet(S \ T)
  BY FS_Subset
<1>. SUFFICES ASSUME Bad # {} PROVE FALSE
  <2>1. T \cup (S \ T) = S
    OBVIOUS
  <2>. QED BY <2>1
<1>1. PICK X \in Bad : \A Y \in Bad : Y \subseteq X => Y = X
  <2>. Bad \subseteq SUBSET T
    OBVIOUS
  <2>. HIDE DEF Bad
  <2>. QED BY <1>0, SmallestSet
<1>2. IsFiniteSet(X) /\ X \subseteq S /\ IsFiniteSet(X \cup (S \ T)) /\ X \cup (S \ T) \subseteq S
  BY FS_Subset
<1>3. PICK c : c = First(X)
  OBVIOUS
<1>4. Total(g, S \ T) \in Int
  BY <1>0, TotalInt
<1>5. X # {}
  <2>. SUFFICES ASSUME X = {} PROVE FALSE
    OBVIOUS
  <2>1. X \cup (S \ T) = S \ T /\ Total(g, X) = 0
    BY TotalEmpty
  <2>. QED BY <1>4, <2>1
<1>6. c \in X /\ c \in X \cup (S \ T)
  BY <1>3, <1>5 DEF First
<1>7. Total(g, X) = g[c] + Total(g, X \ {c})
  BY <1>2, <1>6, TotalRemove
<1>8. Total(g, X \cup (S \ T)) = g[c] + Total(g, (X \cup (S \ T)) \ {c})
  BY <1>2, <1>6, TotalRemove
<1>9. (X \cup (S \ T)) \ {c} = (X \ {c}) \cup (S \ T)
  BY <1>6
<1>10. X \ {c} \notin Bad /\ X \ {c} \subseteq T
  BY <1>1, <1>6
<1>11. Total(g, X \ {c}) \in Int /\ g[c] \in Int
  <2>1. IsFiniteSet(X \ {c})
    BY <1>2, FS_RemoveElement
  <2>. QED BY <1>2, <1>6, <2>1, TotalInt
<1>12. Total(g, (X \ {c}) \cup (S \ T)) = Total(g, X \ {c}) + Total(g, S \ T)
  BY <1>10
<1>13. Total(g, X \cup (S \ T)) # Total(g, X) + Total(g, S \ T)
  OBVIOUS
<1>. HIDE DEF Bad
<1>14. ASSUME NEW m, NEW n, NEW p, NEW q \in Int, NEW r \in Int, NEW v \in Int,
              m = v + p, n = v + q, p = q + r
       PROVE  m = n + r
  BY <1>14
<1>15. Total(g, X \cup (S \ T)) = g[c] + Total(g, (X \ {c}) \cup (S \ T))
  BY <1>8, <1>9
<1>. QED BY <1>4, <1>7, <1>11, <1>12, <1>13, <1>14, <1>15

\* Zeros do not count.
LEMMA TotalPart ==
    ASSUME NEW g, NEW k, NEW S, IsFiniteSet(S), NEW T, T \subseteq S,
           \A x \in T : g[x] \in Int /\ k[x] = g[x], \A x \in S \ T : k[x] = 0
    PROVE  Total(k, S) = Total(g, T)
<1>1. IsFiniteSet(T) /\ IsFiniteSet(S \ T)
  BY FS_Subset
<1>2. \A x \in S : k[x] \in Int
  OBVIOUS
<1>3. Total(k, S) = Total(k, T) + Total(k, S \ T)
  BY <1>2, TotalSplit
<1>4. Total(k, S \ T) = 0
  BY <1>1, TotalZero
<1>5. Total(k, T) = Total(g, T)
  BY <1>1, TotalSame
<1>6. Total(g, T) \in Int
  BY <1>1, TotalInt
<1>. QED BY <1>3, <1>4, <1>5, <1>6

\* Values rounded to multiples of B by at most c: so are their sums, by at most c for each.
LEMMA TotalRounds ==
    ASSUME NEW g, NEW k, NEW S, IsFiniteSet(S), NEW B \in Nat, NEW c \in Nat,
           \A x \in S : g[x] \in Int /\ k[x] \in Int /\ g[x] - c <= B * k[x] /\ B * k[x] <= g[x]
    PROVE  /\ Total(g, S) - Cardinality(S) * c <= B * Total(k, S)
           /\ B * Total(k, S) <= Total(g, S)
<1>. DEFINE Fine(X) == /\ Total(g, X) - Cardinality(X) * c <= B * Total(k, X)
                       /\ B * Total(k, X) <= Total(g, X)
            Bad == {X \in SUBSET S : ~Fine(X)}
<1>. SUFFICES ASSUME Bad # {} PROVE FALSE
  OBVIOUS
<1>1. PICK X \in Bad : \A Y \in Bad : Y \subseteq X => Y = X
  <2>. Bad \subseteq SUBSET S
    OBVIOUS
  <2>. HIDE DEF Bad
  <2>. QED BY SmallestSet
<1>2. IsFiniteSet(X) /\ X \subseteq S
  BY FS_Subset
<1>4. X # {}
  <2>. SUFFICES ASSUME X = {} PROVE FALSE
    OBVIOUS
  <2>1. Total(g, X) = 0 /\ Total(k, X) = 0 /\ Cardinality(X) = 0
    BY TotalEmpty, FS_EmptySet
  <2>2. B * 0 = 0 /\ 0 * c = 0
    OBVIOUS
  <2>3. Fine(X)
    BY <2>1, <2>2
  <2>. QED BY <2>3
<1>5. PICK e \in X : TRUE
  BY <1>4
<1>. PICK R : R = X \ {e}
  OBVIOUS
<1>6. Total(g, X) = g[e] + Total(g, R) /\ Total(k, X) = k[e] + Total(k, R)
  BY <1>2, <1>5, TotalRemove
<1>7. Fine(R)
  BY <1>1, <1>5
<1>8. IsFiniteSet(R) /\ Cardinality(R) = Cardinality(X) - 1 /\ Cardinality(R) \in Nat /\ R \subseteq S
  BY <1>2, <1>5, FS_RemoveElement, FS_CardinalityType
<1>9. Total(g, R) \in Int /\ Total(k, R) \in Int
  BY <1>8, TotalInt
<1>10. g[e] \in Int /\ k[e] \in Int /\ g[e] - c <= B * k[e] /\ B * k[e] <= g[e]
  BY <1>2, <1>5
<1>11. B * Total(k, X) = B * k[e] + B * Total(k, R)
  BY <1>6, <1>9, <1>10
<1>12. Cardinality(X) \in Nat /\ Cardinality(X) * c = Cardinality(R) * c + c
  <2>1. Cardinality(X) = Cardinality(R) + 1 /\ Cardinality(X) \in Nat
    BY <1>2, <1>8, FS_CardinalityType
  <2>. QED BY <1>8, <2>1
<1>13. B * k[e] \in Int /\ B * Total(k, R) \in Int /\ Cardinality(R) * c \in Int
  BY <1>8, <1>9, <1>10
<1>14. Total(g, R) - Cardinality(R) * c <= B * Total(k, R) /\ B * Total(k, R) <= Total(g, R)
  BY <1>7
<1>15. Fine(X)
  <2>. HIDE DEF Bad
  <2>. PICK p, q, r, s : p = B * k[e] /\ q = B * Total(k, R) /\ r = Cardinality(R) * c /\ s = Total(g, R)
    OBVIOUS
  <2>1. s - r <= q /\ q <= s /\ p \in Int /\ q \in Int /\ r \in Int /\ s \in Int
    BY <1>9, <1>13, <1>14
  <2>2. Total(g, X) = g[e] + s /\ B * Total(k, X) = p + q /\ Cardinality(X) * c = r + c
    BY <1>6, <1>11, <1>12
  <2>3. g[e] - c <= p /\ p <= g[e]
    BY <1>10
  <2>4. (g[e] + s) - (r + c) <= p + q /\ p + q <= g[e] + s
    BY <1>10, <2>1, <2>3
  <2>. QED BY <2>2, <2>4
<1>. QED BY <1>15
-----------------------------------------------------------------------------
(* Remainders *)

LEMMA DivMod ==
    ASSUME NEW W \in Nat \ {0}, NEW a \in Int
    PROVE  a = W * (a \div W) + (a % W) /\ a % W \in 0 .. W - 1 /\ a \div W \in Int
OBVIOUS

LEMMA Multiple ==
    ASSUME NEW W \in Nat \ {0}, NEW r \in 0 .. W - 1, NEW s \in 0 .. W - 1, NEW k \in Int,
           r = s + W * k
    PROVE  r = s
<1>1. CASE k >= 1
  <2>1. W * k >= W
    BY <1>1
  <2>. QED BY <2>1
<1>2. CASE k <= -1
  <2>1. W * k <= -W
    BY <1>2
  <2>. QED BY <2>1
<1>3. CASE k = 0
  BY <1>3
<1>. QED BY <1>1, <1>2, <1>3

LEMMA ModShift ==
    ASSUME NEW W \in Nat \ {0}, NEW a \in Int, NEW k \in Int
    PROVE  (a + W * k) % W = a % W
<1>. PICK b : b = a + W * k
  OBVIOUS
<1>. PICK q : q = b \div W
  OBVIOUS
<1>. PICK p : p = a \div W
  OBVIOUS
<1>1. b \in Int /\ W * k \in Int
  OBVIOUS
<1>2. b = W * q + (b % W) /\ b % W \in 0 .. W - 1 /\ q \in Int
  BY <1>1, DivMod
<1>3. a = W * p + (a % W) /\ a % W \in 0 .. W - 1 /\ p \in Int
  BY DivMod
<1>4. W * (p + k - q) = W * p + W * k - W * q
  BY <1>2, <1>3
<1>5. b % W = (a % W) + W * (p + k - q)
  <2>1. W * p \in Int /\ W * q \in Int /\ b % W \in Int /\ a % W \in Int
    BY <1>2, <1>3
  <2>. QED BY <1>1, <1>2, <1>3, <1>4, <2>1
<1>. PICK j : j = p + k - q
  OBVIOUS
<1>6. j \in Int
  BY <1>2, <1>3
<1>7. b % W = (a % W) + W * j
  BY <1>5
<1>8. b % W = a % W
  BY <1>2, <1>3, <1>6, <1>7, Multiple
<1>. QED BY <1>8

\* What is added to a remainder is added to the number.
LEMMA ModMod ==
    ASSUME NEW W \in Nat \ {0}, NEW a \in Int, NEW d \in Int
    PROVE  ((a % W) + d) % W = (a + d) % W
<1>. PICK q : q = a \div W
  OBVIOUS
<1>1. a = W * q + (a % W) /\ a % W \in Int /\ q \in Int
  BY DivMod
<1>. PICK e : e = (a % W) + d
  OBVIOUS
<1>2. a + d = e + W * q /\ e \in Int
  <2>1. W * q \in Int
    BY <1>1
  <2>. QED BY <1>1, <2>1
<1>3. (e + W * q) % W = e % W
  BY <1>1, <1>2, ModShift
<1>. QED BY <1>2, <1>3

LEMMA ModAdd ==
    ASSUME NEW W \in Nat \ {0}, NEW a \in Int, NEW b \in Int, NEW d \in Int, a % W = b % W
    PROVE  (a + d) % W = (b + d) % W
<1>1. (a + d) % W = ((a % W) + d) % W
  BY ModMod
<1>2. (b + d) % W = ((b % W) + d) % W
  BY ModMod
<1>. QED BY <1>1, <1>2
=============================================================================
