--------------------------- MODULE StockRowProofs ---------------------------
(* What the statements on a stock row preserve, for every row and quantity, *)
(* and what sums of units are.                                              *)
EXTENDS StockRow, Functions, FiniteSetTheorems, TLAPS

(***************************************************************************)
(* The repository's statements, each under its WHERE clause, yield a row   *)
(* of the right type, keep the product, keep reserved within total, and    *)
(* never add to the total.                                                 *)
(***************************************************************************)
GoodRow(r) == r \in Row /\ r.reserved <= r.total

Follows(r, s) == GoodRow(s) /\ s.exists = r.exists /\ s.total <= r.total

\* ReserveStock under its WHERE clause leaves a well-formed row.
LEMMA ReserveGood ==
    ASSUME NEW r, GoodRow(r), NEW q \in Int, CanReserve(r, q)
    PROVE  Follows(r, ReserveStock(r, q))
<1> DEFINE s == ReserveStock(r, q)
<1>1. r.reserved \in Nat /\ r.total \in Nat /\ r.exists \in BOOLEAN /\ r.active \in BOOLEAN
  BY DEF GoodRow, Row
<1>2. s = [exists |-> r.exists, total |-> s.total, reserved |-> s.reserved, active |-> r.active]
  BY DEF GoodRow, Row, ReserveStock
<1>3. s.total = r.total /\ s.reserved = r.reserved + q
  BY DEF GoodRow, Row, ReserveStock
<1>4. s.total \in Nat /\ s.reserved \in Nat /\ s.reserved <= s.total /\ s.total <= r.total
  BY <1>1, <1>3 DEF GoodRow, CanReserve
<1>5. s \in Row
  BY <1>1, <1>2, <1>4 DEF Row
<1>6. QED
  BY <1>2, <1>4, <1>5 DEF GoodRow, Follows

\* ReleaseStock under its WHERE clause leaves a well-formed row.
LEMMA ReleaseGood ==
    ASSUME NEW r, GoodRow(r), NEW q \in Int, CanRelease(r, q)
    PROVE  Follows(r, ReleaseStock(r, q))
<1> DEFINE s == ReleaseStock(r, q)
<1>1. r.reserved \in Nat /\ r.total \in Nat /\ r.exists \in BOOLEAN /\ r.active \in BOOLEAN
  BY DEF GoodRow, Row
<1>2. s = [exists |-> r.exists, total |-> s.total, reserved |-> s.reserved, active |-> r.active]
  BY DEF GoodRow, Row, ReleaseStock
<1>3. s.total = r.total /\ s.reserved = r.reserved - q
  BY DEF GoodRow, Row, ReleaseStock
<1>4. s.total \in Nat /\ s.reserved \in Nat /\ s.reserved <= s.total /\ s.total <= r.total
  BY <1>1, <1>3 DEF GoodRow, CanRelease
<1>5. s \in Row
  BY <1>1, <1>2, <1>4 DEF Row
<1>6. QED
  BY <1>2, <1>4, <1>5 DEF GoodRow, Follows

\* ConfirmStock under its WHERE clause leaves a well-formed row.
LEMMA ConfirmGood ==
    ASSUME NEW r, GoodRow(r), NEW q \in Int, CanConfirm(r, q)
    PROVE  Follows(r, ConfirmStock(r, q))
<1> DEFINE t == ReleaseStock(r, q)
           s == ConfirmStock(r, q)
<1>1. CanRelease(r, q)
  BY DEF CanConfirm, CanRelease
<1>2. GoodRow(t) /\ t.exists = r.exists /\ t.total <= r.total
  BY <1>1, ReleaseGood DEF Follows
<1>3. t.total = r.total /\ t.reserved = r.reserved - q
  BY DEF GoodRow, Row, ReleaseStock
<1>4. s = [t EXCEPT !.total = t.total - q]
  BY DEF ConfirmStock
<1> HIDE DEF s, t
<1>5. s = [exists |-> t.exists, total |-> t.total - q, reserved |-> t.reserved, active |-> t.active]
  BY <1>2, <1>4 DEF GoodRow, Row
<1>6. t.reserved \in Nat /\ t.total \in Nat /\ t.exists \in BOOLEAN /\ t.active \in BOOLEAN
  BY <1>2 DEF GoodRow, Row
<1>7. r.reserved \in Nat /\ r.total \in Nat /\ r.reserved <= r.total
  BY DEF GoodRow, Row
<1>8. s.total \in Nat /\ s.reserved \in Nat /\ s.reserved <= s.total /\ s.total <= r.total
  BY <1>3, <1>5, <1>6, <1>7 DEF CanConfirm
<1>9. s \in Row
  BY <1>5, <1>6, <1>8 DEF Row
<1>10. QED
  BY <1>2, <1>5, <1>8, <1>9 DEF GoodRow, Follows, s

\* A stock event that its row allows leaves a well-formed row.
LEMMA ApplyGood ==
    ASSUME NEW r, GoodRow(r), NEW e, e.quantity \in Int, CanApply(r, e)
    PROVE  Follows(r, Apply(r, e))
<1>1. CASE e.kind = "release"
  BY <1>1, ReleaseGood DEF CanApply, Apply
<1>2. CASE e.kind # "release"
  BY <1>2, ConfirmGood DEF CanApply, Apply
<1>3. QED
  BY <1>1, <1>2

(***************************************************************************)
(* Sums over finite sets (SumFunctionOnSet of the community modules): what *)
(* a sum of units over order items does when one summand changes and when  *)
(* summands are added.                                                     *)
(***************************************************************************)
\* What the fold chooses next, and one round of it.
AnyOf(s) == CHOOSE x \in s : TRUE
SumBody(g, F, s) == IF s = {} THEN 0 ELSE F[AnyOf(s)] + g[s \ {AnyOf(s)}]
\* g holds the sum of F over each subset of S.
IsSum(g, F, S) == g = [s \in SUBSET S |-> SumBody(g, F, s)]

\* The choice is one of the set.
LEMMA AnyOfIn == ASSUME NEW s, s # {} PROVE AnyOf(s) \in s
  BY DEF AnyOf

\* The library's fold is such a function, if there is one.
LEMMA SumDef ==
    ASSUME NEW F, NEW S, NEW g, IsSum(g, F, S)
    PROVE  \E h : IsSum(h, F, S) /\ SumFunctionOnSet(F, S) = h[S]
<1> DEFINE it == CHOOSE h : h = [s \in SUBSET S |-> IF s = {} THEN 0
                                   ELSE F[CHOOSE x \in s : TRUE] + h[s \ {CHOOSE x \in s : TRUE}]]
<1>1. SumFunctionOnSet(F, S) = it[S]
  BY DEF SumFunctionOnSet, FoldFunctionOnSet, MapThenFoldSet
<1>2. IsSum(it, F, S)
  BY Zenon DEF IsSum, SumBody, AnyOf
<1>3. QED
  BY <1>1, <1>2, Zenon

\* Induction over a finite set, as the smallest counterexample.
LEMMA Smallest ==
    ASSUME NEW S, IsFiniteSet(S), NEW T, T \subseteq SUBSET S, T # {}
    PROVE  \E U \in T : \A V \in T : V \subseteq U => V = U
<1>1. IsWellFoundedOn(StrictSubsetOrdering(S), SUBSET S)
  BY FS_StrictSubsetOrderingWellFounded, FS_FiniteSubsetsOfFinite
<1>2. PICK U \in T : \A V \in T : ~ (<<V, U>> \in StrictSubsetOrdering(S))
  BY <1>1, WFMin
<1>3. \A V \in T : V \subseteq U => V = U
  BY <1>2 DEF StrictSubsetOrdering
<1>4. QED
  BY <1>3

\* One round.
LEMMA IsSumFacts ==
    ASSUME NEW F, NEW S, NEW g, IsSum(g, F, S), NEW s \in SUBSET S
    PROVE  /\ s = {} => g[s] = 0
           /\ s # {} => AnyOf(s) \in s /\ g[s] = F[AnyOf(s)] + g[s \ {AnyOf(s)}]
<1>1. g[s] = SumBody(g, F, s)
  BY Zenon DEF IsSum
<1>2. QED
  BY <1>1, AnyOfIn DEF SumBody

\* Two such functions agree where both are defined.
LEMMA SumUnique ==
    ASSUME NEW F, NEW S, NEW T, NEW g, NEW h, IsSum(g, F, S), IsSum(h, F, T),
           NEW s \in SUBSET S, s \in SUBSET T, IsFiniteSet(s)
    PROVE  g[s] = h[s]
<1> DEFINE Bad == {u \in SUBSET s : g[u] # h[u]}
<1>1. SUFFICES ASSUME Bad # {} PROVE FALSE
  OBVIOUS
<1>0. Bad \subseteq SUBSET s
  OBVIOUS
<1>2. PICK u \in Bad : \A v \in Bad : v \subseteq u => v = u
  <2> HIDE DEF Bad
  <2>1. QED
    BY <1>0, <1>1, Smallest
<1>3. u \in SUBSET S /\ u \in SUBSET T /\ u \in SUBSET s /\ g[u] # h[u]
  OBVIOUS
<1>4. u # {} /\ AnyOf(u) \in u
  <2>1. u = {} => g[u] = 0 /\ h[u] = 0
    BY <1>3, IsSumFacts
  <2>2. QED
    BY <1>3, <2>1, AnyOfIn
<1>5. u \ {AnyOf(u)} \in SUBSET s /\ u \ {AnyOf(u)} \subseteq u /\ u \ {AnyOf(u)} # u
  BY <1>3, <1>4
<1>6. g[u \ {AnyOf(u)}] = h[u \ {AnyOf(u)}]
  BY <1>2, <1>5
<1>7. g[u] = F[AnyOf(u)] + g[u \ {AnyOf(u)}] /\ h[u] = F[AnyOf(u)] + h[u \ {AnyOf(u)}]
  BY <1>3, <1>4, IsSumFacts
<1>8. QED
  BY <1>3, <1>6, <1>7

\* There is one.
LEMMA SumExists == ASSUME NEW F, NEW S, IsFiniteSet(S) PROVE \E g : IsSum(g, F, S)
<1> DEFINE Bad == {U \in SUBSET S : ~ \E g : IsSum(g, F, U)}
<1>1. SUFFICES ASSUME Bad # {} PROVE FALSE
  OBVIOUS
<1>0. Bad \subseteq SUBSET S
  OBVIOUS
<1>2. PICK U \in Bad : \A V \in Bad : V \subseteq U => V = U
  <2> HIDE DEF Bad
  <2>1. QED
    BY <1>0, <1>1, Smallest
<1>3. IsFiniteSet(U) /\ U \subseteq S
  BY FS_Subset
<1> DEFINE H(s) == CHOOSE g : IsSum(g, F, s)
           G(s) == H(s)[s]
           g == [s \in SUBSET U |-> IF s = {} THEN 0 ELSE F[AnyOf(s)] + G(s \ {AnyOf(s)})]
<1>4. ASSUME NEW s \in SUBSET U, s # U PROVE IsSum(H(s), F, s)
  <2>1. s \notin Bad /\ s \in SUBSET S
    BY <1>2, <1>3, <1>4
  <2>2. \E x : IsSum(x, F, s)
    BY <2>1
  <2>3. QED
    BY <2>2, Zenon
<1>5. ASSUME NEW s \in SUBSET U, s # U PROVE g[s] = G(s)
  <2> HIDE DEF H
  <2>1. g[s] = IF s = {} THEN 0 ELSE F[AnyOf(s)] + G(s \ {AnyOf(s)})
    OBVIOUS
  <2>2. CASE s = {}
    BY <1>4, <1>5, <2>1, <2>2, IsSumFacts
  <2>3. CASE s # {}
    <3>1. AnyOf(s) \in s /\ H(s)[s] = F[AnyOf(s)] + H(s)[s \ {AnyOf(s)}]
      <4>1. IsSum(H(s), F, s) /\ s \in SUBSET s
        BY <1>4, <1>5
      <4>2. QED
        BY <2>3, <4>1, IsSumFacts
    <3> DEFINE r == s \ {AnyOf(s)}
    <3>2. r \in SUBSET U /\ r # U /\ r \in SUBSET s /\ IsFiniteSet(r)
      BY <1>3, <3>1, FS_Subset
    <3>3. H(s)[r] = H(r)[r]
      <4>1. IsSum(H(s), F, s) /\ IsSum(H(r), F, r)
        BY <1>4, <1>5, <3>2
      <4>2. r \in SUBSET r
        OBVIOUS
      <4> HIDE DEF r
      <4>3. QED
        BY <3>2, <4>1, <4>2, SumUnique
    <3>4. QED
      BY <2>1, <2>3, <3>1, <3>3
  <2>4. QED
    BY <2>2, <2>3
<1>6. \A s \in SUBSET U : g[s] = SumBody(g, F, s)
  <2> HIDE DEF G
  <2> TAKE s \in SUBSET U
  <2>1. CASE s = {}
    BY <2>1 DEF SumBody
  <2>2. CASE s # {}
    <3>1. AnyOf(s) \in s
      BY <2>2, AnyOfIn
    <3>2. s \ {AnyOf(s)} \in SUBSET U /\ s \ {AnyOf(s)} # U
      BY <3>1
    <3>3. g[s \ {AnyOf(s)}] = G(s \ {AnyOf(s)})
      BY <1>5, <3>2, Zenon
    <3>4. g[s] = F[AnyOf(s)] + G(s \ {AnyOf(s)})
      BY <2>2
    <3> HIDE DEF g
    <3>5. QED
      BY <2>2, <3>3, <3>4 DEF SumBody
  <2>3. QED
    BY <2>1, <2>2
<1>7. IsSum(g, F, U)
  <2>1. g = [s \in SUBSET U |-> g[s]]
    OBVIOUS
  <2> HIDE DEF g
  <2>2. QED
    BY <1>6, <2>1, Zenon DEF IsSum
<1>8. QED
  BY <1>7, Zenon

\* So the fold is the sum.
LEMMA Summed ==
    ASSUME NEW F, NEW S, IsFiniteSet(S)
    PROVE  \E g : IsSum(g, F, S) /\ SumFunctionOnSet(F, S) = g[S]
  BY SumExists, SumDef

\* The sum of nothing is 0, any other sum has a summand.
LEMMA SumFirst ==
    ASSUME NEW F, NEW S, IsFiniteSet(S)
    PROVE  /\ S = {} => SumFunctionOnSet(F, S) = 0
           /\ S # {} => /\ AnyOf(S) \in S
                        /\ SumFunctionOnSet(F, S) = F[AnyOf(S)] + SumFunctionOnSet(F, S \ {AnyOf(S)})
<1>1. PICK g : IsSum(g, F, S) /\ SumFunctionOnSet(F, S) = g[S]
  BY Summed
<1>2. S \in SUBSET S
  OBVIOUS
<1>3. CASE S = {}
  BY <1>1, <1>2, <1>3, IsSumFacts
<1>4. CASE S # {}
  <2>1. AnyOf(S) \in S /\ g[S] = F[AnyOf(S)] + g[S \ {AnyOf(S)}]
    BY <1>1, <1>2, <1>4, IsSumFacts
  <2> DEFINE R == S \ {AnyOf(S)}
  <2>2. R \in SUBSET S /\ R \in SUBSET R /\ IsFiniteSet(R)
    BY FS_Subset
  <2> HIDE DEF R
  <2>3. PICK h : IsSum(h, F, R) /\ SumFunctionOnSet(F, R) = h[R]
    BY <2>2, Summed
  <2>4. g[R] = h[R]
    BY <1>1, <2>2, <2>3, SumUnique
  <2>5. QED
    BY <1>1, <1>4, <2>1, <2>3, <2>4 DEF R
<1>5. QED
  BY <1>3, <1>4

\* A sum of integers is one.
LEMMA SumInt ==
    ASSUME NEW F, NEW S, IsFiniteSet(S), \A x \in S : F[x] \in Int
    PROVE  SumFunctionOnSet(F, S) \in Int
<1> DEFINE Bad == {u \in SUBSET S : SumFunctionOnSet(F, u) \notin Int}
<1>1. SUFFICES ASSUME Bad # {} PROVE FALSE
  OBVIOUS
<1>2. Bad \subseteq SUBSET S
  OBVIOUS
<1>3. PICK u \in Bad : \A v \in Bad : v \subseteq u => v = u
  <2> HIDE DEF Bad
  <2>1. QED
    BY <1>1, <1>2, Smallest
<1>4. u \in SUBSET S /\ IsFiniteSet(u) /\ SumFunctionOnSet(F, u) \notin Int
  BY FS_Subset
<1>5. u # {}
  <2>1. u = {} => SumFunctionOnSet(F, u) = 0
    BY <1>4, SumFirst
  <2>2. QED
    BY <1>4, <2>1
<1>6. AnyOf(u) \in u /\ SumFunctionOnSet(F, u) = F[AnyOf(u)] + SumFunctionOnSet(F, u \ {AnyOf(u)})
  BY <1>4, <1>5, SumFirst
<1>7. SumFunctionOnSet(F, u \ {AnyOf(u)}) \in Int
  BY <1>3, <1>4, <1>6
<1>8. QED
  BY <1>4, <1>6, <1>7

\* A sum depends on the summands only.
LEMMA SumSame ==
    ASSUME NEW F, NEW G, NEW S, IsFiniteSet(S), \A x \in S : F[x] = G[x]
    PROVE  SumFunctionOnSet(F, S) = SumFunctionOnSet(G, S)
<1> DEFINE Bad == {u \in SUBSET S : SumFunctionOnSet(F, u) # SumFunctionOnSet(G, u)}
<1>1. SUFFICES ASSUME Bad # {} PROVE FALSE
  OBVIOUS
<1>2. Bad \subseteq SUBSET S
  OBVIOUS
<1>3. PICK u \in Bad : \A v \in Bad : v \subseteq u => v = u
  <2> HIDE DEF Bad
  <2>1. QED
    BY <1>1, <1>2, Smallest
<1>4. u \in SUBSET S /\ IsFiniteSet(u) /\ SumFunctionOnSet(F, u) # SumFunctionOnSet(G, u)
  BY FS_Subset
<1>5. u # {}
  <2>1. u = {} => SumFunctionOnSet(F, u) = 0 /\ SumFunctionOnSet(G, u) = 0
    BY <1>4, SumFirst
  <2>2. QED
    BY <1>4, <2>1
<1>6. /\ AnyOf(u) \in u
      /\ SumFunctionOnSet(F, u) = F[AnyOf(u)] + SumFunctionOnSet(F, u \ {AnyOf(u)})
      /\ SumFunctionOnSet(G, u) = G[AnyOf(u)] + SumFunctionOnSet(G, u \ {AnyOf(u)})
  BY <1>4, <1>5, SumFirst
<1>7. SumFunctionOnSet(F, u \ {AnyOf(u)}) = SumFunctionOnSet(G, u \ {AnyOf(u)})
  BY <1>3, <1>4, <1>6
<1>8. QED
  BY <1>4, <1>6, <1>7

\* Any summand can be taken out.
LEMMA SumRemove ==
    ASSUME NEW F, NEW S, IsFiniteSet(S), \A x \in S : F[x] \in Int, NEW y \in S
    PROVE  SumFunctionOnSet(F, S) = F[y] + SumFunctionOnSet(F, S \ {y})
<1> DEFINE Fails(u, x) == SumFunctionOnSet(F, u) # F[x] + SumFunctionOnSet(F, u \ {x})
           Bad == {u \in SUBSET S : \E x \in u : Fails(u, x)}
<1>1. SUFFICES ASSUME Bad # {} PROVE FALSE
  OBVIOUS
<1>2. Bad \subseteq SUBSET S
  OBVIOUS
<1>3. PICK u \in Bad : \A v \in Bad : v \subseteq u => v = u
  <2> HIDE DEF Bad
  <2>1. QED
    BY <1>1, <1>2, Smallest
<1>4. u \in SUBSET S /\ IsFiniteSet(u)
  BY FS_Subset
<1>5. PICK x \in u : Fails(u, x)
  OBVIOUS
<1> DEFINE c == AnyOf(u)
<1>6. c \in u /\ SumFunctionOnSet(F, u) = F[c] + SumFunctionOnSet(F, u \ {c})
  BY <1>4, SumFirst
<1> HIDE DEF c
<1>7. x # c
  BY <1>5, <1>6
<1>8. ASSUME NEW v \in SUBSET u, v # u, NEW z \in v PROVE ~Fails(v, z)
  BY <1>3, <1>4, <1>8
<1>9. SumFunctionOnSet(F, u \ {c}) = F[x] + SumFunctionOnSet(F, (u \ {c}) \ {x})
  BY <1>6, <1>7, <1>8
<1>10. SumFunctionOnSet(F, u \ {x}) = F[c] + SumFunctionOnSet(F, (u \ {x}) \ {c})
  BY <1>6, <1>7, <1>8
<1>11. (u \ {x}) \ {c} = (u \ {c}) \ {x}
  OBVIOUS
<1>12. F[c] \in Int /\ F[x] \in Int /\ SumFunctionOnSet(F, (u \ {c}) \ {x}) \in Int
  <2>1. (u \ {c}) \ {x} \in SUBSET S
    BY <1>4
  <2>2. IsFiniteSet((u \ {c}) \ {x}) /\ \A z \in (u \ {c}) \ {x} : F[z] \in Int
    BY <2>1, FS_Subset
  <2>3. QED
    BY <1>4, <1>6, <2>2, SumInt
<1>13. F[c] + SumFunctionOnSet(F, u \ {c}) = F[x] + SumFunctionOnSet(F, u \ {x})
  <2>1. PICK m \in Int : m = SumFunctionOnSet(F, (u \ {c}) \ {x})
    BY <1>12
  <2>2. SumFunctionOnSet(F, u \ {c}) = F[x] + m /\ SumFunctionOnSet(F, u \ {x}) = F[c] + m
    BY <1>9, <1>10, <1>11, <2>1, Zenon
  <2>3. F[c] + (F[x] + m) = F[x] + (F[c] + m)
    BY <1>12
  <2>4. QED
    BY <2>2, <2>3, Zenon
<1>14. QED
  BY <1>5, <1>6, <1>13, Zenon

\* One summand changes.
LEMMA SumChange ==
    ASSUME NEW F, NEW G, NEW S, IsFiniteSet(S), \A x \in S : F[x] \in Int /\ G[x] \in Int,
           NEW y \in S, \A x \in S : x # y => G[x] = F[x]
    PROVE  SumFunctionOnSet(G, S) = SumFunctionOnSet(F, S) + (G[y] - F[y])
<1> DEFINE R == S \ {y}
<1>1. IsFiniteSet(R) /\ \A x \in R : F[x] \in Int /\ G[x] = F[x]
  BY FS_Subset
<1>2. /\ SumFunctionOnSet(F, S) = F[y] + SumFunctionOnSet(F, R)
      /\ SumFunctionOnSet(G, S) = G[y] + SumFunctionOnSet(G, R)
  BY SumRemove
<1> HIDE DEF R
<1>3. SumFunctionOnSet(F, R) \in Int /\ SumFunctionOnSet(G, R) = SumFunctionOnSet(F, R)
  BY <1>1, SumInt, SumSame
<1>4. QED
  BY <1>2, <1>3

\* Zeros do not count.
LEMMA SumZeros ==
    ASSUME NEW F, NEW S, NEW T, IsFiniteSet(T), S \subseteq T, \A x \in T : F[x] \in Int,
           \A x \in T \ S : F[x] = 0
    PROVE  SumFunctionOnSet(F, T) = SumFunctionOnSet(F, S)
<1> DEFINE Bad == {u \in SUBSET T : S \subseteq u /\ SumFunctionOnSet(F, u) # SumFunctionOnSet(F, S)}
<1>1. SUFFICES ASSUME Bad # {} PROVE FALSE
  OBVIOUS
<1>2. Bad \subseteq SUBSET T
  OBVIOUS
<1>3. PICK u \in Bad : \A v \in Bad : v \subseteq u => v = u
  <2> HIDE DEF Bad
  <2>1. QED
    BY <1>1, <1>2, Smallest
<1>4. u \in SUBSET T /\ S \subseteq u /\ IsFiniteSet(u) /\ SumFunctionOnSet(F, u) # SumFunctionOnSet(F, S)
  BY FS_Subset
<1>5. PICK y \in u : y \notin S
  BY <1>4
<1> DEFINE v == u \ {y}
<1>6. IsFiniteSet(v) /\ \A x \in v : F[x] \in Int
  BY <1>4, FS_Subset
<1>7. SumFunctionOnSet(F, u) = F[y] + SumFunctionOnSet(F, v)
  BY <1>4, SumRemove
<1>8. SumFunctionOnSet(F, v) = SumFunctionOnSet(F, S)
  BY <1>3, <1>4, <1>5
<1> HIDE DEF v
<1>9. SumFunctionOnSet(F, v) \in Int /\ F[y] = 0
  BY <1>4, <1>5, <1>6, SumInt
<1>10. QED
  BY <1>4, <1>7, <1>8, <1>9
=============================================================================
