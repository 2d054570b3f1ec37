------------------------ MODULE RequestLimitsProofs ------------------------
(***************************************************************************)
(* Proofs about RequestLimits, for any requests, prices as in the table,   *)
(* limits and months.                                                      *)
(*                                                                         *)
(* The properties speak of sums over sets of requests.  The first part     *)
(* shows what the fold of the community modules computes: the sums exist,  *)
(* and an element can be taken out of a sum in any order.                  *)
(***************************************************************************)
EXTENDS RequestLimits, FiniteSetTheorems, WellFoundedInduction, TLAPS

\* Most leaves are first-order reasoning about sets and functions and go to
\* Zenon; those with numbers cite SMT.
USE ZenonT(30)

-----------------------------------------------------------------------------
(* Sums. *)

\* The element that a fold takes next.
Pick(s) == CHOOSE x \in s : TRUE

\* g has the sums of c over the sets in D.
IsSum(g, c, D) ==
    g = [s \in D |-> IF s = {} THEN 0 ELSE c[Pick(s)] + g[s \ {Pick(s)}]]

Numbers(c, S) == \A x \in S : c[x] \in Int

\* An element can be taken out of every sum.
AddsUp(g, c, S) ==
    \A s \in SUBSET S : g[s] \in Int /\ \A x \in s : g[s] = c[x] + g[s \ {x}]

Same(c, d, S) == \A x \in S : c[x] = d[x]

\* A set of numbers that is not empty has a least one.
LEMMA LeastNumber ==
    ASSUME NEW N \in SUBSET Nat, N # {}
    PROVE  \E n \in N : \A m \in N : n <= m
<1>. DEFINE Less == {ss \in Nat \X Nat : ss[1] < ss[2]}
<1>1. IsWellFoundedOn(Less, Nat)
  BY NatLessThanWellFounded DEF OpToRel
<1>. HIDE DEF Less
<1>2. PICK n \in N : \A m \in N : ~(<<m, n>> \in Less)
  BY <1>1, WFMin
<1>3. \A m \in N : ~(m < n)
  BY <1>2 DEF Less
<1>. QED
  BY <1>3, SMT

\* Induction over the subsets of a finite set, with a set for the predicate.
LEMMA SubsetInduction ==
    ASSUME NEW S, IsFiniteSet(S), NEW Good,
           \A s \in SUBSET S : (\A x \in s : s \ {x} \in Good) => s \in Good
    PROVE  SUBSET S \subseteq Good
<1>. SUFFICES ASSUME (SUBSET S) \ Good # {} PROVE FALSE
  OBVIOUS
<1>. DEFINE Sizes == {Cardinality(s) : s \in (SUBSET S) \ Good}
<1>1. \A s \in SUBSET S : IsFiniteSet(s) /\ Cardinality(s) \in Nat
  BY FS_Subset, FS_CardinalityType
<1>2. Sizes \in SUBSET Nat /\ Sizes # {}
  BY <1>1, SMT
<1>3. PICK n \in Sizes : \A m \in Sizes : n <= m
  BY <1>2, LeastNumber
<1>4. PICK s \in (SUBSET S) \ Good : Cardinality(s) = n
  BY <1>3
<1>5. PICK x \in s : s \ {x} \notin Good
  <2>1. s \in SUBSET S /\ s \notin Good
    BY <1>4
  <2>. QED
    BY <2>1
<1>6. Cardinality(s \ {x}) = n - 1 /\ n \in Nat
  BY <1>1, <1>4, FS_RemoveElement
<1>7. s \ {x} \in (SUBSET S) \ Good
  BY <1>5
<1>8. n - 1 \in Sizes
  BY <1>6, <1>7
<1>. QED
  BY <1>3, <1>6, <1>8, SMT

\* The subsets of at most n elements.
Upto(S, n) == {s \in SUBSET S : Cardinality(s) <= n}

\* The sums exist: on the sets of at most n elements they determine those on
\* the sets with one more.
LEMMA SumsExist ==
    ASSUME NEW c, NEW S, IsFiniteSet(S)
    PROVE  \E g : IsSum(g, c, SUBSET S)
<1>. DEFINE Lacking == {n \in Nat : ~\E g : IsSum(g, c, Upto(S, n))}
<1>1. \A s \in SUBSET S : IsFiniteSet(s) /\ Cardinality(s) \in Nat
                          /\ Cardinality(s) <= Cardinality(S)
  BY FS_Subset, FS_CardinalityType
<1>2. \A s \in SUBSET S : s # {} => /\ Pick(s) \in s
                                    /\ Cardinality(s \ {Pick(s)}) = Cardinality(s) - 1
  <2>. SUFFICES ASSUME NEW s \in SUBSET S, s # {}
                PROVE  Pick(s) \in s /\ Cardinality(s \ {Pick(s)}) = Cardinality(s) - 1
    OBVIOUS
  <2>1. Pick(s) \in s
    BY DEF Pick
  <2>. QED
    BY <2>1, <1>1, FS_RemoveElement
<1>3. Lacking = {}
  <2>. SUFFICES ASSUME Lacking # {} PROVE FALSE
    OBVIOUS
  <2>1. PICK n \in Lacking : \A m \in Lacking : n <= m
    BY LeastNumber
  <2>2. n # 0
    <3>1. SUFFICES n = 0 => \E g : IsSum(g, c, Upto(S, 0))
      BY <2>1
    <3>2. ASSUME NEW s \in Upto(S, 0), s # {} PROVE FALSE
      <4>1. s \in SUBSET S /\ s \ {Pick(s)} \in SUBSET S /\ Cardinality(s) <= 0
        BY DEF Upto
      <4>2. /\ Cardinality(s) \in Nat /\ Cardinality(s \ {Pick(s)}) \in Nat
            /\ Cardinality(s \ {Pick(s)}) = Cardinality(s) - 1
        BY <1>1, <1>2, <3>2, <4>1
      <4>. QED
        BY <4>1, <4>2, SMT
    <3>3. IsSum([s \in Upto(S, 0) |-> 0], c, Upto(S, 0))
      BY <3>2 DEF IsSum
    <3>. QED
      BY <3>3
  <2>3. PICK g : IsSum(g, c, Upto(S, n - 1))
    BY <2>1, <2>2, SMT
  <2>. DEFINE h == [s \in Upto(S, n) |-> IF s = {} THEN 0 ELSE c[Pick(s)] + g[s \ {Pick(s)}]]
  <2>4. \A s \in Upto(S, n - 1) : s \in Upto(S, n) /\ h[s] = g[s]
    <3>1. \A s \in Upto(S, n - 1) : s \in Upto(S, n)
      BY <2>1, <1>1, SMT DEF Upto
    <3>2. \A s \in Upto(S, n - 1) :
             g[s] = IF s = {} THEN 0 ELSE c[Pick(s)] + g[s \ {Pick(s)}]
      BY <2>3 DEF IsSum
    <3>. QED
      BY <3>1, <3>2
  <2>5. \A s \in Upto(S, n) : s # {} => h[s \ {Pick(s)}] = g[s \ {Pick(s)}]
    <3>1. \A s \in Upto(S, n) : s # {} => s \ {Pick(s)} \in Upto(S, n - 1)
      BY <1>1, <1>2, <2>1, SMT DEF Upto
    <3>. QED
      BY <2>4, <3>1
  <2>6. IsSum(h, c, Upto(S, n))
    BY <2>5 DEF IsSum
  <2>. QED
    BY <2>1, <2>6
<1>4. Upto(S, Cardinality(S)) = SUBSET S
  BY <1>1 DEF Upto
<1>5. Cardinality(S) \in Nat
  BY FS_CardinalityType
<1>6. PICK g : IsSum(g, c, Upto(S, Cardinality(S)))
  BY <1>3, <1>5
<1>. QED
  BY <1>4, <1>6

\* What SumFunctionOnSet computes.
LEMMA SumIsOneOf ==
    ASSUME NEW c, NEW S, IsFiniteSet(S)
    PROVE  \E g : IsSum(g, c, SUBSET S) /\ SumFunctionOnSet(c, S) = g[S]
<1>. DEFINE G == CHOOSE g : IsSum(g, c, SUBSET S)
<1>1. IsSum(G, c, SUBSET S)
  BY SumsExist
<1>2. SumFunctionOnSet(c, S) = G[S]
  BY DEF SumFunctionOnSet, FoldFunctionOnSet, MapThenFoldSet, IsSum, Pick
<1>. QED
  BY <1>1, <1>2

\* A sum depends on the elements summed up only.
LEMMA SumsAgree ==
    ASSUME NEW c, NEW d, NEW S, IsFiniteSet(S), NEW T \in SUBSET S, NEW g, NEW h,
           Same(c, d, T), IsSum(g, c, SUBSET S), IsSum(h, d, SUBSET T)
    PROVE  \A s \in SUBSET T : g[s] = h[s]
<1>. DEFINE Good == {s \in SUBSET T : g[s] = h[s]}
<1>1. \A s \in SUBSET T : s # {} => Pick(s) \in s
  BY DEF Pick
<1>2. ASSUME NEW s \in SUBSET T, \A x \in s : s \ {x} \in Good PROVE s \in Good
  <2>1. CASE s = {}
    BY <2>1 DEF IsSum
  <2>2. CASE s # {}
    <3>1. g[s \ {Pick(s)}] = h[s \ {Pick(s)}]
      BY <1>1, <1>2, <2>2
    <3>2. g[s] = c[Pick(s)] + g[s \ {Pick(s)}] /\ h[s] = d[Pick(s)] + h[s \ {Pick(s)}]
      BY <2>2 DEF IsSum
    <3>. QED
      BY <1>1, <2>2, <3>1, <3>2 DEF Same
  <2>. QED
    BY <2>1, <2>2
<1>3. IsFiniteSet(T)
  BY FS_Subset
<1>. HIDE DEF Good
<1>4. SUBSET T \subseteq Good
  BY <1>2, <1>3, SubsetInduction
<1>. QED
  BY <1>4 DEF Good

\* It does not depend on the order.
LEMMA AnyOrder ==
    ASSUME NEW S, IsFiniteSet(S), NEW c, Numbers(c, S), NEW g,
           IsSum(g, c, SUBSET S)
    PROVE  AddsUp(g, c, S)
<1>0. \A s \in SUBSET S : g[s] \in Int
  <2>. DEFINE Whole == {s \in SUBSET S : g[s] \in Int}
  <2>1. ASSUME NEW s \in SUBSET S, \A x \in s : s \ {x} \in Whole PROVE s \in Whole
    <3>1. CASE s = {}
      BY <3>1, SMT DEF IsSum
    <3>2. CASE s # {}
      <4>1. PICK y \in s : y = Pick(s)
        BY <3>2 DEF Pick
      <4>2. c[y] \in Int /\ g[s \ {y}] \in Int
        BY <2>1 DEF Numbers
      <4>3. g[s] = c[y] + g[s \ {y}]
        BY <3>2, <4>1 DEF IsSum
      <4>. QED
        BY <4>2, <4>3, SMT
    <3>. QED
      BY <3>1, <3>2
  <2>. HIDE DEF Whole
  <2>2. SUBSET S \subseteq Whole
    BY <2>1, SubsetInduction
  <2>. QED
    BY <2>2 DEF Whole
<1>. DEFINE Good == {s \in SUBSET S : \A x \in s : g[s] = c[x] + g[s \ {x}]}
<1>1. ASSUME NEW s \in SUBSET S, \A x \in s : s \ {x} \in Good PROVE s \in Good
  <2>1. CASE s = {}
    BY <2>1 DEF IsSum
  <2>2. CASE s # {}
    <3>1. PICK y \in s : y = Pick(s)
      BY <2>2 DEF Pick
    <3>2. g[s] = c[y] + g[s \ {y}]
      BY <2>2, <3>1 DEF IsSum
    <3>3. ASSUME NEW x \in s, x # y PROVE g[s] = c[x] + g[s \ {x}]
      <4>1. g[s \ {y}] = c[x] + g[(s \ {y}) \ {x}]
        BY <1>1, <3>3
      <4>2. g[s \ {x}] = c[y] + g[(s \ {x}) \ {y}]
        BY <1>1, <3>3
      <4>3. (s \ {x}) \ {y} = (s \ {y}) \ {x}
        OBVIOUS
      <4>4. g[(s \ {y}) \ {x}] \in Int
        <5>1. (s \ {y}) \ {x} \in SUBSET S
          OBVIOUS
        <5>. QED
          BY <1>0, <5>1
      <4>5. c[x] \in Int /\ c[y] \in Int
        BY DEF Numbers
      <4>6. g[s] = c[y] + (c[x] + g[(s \ {y}) \ {x}])
        BY <3>2, <4>1
      <4>7. g[s \ {x}] = c[y] + g[(s \ {y}) \ {x}]
        BY <4>2, <4>3
      <4>. QED
        BY <4>4, <4>5, <4>6, <4>7, SMT
    <3>. QED
      BY <3>2, <3>3
  <2>. QED
    BY <2>1, <2>2
<1>. HIDE DEF Good
<1>2. SUBSET S \subseteq Good
  BY <1>1, SubsetInduction
<1>. QED
  BY <1>0, <1>2 DEF Good, AddsUp

\* A set with one more element.
LEMMA SumAdds ==
    ASSUME NEW c, NEW S, IsFiniteSet(S), NEW x, x \notin S, Numbers(c, S \cup {x})
    PROVE  /\ SumFunctionOnSet(c, S) \in Int
           /\ SumFunctionOnSet(c, S \cup {x}) = SumFunctionOnSet(c, S) + c[x]
<1>1. PICK T : T = S \cup {x}
  OBVIOUS
<1>2. IsFiniteSet(T)
  BY <1>1, FS_AddElement
<1>3. Numbers(c, T)
  BY <1>1
<1>4. Same(c, c, S)
  BY DEF Same
<1>5. S \in SUBSET T
  BY <1>1
<1>6. PICK g : IsSum(g, c, SUBSET T) /\ SumFunctionOnSet(c, T) = g[T]
  BY <1>2, SumIsOneOf
<1>7. IsSum(g, c, SUBSET T)
  BY <1>6
<1>8. PICK h : IsSum(h, c, SUBSET S) /\ SumFunctionOnSet(c, S) = h[S]
  BY SumIsOneOf
<1>9. IsSum(h, c, SUBSET S)
  BY <1>8
<1>10. \A s \in SUBSET S : g[s] = h[s]
  BY <1>2, <1>4, <1>5, <1>7, <1>9, SumsAgree, SMT
<1>11. AddsUp(g, c, T)
  BY <1>2, <1>3, <1>7, AnyOrder
<1>12. g[T] = c[x] + g[S] /\ g[S] \in Int
  <2>1. x \in T /\ T \ {x} = S
    BY <1>1
  <2>. QED
    BY <1>5, <1>11, <2>1 DEF AddsUp
<1>13. c[x] \in Int
  BY DEF Numbers
<1>14. g[S] = h[S]
  BY <1>10
<1>15. SumFunctionOnSet(c, T) = SumFunctionOnSet(c, S) + c[x]
  BY <1>6, <1>8, <1>12, <1>13, <1>14, SMT
<1>. QED
  BY <1>1, <1>8, <1>12, <1>14, <1>15

\* The same elements.
LEMMA SumSame ==
    ASSUME NEW c, NEW d, NEW S, IsFiniteSet(S), Same(c, d, S)
    PROVE  SumFunctionOnSet(c, S) = SumFunctionOnSet(d, S)
<1>1. PICK g : IsSum(g, c, SUBSET S) /\ SumFunctionOnSet(c, S) = g[S]
  BY SumIsOneOf
<1>2. PICK h : IsSum(h, d, SUBSET S) /\ SumFunctionOnSet(d, S) = h[S]
  BY SumIsOneOf
<1>3. g[S] = h[S]
  BY <1>1, <1>2, SumsAgree, SMT
<1>. QED
  BY <1>1, <1>2, <1>3

\* No elements.
LEMMA SumOfNone ==
    ASSUME NEW c
    PROVE  SumFunctionOnSet(c, {}) = 0
<1>1. PICK g : IsSum(g, c, SUBSET {}) /\ SumFunctionOnSet(c, {}) = g[{}]
  BY SumIsOneOf, FS_EmptySet
<1>. QED
  BY <1>1 DEF IsSum

\* One element replaced.
LEMMA SumReplaces ==
    ASSUME NEW S, IsFiniteSet(S), NEW x \in S, NEW c \in [S -> Int], NEW d \in [S -> Int],
           \A y \in S \ {x} : d[y] = c[y]
    PROVE  /\ SumFunctionOnSet(c, S) \in Int
           /\ SumFunctionOnSet(d, S) = SumFunctionOnSet(c, S) - c[x] + d[x]
<1>. DEFINE T == S \ {x}
<1>1. IsFiniteSet(T) /\ x \notin T /\ T \cup {x} = S
  BY FS_RemoveElement
<1>2. SumFunctionOnSet(c, T) = SumFunctionOnSet(d, T)
  BY <1>1, SumSame DEF Same
<1>3. Numbers(c, T \cup {x}) /\ Numbers(d, T \cup {x})
  BY DEF Numbers
<1>. HIDE DEF T
<1>4. /\ SumFunctionOnSet(c, T) \in Int
      /\ SumFunctionOnSet(c, T \cup {x}) = SumFunctionOnSet(c, T) + c[x]
  BY <1>1, <1>3, SumAdds
<1>5. SumFunctionOnSet(d, T \cup {x}) = SumFunctionOnSet(d, T) + d[x]
  BY <1>1, <1>3, SumAdds
<1>6. c[x] \in Int /\ d[x] \in Int
  OBVIOUS
<1>7. /\ SumFunctionOnSet(c, S) = SumFunctionOnSet(c, T) + c[x]
      /\ SumFunctionOnSet(d, S) = SumFunctionOnSet(c, T) + d[x]
  BY <1>1, <1>2, <1>4, <1>5
<1>. QED
  BY <1>4, <1>6, <1>7, SMT

-----------------------------------------------------------------------------
(* Prices. *)

\* startswith, element by element.
LEMMA PrefixMeans ==
    ASSUME NEW Parts, NEW p \in Seq(Parts), NEW m \in Seq(STRING)
    PROVE  IsPrefix(p, m) <=> Len(p) <= Len(m) /\ \A i \in 1..Len(p) : p[i] = m[i]
BY SMT DEF IsPrefix

\* The table, entry by entry.
LEMMA TableFacts ==
    /\ DOMAIN PriceTable = 1..5
    /\ PriceTable[1] = Entry(<<"gpt-", "4", "o", "-mini">>, 15, 60)
    /\ PriceTable[2] = Entry(<<"gpt-", "4", "o">>, 250, 1000)
    /\ PriceTable[3] = Entry(<<"gpt-", "4", "-turbo">>, 1000, 3000)
    /\ PriceTable[4] = Entry(<<"gpt-", "4">>, 3000, 6000)
    /\ PriceTable[5] = Entry(<<"gpt-", "3.5", "-turbo">>, 50, 150)
BY SMT DEF PriceTable

Hits(m) == {i \in DOMAIN PriceTable : IsPrefix(PriceTable[i].prefix, m)}

\* The first hit is there, and is a place of the table.
LEMMA FirstHit ==
    ASSUME NEW m, Hits(m) # {}
    PROVE  Min(Hits(m)) \in Hits(m) /\ \A i \in Hits(m) : Min(Hits(m)) <= i
<1>1. Hits(m) \in SUBSET Nat
  BY TableFacts, SMT DEF Hits
<1>2. \E n \in Hits(m) : \A i \in Hits(m) : n <= i
  BY <1>1, LeastNumber
<1>. QED
  BY <1>2 DEF Min

\* Of two entries that a name starts with the later one is the shorter one.
LEMMA LaterIsShorter ==
    ASSUME NEW m \in Seq(STRING), NEW i \in Hits(m), NEW j \in Hits(m), i < j
    PROVE  Len(PriceTable[j].prefix) < Len(PriceTable[i].prefix)
<1>. DEFINE Parts == {"gpt-", "4", "o", "-mini", "-turbo", "3.5"}
<1>1. i \in 1..5 /\ j \in 1..5
  BY TableFacts, SMT DEF Hits
<1>2. LET p == PriceTable[1].prefix
      IN  p \in Seq(Parts) /\ Len(p) = 4 /\ p[2] = "4" /\ p[3] = "o"
  BY TableFacts, SMT DEF Entry
<1>3. LET p == PriceTable[2].prefix
      IN  p \in Seq(Parts) /\ Len(p) = 3 /\ p[2] = "4" /\ p[3] = "o"
  BY TableFacts, SMT DEF Entry
<1>4. LET p == PriceTable[3].prefix
      IN  p \in Seq(Parts) /\ Len(p) = 3 /\ p[2] = "4" /\ p[3] = "-turbo"
  BY TableFacts, SMT DEF Entry
<1>5. LET p == PriceTable[4].prefix
      IN  p \in Seq(Parts) /\ Len(p) = 2 /\ p[2] = "4"
  BY TableFacts, SMT DEF Entry
<1>6. LET p == PriceTable[5].prefix
      IN  p \in Seq(Parts) /\ Len(p) = 3 /\ p[2] = "3.5"
  BY TableFacts, SMT DEF Entry
<1>7. ASSUME NEW k \in Hits(m)
      PROVE  /\ PriceTable[k].prefix[2] = m[2]
             /\ Len(PriceTable[k].prefix) >= 3 => PriceTable[k].prefix[3] = m[3]
  <2>1. k \in 1..5 /\ IsPrefix(PriceTable[k].prefix, m)
    BY TableFacts, SMT DEF Hits
  <2>2. k = 1 \/ k = 2 \/ k = 3 \/ k = 4 \/ k = 5
    BY <2>1, SMT
  <2>3. PriceTable[k].prefix \in Seq(Parts) /\ Len(PriceTable[k].prefix) \in {2, 3, 4}
    BY <2>2, <1>2, <1>3, <1>4, <1>5, <1>6
  <2>4. \A n \in 1..Len(PriceTable[k].prefix) : PriceTable[k].prefix[n] = m[n]
    BY <2>1, <2>3, PrefixMeans
  <2>. QED
    BY <2>3, <2>4, SMT
<1>8. CASE i = 1
  <2>1. j = 2 \/ j = 3 \/ j = 4 \/ j = 5
    BY <1>1, <1>8, SMT
  <2>2. Len(PriceTable[i].prefix) = 4
    BY <1>2, <1>8
  <2>3. Len(PriceTable[j].prefix) \in 2..3
    BY <2>1, <1>3, <1>4, <1>5, <1>6, SMT
  <2>4. \A n : n \in 2..3 => n < 4
    BY SMT
  <2>. QED
    BY <2>2, <2>3, <2>4
<1>9. CASE i = 2
  <2>1. j = 3 \/ j = 4 \/ j = 5
    BY <1>1, <1>9, SMT
  <2>2. j # 3
    BY <1>3, <1>4, <1>7, <1>9, SMT
  <2>3. j # 5
    BY <1>3, <1>6, <1>7, <1>9
  <2>4. j = 4
    BY <2>1, <2>2, <2>3
  <2>. QED
    BY <2>4, <1>3, <1>5, <1>9, SMT
<1>10. CASE i = 3
  <2>1. j = 4 \/ j = 5
    BY <1>1, <1>10, SMT
  <2>2. j # 5
    BY <1>4, <1>6, <1>7, <1>10
  <2>3. j = 4
    BY <2>1, <2>2
  <2>. QED
    BY <2>3, <1>4, <1>5, <1>10, SMT
<1>11. CASE i = 4
  <2>1. j = 5
    BY <1>1, <1>11, SMT
  <2>. QED
    BY <2>1, <1>5, <1>6, <1>7, <1>11
<1>. QED
  BY <1>1, <1>8, <1>9, <1>10, <1>11, SMT

\* So the first hit is the most specific one: the order of the table is right.
LEMMA TableIsOrdered ==
    ASSUME NEW m \in Seq(STRING), NEW provider, provider # "ollama"
    PROVE  /\ PriceFor(m, provider) = MostSpecificPrice(m)
           /\ PriceFor(m, provider).prompt > 0 /\ PriceFor(m, provider).completion > 0
<1>. DEFINE found == {e \in Range(PriceTable) : IsPrefix(e.prefix, m)}
<1>1. found = {PriceTable[i] : i \in Hits(m)}
  BY DEF Range, Hits
<1>2. CASE Hits(m) = {}
  <2>1. found = {}
    BY <1>1, <1>2
  <2>2. PriceFor(m, provider) = DefaultPrice /\ MostSpecificPrice(m) = DefaultPrice
    BY <1>2, <2>1 DEF PriceFor, MostSpecificPrice, Hits
  <2>. QED
    BY <2>2, SMT DEF DefaultPrice
<1>3. CASE Hits(m) # {}
  <2>1. PICK first \in Hits(m) : first = Min(Hits(m)) /\ \A i \in Hits(m) : first <= i
    BY <1>3, FirstHit
  <2>2. first \in 1..5 /\ \A i \in Hits(m) : i \in 1..5 /\ Len(PriceTable[i].prefix) \in Nat
    BY TableFacts, SMT DEF Hits, Entry
  <2>3. \A i \in Hits(m) : i # first => Len(PriceTable[i].prefix) < Len(PriceTable[first].prefix)
    BY <2>1, <2>2, LaterIsShorter, SMT
  <2>4. ASSUME NEW e \in found, \A f \in found : Len(f.prefix) <= Len(e.prefix)
        PROVE  e = PriceTable[first]
    <3>1. PICK i \in Hits(m) : e = PriceTable[i]
      BY <1>1
    <3>2. PriceTable[first] \in found
      BY <1>1
    <3>3. Len(PriceTable[first].prefix) <= Len(PriceTable[i].prefix)
      BY <2>4, <3>1, <3>2
    <3>. QED
      BY <2>2, <2>3, <3>1, <3>3, SMT
  <2>5. PriceTable[first] \in found
        /\ \A f \in found : Len(f.prefix) <= Len(PriceTable[first].prefix)
    BY <1>1, <2>2, <2>3, SMT
  <2>6. found # {} /\ PriceTable[first] =
           CHOOSE e \in found : \A f \in found : Len(f.prefix) <= Len(e.prefix)
    BY <2>4, <2>5
  <2>7. MostSpecificPrice(m) = PriceTable[first].price
    BY <2>6 DEF MostSpecificPrice
  <2>8. PriceFor(m, provider) = PriceTable[first].price
    BY <1>3, <2>1 DEF PriceFor, Hits
  <2>9. PriceTable[first].price.prompt > 0 /\ PriceTable[first].price.completion > 0
    BY <2>2, TableFacts, SMT DEF Entry
  <2>. QED
    BY <2>7, <2>8, <2>9
<1>. QED
  BY <1>2, <1>3

\* The prices in the table, the default and nothing.
Rates == {0, 15, 50, 60, 100, 150, 250, 300, 1000, 3000, 6000}

\* A model costs what an entry of the table says, the default or nothing, and
\* nowhere more than at openai.
LEMMA PriceTypes ==
    ASSUME NEW m, NEW provider
    PROVE  /\ PriceFor(m, provider).prompt \in Rates
           /\ PriceFor(m, provider).completion \in Rates
           /\ PriceFor(m, provider) \in {PriceFor(m, "openai"), OllamaPrice}
<1>. DEFINE OK(price) == price.prompt \in Rates /\ price.completion \in Rates
<1>1. OK(OllamaPrice) /\ OK(DefaultPrice)
  BY SMT DEF OllamaPrice, DefaultPrice, Rates
<1>2. \A i \in DOMAIN PriceTable : OK(PriceTable[i].price)
  BY TableFacts, SMT DEF Entry, Rates
<1>. HIDE DEF OK
<1>3. Hits(m) # {} => OK(PriceTable[Min(Hits(m))].price)
  <2>1. Hits(m) \subseteq DOMAIN PriceTable
    BY DEF Hits
  <2>. QED
    BY <1>2, <2>1, FirstHit
<1>4. OK(PriceFor(m, provider))
  BY <1>1, <1>3 DEF PriceFor, Hits
<1>5. PriceFor(m, provider) \in {PriceFor(m, "openai"), OllamaPrice}
  BY DEF PriceFor
<1>. QED
  BY <1>4, <1>5 DEF OK

\* A set of numbers with a bound that is not empty has a largest one.
LEMMA LargestNumber ==
    ASSUME NEW N \in SUBSET Nat, N # {}, NEW bound \in Nat, \A n \in N : n <= bound
    PROVE  Max(N) \in N /\ \A n \in N : n <= Max(N)
<1>. DEFINE Above == {u \in Nat : \A n \in N : n <= u}
<1>1. Above \in SUBSET Nat /\ Above # {}
  OBVIOUS
<1>2. PICK u \in Above : \A v \in Above : u <= v
  BY <1>1, LeastNumber
<1>3. u \in Nat /\ \A n \in N : n \in Nat /\ n <= u
  BY <1>2
<1>4. u \in N
  <2>1. SUFFICES ASSUME u \notin N PROVE FALSE
    OBVIOUS
  <2>2. u # 0
    <3>1. PICK n \in N : n \in Nat /\ n <= u
      BY <1>3
    <3>. QED
      BY <2>1, <3>1, SMT
  <2>3. u - 1 \in Above
    BY <1>3, <2>1, <2>2, SMT
  <2>. QED
    BY <1>2, <1>3, <2>3, SMT
<1>5. \E n \in N : \A k \in N : n >= k
  BY <1>3, <1>4
<1>6. Max(N) \in N /\ \A k \in N : Max(N) >= k
  BY <1>5 DEF Max
<1>. QED
  BY <1>6

\* What up to so many tokens cost at such rates is bounded, and Max is the bound.
LEMMA DearestCost ==
    ASSUME NEW Counts \in SUBSET Nat, IsFiniteSet(Counts), Counts # {},
           NEW rate \in [BilledModels -> Rates], NEW Costs,
           \A c : c \in Costs <=> \E n \in Counts, m \in BilledModels : c = n * rate[m]
    PROVE  /\ Max(Costs) \in Nat
           /\ \A n \in Counts, m \in BilledModels :
                 n * rate[m] \in Nat /\ n * rate[m] <= Max(Costs)
<1>. DEFINE Cost(n, m) == n * rate[m]
            Limited == {s \in SUBSET Counts : \E b \in Nat : \A n \in s : n <= b}
<1>1. PICK b \in Nat : \A n \in Counts : n <= b
  <2>1. ASSUME NEW s \in SUBSET Counts, \A x \in s : s \ {x} \in Limited
        PROVE  s \in Limited
    <3>1. CASE s = {}
      BY <3>1
    <3>2. CASE s # {}
      <4>1. PICK x \in s : x \in Nat
        BY <3>2
      <4>2. PICK b \in Nat : \A n \in s \ {x} : n <= b
        BY <2>1
      <4>3. \A n \in s : n \in Nat /\ n <= b + x
        BY <4>1, <4>2, SMT
      <4>4. b + x \in Nat
        BY <4>1, SMT
      <4>. QED
        BY <4>3, <4>4
    <3>. QED
      BY <3>1, <3>2
  <2>. HIDE DEF Limited
  <2>2. SUBSET Counts \subseteq Limited
    BY <2>1, SubsetInduction
  <2>3. Counts \in Limited
    BY <2>2
  <2>. QED
    BY <2>3 DEF Limited
<1>2. PICK bound \in Nat : bound = 6000 * b
  BY SMT
<1>3. ASSUME NEW n \in Counts, NEW m \in BilledModels
      PROVE  Cost(n, m) \in Nat /\ Cost(n, m) <= bound
  <2>1. PICK p \in Rates : p = rate[m]
    OBVIOUS
  <2>2. n \in Nat /\ n <= b
    BY <1>1, SMT
  <2>3. n * p \in Nat /\ n * p <= bound
    BY <1>2, <2>2, SMT DEF Rates
  <2>. QED
    BY <2>1, <2>3, SMT
<1>4. \A c : c \in Costs <=> \E n \in Counts, m \in BilledModels : c = Cost(n, m)
  OBVIOUS
<1>. HIDE DEF Cost
<1>5. Costs \in SUBSET Nat /\ \A k \in Costs : k <= bound
  <2>1. ASSUME NEW k \in Costs PROVE k \in Nat /\ k <= bound
    <3>1. PICK n \in Counts, m \in BilledModels : k = Cost(n, m)
      BY <1>4
    <3>. QED
      BY <1>3, <3>1
  <2>. QED
    BY <2>1
<1>6. Costs # {}
  <2>1. Counts # {} /\ BilledModels # {}
    BY LimitsAssumption DEF LimitsAssumption, BilledModels
  <2>2. PICK n \in Counts, m \in BilledModels : TRUE
    BY <2>1
  <2>3. Cost(n, m) \in Costs
    BY <1>4
  <2>. QED
    BY <2>3
<1>7. Max(Costs) \in Costs /\ \A k \in Costs : k <= Max(Costs)
  BY <1>5, <1>6, LargestNumber
<1>8. Max(Costs) \in Nat
  BY <1>5, <1>7
<1>9. ASSUME NEW n \in Counts, NEW m \in BilledModels
      PROVE  n * rate[m] \in Nat /\ n * rate[m] <= Max(Costs)
  <2>1. Cost(n, m) \in Nat /\ Cost(n, m) <= Max(Costs)
    BY <1>3, <1>4, <1>7
  <2>. QED
    BY <2>1 DEF Cost
<1>. QED
  BY <1>8, <1>9

\* The sizes of prompts, and that of a request that has none yet.
PromptCounts == PromptTokens \cup ReportedTokens \cup {0}

\* What a completion and a prompt cost, and the most they can cost.
LEMMA DearestCosts ==
    /\ CompletionCost \in Nat /\ PromptCost \in Nat
    /\ \A provider : \A n \in CompletionTokens, m \in BilledModels :
          LET cost == n * PriceFor(m, provider).completion
          IN  cost \in Nat /\ cost <= CompletionCost
    /\ \A provider : \A n \in PromptCounts, m \in BilledModels :
          LET cost == n * PriceFor(m, provider).prompt
          IN  cost \in Nat /\ cost <= PromptCost
<1>. DEFINE completion == [m \in BilledModels |-> PriceFor(m, "openai").completion]
            prompt == [m \in BilledModels |-> PriceFor(m, "openai").prompt]
<1>1. completion \in [BilledModels -> Rates] /\ prompt \in [BilledModels -> Rates]
  BY PriceTypes
<1>2. CompletionTokens \in SUBSET Nat /\ IsFiniteSet(CompletionTokens) /\ CompletionTokens # {}
  BY LimitsAssumption DEF LimitsAssumption
<1>3. PromptCounts \in SUBSET Nat /\ IsFiniteSet(PromptCounts) /\ PromptCounts # {}
  <2>1. IsFiniteSet(PromptTokens \cup ReportedTokens)
    BY LimitsAssumption, FS_Union DEF LimitsAssumption
  <2>2. IsFiniteSet(PromptCounts)
    BY <2>1, FS_AddElement DEF PromptCounts
  <2>3. PromptCounts \in SUBSET Nat
    BY LimitsAssumption, SMT DEF LimitsAssumption, PromptCounts
  <2>. QED
    BY <2>2, <2>3 DEF PromptCounts
<1>4. \A c : c \in CompletionCosts <=>
              \E n \in CompletionTokens, m \in BilledModels : c = n * completion[m]
  BY SMT DEF CompletionCosts
<1>5. \A c : c \in PromptCosts <=>
              \E n \in PromptCounts, m \in BilledModels : c = n * prompt[m]
  BY SMT DEF PromptCosts, PromptCounts
<1>. HIDE DEF completion, prompt
<1>6. /\ CompletionCost \in Nat
      /\ \A n \in CompletionTokens, m \in BilledModels :
            n * completion[m] \in Nat /\ n * completion[m] <= CompletionCost
  BY <1>1, <1>2, <1>4, DearestCost DEF CompletionCost
<1>7. /\ PromptCost \in Nat
      /\ \A n \in PromptCounts, m \in BilledModels :
            n * prompt[m] \in Nat /\ n * prompt[m] <= PromptCost
  BY <1>1, <1>3, <1>5, DearestCost DEF PromptCost
<1>. USE DEF completion, prompt
<1>8. \A n \in Nat : n * 0 = 0
  BY SMT
<1>9. ASSUME NEW n \in CompletionTokens, NEW m \in BilledModels, NEW provider
      PROVE  LET cost == n * PriceFor(m, provider).completion
             IN  cost \in Nat /\ cost <= CompletionCost
  <2>1. CASE PriceFor(m, provider) = PriceFor(m, "openai")
    BY <1>6, <2>1
  <2>2. CASE PriceFor(m, provider) = OllamaPrice
    BY <1>2, <1>6, <1>8, <2>2, SMT DEF OllamaPrice
  <2>. QED
    BY <2>1, <2>2, PriceTypes
<1>10. ASSUME NEW n \in PromptCounts, NEW m \in BilledModels, NEW provider
       PROVE  LET cost == n * PriceFor(m, provider).prompt
              IN  cost \in Nat /\ cost <= PromptCost
  <2>1. CASE PriceFor(m, provider) = PriceFor(m, "openai")
    BY <1>7, <2>1
  <2>2. CASE PriceFor(m, provider) = OllamaPrice
    BY <1>3, <1>7, <1>8, <2>2, SMT DEF OllamaPrice
  <2>. QED
    BY <2>1, <2>2, PriceTypes
<1>. QED
  BY <1>6, <1>7, <1>9, <1>10

-----------------------------------------------------------------------------
(* The ledger. *)

LimitStages ==
    {"new", "rpm", "tpm", "budget", "admitted", "refused", "lapsed", "billed"}

\* The types, and the month of a reservation at each stage: a request is
\* through without one only if it costs nothing, and undercounted once billed.
LimitsShape ==
    /\ stage \in [Requests -> LimitStages]
    /\ tokens \in [Requests -> PromptTokens \cup {0}]
    /\ model \in [Requests -> Models]
    /\ filed \in [Requests -> 0..LastMonth]
    /\ reserved \in [Months -> Nat]
    /\ spent \in [Months -> Nat]
    /\ month \in Months
    /\ undercounted \subseteq Billed
    /\ \A r \in Requests :
          /\ stage[r] \in {"new", "rpm", "tpm"} => filed[r] = 0
          /\ stage[r] = "budget" => filed[r] \in Months
          /\ stage[r] \in {"admitted", "lapsed", "billed"} /\ filed[r] = 0
                => EstimatePromptCost(r) = 0

\* What a prompt costs is a number.
LEMMA EstimatesAreNumbers ==
    ASSUME LimitsShape
    PROVE  /\ \A r \in Requests : EstimatePromptCost(r) \in Nat
           /\ Estimates \in [Requests -> Nat]
<1>1. ASSUME NEW r \in Requests PROVE EstimatePromptCost(r) \in Nat
  <2>1. PICK p \in Nat : p = Price(r).prompt
    <3>1. Rates \subseteq Nat
      BY SMT DEF Rates
    <3>. QED
      BY <3>1, PriceTypes DEF Price
  <2>2. tokens[r] \in Nat
    BY LimitsAssumption, SMT DEF LimitsShape, LimitsAssumption
  <2>3. tokens[r] * p \in Nat
    BY <2>2, SMT
  <2>. QED
    BY <2>1, <2>3 DEF EstimatePromptCost
<1>. QED
  BY <1>1 DEF Estimates

\* A row is within half a unit of its last decimal.
LEMMA RoundedFacts ==
    ASSUME NEW exact \in Nat, NEW cost \in Rounded(exact)
    PROVE  cost \in Nat /\ cost <= exact + 50
<1>1. PICK q \in Nat : q = exact \div 100
  BY SMT
<1>2. cost \in {100 * q, 100 * q + 100} /\ 2 * (cost - exact) <= 100
  BY <1>1 DEF Rounded, Micro
<1>. QED
  BY <1>2, SMT

\* What a bill may name, and what it adds: a prompt, a completion and the
\* rounding.
ReportedFor(r) == ReportedTokens \cup {tokens[r]}
EchoedFor(r) == EchoedModels \cup {model[r]}

LEMMA BillCosts ==
    ASSUME LimitsShape, NEW r \in Requests, NEW p \in ReportedFor(r),
           NEW n \in CompletionTokens, NEW m \in EchoedFor(r), Bill(r, p, n, m)
    PROVE  \E prompt, cost \in Nat :
              /\ prompt = p * BilledPrice(r, m).prompt /\ prompt <= PromptCost
              /\ cost <= prompt + CompletionCost + 50
              /\ spent' = [spent EXCEPT ![month] = spent[month] + cost]
<1>1. p \in PromptCounts /\ m \in BilledModels
  BY DEF LimitsShape, ReportedFor, EchoedFor, PromptCounts, BilledModels
<1>2. PICK prompt \in Nat : prompt = p * BilledPrice(r, m).prompt /\ prompt <= PromptCost
  BY <1>1, DearestCosts DEF BilledPrice
<1>3. PICK completion \in Nat : /\ completion = n * BilledPrice(r, m).completion
                                /\ completion <= CompletionCost
  BY <1>1, DearestCosts DEF BilledPrice
<1>4. PICK exact \in Nat : exact = prompt + completion
  BY SMT
<1>5. CalculateCost(r, p, n, m) = exact
  BY <1>2, <1>3, <1>4 DEF CalculateCost
<1>6. PICK cost \in Rounded(exact) : spent' = [spent EXCEPT ![month] = spent[month] + cost]
  BY <1>5 DEF Bill
<1>7. cost \in Nat /\ cost <= exact + 50
  BY RoundedFacts
<1>8. cost <= prompt + CompletionCost + 50
  BY <1>3, <1>4, <1>7, DearestCosts, SMT
<1>. QED
  BY <1>2, <1>6, <1>7, <1>8

\* The types, and who has a reservation, at each step.
LEMMA StepKeepsShape ==
    ASSUME LimitsShape, [Next]_vars
    PROVE  LimitsShape'
<1>. USE LimitsAssumption DEF LimitsAssumption, LimitsShape, LimitStages, Goto, Billed
<1>1. ASSUME NEW r \in Requests, NEW n \in PromptTokens, NEW m \in Models, Enter(r, n, m)
      PROVE  LimitsShape'
  <2>1. \A s \in Requests \ {r} : EstimatePromptCost(s)' = EstimatePromptCost(s)
    BY <1>1 DEF Enter, EstimatePromptCost, Price
  <2>. QED
    BY <1>1, <2>1 DEF Enter
<1>2. ASSUME UNCHANGED <<tokens, model>>
      PROVE  \A s \in Requests : EstimatePromptCost(s)' = EstimatePromptCost(s)
  BY <1>2 DEF EstimatePromptCost, Price
<1>3. ASSUME NEW r \in Requests, CheckRpm(r) PROVE LimitsShape'
  BY <1>2, <1>3 DEF CheckRpm
<1>4. ASSUME NEW r \in Requests, CheckTpm(r) PROVE LimitsShape'
  <2>1. EstimatePromptCost(r) \in Nat
    BY EstimatesAreNumbers
  <2>2. /\ UNCHANGED <<tokens, model, reserved, spent, month, undercounted>> /\ stage[r] = "tpm"
        /\ \/ /\ EstimatePromptCost(r) > 0
              /\ stage' = [stage EXCEPT ![r] = "budget"] /\ filed' = [filed EXCEPT ![r] = month]
           \/ /\ ~(EstimatePromptCost(r) > 0)
              /\ stage' = [stage EXCEPT ![r] = "admitted"] /\ filed' = filed
           \/ stage' = [stage EXCEPT ![r] = "refused"] /\ filed' = filed
    BY <1>4 DEF CheckTpm
  <2>3. ~(EstimatePromptCost(r) > 0) => EstimatePromptCost(r) = 0
    BY <2>1, SMT
  <2>4. \A s \in Requests : EstimatePromptCost(s)' = EstimatePromptCost(s)
    BY <1>2, <2>2
  <2>5. 0 \notin Months /\ Months \subseteq 0..LastMonth
    BY SMT DEF Months
  <2>. QED
    BY <2>2, <2>3, <2>4, <2>5
<1>5. ASSUME NEW r \in Requests, CheckBudget(r) PROVE LimitsShape'
  <2>1. EstimatePromptCost(r) \in Nat
    BY EstimatesAreNumbers
  <2>2. /\ UNCHANGED <<tokens, model, filed, spent, month, undercounted>>
        /\ stage[r] = "budget" /\ filed[r] \in Months
        /\ stage' = [stage EXCEPT ![r] = "admitted"] \/ stage' = [stage EXCEPT ![r] = "refused"]
        /\ \/ reserved' = reserved
           \/ reserved' = [reserved EXCEPT ![filed[r]] = reserved[filed[r]] + EstimatePromptCost(r)]
    BY <1>5 DEF CheckBudget
  <2>3. reserved' \in [Months -> Nat]
    <3>1. PICK total \in Nat : total = reserved[filed[r]] + EstimatePromptCost(r)
      BY <2>1, <2>2, SMT
    <3>. QED
      BY <2>2, <3>1
  <2>4. \A s \in Requests : EstimatePromptCost(s)' = EstimatePromptCost(s)
    BY <1>2, <2>2
  <2>5. 0 \notin Months
    BY SMT DEF Months
  <2>. QED
    BY <2>2, <2>3, <2>4, <2>5
<1>6. ASSUME NEW r \in Requests, NEW p \in ReportedFor(r), NEW n \in CompletionTokens,
             NEW m \in EchoedFor(r), Bill(r, p, n, m)
      PROVE  LimitsShape'
  <2>1. PICK cost \in Nat : spent' = [spent EXCEPT ![month] = spent[month] + cost]
    BY <1>6, BillCosts
  <2>2. spent' \in [Months -> Nat]
    BY <2>1, SMT
  <2>3. /\ UNCHANGED <<tokens, model, filed, reserved, month>> /\ stage[r] = "admitted"
        /\ stage' = [stage EXCEPT ![r] = "billed"]
        /\ undercounted' = undercounted \/ undercounted' = undercounted \cup {r}
    BY <1>6 DEF Bill
  <2>4. \A s \in Requests : EstimatePromptCost(s)' = EstimatePromptCost(s)
    BY <1>2, <2>3
  <2>. QED
    BY <2>2, <2>3, <2>4
<1>7. ASSUME NEW r \in Requests, Lapse(r) PROVE LimitsShape'
  BY <1>2, <1>7 DEF Lapse
<1>8. CASE Refill
  BY <1>2, <1>8 DEF Refill
<1>9. CASE NextMonth
  <2>1. month' \in Months
    BY <1>9, SMT DEF NextMonth, Months
  <2>. QED
    BY <1>2, <1>9, <2>1 DEF NextMonth
<1>10. CASE UNCHANGED vars
  BY <1>2, <1>10 DEF vars
<1>. QED
  BY <1>1, <1>3, <1>4, <1>5, <1>6, <1>7, <1>8, <1>9, <1>10
     DEF Next, ReportedFor, EchoedFor

\* The inductive invariant of the ledger.
LedgerInv ==
    /\ LimitsShape
    /\ LedgerMatches
    /\ \A m \in Months : reserved[m] <= Budget

\* The set of requests cleared for a month is finite.
LEMMA ClearedIsFinite ==
    ASSUME NEW m
    PROVE  IsFiniteSet(Cleared(m)) /\ Cleared(m) \subseteq Requests
BY LimitsAssumption, FS_Subset DEF Cleared, LimitsAssumption

\* Steps that clear nobody and reserve nothing.
LEMMA LedgerStays ==
    ASSUME LedgerInv, reserved' = reserved,
           \A m \in Months : Cleared(m)' = Cleared(m),
           \A m \in Months : Same(Estimates, Estimates', Cleared(m))
    PROVE  LedgerMatches' /\ \A m \in Months : reserved'[m] <= Budget
<1>1. ASSUME NEW m \in Months
      PROVE  SumFunctionOnSet(Estimates', Cleared(m)) = SumFunctionOnSet(Estimates, Cleared(m))
  BY ClearedIsFinite, SumSame
<1>2. ASSUME NEW m \in Months PROVE reserved'[m] = SumFunctionOnSet(Estimates', Cleared(m)')
  BY <1>1 DEF LedgerInv, LedgerMatches
<1>. QED
  BY <1>2 DEF LedgerMatches, LedgerInv

\* The cost of prompts is fixed once they are counted.
LEMMA EstimatesStay ==
    ASSUME UNCHANGED <<tokens, model>>
    PROVE  Estimates' = Estimates
BY DEF Estimates, EstimatePromptCost, Price

\* Each step leaves the ledger alone, or adds a request to it with what it
\* reserves.
LEMMA StepKeepsLedger ==
    ASSUME LedgerInv, [Next]_vars
    PROVE  LedgerInv'
<1>1. LimitsShape /\ LimitsShape'
  BY StepKeepsShape DEF LedgerInv
<1>2. SUFFICES LedgerMatches' /\ \A m \in Months : reserved'[m] <= Budget
  BY <1>1 DEF LedgerInv, Months
<1>3. /\ stage \in [Requests -> LimitStages] /\ filed \in [Requests -> 0..LastMonth]
      /\ \A r \in Requests : stage[r] \in {"new", "rpm", "tpm"} => filed[r] = 0
      /\ 0 \notin Months
  BY <1>1, SMT DEF LimitsShape, Months
<1>4. ASSUME UNCHANGED <<tokens, model, reserved>>, \A m \in Months : Cleared(m)' = Cleared(m)
      PROVE  LedgerMatches' /\ \A m \in Months : reserved'[m] <= Budget
  BY <1>4, EstimatesStay, LedgerStays DEF Same
<1>5. ASSUME NEW r \in Requests, NEW n \in PromptTokens, NEW m \in Models, Enter(r, n, m)
      PROVE  LedgerMatches' /\ \A k \in Months : reserved'[k] <= Budget
  <2>1. \A k \in Months : Cleared(k)' = Cleared(k) /\ r \notin Cleared(k)
    BY <1>3, <1>5 DEF Enter, Goto, Cleared
  <2>2. \A s \in Requests \ {r} : EstimatePromptCost(s)' = EstimatePromptCost(s)
    BY <1>1, <1>5 DEF Enter, EstimatePromptCost, Price, LimitsShape
  <2>3. \A k \in Months : Same(Estimates, Estimates', Cleared(k))
    BY <2>1, <2>2, SMT DEF Same, Estimates, Cleared
  <2>. QED
    BY <1>5, <2>1, <2>3, LedgerStays DEF Enter
<1>6. ASSUME NEW r \in Requests, CheckRpm(r)
      PROVE  LedgerMatches' /\ \A m \in Months : reserved'[m] <= Budget
  <2>1. \A m \in Months : Cleared(m)' = Cleared(m)
    BY <1>3, <1>6 DEF CheckRpm, Goto, Cleared
  <2>. QED
    BY <1>4, <1>6, <2>1 DEF CheckRpm
<1>7. ASSUME NEW r \in Requests, CheckTpm(r)
      PROVE  LedgerMatches' /\ \A m \in Months : reserved'[m] <= Budget
  <2>1. \A m \in Months : Cleared(m)' = Cleared(m)
    BY <1>3, <1>7 DEF CheckTpm, Goto, Cleared
  <2>. QED
    BY <1>4, <1>7, <2>1 DEF CheckTpm
<1>8. ASSUME NEW r \in Requests, CheckBudget(r)
      PROVE  LedgerMatches' /\ \A m \in Months : reserved'[m] <= Budget
  <2>1. CASE Goto(r, "refused") /\ UNCHANGED reserved
    <3>1. \A m \in Months : Cleared(m)' = Cleared(m)
      BY <1>3, <1>8, <2>1 DEF CheckBudget, Goto, Cleared
    <3>. QED
      BY <1>4, <1>8, <2>1, <3>1 DEF CheckBudget
  <2>2. ASSUME Goto(r, "admitted"), reserved[filed[r]] + EstimatePromptCost(r) <= Budget,
               reserved' = [reserved EXCEPT ![filed[r]] = reserved[filed[r]] + EstimatePromptCost(r)]
        PROVE  LedgerMatches' /\ \A m \in Months : reserved'[m] <= Budget
    <3>1. PICK f \in Months : f = filed[r]
      BY <1>1, <1>8 DEF CheckBudget, LimitsShape
    <3>2. PICK cost \in Nat : cost = EstimatePromptCost(r)
      BY <1>1, EstimatesAreNumbers
    <3>3. UNCHANGED <<tokens, model, filed>> /\ stage[r] = "budget"
      BY <1>8 DEF CheckBudget
    <3>4. reserved \in [Months -> Nat] /\ Budget \in Nat
      BY <1>1, LimitsAssumption DEF LimitsShape, LimitsAssumption
    <3>5. reserved' = [reserved EXCEPT ![f] = reserved[f] + cost] /\ reserved[f] + cost <= Budget
      BY <2>2, <3>1, <3>2
    <3>6. \A m \in Months : reserved'[m] <= Budget
      BY <3>4, <3>5 DEF LedgerInv
    <3>7. r \notin Cleared(f) /\ Cleared(f)' = Cleared(f) \cup {r}
      BY <1>3, <2>2, <3>1, <3>3 DEF Cleared, Goto
    <3>8. \A m \in Months \ {f} : Cleared(m)' = Cleared(m)
      BY <1>3, <2>2, <3>1, <3>3 DEF Cleared, Goto
    <3>9. Estimates' = Estimates /\ Estimates[r] = cost
      BY <3>2, <3>3, EstimatesStay DEF Estimates
    <3>10. Numbers(Estimates, Cleared(f) \cup {r})
      BY <1>1, EstimatesAreNumbers, ClearedIsFinite, SMT DEF Numbers
    <3>11. SumFunctionOnSet(Estimates, Cleared(f) \cup {r})
              = SumFunctionOnSet(Estimates, Cleared(f)) + cost
      BY <3>7, <3>9, <3>10, ClearedIsFinite, SumAdds
    <3>12. reserved'[f] = SumFunctionOnSet(Estimates', Cleared(f)')
      BY <3>4, <3>5, <3>7, <3>9, <3>11 DEF LedgerInv, LedgerMatches
    <3>13. ASSUME NEW m \in Months \ {f} 
           PROVE  reserved'[m] = SumFunctionOnSet(Estimates', Cleared(m)')
      BY <3>4, <3>5, <3>8, <3>9 DEF LedgerInv, LedgerMatches
    <3>. QED
      BY <3>6, <3>12, <3>13 DEF LedgerMatches
  <2>. QED
    BY <1>8, <2>1, <2>2 DEF CheckBudget
<1>9. ASSUME NEW r \in Requests, NEW p \in ReportedFor(r), NEW n \in CompletionTokens,
             NEW k \in EchoedFor(r), Bill(r, p, n, k)
      PROVE  LedgerMatches' /\ \A m \in Months : reserved'[m] <= Budget
  <2>1. \A m \in Months : Cleared(m)' = Cleared(m)
    BY <1>3, <1>9 DEF Bill, Goto, Cleared
  <2>. QED
    BY <1>4, <1>9, <2>1 DEF Bill
<1>10. ASSUME NEW r \in Requests, Lapse(r)
       PROVE  LedgerMatches' /\ \A m \in Months : reserved'[m] <= Budget
  <2>1. \A m \in Months : Cleared(m)' = Cleared(m)
    BY <1>3, <1>10 DEF Lapse, Goto, Cleared
  <2>. QED
    BY <1>4, <1>10, <2>1 DEF Lapse
<1>11. CASE Refill
  BY <1>4, <1>11 DEF Refill, Cleared
<1>12. CASE NextMonth
  BY <1>4, <1>12 DEF NextMonth, Cleared
<1>13. CASE UNCHANGED vars
  BY <1>4, <1>13 DEF vars, Cleared
<1>. QED
  BY <1>5, <1>6, <1>7, <1>8, <1>9, <1>10, <1>11, <1>12, <1>13
     DEF Next, ReportedFor, EchoedFor

\* At first nobody is cleared and nothing reserved.
LEMMA InitialLedger == Init => LedgerInv
<1>. SUFFICES ASSUME Init PROVE LedgerInv
  OBVIOUS
<1>1. LimitsShape
  BY LimitsAssumption, SMT
     DEF Init, LimitsShape, LimitStages, LimitsAssumption, Months, Billed
<1>2. \A m \in Months : Cleared(m) = {} /\ reserved[m] = 0 /\ 0 <= Budget
  BY LimitsAssumption, SMT DEF Init, Cleared, LimitsAssumption
<1>. QED
  BY <1>1, <1>2, SumOfNone DEF LedgerInv, LedgerMatches

(***************************************************************************)
(* The value under budget_key is the sum of the estimates of the requests  *)
(* the budget script cleared for the month, for any number of requests:    *)
(* what was refused leaves nothing behind.                                 *)
(***************************************************************************)
THEOREM LedgerIsExact == Spec => []LedgerMatches
<1>1. LedgerInv /\ [Next]_vars => LedgerInv'
  BY StepKeepsLedger
<1>2. LedgerInv => LedgerMatches
  BY DEF LedgerInv
<1>. QED
  BY <1>1, <1>2, InitialLedger, PTL DEF Spec

(***************************************************************************)
(* However requests interleave between the scripts and across the turn of  *)
(* a month, the estimates of those cleared for a month stay within         *)
(* monthly_budget_usd.                                                     *)
(***************************************************************************)
THEOREM BudgetIsKept == Spec => []BudgetHolds
<1>1. LedgerInv /\ [Next]_vars => LedgerInv'
  BY StepKeepsLedger
<1>2. LedgerInv => BudgetHolds
  BY DEF LedgerInv, LedgerMatches, BudgetHolds
<1>. QED
  BY <1>1, <1>2, InitialLedger, PTL DEF Spec

-----------------------------------------------------------------------------
(* What is billed. *)

\* A sum of naturals is one.
LEMMA SumIsNatural ==
    ASSUME NEW c, NEW S, IsFiniteSet(S), \A x \in S : c[x] \in Nat
    PROVE  SumFunctionOnSet(c, S) \in Nat
<1>1. Numbers(c, S)
  BY SMT DEF Numbers
<1>2. PICK g : IsSum(g, c, SUBSET S) /\ SumFunctionOnSet(c, S) = g[S]
  BY SumIsOneOf
<1>3. IsSum(g, c, SUBSET S)
  BY <1>2
<1>4. AddsUp(g, c, S)
  BY <1>1, <1>3, AnyOrder
<1>. DEFINE Natural == {s \in SUBSET S : g[s] \in Nat}
<1>5. ASSUME NEW s \in SUBSET S, \A x \in s : s \ {x} \in Natural PROVE s \in Natural
  <2>1. CASE s = {}
    BY <1>3, <2>1, SMT DEF IsSum
  <2>2. CASE s # {}
    <3>1. PICK x \in s : TRUE
      BY <2>2
    <3>2. g[s \ {x}] \in Nat /\ c[x] \in Nat
      BY <1>5
    <3>3. g[s] = c[x] + g[s \ {x}]
      BY <1>4 DEF AddsUp
    <3>. QED
      BY <3>2, <3>3, SMT
  <2>. QED
    BY <2>1, <2>2
<1>. HIDE DEF Natural
<1>6. SUBSET S \subseteq Natural
  BY <1>5, SubsetInduction
<1>7. S \in Natural
  BY <1>6
<1>. QED
  BY <1>2, <1>7 DEF Natural

\* The requests let through and not billed.
Unbilled == {r \in Requests : stage[r] \in {"admitted", "lapsed"}}

\* The inductive invariant: what is reserved for prompts not billed is not
\* available to those that are, unless their prompts were undercounted.
SpendInv ==
    SumFunctionOnSet(spent, Months) + SumFunctionOnSet(Estimates, Unbilled)
      <= SumFunctionOnSet(reserved, Months)
         + (CompletionCost + 50) * Cardinality(Billed)
         + PromptCost * Cardinality(undercounted)

\* The margin of SpendInv is a number.
Margin == (CompletionCost + 50) * Cardinality(Billed) + PromptCost * Cardinality(undercounted)

\* All of these are numbers.
LEMMA SpendTypes ==
    ASSUME LimitsShape
    PROVE  /\ IsFiniteSet(Months) /\ IsFiniteSet(Unbilled) /\ IsFiniteSet(Billed)
           /\ SumFunctionOnSet(spent, Months) \in Nat
           /\ SumFunctionOnSet(reserved, Months) \in Nat
           /\ SumFunctionOnSet(Estimates, Unbilled) \in Nat
           /\ IsFiniteSet(undercounted)
           /\ Cardinality(Billed) \in Nat /\ Cardinality(undercounted) \in Nat
           /\ Numbers(Estimates, Requests)
<1>1. IsFiniteSet(Months)
  BY LimitsAssumption, FS_Interval, SMT DEF Months, LimitsAssumption
<1>2. Unbilled \subseteq Requests /\ Billed \subseteq Requests /\ undercounted \subseteq Requests
  BY DEF Unbilled, Billed, LimitsShape
<1>3. IsFiniteSet(Unbilled) /\ IsFiniteSet(Billed) /\ IsFiniteSet(undercounted)
  BY <1>2, LimitsAssumption, FS_Subset DEF LimitsAssumption
<1>4. Estimates \in [Requests -> Nat]
  BY EstimatesAreNumbers
<1>5. /\ SumFunctionOnSet(spent, Months) \in Nat
      /\ SumFunctionOnSet(reserved, Months) \in Nat
  BY <1>1, SumIsNatural DEF LimitsShape
<1>6. SumFunctionOnSet(Estimates, Unbilled) \in Nat
  BY <1>2, <1>3, <1>4, SumIsNatural
<1>7. Numbers(Estimates, Requests)
  BY <1>4, SMT DEF Numbers
<1>. QED
  BY <1>1, <1>3, <1>5, <1>6, <1>7, FS_CardinalityType

\* SpendInv, of numbers.
LEMMA SpendIsNumeric ==
    ASSUME LimitsShape
    PROVE  /\ Margin \in Nat
           /\ SpendInv <=>
                SumFunctionOnSet(spent, Months) + SumFunctionOnSet(Estimates, Unbilled)
                  <= SumFunctionOnSet(reserved, Months) + Margin
<1>1. PICK k \in Nat : k = (CompletionCost + 50) * Cardinality(Billed)
  BY SpendTypes, DearestCosts, SMT
<1>2. PICK u \in Nat : u = PromptCost * Cardinality(undercounted)
  BY SpendTypes, DearestCosts, SMT
<1>3. Margin = k + u /\ Margin \in Nat
  <2>1. k + u \in Nat
    BY SMT
  <2>. QED
    BY <1>1, <1>2, <2>1 DEF Margin
<1>4. SumFunctionOnSet(reserved, Months) + k + u = SumFunctionOnSet(reserved, Months) + (k + u)
  BY SpendTypes, SMT
<1>. QED
  BY <1>1, <1>2, <1>3, <1>4 DEF SpendInv

\* Steps that let nobody through and bill nothing.
LEMMA SpendStays ==
    ASSUME LimitsShape, SpendInv, UNCHANGED <<spent, reserved, undercounted>>,
           Unbilled' = Unbilled, Billed' = Billed, Same(Estimates, Estimates', Unbilled)
    PROVE  SpendInv'
<1>1. SumFunctionOnSet(Estimates', Unbilled) = SumFunctionOnSet(Estimates, Unbilled)
  BY SpendTypes, SumSame
<1>2. Months' = Months /\ CompletionCost' = CompletionCost /\ PromptCost' = PromptCost
  BY SMT DEF Months, CompletionCost, CompletionCosts, PromptCost, PromptCosts, BilledModels
<1>. QED
  BY <1>1, <1>2 DEF SpendInv

\* A request that is let through adds its estimate to what is not billed, and
\* the same to what is reserved: nothing, if the budget was not asked.
LEMMA AdmissionKeepsSpend ==
    ASSUME LimitsShape, LimitsShape', SpendInv, NEW r \in Requests, r \notin Unbilled,
           UNCHANGED <<tokens, model, spent, undercounted>>,
           Unbilled' = Unbilled \cup {r}, Billed' = Billed,
           \/ reserved' = reserved /\ EstimatePromptCost(r) = 0
           \/ \E f \in Months : reserved' = [reserved EXCEPT ![f] = reserved[f] + EstimatePromptCost(r)]
    PROVE  SpendInv'
<1>1. PICK cost \in Nat : cost = EstimatePromptCost(r)
  BY EstimatesAreNumbers
<1>2. Estimates' = Estimates /\ Estimates[r] = cost
  BY <1>1, EstimatesStay DEF Estimates
<1>3. SumFunctionOnSet(Estimates, Unbilled \cup {r}) = SumFunctionOnSet(Estimates, Unbilled) + cost
  <2>1. Numbers(Estimates, Unbilled \cup {r})
    BY SpendTypes DEF Numbers, Unbilled
  <2>. QED
    BY <1>2, <2>1, SpendTypes, SumAdds
<1>4. SumFunctionOnSet(reserved', Months) = SumFunctionOnSet(reserved, Months) + cost
  <2>1. CASE reserved' = reserved /\ EstimatePromptCost(r) = 0
    BY <1>1, <2>1, SpendTypes, SMT
  <2>2. ASSUME NEW f \in Months, reserved' = [reserved EXCEPT ![f] = reserved[f] + cost]
        PROVE  SumFunctionOnSet(reserved', Months) = SumFunctionOnSet(reserved, Months) + cost
    <3>1. /\ reserved \in [Months -> Int] /\ reserved' \in [Months -> Int]
          /\ \A m \in Months \ {f} : reserved'[m] = reserved[m]
          /\ reserved'[f] = reserved[f] + cost /\ reserved[f] \in Int
      BY <2>2, SMT DEF LimitsShape
    <3>2. SumFunctionOnSet(reserved', Months)
             = SumFunctionOnSet(reserved, Months) - reserved[f] + reserved'[f]
      BY <3>1, SpendTypes, SumReplaces, SMT
    <3>. QED
      BY <3>1, <3>2, SpendTypes, SMT
  <2>. QED
    BY <1>1, <2>1, <2>2
<1>5. Months' = Months /\ CompletionCost' = CompletionCost /\ PromptCost' = PromptCost
  BY SMT DEF Months, CompletionCost, CompletionCosts, PromptCost, PromptCosts, BilledModels
<1>6. Margin' = Margin /\ Margin \in Nat
  BY <1>5, SpendIsNumeric DEF Margin
<1>7. SumFunctionOnSet(spent, Months) + SumFunctionOnSet(Estimates, Unbilled)
        <= SumFunctionOnSet(reserved, Months) + Margin
  BY SpendIsNumeric
<1>8. SumFunctionOnSet(spent, Months) + (SumFunctionOnSet(Estimates, Unbilled) + cost)
        <= (SumFunctionOnSet(reserved, Months) + cost) + Margin
  BY <1>6, <1>7, SpendTypes, SMT
<1>9. /\ SumFunctionOnSet(reserved, Months) + cost + Margin
           = SumFunctionOnSet(reserved, Months) + cost
             + (CompletionCost + 50) * Cardinality(Billed) + PromptCost * Cardinality(undercounted)
  <2>1. PICK k \in Nat : k = (CompletionCost + 50) * Cardinality(Billed)
    BY SpendTypes, DearestCosts, SMT
  <2>2. PICK u \in Nat : u = PromptCost * Cardinality(undercounted)
    BY SpendTypes, DearestCosts, SMT
  <2>3. SumFunctionOnSet(reserved, Months) + cost + (k + u)
          = SumFunctionOnSet(reserved, Months) + cost + k + u
    BY SpendTypes, SMT
  <2>. QED
    BY <2>1, <2>2, <2>3 DEF Margin
<1>. QED
  BY <1>2, <1>3, <1>4, <1>5, <1>8, <1>9 DEF SpendInv

\* A bill is a prompt, a completion and the rounding; the prompt is within its
\* estimate, or the request joins those undercounted.
LEMMA BillKeepsSpend ==
    ASSUME LimitsShape, LimitsShape', SpendInv, NEW r \in Requests, NEW p \in ReportedFor(r),
           NEW n \in CompletionTokens, NEW m \in EchoedFor(r), Bill(r, p, n, m)
    PROVE  SpendInv'
<1>1. PICK cost \in Nat : cost = EstimatePromptCost(r)
  BY EstimatesAreNumbers
<1>2. PICK prompt \in Nat, bill \in Nat :
         /\ prompt = p * BilledPrice(r, m).prompt /\ prompt <= PromptCost
         /\ bill <= prompt + CompletionCost + 50
         /\ spent' = [spent EXCEPT ![month] = spent[month] + bill]
  BY BillCosts
<1>3. undercounted' = IF prompt > cost THEN undercounted \cup {r} ELSE undercounted
  BY <1>1, <1>2 DEF Bill
<1>4. UNCHANGED <<tokens, model, reserved, month>> /\ stage[r] = "admitted"
      /\ stage' = [stage EXCEPT ![r] = "billed"]
  BY DEF Bill, Goto
<1>5. /\ r \in Unbilled /\ Unbilled' = Unbilled \ {r}
      /\ r \notin Billed /\ Billed' = Billed \cup {r} /\ r \notin undercounted
  BY <1>4 DEF Unbilled, Billed, LimitsShape
<1>6. Estimates' = Estimates /\ Estimates[r] = cost
  BY <1>1, <1>4, EstimatesStay DEF Estimates
<1>7. /\ SumFunctionOnSet(Estimates, Unbilled \ {r}) \in Int
      /\ SumFunctionOnSet(Estimates, Unbilled) = SumFunctionOnSet(Estimates, Unbilled \ {r}) + cost
  <2>1. PICK rest : rest = Unbilled \ {r}
    OBVIOUS
  <2>2. IsFiniteSet(rest)
    BY <2>1, SpendTypes, FS_RemoveElement
  <2>3. r \notin rest /\ rest \cup {r} = Unbilled
    BY <1>5, <2>1
  <2>4. Numbers(Estimates, rest \cup {r})
    BY <2>3, SpendTypes DEF Numbers, Unbilled
  <2>5. /\ SumFunctionOnSet(Estimates, rest) \in Int
        /\ SumFunctionOnSet(Estimates, rest \cup {r}) = SumFunctionOnSet(Estimates, rest) + Estimates[r]
    BY <2>2, <2>3, <2>4, SumAdds
  <2>. QED
    BY <1>6, <2>1, <2>3, <2>5
<1>8. SumFunctionOnSet(spent', Months) = SumFunctionOnSet(spent, Months) + bill
  <2>1. /\ spent \in [Months -> Int] /\ spent' \in [Months -> Int] /\ month \in Months
        /\ \A k \in Months \ {month} : spent'[k] = spent[k]
        /\ spent'[month] = spent[month] + bill /\ spent[month] \in Int
    BY <1>2, SMT DEF LimitsShape
  <2>2. SumFunctionOnSet(spent', Months)
           = SumFunctionOnSet(spent, Months) - spent[month] + spent'[month]
    BY <2>1, SpendTypes, SumReplaces
  <2>. QED
    BY <2>1, <2>2, SpendTypes, SMT
<1>9. Months' = Months /\ CompletionCost' = CompletionCost /\ PromptCost' = PromptCost
  BY SMT DEF Months, CompletionCost, CompletionCosts, PromptCost, PromptCosts, BilledModels
<1>10. Margin \in Nat /\ CompletionCost \in Nat /\ PromptCost \in Nat
  BY SpendIsNumeric, DearestCosts
<1>11. PICK k \in Nat : k = (CompletionCost + 50) * Cardinality(Billed)
  BY SpendTypes, DearestCosts, SMT
<1>12. PICK u \in Nat : u = PromptCost * Cardinality(undercounted)
  BY SpendTypes, DearestCosts, SMT
<1>13. (CompletionCost + 50) * Cardinality(Billed') = k + (CompletionCost + 50)
  <2>1. Cardinality(Billed') = Cardinality(Billed) + 1
    BY <1>5, SpendTypes, FS_AddElement
  <2>. QED
    BY <1>10, <1>11, <2>1, SpendTypes, SMT
<1>14. PICK extra \in Nat : /\ prompt <= cost + extra
                           /\ PromptCost * Cardinality(undercounted') = u + extra
  <2>1. CASE prompt > cost
    <3>1. Cardinality(undercounted') = Cardinality(undercounted) + 1
      BY <1>3, <1>5, <2>1, SpendTypes, FS_AddElement
    <3>2. PromptCost * Cardinality(undercounted') = u + PromptCost
      BY <1>10, <1>12, <3>1, SpendTypes, SMT
    <3>3. prompt <= cost + PromptCost
      BY <1>2, <1>10, SMT
    <3>. QED
      BY <1>10, <3>2, <3>3
  <2>2. CASE ~(prompt > cost)
    <3>1. prompt <= cost + 0 /\ u = u + 0
      BY <2>2, SMT
    <3>. QED
      BY <1>3, <1>12, <2>2, <3>1
  <2>. QED
    BY <2>1, <2>2
<1>15. (SumFunctionOnSet(spent, Months) + bill) + SumFunctionOnSet(Estimates, Unbilled \ {r})
         <= SumFunctionOnSet(reserved, Months) + (k + (CompletionCost + 50)) + (u + extra)
  <2>1. SumFunctionOnSet(spent, Months) + (SumFunctionOnSet(Estimates, Unbilled \ {r}) + cost)
          <= SumFunctionOnSet(reserved, Months) + k + u
    BY <1>7, <1>11, <1>12 DEF SpendInv
  <2>2. bill <= prompt + CompletionCost + 50 /\ prompt <= cost + extra
    BY <1>2, <1>14
  <2>. QED
    BY <1>7, <1>10, <2>1, <2>2, SpendTypes, SMT
<1>. QED
  BY <1>4, <1>5, <1>6, <1>8, <1>9, <1>13, <1>14, <1>15 DEF SpendInv

\* Every step keeps the bill covered.
LEMMA StepKeepsSpend ==
    ASSUME LimitsShape, SpendInv, [Next]_vars
    PROVE  SpendInv'
<1>1. LimitsShape'
  BY StepKeepsShape
<1>2. stage \in [Requests -> LimitStages]
  BY DEF LimitsShape
<1>3. ASSUME UNCHANGED <<tokens, model, reserved, spent, undercounted>>,
             Unbilled' = Unbilled, Billed' = Billed
      PROVE  SpendInv'
  BY <1>3, EstimatesStay, SpendStays DEF Same
<1>4. ASSUME NEW r \in Requests, NEW n \in PromptTokens, NEW m \in Models, Enter(r, n, m)
      PROVE  SpendInv'
  <2>1. Unbilled' = Unbilled /\ Billed' = Billed /\ r \notin Unbilled
    BY <1>2, <1>4 DEF Enter, Goto, Unbilled, Billed
  <2>2. \A s \in Requests \ {r} : EstimatePromptCost(s)' = EstimatePromptCost(s)
    BY <1>4 DEF Enter, EstimatePromptCost, Price, LimitsShape
  <2>3. Same(Estimates, Estimates', Unbilled)
    BY <2>1, <2>2 DEF Same, Estimates, Unbilled
  <2>. QED
    BY <1>4, <2>1, <2>3, SpendStays DEF Enter
<1>5. ASSUME NEW r \in Requests, CheckRpm(r)
      PROVE  SpendInv'
  <2>1. Unbilled' = Unbilled /\ Billed' = Billed
    BY <1>2, <1>5 DEF CheckRpm, Goto, Unbilled, Billed
  <2>. QED
    BY <1>3, <1>5, <2>1 DEF CheckRpm
<1>6. ASSUME NEW r \in Requests, CheckTpm(r)
      PROVE  SpendInv'
  <2>1. CASE Goto(r, "admitted") /\ ~(EstimatePromptCost(r) > 0)
    <3>1. EstimatePromptCost(r) = 0
      <4>1. EstimatePromptCost(r) \in Nat
        BY EstimatesAreNumbers
      <4>. QED
        BY <2>1, <4>1, SMT
    <3>2. r \notin Unbilled /\ Unbilled' = Unbilled \cup {r} /\ Billed' = Billed
      BY <1>2, <1>6, <2>1 DEF CheckTpm, Goto, Unbilled, Billed
    <3>3. UNCHANGED <<tokens, model, spent, reserved, undercounted>>
      BY <1>6 DEF CheckTpm
    <3>. QED
      BY <1>1, <3>1, <3>2, <3>3, AdmissionKeepsSpend
  <2>2. CASE Goto(r, "budget") \/ Goto(r, "refused")
    <3>1. Unbilled' = Unbilled /\ Billed' = Billed
      BY <1>2, <1>6, <2>2 DEF CheckTpm, Goto, Unbilled, Billed
    <3>. QED
      BY <1>3, <1>6, <3>1 DEF CheckTpm
  <2>. QED
    BY <1>6, <2>1, <2>2 DEF CheckTpm
<1>7. ASSUME NEW r \in Requests, CheckBudget(r)
      PROVE  SpendInv'
  <2>1. CASE Goto(r, "refused") /\ UNCHANGED reserved
    <3>1. Unbilled' = Unbilled /\ Billed' = Billed
      BY <1>2, <1>7, <2>1 DEF CheckBudget, Goto, Unbilled, Billed
    <3>. QED
      BY <1>3, <1>7, <2>1, <3>1 DEF CheckBudget
  <2>2. ASSUME Goto(r, "admitted"),
               reserved' = [reserved EXCEPT ![filed[r]] = reserved[filed[r]] + EstimatePromptCost(r)]
        PROVE  SpendInv'
    <3>1. PICK f \in Months : f = filed[r]
      BY <1>7 DEF CheckBudget, LimitsShape
    <3>2. r \notin Unbilled /\ Unbilled' = Unbilled \cup {r} /\ Billed' = Billed
      BY <1>2, <1>7, <2>2 DEF CheckBudget, Goto, Unbilled, Billed
    <3>3. UNCHANGED <<tokens, model, spent, undercounted>>
      BY <1>7 DEF CheckBudget
    <3>4. \E k \in Months : reserved' = [reserved EXCEPT ![k] = reserved[k] + EstimatePromptCost(r)]
      BY <2>2, <3>1
    <3>. QED
      BY <1>1, <3>2, <3>3, <3>4, AdmissionKeepsSpend
  <2>. QED
    BY <1>7, <2>1, <2>2 DEF CheckBudget
<1>8. ASSUME NEW r \in Requests, NEW p \in ReportedFor(r), NEW n \in CompletionTokens,
             NEW m \in EchoedFor(r), Bill(r, p, n, m)
      PROVE  SpendInv'
  BY <1>1, <1>8, BillKeepsSpend
<1>9. ASSUME NEW r \in Requests, Lapse(r)
      PROVE  SpendInv'
  <2>1. Unbilled' = Unbilled /\ Billed' = Billed
    BY <1>2, <1>9 DEF Lapse, Goto, Unbilled, Billed
  <2>. QED
    BY <1>3, <1>9, <2>1 DEF Lapse
<1>10. CASE Refill
  BY <1>3, <1>10 DEF Refill, Unbilled, Billed
<1>11. CASE NextMonth
  BY <1>3, <1>11 DEF NextMonth, Unbilled, Billed
<1>12. CASE UNCHANGED vars
  BY <1>3, <1>12 DEF vars, Unbilled, Billed
<1>. QED
  BY <1>4, <1>5, <1>6, <1>7, <1>8, <1>9, <1>10, <1>11, <1>12
     DEF Next, ReportedFor, EchoedFor

(***************************************************************************)
(* Over the months together a tenant is billed no more than was reserved   *)
(* for prompts plus, for each request served, the dearest completion and   *)
(* half a unit of a row's last decimal, plus the dearest prompt for each   *)
(* one whose response counted more tokens than the gateway or named a      *)
(* dearer model.  check_and_increment_budget is never told of the          *)
(* usage_records, and a request may be billed in a later month than it was *)
(* reserved in.                                                            *)
(***************************************************************************)
THEOREM SpendingIsBounded == Spec => []SpendIsBounded
<1>. DEFINE Inv == LimitsShape /\ SpendInv
<1>1. Init => Inv
  <2>. SUFFICES ASSUME Init PROVE Inv
    OBVIOUS
  <2>1. LimitsShape
    BY InitialLedger DEF LedgerInv
  <2>2. Unbilled = {} /\ Billed = {} /\ spent = reserved
    BY DEF Init, Unbilled, Billed
  <2>3. SumFunctionOnSet(Estimates, {}) = 0
    BY SumOfNone
  <2>4. Margin \in Nat
    BY <2>1, SpendIsNumeric
  <2>5. SumFunctionOnSet(spent, Months) + 0 <= SumFunctionOnSet(reserved, Months) + Margin
    BY <2>1, <2>2, <2>4, SpendTypes, SMT
  <2>. QED
    BY <2>1, <2>2, <2>3, <2>5, SpendIsNumeric
<1>2. Inv /\ [Next]_vars => Inv'
  BY StepKeepsShape, StepKeepsSpend
<1>3. Inv => SpendIsBounded
  <2>. SUFFICES ASSUME Inv PROVE SpendIsBounded
    OBVIOUS
  <2>1. PICK k \in Nat : k = (CompletionCost + 50) * Cardinality(Billed)
    BY SpendTypes, DearestCosts, SMT
  <2>2. PICK u \in Nat : u = PromptCost * Cardinality(undercounted)
    BY SpendTypes, DearestCosts, SMT
  <2>3. SumFunctionOnSet(spent, Months) + SumFunctionOnSet(Estimates, Unbilled)
          <= SumFunctionOnSet(reserved, Months) + k + u
    BY <2>1, <2>2 DEF SpendInv
  <2>4. SumFunctionOnSet(spent, Months) <= SumFunctionOnSet(reserved, Months) + k + u
    BY <2>3, SpendTypes, SMT
  <2>. QED
    BY <2>1, <2>2, <2>4 DEF SpendIsBounded
<1>. HIDE DEF Inv
<1>. QED
  BY <1>1, <1>2, <1>3, PTL DEF Spec

(***************************************************************************)
(* For every model name that is a sequence of characters, get_price's      *)
(* first hit in the table is the most specific entry the name has, and it  *)
(* is not free; what the self-hosted provider serves is.                   *)
(***************************************************************************)
THEOREM PricesAreMostSpecific == Spec => []PriceIsMostSpecific
<1>1. Init => LimitsShape
  BY InitialLedger DEF LedgerInv
<1>2. LimitsShape /\ [Next]_vars => LimitsShape'
  BY StepKeepsShape
<1>3. LimitsShape => PriceIsMostSpecific
  <2>. SUFFICES ASSUME LimitsShape, NEW r \in Requests, stage[r] # "new"
                PROVE  IF Resolve(model[r], Providers) = "ollama"
                       THEN Price(r) = OllamaPrice
                       ELSE /\ Price(r) = MostSpecificPrice(model[r])
                            /\ Price(r).prompt > 0 /\ Price(r).completion > 0
    BY DEF PriceIsMostSpecific
  <2>1. model[r] \in Seq(STRING)
    BY LimitsAssumption DEF LimitsShape, LimitsAssumption
  <2>2. CASE Resolve(model[r], Providers) = "ollama"
    BY <2>2 DEF Price, PriceFor
  <2>3. CASE Resolve(model[r], Providers) # "ollama"
    BY <2>1, <2>3, TableIsOrdered DEF Price
  <2>. QED
    BY <2>2, <2>3
<1>. QED
  BY <1>1, <1>2, <1>3, PTL DEF Spec
=============================================================================
