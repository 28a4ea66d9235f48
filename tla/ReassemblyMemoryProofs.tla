------------------------- MODULE ReassemblyMemoryProofs -------------------------
(***************************************************************************)
(* What the byte counters of the reassemblers count, for every number of   *)
(* peers, every length and every quota: the counter that is kept by hand   *)
(* is the sum of the lengths of the open entries, and the quotas of a peer *)
(* and of the server hold.  The sum is a fold, so the first part proves    *)
(* what a fold over a finite set satisfies.                                *)
(***************************************************************************)
EXTENDS Reassembly, FiniteSetTheorems, WellFoundedInduction, TLAPS

-----------------------------------------------------------------------------
(* Induction, and sums over finite sets                                    *)

(* A set of naturals that is not empty has a least element.                *)
LEMMA LeastNumber ==
    ASSUME NEW T \in SUBSET Nat, T # {}
    PROVE  \E n \in T : \A m \in T : ~(m < n)
  <1>1. PICK n \in T : \A m \in T : ~(<<m, n>> \in OpToRel(<, Nat))
    BY NatLessThanWellFounded, WFMin, Zenon
  <1>. QED
    BY <1>1, Zenon DEF OpToRel

(* Induction over the naturals, on the set of numbers that have a property. *)
LEMMA NatSetInduction ==
    ASSUME NEW T \in SUBSET Nat, 0 \in T, \A n \in T : n + 1 \in T
    PROVE  \A n \in Nat : n \in T
  <1>. SUFFICES ASSUME Nat \ T # {} PROVE FALSE
    BY Zenon
  <1>1. PICK n \in Nat \ T : \A m \in Nat \ T : ~(m < n)
    BY LeastNumber, Zenon
  <1>2. n # 0 /\ n - 1 \in Nat /\ n - 1 < n
    BY <1>1
  <1>3. n - 1 \in T
    BY <1>1, <1>2
  <1>. QED
    BY <1>1, <1>2, <1>3

(* Induction over the subsets of a finite set.                             *)
LEMMA SubsetInduction ==
    ASSUME NEW S, IsFiniteSet(S), NEW G,
           \A T \in SUBSET S : (\A x \in T : T \ {x} \in G) => T \in G
    PROVE  \A T \in SUBSET S : T \in G
  <1>. DEFINE N == {n \in Nat : \A T \in SUBSET S : Cardinality(T) = n => T \in G}
  <1>1. 0 \in N
    <2>1. ASSUME NEW T \in SUBSET S, Cardinality(T) = 0 PROVE T \in G
      <3>1. T = {}
        BY <2>1, FS_Subset, FS_EmptySet
      <3>. QED
        BY <3>1
    <2>. QED
      BY <2>1
  <1>2. ASSUME NEW n \in N PROVE n + 1 \in N
    <2>1. ASSUME NEW T \in SUBSET S, Cardinality(T) = n + 1 PROVE T \in G
      <3>1. ASSUME NEW x \in T PROVE T \ {x} \in G
        <4>1. T \ {x} \in SUBSET S /\ Cardinality(T \ {x}) = Cardinality(T) - 1
          BY FS_Subset, FS_RemoveElement
        <4>2. Cardinality(T \ {x}) = n
          BY <2>1, <4>1
        <4>. QED
          BY <4>1, <4>2
      <3>. QED
        BY <3>1
    <2>. QED
      BY <2>1
  <1>3. \A n \in Nat : n \in N
    <2>1. N \in SUBSET Nat
      OBVIOUS
    <2>. HIDE DEF N
    <2>. QED
      BY <1>1, <1>2, <2>1, NatSetInduction
  <1>. QED
    BY <1>3, FS_Subset, FS_CardinalityType

(* The element that the sum takes first. *)
Any(s) == CHOOSE x \in s : TRUE

Step(f, it, s) == IF s = {} THEN 0 ELSE f[Any(s)] + it[s \ {Any(s)}]

(* it gives the sum of f over every subset of S.                           *)
IsFold(f, it, S) == it = [s \in SUBSET S |-> Step(f, it, s)]

(* The recursive function in the definition of the sum exists.             *)
LEMMA FoldExists ==
    ASSUME NEW f, NEW S, IsFiniteSet(S)
    PROVE  \E it : IsFold(f, it, S)
  <1>. DEFINE Good(it, n) ==
                /\ it = [s \in SUBSET S |-> it[s]]
                /\ \A s \in SUBSET S : Cardinality(s) <= n => it[s] = Step(f, it, s)
              N == {n \in Nat : \E it : Good(it, n)}
  <1>1. 0 \in N
    <2>. DEFINE it == [s \in SUBSET S |-> 0]
    <2>1. ASSUME NEW s \in SUBSET S, Cardinality(s) <= 0 PROVE it[s] = Step(f, it, s)
      <3>1. s = {}
        BY <2>1, FS_Subset, FS_EmptySet, FS_CardinalityType
      <3>. QED
        BY <3>1 DEF Step
    <2>2. Good(it, 0)
      BY <2>1
    <2>. QED
      BY <2>2
  <1>2. ASSUME NEW n \in N PROVE n + 1 \in N
    <2>1. PICK g : Good(g, n)
      BY <1>2, Zenon
    <2>. DEFINE h == [s \in SUBSET S |-> IF Cardinality(s) <= n THEN g[s] ELSE Step(f, g, s)]
    <2>2. ASSUME NEW s \in SUBSET S, Cardinality(s) <= n + 1
          PROVE  h[s] = Step(f, h, s)
      <3>1. h[s] = Step(f, g, s)
        BY <2>1, Zenon
      <3>2. CASE s = {}
        BY <3>1, <3>2 DEF Step
      <3>3. CASE s # {}
        <4>1. Any(s) \in s
          BY <3>3 DEF Any
        <4>2. s \ {Any(s)} \in SUBSET S /\ Cardinality(s \ {Any(s)}) = Cardinality(s) - 1
          BY <4>1, FS_Subset, FS_RemoveElement
        <4>3. Cardinality(s) \in Nat /\ n \in Nat
          BY FS_Subset, FS_CardinalityType
        <4>4. h[s \ {Any(s)}] = g[s \ {Any(s)}]
          BY <2>2, <4>2, <4>3
        <4>. QED
          BY <3>1, <3>3, <4>4 DEF Step
      <3>. QED
        BY <3>2, <3>3
    <2>3. h = [s \in SUBSET S |-> h[s]]
      OBVIOUS
    <2>4. Good(h, n + 1)
      BY <2>2, <2>3, Zenon
    <2>. HIDE DEF h, Good
    <2>. QED
      BY <2>4
  <1>3. Cardinality(S) \in N
    <2>1. N \in SUBSET Nat
      OBVIOUS
    <2>. HIDE DEF N
    <2>. QED
      BY <1>1, <1>2, <2>1, NatSetInduction, FS_CardinalityType
  <1>4. PICK g : Good(g, Cardinality(S))
    BY <1>3, Zenon
  <1>5. \A s \in SUBSET S : g[s] = Step(f, g, s)
    BY <1>4, FS_Subset, Zenon
  <1>6. g = [s \in SUBSET S |-> Step(f, g, s)]
    BY <1>4, <1>5, Zenon
  <1>. QED
    BY <1>6 DEF IsFold

(* The sum is the value of such a function.                                *)
LEMMA SumIsFold ==
    ASSUME NEW f, NEW S, IsFiniteSet(S)
    PROVE  \E it : IsFold(f, it, S) /\ SumOf(f, S) = it[S]
  <1>. DEFINE g == CHOOSE it : it = [s \in SUBSET S |-> Step(f, it, s)]
  <1>1. g = [s \in SUBSET S |-> Step(f, g, s)]
    BY FoldExists, Zenon DEF IsFold
  <1>2. SumOf(f, S) = g[S]
    BY DEF SumOf, MapThenSumSet, MapThenFoldSet, Any, Step
  <1>. QED
    BY <1>1, <1>2, Zenon DEF IsFold

(* The function for a smaller set has the same values.                     *)
LEMMA FoldsAgree ==
    ASSUME NEW f, NEW S, IsFiniteSet(S), NEW T \in SUBSET S,
           NEW g, IsFold(f, g, S), NEW h, IsFold(f, h, T)
    PROVE  \A s \in SUBSET T : h[s] = g[s]
  <1>. DEFINE G == {s \in SUBSET T : h[s] = g[s]}
  <1>1. ASSUME NEW s \in SUBSET T, \A x \in s : s \ {x} \in G PROVE s \in G
    <2>1. h[s] = Step(f, h, s) /\ g[s] = Step(f, g, s)
      BY DEF IsFold
    <2>2. CASE s = {}
      BY <2>1, <2>2 DEF Step
    <2>3. CASE s # {}
      <3>1. Any(s) \in s
        BY <2>3 DEF Any
      <3>2. h[s \ {Any(s)}] = g[s \ {Any(s)}]
        BY <1>1, <3>1
      <3>. QED
        BY <2>1, <3>2 DEF Step
    <2>. QED
      BY <2>2, <2>3
  <1>2. IsFiniteSet(T)
    BY FS_Subset
  <1>. HIDE DEF G
  <1>3. \A s \in SUBSET T : s \in G
    BY <1>1, <1>2, SubsetInduction, Zenon
  <1>. QED
    BY <1>3 DEF G

(* The sum takes one element and then the others.                          *)
LEMMA SumUnfolds ==
    ASSUME NEW f, NEW S, IsFiniteSet(S)
    PROVE  SumOf(f, S) = IF S = {} THEN 0 ELSE f[Any(S)] + SumOf(f, S \ {Any(S)})
  <1>. DEFINE T == S \ {Any(S)}
  <1>1. PICK g : IsFold(f, g, S) /\ SumOf(f, S) = g[S]
    BY SumIsFold
  <1>2. IsFiniteSet(T)
    BY FS_Subset
  <1>3. PICK h : IsFold(f, h, T) /\ SumOf(f, T) = h[T]
    BY <1>2, SumIsFold
  <1>4. h[T] = g[T]
    BY <1>1, <1>3, FoldsAgree
  <1>5. g[S] = Step(f, g, S)
    BY <1>1 DEF IsFold
  <1>. QED
    BY <1>1, <1>3, <1>4, <1>5 DEF Step

(* f adds up over S.                                                       *)
Summable(f, S) == IsFiniteSet(S) /\ \A x \in S : f[x] \in Nat

(* So it does over every part.                                             *)
LEMMA PartSummable ==
    ASSUME NEW f, NEW S, Summable(f, S), NEW T \in SUBSET S
    PROVE  Summable(f, T) /\ Cardinality(T) <= Cardinality(S)
  BY FS_Subset DEF Summable

(* A sum of naturals is a natural.                                         *)
LEMMA SumType ==
    ASSUME NEW f, NEW S, Summable(f, S)
    PROVE  SumOf(f, S) \in Nat
  <1>. DEFINE G == {T \in SUBSET S : SumOf(f, T) \in Nat}
  <1>1. ASSUME NEW T \in SUBSET S, \A x \in T : T \ {x} \in G PROVE T \in G
    <2>1. SumOf(f, T) = IF T = {} THEN 0 ELSE f[Any(T)] + SumOf(f, T \ {Any(T)})
      BY FS_Subset, SumUnfolds DEF Summable
    <2>2. CASE T # {}
      <3>1. Any(T) \in T
        BY <2>2 DEF Any
      <3>2. f[Any(T)] \in Nat /\ SumOf(f, T \ {Any(T)}) \in Nat
        BY <1>1, <3>1 DEF Summable
      <3>. QED
        BY <2>1, <2>2, <3>2
    <2>. QED
      BY <2>1, <2>2
  <1>2. IsFiniteSet(S)
    BY DEF Summable
  <1>. HIDE DEF G
  <1>3. \A T \in SUBSET S : T \in G
    BY <1>1, <1>2, SubsetInduction, Zenon
  <1>. QED
    BY <1>3, Zenon DEF G

(* It does not matter which element comes first.                           *)
LEMMA SumTakesAny ==
    ASSUME NEW f, NEW S, Summable(f, S), NEW z \in S
    PROVE  SumOf(f, S) = f[z] + SumOf(f, S \ {z})
  <1>. DEFINE G == {T \in SUBSET S : \A x \in T : SumOf(f, T) = f[x] + SumOf(f, T \ {x})}
  <1>1. ASSUME NEW T \in SUBSET S, \A x \in T : T \ {x} \in G PROVE T \in G
    <2>1. Summable(f, T) /\ IsFiniteSet(T)
      BY PartSummable DEF Summable
    <2>2. CASE T = {}
      BY <2>2
    <2>3. CASE T # {}
      <3>1. PICK a : a = Any(T)
        BY Zenon
      <3>2. a \in T /\ SumOf(f, T) = f[a] + SumOf(f, T \ {a})
        BY <2>1, <2>3, <3>1, SumUnfolds, Zenon DEF Any
      <3>3. f[a] \in Nat
        BY <3>2 DEF Summable
      <3>4. ASSUME NEW x \in T PROVE SumOf(f, T) = f[x] + SumOf(f, T \ {x})
        <4>1. CASE x = a
          BY <3>2, <4>1
        <4>2. CASE x # a
          <5>1. PICK U : U = (T \ {a}) \ {x}
            BY Zenon
          <5>2. /\ x \in T \ {a} /\ a \in T \ {x} /\ (T \ {x}) \ {a} = U
                /\ U \in SUBSET S
            BY <3>2, <4>2, <5>1
          <5>3. SumOf(f, T \ {a}) = f[x] + SumOf(f, U)
            BY <1>1, <3>2, <5>1, <5>2
          <5>4. SumOf(f, T \ {x}) = f[a] + SumOf(f, U)
            BY <1>1, <5>2
          <5>5. SumOf(f, U) \in Nat /\ f[x] \in Nat
            BY <5>2, PartSummable, SumType DEF Summable
          <5>. QED
            BY <3>2, <3>3, <5>3, <5>4, <5>5
        <4>. QED
          BY <4>1, <4>2
      <3>. QED
        BY <3>4
    <2>. QED
      BY <2>2, <2>3
  <1>2. IsFiniteSet(S)
    BY DEF Summable
  <1>. HIDE DEF G
  <1>3. \A T \in SUBSET S : T \in G
    BY <1>1, <1>2, SubsetInduction, Zenon
  <1>. QED
    BY <1>3, Zenon DEF G

(* The sum depends on the values only, and grows with them.                *)
LEMMA SumMonotone ==
    ASSUME NEW f, NEW g, NEW S, Summable(f, S), Summable(g, S)
    PROVE  /\ (\A x \in S : f[x] <= g[x]) => SumOf(f, S) <= SumOf(g, S)
           /\ (\A x \in S : f[x] = g[x]) => SumOf(f, S) = SumOf(g, S)
  <1>. DEFINE G == {T \in SUBSET S :
                      /\ (\A x \in S : f[x] <= g[x]) => SumOf(f, T) <= SumOf(g, T)
                      /\ (\A x \in S : f[x] = g[x]) => SumOf(f, T) = SumOf(g, T)}
  <1>1. ASSUME NEW T \in SUBSET S, \A x \in T : T \ {x} \in G PROVE T \in G
    <2>1. Summable(f, T) /\ Summable(g, T)
      BY PartSummable
    <2>2. CASE T = {}
      <3>1. SumOf(f, T) = 0 /\ SumOf(g, T) = 0
        BY <2>1, <2>2, SumUnfolds, Zenon DEF Summable
      <3>. QED
        BY <3>1
    <2>3. CASE T # {}
      <3>1. PICK x, U : x \in T /\ U = T \ {x}
        BY <2>3, Zenon
      <3>2. Summable(f, U) /\ Summable(g, U)
        BY <2>1, <3>1, PartSummable
      <3>3. SumOf(f, T) = f[x] + SumOf(f, U) /\ SumOf(g, T) = g[x] + SumOf(g, U)
        BY <2>1, <3>1, SumTakesAny
      <3>4. SumOf(f, U) \in Nat /\ SumOf(g, U) \in Nat /\ f[x] \in Nat /\ g[x] \in Nat
        BY <2>1, <3>1, <3>2, SumType DEF Summable
      <3>5. /\ (\A y \in S : f[y] <= g[y]) => SumOf(f, U) <= SumOf(g, U)
            /\ (\A y \in S : f[y] = g[y]) => SumOf(f, U) = SumOf(g, U)
        BY <1>1, <3>1
      <3>6. (\A y \in S : f[y] <= g[y]) => SumOf(f, T) <= SumOf(g, T)
        BY <3>1, <3>3, <3>4, <3>5
      <3>7. (\A y \in S : f[y] = g[y]) => SumOf(f, T) = SumOf(g, T)
        BY <3>1, <3>3, <3>4, <3>5
      <3>. QED
        BY <3>6, <3>7, Zenon
    <2>. QED
      BY <2>2, <2>3
  <1>2. IsFiniteSet(S)
    BY DEF Summable
  <1>. HIDE DEF G
  <1>3. \A T \in SUBSET S : T \in G
    BY <1>1, <1>2, SubsetInduction, Zenon
  <1>. QED
    BY <1>3, Zenon DEF G

(* One value changes.                                                      *)
LEMMA SumMoves ==
    ASSUME NEW f, NEW g, NEW S, Summable(f, S), Summable(g, S), NEW x \in S,
           \A y \in S \ {x} : g[y] = f[y]
    PROVE  SumOf(g, S) = SumOf(f, S) - f[x] + g[x]
  <1>1. PICK R : R = S \ {x}
    BY Zenon
  <1>2. Summable(f, R) /\ Summable(g, R)
    BY <1>1, PartSummable
  <1>3. SumOf(f, S) = f[x] + SumOf(f, R)
    BY <1>1, SumTakesAny
  <1>4. SumOf(g, S) = g[x] + SumOf(g, R)
    BY <1>1, SumTakesAny
  <1>5. SumOf(g, R) = SumOf(f, R)
    BY <1>1, <1>2, SumMonotone
  <1>6. SumOf(f, R) \in Nat /\ f[x] \in Nat /\ g[x] \in Nat
    BY <1>2, SumType DEF Summable
  <1>. QED
    BY <1>3, <1>4, <1>5, <1>6

(* A part and the rest.                                                    *)
LEMMA SumSplits ==
    ASSUME NEW f, NEW S, Summable(f, S), NEW P \in SUBSET S
    PROVE  SumOf(f, S) = SumOf(f, P) + SumOf(f, S \ P)
  <1>. DEFINE G == {T \in SUBSET P : SumOf(f, S) = SumOf(f, T) + SumOf(f, S \ T)}
  <1>1. ASSUME NEW T \in SUBSET P, \A x \in T : T \ {x} \in G PROVE T \in G
    <2>1. Summable(f, T) /\ IsFiniteSet(T) /\ Summable(f, S \ T) /\ SumOf(f, S) \in Nat
      BY PartSummable, SumType DEF Summable
    <2>2. CASE T = {}
      <3>1. SumOf(f, T) = 0 /\ S \ T = S
        BY <2>1, <2>2, SumUnfolds
      <3>2. SumOf(f, S) = 0 + SumOf(f, S)
        BY <2>1
      <3>3. SumOf(f, S) = SumOf(f, T) + SumOf(f, S \ T)
        BY <3>1, <3>2, Zenon
      <3>. QED
        BY <3>3
    <2>3. CASE T # {}
      <3>1. PICK x, U, V, W : x \in T /\ U = T \ {x} /\ V = S \ U /\ W = S \ T
        BY <2>3, Zenon
      <3>2. U \in G /\ x \in V /\ V \ {x} = W
        BY <1>1, <3>1
      <3>3. Summable(f, U) /\ Summable(f, V) /\ Summable(f, W)
        BY <3>1, PartSummable
      <3>4. SumOf(f, T) = f[x] + SumOf(f, U)
        BY <2>1, <3>1, SumTakesAny
      <3>5. SumOf(f, V) = f[x] + SumOf(f, W)
        BY <3>2, <3>3, SumTakesAny
      <3>6. SumOf(f, S) = SumOf(f, U) + SumOf(f, V)
        BY <3>1, <3>2
      <3>7. SumOf(f, U) \in Nat /\ SumOf(f, W) \in Nat /\ f[x] \in Nat
        BY <2>1, <3>1, <3>3, SumType DEF Summable
      <3>8. SumOf(f, S) = SumOf(f, T) + SumOf(f, W)
        BY <3>4, <3>5, <3>6, <3>7
      <3>. QED
        BY <3>1, <3>8
    <2>. QED
      BY <2>2, <2>3
  <1>2. IsFiniteSet(P)
    BY PartSummable DEF Summable
  <1>. HIDE DEF G
  <1>3. \A T \in SUBSET P : T \in G
    BY <1>1, <1>2, SubsetInduction, Zenon
  <1>. QED
    BY <1>3, Zenon DEF G

-----------------------------------------------------------------------------
(* The bytes of one reassembler                                            *)

TableBytes(t) == SumOf(LengthsOf(t), DOMAIN t)

(* The entries of one reassembler: finitely many, and each has a length.   *)
Held(t) ==
    /\ IsFiniteSet(DOMAIN t)
    /\ \A id \in DOMAIN t : "length" \in DOMAIN t[id] /\ t[id].length \in Nat

(* The entries of u that are also in t have the length they have there.    *)
SameLengths(t, u) == \A id \in DOMAIN t \cap DOMAIN u : u[id].length = t[id].length

(* The lengths of the entries of a table add up.                           *)
LEMMA LengthsAddUp ==
    ASSUME NEW t, Held(t)
    PROVE  /\ Summable(LengthsOf(t), DOMAIN t) /\ TableBytes(t) \in Nat
           /\ \A id \in DOMAIN t : LengthsOf(t)[id] = t[id].length
           /\ Cardinality(DOMAIN t) \in Nat
  <1>1. Summable(LengthsOf(t), DOMAIN t)
    BY DEF Held, Summable, LengthsOf
  <1>. QED
    BY <1>1, SumType, FS_CardinalityType DEF TableBytes, LengthsOf, Held

(* Entries change and keep their lengths.                                  *)
LEMMA BytesStay ==
    ASSUME NEW t, NEW u, DOMAIN u = DOMAIN t, SameLengths(t, u)
    PROVE  TableBytes(u) = TableBytes(t)
  <1>1. LengthsOf(u) = LengthsOf(t)
    BY DEF LengthsOf, SameLengths
  <1>. QED
    BY <1>1 DEF TableBytes

(* An entry is opened.                                                     *)
LEMMA BytesGrow ==
    ASSUME NEW t, NEW u, NEW id, Held(t), Held(u), SameLengths(t, u),
           id \notin DOMAIN t, DOMAIN u = DOMAIN t \cup {id}
    PROVE  /\ TableBytes(u) = u[id].length + TableBytes(t)
           /\ Cardinality(DOMAIN u) = Cardinality(DOMAIN t) + 1
  <1>1. PICK f, g, D, E : f = LengthsOf(t) /\ g = LengthsOf(u) /\ D = DOMAIN t /\ E = DOMAIN u
    BY Zenon
  <1>2. /\ Summable(f, D) /\ Summable(g, E) /\ Summable(g, D)
        /\ id \in E /\ E \ {id} = D /\ g[id] = u[id].length
        /\ \A k \in D : g[k] = f[k]
    <2>1. Summable(f, D) /\ Summable(g, E) /\ g[id] = u[id].length
      BY <1>1, LengthsAddUp
    <2>2. id \in E /\ E \ {id} = D /\ D \in SUBSET E
      BY <1>1
    <2>3. \A k \in D : g[k] = f[k]
      BY <1>1, LengthsAddUp DEF SameLengths
    <2>. QED
      BY <2>1, <2>2, <2>3, PartSummable, Zenon
  <1>3. SumOf(g, E) = g[id] + SumOf(g, D)
    BY <1>2, SumTakesAny
  <1>4. SumOf(g, D) = SumOf(f, D)
    BY <1>2, SumMonotone
  <1>5. TableBytes(u) = u[id].length + TableBytes(t)
    BY <1>1, <1>2, <1>3, <1>4 DEF TableBytes
  <1>6. Cardinality(DOMAIN u) = Cardinality(DOMAIN t) + 1
    BY FS_AddElement DEF Held
  <1>. QED
    BY <1>5, <1>6

(* Entries are taken out, with their bytes.                                *)
LEMMA BytesShrink ==
    ASSUME NEW t, NEW u, NEW ids \in SUBSET DOMAIN t, Held(t), Held(u), SameLengths(t, u),
           DOMAIN u = DOMAIN t \ ids
    PROVE  /\ TableBytes(u) = TableBytes(t) - SumOf(LengthsOf(t), ids)
           /\ TableBytes(u) <= TableBytes(t)
           /\ Cardinality(DOMAIN u) <= Cardinality(DOMAIN t)
  <1>1. PICK f, g, D, E : f = LengthsOf(t) /\ g = LengthsOf(u) /\ D = DOMAIN t /\ E = DOMAIN u
    BY Zenon
  <1>2. /\ Summable(f, D) /\ Summable(g, E) /\ Summable(f, E) /\ Summable(f, ids)
        /\ ids \in SUBSET D /\ D \ ids = E /\ Cardinality(E) <= Cardinality(D)
        /\ \A k \in E : g[k] = f[k]
    BY <1>1, LengthsAddUp, PartSummable DEF SameLengths
  <1>3. SumOf(f, D) = SumOf(f, ids) + SumOf(f, E)
    BY <1>2, SumSplits
  <1>4. SumOf(g, E) = SumOf(f, E)
    BY <1>2, SumMonotone
  <1>5. SumOf(f, ids) \in Nat /\ SumOf(f, E) \in Nat
    BY <1>2, SumType
  <1>6. SumOf(g, E) = SumOf(f, D) - SumOf(f, ids) /\ SumOf(g, E) <= SumOf(f, D)
    BY <1>3, <1>4, <1>5
  <1>. QED
    BY <1>1, <1>2, <1>6 DEF TableBytes

(* The bytes of one entry.                                                 *)
LEMMA BytesOfOne ==
    ASSUME NEW t, Held(t), NEW id \in DOMAIN t
    PROVE  SumOf(LengthsOf(t), {id}) = t[id].length
  <1>1. PICK f : f = LengthsOf(t)
    BY Zenon
  <1>2. Summable(f, {id}) /\ f[id] = t[id].length /\ f[id] \in Nat
    BY <1>1, LengthsAddUp, PartSummable DEF Summable
  <1>3. SumOf(f, {id}) = f[id] + SumOf(f, {id} \ {id})
    BY <1>2, SumTakesAny
  <1>4. {id} \ {id} = {} /\ SumOf(f, {}) = 0
    BY FS_EmptySet, SumUnfolds, Zenon
  <1>5. SumOf(f, {id}) = f[id] + 0
    BY <1>3, <1>4, Zenon
  <1>. QED
    BY <1>1, <1>2, <1>5

-----------------------------------------------------------------------------
(* What the steps preserve                                                 *)

(* MemoryAccounting, with what it takes for the sums to be numbers.        *)
Accounted ==
    /\ \A f \in wire : f.peer \in Peers /\ f.length \in Nat
    /\ DOMAIN entries = Peers /\ \A p \in Peers : Held(entries[p])
    /\ memory \in [Peers -> Nat]
    /\ MemoryAccounting

(* The account of one peer: its counter, its table and its quotas.         *)
Account(m, t) ==
    /\ Held(t) /\ m \in Nat /\ m = TableBytes(t)
    /\ m <= PeerBytes /\ Cardinality(DOMAIN t) <= MaxConcurrent

(* Accounted, peer by peer.                                                *)
LEMMA AccountOfEach ==
    /\ Accounted => /\ \A p \in Peers : Account(memory[p], entries[p])
                    /\ Summable(memory, Peers) /\ Total \in Nat /\ Total <= ServerBytes
    /\ /\ \A f \in wire' : f.peer \in Peers /\ f.length \in Nat
       /\ DOMAIN entries' = Peers /\ memory' \in [Peers -> Nat]
       /\ \A p \in Peers : Account(memory'[p], entries'[p])
       /\ SumOf(memory', Peers) <= ServerBytes
       => Accounted'
  <1>1. ASSUME Accounted
        PROVE  Summable(memory, Peers) /\ Total \in Nat /\ Total <= ServerBytes
    <2>1. Summable(memory, Peers)
      BY <1>1, ReassemblyAssumption DEF Accounted, Summable
    <2>. QED
      BY <1>1, <2>1, SumType DEF Accounted, MemoryAccounting, Total
  <1>2. ASSUME Accounted, NEW p \in Peers PROVE Account(memory[p], entries[p])
    BY <1>2 DEF Accounted, MemoryAccounting, Account, Bytes, TableBytes
  <1>3. ASSUME \A f \in wire' : f.peer \in Peers /\ f.length \in Nat,
               DOMAIN entries' = Peers, memory' \in [Peers -> Nat],
               \A p \in Peers : Account(memory'[p], entries'[p]),
               SumOf(memory', Peers) <= ServerBytes
        PROVE  Accounted'
    BY <1>3 DEF Accounted, MemoryAccounting, Account, Bytes, TableBytes, Total
  <1>. QED
    BY <1>1, <1>2, <1>3

(* The numbers that the quotas are.                                        *)
LEMMA Quotas == PeerBytes \in Nat /\ ServerBytes \in Nat /\ MaxConcurrent \in Nat
  BY ReassemblyAssumption

(* One reassembler changes and stays within its quotas.                    *)
LEMMA OnePeerAccounts ==
    ASSUME Accounted, wire' \subseteq wire, NEW p \in Peers, NEW u, NEW v, Account(v, u),
           entries' = [entries EXCEPT ![p] = u], memory' = [memory EXCEPT ![p] = v],
           Total - memory[p] + v <= ServerBytes
    PROVE  Accounted'
  <1>1. /\ memory \in [Peers -> Nat] /\ v \in Nat /\ DOMAIN entries = Peers
        /\ \A f \in wire' : f.peer \in Peers /\ f.length \in Nat
    BY DEF Accounted, Account
  <1>2. /\ memory' \in [Peers -> Nat] /\ memory'[p] = v
        /\ \A q \in Peers \ {p} : memory'[q] = memory[q]
    BY <1>1
  <1>3. /\ DOMAIN entries' = Peers /\ entries'[p] = u
        /\ \A q \in Peers \ {p} : entries'[q] = entries[q]
    BY <1>1
  <1>4. /\ \A q \in Peers : Account(memory[q], entries[q])
        /\ Summable(memory, Peers)
    BY AccountOfEach
  <1>5. \A q \in Peers : Account(memory'[q], entries'[q])
    BY <1>2, <1>3, <1>4
  <1>6. Summable(memory', Peers)
    BY <1>2, <1>4 DEF Summable
  <1>7. SumOf(memory', Peers) <= ServerBytes
    <2>1. PICK m, n : m = memory /\ n = memory'
      BY Zenon
    <2>2. Summable(m, Peers) /\ Summable(n, Peers) /\ \A q \in Peers \ {p} : n[q] = m[q]
      BY <1>2, <1>4, <1>6, <2>1
    <2>3. SumOf(n, Peers) = SumOf(m, Peers) - m[p] + n[p]
      BY <2>2, SumMoves
    <2>. QED
      BY <1>2, <2>1, <2>3 DEF Total
  <1>. QED
    BY <1>1, <1>2, <1>3, <1>5, <1>7, AccountOfEach

(* A fragment that is stored: a new entry fitted into every quota.         *)
LEMMA KeepAccounts ==
    ASSUME Accounted, wire' \subseteq wire, NEW f \in wire, ~OverQuota(f), ~Mismatch(f), Keep(f)
    PROVE  Accounted'
  <1>1. PICK p, id, n, t, d, u, v, m :
            /\ p = f.peer /\ id = f.id /\ n = f.length /\ t = entries[p] /\ d = Stored(f)
            /\ u = With(t, id, d) /\ v = Charged(f) /\ m = memory[p]
    BY Zenon
  <1>2. p \in Peers /\ n \in Nat
    BY <1>1 DEF Accounted
  <1>3. Account(m, t) /\ Total \in Nat /\ Total <= ServerBytes
    BY <1>1, <1>2, AccountOfEach, Zenon
  <1>4. "length" \in DOMAIN d /\ d.length = n
    BY <1>1, <1>3, Zenon DEF Stored, EntryOf, Mismatch, Fresh, Known, Account, Held
  <1>5. /\ DOMAIN u = DOMAIN t \cup {id} /\ u[id] = d
        /\ \A k \in DOMAIN t \ {id} : u[k] = t[k]
    BY <1>1, Zenon DEF With
  <1>6. Held(t) /\ Held(u)
    <2>1. Held(t) /\ IsFiniteSet(DOMAIN u)
      BY <1>3, <1>5, FS_AddElement DEF Account, Held
    <2>. QED
      BY <1>2, <1>4, <1>5, <2>1 DEF Held
  <1>7. entries' = [entries EXCEPT ![p] = u] /\ memory' = [memory EXCEPT ![p] = v]
    BY <1>1 DEF Keep
  <1>8. Account(v, u) /\ Total - m + v <= ServerBytes
    <2>1. CASE id \in DOMAIN t
      <3>1. v = m + 0 /\ t[id].length = n
        BY <1>1, <2>1 DEF Charged, Known, Mismatch, EntryOf
      <3>2. DOMAIN u = DOMAIN t /\ SameLengths(t, u)
        BY <1>4, <1>5, <2>1, <3>1 DEF SameLengths
      <3>3. TableBytes(u) = TableBytes(t)
        BY <3>2, BytesStay
      <3>4. v = m /\ m \in Nat
        BY <1>3, <3>1 DEF Account
      <3>5. Account(v, u)
        BY <1>3, <1>6, <3>2, <3>3, <3>4 DEF Account
      <3>. QED
        BY <1>3, <3>4, <3>5, Quotas
    <2>2. CASE id \notin DOMAIN t
      <3>1. /\ v = m + n /\ Total + n <= ServerBytes /\ m + n <= PeerBytes
            /\ Cardinality(DOMAIN t) < MaxConcurrent
        <4>1. ~Known(f)
          BY <1>1, <2>2 DEF Known
        <4>2. v = m + n
          BY <1>1, <4>1 DEF Charged
        <4>3. ~(Total + n > ServerBytes) /\ ~(m + n > PeerBytes) /\ ~(Cardinality(DOMAIN t) >= MaxConcurrent)
          BY <1>1, <4>1 DEF OverQuota
        <4>4. m \in Nat /\ Cardinality(DOMAIN t) \in Nat
          BY <1>3, LengthsAddUp DEF Account
        <4>. QED
          BY <1>2, <1>3, <4>2, <4>3, <4>4, Quotas
      <3>2. SameLengths(t, u)
        BY <1>5, <2>2 DEF SameLengths
      <3>3. TableBytes(u) = n + TableBytes(t) /\ Cardinality(DOMAIN u) = Cardinality(DOMAIN t) + 1
        BY <1>4, <1>5, <1>6, <2>2, <3>2, BytesGrow
      <3>4. m \in Nat /\ m = TableBytes(t) /\ Cardinality(DOMAIN t) \in Nat
        BY <1>3, LengthsAddUp DEF Account
      <3>5. /\ v \in Nat /\ v = TableBytes(u) /\ v <= PeerBytes /\ Cardinality(DOMAIN u) <= MaxConcurrent
            /\ Total - m + v <= ServerBytes
        BY <1>2, <1>3, <3>1, <3>3, <3>4, Quotas
      <3>. QED
        BY <1>6, <3>5 DEF Account
    <2>. QED
      BY <2>1, <2>2
  <1>. QED
    BY <1>1, <1>2, <1>7, <1>8, OnePeerAccounts, Zenon

(* A message that is complete gives back the bytes of its entry, if it had *)
(* one.                                                                    *)
LEMMA CompleteAccounts ==
    ASSUME Accounted, wire' \subseteq wire, NEW f \in wire, ~Mismatch(f), Complete(f)
    PROVE  Accounted'
  <1>1. PICK p, id, n, t, u, v, m :
            /\ p = f.peer /\ id = f.id /\ n = f.length /\ t = entries[p]
            /\ u = Without(t, {id}) /\ v = Charged(f) - n /\ m = memory[p]
    BY Zenon
  <1>2. p \in Peers /\ n \in Nat
    BY <1>1 DEF Accounted
  <1>3. Account(m, t) /\ Total \in Nat /\ Total <= ServerBytes
    BY <1>1, <1>2, AccountOfEach, Zenon
  <1>4. /\ DOMAIN u = DOMAIN t \ {id} /\ \A k \in DOMAIN u : u[k] = t[k]
    BY <1>1 DEF Without
  <1>5. Held(t) /\ Held(u) /\ SameLengths(t, u)
    BY <1>3, <1>4, FS_Subset DEF Account, Held, SameLengths
  <1>6. entries' = [entries EXCEPT ![p] = u] /\ memory' = [memory EXCEPT ![p] = v]
    BY <1>1 DEF Complete
  <1>7. m \in Nat /\ m = TableBytes(t) /\ TableBytes(u) \in Nat
    BY <1>3, <1>5, LengthsAddUp DEF Account
  <1>8. /\ v = TableBytes(u) /\ TableBytes(u) <= TableBytes(t)
        /\ Cardinality(DOMAIN u) <= Cardinality(DOMAIN t)
    <2>1. CASE id \in DOMAIN t
      <3>1. Charged(f) = m + 0 /\ t[id].length = n
        BY <1>1, <2>1 DEF Charged, Known, Mismatch, EntryOf
      <3>2. /\ TableBytes(u) = TableBytes(t) - SumOf(LengthsOf(t), {id})
            /\ TableBytes(u) <= TableBytes(t)
            /\ Cardinality(DOMAIN u) <= Cardinality(DOMAIN t)
        BY <1>4, <1>5, <2>1, BytesShrink
      <3>3. SumOf(LengthsOf(t), {id}) = n
        BY <1>5, <2>1, <3>1, BytesOfOne
      <3>4. TableBytes(u) = m - n
        BY <1>7, <3>2, <3>3, Zenon
      <3>5. v = m - n
        BY <1>1, <1>2, <1>7, <3>1
      <3>. QED
        BY <3>2, <3>4, <3>5, Zenon
    <2>2. CASE id \notin DOMAIN t
      <3>1. Charged(f) = m + n
        BY <1>1, <2>2 DEF Charged, Known
      <3>2. DOMAIN u = DOMAIN t
        BY <1>4, <2>2
      <3>3. TableBytes(u) = TableBytes(t)
        BY <1>5, <3>2, BytesStay
      <3>4. v = m /\ m <= m
        BY <1>1, <1>2, <1>7, <3>1
      <3>5. Cardinality(DOMAIN t) <= Cardinality(DOMAIN t)
        BY <1>5, LengthsAddUp
      <3>. QED
        BY <1>7, <3>2, <3>3, <3>4, <3>5, Zenon
    <2>. QED
      BY <2>1, <2>2
  <1>9. v <= m /\ v \in Nat
    BY <1>7, <1>8
  <1>10. Account(v, u)
    <2>1. Cardinality(DOMAIN t) \in Nat /\ Cardinality(DOMAIN u) \in Nat
      BY <1>5, LengthsAddUp
    <2>2. m <= PeerBytes /\ Cardinality(DOMAIN t) <= MaxConcurrent
      BY <1>3 DEF Account
    <2>3. v <= PeerBytes /\ Cardinality(DOMAIN u) <= MaxConcurrent
      BY <1>7, <1>8, <1>9, <2>1, <2>2, Quotas
    <2>. QED
      BY <1>5, <1>8, <1>9, <2>3 DEF Account
  <1>11. Total - m + v <= ServerBytes
    BY <1>3, <1>7, <1>9, Quotas
  <1>. QED
    BY <1>1, <1>2, <1>6, <1>10, <1>11, OnePeerAccounts, Zenon

(* A fragment that is already there: the entry keeps its length.           *)
LEMMA RenewAccounts ==
    ASSUME Accounted, wire' \subseteq wire, NEW f \in wire, Known(f), Renew(f)
    PROVE  Accounted'
  <1>1. PICK p, id, t, u, m :
            /\ p = f.peer /\ id = f.id /\ t = entries[p] /\ m = memory[p]
            /\ u = [t EXCEPT ![id].age = 0]
    BY Zenon
  <1>2. p \in Peers /\ id \in DOMAIN t /\ DOMAIN entries = Peers /\ memory \in [Peers -> Nat]
    BY <1>1 DEF Accounted, Known
  <1>3. Account(m, t) /\ Total \in Nat /\ Total <= ServerBytes
    BY <1>1, <1>2, AccountOfEach, Zenon
  <1>4. entries' = [entries EXCEPT ![p] = u]
    BY <1>1 DEF Renew
  <1>5. memory' = [memory EXCEPT ![p] = m]
    BY <1>1, <1>2 DEF Renew
  <1>6. /\ DOMAIN u = DOMAIN t
        /\ \A k \in DOMAIN t : /\ "length" \in DOMAIN t[k]
                               /\ "length" \in DOMAIN u[k] /\ u[k].length = t[k].length
    BY <1>1, <1>2, <1>3 DEF Account, Held
  <1>7. Held(u) /\ SameLengths(t, u)
    BY <1>3, <1>6 DEF Account, Held, SameLengths
  <1>8. TableBytes(u) = TableBytes(t)
    BY <1>6, <1>7, BytesStay
  <1>9. Account(m, u)
    BY <1>3, <1>6, <1>7, <1>8 DEF Account
  <1>10. Total - m + m <= ServerBytes
    <2>1. m \in Nat
      BY <1>3 DEF Account
    <2>. QED
      BY <1>3, <2>1, Quotas
  <1>. QED
    BY <1>1, <1>2, <1>4, <1>5, <1>9, <1>10, OnePeerAccounts, Zenon

(* Nothing that is counted changes.                                        *)
LEMMA UntouchedAccounts ==
    ASSUME Accounted, UNCHANGED <<entries, memory>>,
           \A f \in wire' : f.peer \in Peers /\ f.length \in Nat
    PROVE  Accounted'
  BY DEF Accounted, MemoryAccounting, Bytes, Total

(* dispatch_message_frame and handle_fragment_payload.                     *)
LEMMA HandleAccounts ==
    ASSUME Accounted, NEW f \in wire, HandleFragment(f)
    PROVE  Accounted'
  <1>1. wire' \subseteq wire /\ Accept(f)
    BY DEF HandleFragment
  <1>2. \A g \in wire' : g.peer \in Peers /\ g.length \in Nat
    BY <1>1 DEF Accounted
  <1>3. CASE Drop(f) \/ Refuse(f)
    BY <1>2, <1>3, UntouchedAccounts DEF Drop, Refuse
  <1>4. CASE ~Mismatch(f) /\ f.index \in EntryOf(f).received /\ Renew(f)
    <2>1. Known(f)
      BY <1>4 DEF EntryOf, Fresh
    <2>. QED
      BY <1>1, <1>4, <2>1, RenewAccounts
  <1>5. CASE ~Mismatch(f) /\ Complete(f)
    BY <1>1, <1>5, CompleteAccounts
  <1>6. CASE ~OverQuota(f) /\ ~Mismatch(f) /\ Keep(f)
    BY <1>1, <1>6, KeepAccounts
  <1>. QED
    BY <1>1, <1>3, <1>4, <1>5, <1>6 DEF Accept

(* Every reassembler may lose entries, and counts what it lost.            *)
LEMMA ShrinkAccounts ==
    ASSUME NEW m, NEW t, NEW ids \in SUBSET DOMAIN t, Account(m, t)
    PROVE  /\ Account(m - SumOf(LengthsOf(t), ids), Without(t, ids))
           /\ m - SumOf(LengthsOf(t), ids) <= m
  <1>1. PICK u, v : u = Without(t, ids) /\ v = m - SumOf(LengthsOf(t), ids)
    BY Zenon
  <1>2. /\ DOMAIN u = DOMAIN t \ ids /\ \A k \in DOMAIN u : u[k] = t[k]
    BY <1>1, Zenon DEF Without
  <1>3. Held(t) /\ Held(u) /\ SameLengths(t, u)
    BY <1>2, FS_Subset DEF Account, Held, SameLengths
  <1>4. /\ TableBytes(u) = TableBytes(t) - SumOf(LengthsOf(t), ids)
        /\ TableBytes(u) <= TableBytes(t)
        /\ Cardinality(DOMAIN u) <= Cardinality(DOMAIN t)
    BY <1>2, <1>3, BytesShrink
  <1>5. /\ m = TableBytes(t) /\ m \in Nat /\ TableBytes(u) \in Nat
        /\ Cardinality(DOMAIN t) \in Nat /\ Cardinality(DOMAIN u) \in Nat
        /\ m <= PeerBytes /\ Cardinality(DOMAIN t) <= MaxConcurrent
    BY <1>3, LengthsAddUp DEF Account
  <1>6. v = TableBytes(u) /\ v <= m
    BY <1>1, <1>4, <1>5, Zenon
  <1>7. v \in Nat /\ v <= PeerBytes /\ Cardinality(DOMAIN u) <= MaxConcurrent
    BY <1>4, <1>5, <1>6, Quotas
  <1>8. Account(v, u)
    BY <1>3, <1>6, <1>7 DEF Account
  <1>. QED
    BY <1>1, <1>6, <1>8, Zenon

(* expire_old of every session.                                            *)
LEMMA HousekeepingAccounts ==
    ASSUME Accounted, RunHousekeeping
    PROVE  Accounted'
  <1>1. /\ entries' = [p \in Peers |-> Without(entries[p], Stale(p))]
        /\ memory' = [p \in Peers |-> memory[p] - SumOf(LengthsOf(entries[p]), Stale(p))]
        /\ wire' = wire
    BY DEF RunHousekeeping, ExpireOld, Bytes
  <1>2. ASSUME NEW p \in Peers
        PROVE  Account(memory'[p], entries'[p]) /\ memory'[p] <= memory[p]
    <2>1. PICK m, t, ids : m = memory[p] /\ t = entries[p] /\ ids = Stale(p)
      BY Zenon
    <2>2. Account(m, t) /\ ids \in SUBSET DOMAIN t
      BY <2>1, AccountOfEach DEF Stale
    <2>3. /\ Account(m - SumOf(LengthsOf(t), ids), Without(t, ids))
          /\ m - SumOf(LengthsOf(t), ids) <= m
      BY <2>2, ShrinkAccounts, Zenon
    <2>4. memory'[p] = m - SumOf(LengthsOf(t), ids) /\ entries'[p] = Without(t, ids)
      BY <1>1, <2>1, Zenon
    <2>. QED
      BY <2>1, <2>3, <2>4, Zenon
  <1>3. \A p \in Peers : memory'[p] \in Nat
    BY <1>2 DEF Account
  <1>4. memory' \in [Peers -> Nat] /\ DOMAIN entries' = Peers
    BY <1>1, <1>3, Zenon
  <1>5. SumOf(memory', Peers) <= ServerBytes
    <2>1. PICK m, n : m = memory /\ n = memory'
      BY Zenon
    <2>2. Summable(m, Peers) /\ SumOf(m, Peers) <= ServerBytes
      BY <2>1, AccountOfEach DEF Total
    <2>3. Summable(n, Peers) /\ \A p \in Peers : n[p] <= m[p]
      BY <1>2, <1>3, <2>1, <2>2 DEF Summable
    <2>4. SumOf(n, Peers) <= SumOf(m, Peers)
      BY <2>2, <2>3, SumMonotone
    <2>5. SumOf(n, Peers) \in Nat /\ SumOf(m, Peers) \in Nat
      BY <2>2, <2>3, SumType
    <2>6. SumOf(n, Peers) <= ServerBytes
      BY <2>2, <2>4, <2>5, Quotas
    <2>. QED
      BY <2>1, <2>6, Zenon
  <1>6. \A f \in wire' : f.peer \in Peers /\ f.length \in Nat
    BY <1>1 DEF Accounted
  <1>. QED
    BY <1>2, <1>4, <1>5, <1>6, AccountOfEach, Zenon

(* Time passes: the entries keep their lengths.                            *)
LEMMA AgeAccounts ==
    ASSUME Accounted, Age
    PROVE  Accounted'
  <1>1. /\ entries' = [p \in Peers |-> [id \in DOMAIN entries[p] |->
                     [entries[p][id] EXCEPT !.age = IF @ < Timeout THEN @ + 1 ELSE @]]]
        /\ memory' = memory /\ wire' = wire
    BY DEF Age
  <1>2. ASSUME NEW p \in Peers PROVE Account(memory[p], entries'[p])
    <2>1. PICK m, t, u : m = memory[p] /\ t = entries[p] /\ u = entries'[p]
      BY Zenon
    <2>2. Account(m, t)
      BY <2>1, AccountOfEach
    <2>3. u = [id \in DOMAIN t |-> [t[id] EXCEPT !.age = IF @ < Timeout THEN @ + 1 ELSE @]]
      BY <1>1, <2>1, Zenon
    <2>4. /\ DOMAIN u = DOMAIN t
          /\ \A k \in DOMAIN t : /\ "length" \in DOMAIN t[k]
                                 /\ "length" \in DOMAIN u[k] /\ u[k].length = t[k].length
      BY <2>2, <2>3 DEF Account, Held
    <2>5. Held(u) /\ SameLengths(t, u)
      BY <2>2, <2>4 DEF Account, Held, SameLengths
    <2>6. TableBytes(u) = TableBytes(t)
      BY <2>4, <2>5, BytesStay
    <2>7. Account(m, u)
      BY <2>2, <2>4, <2>5, <2>6 DEF Account
    <2>. QED
      BY <2>1, <2>7, Zenon
  <1>3. /\ \A f \in wire' : f.peer \in Peers /\ f.length \in Nat
        /\ memory' \in [Peers -> Nat] /\ DOMAIN entries' = Peers
    BY <1>1 DEF Accounted
  <1>4. SumOf(memory', Peers) <= ServerBytes
    BY <1>1, AccountOfEach DEF Total
  <1>. QED
    BY <1>1, <1>2, <1>3, <1>4, AccountOfEach, Zenon

(* A reassembler that was cleared holds nothing and counts nothing.        *)
LEMMA NothingHeld == Account(0, NoEntries)
  <1>1. DOMAIN NoEntries = {}
    BY DEF NoEntries
  <1>2. LengthsOf(NoEntries) = LengthsOf(NoEntries) /\ IsFiniteSet({}) /\ Cardinality({}) = 0
    BY FS_EmptySet
  <1>3. TableBytes(NoEntries) = 0
    BY <1>1, <1>2, SumUnfolds, Zenon DEF TableBytes
  <1>. QED
    BY <1>1, <1>2, <1>3, Quotas DEF Account, Held

(* evict_session clears the reassembler of the session.                    *)
LEMMA NewSessionAccounts ==
    ASSUME Accounted, NEW p \in Peers, NewSession(p)
    PROVE  Accounted'
  <1>1. /\ entries' = [entries EXCEPT ![p] = NoEntries] /\ memory' = [memory EXCEPT ![p] = 0]
        /\ wire' \subseteq wire
    BY DEF NewSession, Restarted
  <1>2. PICK m, t, u : m = memory[p] /\ t = entries[p] /\ u = NoEntries
    BY Zenon
  <1>3. Account(m, t) /\ Total \in Nat /\ Total <= ServerBytes
    BY <1>2, AccountOfEach
  <1>4. Total - m + 0 <= ServerBytes
    <2>1. m \in Nat
      BY <1>3 DEF Account
    <2>. QED
      BY <1>3, <2>1, Quotas
  <1>5. Account(0, u)
    BY <1>2, NothingHeld, Zenon
  <1>. QED
    BY <1>1, <1>2, <1>4, <1>5, OnePeerAccounts, Zenon

(* send_fragmented puts fragments on the wire.                             *)
LEMMA SendAccounts ==
    ASSUME Accounted, NEW p \in Peers, NEW c, NEW n \in Lengths,
           SendFragmented(p, c, n) \/ SendFragmentedPartly(p, c, n)
    PROVE  Accounted'
  <1>1. PICK last, ok : Sends(p, c, n, last, ok)
    BY Zenon DEF SendFragmented, SendFragmentedPartly
  <1>2. n \in Nat
    BY ReassemblyAssumption
  <1>3. /\ wire' = wire \cup {Fragment(p, c, n, i) : i \in 0 .. last}
        /\ entries' = entries /\ memory' = memory
    BY <1>1 DEF Sends, receiverVars
  <1>4. \A f \in wire' : f.peer \in Peers /\ f.length \in Nat
    BY <1>2, <1>3 DEF Accounted, Fragment
  <1>. QED
    BY <1>3, <1>4, UntouchedAccounts

(* Before the first message nothing is held.                               *)
LEMMA InitAccounts ==
    ASSUME Init
    PROVE  Accounted
  <1>1. Summable(memory, Peers) /\ \A p \in Peers : memory[p] = 0 /\ entries[p] = NoEntries
    BY ReassemblyAssumption DEF Init, Summable
  <1>2. SumOf(memory, Peers) <= ServerBytes
    <2>. DEFINE G == {T \in SUBSET Peers : SumOf(memory, T) = 0}
    <2>1. ASSUME NEW T \in SUBSET Peers, \A x \in T : T \ {x} \in G PROVE T \in G
      <3>1. SumOf(memory, T) = IF T = {} THEN 0 ELSE memory[Any(T)] + SumOf(memory, T \ {Any(T)})
        BY <1>1, PartSummable, SumUnfolds, Zenon DEF Summable
      <3>2. CASE T # {}
        <4>1. Any(T) \in T
          BY <3>2 DEF Any
        <4>2. memory[Any(T)] = 0 /\ SumOf(memory, T \ {Any(T)}) = 0
          BY <1>1, <2>1, <4>1
        <4>. QED
          BY <3>1, <3>2, <4>2
      <3>. QED
        BY <3>1, <3>2
    <2>2. IsFiniteSet(Peers)
      BY ReassemblyAssumption
    <2>. HIDE DEF G
    <2>3. \A T \in SUBSET Peers : T \in G
      BY <2>1, <2>2, SubsetInduction, Zenon
    <2>4. SumOf(memory, Peers) = 0
      BY <2>3, Zenon DEF G
    <2>. QED
      BY <2>4, Quotas
  <1>3. \A p \in Peers : Account(memory[p], entries[p])
    BY <1>1, NothingHeld, Zenon
  <1>4. wire = {} /\ DOMAIN entries = Peers /\ memory \in [Peers -> Nat]
    BY DEF Init
  <1>. QED
    BY <1>2, <1>3, <1>4, Zenon DEF Accounted, MemoryAccounting, Account, Bytes, TableBytes, Total

(* Accounted is an invariant.                                              *)
LEMMA AccountedHolds == Spec => []Accounted
  <1>1. Init => Accounted
    BY InitAccounts
  <1>2. Accounted /\ [Next]_vars => Accounted'
    <2>. SUFFICES ASSUME Accounted, [Next]_vars PROVE Accounted'
      OBVIOUS
    <2>1. CASE UNCHANGED vars
      BY <2>1, UntouchedAccounts DEF vars, receiverVars, Accounted
    <2>2. ASSUME NEW p \in Peers, NEW c \in Channels, NEW n \in Lengths,
                 SendFragmented(p, c, n) \/ SendFragmentedPartly(p, c, n)
          PROVE  Accounted'
      BY <2>2, SendAccounts
    <2>3. ASSUME NEW f \in wire, LoseFragment(f) PROVE Accounted'
      BY <2>3, UntouchedAccounts DEF LoseFragment, receiverVars, Accounted
    <2>4. ASSUME NEW f \in wire, HandleFragment(f) PROVE Accounted'
      BY <2>4, HandleAccounts
    <2>5. CASE RunHousekeeping
      BY <2>5, HousekeepingAccounts
    <2>6. CASE Age
      BY <2>6, AgeAccounts
    <2>7. ASSUME NEW p \in Peers, NewSession(p) PROVE Accounted'
      BY <2>7, NewSessionAccounts
    <2>. QED
      BY <2>1, <2>2, <2>3, <2>4, <2>5, <2>6, <2>7 DEF Next
  <1>. QED
    BY <1>1, <1>2, PTL DEF Spec

(* The byte counter that every reassembler keeps by hand, over completion, *)
(* expiry, refusals and eviction, is the sum of the lengths of its open    *)
(* entries; the byte quota and the entry quota of every peer and the byte  *)
(* quota of the server hold.                                               *)
THEOREM MemoryIsAccounted == Spec => []MemoryAccounting
  <1>1. Accounted => MemoryAccounting
    BY DEF Accounted
  <1>. QED
    BY <1>1, AccountedHolds, PTL

=============================================================================
