---------------------------- MODULE PathTheorems ----------------------------
(***************************************************************************)
(* is_path_part_of_path is a partial order in which what lies above one    *)
(* path forms a chain: the facts about paths that the other proofs cite;   *)
(* and what the edits of the list of exclusions do to the files it covers. *)
(***************************************************************************)
EXTENDS ExclusionList, SequenceTheorems, WellFoundedInduction, TLAPS

\* A path is part of itself.
LEMMA PartOfReflexive ==
  ASSUME NEW p \in Path
  PROVE  IsPathPartOfPath(p, p)
BY DEF IsPathPartOfPath, Path

\* What lies below a path that lies below another lies below that one.
LEMMA PartOfTransitive ==
  ASSUME NEW p \in Path, NEW q \in Path, NEW r \in Path,
         IsPathPartOfPath(p, q), IsPathPartOfPath(q, r)
  PROVE  IsPathPartOfPath(p, r)
BY DEF IsPathPartOfPath, Path

\* Two paths that lie below one another are equal.
LEMMA PartOfAntisymmetric ==
  ASSUME NEW p \in Path, NEW q \in Path,
         IsPathPartOfPath(p, q), IsPathPartOfPath(q, p)
  PROVE  p = q
<1>1. Len(p) = Len(q) /\ \A i \in 1..Len(p) : p[i] = q[i]
  BY DEF IsPathPartOfPath, Path
<1>2. p = [i \in 1..Len(p) |-> p[i]] /\ q = [i \in 1..Len(q) |-> q[i]]
  BY DEF Path
<1> QED BY <1>1, <1>2

\* Of two paths above a third one, one is above the other.
LEMMA AboveIsChain ==
  ASSUME NEW p \in Path, NEW q \in Path, NEW r \in Path,
         IsPathPartOfPath(p, q), IsPathPartOfPath(p, r)
  PROVE  IsPathPartOfPath(q, r) \/ IsPathPartOfPath(r, q)
<1>1. Len(q) \in Nat /\ Len(r) \in Nat
  BY DEF Path
<1>2. CASE Len(r) <= Len(q)
  BY <1>1, <1>2 DEF IsPathPartOfPath
<1>3. CASE Len(q) <= Len(r)
  BY <1>1, <1>3 DEF IsPathPartOfPath
<1> QED BY <1>1, <1>2, <1>3

\* In a set without nesting at most one path lies above a given one.
LEMMA NonNestedUnique ==
  ASSUME NEW S \in SUBSET Path, NonNested(S),
         NEW p \in Path, NEW q \in S, NEW r \in S,
         IsPathPartOfPath(p, q), IsPathPartOfPath(p, r)
  PROVE  q = r
BY AboveIsChain DEF NonNested

\* A subset of a set without nesting is one.
LEMMA NonNestedSubset ==
  ASSUME NEW S, NEW T \in SUBSET S, NonNested(S)
  PROVE  NonNested(T)
BY DEF NonNested

\* A path that is neither above nor below those of a set without nesting may
\* join it.
LEMMA NonNestedExtend ==
  ASSUME NEW S, NonNested(S), NEW p,
         \A q \in S : ~IsPathPartOfPath(p, q) /\ ~IsPathPartOfPath(q, p)
  PROVE  NonNested(S \union {p})
BY DEF NonNested

\* The beginning of a path is above it.
LEMMA PrefixAbove ==
  ASSUME NEW p \in Path, NEW n \in Nat, n <= Len(p)
  PROVE  /\ SubSeq(p, 1, n) \in Path
         /\ Len(SubSeq(p, 1, n)) = n
         /\ \A i \in 1..n : SubSeq(p, 1, n)[i] = p[i]
         /\ IsPathPartOfPath(p, SubSeq(p, 1, n))
<1>1. \A i \in 1..n : p[i] \in STRING
  BY DEF Path
<1>2. /\ SubSeq(p, 1, n) \in Seq(STRING)
      /\ Len(SubSeq(p, 1, n)) = IF 1 <= n THEN n - 1 + 1 ELSE 0
      /\ \A i \in 1..(n - 1 + 1) : SubSeq(p, 1, n)[i] = p[1 + i - 1]
  <2>. HIDE DEF Path
  <2> QED BY <1>1, SubSeqProperties
<1>3. /\ Len(SubSeq(p, 1, n)) = n
      /\ \A i \in 1..n : SubSeq(p, 1, n)[i] = p[i]
  BY <1>2
<1> QED BY <1>2, <1>3 DEF IsPathPartOfPath, Path

\* The parent of a path is above it.
LEMMA ParentAbove ==
  ASSUME NEW p \in Path, p # <<>>
  PROVE  /\ ParentPath(p) \in Path
         /\ Len(ParentPath(p)) = Len(p) - 1
         /\ \A i \in 1..(Len(p) - 1) : ParentPath(p)[i] = p[i]
         /\ IsPathPartOfPath(p, ParentPath(p))
<1>1. Len(p) - 1 \in Nat /\ Len(p) - 1 <= Len(p)
  BY DEF Path
<1> QED BY <1>1, PrefixAbove DEF ParentPath
-----------------------------------------------------------------------------
(* The list of exclusions *)

\* After an exclusion the list covers what it covered and what lies below the
\* path, although it lost the entries below the path.
LEMMA ExcludingCovers ==
  ASSUME NEW excluded \in SUBSET Path, NEW path \in Path, NEW f \in Path
  PROVE  IsPathExcluded(f, Excluding(excluded, path))
           <=> IsPathExcluded(f, excluded) \/ IsPathPartOfPath(f, path)
<1>1. ASSUME NEW p \in excluded, IsPathPartOfPath(f, p), IsPathPartOfPath(p, path)
      PROVE  IsPathPartOfPath(f, path)
  BY <1>1, PartOfTransitive
<1> QED BY <1>1 DEF Excluding, IsPathExcluded

\* It stays free of entries below one another.
LEMMA ExcludingApart ==
  ASSUME NEW excluded \in SUBSET Path, NEW path \in Path,
         NonNested(excluded), ~IsPathExcluded(path, excluded)
  PROVE  NonNested(Excluding(excluded, path))
BY DEF Excluding, IsPathExcluded, NonNested
-----------------------------------------------------------------------------
\* Two paths of the same length one of which lies below the other are equal.
LEMMA SameLength ==
  ASSUME NEW p \in Path, NEW q \in Path, IsPathPartOfPath(p, q), Len(p) <= Len(q)
  PROVE  p = q /\ IsPathPartOfPath(q, p)
<1>1. Len(p) \in Nat /\ Len(q) \in Nat
  BY DEF Path
<1>2. IsPathPartOfPath(q, p)
  BY <1>1 DEF IsPathPartOfPath
<1> QED BY <1>2, PartOfAntisymmetric

\* A path that lies below `e' and is not `e' has a parent below `e'.
LEMMA ParentBelow ==
  ASSUME NEW p \in Path, NEW e \in Path, IsPathPartOfPath(p, e), p # e
  PROVE  p # <<>> /\ ParentPath(p) \in Path /\ IsPathPartOfPath(ParentPath(p), e)
<1>1. Len(p) \in Nat /\ Len(e) \in Nat
  BY DEF Path
<1>2. Len(e) < Len(p)
  BY <1>1, SameLength
<1>3. p # <<>>
  BY <1>1, <1>2
<1> QED BY <1>1, <1>2, <1>3, ParentAbove DEF IsPathPartOfPath

\* The ancestor that an include opens up is the only entry above the path.
LEMMA CoveringUnique ==
  ASSUME NEW excluded \in SUBSET Path, NonNested(excluded), NEW path \in Path,
         NEW p \in Covering(excluded, path), NEW q \in Covering(excluded, path)
  PROVE  p = q
BY NonNestedUnique DEF Covering

\* What lies below a listed sibling lies below the ancestor and not below the
\* included path.
LEMMA SiblingsCover ==
  ASSUME NEW nodes \in SUBSET Path, NEW path \in Path, NEW a \in Path,
         NEW e \in Siblings(a, path, nodes), NEW f \in Path, IsPathPartOfPath(f, e)
  PROVE  IsPathPartOfPath(f, a) /\ ~IsPathPartOfPath(f, path)
<1>1. e \in Path /\ IsPathPartOfPath(e, a) /\ Len(e) <= Len(path)
        /\ ~IsPathPartOfPath(path, e)
  BY DEF Siblings
<1>2. IsPathPartOfPath(f, a)
  BY <1>1, PartOfTransitive
<1>3. ASSUME IsPathPartOfPath(f, path) PROVE FALSE
  <2>1. IsPathPartOfPath(e, path)
    BY <1>1, <1>3, AboveIsChain
  <2> QED BY <1>1, <2>1, SameLength
<1> QED BY <1>2, <1>3

\* Every existing file below the ancestor that is neither below nor above the
\* included path lies below a listed sibling: the one where the ways to the
\* file and to the path part.
LEMMA SiblingsComplete ==
  ASSUME NEW nodes \in SUBSET Path, NEW path \in Path, NEW a \in Path,
         IsPathPartOfPath(path, a),
         NEW f \in Path, IsPathPartOfPath(f, a),
         ~IsPathPartOfPath(f, path), ~IsPathPartOfPath(path, f),
         \A n \in DOMAIN f : SubSeq(f, 1, n) \in nodes
  PROVE  \E e \in Siblings(a, path, nodes) : IsPathPartOfPath(f, e)
<1> DEFINE Parting == {i \in 1..Len(f) : i <= Len(path) /\ f[i] # path[i]}
<1>1. Len(f) \in Nat /\ Len(path) \in Nat /\ Len(a) \in Nat
  BY DEF Path
<1>2. Parting # {} /\ Parting \subseteq Nat
  BY <1>1 DEF IsPathPartOfPath
<1>3. PICK k \in Parting : \A i \in Parting : ~(i < k)
  <2>1. PICK k \in Parting : \A i \in Parting : <<i, k>> \notin OpToRel(<, Nat)
    <3> HIDE DEF Parting
    <3> QED BY <1>2, NatLessThanWellFounded, WFMin
  <2>2. \A i, j \in Nat : i < j => <<i, j>> \in OpToRel(<, Nat)
    BY DEF OpToRel
  <2> QED BY <1>2, <2>1, <2>2
<1>4. k \in Nat /\ 1 <= k /\ k <= Len(f) /\ k <= Len(path) /\ f[k] # path[k]
  BY <1>1
<1>5. \A i \in 1..(k - 1) : f[i] = path[i]
  BY <1>1, <1>3, <1>4
<1>6. Len(a) < k
  BY <1>1, <1>4 DEF IsPathPartOfPath
<1> DEFINE e == SubSeq(f, 1, k)
<1>7. e \in Path /\ Len(e) = k /\ (\A i \in 1..k : e[i] = f[i]) /\ IsPathPartOfPath(f, e)
  BY <1>4, PrefixAbove
<1>8. e \in nodes
  BY <1>1, <1>4 DEF Path
<1> HIDE DEF e
<1>9. IsPathPartOfPath(e, a)
  BY <1>1, <1>4, <1>6, <1>7 DEF IsPathPartOfPath
<1>10. IsPathPartOfPath(path, ParentPath(e))
  <2>1. e # <<>>
    BY <1>4, <1>7
  <2>2. Len(ParentPath(e)) = k - 1 /\ \A i \in 1..(k - 1) : ParentPath(e)[i] = e[i]
    BY <1>7, <2>1, ParentAbove
  <2> QED BY <1>1, <1>4, <1>5, <1>7, <2>2 DEF IsPathPartOfPath
<1>11. ~IsPathPartOfPath(path, e)
  BY <1>4, <1>7 DEF IsPathPartOfPath
<1>12. e \in Siblings(a, path, nodes)
  BY <1>4, <1>6, <1>7, <1>8, <1>9, <1>10, <1>11 DEF Siblings
<1> QED BY <1>7, <1>12

-----------------------------------------------------------------------------
\* What an include leaves on the list was covered by it before, and is not
\* below the path: an include never excludes, and it includes the whole path.
THEOREM IncludingSound ==
  ASSUME NEW excluded \in SUBSET Path, NonNested(excluded), NEW path \in Path,
         NEW nodes \in SUBSET Path, NEW list \in Including(excluded, path, nodes),
         NEW f \in Path, IsPathExcluded(f, list)
  PROVE  IsPathExcluded(f, excluded) /\ ~IsPathPartOfPath(f, path)
<1>1. PICK e \in list : IsPathPartOfPath(f, e)
  BY DEF IsPathExcluded
<1>2. CASE Covering(excluded, path) = {}
  <2>1. e \in excluded /\ ~IsPathPartOfPath(e, path) /\ ~IsPathPartOfPath(path, e)
    BY <1>1, <1>2 DEF Including, Kept, Covering
  <2>2. ~IsPathPartOfPath(f, path)
    BY <1>1, <2>1, AboveIsChain
  <2> QED BY <1>1, <2>1, <2>2 DEF IsPathExcluded
<1>3. CASE Covering(excluded, path) # {}
  <2>1. PICK a \in Covering(excluded, path) :
          list = (Kept(excluded, path) \ {a}) \union Siblings(a, path, nodes)
    BY <1>3 DEF Including
  <2>2. a \in excluded /\ a \in Path
    BY DEF Covering
  <2>3. CASE e \in Siblings(a, path, nodes)
    <3>1. IsPathPartOfPath(f, a) /\ ~IsPathPartOfPath(f, path)
      BY <1>1, <2>2, <2>3, SiblingsCover
    <3> QED BY <2>2, <3>1 DEF IsPathExcluded
  <2>4. CASE e \in Kept(excluded, path) \ {a}
    <3>1. e \in excluded /\ e \in Path /\ ~IsPathPartOfPath(e, path)
      BY <2>4 DEF Kept
    <3>2. ~IsPathPartOfPath(path, e)
      BY <2>4, <3>1, CoveringUnique DEF Covering
    <3>3. ~IsPathPartOfPath(f, path)
      BY <1>1, <3>1, <3>2, AboveIsChain
    <3> QED BY <1>1, <3>1, <3>3 DEF IsPathExcluded
  <2> QED BY <1>1, <2>1, <2>3, <2>4
<1> QED BY <1>2, <1>3

\* A file that was covered and is neither below nor above the path stays
\* covered if it exists: opening up an entry loses nothing that exists.
THEOREM IncludingComplete ==
  ASSUME NEW excluded \in SUBSET Path, NonNested(excluded), NEW path \in Path,
         NEW nodes \in SUBSET Path, NEW list \in Including(excluded, path, nodes),
         NEW f \in Path, IsPathExcluded(f, excluded),
         ~IsPathPartOfPath(f, path), ~IsPathPartOfPath(path, f),
         \A n \in DOMAIN f : SubSeq(f, 1, n) \in nodes
  PROVE  IsPathExcluded(f, list)
<1>1. PICK p \in excluded : IsPathPartOfPath(f, p)
  BY DEF IsPathExcluded
<1>2. ~IsPathPartOfPath(p, path)
  BY <1>1, PartOfTransitive
<1>3. CASE p \in Covering(excluded, path)
  <2>1. list = (Kept(excluded, path) \ {p}) \union Siblings(p, path, nodes)
    BY <1>3, CoveringUnique DEF Including
  <2>2. \E e \in Siblings(p, path, nodes) : IsPathPartOfPath(f, e)
    BY <1>1, <1>3, SiblingsComplete DEF Covering
  <2> QED BY <2>1, <2>2 DEF IsPathExcluded
<1>4. CASE p \notin Covering(excluded, path)
  <2>1. p \in list
    BY <1>2, <1>4 DEF Including, Kept
  <2> QED BY <1>1, <2>1 DEF IsPathExcluded
<1> QED BY <1>3, <1>4

\* An include leaves no entry below another one.
THEOREM IncludingApart ==
  ASSUME NEW excluded \in SUBSET Path, NonNested(excluded), NEW path \in Path,
         NEW nodes \in SUBSET Path, NEW list \in Including(excluded, path, nodes)
  PROVE  NonNested(list) /\ list \in SUBSET Path
<1>1. Kept(excluded, path) \subseteq excluded
  BY DEF Kept
<1>2. CASE Covering(excluded, path) = {}
  BY <1>1, <1>2 DEF Including, NonNested
<1>3. CASE Covering(excluded, path) # {}
  <2>1. PICK a \in Covering(excluded, path) :
          list = (Kept(excluded, path) \ {a}) \union Siblings(a, path, nodes)
    BY <1>3 DEF Including
  <2>2. a \in excluded /\ a \in Path /\ IsPathPartOfPath(path, a)
    BY DEF Covering
  <2>3. \A e \in Siblings(a, path, nodes) :
          /\ e \in Path
          /\ IsPathPartOfPath(e, a)
          /\ IsPathPartOfPath(path, ParentPath(e))
          /\ ~IsPathPartOfPath(path, e)
    BY DEF Siblings
  <2>4. ASSUME NEW d \in Siblings(a, path, nodes), NEW e \in Siblings(a, path, nodes),
               IsPathPartOfPath(d, e)
        PROVE  d = e
    <3>1. SUFFICES ASSUME d # e PROVE FALSE
      OBVIOUS
    <3>2. ParentPath(d) \in Path /\ IsPathPartOfPath(ParentPath(d), e)
      BY <2>3, <2>4, <3>1, ParentBelow
    <3> QED BY <2>3, <3>2, PartOfTransitive
  <2>5. ASSUME NEW d \in Siblings(a, path, nodes), NEW e \in Kept(excluded, path) \ {a}
        PROVE  ~IsPathPartOfPath(d, e) /\ ~IsPathPartOfPath(e, d)
    <3>1. e \in excluded /\ e \in Path /\ e # a
      BY <1>1
    <3>2. ~IsPathPartOfPath(d, e)
      BY <2>2, <2>3, <3>1, NonNestedUnique
    <3>3. ~IsPathPartOfPath(e, d)
      BY <2>2, <2>3, <3>1, PartOfTransitive DEF NonNested
    <3> QED BY <3>2, <3>3
  <2> QED BY <1>1, <2>1, <2>3, <2>4, <2>5 DEF NonNested
<1> QED BY <1>2, <1>3
=============================================================================
