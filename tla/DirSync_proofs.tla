---------------------------- MODULE DirSync_proofs ----------------------------
(***************************************************************************)
(* Proofs about folders.  The first part is about paths: prefixes, the     *)
(* chain of a folder and what is below it, trees and what keeps a tree one.*)
(* Then the types, and what is invariant about a session: a row of a folder*)
(* is of one that is here or that the user removed here, and while the root*)
(* ETag is the server's, no folder of the server is unknown to the rows or *)
(* the plan.                                                               *)
(***************************************************************************)
EXTENDS DirSync, SequenceTheorems, TLAPS

Path == Seq(STRING)

LEMMA PathsAre ==
    ASSUME NEW d \in Dirs
    PROVE  d \in Path /\ Len(d) \in Nat /\ Len(d) >= 1
<1>1. d \in Seq(STRING) /\ d # <<>> BY DirsAssumption
<1>2. Len(d) \in Nat BY <1>1, LenProperties
<1>3. Len(d) \in Nat \ {0} BY <1>1, EmptySeq
<1>. QED BY <1>1, <1>3, <1>2 DEF Path

LEMMA PrefixMeans ==
    ASSUME NEW d \in Path, NEW e \in Path
    PROVE  IsPrefix(d, e) <=> Len(d) <= Len(e) /\ \A i \in 1..Len(d) : d[i] = e[i]
<1>. /\ Len(d) \in Nat /\ Len(e) \in Nat
     /\ \A i \in 1..Len(d) : d[i] \in STRING
     /\ \A i \in 1..Len(e) : e[i] \in STRING
  BY LenProperties, ElementOfSeq DEF Path
<1>1. SubSeq(d, 1, Len(d)) = d BY SubSeqFull DEF Path
<1>2. ASSUME Len(d) <= Len(e)
      PROVE  /\ SubSeq(e, 1, Len(d)) \in Seq(STRING)
             /\ Len(SubSeq(e, 1, Len(d))) = Len(d)
             /\ \A i \in 1..Len(d) : SubSeq(e, 1, Len(d))[i] = e[i]
  <2>1. \A i \in 1..Len(d) : e[i] \in STRING BY <1>2
  <2>2. /\ SubSeq(e, 1, Len(d)) \in Seq(STRING)
        /\ Len(SubSeq(e, 1, Len(d))) = IF 1 <= Len(d) THEN Len(d) - 1 + 1 ELSE 0
        /\ \A i \in 1 .. Len(d) - 1 + 1 : SubSeq(e, 1, Len(d))[i] = e[1 + i - 1]
    BY <2>1, SubSeqProperties
  <2>. QED BY <2>2
<1>3. ASSUME IsPrefix(d, e)
      PROVE  Len(d) <= Len(e) /\ \A i \in 1..Len(d) : d[i] = e[i]
  <2>1. Len(d) <= Len(e) /\ d = SubSeq(e, 1, Len(d)) BY <1>1, <1>3 DEF IsPrefix
  <2>. QED BY <2>1, <1>2
<1>4. ASSUME Len(d) <= Len(e), \A i \in 1..Len(d) : d[i] = e[i]
      PROVE  IsPrefix(d, e)
  <2>1. \A i \in 1..Len(d) : d[i] = SubSeq(e, 1, Len(d))[i] BY <1>2, <1>4
  <2>2. d = SubSeq(e, 1, Len(d)) BY <2>1, <1>2, <1>4, SeqEqual DEF Path
  <2>. QED BY <1>1, <1>4, <2>2 DEF IsPrefix
<1>. QED BY <1>3, <1>4

\* Prefixes order the paths, and two prefixes of one path are comparable.
LEMMA PrefixOrder ==
    /\ \A d \in Path : IsPrefix(d, d)
    /\ \A d, e, f \in Path : IsPrefix(d, e) /\ IsPrefix(e, f) => IsPrefix(d, f)
    /\ \A d, e \in Path : IsPrefix(d, e) /\ Len(d) = Len(e) => d = e
    /\ \A d, e \in Path : IsPrefix(d, e) /\ IsPrefix(e, d) => d = e
    /\ \A d, e, f \in Path : IsPrefix(d, f) /\ IsPrefix(e, f) /\ Len(d) <= Len(e) => IsPrefix(d, e)
<1>. \A d \in Path : Len(d) \in Nat BY LenProperties DEF Path
<1>1. \A d \in Path : IsPrefix(d, d) BY PrefixMeans
<1>2. ASSUME NEW d \in Path, NEW e \in Path, NEW f \in Path, IsPrefix(d, e), IsPrefix(e, f)
      PROVE  IsPrefix(d, f)
  <2>1. Len(d) <= Len(e) /\ \A i \in 1..Len(d) : d[i] = e[i] BY <1>2, PrefixMeans
  <2>2. Len(e) <= Len(f) /\ \A i \in 1..Len(e) : e[i] = f[i] BY <1>2, PrefixMeans
  <2>3. Len(d) <= Len(f) /\ \A i \in 1..Len(d) : d[i] = f[i] BY <2>1, <2>2
  <2>. QED BY <2>3, PrefixMeans
<1>3. ASSUME NEW d \in Path, NEW e \in Path, IsPrefix(d, e), Len(d) = Len(e)
      PROVE  d = e
  <2>1. \A i \in 1..Len(d) : d[i] = e[i] BY <1>3, PrefixMeans
  <2>. QED BY <2>1, <1>3, SeqEqual DEF Path
<1>4. ASSUME NEW d \in Path, NEW e \in Path, IsPrefix(d, e), IsPrefix(e, d)
      PROVE  d = e
  <2>1. Len(d) <= Len(e) /\ Len(e) <= Len(d) BY <1>4, PrefixMeans
  <2>. QED BY <2>1, <1>3, <1>4
<1>5. ASSUME NEW d \in Path, NEW e \in Path, NEW f \in Path,
             IsPrefix(d, f), IsPrefix(e, f), Len(d) <= Len(e)
      PROVE  IsPrefix(d, e)
  <2>1. \A i \in 1..Len(d) : d[i] = f[i] BY <1>5, PrefixMeans
  <2>2. \A i \in 1..Len(e) : e[i] = f[i] BY <1>5, PrefixMeans
  <2>3. \A i \in 1..Len(d) : d[i] = e[i] BY <2>1, <2>2, <1>5
  <2>. QED BY <2>3, <1>5, PrefixMeans
<1>. QED BY <1>1, <1>2, <1>3, <1>4, <1>5
-----------------------------------------------------------------------------
(* Chains and trees. *)

LEMMA Below ==
    ASSUME NEW d \in Dirs, NEW e \in Dirs
    PROVE  /\ d \in Chain(d) /\ d \in Sub(d)
           /\ e \in Sub(d) <=> d \in Chain(e)
           /\ e \in Above(d) <=> e \in Chain(d) /\ e # d
           /\ e \in Chain(d) => Chain(e) \subseteq Chain(d)
           /\ e \in Above(d) => Chain(e) \subseteq Above(d)
           /\ e \in Above(d) => Above(e) \subseteq Above(d)
           /\ e \in Sub(d) => Sub(e) \subseteq Sub(d)
<1>1. Dirs \subseteq Path BY PathsAre
<1>2. IsPrefix(d, d) BY <1>1, PrefixOrder
<1>3. \A f \in Dirs, g \in Dirs, h \in Dirs : IsPrefix(f, g) /\ IsPrefix(g, h) => IsPrefix(f, h)
  BY <1>1, PrefixOrder
<1>4. \A f \in Dirs, g \in Dirs : IsPrefix(f, g) /\ IsPrefix(g, f) => f = g
  BY <1>1, PrefixOrder
<1>5. e \in Above(d) => Chain(e) \subseteq Above(d)
  <2>1. SUFFICES ASSUME e \in Above(d), NEW f \in Chain(e) PROVE f \in Above(d)
    OBVIOUS
  <2>2. f \in Dirs /\ IsPrefix(f, e) /\ IsPrefix(e, d) /\ e # d
    BY <2>1 DEF Chain, Above
  <2>3. f # d BY <2>2, <1>4
  <2>. QED BY <2>2, <2>3, <1>3 DEF Chain, Above
<1>6. Above(e) \subseteq Chain(e) BY DEF Above
<1>. QED BY <1>2, <1>3, <1>5, <1>6 DEF Chain, Sub, Above

\* A set of folders with every folder above one of them.
Tree(s) == s \subseteq Dirs /\ \A d \in s : Chain(d) \subseteq s

LEMMA Trees == \A s \in SUBSET Dirs : ChainAll(s) = s <=> Tree(s)
  BY Below DEF ChainAll, Tree

LEMMA ChainsAre ==
    /\ \A d \in Dirs : Chain(d) \subseteq Dirs /\ Above(d) \subseteq Dirs /\ Sub(d) \subseteq Dirs
    /\ \A s \in SUBSET Dirs : s \subseteq ChainAll(s) /\ Tree(ChainAll(s))
    /\ \A d \in Dirs : Tree(Chain(d)) /\ Tree(Above(d))
<1>1. \A d \in Dirs : Chain(d) \subseteq Dirs /\ Above(d) \subseteq Dirs /\ Sub(d) \subseteq Dirs
  BY DEF Chain, Above, Sub
<1>2. \A d \in Dirs : Tree(Chain(d)) /\ Tree(Above(d))
  BY <1>1, Below DEF Tree
<1>3. ASSUME NEW s \in SUBSET Dirs PROVE s \subseteq ChainAll(s) /\ Tree(ChainAll(s))
  <2>1. s \subseteq ChainAll(s) BY Below DEF ChainAll
  <2>2. ChainAll(s) \subseteq Dirs BY <1>1 DEF ChainAll
  <2>3. ASSUME NEW d \in ChainAll(s) PROVE Chain(d) \subseteq ChainAll(s)
    <3>1. PICK e \in s : d \in Chain(e) BY DEF ChainAll
    <3>2. Chain(d) \subseteq Chain(e) BY <3>1, <2>2, Below
    <3>. QED BY <3>2 DEF ChainAll
  <2>. QED BY <2>1, <2>2, <2>3 DEF Tree
<1>. QED BY <1>1, <1>2, <1>3

LEMMA TreeUnion == \A s, t : Tree(s) /\ Tree(t) => Tree(s \cup t)
  BY DEF Tree

LEMMA TreeCut ==
    ASSUME NEW s, Tree(s), NEW d \in Dirs
    PROVE  /\ Tree(s \ Sub(d))
           /\ d \notin s => s \cap Sub(d) = {}
<1>1. s \subseteq Dirs /\ \A e \in s : Chain(e) \subseteq s BY DEF Tree
<1>2. ASSUME NEW e \in s \ Sub(d), NEW f \in Chain(e) PROVE f \in s \ Sub(d)
  <2>1. f \in Dirs /\ f \in s BY <1>1, ChainsAre
  <2>2. ASSUME f \in Sub(d) PROVE FALSE
    <3>1. d \in Chain(f) BY <2>1, <2>2, Below
    <3>2. d \in Chain(e) BY <3>1, <2>1, <1>1, Below
    <3>. QED BY <3>2, <1>1, Below
  <2>. QED BY <2>1, <2>2
<1>3. ASSUME NEW e \in s \cap Sub(d) PROVE d \in s
  <2>1. d \in Chain(e) BY <1>1, Below
  <2>. QED BY <2>1, <1>1
<1>. QED BY <1>1, <1>2, <1>3 DEF Tree

\* What is left of a tree when what is below a folder goes with it.
LEMMA TreeLeft ==
    ASSUME NEW s, Tree(s), NEW t \in SUBSET s, \A d \in t : Sub(d) \cap s \subseteq t
    PROVE  Tree(s \ t)
<1>1. s \subseteq Dirs /\ \A e \in s : Chain(e) \subseteq s BY DEF Tree
<1>2. ASSUME NEW e \in s \ t, NEW f \in Chain(e) PROVE f \in s \ t
  <2>1. f \in Dirs /\ f \in s BY <1>1, ChainsAre
  <2>2. e \in Sub(f) BY <2>1, <1>1, Below
  <2>. QED BY <2>1, <2>2
<1>. QED BY <1>1, <1>2 DEF Tree

\* What a rename makes of the folders of a tree.
LEMMA RenamedOnes ==
    ASSUME NEW d \in Dirs, NEW e \in Dirs, NEW f \in Sub(d), At(d, e, f) \in Dirs,
           NEW g \in Chain(At(d, e, f))
    PROVE  g \in Chain(e) \/ \E h \in Chain(f) \cap Sub(d) : g = At(d, e, h)
<1> DEFINE x == At(d, e, f)
           n == Len(d) + (Len(g) - Len(e))
           h == SubSeq(f, 1, n)
<1>1. f \in Dirs /\ g \in Dirs /\ x \in Dirs BY DEF Sub, Chain
<1>2. /\ d \in Path /\ e \in Path /\ f \in Path /\ g \in Path /\ x \in Path
      /\ Len(d) \in Nat /\ Len(e) \in Nat /\ Len(f) \in Nat /\ Len(g) \in Nat /\ Len(x) \in Nat
      /\ Len(d) >= 1 /\ Len(g) >= 1
  BY <1>1, PathsAre
<1>3. Len(d) <= Len(f) /\ \A i \in 1..Len(d) : d[i] = f[i]
  BY <1>2, PrefixMeans DEF Sub
<1>4. IsPrefix(g, x) /\ Len(g) <= Len(x) /\ \A i \in 1..Len(g) : g[i] = x[i]
  BY <1>2, PrefixMeans DEF Chain
<1>5. \A i \in 1..Len(f) : f[i] \in STRING BY <1>2, ElementOfSeq DEF Path
<1> DEFINE r == SubSeq(f, Len(d) + 1, Len(f))
<1>6. /\ r \in Seq(STRING) /\ Len(r) = Len(f) - Len(d)
      /\ \A i \in 1..Len(f) - Len(d) : r[i] = f[Len(d) + i]
  <2>1. \A i \in Len(d) + 1..Len(f) : f[i] \in STRING BY <1>5, <1>2
  <2>2. Len(d) + 1 \in Int /\ Len(f) \in Int BY <1>2
  <2>3. /\ r \in Seq(STRING)
        /\ Len(r) = IF Len(d) + 1 <= Len(f) THEN Len(f) - (Len(d) + 1) + 1 ELSE 0
        /\ \A i \in 1..Len(f) - (Len(d) + 1) + 1 : r[i] = f[(Len(d) + 1) + i - 1]
    BY <2>1, <2>2, SubSeqProperties
  <2>4. Len(r) = Len(f) - Len(d) BY <2>3, <1>2, <1>3
  <2>5. ASSUME NEW i \in 1..Len(f) - Len(d) PROVE r[i] = f[Len(d) + i]
    <3>1. i \in 1..Len(f) - (Len(d) + 1) + 1 BY <1>2
    <3>2. r[i] = f[(Len(d) + 1) + i - 1] BY <3>1, <2>3
    <3>3. (Len(d) + 1) + i - 1 = Len(d) + i BY <1>2
    <3>. QED BY <3>2, <3>3
  <2>. QED BY <2>3, <2>4, <2>5
<1>7. /\ Len(x) = Len(e) + (Len(f) - Len(d))
      /\ \A i \in 1..Len(x) : x[i] = IF i <= Len(e) THEN e[i] ELSE f[Len(d) + (i - Len(e))]
  <2>1. /\ Len(e \o r) = Len(e) + Len(r)
        /\ \A i \in 1..Len(e) + Len(r) : (e \o r)[i] = IF i <= Len(e) THEN e[i] ELSE r[i - Len(e)]
    BY <1>2, <1>6, ConcatProperties DEF Path
  <2>2. x = e \o r BY DEF At
  <2>3. ASSUME NEW i \in 1..Len(x), i > Len(e) PROVE r[i - Len(e)] = f[Len(d) + (i - Len(e))]
    <3>1. i - Len(e) \in 1..Len(f) - Len(d) BY <2>1, <2>2, <2>3, <1>2, <1>6, <1>3
    <3>. QED BY <3>1, <1>6
  <2>. QED BY <2>1, <2>2, <2>3, <1>6, <1>2
<1>8. CASE Len(g) <= Len(e)
  <2>1. \A i \in 1..Len(g) : g[i] = e[i] BY <1>8, <1>4, <1>7, <1>2
  <2>2. IsPrefix(g, e) BY <2>1, <1>8, <1>2, PrefixMeans
  <2>. QED BY <2>2, <1>1 DEF Chain
<1>9. CASE Len(g) > Len(e)
  <2>1. n \in Nat /\ n <= Len(f) /\ n > Len(d) BY <1>9, <1>2, <1>4, <1>7, <1>3
  <2>2. h \in Dirs BY <2>1, <1>1, <1>2, DirsAssumption
  <2>3. h \in Path /\ Len(h) = n /\ \A i \in 1..n : h[i] = f[i]
    <3>1. \A i \in 1..n : f[i] \in STRING BY <2>1, <1>2, <1>5
    <3>2. /\ Len(h) = IF 1 <= n THEN n - 1 + 1 ELSE 0
          /\ \A i \in 1..n - 1 + 1 : h[i] = f[1 + i - 1]
      BY <3>1, <2>1, SubSeqProperties
    <3>. QED BY <3>2, <2>1, <2>2, PathsAre, <1>2
  <2>4. IsPrefix(h, f) BY <2>3, <2>1, <1>2, PrefixMeans
  <2>5. \A i \in 1..Len(d) : d[i] = h[i] BY <2>3, <2>1, <1>3, <1>2
  <2>6. IsPrefix(d, h)
    <3>1. Len(d) <= Len(h) BY <2>3, <2>1, <1>2
    <3>. HIDE DEF h
    <3>. QED BY <3>1, <2>5, <2>3, <1>2, PrefixMeans
  <2>7. h \in Chain(f) \cap Sub(d) BY <2>2, <2>4, <2>6 DEF Chain, Sub
  <2> DEFINE q == SubSeq(h, Len(d) + 1, Len(h))
             y == At(d, e, h)
  <2>8. /\ q \in Seq(STRING) /\ Len(q) = n - Len(d)
        /\ \A i \in 1..n - Len(d) : q[i] = h[Len(d) + i]
    <3>1. \A i \in Len(d) + 1..Len(h) : h[i] \in STRING
      BY <2>3, <2>1, <1>2, ElementOfSeq DEF Path
    <3>2. Len(d) + 1 \in Int /\ Len(h) \in Int BY <1>2, <2>3, <2>1
    <3>3. /\ q \in Seq(STRING)
          /\ Len(q) = IF Len(d) + 1 <= Len(h) THEN Len(h) - (Len(d) + 1) + 1 ELSE 0
          /\ \A i \in 1..Len(h) - (Len(d) + 1) + 1 : q[i] = h[(Len(d) + 1) + i - 1]
      BY <3>1, <3>2, SubSeqProperties
    <3>4. Len(q) = n - Len(d) BY <3>3, <2>3, <2>1, <1>2
    <3>5. ASSUME NEW i \in 1..n - Len(d) PROVE q[i] = h[Len(d) + i]
      <4>1. i \in 1..Len(h) - (Len(d) + 1) + 1 BY <1>2, <2>1, <2>3
      <4>2. q[i] = h[(Len(d) + 1) + i - 1] BY <4>1, <3>3
      <4>3. (Len(d) + 1) + i - 1 = Len(d) + i BY <1>2
      <4>. QED BY <4>2, <4>3
    <3>. QED BY <3>3, <3>4, <3>5
  <2>9. /\ e \o q \in Seq(STRING) /\ Len(e \o q) = Len(e) + Len(q)
        /\ \A i \in 1..Len(e) + Len(q) : (e \o q)[i] = IF i <= Len(e) THEN e[i] ELSE q[i - Len(e)]
    BY <1>2, <2>8, ConcatProperties DEF Path
  <2>10. y = e \o q BY DEF At
  <2>11. Len(y) = Len(g) BY <2>9, <2>10, <2>8, <1>2
  <2>12. ASSUME NEW i \in 1..Len(g) PROVE g[i] = y[i]
    <3>1. CASE i <= Len(e)
      <4>1. g[i] = x[i] /\ i \in 1..Len(x) BY <1>4, <1>2
      <4>2. x[i] = e[i] BY <4>1, <3>1, <1>7
      <4>3. i \in 1..Len(e) + Len(q) BY <2>9, <2>10, <2>11
      <4>4. y[i] = e[i] BY <4>3, <3>1, <2>9, <2>10
      <4>. QED BY <4>1, <4>2, <4>4
    <3>2. CASE i > Len(e)
      <4>1. i - Len(e) \in 1..n - Len(d) BY <3>2, <1>2
      <4>2. y[i] = q[i - Len(e)] BY <2>9, <2>10, <2>11, <3>2, <1>2
      <4>3. q[i - Len(e)] = h[Len(d) + (i - Len(e))] BY <4>1, <2>8
      <4>4. Len(d) + (i - Len(e)) \in 1..n BY <4>1, <1>2, <2>1
      <4>5. h[Len(d) + (i - Len(e))] = f[Len(d) + (i - Len(e))] BY <4>4, <2>3
      <4>6. i \in 1..Len(x) BY <1>4, <1>2
      <4>7. g[i] = f[Len(d) + (i - Len(e))] BY <4>6, <3>2, <1>4, <1>7, <1>2
      <4>. QED BY <4>2, <4>3, <4>5, <4>7
    <3>. QED BY <3>1, <3>2, <1>2
  <2>13. y \in Seq(STRING) /\ g \in Seq(STRING) BY <2>9, <2>10, <1>2 DEF Path
  <2>14. g = y BY <2>11, <2>12, <2>13, SeqEqual
  <2>. QED BY <2>7, <2>14
<1>. QED BY <1>8, <1>9, <1>2

LEMMA AtBelow ==
    ASSUME NEW d \in Dirs, NEW e \in Dirs, NEW f \in Sub(d), At(d, e, f) \in Dirs
    PROVE  At(d, e, f) \in Sub(e)
<1> DEFINE r == SubSeq(f, Len(d) + 1, Len(f))
<1>1. f \in Dirs BY DEF Sub
<1>2. /\ d \in Path /\ e \in Path /\ f \in Path /\ At(d, e, f) \in Path
      /\ Len(d) \in Nat /\ Len(e) \in Nat /\ Len(f) \in Nat
  BY <1>1, PathsAre
<1>3. \A i \in Len(d) + 1..Len(f) : f[i] \in STRING BY <1>2, ElementOfSeq DEF Path
<1>4. Len(d) + 1 \in Int /\ Len(f) \in Int BY <1>2
<1>5. r \in Seq(STRING) BY <1>3, <1>4, SubSeqProperties
<1>6. Len(r) \in Nat BY <1>5, LenProperties
<1>7. /\ Len(e \o r) = Len(e) + Len(r)
      /\ \A i \in 1..Len(e) + Len(r) : (e \o r)[i] = IF i <= Len(e) THEN e[i] ELSE r[i - Len(e)]
  BY <1>2, <1>5, ConcatProperties DEF Path
<1>8. Len(e) <= Len(e \o r) /\ \A i \in 1..Len(e) : e[i] = (e \o r)[i] BY <1>7, <1>6, <1>2
<1>9. At(d, e, f) = e \o r BY DEF At
<1>10. IsPrefix(e, e \o r)
  <2>. HIDE DEF r
  <2>. QED BY <1>8, <1>9, <1>2, PrefixMeans
<1>. QED BY <1>9, <1>10 DEF Sub

LEMMA AtSelf == \A d \in Dirs, e \in Dirs : At(d, e, d) = e
<1>. SUFFICES ASSUME NEW d \in Dirs, NEW e \in Dirs PROVE At(d, e, d) = e
  OBVIOUS
<1>1. e \in Seq(STRING) /\ Len(d) \in Nat BY PathsAre DEF Path
<1>2. SubSeq(d, Len(d) + 1, Len(d)) = << >> BY <1>1, SubSeqEmpty
<1>. QED BY <1>1, <1>2, ConcatEmptySeq DEF At

\* A renamed tree is a tree, when the target's parent is there or is made.
LEMMA RenamedTree ==
    ASSUME NEW s, Tree(s), NEW d \in Dirs, NEW e \in Dirs, d \in s,
           Renamed(d, e, s) \subseteq Dirs
    PROVE  /\ Tree(Renamed(d, e, s) \cup Above(e))
           /\ e \in Renamed(d, e, s)
           /\ Above(e) \subseteq s /\ e \notin Sub(d) => Tree(Renamed(d, e, s))
<1> DEFINE t == Renamed(d, e, s)
<1>1. s \subseteq Dirs /\ \A f \in s : Chain(f) \subseteq s BY DEF Tree
<1>2. e \in t BY AtSelf, Below DEF Renamed
<1>3. ASSUME NEW x \in t, NEW g \in Chain(x) PROVE g \in t \/ g \in Above(e)
  <2>1. CASE x \in s \ Sub(d)
    <3>1. g \in s \ Sub(d) BY <2>1, TreeCut DEF Tree
    <3>. QED BY <3>1 DEF Renamed
  <2>2. CASE x \notin s \ Sub(d)
    <3>1. PICK f \in s \cap Sub(d) : x = At(d, e, f) BY <2>2 DEF Renamed
    <3>2. At(d, e, f) \in Dirs BY <3>1
    <3>3. g \in Chain(e) \/ \E h \in Chain(f) \cap Sub(d) : g = At(d, e, h)
      BY <3>1, <3>2, RenamedOnes
    <3>4. CASE g \in Chain(e) BY <3>4, <1>2 DEF Above
    <3>5. CASE \E h \in Chain(f) \cap Sub(d) : g = At(d, e, h)
      BY <3>5, <1>1 DEF Renamed
    <3>. QED BY <3>3, <3>4, <3>5
  <2>. QED BY <2>1, <2>2
<1>4. Tree(t \cup Above(e))
  <2>1. Tree(Above(e)) BY ChainsAre
  <2>. QED BY <2>1, <1>3 DEF Tree
<1>5. ASSUME Above(e) \subseteq s, e \notin Sub(d) PROVE Tree(t)
  <2>1. ASSUME NEW g \in Above(e) PROVE g \in t
    <3>1. g \in Dirs /\ g \in s BY <2>1, <1>5, <1>1
    <3>2. g \notin Sub(d)
      <4>1. SUFFICES ASSUME g \in Sub(d) PROVE FALSE
        OBVIOUS
      <4>2. d \in Chain(g) BY <4>1, <3>1, Below
      <4>3. d \in Chain(e) BY <4>2, <3>1, <2>1, Below
      <4>. QED BY <4>3, <1>5, Below
    <3>. QED BY <3>1, <3>2 DEF Renamed
  <2>. QED BY <2>1, <1>3 DEF Tree
<1>. QED BY <1>2, <1>4, <1>5
-----------------------------------------------------------------------------
(* The types. *)

Plans == [mkcol : SUBSET Dirs, mkdir : SUBSET Dirs, delete : SUBSET Dirs, trash : SUBSET Dirs,
          keep : SUBSET Dirs, forget : SUBSET Dirs]
Skips == [delete : SUBSET Dirs, trash : SUBSET Dirs, choice : {"none", "remote", "local"}]
Etags == {"none", "same", "stale"}
Refused == skipped.delete \cup skipped.trash # {}

VaultIs == Tree(local) /\ lnote \subseteq local /\ dropped \subseteq Dirs
ServerIs == Tree(remote) /\ rnote \subseteq remote /\ late \subseteq rnote /\ fresh \subseteq rnote
RowsAre == tracked \subseteq Dirs /\ tnote \subseteq Dirs
ClientIs == proven \subseteq Dirs /\ etag \in Etags /\ skips \in 0..ForceEvery
SessionIs == /\ pc \in {"off", "list", "listed", "work", "delete", "trash"}
             /\ listing \subseteq Dirs /\ plan \in Plans
             /\ pc = "delete" => cur \in plan.delete
             /\ pc = "trash" => cur \in plan.trash
             /\ err \in BOOLEAN /\ cancelled \in BOOLEAN /\ omitted \subseteq Dirs
SkippedIs == skipped \in Skips /\ (Refused /\ Running => err)
OpsAre == ops \subseteq Ops
Types == VaultIs /\ ServerIs /\ RowsAre /\ ClientIs /\ SessionIs /\ SkippedIs /\ OpsAre

\* What a step does to the server is no news to who holds the root ETag, or takes
\* the ETag from it.
Quiet == etag' = "same" => etag = "same" /\ remote' \subseteq remote

LEMMA Restated == Types /\ back \subseteq Dirs => TypeOK
<1>. SUFFICES ASSUME Types, back \subseteq Dirs PROVE TypeOK
  OBVIOUS
<1>1. local \subseteq Dirs /\ remote \subseteq Dirs BY DEF Types, VaultIs, ServerIs, Tree
<1>2. ChainAll(local) = local /\ ChainAll(remote) = remote
  BY <1>1, Trees DEF Types, VaultIs, ServerIs
<1>3. pc \in {"delete", "trash"} => cur \in plan[pc] BY DEF Types, SessionIs
<1>4. \A k \in DOMAIN NoPlan : plan[k] \subseteq Dirs BY DEF Types, SessionIs, NoPlan, Plans
<1>5. skipped.delete \cup skipped.trash \subseteq Dirs BY DEF Types, SkippedIs, Skips
<1>6. tracked \cup tnote \cup proven \cup dropped \cup omitted \cup listing \cup back \subseteq Dirs
  BY DEF Types, VaultIs, RowsAre, ClientIs, SessionIs
<1>. QED BY <1>1, <1>2, <1>3, <1>4, <1>5, <1>6
     DEF TypeOK, Types, VaultIs, ServerIs, ClientIs, SessionIs, SkippedIs, Refused, OpsAre, Etags

LEMMA InitTypes == Init => Types
<1>. SUFFICES ASSUME Init PROVE Types
  OBVIOUS
<1>1. Tree({}) BY DEF Tree
<1>2. 0 \in 0..ForceEvery BY NumbersAssumption
<1>3. plan \in Plans /\ skipped \in Skips /\ ~Refused
  BY DEF Init, NoPlan, NoSkip, Plans, Skips, Refused
<1>. QED BY <1>1, <1>2, <1>3
     DEF Init, Types, VaultIs, ServerIs, RowsAre, ClientIs, SessionIs, SkippedIs, OpsAre, Etags

(* Requests on collections. *)

LEMMA MovedIs == ASSUME etag \in Etags, Moved PROVE etag' \in Etags \ {"same"}
  BY DEF Moved, Etags

LEMMA MadeTree ==
    ASSUME Types, NEW d \in Dirs
    PROVE  /\ ToAsk(d) \subseteq Dirs /\ Made(d) \subseteq ToAsk(d)
           /\ Tree(remote \cup Made(d))
<1>1. ToAsk(d) \subseteq Dirs /\ Made(d) \subseteq ToAsk(d) BY ChainsAre DEF ToAsk, Made
<1>2. Tree(remote) BY DEF Types, ServerIs
<1>3. ASSUME NEW e \in Made(d), NEW f \in Chain(e) PROVE f \in remote \cup Made(d)
  <2>1. e \in Dirs /\ f \in Dirs BY <1>1, ChainsAre
  <2>2. CASE f = e BY <2>2
  <2>3. CASE f # e
    <3>1. f \in Above(e) BY <2>1, <2>3, Below
    <3>2. Above(e) \subseteq remote \cup ToAsk(d) BY DEF Made
    <3>3. Above(f) \subseteq Above(e) BY <3>1, <2>1, Below
    <3>. QED BY <3>1, <3>2, <3>3 DEF Made
  <2>. QED BY <2>2, <2>3
<1>. QED BY <1>1, <1>2, <1>3 DEF Tree

LEMMA CreatedTypes ==
    ASSUME Types, NEW d \in Dirs, Created(d)
    PROVE  ServerIs' /\ proven' \subseteq Dirs /\ etag' \in Etags /\ Quiet /\ rnote' = rnote /\ late' = late
<1>1. /\ proven' = proven \cup ToAsk(d) /\ remote' = remote \cup ToAsk(d) /\ Made(d) = ToAsk(d)
      /\ rnote' = rnote /\ fresh' = fresh /\ late' = late
  BY DEF Created
<1>2. ServerIs' /\ proven' \subseteq Dirs BY <1>1, MadeTree DEF Types, ServerIs, ClientIs
<1>3. etag' \in Etags /\ Quiet
  <2>1. CASE ToAsk(d) \subseteq remote BY <2>1, <1>1 DEF Created, Types, ClientIs, Quiet
  <2>2. CASE ~(ToAsk(d) \subseteq remote)
    BY <2>2, MovedIs DEF Created, Types, ClientIs, Quiet
  <2>. QED BY <2>1, <2>2
<1>. QED BY <1>1, <1>2, <1>3

LEMMA NotCreatedTypes ==
    ASSUME Types, NEW d \in Dirs, NotCreated(d)
    PROVE  ServerIs' /\ proven' \subseteq Dirs /\ etag' \in Etags /\ Quiet /\ rnote' = rnote /\ late' = late
<1>1. PICK made \in {Made(d), {}} :
         /\ proven' = IF Made(d) = ToAsk(d) THEN proven ELSE proven \cup made
         /\ remote' = remote \cup made
         /\ IF made \subseteq remote THEN UNCHANGED etag ELSE Moved
  BY DEF NotCreated
<1>2. rnote' = rnote /\ fresh' = fresh /\ late' = late BY DEF NotCreated
<1>3. ServerIs' /\ proven' \subseteq Dirs
  <2>1. CASE made = {} BY <2>1, <1>1, <1>2 DEF Types, ServerIs, ClientIs
  <2>2. CASE made = Made(d) BY <2>2, <1>1, <1>2, MadeTree DEF Types, ServerIs, ClientIs
  <2>. QED BY <2>1, <2>2
<1>4. etag' \in Etags /\ Quiet
  <2>1. CASE made \subseteq remote BY <2>1, <1>1 DEF Types, ClientIs, Quiet
  <2>2. CASE ~(made \subseteq remote) BY <2>2, <1>1, MovedIs DEF Types, ClientIs, Quiet
  <2>. QED BY <2>1, <2>2
<1>. QED BY <1>2, <1>3, <1>4

LEMMA DeletedTypes ==
    ASSUME Types, NEW d \in Dirs, Deleted(d)
    PROVE  /\ ServerIs' /\ etag' \in Etags /\ Quiet /\ remote' \subseteq remote /\ d \notin remote'
           /\ rnote' \subseteq rnote /\ rnote \ rnote' \subseteq Sub(d) /\ rnote' \cap late \subseteq late'
<1>1. /\ remote' = remote \ Sub(d) /\ rnote' = rnote \ Sub(d)
      /\ fresh' = fresh \ Sub(d) /\ late' = late \ Sub(d)
  BY DEF Deleted
<1>2. ServerIs' BY <1>1, TreeCut DEF Types, ServerIs
<1>3. etag' \in Etags /\ Quiet BY <1>1, MovedIs DEF Deleted, Types, ClientIs, Quiet
<1>. QED BY <1>1, <1>2, <1>3, Below

(* Operations of watch mode. *)

LEMMA OpsOf ==
    ASSUME NEW s \in SUBSET Dirs
    PROVE  /\ Creations(s) \subseteq Ops /\ Deletions(s) \subseteq Ops
           /\ \A op \in Creations(s) : op.kind = "create" /\ op.at = "send" /\ op.dir \in s
           /\ \A op \in Deletions(s) : op.kind = "delete" /\ op.at = "send"
  BY DEF Creations, Deletions, Op, Ops

LEMMA OpsLess ==
    ASSUME Types, NEW op \in ops
    PROVE  /\ op \in Ops /\ op.dir \in Dirs /\ op.to \in Dirs
           /\ op.kind \in {"create", "delete", "rename"} /\ op.at \in {"send", "record"}
           /\ Dropped(op) => OpsAre' /\ ops' \subseteq ops
           /\ Answered(op) => /\ OpsAre' /\ \A o \in ops' : o \in ops \/ o = [op EXCEPT !.at = "record"]
                              /\ [op EXCEPT !.at = "record"].kind = op.kind
                              /\ [op EXCEPT !.at = "record"].dir = op.dir
                              /\ [op EXCEPT !.at = "record"].to = op.to
<1>1. op \in Ops BY DEF Types, OpsAre
<1>2. /\ op.dir \in Dirs /\ op.to \in Dirs /\ op.kind \in {"create", "delete", "rename"}
      /\ op.at \in {"send", "record"} BY <1>1 DEF Ops
<1>3. [op EXCEPT !.at = "record"] \in Ops BY <1>1 DEF Ops
<1>4. /\ [op EXCEPT !.at = "record"].kind = op.kind /\ [op EXCEPT !.at = "record"].dir = op.dir
      /\ [op EXCEPT !.at = "record"].to = op.to
  BY <1>1 DEF Ops
<1>5. Dropped(op) => OpsAre' /\ ops' \subseteq ops BY DEF Dropped, Types, OpsAre
<1>6. Answered(op) => OpsAre' /\ \A o \in ops' : o \in ops \/ o = [op EXCEPT !.at = "record"]
  BY <1>3 DEF Answered, Types, OpsAre
<1>. QED BY <1>1, <1>2, <1>4, <1>5, <1>6
-----------------------------------------------------------------------------
(* Steps keep the types. *)

LEMMA ServerKept ==
    ASSUME Types
    PROVE  /\ UNCHANGED server => ServerIs'
           /\ UNCHANGED <<etag, remote>> => Quiet
           /\ UNCHANGED <<proven, gate>> => ClientIs'
           /\ UNCHANGED rows => RowsAre'
           /\ UNCHANGED <<session, skipped>> => SessionIs' /\ SkippedIs'
           /\ UNCHANGED <<vault, dropped>> => VaultIs'
           /\ UNCHANGED ops => OpsAre'
<1>1. UNCHANGED <<session, skipped>> => SkippedIs'
  BY DEF Types, SkippedIs, session, Refused, Running
<1>. QED BY <1>1 DEF Types, ServerIs, Quiet, ClientIs, RowsAre, SessionIs, VaultIs, OpsAre,
                   server, gate, rows, session, vault

LEMMA MkdirTypes ==
    ASSUME Types, NEW d \in Dirs, UserMkdir(d)
    PROVE  Types' /\ Quiet
<1>1. /\ local' = local \cup {d} /\ lnote' = lnote /\ dropped' = dropped \ {d}
      /\ Above(d) \subseteq local /\ ops' = ops \cup Creations({d})
      /\ UNCHANGED <<server, rows, proven, gate, session, skipped>>
      /\ UNCHANGED <<etag, remote>>
  BY DEF UserMkdir, vault, server, gate
<1>2. VaultIs'
  <2>1. Chain(d) \subseteq local \cup {d} BY <1>1 DEF Above
  <2>2. Tree(local') BY <2>1, <1>1 DEF Tree, Types, VaultIs
  <2>. QED BY <2>2, <1>1 DEF Types, VaultIs
<1>3. OpsAre' BY <1>1, OpsOf DEF Types, OpsAre
<1>. QED BY <1>1, <1>2, <1>3, ServerKept DEF Types

LEMMA NoteTypes ==
    ASSUME Types, NEW d \in Dirs, UserNote(d)
    PROVE  Types' /\ Quiet
<1>1. /\ local' = local /\ lnote' = lnote \cup {d} /\ dropped' = dropped /\ d \in local
      /\ UNCHANGED <<server, rows, proven, gate, session, skipped>>
      /\ UNCHANGED <<etag, remote>> /\ UNCHANGED ops
  BY DEF UserNote, vault, server, gate
<1>2. VaultIs' BY <1>1 DEF Types, VaultIs
<1>. QED BY <1>1, <1>2, ServerKept DEF Types

LEMMA RemoveTypes ==
    ASSUME Types, NEW d \in Dirs, UserRemove(d)
    PROVE  Types' /\ Quiet
<1>1. /\ local' = local \ Sub(d) /\ lnote' = lnote \ Sub(d)
      /\ dropped' = dropped \cup (Sub(d) \cap local)
      /\ ops' = ops \cup Deletions(Sub(d) \cap local)
      /\ UNCHANGED <<server, rows, proven, gate, session, skipped>>
      /\ UNCHANGED <<etag, remote>>
  BY DEF UserRemove, vault, server, gate
<1>2. Tree(local') BY <1>1, TreeCut DEF Types, VaultIs
<1>3. Sub(d) \subseteq Dirs BY ChainsAre
<1>4. VaultIs' BY <1>1, <1>2, <1>3 DEF Types, VaultIs
<1>5. OpsAre' BY <1>1, <1>3, OpsOf DEF Types, OpsAre
<1>. QED BY <1>1, <1>4, <1>5, ServerKept DEF Types

LEMMA RenameTypes ==
    ASSUME Types, NEW d \in Dirs, NEW e \in Dirs, UserRename(d, e)
    PROVE  Types' /\ Quiet /\ e \in local'
<1>1. /\ local' = Renamed(d, e, local) /\ lnote' = Renamed(d, e, lnote)
      /\ dropped' = (dropped \cup (Sub(d) \cap local)) \ local'
      /\ d \in local /\ e \notin Sub(d) /\ Above(e) \subseteq local
      /\ Renamed(d, e, local) \subseteq Dirs
      /\ ops' = ops \cup {Op("rename", d, e)}
      /\ UNCHANGED <<server, rows, proven, gate, session, skipped>>
      /\ UNCHANGED <<etag, remote>>
  BY DEF UserRename, vault, server, gate
<1>2. Tree(local') /\ e \in local' BY <1>1, RenamedTree DEF Types, VaultIs
<1>3. lnote' \subseteq local' BY <1>1 DEF Types, VaultIs, Renamed
<1>4. Sub(d) \subseteq Dirs BY ChainsAre
<1>5. VaultIs' BY <1>1, <1>2, <1>3, <1>4 DEF Types, VaultIs
<1>6. OpsAre' BY <1>1 DEF Types, OpsAre, Op, Ops
<1>. QED BY <1>1, <1>2, <1>5, <1>6, ServerKept DEF Types

LEMMA ForeignTypes ==
    ASSUME Types, NEW d \in Dirs, ForeignMkdir(d) \/ ForeignNote(d) \/ ForeignRemove(d)
    PROVE  Types' /\ Quiet
<1>1. /\ UNCHANGED <<vault, dropped>> /\ UNCHANGED rows /\ UNCHANGED <<session, skipped>>
      /\ UNCHANGED ops /\ proven' = proven /\ skips' = skips
  BY DEF ForeignMkdir, ForeignNote, ForeignRemove
<1>2. ASSUME ForeignMkdir(d) PROVE ServerIs' /\ etag' \in Etags /\ Quiet
  <2>1. remote' = remote \cup Chain(d) /\ rnote' = rnote /\ fresh' = fresh /\ late' = late /\ Moved
    BY <1>2 DEF ForeignMkdir
  <2>2. Tree(remote') BY <2>1, ChainsAre, TreeUnion DEF Types, ServerIs
  <2>. QED BY <2>1, <2>2, MovedIs DEF Types, ServerIs, ClientIs, Quiet
<1>3. ASSUME ForeignNote(d) PROVE ServerIs' /\ etag' \in Etags /\ Quiet
  <2>1. /\ remote' = remote /\ rnote' = rnote \cup {d} /\ fresh' = fresh \cup {d}
        /\ late' = late \cup {d} /\ d \in remote /\ Moved
    BY <1>3 DEF ForeignNote
  <2>. QED BY <2>1, MovedIs DEF Types, ServerIs, ClientIs, Quiet
<1>4. ASSUME ForeignRemove(d) PROVE ServerIs' /\ etag' \in Etags /\ Quiet
  BY <1>4, DeletedTypes DEF ForeignRemove
<1>5. ServerIs' /\ etag' \in Etags /\ Quiet BY <1>2, <1>3, <1>4
<1>6. ClientIs' BY <1>1, <1>5 DEF Types, ClientIs
<1>. QED BY <1>1, <1>5, <1>6, ServerKept DEF Types

LEMMA StartTypes == ASSUME Types, StartSession PROVE Types'
<1> DEFINE listed == IF ShortCircuit THEN tnote ELSE rnote
           up == lnote \ (listed \cup tnote)
           gone == (listed \cap tnote) \ lnote
           down == (listed \ (lnote \cup tnote)) \cup (gone \cap fresh)
           erased == (lnote \cap tnote) \ (listed \cup rnote)
<1>1. /\ lnote' = (lnote \cup down) \ erased
      /\ local' = local \cup ChainAll(down)
      /\ rnote' = (rnote \cup up) \ (gone \ fresh)
      /\ remote' = remote \cup ChainAll(up)
      /\ fresh' = fresh \ listed /\ late' = {}
      /\ tnote' = lnote' \cap (rnote' \cup tnote)
      /\ proven' = proven \cup ChainAll(up)
      /\ ops' = ops \cup Creations(ChainAll(down) \ local)
      /\ dropped' = dropped \ local'
      /\ etag' = (IF up = {} /\ gone \ fresh = {} THEN "same" ELSE "stale")
      /\ skips' = CountSkip
      /\ pc' \in {"list", "listed"} /\ (listing' = tracked \/ listing' = listing)
      /\ err' = FALSE /\ cancelled' = FALSE /\ skipped' = NoSkip
      /\ UNCHANGED <<tracked, plan, cur, omitted>>
  BY DEF StartSession
<1>2. /\ lnote \subseteq Dirs /\ rnote \subseteq Dirs /\ tnote \subseteq Dirs
      /\ lnote \subseteq local /\ rnote \subseteq remote /\ fresh \subseteq rnote
      /\ Tree(local) /\ Tree(remote)
  BY DEF Types, VaultIs, ServerIs, RowsAre, Tree
<1>3. listed \subseteq Dirs /\ up \subseteq Dirs /\ down \subseteq Dirs BY <1>2
<1>4. /\ up \subseteq ChainAll(up) /\ down \subseteq ChainAll(down)
      /\ Tree(ChainAll(up)) /\ Tree(ChainAll(down))
  BY <1>3, ChainsAre
<1>5. VaultIs'
  <2>1. Tree(local') BY <1>1, <1>2, <1>4, TreeUnion
  <2>2. lnote' \subseteq local' BY <1>1, <1>2, <1>4
  <2>. QED BY <2>1, <2>2, <1>1 DEF Types, VaultIs
<1>6. ServerIs'
  <2>1. Tree(remote') BY <1>1, <1>2, <1>4, TreeUnion
  <2>2. rnote' \subseteq remote' BY <1>1, <1>2, <1>4
  <2>3. fresh' \subseteq rnote'
    <3>1. ASSUME NEW f \in fresh' PROVE f \in rnote'
      <4>1. f \in fresh /\ f \in rnote BY <3>1, <1>1, <1>2
      <4>. QED BY <4>1, <1>1
    <3>. QED BY <3>1
  <2>. QED BY <2>1, <2>2, <2>3, <1>1 DEF ServerIs
<1>7. RowsAre' BY <1>1, <1>2 DEF Types, RowsAre
<1>8. ClientIs'
  <2>1. proven' \subseteq Dirs BY <1>1, <1>4 DEF Types, ClientIs, Tree
  <2>2. skips' \in 0..ForceEvery
    BY <1>1, NumbersAssumption DEF Types, ClientIs, CountSkip, ShortCircuit
  <2>. QED BY <2>1, <2>2, <1>1 DEF ClientIs, Etags
<1>9. SessionIs' /\ SkippedIs'
  <2>1. NoSkip \in Skips /\ ~Refused' BY <1>1 DEF NoSkip, Skips, Refused
  <2>. QED BY <2>1, <1>1 DEF Types, RowsAre, SessionIs, SkippedIs, Running
<1>10. OpsAre'
  <2>1. ChainAll(down) \ local \in SUBSET Dirs BY <1>4 DEF Tree
  <2>. QED BY <2>1, <1>1, OpsOf DEF Types, OpsAre
<1>. QED BY <1>5, <1>6, <1>7, <1>8, <1>9, <1>10 DEF Types

LEMMA StopTypes == ASSUME Types, RequestStop PROVE Types' /\ Quiet
<1>1. /\ UNCHANGED <<vault, dropped>> /\ UNCHANGED server /\ UNCHANGED rows /\ UNCHANGED <<proven, gate>>
      /\ UNCHANGED ops /\ UNCHANGED <<etag, remote>>
      /\ UNCHANGED <<pc, listing, plan, cur, err, omitted, skipped>> /\ cancelled' = TRUE
  BY DEF RequestStop, server, gate
<1>2. SessionIs' /\ SkippedIs' BY <1>1 DEF Types, SessionIs, SkippedIs, Refused, Running
<1>. QED BY <1>1, <1>2, ServerKept DEF Types

LEMMA ListTypes ==
    ASSUME Types, List \/ ListPartly
    PROVE  Types' /\ Quiet
<1>1. remote \subseteq Dirs BY DEF Types, ServerIs, Tree
<1>2. PICK R \in SUBSET remote : Listed(R) /\ omitted' \subseteq remote BY DEF List, ListPartly
<1>3. /\ UNCHANGED <<vault, dropped>> /\ UNCHANGED server /\ UNCHANGED rows /\ UNCHANGED <<proven, gate>>
      /\ UNCHANGED ops /\ UNCHANGED <<etag, remote>>
      /\ pc' = "listed" /\ listing' = R /\ UNCHANGED <<plan, cur, err, cancelled, skipped>>
  BY <1>2 DEF Listed, server, gate
<1>4. SessionIs' BY <1>1, <1>2, <1>3 DEF Types, SessionIs
<1>5. SkippedIs'
  <2>1. Running BY DEF List, ListPartly, Running
  <2>. QED BY <2>1, <1>3 DEF Types, SkippedIs, Refused
<1>. QED BY <1>3, <1>4, <1>5, ServerKept DEF Types

LEMMA ReconcileTypes == ASSUME Types, Reconcile PROVE Types' /\ Quiet
<1> DEFINE p == Classify(listing)
<1>1. /\ UNCHANGED <<vault, dropped>> /\ UNCHANGED server /\ UNCHANGED rows /\ UNCHANGED <<proven, gate>>
      /\ UNCHANGED ops /\ UNCHANGED <<etag, remote>>
      /\ pc = "listed" /\ pc' = "work" /\ listing' = {} /\ UNCHANGED <<cur, cancelled, omitted>>
      /\ \/ Refuse(p)
         \/ plan' = p /\ UNCHANGED <<skipped, err>>
  BY DEF Reconcile, server, gate
<1>2. local \subseteq Dirs /\ tracked \subseteq Dirs /\ listing \subseteq Dirs
  BY DEF Types, VaultIs, Tree, RowsAre, SessionIs
<1>3. p \in Plans BY <1>2 DEF Classify, Plans
<1>4. CASE Refuse(p)
  <2>1. /\ plan' = [p EXCEPT !.delete = {}, !.trash = {}] /\ err' = TRUE
        /\ skipped' = [NoSkip EXCEPT !.delete = p.delete, !.trash = p.trash]
    BY <1>4 DEF Refuse
  <2>2. plan' \in Plans BY <2>1, <1>3 DEF Plans
  <2>3. p.delete \subseteq Dirs /\ p.trash \subseteq Dirs BY <1>3 DEF Plans
  <2>4. skipped' \in Skips BY <2>1, <2>3 DEF NoSkip, Skips
  <2>5. SessionIs' /\ SkippedIs' BY <2>1, <2>2, <2>4, <1>1 DEF Types, SessionIs, SkippedIs
  <2>. QED BY <2>5, <1>1, ServerKept DEF Types
<1>5. CASE plan' = p /\ UNCHANGED <<skipped, err>>
  <2>1. SessionIs' /\ SkippedIs'
    BY <1>5, <1>1, <1>3 DEF Types, SessionIs, SkippedIs, Refused, Running
  <2>. QED BY <2>1, <1>1, ServerKept DEF Types
<1>. QED BY <1>1, <1>4, <1>5

LEMMA EndTypes ==
    ASSUME Types, End, Running, RowsAre', omitted' \subseteq Dirs
    PROVE  Types' /\ Quiet
<1>1. /\ UNCHANGED <<vault, dropped>> /\ UNCHANGED server /\ UNCHANGED ops
      /\ remote' = remote /\ proven' = proven /\ skips' = skips /\ UNCHANGED <<listing, cur, err, cancelled, skipped>>
      /\ pc' = "off" /\ plan' = NoPlan /\ (etag' = "none" \/ etag' = etag)
  BY DEF End, Gate, server
<1>2. ClientIs' /\ Quiet BY <1>1 DEF Types, ClientIs, Etags, Quiet
<1>3. NoPlan \in Plans BY DEF NoPlan, Plans
<1>4. SessionIs' BY <1>1, <1>3 DEF Types, SessionIs
<1>5. SkippedIs' BY <1>1 DEF Types, SkippedIs, Refused, Running
<1>. QED BY <1>1, <1>2, <1>4, <1>5, ServerKept DEF Types

LEMMA EndsTypes ==
    ASSUME Types, ListFails \/ Finish
    PROVE  Types' /\ Quiet
<1>1. remote \subseteq Dirs BY DEF Types, ServerIs, Tree
<1>2. CASE ListFails
  <2>1. End /\ Running /\ omitted' = remote /\ UNCHANGED rows BY <1>2 DEF ListFails, Running
  <2>. QED BY <2>1, <1>1, EndTypes, ServerKept
<1>3. CASE Finish
  <2>1. End /\ Running /\ tracked' = (tracked \cup plan.keep) \ plan.forget /\ tnote' = tnote
        /\ omitted' = omitted \cup plan.mkdir
    BY <1>3 DEF Finish, Running
  <2>2. plan.keep \subseteq Dirs /\ plan.mkdir \subseteq Dirs BY DEF Types, SessionIs, Plans
  <2>3. RowsAre' /\ omitted' \subseteq Dirs BY <2>1, <2>2 DEF Types, RowsAre, SessionIs
  <2>. QED BY <2>1, <2>3, EndTypes
<1>. QED BY <1>2, <1>3

LEMMA TurnIs ==
    ASSUME NEW d
    PROVE  /\ Turn("mkcol", d) => pc = "work" /\ d \in plan.mkcol
           /\ Turn("mkdir", d) => pc = "work" /\ d \in plan.mkdir
           /\ Turn("delete", d) => pc = "work" /\ d \in plan.delete
           /\ Turn("trash", d) => pc = "work" /\ d \in plan.trash /\ plan.mkcol = {}
<1>1. Turn("mkcol", d) => pc = "work" /\ d \in plan.mkcol BY DEF Turn, Shallow
<1>2. Turn("mkdir", d) => pc = "work" /\ d \in plan.mkdir BY DEF Turn, Shallow
<1>3. Turn("delete", d) => pc = "work" /\ d \in plan.delete BY DEF Turn, Deep
<1>4. Turn("trash", d) => pc = "work" /\ d \in plan.trash /\ plan.mkcol = {} BY DEF Turn, Deep, Pending
<1>. QED BY <1>1, <1>2, <1>3, <1>4

LEMMA PastIs ==
    ASSUME Types, NEW d
    PROVE  /\ Past("mkcol", d) => /\ plan' \in Plans /\ plan'.mkcol = plan.mkcol \ {d}
                                  /\ plan'.mkdir = plan.mkdir /\ plan'.keep = plan.keep
                                  /\ plan'.trash = plan.trash /\ plan'.forget = plan.forget
           /\ Past("mkdir", d) => /\ plan' \in Plans /\ plan'.mkcol = plan.mkcol
                                  /\ plan'.mkdir = plan.mkdir \ {d} /\ plan'.keep = plan.keep
                                  /\ plan'.trash = plan.trash /\ plan'.forget = plan.forget
           /\ Past("delete", d) => /\ plan' \in Plans /\ plan'.mkcol = plan.mkcol
                                   /\ plan'.mkdir = plan.mkdir /\ plan'.keep = plan.keep
                                   /\ plan'.trash = plan.trash /\ plan'.forget = plan.forget
           /\ Past("trash", d) => /\ plan' \in Plans /\ plan'.mkcol = plan.mkcol
                                  /\ plan'.mkdir = plan.mkdir /\ plan'.keep = plan.keep
                                  /\ plan'.trash = plan.trash \ {d} /\ plan'.forget = plan.forget
<1>. plan \in Plans BY DEF Types, SessionIs
<1>1. Past("mkcol", d) => /\ plan' \in Plans /\ plan'.mkcol = plan.mkcol \ {d}
                          /\ plan'.mkdir = plan.mkdir /\ plan'.keep = plan.keep
                          /\ plan'.trash = plan.trash /\ plan'.forget = plan.forget
  BY DEF Past, Plans
<1>2. Past("mkdir", d) => /\ plan' \in Plans /\ plan'.mkcol = plan.mkcol
                          /\ plan'.mkdir = plan.mkdir \ {d} /\ plan'.keep = plan.keep
                          /\ plan'.trash = plan.trash /\ plan'.forget = plan.forget
  BY DEF Past, Plans
<1>3. Past("delete", d) => /\ plan' \in Plans /\ plan'.mkcol = plan.mkcol
                           /\ plan'.mkdir = plan.mkdir /\ plan'.keep = plan.keep
                           /\ plan'.trash = plan.trash /\ plan'.forget = plan.forget
  BY DEF Past, Plans
<1>4. Past("trash", d) => /\ plan' \in Plans /\ plan'.mkcol = plan.mkcol
                          /\ plan'.mkdir = plan.mkdir /\ plan'.keep = plan.keep
                          /\ plan'.trash = plan.trash \ {d} /\ plan'.forget = plan.forget
  BY DEF Past, Plans
<1>. QED BY <1>1, <1>2, <1>3, <1>4

LEMMA WorkTypes ==   \* the session is where it was, or back at work, and counts errors
    ASSUME Types, Running, plan' \in Plans, UNCHANGED <<listing, cancelled, omitted, skipped>>,
           err' = err \/ err' = TRUE,
           \/ pc' = "work"
           \/ pc' \in {"delete", "trash"} /\ cur' \in plan[pc'] /\ plan' = plan
    PROVE  SessionIs' /\ SkippedIs'
<1>1. SessionIs' BY DEF Types, SessionIs
<1>2. SkippedIs' BY DEF Types, SkippedIs, SessionIs, Refused, Running
<1>. QED BY <1>1, <1>2

LEMMA MkcolTypes ==
    ASSUME Types, NEW d \in Dirs, MkcolRemote(d)
    PROVE  Types' /\ Quiet /\ rnote' = rnote /\ late' = late
<1>1. /\ UNCHANGED <<vault, dropped>> /\ UNCHANGED ops /\ skips' = skips /\ tnote' = tnote
      /\ UNCHANGED <<listing, cancelled, omitted, skipped>> /\ pc' = pc
      /\ err' = err \/ err' = TRUE
      /\ tracked' \subseteq tracked \cup {d}
      /\ Created(d) \/ NotCreated(d)
      /\ Turn("mkcol", d) /\ Past("mkcol", d)
  BY DEF MkcolRemote
<1>2. ServerIs' /\ proven' \subseteq Dirs /\ etag' \in Etags /\ Quiet /\ rnote' = rnote /\ late' = late
  BY <1>1, CreatedTypes, NotCreatedTypes
<1>3. plan' \in Plans /\ pc = "work" BY <1>1, TurnIs, PastIs
<1>4. SessionIs' /\ SkippedIs' BY <1>1, <1>3, WorkTypes DEF Running
<1>5. RowsAre' BY <1>1 DEF Types, RowsAre
<1>6. ClientIs' BY <1>1, <1>2 DEF Types, ClientIs
<1>. QED BY <1>1, <1>2, <1>4, <1>5, <1>6, ServerKept DEF Types

LEMMA ChainHere ==
    ASSUME Types, NEW d \in Dirs, local' = local \cup Chain(d), lnote' = lnote, dropped' = dropped \ Chain(d),
           ops' = ops \cup Creations(Chain(d) \ local)
    PROVE  VaultIs' /\ OpsAre' /\ d \in local'
<1>1. Tree(local') BY ChainsAre, TreeUnion DEF Types, VaultIs
<1>2. VaultIs' BY <1>1 DEF Types, VaultIs
<1>3. Chain(d) \ local \in SUBSET Dirs BY ChainsAre
<1>4. OpsAre' BY <1>3, OpsOf DEF Types, OpsAre
<1>. QED BY <1>2, <1>4, Below

LEMMA MkdirLocalTypes ==
    ASSUME Types, NEW d \in Dirs, MkdirLocal(d)
    PROVE  Types' /\ Quiet
<1>1. /\ UNCHANGED server /\ UNCHANGED <<proven, gate>> /\ UNCHANGED <<etag, remote>>
      /\ tnote' = tnote /\ lnote' = lnote
      /\ UNCHANGED <<listing, cancelled, omitted, skipped>> /\ pc' = pc
      /\ err' = err \/ err' = TRUE
      /\ tracked' \subseteq tracked \cup {d}
      /\ Turn("mkdir", d) /\ Past("mkdir", d)
      /\ \/ /\ local' = local \cup Chain(d) /\ dropped' = dropped \ Chain(d)
            /\ ops' = ops \cup Creations(Chain(d) \ local)
         \/ UNCHANGED <<local, dropped, ops>>
  BY DEF MkdirLocal, server, gate
<1>2. plan' \in Plans /\ pc = "work" BY <1>1, TurnIs, PastIs
<1>3. SessionIs' /\ SkippedIs' BY <1>1, <1>2, WorkTypes DEF Running
<1>4. RowsAre' BY <1>1 DEF Types, RowsAre
<1>5. VaultIs' /\ OpsAre' BY <1>1, ChainHere, ServerKept DEF vault
<1>. QED BY <1>1, <1>3, <1>4, <1>5, ServerKept DEF Types

LEMMA ProbeTypes ==
    ASSUME Types, NEW d \in Dirs, Probe(d) \/ Recheck(d)
    PROVE  Types' /\ Quiet
<1>1. /\ UNCHANGED <<vault, dropped>> /\ UNCHANGED rows /\ UNCHANGED <<proven, gate>>
      /\ UNCHANGED <<etag, remote>> /\ UNCHANGED ops
      /\ remote' = remote /\ rnote' = rnote /\ fresh' = fresh /\ (late' = late \/ late' = {})
      /\ UNCHANGED <<listing, err, cancelled, omitted, skipped>>
  BY DEF Probe, Recheck, gate, server
<1>2. ServerIs' BY <1>1 DEF Types, ServerIs
<1>3. SessionIs' /\ SkippedIs'
  <2>1. CASE Probe(d)
    <3>1. Turn("delete", d) BY <2>1 DEF Probe
    <3>2. \/ pc' = "delete" /\ cur' = d /\ plan' = plan
          \/ Past("delete", d) /\ pc' = pc
      BY <2>1 DEF Probe
    <3>3. pc = "work" /\ d \in plan.delete BY <3>1, TurnIs
    <3>4. plan' \in Plans BY <3>2, PastIs DEF Types, SessionIs
    <3>. QED BY <3>2, <3>3, <3>4, <1>1, WorkTypes DEF Running
  <2>2. CASE Recheck(d)
    <3>1. Turn("trash", d) BY <2>2 DEF Recheck
    <3>2. \/ pc' = "trash" /\ cur' = d /\ plan' = plan
          \/ Past("trash", d) /\ pc' = pc
      BY <2>2 DEF Recheck
    <3>3. pc = "work" /\ d \in plan.trash BY <3>1, TurnIs
    <3>4. plan' \in Plans BY <3>2, PastIs DEF Types, SessionIs
    <3>. QED BY <3>2, <3>3, <3>4, <1>1, WorkTypes DEF Running
  <2>. QED BY <2>1, <2>2
<1>. QED BY <1>1, <1>2, <1>3, ServerKept DEF Types

LEMMA CurIs ==
    /\ Types /\ pc = "delete" => cur \in Dirs /\ cur \in plan.delete /\ Running
    /\ Types /\ pc = "trash" => cur \in Dirs /\ cur \in plan.trash /\ Running
  BY DEF Types, SessionIs, Plans, Running

LEMMA DeleteTypes == ASSUME Types, DeleteRemote PROVE Types' /\ Quiet
<1>1. /\ UNCHANGED <<vault, dropped>> /\ UNCHANGED ops /\ skips' = skips /\ tnote' = tnote
      /\ proven' = proven
      /\ UNCHANGED <<listing, cancelled, omitted, skipped>> /\ pc = "delete" /\ pc' = "work"
      /\ err' = err \/ err' = TRUE
      /\ tracked' \subseteq tracked
      /\ Deleted(cur) \/ UNCHANGED <<server, etag>>
      /\ Past("delete", cur)
  BY DEF DeleteRemote
<1>2. cur \in Dirs /\ Running BY <1>1, CurIs
<1>3. ServerIs' /\ etag' \in Etags /\ Quiet
  <2>1. CASE Deleted(cur) BY <2>1, <1>2, DeletedTypes
  <2>2. CASE UNCHANGED <<server, etag>>
    <3>1. UNCHANGED server /\ UNCHANGED <<etag, remote>> BY <2>2 DEF server
    <3>. QED BY <3>1, ServerKept DEF Types, ClientIs
  <2>. QED BY <1>1, <2>1, <2>2
<1>4. plan' \in Plans BY <1>1, PastIs
<1>5. SessionIs' /\ SkippedIs' BY <1>1, <1>2, <1>4, WorkTypes
<1>6. RowsAre' BY <1>1 DEF Types, RowsAre
<1>7. ClientIs' BY <1>1, <1>3 DEF Types, ClientIs
<1>. QED BY <1>1, <1>3, <1>5, <1>6, <1>7, ServerKept DEF Types

LEMMA TrashedTypes ==
    ASSUME Types, NEW d \in Dirs, Trashed(d), dropped' = dropped
    PROVE  VaultIs' /\ RowsAre'
<1>1. /\ local' = local \ Sub(d) /\ lnote' = lnote \ Sub(d)
      /\ tracked' = tracked \ Sub(d) /\ tnote' = tnote \ Sub(d)
  BY DEF Trashed, Forget
<1>2. Tree(local') BY <1>1, TreeCut DEF Types, VaultIs
<1>. QED BY <1>1, <1>2 DEF Types, VaultIs, RowsAre

LEMMA TrashTypes == ASSUME Types, TrashLocal PROVE Types' /\ Quiet
<1>1. /\ UNCHANGED server /\ UNCHANGED <<proven, gate>> /\ UNCHANGED <<etag, remote>> /\ UNCHANGED ops
      /\ UNCHANGED <<listing, cancelled, omitted, skipped>> /\ pc = "trash" /\ pc' = "work"
      /\ err' = err \/ err' = TRUE
      /\ dropped' = dropped
      /\ Trashed(cur) \/ UNCHANGED <<vault, rows>>
      /\ Past("trash", cur)
  BY DEF TrashLocal, server, gate
<1>2. cur \in Dirs /\ Running BY <1>1, CurIs
<1>3. VaultIs' /\ RowsAre'
  <2>1. CASE Trashed(cur) BY <2>1, <1>1, <1>2, TrashedTypes
  <2>2. CASE UNCHANGED <<vault, rows>> BY <2>2, <1>1, ServerKept
  <2>. QED BY <1>1, <2>1, <2>2
<1>4. plan' \in Plans BY <1>1, PastIs
<1>5. SessionIs' /\ SkippedIs' BY <1>1, <1>2, <1>4, WorkTypes
<1>. QED BY <1>1, <1>3, <1>5, ServerKept DEF Types

LEMMA ResolvingTypes ==
    ASSUME Types, ~Running, UNCHANGED session,
           skipped'.delete \subseteq skipped.delete, skipped'.trash \subseteq skipped.trash, skipped' \in Skips
    PROVE  SessionIs' /\ SkippedIs'
  BY DEF Types, SessionIs, SkippedIs, Refused, Running, session

LEMMA ResolveDeleteTypes ==
    ASSUME Types, NEW d \in Dirs, NEW c \in {"remote", "local"}, ResolveDelete(d, c)
    PROVE  Types' /\ Quiet /\ ~Running
<1>1. /\ ~Running /\ d \in skipped.delete
      /\ skipped' = [skipped EXCEPT !.delete = @ \ {d}, !.choice = c]
      /\ lnote' = lnote /\ tnote' = tnote /\ proven' = proven /\ skips' = skips /\ UNCHANGED session
  BY DEF ResolveDelete, Resolving
<1>2. /\ skipped' \in Skips /\ skipped'.delete = skipped.delete \ {d} /\ skipped'.trash = skipped.trash
  BY <1>1 DEF Types, SkippedIs, Skips
<1>3. SessionIs' /\ SkippedIs' BY <1>1, <1>2, ResolvingTypes
<1>4. CASE c = "remote"
  <2>1. /\ local' = local \cup Chain(d) /\ tracked' = tracked \cup {d}
        /\ ops' = ops \cup Creations(Chain(d) \ local)
        /\ dropped' = dropped \ Chain(d)
        /\ UNCHANGED server /\ UNCHANGED <<etag, remote>> /\ UNCHANGED <<proven, gate>>
    BY <1>1, <1>4 DEF ResolveDelete, server, gate
  <2>2. VaultIs' /\ OpsAre' BY <2>1, <1>1, ChainHere
  <2>3. RowsAre' BY <2>1, <1>1 DEF Types, RowsAre
  <2>. QED BY <2>1, <2>2, <2>3, <1>1, <1>3, ServerKept DEF Types
<1>5. CASE c # "remote"
  <2>1. /\ Deleted(d) /\ tracked' = tracked \ {d} /\ UNCHANGED <<vault, dropped>> /\ UNCHANGED ops
    BY <1>1, <1>5 DEF ResolveDelete, vault
  <2>2. ServerIs' /\ etag' \in Etags /\ Quiet BY <2>1, DeletedTypes
  <2>3. RowsAre' BY <2>1, <1>1 DEF Types, RowsAre
  <2>4. ClientIs' BY <2>2, <1>1 DEF Types, ClientIs
  <2>. QED BY <2>1, <2>2, <2>3, <2>4, <1>1, <1>3, ServerKept DEF Types
<1>. QED BY <1>4, <1>5

LEMMA ResolveTrashTypes ==
    ASSUME Types, NEW d \in Dirs, NEW c \in {"remote", "local"}, ResolveTrash(d, c)
    PROVE  Types' /\ Quiet /\ ~Running
<1>1. /\ ~Running /\ d \in skipped.trash
      /\ skipped' = [skipped EXCEPT !.trash = @ \ {d}, !.choice = c]
      /\ skips' = skips /\ UNCHANGED session /\ UNCHANGED ops /\ dropped' = dropped
  BY DEF ResolveTrash, Resolving
<1>2. /\ skipped' \in Skips /\ skipped'.delete = skipped.delete /\ skipped'.trash = skipped.trash \ {d}
  BY <1>1 DEF Types, SkippedIs, Skips
<1>3. SessionIs' /\ SkippedIs' BY <1>1, <1>2, ResolvingTypes
<1>4. CASE c = "remote"
  <2>1. Trashed(d) /\ UNCHANGED server /\ UNCHANGED <<etag, remote>> /\ UNCHANGED <<proven, gate>>
    BY <1>1, <1>4 DEF ResolveTrash, server, gate
  <2>2. VaultIs' /\ RowsAre' BY <2>1, <1>1, TrashedTypes
  <2>. QED BY <2>1, <2>2, <1>1, <1>3, ServerKept DEF Types
<1>5. CASE c # "remote"
  <2>1. Created(d) /\ tracked' = tracked \cup {d} /\ UNCHANGED <<vault, dropped>> /\ tnote' = tnote
    BY <1>1, <1>5 DEF ResolveTrash, vault
  <2>2. ServerIs' /\ proven' \subseteq Dirs /\ etag' \in Etags /\ Quiet BY <2>1, CreatedTypes
  <2>3. RowsAre' BY <2>1, <1>1 DEF Types, RowsAre
  <2>4. ClientIs' BY <2>2, <1>1 DEF Types, ClientIs
  <2>. QED BY <2>1, <2>2, <2>3, <2>4, <1>1, <1>3, ServerKept DEF Types
<1>. QED BY <1>4, <1>5

\* What a request of watch mode does to the server, by what it asks for and how it ends.
RenamedThere(op) ==
    /\ op.dir \in remote /\ op.to \notin remote /\ Renamed(op.dir, op.to, remote) \subseteq Dirs
    /\ remote' = Renamed(op.dir, op.to, remote) \cup Above(op.to)
    /\ rnote' = Renamed(op.dir, op.to, rnote)
    /\ fresh' = Renamed(op.dir, op.to, fresh)
    /\ late' = Renamed(op.dir, op.to, late) \cup (rnote' \ rnote)
    /\ etag' \in Etags \ {"same"}

LEMMA SendIs ==
    ASSUME Types, NEW op \in ops, Send(op)
    PROVE  /\ UNCHANGED <<vault, dropped>> /\ UNCHANGED rows /\ UNCHANGED <<session, skipped>> /\ skips' = skips
           /\ \/ op.kind = "create" /\ Created(op.dir) /\ Answered(op)
              \/ op.kind = "create" /\ NotCreated(op.dir) /\ Dropped(op)
              \/ op.kind = "delete" /\ Deleted(op.dir) /\ Answered(op) /\ proven' = proven
              \/ op.kind = "rename" /\ RenamedThere(op) /\ Answered(op)
                 /\ proven' = proven \cup Above(op.to)
              \/ /\ op.kind = "rename" /\ Dropped(op) /\ proven' = proven \cup Above(op.to)
                 /\ remote' = remote \cup Above(op.to) /\ rnote' = rnote /\ fresh' = fresh /\ late' = late
                 /\ etag' \in Etags /\ (etag' = "same" => etag = "same" /\ remote' = remote)
              \/ UNCHANGED <<server, proven, etag>> /\ Dropped(op)
<1>1. /\ UNCHANGED <<vault, dropped>> /\ UNCHANGED rows /\ UNCHANGED <<session, skipped>> /\ skips' = skips
  BY DEF Send
<1>2. CASE op.kind = "create" /\ Created(op.dir) /\ Answered(op) BY <1>1, <1>2
<1>3. CASE op.kind = "create" /\ NotCreated(op.dir) /\ Dropped(op) BY <1>1, <1>3
<1>4. CASE op.kind = "delete" /\ Deleted(op.dir) /\ Answered(op) /\ UNCHANGED <<proven, budgets>>
  BY <1>1, <1>4
<1>5. CASE /\ op.kind = "rename"
           /\ IF /\ op.dir \in remote /\ op.to \notin remote
                 /\ Renamed(op.dir, op.to, remote) \subseteq Dirs
              THEN /\ remote' = Renamed(op.dir, op.to, remote) \cup Above(op.to)
                   /\ rnote' = Renamed(op.dir, op.to, rnote)
                   /\ fresh' = Renamed(op.dir, op.to, fresh)
                   /\ late' = Renamed(op.dir, op.to, late) \cup (rnote' \ rnote) /\ Answered(op)
              ELSE remote' = remote \cup Above(op.to) /\ Dropped(op) /\ UNCHANGED <<rnote, fresh, late>>
           /\ IF remote' = remote THEN UNCHANGED etag ELSE Moved
           /\ proven' = proven \cup Above(op.to) /\ UNCHANGED budgets
  <2>1. /\ etag' \in Etags /\ (etag' = "same" => etag = "same" /\ remote' = remote)
        /\ (remote' # remote => etag' # "same")
    <3>1. CASE remote' = remote BY <3>1, <1>5 DEF Types, ClientIs
    <3>2. CASE remote' # remote BY <3>2, <1>5, MovedIs DEF Types, ClientIs
    <3>. QED BY <3>1, <3>2
  <2>2. CASE /\ op.dir \in remote /\ op.to \notin remote
             /\ Renamed(op.dir, op.to, remote) \subseteq Dirs
    <3>1. op.dir \in Dirs /\ op.to \in Dirs BY OpsLess
    <3>2. op.to \in Renamed(op.dir, op.to, remote) BY <2>2, <3>1, AtSelf, Below DEF Renamed
    <3>3. remote' # remote BY <2>2, <3>2, <1>5
    <3>. QED BY <3>3, <2>1, <2>2, <1>1, <1>5 DEF RenamedThere
  <2>3. CASE ~(/\ op.dir \in remote /\ op.to \notin remote
               /\ Renamed(op.dir, op.to, remote) \subseteq Dirs)
    BY <2>3, <2>1, <1>1, <1>5
  <2>. QED BY <2>2, <2>3
<1>6. CASE op.kind # "create" /\ Fail("request") /\ Dropped(op) /\ UNCHANGED <<server, proven, etag>>
  BY <1>1, <1>6
<1>. QED BY <1>2, <1>3, <1>4, <1>5, <1>6 DEF Send

LEMMA RenamedThereTypes ==
    ASSUME Types, NEW op \in ops, RenamedThere(op)
    PROVE  ServerIs' /\ op.to \in remote'
<1>1. op.dir \in Dirs /\ op.to \in Dirs BY OpsLess
<1>2. Tree(remote') /\ op.to \in remote' BY <1>1, RenamedTree DEF RenamedThere, Types, ServerIs
<1>3. /\ rnote \subseteq remote /\ fresh \subseteq rnote /\ late \subseteq rnote BY DEF Types, ServerIs
<1>4. /\ remote' = Renamed(op.dir, op.to, remote) \cup Above(op.to)
      /\ rnote' = Renamed(op.dir, op.to, rnote)
      /\ fresh' = Renamed(op.dir, op.to, fresh)
      /\ late' = Renamed(op.dir, op.to, late) \cup (rnote' \ rnote)
  BY DEF RenamedThere
<1>5. \A s, t : s \subseteq t => Renamed(op.dir, op.to, s) \subseteq Renamed(op.dir, op.to, t)
  BY DEF Renamed
<1>6. rnote' \subseteq remote' /\ fresh' \subseteq rnote' /\ late' \subseteq rnote'
  BY <1>3, <1>4, <1>5
<1>. QED BY <1>2, <1>6 DEF ServerIs

LEMMA SendTypes == ASSUME Types, NEW op \in ops, Send(op) PROVE Types' /\ Quiet
<1>1. /\ UNCHANGED <<vault, dropped>> /\ UNCHANGED rows /\ UNCHANGED <<session, skipped>> /\ skips' = skips
  BY SendIs
<1>2. op.dir \in Dirs /\ op.to \in Dirs BY OpsLess
<1>3. ServerIs' /\ etag' \in Etags /\ Quiet /\ proven' \subseteq Dirs /\ OpsAre'
  <2>1. CASE op.kind = "create" /\ Created(op.dir) /\ Answered(op) BY <2>1, <1>2, OpsLess, CreatedTypes
  <2>2. CASE op.kind = "create" /\ NotCreated(op.dir) /\ Dropped(op) BY <2>2, <1>2, OpsLess, NotCreatedTypes
  <2>3. CASE op.kind = "delete" /\ Deleted(op.dir) /\ Answered(op) /\ proven' = proven
    BY <2>3, <1>2, OpsLess, DeletedTypes DEF Types, ClientIs
  <2>4. CASE op.kind = "rename" /\ RenamedThere(op) /\ Answered(op) /\ proven' = proven \cup Above(op.to)
    <3>1. OpsAre' /\ ServerIs' BY <2>4, OpsLess, RenamedThereTypes
    <3>2. proven' \subseteq Dirs BY <2>4, <1>2, ChainsAre DEF Types, ClientIs
    <3>. QED BY <3>1, <3>2, <2>4 DEF RenamedThere, Quiet
  <2>5. CASE /\ op.kind = "rename" /\ Dropped(op) /\ proven' = proven \cup Above(op.to)
             /\ remote' = remote \cup Above(op.to) /\ rnote' = rnote /\ fresh' = fresh /\ late' = late
             /\ etag' \in Etags /\ (etag' = "same" => etag = "same" /\ remote' = remote)
    <3>1. OpsAre' BY <2>5, OpsLess
    <3>2. proven' \subseteq Dirs BY <2>5, <1>2, ChainsAre DEF Types, ClientIs
    <3>3. Tree(remote') BY <2>5, <1>2, ChainsAre, TreeUnion DEF Types, ServerIs
    <3>4. ServerIs' BY <3>3, <2>5 DEF Types, ServerIs
    <3>. QED BY <3>1, <3>2, <3>4, <2>5 DEF Quiet
  <2>6. CASE UNCHANGED <<server, proven, etag>> /\ Dropped(op)
    BY <2>6, OpsLess, ServerKept DEF server, Types, ClientIs, Quiet
  <2>. QED BY SendIs, <2>1, <2>2, <2>3, <2>4, <2>5, <2>6
<1>4. ClientIs' BY <1>1, <1>3 DEF Types, ClientIs
<1>. QED BY <1>1, <1>3, <1>4, ServerKept DEF Types

LEMMA RecordTypes == ASSUME Types, NEW op \in ops, Record(op) PROVE Types' /\ Quiet
<1>1. /\ UNCHANGED <<vault, dropped>> /\ UNCHANGED server /\ UNCHANGED <<proven, gate>>
      /\ UNCHANGED <<etag, remote>> /\ UNCHANGED <<session, skipped>> /\ tnote' = tnote /\ Dropped(op)
      /\ tracked' \subseteq tracked \cup {op.dir, op.to}
  BY DEF Record, server, gate
<1>2. RowsAre' BY <1>1, OpsLess DEF Types, RowsAre
<1>. QED BY <1>1, <1>2, OpsLess, ServerKept DEF Types

LEMMA NextTypes ==
    ASSUME Types, Next
    PROVE  Types' /\ (Quiet \/ StartSession)
<1>1. CASE UserNext BY <1>1, MkdirTypes, NoteTypes, RemoveTypes, RenameTypes DEF UserNext
<1>2. CASE ForeignNext BY <1>2, ForeignTypes DEF ForeignNext
<1>3. CASE SessionNext
  BY <1>3, StartTypes, ListTypes, ReconcileTypes, EndsTypes, DeleteTypes, TrashTypes, MkcolTypes, MkdirLocalTypes, ProbeTypes
     DEF SessionNext
<1>4. CASE RequestStop BY <1>4, StopTypes
<1>5. CASE ResolveNext BY <1>5, ResolveDeleteTypes, ResolveTrashTypes DEF ResolveNext
<1>6. CASE WatchNext BY <1>6, SendTypes, RecordTypes DEF WatchNext
<1>. QED BY <1>1, <1>2, <1>3, <1>4, <1>5, <1>6 DEF Next, Step

LEMMA BackTypes ==
    ASSUME Types, back \subseteq Dirs, [Next]_vars
    PROVE  (back \subseteq Dirs)'
<1>1. CASE Next
  <2>1. remote' \subseteq Dirs BY <1>1, NextTypes DEF Types, ServerIs, Tree
  <2>. QED BY <2>1, <1>1 DEF Next, PutBack
<1>. QED BY <1>1 DEF vars

LEMMA StutterTypes == Types /\ UNCHANGED vars => Types' /\ Quiet
<1>. SUFFICES ASSUME Types, UNCHANGED vars PROVE Types' /\ Quiet
  OBVIOUS
<1>1. /\ UNCHANGED <<vault, dropped>> /\ UNCHANGED server /\ UNCHANGED <<proven, gate>> /\ UNCHANGED rows
      /\ UNCHANGED <<etag, remote>> /\ UNCHANGED <<session, skipped>> /\ UNCHANGED ops
  BY DEF vars, vault, server, gate, rows, session
<1>. QED BY <1>1, ServerKept DEF Types

\* Vault and server stay trees with their notes in their folders, and the folder a
\* session is at stays one of its plan, whatever users, devices, failures and
\* operations of watch mode do at the same time.
THEOREM FoldersTyped == Spec => []TypeOK
<1> DEFINE I == Types /\ back \subseteq Dirs
<1>1. Init => I BY InitTypes DEF Init
<1>2. I /\ [Next]_vars => I' BY NextTypes, BackTypes, StutterTypes
<1>3. I => TypeOK BY Restated
<1>. QED BY <1>1, <1>2, <1>3, PTL DEF Spec
-----------------------------------------------------------------------------
(* What a trashed folder was on the server. *)

\* Where the session is, is the session's own affair.
LEMMA Control ==
    ASSUME Types, Next
    PROVE  \/ UNCHANGED <<pc, listing, plan, cur, err, omitted>>
           \/ SessionNext
<1>1. CASE UserNext
  BY <1>1 DEF UserNext, UserMkdir, UserNote, UserRemove, UserRename, session
<1>2. CASE ForeignNext
  BY <1>2 DEF ForeignNext, ForeignMkdir, ForeignNote, ForeignRemove, session
<1>3. CASE RequestStop BY <1>3 DEF RequestStop
<1>4. CASE ResolveNext BY <1>4 DEF ResolveNext, ResolveDelete, ResolveTrash, session
<1>5. CASE WatchNext BY <1>5 DEF WatchNext, Send, Record, session
<1>. QED BY <1>1, <1>2, <1>3, <1>4, <1>5 DEF Next, Step

\* The step a session takes, by where it is.
LEMMA Steps ==
    ASSUME SessionNext
    PROVE  /\ pc = "off" => StartSession
           /\ pc = "list" => List \/ ListPartly \/ ListFails
           /\ pc = "listed" => Reconcile
           /\ pc = "delete" => DeleteRemote
           /\ pc = "trash" => TrashLocal
           /\ pc = "work" => Finish \/ \E d \in Dirs : MkcolRemote(d) \/ MkdirLocal(d) \/ Probe(d) \/ Recheck(d)
           /\ pc \in {"off", "list", "listed", "work", "delete", "trash"}
<1>1. StartSession => pc = "off" BY DEF StartSession, Running
<1>2. List \/ ListPartly \/ ListFails => pc = "list" BY DEF List, ListPartly, ListFails
<1>3. Reconcile => pc = "listed" BY DEF Reconcile
<1>4. DeleteRemote => pc = "delete" BY DEF DeleteRemote
<1>5. TrashLocal => pc = "trash" BY DEF TrashLocal
<1>6. Finish => pc = "work" BY DEF Finish
<1>7. \A d \in Dirs : MkcolRemote(d) \/ MkdirLocal(d) \/ Probe(d) \/ Recheck(d) => pc = "work"
  BY TurnIs DEF MkcolRemote, MkdirLocal, Probe, Recheck
<1>. QED BY <1>1, <1>2, <1>3, <1>4, <1>5, <1>6, <1>7 DEF SessionNext

Asked == pc = "trash" => Sub(cur) \cap remote \subseteq back
\* Until the ETag moves, nothing comes back.
Rechecked == pc = "trash" /\ etag = "same" => Sub(cur) \cap remote = {}

\* Only the recheck of a folder leads to its trash, and it finds nothing of it.
LEMMA RecheckIs ==
    ASSUME Types, SessionNext, pc' = "trash"
    PROVE  Sub(cur') \cap remote' = {}
<1>1. ASSUME NEW d \in Dirs, Recheck(d) PROVE Sub(cur') \cap remote' = {}
  <2>1. Turn("trash", d) /\ remote' = remote BY <1>1 DEF Recheck, server
  <2>2. pc = "work" BY <2>1, TurnIs
  <2>3. d \notin remote /\ cur' = d BY <1>1, <2>2 DEF Recheck, GoneThere
  <2>4. remote \cap Sub(d) = {} BY <2>3, TreeCut DEF Types, ServerIs
  <2>. QED BY <2>1, <2>3, <2>4
<1>2. ASSUME NEW d \in Dirs, MkcolRemote(d) \/ MkdirLocal(d) \/ Probe(d) PROVE FALSE
  <2>1. pc = "work" BY <1>2, TurnIs DEF MkcolRemote, MkdirLocal, Probe
  <2>. QED BY <1>2, <2>1 DEF MkcolRemote, MkdirLocal, Probe
<1>3. ~StartSession BY DEF StartSession
<1>4. ~List /\ ~ListPartly /\ ~Reconcile BY DEF List, ListPartly, Listed, Reconcile
<1>5. ~ListFails /\ ~Finish BY DEF ListFails, Finish, End
<1>6. ~DeleteRemote /\ ~TrashLocal BY DEF DeleteRemote, TrashLocal
<1>. QED BY <1>1, <1>2, <1>3, <1>4, <1>5, <1>6 DEF SessionNext

LEMMA AskedStep == ASSUME Types, Asked, Next PROVE Asked'
<1>. SUFFICES ASSUME pc' = "trash" PROVE Sub(cur') \cap remote' \subseteq back'
  BY DEF Asked
<1>1. CASE UNCHANGED <<pc, listing, plan, cur, err, omitted>>
  <2>1. pc = "trash" /\ cur' = cur BY <1>1
  <2>2. back' = back \cup (remote' \ remote) BY <2>1 DEF Next, PutBack
  <2>. QED BY <2>1, <2>2 DEF Asked
<1>2. CASE SessionNext BY <1>2, RecheckIs
<1>. QED BY <1>1, <1>2, Control

LEMMA RecheckedStep == ASSUME Types, Rechecked, Next PROVE Rechecked'
<1>. SUFFICES ASSUME pc' = "trash", etag' = "same" PROVE Sub(cur') \cap remote' = {}
  BY DEF Rechecked
<1>1. CASE UNCHANGED <<pc, listing, plan, cur, err, omitted>>
  <2>1. pc = "trash" /\ cur' = cur BY <1>1
  <2>2. ~StartSession BY <2>1 DEF StartSession, Running
  <2>3. Quiet BY <2>2, NextTypes
  <2>. QED BY <2>1, <2>3 DEF Quiet, Rechecked
<1>2. CASE SessionNext BY <1>2, RecheckIs
<1>. QED BY <1>1, <1>2, Control

LEMMA TrashStep ==
    ASSUME Types, Asked, Next, pc = "trash", pc' = "work"
    PROVE  (local \ local') \cap remote \subseteq back
<1>1. SessionNext BY Control
<1>2. TrashLocal BY <1>1, Steps
<1>3. Trashed(cur) \/ UNCHANGED vault BY <1>2 DEF TrashLocal
<1>4. local \ local' \subseteq Sub(cur) BY <1>3 DEF Trashed, vault
<1>. QED BY <1>4 DEF Asked

\* Whatever the folders were compared with, a listing, part of one or the snapshot of a
\* short-circuited session, and however late watch mode's requests and rows come: what
\* is trashed here is not on the server, but for what came there since it was asked for.
THEOREM TrashedIsGone == Spec => TrashIsProven
<1> DEFINE I == Types /\ Asked
<1>1. Init => I BY InitTypes DEF Init, Asked
<1>2. I /\ [Next]_vars => I'
  <2>1. I /\ Next => I' BY NextTypes, AskedStep
  <2>2. I /\ UNCHANGED vars => I'
    <3>1. Asked /\ UNCHANGED vars => Asked' BY DEF Asked, vars
    <3>. QED BY <3>1, StutterTypes
  <2>. QED BY <2>1, <2>2
<1>3. I /\ [Next]_vars => (pc = "trash" /\ pc' = "work" => (local \ local') \cap remote \subseteq back)
  <2>1. UNCHANGED vars => pc' = pc BY DEF vars
  <2>. QED BY <2>1, TrashStep
<1>4. I /\ [Next]_vars => [pc = "trash" /\ pc' = "work" => (local \ local') \cap remote \subseteq back]_vars
  BY <1>3
<1>. QED BY <1>1, <1>2, <1>4, PTL DEF Spec, TrashIsProven
-----------------------------------------------------------------------------
(* What a collection DELETE takes along. *)

NoteMeant == pc = "delete" => rnote \cap Sub(cur) \subseteq late

LEMMA SendNotes ==
    ASSUME Types, NEW op \in ops, Send(op), NEW d, rnote \cap Sub(d) \subseteq late
    PROVE  rnote' \cap Sub(d) \subseteq late'
<1>1. op.dir \in Dirs /\ op.to \in Dirs BY OpsLess
<1>2. CASE Created(op.dir) BY <1>2, <1>1, CreatedTypes
<1>3. CASE NotCreated(op.dir) BY <1>3, <1>1, NotCreatedTypes
<1>4. CASE Deleted(op.dir) BY <1>4, <1>1, DeletedTypes
<1>5. CASE RenamedThere(op)
  <2>1. /\ rnote' = (rnote \ Sub(op.dir)) \cup {At(op.dir, op.to, f) : f \in rnote \cap Sub(op.dir)}
        /\ (late \ Sub(op.dir)) \cup (rnote' \ rnote) \subseteq late'
        /\ op.to \notin remote
    BY <1>5 DEF RenamedThere, Renamed
  <2>2. ASSUME NEW x \in rnote' \cap Sub(d) PROVE x \in late'
    <3>1. CASE x \notin rnote BY <2>1, <2>2, <3>1
    <3>2. CASE x \in rnote \ Sub(op.dir) BY <2>1, <2>2, <3>2
    <3>3. CASE x \in rnote \cap Sub(op.dir)
      <4>1. PICK f \in rnote \cap Sub(op.dir) : x = At(op.dir, op.to, f) BY <2>1, <2>2, <3>3
      <4>2. remote \cap Sub(op.to) = {} BY <2>1, <1>1, TreeCut DEF Types, ServerIs
      <4>3. x \in remote /\ x \in Dirs BY <3>3 DEF Types, ServerIs, Tree
      <4>4. x \in Sub(op.to) BY <4>1, <4>3, <1>1, AtBelow
      <4>. QED BY <4>2, <4>3, <4>4
    <3>. QED BY <3>1, <3>2, <3>3
  <2>. QED BY <2>2
<1>6. CASE rnote' = rnote /\ late' = late BY <1>6
<1>. QED BY SendIs, <1>2, <1>3, <1>4, <1>5, <1>6 DEF server

LEMMA NoteStep == ASSUME Types, NoteMeant, Next PROVE NoteMeant'
<1>. SUFFICES ASSUME pc' = "delete" PROVE rnote' \cap Sub(cur') \subseteq late'
  BY DEF NoteMeant
<1>1. CASE UserNext
  <2>1. UNCHANGED server /\ UNCHANGED session
    BY <1>1 DEF UserNext, UserMkdir, UserNote, UserRemove, UserRename
  <2>. QED BY <2>1 DEF NoteMeant, server, session
<1>2. CASE ForeignNext
  <2>1. PICK d \in Dirs : ForeignMkdir(d) \/ ForeignNote(d) \/ ForeignRemove(d) BY <1>2 DEF ForeignNext
  <2>2. pc = "delete" /\ cur' = cur BY <2>1 DEF ForeignMkdir, ForeignNote, ForeignRemove, session
  <2>3. CASE ForeignMkdir(d) BY <2>2, <2>3 DEF ForeignMkdir, NoteMeant
  <2>4. CASE ForeignNote(d) BY <2>2, <2>4 DEF ForeignNote, NoteMeant
  <2>5. CASE ForeignRemove(d)
    <3>1. Deleted(d) BY <2>5 DEF ForeignRemove
    <3>. QED BY <3>1, <2>2, DeletedTypes DEF NoteMeant
  <2>. QED BY <2>1, <2>3, <2>4, <2>5
<1>3. CASE SessionNext
  <2>1. ASSUME NEW d \in Dirs, Probe(d) PROVE rnote' \cap Sub(cur') \subseteq late'
    <3>1. Turn("delete", d) /\ rnote' = rnote BY <2>1 DEF Probe
    <3>2. pc = "work" BY <3>1, TurnIs
    <3>3. d \in remote \ rnote /\ Sub(d) \cap remote = {d} /\ cur' = d
      BY <2>1, <3>2 DEF Probe, EmptyThere
    <3>4. rnote \cap Sub(d) = {} BY <3>3 DEF Types, ServerIs
    <3>. QED BY <3>1, <3>3, <3>4
  <2>2. ASSUME NEW d \in Dirs, MkcolRemote(d) \/ MkdirLocal(d) \/ Recheck(d) PROVE FALSE
    <3>1. pc = "work" BY <2>2, TurnIs DEF MkcolRemote, MkdirLocal, Recheck
    <3>. QED BY <2>2, <3>1 DEF MkcolRemote, MkdirLocal, Recheck
  <2>3. ~StartSession BY DEF StartSession
  <2>4. ~List /\ ~ListPartly /\ ~Reconcile BY DEF List, ListPartly, Listed, Reconcile
  <2>5. ~ListFails /\ ~Finish BY DEF ListFails, Finish, End
  <2>6. ~DeleteRemote /\ ~TrashLocal BY DEF DeleteRemote, TrashLocal
  <2>. QED BY <1>3, <2>1, <2>2, <2>3, <2>4, <2>5, <2>6 DEF SessionNext
<1>4. CASE RequestStop BY <1>4 DEF RequestStop, NoteMeant, server
<1>5. CASE ResolveNext
  BY <1>5 DEF ResolveNext, ResolveDelete, ResolveTrash, Resolving, Running, session
<1>6. CASE WatchNext
  <2>1. PICK op \in ops : Send(op) \/ Record(op) BY <1>6 DEF WatchNext
  <2>2. UNCHANGED session BY <2>1 DEF Send, Record
  <2>3. pc = "delete" /\ cur' = cur BY <2>2 DEF session
  <2>4. CASE Send(op) BY <2>3, <2>4, SendNotes DEF NoteMeant
  <2>5. CASE Record(op) BY <2>3, <2>5 DEF Record, server, NoteMeant
  <2>. QED BY <2>1, <2>4, <2>5
<1>. QED BY <1>1, <1>2, <1>3, <1>4, <1>5, <1>6 DEF Next, Step
-----------------------------------------------------------------------------
(* A row is of a folder that is here or that the user removed here.        *)

Here == local \cup dropped

\* Before the listing there is no plan, and nothing is refused.
Idle == /\ pc \in {"off", "list", "listed"} => plan = NoPlan
        /\ pc \in {"list", "listed"} => skipped = NoSkip /\ err = FALSE
PlanMeant == /\ plan.mkcol \subseteq Here /\ plan.keep \subseteq Here
             /\ pc = "trash" => plan.mkcol = {}
             /\ \A t \in plan.trash : plan.keep \cap Sub(t) = {}
OpMeant(op) == /\ op.kind = "create" => op.dir \in Here
               /\ op.kind = "rename" => op.to \in Here
SkipMeant == /\ skipped.choice # "remote" => skipped.trash \subseteq Here
             /\ skipped.trash # {} => plan.trash = {}
Meant == Idle /\ tracked \subseteq Here /\ PlanMeant /\ (\A op \in ops : OpMeant(op)) /\ SkipMeant

\* A step that removes nothing here but what it notes, and leaves the session alone.
LEMMA MeantGrows ==
    ASSUME Meant, Here \subseteq Here', UNCHANGED <<pc, plan, err, skipped>>,
           tracked' \subseteq tracked \cup Here',
           \A op \in ops' : op \in ops \/ OpMeant(op)'
    PROVE  Meant'
<1>1. Idle' BY DEF Meant, Idle
<1>2. tracked' \subseteq Here' BY DEF Meant
<1>3. PlanMeant' BY DEF Meant, PlanMeant
<1>4. SkipMeant' BY DEF Meant, SkipMeant
<1>5. ASSUME NEW op \in ops' PROVE OpMeant(op)'
  <2>1. CASE op \in ops
    <3>1. OpMeant(op) BY <2>1 DEF Meant
    <3>. QED BY <3>1 DEF OpMeant
  <2>. QED BY <2>1
<1>6. (\A op \in ops : OpMeant(op))' BY <1>5
<1>. QED BY <1>1, <1>2, <1>3, <1>4, <1>6 DEF Meant

LEMMA UserMeant == ASSUME Types, Meant, UserNext PROVE Meant'
<1>1. /\ UNCHANGED <<pc, plan, err, skipped>> /\ tracked' = tracked
  BY DEF UserNext, UserMkdir, UserNote, UserRemove, UserRename, session, rows
<1>2. tracked \subseteq Here BY DEF Meant
<1>3. ASSUME NEW d \in Dirs, UserMkdir(d) PROVE Meant'
  <2>1. local' = local \cup {d} /\ dropped' = dropped \ {d} /\ ops' = ops \cup Creations({d})
    BY <1>3 DEF UserMkdir
  <2>2. Here \subseteq Here' /\ d \in Here' BY <2>1 DEF Here
  <2>3. \A op \in Creations({d}) : op.kind = "create" /\ op.dir = d BY OpsOf
  <2>4. \A op \in ops' : op \in ops \/ OpMeant(op)' BY <2>1, <2>2, <2>3 DEF OpMeant
  <2>. QED BY <1>1, <2>2, <2>4, MeantGrows
<1>4. ASSUME NEW d \in Dirs, UserNote(d) PROVE Meant'
  <2>1. Here \subseteq Here' /\ ops' = ops BY <1>4 DEF UserNote, Here
  <2>. QED BY <1>1, <2>1, MeantGrows
<1>5. ASSUME NEW d \in Dirs, UserRemove(d) PROVE Meant'
  <2>1. /\ local' = local \ Sub(d) /\ dropped' = dropped \cup (Sub(d) \cap local)
        /\ ops' = ops \cup Deletions(Sub(d) \cap local)
    BY <1>5 DEF UserRemove
  <2>2. Here \subseteq Here' BY <2>1 DEF Here
  <2>3. \A op \in Deletions(Sub(d) \cap local) : op.kind = "delete" BY ChainsAre, OpsOf
  <2>4. \A op \in ops' : op \in ops \/ OpMeant(op)' BY <2>1, <2>3 DEF OpMeant
  <2>. QED BY <1>1, <2>2, <2>4, MeantGrows
<1>6. ASSUME NEW d \in Dirs, NEW e \in Dirs, UserRename(d, e) PROVE Meant'
  <2>1. /\ local' = Renamed(d, e, local) /\ dropped' = (dropped \cup (Sub(d) \cap local)) \ local'
        /\ ops' = ops \cup {Op("rename", d, e)}
    BY <1>6 DEF UserRename
  <2>2. local \subseteq local' \cup (Sub(d) \cap local) BY <2>1 DEF Renamed
  <2>3. Here \subseteq Here' BY <2>1, <2>2 DEF Here
  <2>4. e \in Here' BY <1>6, RenameTypes DEF Here
  <2>5. Op("rename", d, e).kind = "rename" /\ Op("rename", d, e).to = e BY DEF Op
  <2>6. \A op \in ops' : op \in ops \/ OpMeant(op)' BY <2>1, <2>4, <2>5 DEF OpMeant
  <2>. QED BY <1>1, <2>3, <2>6, MeantGrows
<1>. QED BY <1>3, <1>4, <1>5, <1>6 DEF UserNext

LEMMA OutsideMeant == ASSUME Types, Meant, ForeignNext \/ RequestStop PROVE Meant'
<1>1. /\ UNCHANGED <<pc, plan, err, skipped>> /\ tracked' = tracked /\ ops' = ops
      /\ local' = local /\ dropped' = dropped
  BY DEF ForeignNext, ForeignMkdir, ForeignNote, ForeignRemove, RequestStop, session, rows, vault
<1>2. Here \subseteq Here' BY <1>1 DEF Here
<1>. QED BY <1>1, <1>2, MeantGrows

LEMMA WatchMeant == ASSUME Types, Meant, WatchNext PROVE Meant'
<1>1. PICK op \in ops : Send(op) \/ Record(op) BY DEF WatchNext
<1>2. UNCHANGED <<pc, plan, err, skipped>> /\ local' = local /\ dropped' = dropped
  BY <1>1 DEF Send, Record, session, vault
<1>3. Here' = Here BY <1>2 DEF Here
<1>4. OpMeant(op) BY DEF Meant
<1>5. \A o \in ops' : o \in ops \/ OpMeant(o)'
  <2>1. Answered(op) \/ Dropped(op) BY <1>1, SendIs DEF Record
  <2>2. ASSUME NEW o \in ops', o \notin ops PROVE OpMeant(o)'
    <3>1. /\ o = [op EXCEPT !.at = "record"]
          /\ [op EXCEPT !.at = "record"].kind = op.kind /\ [op EXCEPT !.at = "record"].dir = op.dir
          /\ [op EXCEPT !.at = "record"].to = op.to
      BY <2>1, <2>2, OpsLess
    <3>. QED BY <3>1, <1>3, <1>4 DEF OpMeant
  <2>. QED BY <2>2
<1>6. tracked' \subseteq tracked \cup Here
  <2>1. CASE Send(op) BY <2>1 DEF Send, rows
  <2>2. CASE Record(op)
    <3>1. op.kind \in {"create", "delete", "rename"} BY OpsLess
    <3>2. tracked' = CASE op.kind = "create" -> tracked \cup {op.dir}
                       [] op.kind = "delete" -> tracked \ {op.dir}
                       [] OTHER -> (tracked \ {op.dir}) \cup {op.to}
      BY <2>2 DEF Record
    <3>3. CASE op.kind = "create" BY <3>2, <3>3, <1>4 DEF OpMeant
    <3>4. CASE op.kind = "delete" BY <3>2, <3>4
    <3>5. CASE op.kind = "rename" BY <3>2, <3>5, <1>4 DEF OpMeant
    <3>. QED BY <3>1, <3>3, <3>4, <3>5
  <2>. QED BY <1>1, <2>1, <2>2
<1>. QED BY <1>2, <1>3, <1>5, <1>6, MeantGrows

LEMMA StartMeant == ASSUME Types, Meant, StartSession PROVE Meant'
<1>1. /\ tracked' = tracked /\ plan' = plan /\ dropped' = dropped \ local' /\ skipped' = NoSkip
      /\ err' = FALSE /\ pc' \in {"list", "listed"} /\ pc = "off"
  BY DEF StartSession, Running
<1>2. PICK s \in SUBSET Dirs : local' = local \cup s /\ ops' = ops \cup Creations(s \ local)
  <2> DEFINE listed == IF ShortCircuit THEN tnote ELSE rnote
             gone == (listed \cap tnote) \ lnote
             down == (listed \ (lnote \cup tnote)) \cup (gone \cap fresh)
  <2>1. local' = local \cup ChainAll(down) /\ ops' = ops \cup Creations(ChainAll(down) \ local)
    BY DEF StartSession
  <2>2. down \subseteq Dirs BY DEF Types, VaultIs, ServerIs, RowsAre, Tree
  <2>3. ChainAll(down) \in SUBSET Dirs BY <2>2, ChainsAre DEF Tree
  <2>. QED BY <2>1, <2>3
<1>3. Here \subseteq Here' /\ s \subseteq Here' BY <1>1, <1>2 DEF Here
<1>4. Idle' BY <1>1 DEF Meant, Idle
<1>5. PlanMeant' BY <1>1, <1>3 DEF Meant, PlanMeant
<1>6. SkipMeant' BY <1>1 DEF SkipMeant, NoSkip
<1>7. (\A op \in ops : OpMeant(op))'
  <2>1. ASSUME NEW op \in ops' PROVE OpMeant(op)'
    <3>1. CASE op \in ops
      <4>1. OpMeant(op) BY <3>1 DEF Meant
      <4>. QED BY <4>1, <1>3 DEF OpMeant
    <3>2. CASE op \in Creations(s \ local)
      <4>1. op.kind = "create" /\ op.dir \in s BY <3>2, OpsOf
      <4>. QED BY <4>1, <1>3 DEF OpMeant
    <3>. QED BY <3>1, <3>2, <1>2
  <2>. QED BY <2>1
<1>8. tracked' \subseteq Here' BY <1>1, <1>3 DEF Meant
<1>. QED BY <1>4, <1>5, <1>6, <1>7, <1>8 DEF Meant

LEMMA ReconcileMeant ==
    ASSUME Types, Meant, Reconcile
    PROVE  /\ plan'.delete \subseteq dropped
           /\ SnapshotWhole => Meant'
<1> DEFINE R == listing
           p == Classify(R)
<1>1. /\ local' = local /\ dropped' = dropped /\ tracked' = tracked /\ ops' = ops /\ pc' = "work"
      /\ \/ Refuse(p)
         \/ plan' = p /\ UNCHANGED <<skipped, err>>
      /\ skipped = NoSkip
  BY DEF Reconcile, vault, rows, Meant, Idle
<1>2. Here' = Here BY <1>1 DEF Here
<1>3. /\ p.mkcol = local \ (R \cup tracked) /\ p.keep = local \cap R /\ p.trash = (local \cap tracked) \ R
      /\ p.delete = (R \cap tracked) \ local
  BY DEF Classify
<1>4. p.delete \subseteq dropped BY <1>3 DEF Meant, Here
<1>5. SnapshotWhole => \A t \in p.trash : R \cap Sub(t) = {}
  <2>1. \A t \in p.trash : t \in Dirs /\ t \notin R BY <1>3 DEF Types, VaultIs, Tree
  <2>2. R \subseteq Dirs BY DEF Types, SessionIs
  <2>3. SnapshotWhole => Tree(R) BY <2>2 DEF SnapshotWhole, Tree, Above
  <2>. QED BY <2>1, <2>3, TreeCut
<1>6. CASE Refuse(p)
  <2>1. /\ plan' = [p EXCEPT !.delete = {}, !.trash = {}]
        /\ skipped' = [NoSkip EXCEPT !.delete = p.delete, !.trash = p.trash]
    BY <1>6 DEF Refuse
  <2>2. plan'.mkcol = p.mkcol /\ plan'.keep = p.keep /\ plan'.trash = {} /\ plan'.delete = {}
    BY <2>1 DEF Classify
  <2>3. skipped'.trash = p.trash BY <2>1 DEF NoSkip
  <2>4. PlanMeant' BY <2>2, <1>1, <1>3 DEF PlanMeant, Here
  <2>5. SkipMeant' BY <2>2, <2>3, <1>1, <1>3 DEF SkipMeant, Here
  <2>6. Idle' BY <1>1 DEF Idle
  <2>. QED BY <2>2, <2>4, <2>5, <2>6, <1>1, <1>2 DEF Meant, OpMeant
<1>7. CASE plan' = p /\ UNCHANGED <<skipped, err>>
  <2>1. SnapshotWhole => PlanMeant'
    <3>1. SnapshotWhole => \A t \in p.trash : p.keep \cap Sub(t) = {} BY <1>3, <1>5
    <3>. QED BY <3>1, <1>7, <1>1, <1>3 DEF PlanMeant, Here
  <2>2. SkipMeant' BY <1>7, <1>1 DEF SkipMeant, NoSkip
  <2>3. Idle' BY <1>1 DEF Idle
  <2>. QED BY <2>1, <2>2, <2>3, <1>1, <1>2, <1>4, <1>7 DEF Meant, OpMeant
<1>. QED BY <1>1, <1>6, <1>7

LEMMA ListMeant == ASSUME Types, Meant, List \/ ListPartly PROVE Meant'
<1>1. /\ local' = local /\ dropped' = dropped /\ tracked' = tracked /\ ops' = ops
      /\ UNCHANGED <<plan, err, skipped>> /\ pc = "list" /\ pc' = "listed"
  BY DEF List, ListPartly, Listed, vault, rows
<1>2. Here' = Here BY <1>1 DEF Here
<1>. QED BY <1>1, <1>2 DEF Meant, Idle, PlanMeant, SkipMeant, OpMeant

LEMMA EndMeant == ASSUME Types, Meant, ListFails \/ Finish PROVE Meant'
<1>1. /\ local' = local /\ dropped' = dropped /\ ops' = ops /\ skipped' = skipped
      /\ pc' = "off" /\ plan' = NoPlan
  BY DEF ListFails, Finish, End, vault
<1>2. Here' = Here BY <1>1 DEF Here
<1>3. tracked' \subseteq Here
  <2>1. CASE ListFails BY <2>1 DEF ListFails, rows, Meant
  <2>2. CASE Finish BY <2>2 DEF Finish, Meant, PlanMeant
  <2>. QED BY <2>1, <2>2
<1>4. Idle' BY <1>1 DEF Idle
<1>5. PlanMeant' BY <1>1 DEF PlanMeant, NoPlan
<1>6. SkipMeant' BY <1>1, <1>2 DEF Meant, SkipMeant, NoPlan
<1>. QED BY <1>1, <1>2, <1>3, <1>4, <1>5, <1>6 DEF Meant, OpMeant

\* A step of the session's work: the plan shrinks, and what is here does not.
LEMMA WorkMeant ==
    ASSUME Meant, Here \subseteq Here', pc' \in {"work", "delete", "trash"}, skipped' = skipped,
           plan'.mkcol \subseteq plan.mkcol, plan'.keep = plan.keep, plan'.trash \subseteq plan.trash,
           pc' = "trash" => plan'.mkcol = {},
           tracked' \subseteq Here',
           \A op \in ops' : op \in ops \/ OpMeant(op)'
    PROVE  Meant'
<1>1. Idle' BY DEF Idle
<1>2. PlanMeant' BY DEF Meant, PlanMeant
<1>3. SkipMeant' BY DEF Meant, SkipMeant
<1>4. ASSUME NEW op \in ops' PROVE OpMeant(op)'
  <2>1. CASE op \in ops
    <3>1. OpMeant(op) BY <2>1 DEF Meant
    <3>. QED BY <3>1 DEF OpMeant
  <2>. QED BY <2>1
<1>5. (\A op \in ops : OpMeant(op))' BY <1>4
<1>. QED BY <1>1, <1>2, <1>3, <1>5 DEF Meant

LEMMA FolderMeant ==
    ASSUME Types, Meant, NEW d \in Dirs, MkcolRemote(d) \/ MkdirLocal(d) \/ Probe(d) \/ Recheck(d)
    PROVE  Meant'
<1>1. CASE MkcolRemote(d)
  <2>1. /\ Turn("mkcol", d) /\ Past("mkcol", d) /\ local' = local /\ dropped' = dropped /\ ops' = ops
        /\ pc' = pc /\ skipped' = skipped /\ tracked' \subseteq tracked \cup {d}
    BY <1>1 DEF MkcolRemote, vault
  <2>2. pc = "work" /\ d \in plan.mkcol BY <2>1, TurnIs
  <2>3. plan'.mkcol \subseteq plan.mkcol /\ plan'.keep = plan.keep /\ plan'.trash = plan.trash BY <2>1, PastIs
  <2>4. Here' = Here BY <2>1 DEF Here
  <2>5. tracked' \subseteq Here BY <2>1, <2>2 DEF Meant, PlanMeant
  <2>. QED BY <2>1, <2>2, <2>3, <2>4, <2>5, WorkMeant
<1>2. CASE MkdirLocal(d)
  <2>1. /\ Turn("mkdir", d) /\ Past("mkdir", d) /\ pc' = pc /\ skipped' = skipped
        /\ \/ /\ local' = local \cup Chain(d) /\ tracked' = tracked \cup {d}
              /\ ops' = ops \cup Creations(Chain(d) \ local)
              /\ dropped' = dropped \ Chain(d)
           \/ UNCHANGED <<local, tracked, ops, dropped>>
    BY <1>2 DEF MkdirLocal
  <2>2. pc = "work" BY <2>1, TurnIs
  <2>3. plan'.mkcol = plan.mkcol /\ plan'.keep = plan.keep /\ plan'.trash = plan.trash BY <2>1, PastIs
  <2>4. CASE UNCHANGED <<local, tracked, ops, dropped>>
    <3>1. Here' = Here /\ tracked' \subseteq Here BY <2>4 DEF Here, Meant
    <3>. QED BY <2>1, <2>2, <2>3, <2>4, <3>1, WorkMeant
  <2>5. CASE /\ local' = local \cup Chain(d) /\ tracked' = tracked \cup {d}
             /\ ops' = ops \cup Creations(Chain(d) \ local)
             /\ dropped' = dropped \ Chain(d)
    <3>1. Here \subseteq Here' /\ Chain(d) \subseteq Here' BY <2>5 DEF Here
    <3>2. tracked' \subseteq Here' BY <3>1, <2>5, Below DEF Meant
    <3>3. \A op \in Creations(Chain(d) \ local) : op.kind = "create" /\ op.dir \in Chain(d)
      BY ChainsAre, OpsOf
    <3>4. \A op \in ops' : op \in ops \/ OpMeant(op)' BY <2>5, <3>1, <3>3 DEF OpMeant
    <3>. QED BY <2>1, <2>2, <2>3, <3>1, <3>2, <3>4, WorkMeant
  <2>. QED BY <2>1, <2>4, <2>5
<1>3. CASE Probe(d)
  <2>1. /\ Turn("delete", d) /\ local' = local /\ dropped' = dropped /\ ops' = ops /\ tracked' = tracked
        /\ skipped' = skipped
        /\ \/ pc' = "delete" /\ plan' = plan
           \/ pc' = pc /\ Past("delete", d)
    BY <1>3 DEF Probe, vault, rows
  <2>2. pc = "work" BY <2>1, TurnIs
  <2>3. plan'.mkcol = plan.mkcol /\ plan'.keep = plan.keep /\ plan'.trash = plan.trash BY <2>1, PastIs
  <2>4. Here' = Here /\ tracked' \subseteq Here BY <2>1 DEF Here, Meant
  <2>. QED BY <2>1, <2>2, <2>3, <2>4, WorkMeant
<1>4. CASE Recheck(d)
  <2>1. /\ Turn("trash", d) /\ local' = local /\ dropped' = dropped /\ ops' = ops /\ tracked' = tracked
        /\ skipped' = skipped
        /\ \/ pc' = "trash" /\ plan' = plan
           \/ pc' = pc /\ Past("trash", d)
    BY <1>4 DEF Recheck, vault, rows
  <2>2. pc = "work" /\ plan.mkcol = {} BY <2>1, TurnIs
  <2>3. plan'.mkcol = plan.mkcol /\ plan'.keep = plan.keep /\ plan'.trash \subseteq plan.trash BY <2>1, PastIs
  <2>4. Here' = Here /\ tracked' \subseteq Here BY <2>1 DEF Here, Meant
  <2>. QED BY <2>1, <2>2, <2>3, <2>4, WorkMeant
<1>. QED BY <1>1, <1>2, <1>3, <1>4

LEMMA DeleteMeant == ASSUME Types, Meant, DeleteRemote PROVE Meant'
<1>1. /\ Past("delete", cur) /\ local' = local /\ dropped' = dropped /\ ops' = ops
      /\ pc' = "work" /\ skipped' = skipped /\ tracked' \subseteq tracked
  BY DEF DeleteRemote, vault
<1>2. plan'.mkcol = plan.mkcol /\ plan'.keep = plan.keep /\ plan'.trash = plan.trash BY <1>1, PastIs
<1>3. Here' = Here /\ tracked' \subseteq Here BY <1>1 DEF Here, Meant
<1>. QED BY <1>1, <1>2, <1>3, WorkMeant

\* What the session trashes is not what the user removed: the rows go with it, and
\* the folders that are kept are not below it.
LEMMA TrashMeant == ASSUME Types, Meant, TrashLocal, ops = {} PROVE Meant'
<1>1. /\ Past("trash", cur) /\ dropped' = dropped /\ ops' = ops
      /\ pc = "trash" /\ pc' = "work" /\ skipped' = skipped
      /\ Trashed(cur) \/ UNCHANGED <<vault, rows>>
  BY DEF TrashLocal
<1>2. /\ plan'.mkcol = plan.mkcol /\ plan'.keep = plan.keep /\ plan'.trash = plan.trash \ {cur}
  BY <1>1, PastIs
<1>3. cur \in plan.trash BY <1>1, CurIs
<1>4. /\ plan.mkcol = {} /\ plan.keep \subseteq Here /\ plan.keep \cap Sub(cur) = {} /\ skipped.trash = {}
      /\ \A t \in plan.trash : plan.keep \cap Sub(t) = {}
  BY <1>1, <1>3 DEF Meant, PlanMeant, SkipMeant
<1>5. CASE UNCHANGED <<vault, rows>>
  <2>1. Here' = Here /\ tracked' \subseteq Here BY <1>1, <1>5 DEF Here, Meant, vault, rows
  <2>. QED BY <1>1, <1>2, <2>1, WorkMeant
<1>6. CASE Trashed(cur)
  <2>1. local' = local \ Sub(cur) /\ tracked' = tracked \ Sub(cur) BY <1>6 DEF Trashed, Forget
  <2>2. Here \ Sub(cur) \subseteq Here' BY <2>1, <1>1 DEF Here
  <2>3. tracked' \subseteq Here' BY <2>1, <2>2 DEF Meant
  <2>4. PlanMeant' BY <1>1, <1>2, <1>4, <2>2 DEF PlanMeant
  <2>5. SkipMeant' BY <1>1, <1>4 DEF SkipMeant
  <2>6. Idle' BY <1>1 DEF Idle
  <2>. QED BY <1>1, <2>3, <2>4, <2>5, <2>6 DEF Meant
<1>. QED BY <1>1, <1>5, <1>6

LEMMA ResolveMeant == ASSUME Types, Meant, ResolveNext, ~Overlap PROVE Meant'
<1>1. ops = {} BY DEF ResolveNext, Alone
<1>2. PICK d \in Dirs, c \in {"remote", "local"} : ResolveDelete(d, c) \/ ResolveTrash(d, c)
  BY DEF ResolveNext
<1>3. ~Running /\ skipped.choice \in {"none", c} /\ UNCHANGED session /\ skipped \in Skips
  BY <1>2 DEF ResolveDelete, ResolveTrash, Resolving, Types, SkippedIs
<1>4. pc = "off" /\ pc' = "off" /\ plan = NoPlan /\ plan' = NoPlan
  BY <1>3 DEF Running, session, Meant, Idle
<1>5. Idle' /\ PlanMeant' BY <1>4 DEF Idle, PlanMeant, NoPlan
<1>6. tracked \subseteq Here BY DEF Meant
<1>7. CASE ResolveDelete(d, c)
  <2>1. skipped' = [skipped EXCEPT !.delete = @ \ {d}, !.choice = c] BY <1>7 DEF ResolveDelete
  <2>2. skipped'.trash = skipped.trash /\ skipped'.choice = c BY <2>1, <1>3 DEF Skips
  <2>3. CASE c = "remote"
    <3>1. /\ local' = local \cup Chain(d) /\ tracked' = tracked \cup {d}
          /\ ops' = ops \cup Creations(Chain(d) \ local) /\ dropped' = dropped \ Chain(d)
      BY <1>7, <2>3 DEF ResolveDelete
    <3>2. Here \subseteq Here' /\ Chain(d) \subseteq Here' BY <3>1 DEF Here
    <3>3. tracked' \subseteq Here' BY <3>1, <3>2, <1>6, Below
    <3>4. \A op \in Creations(Chain(d) \ local) : op.kind = "create" /\ op.dir \in Chain(d)
      BY ChainsAre, OpsOf
    <3>5. (\A op \in ops : OpMeant(op))' BY <3>1, <3>2, <3>4, <1>1 DEF OpMeant
    <3>6. SkipMeant' BY <2>2, <2>3, <1>4 DEF SkipMeant, NoPlan
    <3>. QED BY <1>5, <3>3, <3>5, <3>6 DEF Meant
  <2>4. CASE c # "remote"
    <3>1. tracked' = tracked \ {d} /\ local' = local /\ ops' = ops /\ dropped' = dropped
      BY <1>7, <2>4 DEF ResolveDelete
    <3>2. Here' = Here BY <3>1 DEF Here
    <3>3. skipped.choice # "remote" BY <1>3, <2>4
    <3>4. SkipMeant' BY <2>2, <3>2, <3>3, <1>4 DEF Meant, SkipMeant, NoPlan
    <3>. QED BY <1>1, <1>5, <1>6, <3>1, <3>2, <3>4 DEF Meant
  <2>. QED BY <2>3, <2>4
<1>8. CASE ResolveTrash(d, c)
  <2>1. /\ skipped' = [skipped EXCEPT !.trash = @ \ {d}, !.choice = c] /\ d \in skipped.trash
        /\ ops' = ops /\ dropped' = dropped
    BY <1>8 DEF ResolveTrash
  <2>2. skipped'.trash = skipped.trash \ {d} /\ skipped'.choice = c BY <2>1, <1>3 DEF Skips
  <2>3. CASE c = "remote"
    <3>1. local' = local \ Sub(d) /\ tracked' = tracked \ Sub(d)
      BY <1>8, <2>3 DEF ResolveTrash, Trashed, Forget
    <3>2. tracked' \subseteq Here' BY <3>1, <2>1, <1>6 DEF Here
    <3>3. SkipMeant' BY <2>2, <2>3, <1>4 DEF SkipMeant, NoPlan
    <3>. QED BY <1>1, <1>5, <2>1, <3>2, <3>3 DEF Meant
  <2>4. CASE c # "remote"
    <3>1. tracked' = tracked \cup {d} /\ local' = local BY <1>8, <2>4 DEF ResolveTrash, vault
    <3>2. Here' = Here BY <3>1, <2>1 DEF Here
    <3>3. skipped.choice # "remote" /\ skipped.trash \subseteq Here
      BY <1>3, <2>4 DEF Meant, SkipMeant
    <3>4. tracked' \subseteq Here' BY <3>1, <3>2, <3>3, <2>1, <1>6
    <3>5. SkipMeant' BY <2>2, <3>2, <3>3, <1>4 DEF SkipMeant, NoPlan
    <3>. QED BY <1>1, <1>5, <2>1, <3>4, <3>5 DEF Meant
  <2>. QED BY <2>3, <2>4
<1>. QED BY <1>2, <1>7, <1>8

LEMMA MeantStep == ASSUME Types, Meant, SnapshotWhole, ~Overlap, Next PROVE Meant'
<1>1. SessionNext => ops = {} BY DEF SessionNext, Alone
<1>2. CASE SessionNext
  BY <1>1, <1>2, StartMeant, ListMeant, ReconcileMeant, EndMeant, DeleteMeant, TrashMeant, FolderMeant
     DEF SessionNext
<1>. QED BY <1>2, UserMeant, OutsideMeant, ResolveMeant, WatchMeant DEF Next, Step

LEMMA InitMeant == Init => Meant /\ NoteMeant
  BY DEF Init, Meant, NoteMeant, Idle, PlanMeant, SkipMeant, NoPlan, NoSkip

LEMMA StutterMeant == Meant /\ NoteMeant /\ UNCHANGED vars => (Meant /\ NoteMeant)'
<1>. SUFFICES ASSUME Meant, NoteMeant, UNCHANGED vars PROVE (Meant /\ NoteMeant)'
  OBVIOUS
<1>1. /\ local' = local /\ dropped' = dropped /\ tracked' = tracked /\ ops' = ops /\ rnote' = rnote /\ late' = late
      /\ UNCHANGED <<pc, plan, err, skipped>> /\ cur' = cur
  BY DEF vars
<1>2. Here \subseteq Here' BY <1>1 DEF Here
<1>3. Meant' BY <1>1, <1>2, MeantGrows
<1>. QED BY <1>1, <1>3 DEF NoteMeant

LEMMA DeletionStep ==
    ASSUME Types, Meant, NoteMeant, Next
    PROVE  /\ pc = "listed" /\ pc' = "work" => plan'.delete \subseteq dropped
           /\ pc = "delete" /\ pc' = "work" => rnote \ rnote' \subseteq late
<1>1. ASSUME pc = "listed", pc' = "work" PROVE plan'.delete \subseteq dropped
  <2>1. SessionNext BY <1>1, Control
  <2>2. Reconcile BY <2>1, <1>1, Steps
  <2>. QED BY <2>2, ReconcileMeant
<1>2. ASSUME pc = "delete", pc' = "work" PROVE rnote \ rnote' \subseteq late
  <2>1. SessionNext BY <1>2, Control
  <2>2. DeleteRemote BY <2>1, <1>2, Steps
  <2>3. Deleted(cur) \/ rnote' = rnote BY <2>2 DEF DeleteRemote, server
  <2>4. cur \in Dirs BY <1>2, CurIs
  <2>5. CASE Deleted(cur)
    <3>1. rnote \ rnote' \subseteq Sub(cur) BY <2>4, <2>5, DeletedTypes
    <3>. QED BY <3>1, <1>2 DEF NoteMeant
  <2>. QED BY <2>3, <2>5
<1>. QED BY <1>1, <1>2

\* If no operation of watch mode lasts longer than a step of a session, and the rows a
\* short-circuited session takes for the server never have a folder without the one
\* above it: a session plans to delete on the server only what the user removed here,
\* never what it trashed itself, could not make or never had; and its DELETE of a
\* collection takes no note but one put there since that very folder was seen empty.
THEOREM DeletedIsMeant == ASSUME ~Overlap PROVE Spec /\ []SnapshotWhole => DeletionIsMeant
<1> DEFINE I == Types /\ Meant /\ NoteMeant
           A == /\ pc = "listed" /\ pc' = "work" => plan'.delete \subseteq dropped
                /\ pc = "delete" /\ pc' = "work" => rnote \ rnote' \subseteq late
<1>1. Init => I BY InitTypes, InitMeant
<1>2. I /\ SnapshotWhole /\ [Next]_vars => I'
  <2>1. I /\ SnapshotWhole /\ Next => I' BY NextTypes, MeantStep, NoteStep
  <2>. QED BY <2>1, StutterTypes, StutterMeant
<1>3. I /\ [Next]_vars => [A]_vars BY DeletionStep
<1>. QED BY <1>1, <1>2, <1>3, PTL DEF Spec, DeletionIsMeant
-----------------------------------------------------------------------------
(* While the root ETag is the server's, its folders are known.             *)

Same == etag = "same"
Working == pc \in {"work", "delete", "trash"}
KnownOff == pc = "off" /\ Same => remote \subseteq tracked \cup omitted
\* What folders are compared with leaves out what watch mode made since, which moved the ETag.
KnownListed == pc = "listed" /\ Same => remote \subseteq listing \cup omitted
\* Those the session works on have a row, or will have one when it ends.
KnownWork == Working /\ Same /\ ~err => /\ remote \subseteq tracked \cup plan.keep \cup plan.mkdir \cup omitted
                                        /\ remote \cap plan.forget \subseteq omitted
\* An answered request of watch mode changed the server, or there was nothing to change.
OpKnown(op) == op.at = "record" /\ Same => op.kind # "rename" /\ (op.kind = "delete" => op.dir \notin remote)
RefusedKnown == Refused /\ ~Running => ~Same
Known == KnownOff /\ KnownListed /\ KnownWork /\ (\A op \in ops : OpKnown(op)) /\ RefusedKnown

LEMMA OpsKnown ==
    ASSUME Known, Quiet, \A op \in ops' : op \in ops \/ OpKnown(op)'
    PROVE  (\A op \in ops : OpKnown(op))'
<1>1. ASSUME NEW op \in ops' PROVE OpKnown(op)'
  <2>1. CASE op \in ops
    <3>1. OpKnown(op) BY <2>1 DEF Known
    <3>. QED BY <3>1 DEF OpKnown, Quiet, Same
  <2>. QED BY <2>1
<1>. QED BY <1>1

\* A step that leaves the session alone, and takes no row of a folder of the server.
LEMMA KnownQuiet ==
    ASSUME Types, Known, Quiet, UNCHANGED <<pc, listing, plan, err, omitted>>, Refused' => Refused,
           Same' => tracked \cap remote' \subseteq tracked',
           \A op \in ops' : op \in ops \/ OpKnown(op)'
    PROVE  Known'
<1>1. KnownOff' BY DEF Known, KnownOff, Quiet, Same
<1>2. KnownWork' /\ KnownListed' BY DEF Known, KnownWork, KnownListed, Working, Quiet, Same
<1>3. RefusedKnown' BY DEF Known, RefusedKnown, Running, Quiet, Same
<1>. QED BY <1>1, <1>2, <1>3, OpsKnown DEF Known

LEMMA OutsideKnown ==
    ASSUME Types, Known, UserNext \/ ForeignNext \/ RequestStop
    PROVE  Known'
<1>1. /\ UNCHANGED <<pc, listing, plan, err, omitted>> /\ skipped' = skipped /\ tracked' = tracked
  BY DEF UserNext, UserMkdir, UserNote, UserRemove, UserRename,
         ForeignNext, ForeignMkdir, ForeignNote, ForeignRemove, RequestStop, session, rows
<1>2. Quiet
  BY MkdirTypes, NoteTypes, RemoveTypes, RenameTypes, ForeignTypes, StopTypes DEF UserNext, ForeignNext
<1>3. ASSUME NEW op \in ops', op \notin ops PROVE op.at = "send"
  <2>1. UserNext BY <1>3 DEF ForeignNext, ForeignMkdir, ForeignNote, ForeignRemove, RequestStop
  <2>2. PICK d \in Dirs : \/ op \in Creations({d})
                          \/ op \in Deletions(Sub(d) \cap local)
                          \/ \E e \in Dirs : op = Op("rename", d, e)
    <3>1. ASSUME NEW d \in Dirs, UserMkdir(d) PROVE op \in Creations({d})
      BY <1>3, <3>1 DEF UserMkdir
    <3>2. ASSUME NEW d \in Dirs, UserNote(d) PROVE FALSE
      BY <1>3, <3>2 DEF UserNote
    <3>3. ASSUME NEW d \in Dirs, UserRemove(d) PROVE op \in Deletions(Sub(d) \cap local)
      BY <1>3, <3>3 DEF UserRemove
    <3>4. ASSUME NEW d \in Dirs, NEW e \in Dirs, UserRename(d, e) PROVE op = Op("rename", d, e)
      BY <1>3, <3>4 DEF UserRename
    <3>. QED BY <2>1, <3>1, <3>2, <3>3, <3>4 DEF UserNext
  <2>3. Sub(d) \cap local \in SUBSET Dirs BY ChainsAre
  <2>4. \A e \in Dirs : Op("rename", d, e).at = "send" BY DEF Op
  <2>. QED BY <2>2, <2>3, <2>4, OpsOf
<1>4. \A op \in ops' : op \in ops \/ OpKnown(op)' BY <1>3 DEF OpKnown
<1>. QED BY <1>1, <1>2, <1>4, KnownQuiet DEF Refused

LEMMA WatchKnown == ASSUME Types, Known, WatchNext PROVE Known'
<1>1. PICK op \in ops : Send(op) \/ Record(op) BY DEF WatchNext
<1>2. OpKnown(op) /\ op.kind \in {"create", "delete", "rename"} /\ op.dir \in Dirs BY OpsLess DEF Known
<1>3. CASE Send(op)
  <2>1. UNCHANGED <<pc, listing, plan, err, omitted>> /\ skipped' = skipped /\ tracked' = tracked
    BY <1>3, SendIs DEF session, rows
  <2>2. Quiet BY <1>3, SendTypes
  <2>3. ASSUME NEW o \in ops', o \notin ops PROVE OpKnown(o)'
    <3>1. ~Dropped(op) BY <2>3 DEF Dropped
    <3>2. \/ op.kind = "create" /\ Answered(op)
          \/ op.kind = "delete" /\ Deleted(op.dir) /\ Answered(op)
          \/ op.kind = "rename" /\ RenamedThere(op) /\ Answered(op)
      BY <1>3, <3>1, SendIs
    <3>3. /\ o = [op EXCEPT !.at = "record"]
          /\ [op EXCEPT !.at = "record"].kind = op.kind /\ [op EXCEPT !.at = "record"].dir = op.dir
      BY <3>2, <2>3, OpsLess
    <3>4. CASE op.kind = "create" BY <3>3, <3>4 DEF OpKnown
    <3>5. CASE op.kind = "delete" /\ Deleted(op.dir)
      <4>1. op.dir \notin remote' BY <3>5, <1>2, DeletedTypes
      <4>. QED BY <4>1, <3>3, <3>5 DEF OpKnown
    <3>6. CASE RenamedThere(op) BY <3>6 DEF RenamedThere, OpKnown, Same
    <3>. QED BY <3>2, <3>4, <3>5, <3>6
  <2>. QED BY <2>1, <2>2, <2>3, KnownQuiet DEF Refused
<1>4. CASE Record(op)
  <2>1. /\ UNCHANGED <<pc, listing, plan, err, omitted>> /\ skipped' = skipped /\ ops' \subseteq ops
        /\ remote' = remote /\ etag' = etag /\ op.at = "record"
        /\ tracked' = CASE op.kind = "create" -> tracked \cup {op.dir}
                        [] op.kind = "delete" -> tracked \ {op.dir}
                        [] OTHER -> (tracked \ {op.dir}) \cup {op.to}
    BY <1>4 DEF Record, session, server, gate, Dropped
  <2>2. Quiet BY <2>1 DEF Quiet
  <2>3. ASSUME Same' PROVE tracked \cap remote' \subseteq tracked'
    <3>1. Same BY <2>1, <2>3 DEF Same
    <3>2. CASE op.kind = "create" BY <2>1, <3>2
    <3>3. CASE op.kind = "delete"
      <4>1. op.dir \notin remote BY <3>1, <3>3, <2>1, <1>2 DEF OpKnown
      <4>. QED BY <4>1, <3>3, <2>1
    <3>4. CASE op.kind = "rename" BY <3>1, <3>4, <2>1, <1>2 DEF OpKnown
    <3>. QED BY <1>2, <3>2, <3>3, <3>4
  <2>. QED BY <2>1, <2>2, <2>3, KnownQuiet DEF Refused
<1>. QED BY <1>1, <1>3, <1>4

\* While something is refused the session that refused it left no ETag.
LEMMA ResolveKnown == ASSUME Types, Known, ResolveNext PROVE Known'
<1>1. PICK d \in Dirs, c \in {"remote", "local"} : ResolveDelete(d, c) \/ ResolveTrash(d, c)
  BY DEF ResolveNext
<1>2. Quiet /\ ~Running BY <1>1, ResolveDeleteTypes, ResolveTrashTypes
<1>3. Refused BY <1>1 DEF ResolveDelete, ResolveTrash, Refused
<1>4. ~Same' BY <1>2, <1>3 DEF Known, RefusedKnown, Quiet, Same
<1>. QED BY <1>4 DEF Known, KnownOff, KnownListed, KnownWork, OpKnown, RefusedKnown

LEMMA StartKnown == ASSUME Types, Known, StartSession, ops = {} PROVE Known'
<1> DEFINE listed == IF ShortCircuit THEN tnote ELSE rnote
           up == lnote \ (listed \cup tnote)
           gone == (listed \cap tnote) \ lnote
           down == (listed \ (lnote \cup tnote)) \cup (gone \cap fresh)
<1>1. /\ remote' = remote \cup ChainAll(up)
      /\ ops' = ops \cup Creations(ChainAll(down) \ local)
      /\ etag' = (IF up = {} /\ gone \ fresh = {} THEN "same" ELSE "stale")
      /\ pc' = "list" \/ (pc' = "listed" /\ ShortCircuit /\ listing' = tracked)
      /\ skipped' = NoSkip /\ tracked' = tracked /\ omitted' = omitted /\ pc = "off"
  BY DEF StartSession, Running
<1>2. KnownListed' /\ KnownOff'
  <2>1. SUFFICES ASSUME pc' = "listed", etag' = "same" PROVE remote' \subseteq tracked \cup omitted
    BY <1>1 DEF KnownListed, KnownOff, Same
  <2>2. up = {} BY <1>1, <2>1
  <2>3. remote' = remote BY <1>1, <2>2 DEF ChainAll
  <2>4. Same BY <1>1, <2>1 DEF ShortCircuit, Same
  <2>. QED BY <1>1, <2>3, <2>4 DEF Known, KnownOff
<1>3. KnownWork' BY <1>1 DEF KnownWork, Working
<1>4. (\A op \in ops : OpKnown(op))'
  <2>1. down \subseteq Dirs BY DEF Types, VaultIs, ServerIs, RowsAre, Tree
  <2>2. ChainAll(down) \ local \in SUBSET Dirs BY <2>1, ChainsAre DEF Tree
  <2>3. \A op \in ops' : op.at = "send" BY <1>1, <2>2, OpsOf
  <2>. QED BY <2>3 DEF OpKnown
<1>5. RefusedKnown' BY <1>1 DEF RefusedKnown, Refused, NoSkip
<1>. QED BY <1>2, <1>3, <1>4, <1>5 DEF Known

LEMMA ListKnown == ASSUME Types, Known, List \/ ListPartly PROVE Known'
<1>1. PICK R \in SUBSET remote : Listed(R) /\ omitted' = remote \ R
  <2>1. CASE List BY <2>1 DEF List
  <2>2. CASE ListPartly
    <3>1. PICK left \in SUBSET remote : omitted' = left /\ Listed(remote \ left) BY <2>2 DEF ListPartly
    <3>. QED BY <3>1
  <2>. QED BY <2>1, <2>2
<1>2. /\ remote' = remote /\ ops' = ops /\ etag' = etag /\ pc' = "listed" /\ listing' = R
  BY <1>1 DEF Listed, server, gate
<1>3. Quiet BY <1>2 DEF Quiet
<1>4. KnownListed' BY <1>1, <1>2 DEF KnownListed
<1>5. KnownOff' /\ KnownWork' BY <1>2 DEF KnownOff, KnownWork, Working
<1>6. RefusedKnown'
  <2>1. skipped' = skipped /\ pc' # "off" BY <1>1 DEF Listed
  <2>. QED BY <2>1 DEF RefusedKnown, Running
<1>7. \A op \in ops' : op \in ops BY <1>2
<1>. QED BY <1>3, <1>4, <1>5, <1>6, <1>7, OpsKnown DEF Known

LEMMA ReconcileKnown == ASSUME Types, Known, Reconcile PROVE Known'
<1> DEFINE p == Classify(listing)
<1>1. /\ remote' = remote /\ tracked' = tracked /\ ops' = ops /\ etag' = etag /\ omitted' = omitted
      /\ pc = "listed" /\ pc' = "work"
      /\ \/ Refuse(p)
         \/ plan' = p /\ UNCHANGED <<skipped, err>>
  BY DEF Reconcile, server, rows, gate
<1>2. Quiet BY <1>1 DEF Quiet
<1>3. KnownOff' /\ KnownListed' /\ RefusedKnown'
  BY <1>1 DEF KnownOff, KnownListed, RefusedKnown, Running
<1>4. KnownWork'
  <2>1. CASE Refuse(p)
    <3>1. err' = TRUE BY <2>1 DEF Refuse
    <3>. QED BY <3>1 DEF KnownWork
  <2>2. CASE plan' = p
    <3>1. /\ p.keep = local \cap listing /\ p.mkdir = listing \ (local \cup tracked)
          /\ p.forget = tracked \ (local \cup listing)
      BY DEF Classify
    <3>2. Same => remote \subseteq listing \cup omitted BY <1>1 DEF Known, KnownListed
    <3>. QED BY <3>1, <3>2, <2>2, <1>1 DEF KnownWork, Same
  <2>. QED BY <1>1, <2>1, <2>2
<1>5. \A op \in ops' : op \in ops BY <1>1
<1>. QED BY <1>2, <1>3, <1>4, <1>5, OpsKnown DEF Known

LEMMA EndKnown == ASSUME Types, Known, ListFails \/ Finish PROVE Known'
<1>1. /\ pc' = "off" /\ remote' = remote /\ ops' = ops /\ skipped' = skipped /\ Running
      /\ (etag' = "same" => etag = "same" /\ ~err)
  BY DEF ListFails, Finish, End, Gate, server, Running
<1>2. Quiet BY <1>1 DEF Quiet
<1>3. RefusedKnown' BY <1>1 DEF Types, SkippedIs, RefusedKnown, Refused, Same
<1>4. KnownWork' /\ KnownListed' BY <1>1 DEF KnownWork, KnownListed, Working
<1>5. KnownOff'
  <2>1. CASE ListFails BY <1>1, <2>1 DEF ListFails, KnownOff
  <2>2. CASE Finish
    <3>1. /\ tracked' = (tracked \cup plan.keep) \ plan.forget /\ omitted' = omitted \cup plan.mkdir
          /\ pc = "work"
      BY <2>2 DEF Finish
    <3>2. ASSUME Same' PROVE remote' \subseteq tracked' \cup omitted'
      <4>1. /\ remote \subseteq tracked \cup plan.keep \cup plan.mkdir \cup omitted
            /\ remote \cap plan.forget \subseteq omitted
        BY <3>1, <3>2, <1>1 DEF Known, KnownWork, Working, Same
      <4>. QED BY <4>1, <3>1, <1>1
    <3>. QED BY <3>2 DEF KnownOff
  <2>. QED BY <2>1, <2>2
<1>6. \A op \in ops' : op \in ops BY <1>1
<1>. QED BY <1>2, <1>3, <1>4, <1>5, <1>6, OpsKnown DEF Known

\* A step of the session's work: a folder of the server that leaves the rows or the
\* plan goes to the other.
LEMMA WorkKnown ==
    ASSUME Types, Known, Quiet, Working, Working', err' = err \/ err' = TRUE, omitted' = omitted,
           plan'.keep = plan.keep, plan'.forget = plan.forget,
           Same' /\ ~err' => remote' \cap (tracked \cup plan.mkdir) \subseteq tracked' \cup plan'.mkdir,
           \A op \in ops' : op \in ops \/ OpKnown(op)'
    PROVE  Known'
<1>1. KnownOff' /\ KnownListed' /\ RefusedKnown'
  BY DEF Working, KnownOff, KnownListed, RefusedKnown, Running
<1>2. KnownWork'
  <2>1. SUFFICES ASSUME Same', ~err'
                 PROVE  /\ remote' \subseteq tracked' \cup plan'.keep \cup plan'.mkdir \cup omitted'
                        /\ remote' \cap plan'.forget \subseteq omitted'
    BY DEF KnownWork
  <2>2. Same /\ remote' \subseteq remote BY <2>1 DEF Quiet, Same
  <2>3. ~err BY <2>1
  <2>4. /\ remote \subseteq tracked \cup plan.keep \cup plan.mkdir \cup omitted
        /\ remote \cap plan.forget \subseteq omitted
    BY <2>2, <2>3 DEF Known, KnownWork
  <2>. QED BY <2>1, <2>2, <2>4
<1>. QED BY <1>1, <1>2, OpsKnown DEF Known

LEMMA FolderKnown ==
    ASSUME Types, Known, NEW d \in Dirs, MkcolRemote(d) \/ MkdirLocal(d) \/ Probe(d) \/ Recheck(d)
    PROVE  Known'
<1>1. CASE MkcolRemote(d)
  <2>1. /\ Turn("mkcol", d) /\ Past("mkcol", d) /\ ops' = ops /\ pc' = pc /\ omitted' = omitted
        /\ tracked \subseteq tracked' /\ (err' = err \/ err' = TRUE)
    BY <1>1 DEF MkcolRemote
  <2>2. pc = "work" BY <2>1, TurnIs
  <2>3. plan'.mkdir = plan.mkdir /\ plan'.keep = plan.keep /\ plan'.forget = plan.forget BY <2>1, PastIs
  <2>4. Quiet BY <1>1, MkcolTypes
  <2>5. Working /\ Working' BY <2>1, <2>2 DEF Working
  <2>. QED BY <2>1, <2>3, <2>4, <2>5, WorkKnown
<1>2. CASE MkdirLocal(d)
  <2>1. /\ Turn("mkdir", d) /\ Past("mkdir", d) /\ pc' = pc /\ omitted' = omitted
        /\ (err' = err \/ err' = TRUE)
        /\ \/ tracked' = tracked \cup {d} /\ ops' = ops \cup Creations(Chain(d) \ local)
           \/ err' = TRUE /\ ops' = ops
    BY <1>2 DEF MkdirLocal
  <2>2. pc = "work" BY <2>1, TurnIs
  <2>3. plan'.mkdir = plan.mkdir \ {d} /\ plan'.keep = plan.keep /\ plan'.forget = plan.forget
    BY <2>1, PastIs
  <2>4. Quiet BY <1>2, MkdirLocalTypes
  <2>5. Working /\ Working' BY <2>1, <2>2 DEF Working
  <2>6. ~err' => remote' \cap (tracked \cup plan.mkdir) \subseteq tracked' \cup plan'.mkdir BY <2>1, <2>3
  <2>7. \A op \in ops' : op \in ops \/ OpKnown(op)'
    <3>1. \A op \in Creations(Chain(d) \ local) : op.at = "send" BY ChainsAre, OpsOf
    <3>. QED BY <2>1, <3>1 DEF OpKnown
  <2>. QED BY <2>1, <2>3, <2>4, <2>5, <2>6, <2>7, WorkKnown
<1>3. CASE Probe(d)
  <2>1. /\ Turn("delete", d) /\ ops' = ops /\ tracked' = tracked /\ omitted' = omitted /\ err' = err
        /\ \/ pc' = "delete" /\ plan' = plan
           \/ pc' = pc /\ Past("delete", d)
    BY <1>3 DEF Probe, rows
  <2>2. pc = "work" BY <2>1, TurnIs
  <2>3. plan'.mkdir = plan.mkdir /\ plan'.keep = plan.keep /\ plan'.forget = plan.forget BY <2>1, PastIs
  <2>4. Quiet BY <1>3, ProbeTypes
  <2>5. Working /\ Working' BY <2>1, <2>2 DEF Working
  <2>. QED BY <2>1, <2>3, <2>4, <2>5, WorkKnown
<1>4. CASE Recheck(d)
  <2>1. /\ Turn("trash", d) /\ ops' = ops /\ tracked' = tracked /\ omitted' = omitted /\ err' = err
        /\ \/ pc' = "trash" /\ plan' = plan
           \/ pc' = pc /\ Past("trash", d)
    BY <1>4 DEF Recheck, rows
  <2>2. pc = "work" BY <2>1, TurnIs
  <2>3. plan'.mkdir = plan.mkdir /\ plan'.keep = plan.keep /\ plan'.forget = plan.forget BY <2>1, PastIs
  <2>4. Quiet BY <1>4, ProbeTypes
  <2>5. Working /\ Working' BY <2>1, <2>2 DEF Working
  <2>. QED BY <2>1, <2>3, <2>4, <2>5, WorkKnown
<1>. QED BY <1>1, <1>2, <1>3, <1>4

LEMMA DeleteKnown == ASSUME Types, Known, DeleteRemote PROVE Known'
<1>1. /\ Past("delete", cur) /\ ops' = ops /\ pc = "delete" /\ pc' = "work" /\ omitted' = omitted
      /\ (err' = err \/ err' = TRUE)
      /\ (Deleted(cur) /\ tracked' = tracked \ {cur}) \/ tracked' = tracked
  BY DEF DeleteRemote
<1>2. plan'.mkdir = plan.mkdir /\ plan'.keep = plan.keep /\ plan'.forget = plan.forget BY <1>1, PastIs
<1>3. Quiet BY DeleteTypes
<1>4. Working /\ Working' BY <1>1 DEF Working
<1>5. tracked \cap remote' \subseteq tracked'
  <2>1. cur \in Dirs BY <1>1, CurIs
  <2>2. Deleted(cur) => cur \notin remote' BY <2>1, DeletedTypes
  <2>. QED BY <1>1, <2>2
<1>. QED BY <1>1, <1>2, <1>3, <1>4, <1>5, WorkKnown

LEMMA TrashKnown == ASSUME Types, Known, Rechecked, TrashLocal PROVE Known'
<1>1. /\ Past("trash", cur) /\ ops' = ops /\ pc = "trash" /\ pc' = "work" /\ omitted' = omitted
      /\ (err' = err \/ err' = TRUE) /\ remote' = remote /\ etag' = etag
      /\ tracked \ Sub(cur) \subseteq tracked'
  BY DEF TrashLocal, Trashed, Forget, rows, server, gate
<1>2. plan'.mkdir = plan.mkdir /\ plan'.keep = plan.keep /\ plan'.forget = plan.forget BY <1>1, PastIs
<1>3. Quiet BY TrashTypes
<1>4. Working /\ Working' BY <1>1 DEF Working
<1>5. Same' => tracked \cap remote' \subseteq tracked' BY <1>1 DEF Rechecked, Same
<1>. QED BY <1>1, <1>2, <1>3, <1>4, <1>5, WorkKnown

LEMMA KnownStep == ASSUME Types, Known, Rechecked, ~Overlap, Next PROVE Known'
<1>1. SessionNext => ops = {} BY DEF SessionNext, Alone
<1>2. CASE SessionNext
  BY <1>1, <1>2, StartKnown, ListKnown, ReconcileKnown, EndKnown, DeleteKnown, TrashKnown, FolderKnown
     DEF SessionNext
<1>. QED BY <1>2, OutsideKnown, ResolveKnown, WatchKnown DEF Next, Step

\* If no operation of watch mode lasts longer than a step of a session: while the root
\* ETag lets a session take the rows for the server, every folder of the server has a
\* row, or the last real listing left it out, failed or was stopped; however often
\* requests fail, other devices come and go and the breaker refuses.
THEOREM FoldersSafe == ASSUME ~Overlap PROVE Spec => []Safety
<1> DEFINE I == Types /\ back \subseteq Dirs /\ Known /\ Rechecked
<1>1. Init => I
  <2>1. Init => Known /\ Rechecked /\ back \subseteq Dirs
    BY DEF Init, Known, KnownOff, KnownListed, KnownWork, Working, RefusedKnown, Refused, NoSkip, Rechecked
  <2>. QED BY <2>1, InitTypes
<1>2. I /\ [Next]_vars => I'
  <2>1. I /\ Next => I' BY NextTypes, BackTypes, KnownStep, RecheckedStep
  <2>2. I /\ UNCHANGED vars => I'
    <3>1. Rechecked /\ UNCHANGED vars => Rechecked' BY DEF Rechecked, vars
    <3>2. Known /\ UNCHANGED vars => Known'
      BY DEF Known, KnownOff, KnownListed, KnownWork, OpKnown, Working, RefusedKnown, Refused, Running, Same, vars
    <3>. QED BY <3>1, <3>2, BackTypes, StutterTypes
  <2>. QED BY <2>1, <2>2
<1>3. I => Safety BY Restated DEF Known, KnownOff, Running, Same, Safety, NothingHidden
<1>. QED BY <1>1, <1>2, <1>3, PTL DEF Spec
=============================================================================
